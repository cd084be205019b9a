---------------------------- MODULE EventStoreAbs ----------------------------
(***************************************************************************)
(* What the event management system of Proj2 promises to the sessions that *)
(* call it (Proj2/server/operations.h): every call to ems_create,          *)
(* ems_reserve, ems_show and ems_list_events takes effect in one step      *)
(* between its invocation and its return, whatever the other threads do.   *)
(* A reservation takes all of its seats or none of them, and a show or a   *)
(* list answers from one single state of the system.                       *)
(***************************************************************************)
EXTENDS Naturals, Sequences

CONSTANTS
  Workers,      \* the threads that call the operations
  EventIds,     \* event identifiers a client may name
  Shapes,       \* <<rows, cols>> a client may ask for
  SeatLists     \* sequences of <<row, col>> a client may ask for

VARIABLES
  events,       \* sequence of events, in the order of their creation
  call,         \* call[w]: the call worker w is executing
  reply         \* reply[w]: its answer, or NoReply before it took effect

vars == <<events, call, reply>>

NoReply == [err |-> "none"]
NoCall  == [op |-> "none"]
Success == [err |-> "ok"]
Failure == [err |-> "error"]
Lost    == [err |-> "lost"]      \* the answer could not be written

Calls ==
  [op : {"create"}, id : EventIds, shape : Shapes]
    \cup [op : {"reserve"}, id : EventIds, seats : SeatLists]
    \cup [op : {"show"}, id : EventIds]
    \cup [op : {"list"}]

Cells(rows, cols) == 0 .. (rows * cols - 1)
Index(e, s) == (s[1] - 1) * e.cols + s[2] - 1
InBounds(e, s) == s[1] \in 1 .. e.rows /\ s[2] \in 1 .. e.cols
Asked(e, seats) == {Index(e, seats[k]) : k \in DOMAIN seats}

Exists(id) == \E p \in DOMAIN events : events[p].id = id

Init ==
  /\ events = <<>>
  /\ call = [w \in Workers |-> NoCall]
  /\ reply = [w \in Workers |-> NoReply]

Invoke(w) ==
  /\ call[w] = NoCall
  /\ \E c \in Calls : call' = [call EXCEPT ![w] = c]
  /\ UNCHANGED <<events, reply>>

Return(w) ==
  /\ reply[w] # NoReply
  /\ call' = [call EXCEPT ![w] = NoCall]
  /\ reply' = [reply EXCEPT ![w] = NoReply]
  /\ UNCHANGED events

Pending(w, op) == call[w].op = op /\ reply[w] = NoReply
Answer(w, r)   == reply' = [reply EXCEPT ![w] = r] /\ UNCHANGED call

\* A create adds a new event with all its seats free; it fails, and changes
\* nothing, when the identifier is taken or memory runs out.
Create(w) ==
  /\ Pending(w, "create")
  /\ \/ /\ ~ Exists(call[w].id)
        /\ LET rows == call[w].shape[1]
               cols == call[w].shape[2]
           IN  events' = Append(events,
                  [id |-> call[w].id, rows |-> rows, cols |-> cols,
                   reservations |-> 0,
                   data |-> [i \in Cells(rows, cols) |-> 0]])
        /\ Answer(w, Success)
     \/ Answer(w, Failure) /\ UNCHANGED events

\* A reservation of seats that all exist and are all free gives every one
\* of them the next reservation number of the event.
Grant(w, p) ==
  LET e == events[p] seats == call[w].seats
  IN  /\ e.id = call[w].id
      /\ \A k \in DOMAIN seats : InBounds(e, seats[k])
      /\ \A i \in Asked(e, seats) : e.data[i] = 0
      /\ events' = [events EXCEPT
           ![p].reservations = @ + 1,
           ![p].data = [i \in DOMAIN @ |->
              IF i \in Asked(e, seats) THEN e.reservations + 1 ELSE @[i]]]
      /\ Answer(w, Success)

\* It fails only for a reason: no such event, a seat that does not exist, or
\* a seat that is taken.
Refuse(w) ==
  /\ \A p \in DOMAIN events : events[p].id = call[w].id =>
       \E k \in DOMAIN call[w].seats :
          LET s == call[w].seats[k]
          IN  \/ ~ InBounds(events[p], s)
              \/ events[p].data[Index(events[p], s)] # 0
  /\ Answer(w, Failure)
  /\ UNCHANGED events

Reserve(w) ==
  /\ Pending(w, "reserve")
  /\ Refuse(w) \/ \E p \in DOMAIN events : Grant(w, p)

\* A show answers with the seats of one instant.
Show(w) ==
  /\ Pending(w, "show")
  /\ UNCHANGED events
  /\ \/ ~ Exists(call[w].id) /\ Answer(w, Failure)
     \/ \E p \in DOMAIN events :
          /\ events[p].id = call[w].id
          /\ Answer(w, [err |-> "ok", rows |-> events[p].rows,
                        cols |-> events[p].cols, seats |-> events[p].data])
     \/ Answer(w, Lost)

\* A list answers with every event of one instant, each once.
List(w) ==
  /\ Pending(w, "list")
  /\ UNCHANGED events
  /\ \/ events = <<>> /\ Answer(w, Failure)
     \/ /\ events # <<>>
        /\ Answer(w, [err |-> "ok", num_events |-> Len(events),
                      ids |-> [p \in DOMAIN events |-> events[p].id]])
     \/ Answer(w, Lost)

Next == \E w \in Workers :
  Invoke(w) \/ Create(w) \/ Reserve(w) \/ Show(w) \/ List(w) \/ Return(w)

Spec == Init /\ [][Next]_vars
=============================================================================
