------------------------------ MODULE EventStore ------------------------------
(***************************************************************************)
(* The event management system of Proj2 (Proj2/server/operations.c and     *)
(* eventlist.c) as its threads execute it.  The worker threads call        *)
(* ems_create, ems_reserve, ems_show and ems_list_events; the thread that  *)
(* serves SIGUSR1 calls show_EMS.  Two kinds of lock protect the state:    *)
(* the read-write lock rwl of the list of events and the mutex of each     *)
(* event.  A step is what one thread does between two points at which      *)
(* another thread can see the difference: taking a lock, reading or        *)
(* writing shared memory, releasing a lock.                                *)
(*                                                                         *)
(* An event pointer is the position of its node in the list: nodes are     *)
(* appended and never unlinked.  MaxEvents is where malloc stops giving    *)
(* memory (it may fail before) and MaxCalls the number of calls each       *)
(* thread makes; both only bound the instance that TLC explores.           *)
(***************************************************************************)
EXTENDS Integers, Sequences, FiniteSets

CONSTANTS
  Workers,      \* the worker threads
  Printer,      \* the thread that calls show_EMS
  NoOne,        \* owner of a lock nobody holds
  EventIds,     \* event identifiers a client may name
  Shapes,       \* <<rows, cols>> a client may ask for
  SeatLists,    \* sequences of <<row, col>> a client may ask for
  MaxEvents,    \* bound: events that fit in memory
  MaxCalls      \* bound: calls made by each thread

ASSUME ThreadsAssumption ==
  /\ Printer \notin Workers
  /\ NoOne \notin Workers \cup {Printer}

ASSUME ArgumentsAssumption ==
  /\ Shapes \subseteq Nat \X Nat
  /\ SeatLists \subseteq Seq(Nat \X Nat) \ {<<>>}

ASSUME BoundsAssumption == MaxEvents \in Nat /\ MaxCalls \in Nat

VARIABLES
  list,         \* the nodes of event_list, each with its struct Event
  num_events,   \* event_list->num_events
  readers,      \* threads that hold event_list->rwl for reading
  writer,       \* the thread that holds it for writing, or NoOne
  pc,           \* where each worker is in its call
  call,         \* the call and its arguments
  reply,        \* what the call returns, or NoReply
  event,        \* local event pointer (0 is NULL)
  pos,          \* local loop index
  reservation_id, \* local of ems_reserve
  response_seats, \* local of ems_show
  calls,        \* calls made so far
  printer       \* locals of show_EMS: where it is, the node, what it printed

shared  == <<list, num_events>>
rwl     == <<readers, writer>>
locals  == <<call, event, pos, reservation_id, response_seats, calls>>
vars    == <<shared, rwl, pc, reply, locals, printer>>

NoReply == [err |-> "none"]
NoCall  == [op |-> "none"]
Success == [err |-> "ok"]
Failure == [err |-> "error"]
Lost    == [err |-> "lost"]

Calls ==
  [op : {"create"}, id : EventIds, shape : Shapes]
    \cup [op : {"reserve"}, id : EventIds, seats : SeatLists]
    \cup [op : {"show"}, id : EventIds]
    \cup [op : {"list"}]

Threads == Workers \cup {Printer}

-----------------------------------------------------------------------------
(* The locks and the helpers of the operations.                            *)

WrLock(t)   == writer = NoOne /\ readers = {} /\ writer' = t /\ UNCHANGED readers
WrUnlock(t) == writer' = NoOne /\ UNCHANGED readers

\* Mutant: a reader does not wait for the writer.
RdLock_IgnoresWriter(t) == readers' = readers \cup {t} /\ UNCHANGED writer

RdLock(t)   == writer = NoOne /\ readers' = readers \cup {t} /\ UNCHANGED writer
RdUnlock(t) == readers' = readers \ {t} /\ UNCHANGED writer

\* Mutant: the mutex is not waited for.
MutexLock_NoWait(w, p) == list' = [list EXCEPT ![p].mutex = w]

MutexLock(w, p) ==
  /\ list[p].mutex = NoOne
  /\ list' = [list EXCEPT ![p].mutex = w]
MutexUnlock(w, p) == list' = [list EXCEPT ![p].mutex = NoOne]

\* get_event: the first node with the identifier, or NULL
Matches(id) == {p \in DOMAIN list : list[p].id = id}
get_event(id) ==
  IF Matches(id) = {} THEN 0
  ELSE CHOOSE p \in Matches(id) : \A q \in Matches(id) : p <= q

Cells(rows, cols) == 0 .. (rows * cols - 1)
seat_index(e, s)  == (s[1] - 1) * e.cols + s[2] - 1
InBounds(e, s) ==
  ~ (s[1] <= 0 \/ s[1] > e.rows \/ s[2] <= 0 \/ s[2] > e.cols)
Asked(e, seats) == {seat_index(e, seats[k]) : k \in DOMAIN seats}

\* Mutant: calloc of one cell less.
NewEvent_ShortCalloc(id, shape) ==
  [id |-> id, rows |-> shape[1], cols |-> shape[2], reservations |-> 0,
   data |-> [i \in Cells(shape[1], shape[2] - 1) |-> 0], mutex |-> NoOne]

NewEvent(id, shape) ==
  [id |-> id, rows |-> shape[1], cols |-> shape[2], reservations |-> 0,
   data |-> [i \in Cells(shape[1], shape[2]) |-> 0], mutex |-> NoOne]

Goto(w, from, to) == pc[w] = from /\ pc' = [pc EXCEPT ![w] = to]
Answer(w, r)      == reply' = [reply EXCEPT ![w] = r]

-----------------------------------------------------------------------------
Init ==
  /\ list = <<>> /\ num_events = 0
  /\ readers = {} /\ writer = NoOne
  /\ pc = [w \in Workers |-> "idle"]
  /\ call = [w \in Workers |-> NoCall]
  /\ reply = [w \in Workers |-> NoReply]
  /\ event = [w \in Workers |-> 0]
  /\ pos = [w \in Workers |-> 0]
  /\ reservation_id = [w \in Workers |-> 0]
  /\ response_seats = [w \in Workers |-> <<>>]
  /\ calls = [w \in Workers |-> 0]
  /\ printer = [pc |-> "idle", node |-> 0, seats |-> <<>>, calls |-> 0]

\* The worker read a request of its client and calls the operation.
Invoke(w) ==
  /\ calls[w] < MaxCalls
  /\ \E c \in Calls :
       /\ Goto(w, "idle", c.op)
       /\ call' = [call EXCEPT ![w] = c]
  /\ calls' = [calls EXCEPT ![w] = @ + 1]
  /\ UNCHANGED <<shared, rwl, reply, event, pos, reservation_id,
                 response_seats, printer>>

\* The operation returns and its locals are gone.
Return(w) ==
  /\ Goto(w, "return", "idle")
  /\ call' = [call EXCEPT ![w] = NoCall]
  /\ Answer(w, NoReply)
  /\ event' = [event EXCEPT ![w] = 0]
  /\ pos' = [pos EXCEPT ![w] = 0]
  /\ reservation_id' = [reservation_id EXCEPT ![w] = 0]
  /\ response_seats' = [response_seats EXCEPT ![w] = <<>>]
  /\ UNCHANGED <<shared, rwl, calls, printer>>

-----------------------------------------------------------------------------
(* ems_create                                                              *)

CreateLock(w) ==
  /\ Goto(w, "create", "create_lookup")
  /\ WrLock(w)
  /\ UNCHANGED <<shared, reply, locals, printer>>

CreateReject(w) ==         \* the event exists, or malloc or calloc failed
  /\ Goto(w, "create_lookup", "create_unlock")
  /\ Answer(w, Failure)
  /\ UNCHANGED <<shared, rwl, locals, printer>>

CreateAppend(w) ==
  /\ Goto(w, "create_lookup", "create_count")
  /\ get_event(call[w].id) = 0
  /\ Len(list) < MaxEvents
  /\ list' = Append(list, NewEvent(call[w].id, call[w].shape))
  /\ Answer(w, Success)
  /\ UNCHANGED <<num_events, rwl, locals, printer>>

CreateCount(w) ==
  /\ Goto(w, "create_count", "create_unlock")
  /\ num_events' = num_events + 1
  /\ UNCHANGED <<list, rwl, reply, locals, printer>>

CreateUnlock(w) ==
  /\ Goto(w, "create_unlock", "return")
  /\ WrUnlock(w)
  /\ UNCHANGED <<shared, reply, locals, printer>>

-----------------------------------------------------------------------------
(* ems_reserve                                                             *)

ReserveLock(w) ==
  /\ Goto(w, "reserve", "reserve_lookup")
  /\ RdLock(w)
  /\ UNCHANGED <<shared, reply, locals, printer>>

\* The lookup under the read lock, which is released before the event is used.
ReserveLookup(w) ==
  /\ pc[w] = "reserve_lookup"
  /\ event' = [event EXCEPT ![w] = get_event(call[w].id)]
  /\ RdUnlock(w)
  /\ \/ /\ event'[w] = 0
        /\ Goto(w, "reserve_lookup", "return") /\ Answer(w, Failure)
     \/ /\ event'[w] # 0
        /\ Goto(w, "reserve_lookup", "reserve_mutex") /\ UNCHANGED reply
  /\ UNCHANGED <<shared, call, pos, reservation_id, response_seats, calls,
                 printer>>

ReserveMutex(w) ==
  /\ Goto(w, "reserve_mutex", "reserve_check")
  /\ MutexLock(w, event[w])
  /\ UNCHANGED <<num_events, rwl, reply, locals, printer>>

\* Mutant: only the first seat of the request is compared with the event.
CanReserve_FirstSeatOnly(e, seats) ==
  /\ \A k \in DOMAIN seats : InBounds(e, seats[k])
  /\ e.data[seat_index(e, seats[1])] = 0

\* Every seat exists and none is taken.
CanReserve(e, seats) ==
  /\ \A k \in DOMAIN seats : InBounds(e, seats[k])
  /\ \A i \in Cells(e.rows, e.cols) \cap Asked(e, seats) : e.data[i] = 0

\* Mutant: the error path forgets to unlock the event.
ReserveReject_KeepsMutex(w) ==
  /\ Goto(w, "reserve_check", "return")
  /\ ~ CanReserve(list[event[w]], call[w].seats)
  /\ Answer(w, Failure)
  /\ UNCHANGED <<shared, rwl, locals, printer>>

ReserveReject(w) ==
  /\ Goto(w, "reserve_check", "return")
  /\ ~ CanReserve(list[event[w]], call[w].seats)
  /\ Answer(w, Failure)
  /\ MutexUnlock(w, event[w])
  /\ UNCHANGED <<num_events, rwl, locals, printer>>

NextNumber(e) == e.reservations + 1

ReserveNumber(w) ==
  LET e == list[event[w]]
  IN  /\ Goto(w, "reserve_check", "reserve_write")
      /\ CanReserve(e, call[w].seats)
      /\ list' = [list EXCEPT ![event[w]].reservations = @ + 1]
      /\ reservation_id' = [reservation_id EXCEPT ![w] = NextNumber(e)]
      /\ pos' = [pos EXCEPT ![w] = 1]
      /\ UNCHANGED <<num_events, rwl, reply, call, event, response_seats,
                     calls, printer>>

\* Mutant: the loop stops before the last seat.
AllWritten_OffByOne(w) == pos[w] >= Len(call[w].seats)

\* The loop has written all the seats.
AllWritten(w) == pos[w] > Len(call[w].seats)

\* One iteration of the loop that writes the seats.
ReserveWrite(w) ==
  LET e == list[event[w]]
  IN  /\ pc[w] = "reserve_write"
      /\ ~ AllWritten(w)
      /\ list' = [list EXCEPT ![event[w]].data[seat_index(e, call[w].seats[pos[w]])]
                      = reservation_id[w]]
      /\ pos' = [pos EXCEPT ![w] = @ + 1]
      /\ UNCHANGED <<num_events, rwl, pc, reply, call, event, reservation_id,
                     response_seats, calls, printer>>

ReserveUnlock(w) ==
  /\ Goto(w, "reserve_write", "return")
  /\ AllWritten(w)
  /\ Answer(w, Success)
  /\ MutexUnlock(w, event[w])
  /\ UNCHANGED <<num_events, rwl, locals, printer>>

-----------------------------------------------------------------------------
(* ems_show                                                                *)

ShowLock(w) ==
  /\ Goto(w, "show", "show_lookup")
  /\ RdLock(w)
  /\ UNCHANGED <<shared, reply, locals, printer>>

\* The read lock stays held while the worker waits for the event.
ShowLookup(w) ==
  /\ pc[w] = "show_lookup"
  /\ event' = [event EXCEPT ![w] = get_event(call[w].id)]
  /\ \/ /\ event'[w] = 0
        /\ Goto(w, "show_lookup", "return") /\ Answer(w, Failure)
        /\ RdUnlock(w)
     \/ /\ event'[w] # 0
        /\ Goto(w, "show_lookup", "show_mutex") /\ UNCHANGED <<reply, rwl>>
  /\ UNCHANGED <<shared, call, pos, reservation_id, response_seats, calls,
                 printer>>

\* Mutant: ems_show reads the seats without the mutex, as show_EMS does.
ShowMutex_NoLock(w) ==
  /\ Goto(w, "show_mutex", "show_header")
  /\ UNCHANGED <<shared, rwl, reply, locals, printer>>

ShowMutex(w) ==
  /\ Goto(w, "show_mutex", "show_header")
  /\ MutexLock(w, event[w])
  /\ UNCHANGED <<num_events, rwl, reply, locals, printer>>

\* Writes the error code, the rows and the columns, releases the list.
ShowHeader(w) ==
  LET e == list[event[w]]
  IN  /\ Goto(w, "show_header", "show_copy")
      /\ response_seats' =
           [response_seats EXCEPT ![w] = [i \in Cells(e.rows, e.cols) |-> 0]]
      /\ RdUnlock(w)
      /\ UNCHANGED <<shared, reply, call, event, pos, reservation_id, calls,
                     printer>>

ShowHeaderFails(w) ==      \* one of the three writes fails
  /\ Goto(w, "show_header", "return")
  /\ Answer(w, Lost)
  /\ MutexUnlock(w, event[w])
  /\ RdUnlock(w)
  /\ UNCHANGED <<num_events, locals, printer>>

\* One iteration of the loop that copies the seats.
ShowCopy(w) ==
  LET e == list[event[w]]
  IN  /\ pc[w] = "show_copy"
      /\ pos[w] \in Cells(e.rows, e.cols)
      /\ response_seats' = [response_seats EXCEPT ![w][pos[w]] = e.data[pos[w]]]
      /\ pos' = [pos EXCEPT ![w] = @ + 1]
      /\ UNCHANGED <<shared, rwl, pc, reply, call, event, reservation_id,
                     calls, printer>>

ShowUnlock(w) ==           \* writes the seats, which may fail, and unlocks
  LET e == list[event[w]]
  IN  /\ Goto(w, "show_copy", "return")
      /\ pos[w] \notin Cells(e.rows, e.cols)
      /\ \/ Answer(w, [err |-> "ok", rows |-> e.rows, cols |-> e.cols,
                       seats |-> response_seats[w]])
         \/ Answer(w, Lost)
      /\ MutexUnlock(w, event[w])
      /\ UNCHANGED <<num_events, rwl, locals, printer>>

-----------------------------------------------------------------------------
(* ems_list_events                                                         *)

ListLock(w) ==
  /\ Goto(w, "list", "list_read")
  /\ RdLock(w)
  /\ UNCHANGED <<shared, reply, locals, printer>>

\* Walks the list under the read lock, writes the answer, unlocks.
ListUnlock(w) ==
  /\ Goto(w, "list_read", "return")
  /\ \/ list = <<>> /\ Answer(w, Failure)
     \/ list # <<>> /\ Answer(w,
          [err |-> "ok", num_events |-> num_events,
           ids |-> [p \in DOMAIN list |-> list[p].id]])
     \/ Answer(w, Lost)
  /\ RdUnlock(w)
  /\ UNCHANGED <<shared, locals, printer>>

-----------------------------------------------------------------------------
(* show_EMS: the thread of SIGUSR1 takes the list lock only.               *)

PrintLock ==
  /\ printer.pc = "idle"
  /\ RdLock(Printer)
  /\ printer.calls < MaxCalls
  /\ printer' = [pc |-> "walk", node |-> 1, seats |-> <<>>,
                 calls |-> printer.calls + 1]
  /\ UNCHANGED <<shared, pc, reply, locals>>

\* One seat, read without the mutex of the event.
PrintSeat ==
  /\ printer.pc = "walk"
  /\ printer.node \in DOMAIN list
  /\ LET d == list[printer.node].data
     IN  /\ Len(printer.seats) \in DOMAIN d
         /\ printer' = [printer EXCEPT !.seats =
                          Append(@, d[Len(printer.seats)])]
  /\ UNCHANGED <<shared, rwl, pc, reply, locals>>

PrintNext ==               \* current = current->next
  /\ printer.pc = "walk"
  /\ printer.node < Len(list)
  /\ Len(printer.seats) \notin DOMAIN list[printer.node].data
  /\ printer' = [printer EXCEPT !.node = @ + 1, !.seats = <<>>]
  /\ UNCHANGED <<shared, rwl, pc, reply, locals>>

PrintUnlock ==             \* after the last event, or at once if there is none
  /\ printer.pc = "walk"
  /\ printer.node >= Len(list)
  /\ printer.node = Len(list) =>
       Len(printer.seats) \notin DOMAIN list[printer.node].data
  /\ printer' = [printer EXCEPT !.pc = "idle"]
  /\ RdUnlock(Printer)
  /\ UNCHANGED <<shared, pc, reply, locals>>

-----------------------------------------------------------------------------
Step(w) ==
  \/ CreateLock(w) \/ CreateReject(w) \/ CreateAppend(w) \/ CreateCount(w)
  \/ CreateUnlock(w)
  \/ ReserveLock(w) \/ ReserveLookup(w) \/ ReserveMutex(w) \/ ReserveReject(w)
  \/ ReserveNumber(w) \/ ReserveWrite(w) \/ ReserveUnlock(w)
  \/ ShowLock(w) \/ ShowLookup(w) \/ ShowMutex(w) \/ ShowHeader(w)
  \/ ShowHeaderFails(w) \/ ShowCopy(w) \/ ShowUnlock(w)
  \/ ListLock(w) \/ ListUnlock(w)
  \/ Return(w)

ShowEMS == PrintLock \/ PrintSeat \/ PrintNext \/ PrintUnlock

\* Every thread has made its calls: nothing is left to do.
Finished ==
  /\ \A w \in Workers : pc[w] = "idle" /\ calls[w] = MaxCalls
  /\ printer.pc = "idle" /\ printer.calls = MaxCalls
  /\ UNCHANGED vars

Next == (\E w \in Workers : Invoke(w) \/ Step(w)) \/ ShowEMS \/ Finished

Spec == Init /\ [][Next]_vars

\* A thread that can run does run; nobody is obliged to make a call or to
\* send SIGUSR1.
FairSpec ==
  /\ Spec
  /\ \A w \in Workers : WF_vars(Step(w))
  /\ WF_vars(PrintSeat \/ PrintNext \/ PrintUnlock)

-----------------------------------------------------------------------------
(* Type invariant                                                          *)

CellMaps == UNION {[Cells(s[1], s[2]) -> Nat] : s \in Shapes}
Event == [id : EventIds, rows : Nat, cols : Nat, reservations : Nat,
          data : CellMaps, mutex : Workers \cup {NoOne}]

PCs ==
  {"idle", "return",
   "create", "create_lookup", "create_count", "create_unlock",
   "reserve", "reserve_lookup", "reserve_mutex", "reserve_check",
   "reserve_write",
   "show", "show_lookup", "show_mutex", "show_header", "show_copy",
   "list", "list_read"}

\* The list holds events whose seats fill exactly rows * cols cells, the
\* locks have owners that exist, and the locals of a call have the types the
\* code declares.
TypeOK ==
  /\ list \in Seq(Event)
  /\ \A p \in DOMAIN list :
       /\ <<list[p].rows, list[p].cols>> \in Shapes
       /\ list[p].data \in [Cells(list[p].rows, list[p].cols) -> Nat]
  /\ num_events \in Nat
  /\ readers \subseteq Threads
  /\ writer \in Workers \cup {NoOne}
  /\ pc \in [Workers -> PCs]
  /\ call \in [Workers -> Calls \cup {NoCall}]
  /\ event \in [Workers -> Nat]
  /\ pos \in [Workers -> Nat]
  /\ reservation_id \in [Workers -> Nat]
  /\ calls \in [Workers -> 0 .. MaxCalls]

-----------------------------------------------------------------------------
(* Safety                                                                  *)

\* A seat that was given to a reservation never changes hands and an event
\* never disappears or changes its dimensions: no double booking, whatever
\* the interleaving of ems_reserve with every other call.
SeatsAreFinal ==
  [][\A p \in DOMAIN list :
       /\ p \in DOMAIN list'
       /\ DOMAIN list'[p].data = DOMAIN list[p].data
       /\ \A i \in DOMAIN list[p].data :
            list[p].data[i] # 0 => list'[p].data[i] = list[p].data[i]]_vars

Held(p) == list[p].mutex # NoOne
Given(p) == {list[p].data[i] : i \in DOMAIN list[p].data} \ {0}

\* Whenever nobody holds the mutex of an event, its seats carry exactly the
\* reservation numbers 1 .. reservations: every number that was handed out
\* still owns a seat, so the counter is at most the number of seats and
\* ++event->reservations cannot wrap around on an event that fits in memory.
NumbersMatchSeats ==
  \A p \in DOMAIN list : ~ Held(p) => Given(p) = 1 .. list[p].reservations

\* A reservation that was granted owns the seats it asked for, all of them
\* and no others.
GrantedExactly ==
  \A w \in Workers : pc[w] = "return" /\ call[w].op = "reserve"
                     /\ reply[w] = Success =>
    LET e == list[event[w]]
    IN  {i \in DOMAIN e.data : e.data[i] = reservation_id[w]}
          = Asked(e, call[w].seats)

\* seats shows only a part of reservation number of event p
Torn(seats, p) ==
  \E i, j \in DOMAIN seats :
     seats[i] # 0 /\ seats[j] = 0 /\ list[p].data[j] = seats[i]

\* The answer of ems_show never shows a part of a reservation: what it shows
\* as free is not a seat of a reservation it shows elsewhere.
ShowsWholeReservations ==
  \A w \in Workers : pc[w] = "return" /\ call[w].op = "show"
                     /\ reply[w] \notin {Failure, Lost} =>
    ~ Torn(reply[w].seats, event[w])

\* Reservations are granted whole and shown whole.
ReservationsAreWhole == GrantedExactly /\ ShowsWholeReservations

\* No two events of the list have the same identifier, even when the same
\* identifier is created by two workers at once, and whoever may read the
\* list finds as many events as num_events says: events_ids[] of
\* ems_list_events is sized by one and filled by the other.
ListConsistent ==
  /\ \A p, q \in DOMAIN list : list[p].id = list[q].id => p = q
  /\ readers # {} => num_events = Len(list)

\* What show_EMS printed of the current event, as a function of the cell.
Printed == [i \in 0 .. Len(printer.seats) - 1 |-> printer.seats[i + 1]]

\* What show_EMS prints of a taken seat stays true, and it walks over
\* existing events only: the read lock keeps the list, if not the seats, from
\* changing under it.
PrintedSeatsAreTaken ==
  printer.node \in DOMAIN list =>
    \A i \in DOMAIN Printed :
       Printed[i] # 0 => list[printer.node].data[i] = Printed[i]

\* Every call returns: no lock is leaked on an error path and the locks are
\* never taken in a circle.
EveryCallReturns ==
  \A w \in Workers : (pc[w] # "idle") ~> (pc[w] = "idle")

-----------------------------------------------------------------------------
(* Refinement                                                              *)

\* A reservation that is still writing its seats has not happened yet.
Writing(p) == \E w \in Workers : pc[w] = "reserve_write" /\ event[w] = p

AbsEvent(p) ==
  LET e == list[p]
      n == IF Writing(p) THEN e.reservations - 1 ELSE e.reservations
  IN  [id |-> e.id, rows |-> e.rows, cols |-> e.cols, reservations |-> n,
       data |-> [i \in DOMAIN e.data |-> IF e.data[i] > n THEN 0 ELSE e.data[i]]]

Abs == INSTANCE EventStoreAbs WITH
  events <- [p \in DOMAIN list |-> AbsEvent(p)]

\* The calls implement the atomic operations of EventStoreAbs.
AtomicOperations == Abs!Spec
=============================================================================
