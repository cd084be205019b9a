------------------------------- MODULE JobStore -------------------------------
(***************************************************************************)
(* The event list of Proj1 (ems_operations.c and eventlist.c of Ex1, Ex2   *)
(* and Ex3) and the lines of a .jobs file as parser.c leaves them to the   *)
(* loop that executes them.                                                *)
(*                                                                         *)
(* A line is a record with its command.  Its fields hold what the parser   *)
(* stored: Unread stands for a variable the parser left as it was because  *)
(* the line ended or went wrong before that field, and ok says whether the *)
(* parser accepted the line.  "skip" is a line without effect: HELP, a     *)
(* comment, an empty line, an unknown command.                             *)
(***************************************************************************)
EXTENDS Integers, Sequences, SequencesExt

CONSTANT Unread

ASSUME UnreadAssumption == Unread \notin Nat

Create(id, rows, cols) ==
  [op |-> "create", event |-> id, rows |-> rows, cols |-> cols, ok |-> TRUE]
Reserve(id, seats) == [op |-> "reserve", event |-> id, seats |-> seats, ok |-> TRUE]
Show(id)           == [op |-> "show", event |-> id, ok |-> TRUE]
List               == [op |-> "list", ok |-> TRUE]
Wait(delay, id)    == [op |-> "wait", delay |-> delay, thread |-> id, ok |-> TRUE]
Barrier            == [op |-> "barrier", ok |-> TRUE]
Skip               == [op |-> "skip", ok |-> TRUE]

\* Lines the parser rejects: a CREATE whose last number is missing, a RESERVE
\* with a malformed list of seats.
BadCreate(id, rows) == [Create(id, rows, Unread) EXCEPT !.ok = FALSE]
BadReserve(id)      == [Reserve(id, <<>>) EXCEPT !.ok = FALSE]

\* The lines of a file, as far as the parser read them: one that it accepts
\* was read to its end.
Number == Nat \cup {Unread}
LinesRead ==
       [op : {"create"}, event : Number, rows : Number, cols : Number, ok : BOOLEAN]
  \cup {l \in [op : {"reserve"}, event : Number, seats : Seq(Nat \X Nat), ok : BOOLEAN] :
          l.ok <=> l.seats # <<>>}
  \cup [op : {"show"}, event : Number, ok : BOOLEAN]
  \cup [op : {"wait"}, delay : Number, thread : Number, ok : BOOLEAN]
  \cup [op : {"list", "barrier", "skip"}, ok : BOOLEAN]
Lines == {l \in LinesRead : l.ok => \A f \in DOMAIN l : l[f] # Unread}

-----------------------------------------------------------------------------
(* The list: a sequence of events in the order of their creation.          *)

Cells(rows, cols) == 0 .. (rows * cols - 1)
seat_index(e, s)  == (s[1] - 1) * e.cols + s[2] - 1
InBounds(e, s) ==
  ~ (s[1] <= 0 \/ s[1] > e.rows \/ s[2] <= 0 \/ s[2] > e.cols)

NewEvent(id, rows, cols) ==
  [id |-> id, rows |-> rows, cols |-> cols, reservations |-> 0,
   data |-> [i \in Cells(rows, cols) |-> 0]]

\* get_event: the position of the first event with the identifier, or 0.
get_event(list, id) == SelectInSeq(list, LAMBDA e : e.id = id)

Available(e, s) == InBounds(e, s) /\ e.data[seat_index(e, s)] = 0

Taken(e, s, reservation_id) ==
  [e EXCEPT !.data[seat_index(e, s)] = reservation_id]

\* The first n seats asked for are given back and so is the number.
Rollback(e, seats, n) ==
  LET given_back == {seat_index(e, seats[j]) : j \in 1 .. n}
  IN  [e EXCEPT !.reservations = @ - 1,
                !.data = [i \in DOMAIN @ |-> IF i \in given_back THEN 0 ELSE @[i]]]

\* The rows of an event as ems_show prints them.
Row(e, i) == [j \in 1 .. e.cols |-> e.data[seat_index(e, <<i, j>>)]]

-----------------------------------------------------------------------------
(* ems_reserve of Ex1, which nothing interrupts.                           *)

\* Mutant: a taken seat is taken over.
TakeSeat_Overwrites(st, s) ==
  IF st.stopped \/ ~ InBounds(st.event, s)
  THEN [st EXCEPT !.stopped = TRUE]
  ELSE [st EXCEPT !.i = @ + 1,
                  !.event = Taken(@, s, st.event.reservations)]

\* One iteration over the seats: st.i seats were taken so far.
TakeSeat(st, s) ==
  IF st.stopped \/ ~ Available(st.event, s)
  THEN [st EXCEPT !.stopped = TRUE]
  ELSE [st EXCEPT !.i = @ + 1,
                  !.event = Taken(@, s, st.event.reservations)]

\* The loop over the seats, from event e: what it leaves after n of them.
SeatLoop(e, seats) ==
  LET st[n \in 0 .. Len(seats)] ==
        IF n = 0 THEN [stopped |-> FALSE, i |-> 0, event |-> e]
        ELSE TakeSeat(st[n - 1], seats[n])
  IN  st[Len(seats)]

\* Mutant: the rollback misses the last seat that was taken.
Reserved_RollbackOffByOne(e, seats) ==
  LET st == SeatLoop([e EXCEPT !.reservations = @ + 1], seats)
  IN  IF st.i < Len(seats) THEN Rollback(st.event, seats, st.i - 1) ELSE st.event

Reserved(e, seats) ==
  LET st == SeatLoop([e EXCEPT !.reservations = @ + 1], seats)
  IN  IF st.i < Len(seats) THEN Rollback(st.event, seats, st.i) ELSE st.event

-----------------------------------------------------------------------------
(* What the list must look like between two commands.                      *)

Numbers(e) == {e.data[i] : i \in DOMAIN e.data} \ {0}

\* The seats of an event carry the numbers of its reservations, each number
\* at least once: none is lost and none is left from a failed reservation.
CountsItsReservations(e) == Numbers(e) = 1 .. e.reservations

NoDuplicates(list) == \A p, q \in DOMAIN list : list[p].id = list[q].id => p = q

\* The reference: a reservation succeeds when its seats are different,
\* exist and are free, and changes nothing otherwise.
AllOrNothing(e, seats) ==
  IF IsInjective(seats) /\ \A k \in DOMAIN seats : Available(e, seats[k])
  THEN [e EXCEPT !.reservations = @ + 1,
          !.data = [i \in DOMAIN @ |->
             IF i \in {seat_index(e, seats[k]) : k \in DOMAIN seats}
             THEN e.reservations + 1 ELSE @[i]]]
  ELSE e
=============================================================================
