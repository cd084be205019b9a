---------------------------- MODULE SeqJobsProofs ----------------------------
(***************************************************************************)
(* Proofs about SeqJobs for any files.                                     *)
(***************************************************************************)
EXTENDS SeqJobs, JobStoreProofs

\* The list is a list of events, each of which counts its reservations.
ListInv ==
  event_list # NULL =>
    /\ event_list \in Seq(Events) /\ NoDuplicates(event_list)
    /\ \A p \in DOMAIN event_list : CountsItsReservations(event_list[p])

IInv == input \in Inputs /\ line \in 0 .. Len(input) /\ ListInv

LEMMA LinesOfFiles ==
  ASSUME input \in Inputs
  PROVE  input \in Seq(Lines) /\ Len(input) \in Nat
BY InputsAssumption

\* What a line that was accepted asks for.
LEMMA AcceptedLine ==
  ASSUME NEW l \in Lines, l.ok
  PROVE  /\ l.op = "create" => l.event \in Nat /\ l.rows \in Nat /\ l.cols \in Nat
         /\ l.op = "reserve" => l.seats \in Seq(Seats) /\ l.seats # <<>>
<1>1. CASE l.op = "create"
  <2>1. /\ DOMAIN l = {"op", "event", "rows", "cols", "ok"}
        /\ l.event \in Number /\ l.rows \in Number /\ l.cols \in Number
    BY <1>1 DEF Lines, LinesRead
  <2>2. l.event # Unread /\ l.rows # Unread /\ l.cols # Unread
    BY <2>1 DEF Lines
  <2>3. QED  BY <1>1, <2>1, <2>2 DEF Number
<1>2. CASE l.op = "reserve"
  BY <1>2 DEF Lines, LinesRead, Seats
<1>3. QED
  BY <1>1, <1>2

\* A step reads a line, and the ones that change the list keep it in order.
LEMMA ReadsLine ==
  ASSUME IInv, NEW op, Reads(op)
  PROVE  /\ input' \in Inputs /\ line' \in 0 .. Len(input)' /\ Current \in Lines
         /\ Current.op = op
         /\ event_list \in Seq(Events) /\ NoDuplicates(event_list)
         /\ \A p \in DOMAIN event_list : CountsItsReservations(event_list[p])
<1>1. input \in Seq(Lines) /\ Len(input) \in Nat /\ line \in 0 .. Len(input)
  BY LinesOfFiles DEF IInv
<1>2. line < Len(input) /\ line' = line + 1 /\ input' = input
  BY DEF Reads
<1>3. QED
  BY <1>1, <1>2 DEF IInv, ListInv, Reads, Current

LEMMA CreateStep ==
  ASSUME IInv, ems_create
  PROVE  IInv'
<1>1. /\ input' \in Inputs /\ line' \in 0 .. Len(input)' /\ Current \in Lines
      /\ Current.op = "create" /\ Current.ok
      /\ event_list \in Seq(Events) /\ NoDuplicates(event_list)
      /\ \A p \in DOMAIN event_list : CountsItsReservations(event_list[p])
  BY ReadsLine DEF ems_create
<1>2. CASE get_event(event_list, Current.event) # 0
  <2>1. event_list' = event_list
    BY <1>2 DEF ems_create
  <2>2. QED  BY <1>1, <2>1 DEF IInv, ListInv
<1>3. CASE get_event(event_list, Current.event) = 0
  <2>. DEFINE x == NewEvent(Current.event, Current.rows, Current.cols)
  <2>1. x \in Events /\ x.id = Current.event /\ x.reservations = 0 /\ Numbers(x) = {}
    <3>1. Current.event \in Nat /\ Current.rows \in Nat /\ Current.cols \in Nat
      BY <1>1, AcceptedLine
    <3>2. QED  BY <3>1, EmptyEvent
  <2>2. event_list' = Append(event_list, x)
    BY <1>3 DEF ems_create
  <2>3. \A p \in DOMAIN event_list : event_list[p].id # Current.event
    BY <1>1, <1>3, LookupEvent
  <2>4. CountsItsReservations(x)
    BY <2>1 DEF CountsItsReservations
  <2>. HIDE DEF x
  <2>5. /\ event_list' \in Seq(Events) /\ Len(event_list') = Len(event_list) + 1
        /\ Len(event_list) \in Nat
        /\ DOMAIN event_list' = DOMAIN event_list \cup {Len(event_list) + 1}
        /\ event_list'[Len(event_list) + 1] = x
        /\ \A p \in DOMAIN event_list : event_list'[p] = event_list[p]
    BY <1>1, <2>1, <2>2
  <2>6. NoDuplicates(event_list')
    BY <1>1, <2>1, <2>3, <2>5 DEF NoDuplicates
  <2>7. \A p \in DOMAIN event_list' : CountsItsReservations(event_list'[p])
    BY <1>1, <2>4, <2>5
  <2>8. QED  BY <1>1, <2>5, <2>6, <2>7 DEF IInv, ListInv, NoDuplicates, CountsItsReservations, Numbers
<1>4. QED
  BY <1>2, <1>3

LEMMA ReserveStep ==
  ASSUME IInv, ems_reserve
  PROVE  IInv'
<1>. DEFINE p == get_event(event_list, Current.event)
<1>1. /\ input' \in Inputs /\ line' \in 0 .. Len(input)' /\ Current \in Lines
      /\ Current.op = "reserve" /\ Current.ok
      /\ event_list \in Seq(Events) /\ NoDuplicates(event_list)
      /\ \A q \in DOMAIN event_list : CountsItsReservations(event_list[q])
  BY ReadsLine DEF ems_reserve
<1>2. CASE p = 0
  <2>1. event_list' = event_list
    BY <1>2 DEF ems_reserve
  <2>2. QED  BY <1>1, <2>1 DEF IInv, ListInv
<1>3. CASE p # 0
  <2>. DEFINE x == Reserved(event_list[p], Current.seats)
  <2>1. p \in DOMAIN event_list
    BY <1>1, <1>3, LookupEvent
  <2>2. event_list[p] \in Events /\ CountsItsReservations(event_list[p])
    BY <1>1, <2>1
  <2>3. Current.seats \in Seq(Seats) /\ Current.seats # <<>>
    BY <1>1, AcceptedLine
  <2>4. x \in Events /\ x.id = event_list[p].id /\ CountsItsReservations(x)
    BY <2>2, <2>3, ReservedIsAllOrNothing, AllOrNothingCounts
  <2>5. event_list' = [event_list EXCEPT ![p] = x]
    BY <1>3 DEF ems_reserve
  <2>. HIDE DEF x, p
  <2>6. /\ event_list' \in Seq(Events) /\ NoDuplicates(event_list')
        /\ DOMAIN event_list' = DOMAIN event_list /\ event_list'[p] = x
        /\ \A q \in DOMAIN event_list \ {p} : event_list'[q] = event_list[q]
    BY <1>1, <2>1, <2>4, <2>5, ReplaceEvent
  <2>7. \A q \in DOMAIN event_list' : CountsItsReservations(event_list'[q])
    BY <1>1, <2>4, <2>6
  <2>8. QED  BY <1>1, <2>6, <2>7 DEF IInv, ListInv, NoDuplicates, CountsItsReservations, Numbers
<1>4. QED
  BY <1>2, <1>3

LEMMA InitInv == Init => IInv
<1>1. SUFFICES ASSUME Init PROVE IInv
  OBVIOUS
<1>2. input \in Inputs /\ line \in 0 .. Len(input)
  <2>1. input \in Inputs /\ line = 0
    BY <1>1 DEF Init
  <2>2. Len(input) \in Nat
    BY <2>1, LinesOfFiles
  <2>3. QED  BY <2>1, <2>2
<1>3. event_list \in Seq(Events) /\ DOMAIN event_list = {}
  <2>1. event_list = <<>>
    BY <1>1 DEF Init
  <2>2. QED  BY <2>1
<1>4. QED
  BY <1>2, <1>3 DEF IInv, ListInv, NoDuplicates

\* A step that leaves the list alone leaves it in order.
LEMMA ListStays ==
  ASSUME IInv, UNCHANGED event_list, input' \in Inputs, line' \in 0 .. Len(input')
  PROVE  IInv'
<1>1. ListInv'
  BY Zenon DEF IInv, ListInv, NoDuplicates, CountsItsReservations, Numbers
<1>2. QED
  BY <1>1 DEF IInv

LEMMA InvStep == IInv /\ [Next]_vars => IInv'
<1>1. SUFFICES ASSUME IInv, [Next]_vars PROVE IInv'
  OBVIOUS
<1>2. ASSUME NEW op, Reads(op), UNCHANGED event_list PROVE IInv'
  BY <1>1, <1>2, ReadsLine, ListStays
<1>3. CASE ems_create
  BY <1>1, <1>3, CreateStep
<1>4. CASE ems_reserve
  BY <1>1, <1>4, ReserveStep
<1>5. CASE ems_show
  BY <1>2, <1>5 DEF ems_show
<1>6. CASE ems_list_events
  BY <1>2, <1>6 DEF ems_list_events
<1>7. CASE ems_wait
  BY <1>2, <1>7 DEF ems_wait
<1>8. CASE Ignore
  BY <1>2, <1>8 DEF Ignore
<1>9. CASE ems_terminate
  BY <1>1, <1>9 DEF ems_terminate, IInv, ListInv
<1>10. CASE Finished \/ UNCHANGED vars
  <2>1. UNCHANGED event_list /\ input' = input /\ line' = line
    BY <1>10 DEF Finished, vars
  <2>2. input' \in Inputs /\ line' \in 0 .. Len(input')
    BY <1>1, <2>1 DEF IInv
  <2>3. QED  BY <1>1, <2>1, <2>2, ListStays
<1>11. QED
  BY <1>1, <1>3, <1>4, <1>5, <1>6, <1>7, <1>8, <1>9, <1>10 DEF Next

LEMMA InvHolds == Spec => []IInv
BY InitInv, InvStep, PTL DEF Spec

\* TypeOK: every seat of an event exists and carries a number its event has
\* given out, whatever ems_reserve wrote and took back.
LEMMA TypesFollow == IInv => TypeOK
<1>1. SUFFICES ASSUME IInv, event_list # NULL, NEW p \in DOMAIN event_list
               PROVE  /\ DOMAIN event_list[p].data = Cells(event_list[p].rows, event_list[p].cols)
                      /\ \A i \in DOMAIN event_list[p].data :
                           event_list[p].data[i] \in 0 .. event_list[p].reservations
  BY DEF IInv, TypeOK
<1>. DEFINE e == event_list[p]
<1>2. e \in Events /\ CountsItsReservations(e)
  BY <1>1 DEF IInv, ListInv
<1>. HIDE DEF e
<1>3. /\ e.reservations \in Nat /\ e.data \in [Cells(e.rows, e.cols) -> Nat]
  BY <1>2, EventFields
<1>4. \A i \in DOMAIN e.data : e.data[i] = 0 \/ e.data[i] \in 1 .. e.reservations
  BY <1>2 DEF CountsItsReservations, Numbers
<1>5. QED
  BY <1>3, <1>4 DEF e

\* TypeOK holds in every state of ems_process on any file.
THEOREM TypeCorrect == Spec => []TypeOK
BY InvHolds, TypesFollow, PTL

\* ListConsistent: between two lines the seats of an event carry exactly the
\* numbers from 1 to reservations and identifiers are unique: what a failed
\* reservation took, it gave back.
THEOREM ListStaysConsistent == Spec => []ListConsistent
<1>1. IInv => ListConsistent
  BY TypesFollow DEF ListConsistent, IInv, ListInv
<1>2. QED
  BY <1>1, InvHolds, PTL

\* ReserveIsAllOrNothing: the loop of ems_reserve over the seats and the loop
\* that gives them back grant all the seats of a line or change nothing, for
\* any event and any list of seats, duplicates and seats that do not exist
\* included.
THEOREM ReservationsAreWhole == Spec => []ReserveIsAllOrNothing
<1>1. IInv => ReserveIsAllOrNothing
  <2>1. SUFFICES ASSUME IInv, event_list # NULL, NEW p \in DOMAIN event_list,
                        NEW k \in DOMAIN input, input[k].op = "reserve", input[k].ok
                 PROVE  Reserved(event_list[p], input[k].seats)
                          = AllOrNothing(event_list[p], input[k].seats)
    BY DEF ReserveIsAllOrNothing
  <2>2. event_list[p] \in Events
    BY <2>1 DEF IInv, ListInv
  <2>3. input[k] \in Lines
    BY <2>1, LinesOfFiles DEF IInv
  <2>4. input[k].seats \in Seq(Seats)
    BY <2>1, <2>3, AcceptedLine
  <2>5. QED  BY <2>2, <2>4, ReservedIsAllOrNothing
<1>2. QED
  BY <1>1, InvHolds, PTL
=============================================================================
