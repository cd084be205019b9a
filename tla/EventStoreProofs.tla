--------------------------- MODULE EventStoreProofs ---------------------------
(***************************************************************************)
(* Proofs about EventStore for any number of threads, events, seats and    *)
(* calls.                                                                  *)
(*                                                                         *)
(* SeatsAreFinal is not inductive: that a seat being written was free, or  *)
(* already carries the number being written, was established by the check  *)
(* a few steps earlier.  ReserveInv carries that fact from the check to    *)
(* the write; it survives the steps of the other threads because of        *)
(* MutexInv, which says that between those steps the worker owns the mutex *)
(* of the event it writes to.                                              *)
(***************************************************************************)
EXTENDS EventStore, SequenceTheorems, TLAPS

UsesEvent  == {"reserve_mutex", "reserve_check", "reserve_write",
               "show_mutex", "show_header", "show_copy"}
HoldsMutex == {"reserve_check", "reserve_write", "show_header", "show_copy"}
Reserving  == {"reserve", "reserve_lookup", "reserve_mutex", "reserve_check",
               "reserve_write"}
Opening    == {"create", "create_lookup", "reserve", "reserve_lookup", "show",
               "show_lookup"}

ReserveCalls == [op : {"reserve"}, id : EventIds, seats : SeatLists]
CreateCalls  == [op : {"create"}, id : EventIds, shape : Shapes]

\* The call a worker executes is the one its program counter is in.
CallInv ==
  \A w \in Workers :
    /\ pc[w] \in Reserving => call[w] \in ReserveCalls
    /\ pc[w] \in {"create", "create_lookup"} => call[w] \in CreateCalls

\* Event pointers that are used point to an event.
PointerInv ==
  \A w \in Workers : pc[w] \in UsesEvent => event[w] \in DOMAIN list

\* A worker that uses the seats of an event owns its mutex.
MutexInv ==
  \A w \in Workers : pc[w] \in HoldsMutex => list[event[w]].mutex = w

\* The seats a worker writes are free or already carry its number.
ReserveInv ==
  \A w \in Workers : pc[w] = "reserve_write" =>
    /\ pos[w] >= 1
    /\ \A k \in DOMAIN call[w].seats :
         LET e == list[event[w]] i == seat_index(e, call[w].seats[k])
         IN  i \in DOMAIN e.data => e.data[i] \in {0, reservation_id[w]}

\* No two events of the list have the same identifier.
UniqueInv ==
  \A p, q \in DOMAIN list : list[p].id = list[q].id => p = q

IInv == TypeOK /\ UniqueInv /\ CallInv /\ PointerInv /\ MutexInv /\ ReserveInv

-----------------------------------------------------------------------------
(* How the list may change: each lemma describes one kind of assignment.   *)

\* Locking or unlocking the mutex of an event changes nothing else.
LEMMA MutexChange ==
  ASSUME list \in Seq(Event), NEW p \in DOMAIN list,
         NEW x \in Workers \cup {NoOne},
         list' = [list EXCEPT ![p].mutex = x]
  PROVE  /\ list' \in Seq(Event) /\ DOMAIN list' = DOMAIN list /\ Len(list') = Len(list)
         /\ list'[p].mutex = x
         /\ \A q \in DOMAIN list :
              /\ list'[q].id = list[q].id /\ list'[q].rows = list[q].rows
              /\ list'[q].cols = list[q].cols /\ list'[q].data = list[q].data
              /\ list'[q].reservations = list[q].reservations
              /\ q # p => list'[q] = list[q]
<1>1. list[p] \in Event
  OBVIOUS
<1>2. list' = [list EXCEPT ![p] = [list[p] EXCEPT !.mutex = x]]
  OBVIOUS
<1>3. [list[p] EXCEPT !.mutex = x] \in Event
  BY <1>1 DEF Event
<1>4. list' \in Seq(Event) /\ DOMAIN list' = DOMAIN list /\ Len(list') = Len(list)
  BY <1>2, <1>3
<1>5. list'[p] = [list[p] EXCEPT !.mutex = x]
  BY <1>2
<1>6. \A q \in DOMAIN list : q # p => list'[q] = list[q]
  BY <1>2
<1>7. /\ list'[p].id = list[p].id /\ list'[p].rows = list[p].rows
      /\ list'[p].cols = list[p].cols /\ list'[p].data = list[p].data
      /\ list'[p].reservations = list[p].reservations
      /\ list'[p].mutex = x
  BY <1>1, <1>5 DEF Event
<1> QED
  BY <1>4, <1>6, <1>7

\* Taking a reservation number changes nothing but the counter.
LEMMA CounterChange ==
  ASSUME list \in Seq(Event), NEW p \in DOMAIN list, NEW x \in Nat,
         list' = [list EXCEPT ![p].reservations = x]
  PROVE  /\ list' \in Seq(Event) /\ DOMAIN list' = DOMAIN list /\ Len(list') = Len(list)
         /\ \A q \in DOMAIN list :
              /\ list'[q].id = list[q].id /\ list'[q].rows = list[q].rows
              /\ list'[q].cols = list[q].cols /\ list'[q].data = list[q].data
              /\ list'[q].mutex = list[q].mutex
              /\ q # p => list'[q] = list[q]
<1>1. list[p] \in Event
  OBVIOUS
<1>2. list' = [list EXCEPT ![p] = [list[p] EXCEPT !.reservations = x]]
  OBVIOUS
<1>3. [list[p] EXCEPT !.reservations = x] \in Event
  BY <1>1 DEF Event
<1>4. list' \in Seq(Event) /\ DOMAIN list' = DOMAIN list /\ Len(list') = Len(list)
  BY <1>2, <1>3
<1>5. list'[p] = [list[p] EXCEPT !.reservations = x]
  BY <1>2
<1>6. \A q \in DOMAIN list : q # p => list'[q] = list[q]
  BY <1>2
<1>7. /\ list'[p].id = list[p].id /\ list'[p].rows = list[p].rows
      /\ list'[p].cols = list[p].cols /\ list'[p].data = list[p].data
      /\ list'[p].mutex = list[p].mutex
  BY <1>1, <1>5 DEF Event
<1> QED
  BY <1>4, <1>6, <1>7

\* A seat map stays a seat map when a seat is written.
LEMMA CellMapsClosed ==
  ASSUME NEW f \in CellMaps, NEW i, NEW n \in Nat
  PROVE  [f EXCEPT ![i] = n] \in CellMaps
<1>1. PICK s \in Shapes : f \in [Cells(s[1], s[2]) -> Nat]
  BY DEF CellMaps
<1>2. [f EXCEPT ![i] = n] \in [Cells(s[1], s[2]) -> Nat]
  BY <1>1
<1> QED
  BY <1>2 DEF CellMaps

\* Writing a seat changes nothing but the seats of that event.
LEMMA SeatChange ==
  ASSUME list \in Seq(Event), NEW p \in DOMAIN list, NEW d \in CellMaps,
         list' = [list EXCEPT ![p].data = d]
  PROVE  /\ list' \in Seq(Event) /\ DOMAIN list' = DOMAIN list
         /\ list'[p].data = d
         /\ \A q \in DOMAIN list :
              /\ list'[q].id = list[q].id /\ list'[q].rows = list[q].rows
              /\ list'[q].cols = list[q].cols /\ list'[q].mutex = list[q].mutex
              /\ list'[q].reservations = list[q].reservations
              /\ q # p => list'[q] = list[q]
<1>1. list[p] \in Event
  OBVIOUS
<1>2. list' = [list EXCEPT ![p] = [list[p] EXCEPT !.data = d]]
  OBVIOUS
<1>3. [list[p] EXCEPT !.data = d] \in Event
  BY <1>1 DEF Event
<1>4. list' \in Seq(Event) /\ DOMAIN list' = DOMAIN list
  BY <1>2, <1>3
<1>5. list'[p] = [list[p] EXCEPT !.data = d]
  BY <1>2
<1>6. \A q \in DOMAIN list : q # p => list'[q] = list[q]
  BY <1>2
<1>7. /\ list'[p].id = list[p].id /\ list'[p].rows = list[p].rows
      /\ list'[p].cols = list[p].cols /\ list'[p].mutex = list[p].mutex
      /\ list'[p].reservations = list[p].reservations
      /\ list'[p].data = d
  BY <1>1, <1>5 DEF Event
<1> QED
  BY <1>4, <1>6, <1>7

\* A new event has as many seats as its shape says, all of them free.
LEMMA NewEventType ==
  ASSUME NEW c \in CreateCalls
  PROVE  LET e == NewEvent(c.id, c.shape)
         IN  /\ e \in Event
             /\ <<e.rows, e.cols>> \in Shapes
             /\ e.data \in [Cells(e.rows, e.cols) -> Nat]
<1> DEFINE f == [i \in Cells(c.shape[1], c.shape[2]) |-> 0]
<1>1. c.id \in EventIds /\ c.shape \in Shapes
  BY DEF CreateCalls
<1>2. c.shape \in Nat \X Nat
  BY <1>1, ArgumentsAssumption
<1>3. f \in [Cells(c.shape[1], c.shape[2]) -> Nat]
  OBVIOUS
<1>4. f \in CellMaps
  BY <1>1, <1>3 DEF CellMaps
<1>5. c.shape = <<c.shape[1], c.shape[2]>> /\ c.shape[1] \in Nat /\ c.shape[2] \in Nat
  BY <1>2
<1>6. NewEvent(c.id, c.shape) =
        [id |-> c.id, rows |-> c.shape[1], cols |-> c.shape[2],
         reservations |-> 0, data |-> f, mutex |-> NoOne]
  BY DEF NewEvent
<1> HIDE DEF f
<1> QED
  BY <1>1, <1>3, <1>4, <1>5, <1>6 DEF Event
-----------------------------------------------------------------------------
(* The inductive invariant.                                                *)

LEMMA InitInv == Init => IInv
<1> SUFFICES ASSUME Init PROVE IInv
  OBVIOUS
<1>1. TypeOK
  BY BoundsAssumption DEF Init, TypeOK, PCs, Threads, Event
<1>2. UniqueInv /\ CallInv /\ PointerInv /\ MutexInv /\ ReserveInv
  BY DEF Init, UniqueInv, CallInv, PointerInv, MutexInv, ReserveInv, Reserving,
         UsesEvent, HoldsMutex
<1> QED
  BY <1>1, <1>2 DEF IInv

\* get_event answers NULL or a node of the list with the identifier.
LEMMA GetEventType ==
  ASSUME IInv, NEW id
  PROVE  /\ get_event(id) \in {0} \cup DOMAIN list
         /\ get_event(id) = 0 => Matches(id) = {}
         /\ get_event(id) # 0 => list[get_event(id)].id = id
<1>1. DOMAIN list \subseteq Nat \ {0}
  BY DEF IInv, TypeOK
<1>2. CASE Matches(id) = {}
  BY <1>2 DEF get_event
<1>3. CASE Matches(id) # {}
  <2>1. \A p, q \in Matches(id) : p = q
    BY DEF IInv, UniqueInv, Matches
  <2>2. \A p \in Matches(id) : p <= p
    BY <1>1 DEF Matches
  <2>3. \E p \in Matches(id) : \A q \in Matches(id) : p <= q
    BY <1>3, <2>1, <2>2
  <2>4. get_event(id) \in Matches(id)
    BY <1>3, <2>3 DEF get_event
  <2> QED
    BY <1>1, <2>4 DEF Matches
<1> QED
  BY <1>2, <1>3

\* What the check established survives a step that changes neither the event
\* nor the call of the worker that writes.
LEMMA ReserveKept ==
  ASSUME ReserveInv, NEW v \in Workers, pc[v] = "reserve_write",
         call'[v] = call[v], event'[v] = event[v],
         pos'[v] = pos[v], reservation_id'[v] = reservation_id[v],
         list'[event[v]] = list[event[v]]
  PROVE  ReserveInv!(v)'
BY DEF ReserveInv, seat_index

\* Steps that leave the list and the locals of the calls alone: they only
\* move one worker to another place in the same call.
LEMMA LocalStep ==
  ASSUME IInv, UNCHANGED <<list, call, event, pos, reservation_id>>,
         NEW w \in Workers, NEW to \in PCs, pc' = [pc EXCEPT ![w] = to],
         to \in Reserving => pc[w] \in Reserving,
         to \in {"create", "create_lookup"} =>
            pc[w] \in {"create", "create_lookup"},
         to \in UsesEvent => pc[w] \in UsesEvent,
         to \in HoldsMutex => pc[w] \in HoldsMutex,
         to # "reserve_write"
  PROVE  UniqueInv' /\ CallInv' /\ PointerInv' /\ MutexInv' /\ ReserveInv'
<1>1. pc \in [Workers -> PCs]
  BY DEF IInv, TypeOK
<1>2. CallInv'
  BY <1>1 DEF IInv, CallInv
<1>3. PointerInv'
  BY <1>1 DEF IInv, PointerInv
<1>4. MutexInv'
  BY <1>1 DEF IInv, MutexInv
<1>5. ReserveInv'
  <2> SUFFICES ASSUME NEW v \in Workers, pc'[v] = "reserve_write"
               PROVE  ReserveInv!(v)'
    BY DEF ReserveInv
  <2>1. pc[v] = "reserve_write"
    BY <1>1
  <2> QED
    BY <2>1, ReserveKept DEF IInv
<1>6. UniqueInv'
  BY DEF IInv, UniqueInv
<1> QED
  BY <1>2, <1>3, <1>4, <1>5, <1>6

\* A worker starts a call: it takes arguments that fit the operation.
LEMMA InvokeInv == ASSUME IInv, NEW w \in Workers, Invoke(w) PROVE IInv'
<1>1. PICK c \in Calls : /\ pc[w] = "idle" /\ pc' = [pc EXCEPT ![w] = c.op]
                         /\ call' = [call EXCEPT ![w] = c]
  BY DEF Invoke, Goto
<1>2. /\ c.op \in {"create", "reserve", "show", "list"}
      /\ c.op = "create" => c \in CreateCalls
      /\ c.op = "reserve" => c \in ReserveCalls
  BY DEF Calls, CreateCalls, ReserveCalls
<1>3. UNCHANGED <<list, num_events, readers, writer, event, pos, reservation_id>>
  BY DEF Invoke, shared, rwl
<1>4. calls' \in [Workers -> 0 .. MaxCalls]
  BY BoundsAssumption DEF Invoke, IInv, TypeOK
<1>5. TypeOK'
  BY <1>1, <1>2, <1>3, <1>4 DEF IInv, TypeOK, PCs
<1>6. CallInv'
  BY <1>1, <1>2 DEF IInv, TypeOK, CallInv, Reserving
<1>7. \A v \in Workers : pc'[v] \in UsesEvent =>
         v # w /\ pc'[v] = pc[v] /\ call'[v] = call[v]
  BY <1>1, <1>2 DEF IInv, TypeOK, UsesEvent
<1>8. PointerInv'
  BY <1>3, <1>7 DEF IInv, PointerInv
<1>9. MutexInv'
  BY <1>3, <1>7 DEF IInv, MutexInv, HoldsMutex, UsesEvent
<1>10. ReserveInv'
  BY <1>3, <1>7 DEF IInv, ReserveInv, seat_index, UsesEvent
<1>11. UniqueInv'
  BY <1>3 DEF IInv, UniqueInv
<1> QED
  BY <1>5, <1>6, <1>8, <1>9, <1>10, <1>11 DEF IInv

LEMMA ReturnInv == ASSUME IInv, NEW w \in Workers, Return(w) PROVE IInv'
<1>1. UNCHANGED <<list, num_events, readers, writer, calls>>
  BY DEF Return, shared, rwl
<1>2. TypeOK'
  BY <1>1 DEF Return, Goto, IInv, TypeOK, PCs
<1>3. pc \in [Workers -> PCs] /\ pc' = [pc EXCEPT ![w] = "idle"]
  BY DEF Return, Goto, IInv, TypeOK
<1>4. \A v \in Workers :
         /\ pc'[v] # "idle" => v # w /\ pc'[v] = pc[v]
         /\ v # w => /\ call'[v] = call[v] /\ event'[v] = event[v]
                     /\ pos'[v] = pos[v]
                     /\ reservation_id'[v] = reservation_id[v]
  BY <1>3 DEF Return, IInv, TypeOK
<1>5. CallInv'
  BY <1>4 DEF IInv, CallInv, Reserving
<1>6. PointerInv'
  BY <1>1, <1>4 DEF IInv, PointerInv, UsesEvent
<1>7. MutexInv'
  BY <1>1, <1>4 DEF IInv, MutexInv, HoldsMutex
<1>8. ReserveInv'
  BY <1>1, <1>4 DEF IInv, ReserveInv, seat_index
<1>9. UniqueInv'
  BY <1>1 DEF IInv, UniqueInv
<1> QED
  BY <1>2, <1>5, <1>6, <1>7, <1>8, <1>9 DEF IInv

LEMMA CreateInv ==
  ASSUME IInv, NEW w \in Workers,
         \/ CreateLock(w) \/ CreateReject(w) \/ CreateAppend(w)
         \/ CreateCount(w) \/ CreateUnlock(w)
  PROVE  IInv'
<1>1. CASE CreateLock(w)
  <2>1. UNCHANGED <<list, num_events, call, event, pos, reservation_id, calls>>
    BY <1>1 DEF CreateLock, shared, locals
  <2>2. /\ pc[w] = "create" /\ pc' = [pc EXCEPT ![w] = "create_lookup"]
        /\ readers' = readers /\ writer' = w
    BY <1>1 DEF CreateLock, Goto, WrLock
  <2>3. TypeOK'
    BY <2>1, <2>2 DEF IInv, TypeOK, PCs, Threads
  <2>4. UniqueInv' /\ CallInv' /\ PointerInv' /\ MutexInv' /\ ReserveInv'
    BY <2>1, <2>2, LocalStep DEF PCs, Reserving, UsesEvent, HoldsMutex
  <2> QED
    BY <2>3, <2>4 DEF IInv
<1>2. CASE CreateReject(w)
  <2>1. UNCHANGED <<list, num_events, readers, writer, call, event, pos,
                    reservation_id, calls>>
    BY <1>2 DEF CreateReject, shared, rwl, locals
  <2>2. pc[w] = "create_lookup" /\ pc' = [pc EXCEPT ![w] = "create_unlock"]
    BY <1>2 DEF CreateReject, Goto
  <2>3. TypeOK'
    BY <2>1, <2>2 DEF IInv, TypeOK, PCs
  <2>4. UniqueInv' /\ CallInv' /\ PointerInv' /\ MutexInv' /\ ReserveInv'
    BY <2>1, <2>2, LocalStep DEF PCs, Reserving, UsesEvent, HoldsMutex
  <2> QED
    BY <2>3, <2>4 DEF IInv
<1>3. CASE CreateAppend(w)
  <2> DEFINE e == NewEvent(call[w].id, call[w].shape)
  <2>1. UNCHANGED <<num_events, readers, writer, call, event, pos,
                    reservation_id, calls>>
    BY <1>3 DEF CreateAppend, rwl, locals
  <2>2. /\ pc[w] = "create_lookup" /\ pc' = [pc EXCEPT ![w] = "create_count"]
        /\ list' = Append(list, e)
    BY <1>3 DEF CreateAppend, Goto
  <2>3. call[w] \in CreateCalls
    BY <2>2 DEF IInv, CallInv
  <2>4. /\ e \in Event /\ <<e.rows, e.cols>> \in Shapes
        /\ e.data \in [Cells(e.rows, e.cols) -> Nat]
    BY <2>3, NewEventType
  <2> HIDE DEF e
  <2>5. list \in Seq(Event)
    BY DEF IInv, TypeOK
  <2>6. /\ list' \in Seq(Event) /\ DOMAIN list' = DOMAIN list \cup {Len(list) + 1}
        /\ list'[Len(list) + 1] = e
        /\ \A p \in DOMAIN list : list'[p] = list[p]
    BY <2>2, <2>4, <2>5
  <2>7. TypeOK'
    BY <2>1, <2>2, <2>4, <2>6 DEF IInv, TypeOK, PCs
  <2>8. CallInv' /\ PointerInv'
    BY <2>1, <2>2, <2>6 DEF IInv, TypeOK, CallInv, PointerInv, Reserving, UsesEvent
  <2>9. MutexInv'
    BY <2>1, <2>2, <2>6 DEF IInv, TypeOK, PointerInv, MutexInv, UsesEvent, HoldsMutex
  <2>10. ReserveInv'
    <3> SUFFICES ASSUME NEW v \in Workers, pc'[v] = "reserve_write"
                 PROVE  ReserveInv!(v)'
      BY DEF ReserveInv
    <3>1. pc[v] = "reserve_write" /\ list'[event[v]] = list[event[v]]
      BY <2>2, <2>6 DEF IInv, TypeOK, PointerInv, UsesEvent
    <3> QED
      BY <2>1, <3>1 DEF IInv, ReserveInv, seat_index
  <2>11. UniqueInv'
    <3>1. Matches(call[w].id) = {}
      BY <1>3, GetEventType DEF CreateAppend
    <3>2. e.id = call[w].id
      BY DEF e, NewEvent
    <3> QED
      BY <2>6, <3>1, <3>2 DEF IInv, UniqueInv, Matches
  <2> QED
    BY <2>7, <2>8, <2>9, <2>10, <2>11 DEF IInv
<1>4. CASE CreateCount(w)
  <2>1. UNCHANGED <<list, readers, writer, call, event, pos, reservation_id, calls>>
    BY <1>4 DEF CreateCount, rwl, locals
  <2>2. /\ pc[w] = "create_count" /\ pc' = [pc EXCEPT ![w] = "create_unlock"]
        /\ num_events' = num_events + 1
    BY <1>4 DEF CreateCount, Goto
  <2>3. TypeOK'
    BY SMTT(60), <2>1, <2>2 DEF IInv, TypeOK, PCs
  <2>4. UniqueInv' /\ CallInv' /\ PointerInv' /\ MutexInv' /\ ReserveInv'
    BY <2>1, <2>2, LocalStep DEF PCs, Reserving, UsesEvent, HoldsMutex
  <2> QED
    BY <2>3, <2>4 DEF IInv
<1>5. CASE CreateUnlock(w)
  <2>1. UNCHANGED <<list, num_events, call, event, pos, reservation_id, calls>>
    BY <1>5 DEF CreateUnlock, shared, locals
  <2>2. /\ pc[w] = "create_unlock" /\ pc' = [pc EXCEPT ![w] = "return"]
        /\ readers' = readers /\ writer' = NoOne
    BY <1>5 DEF CreateUnlock, Goto, WrUnlock
  <2>3. TypeOK'
    BY <2>1, <2>2 DEF IInv, TypeOK, PCs
  <2>4. UniqueInv' /\ CallInv' /\ PointerInv' /\ MutexInv' /\ ReserveInv'
    BY <2>1, <2>2, LocalStep DEF PCs, Reserving, UsesEvent, HoldsMutex
  <2> QED
    BY <2>3, <2>4 DEF IInv
<1> QED
  BY <1>1, <1>2, <1>3, <1>4, <1>5


\* Locking or unlocking the mutex of an event, for a worker that stays at or
\* goes to a place of the same call: the mutex changes hands to w or to
\* nobody, and nobody else held it.
LEMMA MutexStep ==
  ASSUME IInv, NEW w \in Workers, NEW to \in PCs, NEW x \in Workers \cup {NoOne},
         UNCHANGED <<call, event, pos, reservation_id>>,
         pc[w] \in UsesEvent, pc' = [pc EXCEPT ![w] = to],
         list' = [list EXCEPT ![event[w]].mutex = x],
         list[event[w]].mutex \in {w, NoOne},
         to \in HoldsMutex => x = w,
         to \in Reserving => pc[w] \in Reserving,
         to \notin {"create", "create_lookup", "reserve_write"}
  PROVE  /\ UniqueInv' /\ CallInv' /\ PointerInv' /\ MutexInv' /\ ReserveInv'
         /\ list' \in Seq(Event)
         /\ \A p \in DOMAIN list' :
              /\ <<list'[p].rows, list'[p].cols>> \in Shapes
              /\ list'[p].data \in [Cells(list'[p].rows, list'[p].cols) -> Nat]
<1>1. pc \in [Workers -> PCs] /\ list \in Seq(Event) /\ event[w] \in DOMAIN list
  BY DEF IInv, TypeOK, PointerInv
<1>2. /\ list' \in Seq(Event) /\ DOMAIN list' = DOMAIN list
      /\ list'[event[w]].mutex = x
      /\ \A q \in DOMAIN list :
           /\ list'[q].id = list[q].id /\ list'[q].rows = list[q].rows
           /\ list'[q].cols = list[q].cols /\ list'[q].data = list[q].data
           /\ q # event[w] => list'[q] = list[q]
  BY <1>1, MutexChange
<1>3. UniqueInv'
  BY <1>2 DEF IInv, UniqueInv
<1>4. CallInv'
  BY <1>1 DEF IInv, CallInv
<1>5. PointerInv'
  BY <1>1, <1>2 DEF IInv, PointerInv
<1>6. MutexInv'
  <2> SUFFICES ASSUME NEW v \in Workers, pc'[v] \in HoldsMutex
               PROVE  list'[event'[v]].mutex = v
    BY DEF MutexInv
  <2>1. CASE v = w
    BY <1>1, <1>2, <2>1
  <2>2. CASE v # w
    <3>1. /\ pc[v] \in HoldsMutex /\ event[v] \in DOMAIN list
          /\ list[event[v]].mutex = v
      BY <1>1, <2>2 DEF IInv, MutexInv, PointerInv, HoldsMutex, UsesEvent
    <3>2. event[v] # event[w]
      BY <2>2, <3>1, ThreadsAssumption
    <3> QED
      BY <1>2, <3>1, <3>2
  <2> QED
    BY <2>1, <2>2
<1>7. ReserveInv'
  <2> SUFFICES ASSUME NEW v \in Workers, pc'[v] = "reserve_write"
               PROVE  ReserveInv!(v)'
    BY DEF ReserveInv
  <2>1. /\ pc[v] = "reserve_write" /\ event[v] \in DOMAIN list
        /\ list'[event[v]].data = list[event[v]].data
        /\ list'[event[v]].cols = list[event[v]].cols
    BY <1>1, <1>2 DEF IInv, PointerInv, UsesEvent
  <2> QED
    BY <2>1 DEF IInv, ReserveInv, seat_index
<1>8. \A p \in DOMAIN list' :
         /\ <<list'[p].rows, list'[p].cols>> \in Shapes
         /\ list'[p].data \in [Cells(list'[p].rows, list'[p].cols) -> Nat]
  <2> SUFFICES ASSUME NEW p \in DOMAIN list
               PROVE  /\ <<list'[p].rows, list'[p].cols>> \in Shapes
                      /\ list'[p].data \in [Cells(list'[p].rows, list'[p].cols) -> Nat]
    BY <1>2
  <2>1. /\ list'[p].rows = list[p].rows /\ list'[p].cols = list[p].cols
        /\ list'[p].data = list[p].data
    BY <1>2
  <2> QED
    BY <2>1 DEF IInv, TypeOK
<1> QED
  BY <1>2, <1>3, <1>4, <1>5, <1>6, <1>7, <1>8

\* Writing a seat, or taking a number, as the owner of the mutex.
LEMMA ReserveInvOthers ==
  ASSUME IInv, NEW w \in Workers, pc[w] \in HoldsMutex,
         NEW v \in Workers, v # w, pc[v] = "reserve_write",
         call'[v] = call[v], event'[v] = event[v],
         pos'[v] = pos[v], reservation_id'[v] = reservation_id[v],
         \A p \in DOMAIN list : p # event[w] => list'[p] = list[p]
  PROVE  /\ event[v] # event[w]
         /\ ReserveInv!(v)'
<1>1. event[v] \in DOMAIN list
  BY DEF IInv, PointerInv, UsesEvent
<1>2. list[event[v]].mutex = v /\ list[event[w]].mutex = w
  BY DEF IInv, MutexInv, HoldsMutex
<1>3. event[v] # event[w] /\ list'[event[v]] = list[event[v]]
  BY <1>1, <1>2
<1> QED
  BY <1>3 DEF IInv, ReserveInv, seat_index

LEMMA ReserveInvariant ==
  ASSUME IInv, NEW w \in Workers,
         \/ ReserveLock(w) \/ ReserveLookup(w) \/ ReserveMutex(w)
         \/ ReserveReject(w) \/ ReserveNumber(w) \/ ReserveWrite(w)
         \/ ReserveUnlock(w)
  PROVE  IInv'
<1> USE DEF Goto
<1>1. CASE ReserveLock(w)
  <2>1. UNCHANGED <<list, num_events, call, event, pos, reservation_id, calls>>
    BY <1>1 DEF ReserveLock, shared, locals
  <2>2. /\ pc[w] = "reserve" /\ pc' = [pc EXCEPT ![w] = "reserve_lookup"]
        /\ readers' = readers \cup {w} /\ writer' = writer
    BY <1>1 DEF ReserveLock, RdLock
  <2>3. TypeOK'
    BY <2>1, <2>2 DEF IInv, TypeOK, PCs, Threads
  <2>4. UniqueInv' /\ CallInv' /\ PointerInv' /\ MutexInv' /\ ReserveInv'
    BY <2>1, <2>2, LocalStep DEF PCs, Reserving, UsesEvent, HoldsMutex
  <2> QED
    BY <2>3, <2>4 DEF IInv
<1>2. CASE ReserveLookup(w)
  <2>1. /\ UNCHANGED <<list, num_events, writer, call, pos, reservation_id, calls>>
        /\ readers' = readers \ {w}
    BY <1>2 DEF ReserveLookup, RdUnlock, shared
  <2>2. PICK to \in {"return", "reserve_mutex"} :
           /\ pc[w] = "reserve_lookup" /\ pc' = [pc EXCEPT ![w] = to]
           /\ to = "reserve_mutex" => event'[w] # 0
    BY <1>2 DEF ReserveLookup
  <2>3. event' = [event EXCEPT ![w] = get_event(call[w].id)]
    BY <1>2 DEF ReserveLookup
  <2>4. get_event(call[w].id) \in {0} \cup DOMAIN list /\ DOMAIN list \subseteq Nat
    BY GetEventType DEF IInv, TypeOK
  <2>5. TypeOK'
    BY SMTT(60), <2>1, <2>2, <2>3, <2>4 DEF IInv, TypeOK, PCs
  <2>6. UniqueInv' /\ CallInv'
    BY <2>1, <2>2 DEF IInv, TypeOK, UniqueInv, CallInv, Reserving
  <2>7. PointerInv' /\ MutexInv'
    BY <2>1, <2>2, <2>3, <2>4 DEF IInv, TypeOK, PointerInv, MutexInv,
       UsesEvent, HoldsMutex
  <2>8. ReserveInv'
    <3> SUFFICES ASSUME NEW v \in Workers, pc'[v] = "reserve_write"
                 PROVE  ReserveInv!(v)'
      BY DEF ReserveInv
    <3>1. pc[v] = "reserve_write" /\ event'[v] = event[v]
      BY <2>2, <2>3 DEF IInv, TypeOK
    <3> QED
      BY <2>1, <3>1, ReserveKept DEF IInv
  <2> QED
    BY <2>5, <2>6, <2>7, <2>8 DEF IInv
<1>3. CASE ReserveMutex(w)
  <2>1. UNCHANGED <<num_events, readers, writer, call, event, pos,
                    reservation_id, calls>>
    BY <1>3 DEF ReserveMutex, rwl, locals
  <2>2. /\ pc[w] = "reserve_mutex" /\ pc' = [pc EXCEPT ![w] = "reserve_check"]
        /\ list[event[w]].mutex = NoOne
        /\ list' = [list EXCEPT ![event[w]].mutex = w]
    BY <1>3 DEF ReserveMutex, MutexLock
  <2>3. /\ UniqueInv' /\ CallInv' /\ PointerInv' /\ MutexInv' /\ ReserveInv'
        /\ list' \in Seq(Event)
        /\ \A p \in DOMAIN list' :
             /\ <<list'[p].rows, list'[p].cols>> \in Shapes
             /\ list'[p].data \in [Cells(list'[p].rows, list'[p].cols) -> Nat]
    BY <2>1, <2>2, MutexStep DEF PCs, UsesEvent, HoldsMutex, Reserving
  <2>4. TypeOK'
    BY <2>1, <2>2, <2>3 DEF IInv, TypeOK, PCs
  <2> QED
    BY <2>3, <2>4 DEF IInv
<1>4. CASE ReserveReject(w)
  <2>1. UNCHANGED <<num_events, readers, writer, call, event, pos,
                    reservation_id, calls>>
    BY <1>4 DEF ReserveReject, rwl, locals
  <2>2. /\ pc[w] = "reserve_check" /\ pc' = [pc EXCEPT ![w] = "return"]
        /\ list' = [list EXCEPT ![event[w]].mutex = NoOne]
    BY <1>4 DEF ReserveReject, MutexUnlock
  <2>3. list[event[w]].mutex = w
    BY <2>2 DEF IInv, MutexInv, HoldsMutex
  <2>4. /\ UniqueInv' /\ CallInv' /\ PointerInv' /\ MutexInv' /\ ReserveInv'
        /\ list' \in Seq(Event)
        /\ \A p \in DOMAIN list' :
             /\ <<list'[p].rows, list'[p].cols>> \in Shapes
             /\ list'[p].data \in [Cells(list'[p].rows, list'[p].cols) -> Nat]
    BY <2>1, <2>2, <2>3, MutexStep DEF PCs, UsesEvent, HoldsMutex, Reserving
  <2>5. TypeOK'
    BY <2>1, <2>2, <2>4 DEF IInv, TypeOK, PCs
  <2> QED
    BY <2>4, <2>5 DEF IInv
<1>5. CASE ReserveNumber(w)
  <2> DEFINE e == list[event[w]]
  <2>1. UNCHANGED <<num_events, readers, writer, call, event, calls>>
    BY <1>5 DEF ReserveNumber, rwl
  <2>2. /\ pc[w] = "reserve_check" /\ pc' = [pc EXCEPT ![w] = "reserve_write"]
        /\ CanReserve(e, call[w].seats)
        /\ list' = [list EXCEPT ![event[w]].reservations = e.reservations + 1]
        /\ reservation_id' = [reservation_id EXCEPT ![w] = e.reservations + 1]
        /\ pos' = [pos EXCEPT ![w] = 1]
    BY <1>5 DEF ReserveNumber, NextNumber
  <2>3. /\ list \in Seq(Event) /\ event[w] \in DOMAIN list
        /\ e.reservations + 1 \in Nat
    <3>1. list \in Seq(Event) /\ event[w] \in DOMAIN list
      BY <2>2 DEF IInv, TypeOK, PointerInv, UsesEvent
    <3>2. e \in Event
      BY <3>1
    <3> QED
      BY <3>1, <3>2 DEF Event
  <2>4. /\ list' \in Seq(Event) /\ DOMAIN list' = DOMAIN list
        /\ \A q \in DOMAIN list :
             /\ list'[q].id = list[q].id /\ list'[q].rows = list[q].rows
             /\ list'[q].cols = list[q].cols /\ list'[q].data = list[q].data
             /\ list'[q].mutex = list[q].mutex
             /\ q # event[w] => list'[q] = list[q]
    BY <2>2, <2>3, CounterChange
  <2>5. \A p \in DOMAIN list' :
           /\ <<list'[p].rows, list'[p].cols>> \in Shapes
           /\ list'[p].data \in [Cells(list'[p].rows, list'[p].cols) -> Nat]
    <3> SUFFICES ASSUME NEW p \in DOMAIN list
                 PROVE  /\ <<list'[p].rows, list'[p].cols>> \in Shapes
                        /\ list'[p].data \in
                             [Cells(list'[p].rows, list'[p].cols) -> Nat]
      BY <2>4
    <3>1. /\ list'[p].rows = list[p].rows /\ list'[p].cols = list[p].cols
          /\ list'[p].data = list[p].data
      BY <2>4
    <3> QED
      BY <3>1 DEF IInv, TypeOK
  <2>6. TypeOK'
    BY <2>1, <2>2, <2>3, <2>4, <2>5 DEF IInv, TypeOK, PCs
  <2>7. UniqueInv' /\ CallInv'
    BY <2>1, <2>2, <2>4 DEF IInv, TypeOK, UniqueInv, CallInv, Reserving
  <2>8. PointerInv' /\ MutexInv'
    BY <2>1, <2>2, <2>4 DEF IInv, TypeOK, PointerInv, MutexInv, UsesEvent,
       HoldsMutex
  <2>9. ReserveInv'
    <3> SUFFICES ASSUME NEW v \in Workers, pc'[v] = "reserve_write"
                 PROVE  ReserveInv!(v)'
      BY DEF ReserveInv
    <3>1. CASE v = w
      <4>1. \A k \in DOMAIN call[w].seats :
              LET i == seat_index(e, call[w].seats[k])
              IN  i \in DOMAIN e.data => e.data[i] = 0
        <5>1. e.data \in [Cells(e.rows, e.cols) -> Nat]
          BY <2>3 DEF IInv, TypeOK
        <5> QED
          BY <2>2, <5>1 DEF CanReserve, Asked
      <4>2. pos'[w] >= 1
        BY <2>2 DEF IInv, TypeOK
      <4>3. /\ list'[event[w]].rows = e.rows /\ list'[event[w]].cols = e.cols
            /\ list'[event[w]].data = e.data
        BY <2>3, <2>4
      <4> HIDE DEF e
      <4> QED
        BY SMTT(60), <2>1, <3>1, <4>1, <4>2, <4>3 DEF seat_index
    <3>2. CASE v # w
      <4>1. /\ pc[w] \in HoldsMutex /\ pc[v] = "reserve_write"
            /\ pos'[v] = pos[v] /\ reservation_id'[v] = reservation_id[v]
        BY <2>1, <2>2, <3>2 DEF IInv, TypeOK, HoldsMutex
      <4> QED
        BY <2>1, <2>4, <3>2, <4>1, ReserveInvOthers
    <3> QED
      BY <3>1, <3>2
  <2> QED
    BY <2>6, <2>7, <2>8, <2>9 DEF IInv
<1>6. CASE ReserveWrite(w)
  <2> DEFINE e == list[event[w]]
             i == seat_index(e, call[w].seats[pos[w]])
  <2>1. UNCHANGED <<num_events, readers, writer, pc, call, event,
                    reservation_id, calls>>
    BY <1>6 DEF ReserveWrite, rwl
  <2>2. /\ pc[w] = "reserve_write"
        /\ list' = [list EXCEPT ![event[w]].data[i] = reservation_id[w]]
        /\ pos' = [pos EXCEPT ![w] = pos[w] + 1]
    BY <1>6 DEF ReserveWrite
  <2>3. /\ list \in Seq(Event) /\ event[w] \in DOMAIN list
        /\ reservation_id[w] \in Nat /\ pos[w] \in Nat /\ pos[w] >= 1
    BY <2>2 DEF IInv, TypeOK, PointerInv, ReserveInv, UsesEvent
  <2> HIDE DEF i
  <2>4. /\ list' \in Seq(Event) /\ DOMAIN list' = DOMAIN list
        /\ list'[event[w]].data = [e.data EXCEPT ![i] = reservation_id[w]]
        /\ \A q \in DOMAIN list :
             /\ list'[q].id = list[q].id /\ list'[q].rows = list[q].rows
             /\ list'[q].cols = list[q].cols /\ list'[q].mutex = list[q].mutex
             /\ q # event[w] => list'[q] = list[q]
    <3> DEFINE d == [e.data EXCEPT ![i] = reservation_id[w]]
    <3>1. e.data \in CellMaps
      <4>1. e \in Event
        BY <2>3
      <4> QED
        BY <4>1 DEF Event
    <3>2. d \in CellMaps
      BY <2>3, <3>1, CellMapsClosed
    <3>3. list' = [list EXCEPT ![event[w]].data = d]
      BY <2>2
    <3> HIDE DEF d
    <3>4. /\ list' \in Seq(Event) /\ DOMAIN list' = DOMAIN list
          /\ list'[event[w]].data = d
          /\ \A q \in DOMAIN list :
               /\ list'[q].id = list[q].id /\ list'[q].rows = list[q].rows
               /\ list'[q].cols = list[q].cols
               /\ list'[q].mutex = list[q].mutex
               /\ q # event[w] => list'[q] = list[q]
      BY <2>3, <3>2, <3>3, SeatChange
    <3> QED
      BY <3>4 DEF d
  <2>5. \A p \in DOMAIN list' :
           /\ <<list'[p].rows, list'[p].cols>> \in Shapes
           /\ list'[p].data \in [Cells(list'[p].rows, list'[p].cols) -> Nat]
    <3> SUFFICES ASSUME NEW p \in DOMAIN list
                 PROVE  /\ <<list'[p].rows, list'[p].cols>> \in Shapes
                        /\ list'[p].data \in
                             [Cells(list'[p].rows, list'[p].cols) -> Nat]
      BY <2>4
    <3>1. list'[p].rows = list[p].rows /\ list'[p].cols = list[p].cols
      BY <2>4
    <3>2. list[p].data \in [Cells(list[p].rows, list[p].cols) -> Nat]
      BY DEF IInv, TypeOK
    <3>3. \/ list'[p].data = list[p].data
          \/ list'[p].data = [list[p].data EXCEPT ![i] = reservation_id[w]]
      BY <2>4
    <3>4. list'[p].data \in [Cells(list[p].rows, list[p].cols) -> Nat]
      BY <2>3, <3>2, <3>3
    <3> QED
      BY <3>1, <3>4 DEF IInv, TypeOK
  <2>6. TypeOK'
    BY SMTT(30), <2>1, <2>2, <2>3, <2>4, <2>5 DEF IInv, TypeOK
  <2>7. UniqueInv' /\ CallInv'
    BY <2>1, <2>4 DEF IInv, UniqueInv, CallInv
  <2>8. PointerInv' /\ MutexInv'
    BY <2>1, <2>4 DEF IInv, PointerInv, MutexInv, UsesEvent, HoldsMutex
  <2>9. ReserveInv'
    <3> SUFFICES ASSUME NEW v \in Workers, pc'[v] = "reserve_write"
                 PROVE  ReserveInv!(v)'
      BY DEF ReserveInv
    <3>1. CASE v = w
      <4>1. /\ list'[event[w]].cols = e.cols
            /\ DOMAIN list'[event[w]].data = DOMAIN e.data
            /\ \A j \in DOMAIN e.data :
                 list'[event[w]].data[j] \in {e.data[j], reservation_id[w]}
        BY <2>3, <2>4
      <4>2. pos'[w] >= 1
        BY <2>2, <2>3 DEF IInv, TypeOK
      <4>3. \A k \in DOMAIN call[w].seats :
              LET j == seat_index(e, call[w].seats[k])
              IN  j \in DOMAIN e.data => e.data[j] \in {0, reservation_id[w]}
        BY <2>2 DEF IInv, ReserveInv
      <4>4. \A seat : seat_index(list'[event[w]], seat) = seat_index(e, seat)
        BY <4>1 DEF seat_index
      <4> QED
        BY <2>1, <3>1, <4>1, <4>2, <4>3, <4>4
    <3>2. CASE v # w
      <4>1. /\ pc[w] \in HoldsMutex /\ pc[v] = "reserve_write"
            /\ pos'[v] = pos[v] /\ reservation_id'[v] = reservation_id[v]
        BY <2>1, <2>2, <3>2 DEF IInv, TypeOK, HoldsMutex
      <4> QED
        BY <2>1, <2>4, <3>2, <4>1, ReserveInvOthers
    <3> QED
      BY <3>1, <3>2
  <2> QED
    BY <2>6, <2>7, <2>8, <2>9 DEF IInv
<1>7. CASE ReserveUnlock(w)
  <2>1. UNCHANGED <<num_events, readers, writer, call, event, pos,
                    reservation_id, calls>>
    BY <1>7 DEF ReserveUnlock, rwl, locals
  <2>2. /\ pc[w] = "reserve_write" /\ pc' = [pc EXCEPT ![w] = "return"]
        /\ list' = [list EXCEPT ![event[w]].mutex = NoOne]
    BY <1>7 DEF ReserveUnlock, MutexUnlock
  <2>3. list[event[w]].mutex = w
    BY <2>2 DEF IInv, MutexInv, HoldsMutex
  <2>4. /\ UniqueInv' /\ CallInv' /\ PointerInv' /\ MutexInv' /\ ReserveInv'
        /\ list' \in Seq(Event)
        /\ \A p \in DOMAIN list' :
             /\ <<list'[p].rows, list'[p].cols>> \in Shapes
             /\ list'[p].data \in [Cells(list'[p].rows, list'[p].cols) -> Nat]
    BY <2>1, <2>2, <2>3, MutexStep DEF PCs, UsesEvent, HoldsMutex, Reserving
  <2>5. TypeOK'
    BY <2>1, <2>2, <2>4 DEF IInv, TypeOK, PCs
  <2> QED
    BY <2>4, <2>5 DEF IInv
<1> QED
  BY <1>1, <1>2, <1>3, <1>4, <1>5, <1>6, <1>7

LEMMA ShowInvariant ==
  ASSUME IInv, NEW w \in Workers,
         \/ ShowLock(w) \/ ShowLookup(w) \/ ShowMutex(w) \/ ShowHeader(w)
         \/ ShowHeaderFails(w) \/ ShowCopy(w) \/ ShowUnlock(w)
  PROVE  IInv'
<1> USE DEF Goto
<1>1. CASE ShowLock(w)
  <2>1. UNCHANGED <<list, num_events, call, event, pos, reservation_id, calls>>
    BY <1>1 DEF ShowLock, shared, locals
  <2>2. /\ pc[w] = "show" /\ pc' = [pc EXCEPT ![w] = "show_lookup"]
        /\ readers' = readers \cup {w} /\ writer' = writer
    BY <1>1 DEF ShowLock, RdLock
  <2>3. TypeOK'
    BY <2>1, <2>2 DEF IInv, TypeOK, PCs, Threads
  <2>4. UniqueInv' /\ CallInv' /\ PointerInv' /\ MutexInv' /\ ReserveInv'
    BY <2>1, <2>2, LocalStep DEF PCs, Reserving, UsesEvent, HoldsMutex
  <2> QED
    BY <2>3, <2>4 DEF IInv
<1>2. CASE ShowLookup(w)
  <2>1. /\ UNCHANGED <<list, num_events, writer, call, pos, reservation_id, calls>>
        /\ readers' \in {readers, readers \ {w}}
    BY <1>2 DEF ShowLookup, RdUnlock, shared, rwl
  <2>2. PICK to \in {"return", "show_mutex"} :
           /\ pc[w] = "show_lookup" /\ pc' = [pc EXCEPT ![w] = to]
           /\ to = "show_mutex" => event'[w] # 0
    BY <1>2 DEF ShowLookup
  <2>3. event' = [event EXCEPT ![w] = get_event(call[w].id)]
    BY <1>2 DEF ShowLookup
  <2>4. get_event(call[w].id) \in {0} \cup DOMAIN list /\ DOMAIN list \subseteq Nat
    BY GetEventType DEF IInv, TypeOK
  <2>5. TypeOK'
    BY SMTT(30), <2>1, <2>2, <2>3, <2>4 DEF IInv, TypeOK, PCs
  <2>6. UniqueInv' /\ CallInv'
    BY <2>1, <2>2 DEF IInv, TypeOK, UniqueInv, CallInv, Reserving
  <2>7. PointerInv' /\ MutexInv'
    BY <2>1, <2>2, <2>3, <2>4 DEF IInv, TypeOK, PointerInv, MutexInv,
       UsesEvent, HoldsMutex
  <2>8. ReserveInv'
    <3> SUFFICES ASSUME NEW v \in Workers, pc'[v] = "reserve_write"
                 PROVE  ReserveInv!(v)'
      BY DEF ReserveInv
    <3>1. pc[v] = "reserve_write" /\ event'[v] = event[v]
      BY <2>2, <2>3 DEF IInv, TypeOK
    <3> QED
      BY <2>1, <3>1, ReserveKept DEF IInv
  <2> QED
    BY <2>5, <2>6, <2>7, <2>8 DEF IInv
<1>3. CASE ShowMutex(w)
  <2>1. UNCHANGED <<num_events, readers, writer, call, event, pos,
                    reservation_id, calls>>
    BY <1>3 DEF ShowMutex, rwl, locals
  <2>2. /\ pc[w] = "show_mutex" /\ pc' = [pc EXCEPT ![w] = "show_header"]
        /\ list' = [list EXCEPT ![event[w]].mutex = w]
    BY <1>3 DEF ShowMutex, MutexLock
  <2>3. list[event[w]].mutex = NoOne
    BY <1>3 DEF ShowMutex, MutexLock
  <2>4. /\ UniqueInv' /\ CallInv' /\ PointerInv' /\ MutexInv' /\ ReserveInv'
        /\ list' \in Seq(Event)
        /\ \A p \in DOMAIN list' :
             /\ <<list'[p].rows, list'[p].cols>> \in Shapes
             /\ list'[p].data \in [Cells(list'[p].rows, list'[p].cols) -> Nat]
    BY <2>1, <2>2, <2>3, MutexStep DEF PCs, UsesEvent, HoldsMutex, Reserving
  <2>5. TypeOK'
    BY <2>1, <2>2, <2>4 DEF IInv, TypeOK, PCs
  <2> QED
    BY <2>4, <2>5 DEF IInv
<1>4. CASE ShowHeader(w)
  <2>1. /\ UNCHANGED <<list, num_events, writer, call, event, pos,
                       reservation_id, calls>>
        /\ readers' = readers \ {w}
    BY <1>4 DEF ShowHeader, RdUnlock, shared
  <2>2. pc[w] = "show_header" /\ pc' = [pc EXCEPT ![w] = "show_copy"]
    BY <1>4 DEF ShowHeader
  <2>3. TypeOK'
    BY <2>1, <2>2 DEF IInv, TypeOK, PCs
  <2>4. UniqueInv' /\ CallInv' /\ PointerInv' /\ MutexInv' /\ ReserveInv'
    BY <2>1, <2>2, LocalStep DEF PCs, Reserving, UsesEvent, HoldsMutex
  <2> QED
    BY <2>3, <2>4 DEF IInv
<1>5. CASE ShowHeaderFails(w)
  <2>1. /\ UNCHANGED <<num_events, writer, call, event, pos, reservation_id, calls>>
        /\ readers' = readers \ {w}
    BY <1>5 DEF ShowHeaderFails, RdUnlock, locals
  <2>2. /\ pc[w] = "show_header" /\ pc' = [pc EXCEPT ![w] = "return"]
        /\ list' = [list EXCEPT ![event[w]].mutex = NoOne]
    BY <1>5 DEF ShowHeaderFails, MutexUnlock
  <2>3. list[event[w]].mutex = w
    BY <2>2 DEF IInv, MutexInv, HoldsMutex
  <2>4. /\ UniqueInv' /\ CallInv' /\ PointerInv' /\ MutexInv' /\ ReserveInv'
        /\ list' \in Seq(Event)
        /\ \A p \in DOMAIN list' :
             /\ <<list'[p].rows, list'[p].cols>> \in Shapes
             /\ list'[p].data \in [Cells(list'[p].rows, list'[p].cols) -> Nat]
    BY <2>1, <2>2, <2>3, MutexStep DEF PCs, UsesEvent, HoldsMutex, Reserving
  <2>5. TypeOK'
    BY <2>1, <2>2, <2>4 DEF IInv, TypeOK, PCs
  <2> QED
    BY <2>4, <2>5 DEF IInv
<1>6. CASE ShowCopy(w)
  <2>1. UNCHANGED <<list, num_events, readers, writer, pc, call, event,
                    reservation_id, calls>>
    BY <1>6 DEF ShowCopy, shared, rwl
  <2>2. pc[w] = "show_copy" /\ pos' = [pos EXCEPT ![w] = pos[w] + 1]
    BY <1>6 DEF ShowCopy
  <2>3. TypeOK'
    BY <2>1, <2>2 DEF IInv, TypeOK
  <2>4. UniqueInv' /\ CallInv' /\ PointerInv' /\ MutexInv'
    BY <2>1 DEF IInv, UniqueInv, CallInv, PointerInv, MutexInv
  <2>5. ReserveInv'
    BY <2>1, <2>2 DEF IInv, TypeOK, ReserveInv, seat_index
  <2> QED
    BY <2>3, <2>4, <2>5 DEF IInv
<1>7. CASE ShowUnlock(w)
  <2>1. UNCHANGED <<num_events, readers, writer, call, event, pos,
                    reservation_id, calls>>
    BY <1>7 DEF ShowUnlock, rwl, locals
  <2>2. /\ pc[w] = "show_copy" /\ pc' = [pc EXCEPT ![w] = "return"]
        /\ list' = [list EXCEPT ![event[w]].mutex = NoOne]
    BY <1>7 DEF ShowUnlock, MutexUnlock
  <2>3. list[event[w]].mutex = w
    BY <2>2 DEF IInv, MutexInv, HoldsMutex
  <2>4. /\ UniqueInv' /\ CallInv' /\ PointerInv' /\ MutexInv' /\ ReserveInv'
        /\ list' \in Seq(Event)
        /\ \A p \in DOMAIN list' :
             /\ <<list'[p].rows, list'[p].cols>> \in Shapes
             /\ list'[p].data \in [Cells(list'[p].rows, list'[p].cols) -> Nat]
    BY <2>1, <2>2, <2>3, MutexStep DEF PCs, UsesEvent, HoldsMutex, Reserving
  <2>5. TypeOK'
    BY <2>1, <2>2, <2>4 DEF IInv, TypeOK, PCs
  <2> QED
    BY <2>4, <2>5 DEF IInv
<1> QED
  BY <1>1, <1>2, <1>3, <1>4, <1>5, <1>6, <1>7

LEMMA ListInvariant ==
  ASSUME IInv, NEW w \in Workers, ListLock(w) \/ ListUnlock(w)
  PROVE  IInv'
<1> USE DEF Goto
<1>1. CASE ListLock(w)
  <2>1. UNCHANGED <<list, num_events, call, event, pos, reservation_id, calls>>
    BY <1>1 DEF ListLock, shared, locals
  <2>2. /\ pc[w] = "list" /\ pc' = [pc EXCEPT ![w] = "list_read"]
        /\ readers' = readers \cup {w} /\ writer' = writer
    BY <1>1 DEF ListLock, RdLock
  <2>3. TypeOK'
    BY <2>1, <2>2 DEF IInv, TypeOK, PCs, Threads
  <2>4. UniqueInv' /\ CallInv' /\ PointerInv' /\ MutexInv' /\ ReserveInv'
    BY <2>1, <2>2, LocalStep DEF PCs, Reserving, UsesEvent, HoldsMutex
  <2> QED
    BY <2>3, <2>4 DEF IInv
<1>2. CASE ListUnlock(w)
  <2>1. /\ UNCHANGED <<list, num_events, writer, call, event, pos,
                       reservation_id, calls>>
        /\ readers' = readers \ {w}
    BY <1>2 DEF ListUnlock, RdUnlock, shared, locals
  <2>2. pc[w] = "list_read" /\ pc' = [pc EXCEPT ![w] = "return"]
    BY <1>2 DEF ListUnlock
  <2>3. TypeOK'
    BY <2>1, <2>2 DEF IInv, TypeOK, PCs
  <2>4. UniqueInv' /\ CallInv' /\ PointerInv' /\ MutexInv' /\ ReserveInv'
    BY <2>1, <2>2, LocalStep DEF PCs, Reserving, UsesEvent, HoldsMutex
  <2> QED
    BY <2>3, <2>4 DEF IInv
<1> QED
  BY <1>1, <1>2

\* show_EMS takes and releases the read lock and changes nothing else.
LEMMA PrintInvariant == ASSUME IInv, ShowEMS PROVE IInv'
<1>1. /\ UNCHANGED <<list, num_events, writer, pc, call, event, pos,
                     reservation_id, calls>>
      /\ readers' \in {readers, readers \cup {Printer}, readers \ {Printer}}
  BY DEF ShowEMS, PrintLock, PrintSeat, PrintNext, PrintUnlock, RdLock, RdUnlock,
     shared, rwl, locals
<1>2. TypeOK'
  BY <1>1 DEF IInv, TypeOK, Threads
<1>3. UniqueInv' /\ CallInv' /\ PointerInv' /\ MutexInv' /\ ReserveInv'
  BY <1>1 DEF IInv, UniqueInv, CallInv, PointerInv, MutexInv, ReserveInv, seat_index
<1> QED
  BY <1>2, <1>3 DEF IInv

LEMMA StutterInvariant == ASSUME IInv, UNCHANGED vars PROVE IInv'
<1>1. UNCHANGED <<list, num_events, readers, writer, pc, call, event, pos,
                  reservation_id, calls>>
  BY DEF vars, shared, rwl, locals
<1>2. TypeOK'
  BY <1>1 DEF IInv, TypeOK
<1>3. UniqueInv' /\ CallInv' /\ PointerInv' /\ MutexInv' /\ ReserveInv'
  BY <1>1 DEF IInv, UniqueInv, CallInv, PointerInv, MutexInv, ReserveInv, seat_index
<1> QED
  BY <1>2, <1>3 DEF IInv

LEMMA StepInvariant == IInv /\ [Next]_vars => IInv'
<1> SUFFICES ASSUME IInv, [Next]_vars PROVE IInv'
  OBVIOUS
<1>1. ASSUME NEW w \in Workers, Invoke(w) PROVE IInv'
  BY <1>1, InvokeInv
<1>2. ASSUME NEW w \in Workers, Step(w) PROVE IInv'
  BY <1>2, CreateInv, ReserveInvariant, ShowInvariant, ListInvariant, ReturnInv
     DEF Step
<1>3. CASE ShowEMS
  BY <1>3, PrintInvariant
<1>4. CASE Finished \/ UNCHANGED vars
  BY <1>4, StutterInvariant DEF Finished
<1> QED
  BY <1>1, <1>2, <1>3, <1>4 DEF Next

LEMMA InvariantHolds == Spec => []IInv
<1> QED
  BY InitInv, StepInvariant, PTL DEF Spec

\* A seat of event p that has an owner keeps it, and the event keeps its seats.
Final(p) ==
  /\ p \in DOMAIN list'
  /\ DOMAIN list'[p].data = DOMAIN list[p].data
  /\ \A i \in DOMAIN list[p].data :
       list[p].data[i] # 0 => list'[p].data[i] = list[p].data[i]

LEMMA FinalStep == IInv /\ [Next]_vars => \A p \in DOMAIN list : Final(p)
<1> USE DEF Final
<1> SUFFICES ASSUME IInv, [Next]_vars, NEW p \in DOMAIN list PROVE Final(p)
  OBVIOUS
<1>1. ASSUME NEW w \in Workers, CreateAppend(w) PROVE Final(p)
  <2> DEFINE e == NewEvent(call[w].id, call[w].shape)
  <2>1. call[w] \in CreateCalls
    BY <1>1 DEF CreateAppend, Goto, IInv, CallInv
  <2>2. e \in Event
    BY <2>1, NewEventType
  <2>3. list \in Seq(Event) /\ list' = Append(list, e)
    BY <1>1 DEF CreateAppend, IInv, TypeOK
  <2> HIDE DEF e
  <2> QED
    BY <2>2, <2>3
<1>2. ASSUME NEW w \in Workers, ReserveWrite(w) PROVE Final(p)
  <2> DEFINE e == list[event[w]]
             i == seat_index(e, call[w].seats[pos[w]])
  <2>1. /\ pc[w] = "reserve_write" /\ pos[w] \in Nat /\ pos[w] >= 1
        /\ list \in Seq(Event) /\ event[w] \in DOMAIN list
        /\ call[w] \in ReserveCalls
    BY <1>2 DEF ReserveWrite, IInv, TypeOK, PointerInv, CallInv, ReserveInv,
       UsesEvent, Reserving
  <2>2. pos[w] \in DOMAIN call[w].seats
    <3>1. call[w].seats \in Seq(Nat \X Nat)
      BY <2>1, ArgumentsAssumption DEF ReserveCalls
    <3>2. pos[w] <= Len(call[w].seats)
      BY <1>2, <2>1, <3>1 DEF ReserveWrite, AllWritten
    <3> QED
      BY <2>1, <3>1, <3>2
  <2>3. i \in DOMAIN e.data => e.data[i] \in {0, reservation_id[w]}
    BY <2>1, <2>2 DEF IInv, ReserveInv
  <2> DEFINE d == [e.data EXCEPT ![i] = reservation_id[w]]
  <2>4. list' = [list EXCEPT ![event[w]].data = d]
    BY <1>2 DEF ReserveWrite
  <2>5. d \in CellMaps /\ reservation_id[w] \in Nat
    <3>1. e \in Event /\ reservation_id[w] \in Nat
      BY <2>1 DEF IInv, TypeOK
    <3>2. e.data \in CellMaps
      BY <3>1 DEF Event
    <3> QED
      BY <3>1, <3>2, CellMapsClosed
  <2>6. /\ DOMAIN d = DOMAIN e.data
        /\ \A j \in DOMAIN e.data : e.data[j] # 0 => d[j] = e.data[j]
    BY <2>3
  <2>8. d \in CellMaps /\ list \in Seq(Event) /\ event[w] \in DOMAIN list
    BY <2>1, <2>5
  <2> HIDE DEF d, i
  <2>7. /\ DOMAIN list' = DOMAIN list /\ list'[event[w]].data = d
        /\ p # event[w] => list'[p] = list[p]
    BY ZenonT(30), <2>4, <2>8, SeatChange
  <2> QED
    BY <2>6, <2>7
<1>3. ASSUME NEW w \in Workers, NEW x \in Workers \cup {NoOne},
             event[w] \in DOMAIN list,
             list' = [list EXCEPT ![event[w]].mutex = x]
      PROVE  Final(p)
  <2>1. list \in Seq(Event)
    BY DEF IInv, TypeOK
  <2>2. /\ DOMAIN list' = DOMAIN list
        /\ \A q \in DOMAIN list : list'[q].data = list[q].data
    BY <1>3, <2>1, MutexChange
  <2> QED
    BY <2>2
<1>4. ASSUME NEW w \in Workers,
             \/ ReserveMutex(w) \/ ReserveReject(w) \/ ReserveUnlock(w)
             \/ ShowMutex(w) \/ ShowHeaderFails(w) \/ ShowUnlock(w)
      PROVE  Final(p)
  <2>1. pc[w] \in UsesEvent
    BY <1>4 DEF ReserveMutex, ReserveReject, ReserveUnlock, ShowMutex,
       ShowHeaderFails, ShowUnlock, Goto, UsesEvent
  <2>2. event[w] \in DOMAIN list
    BY <2>1 DEF IInv, PointerInv
  <2>3. \/ list' = [list EXCEPT ![event[w]].mutex = w]
        \/ list' = [list EXCEPT ![event[w]].mutex = NoOne]
    BY <1>4 DEF ReserveMutex, ReserveReject, ReserveUnlock, ShowMutex,
       ShowHeaderFails, ShowUnlock, MutexLock, MutexUnlock
  <2> QED
    BY <1>3, <2>2, <2>3
<1>5. ASSUME NEW w \in Workers, ReserveNumber(w) PROVE Final(p)
  <2> DEFINE n == list[event[w]].reservations + 1
  <2>1. list \in Seq(Event) /\ event[w] \in DOMAIN list
    BY <1>5 DEF ReserveNumber, Goto, IInv, TypeOK, PointerInv, UsesEvent
  <2>2. list[event[w]] \in Event
    BY <2>1
  <2>3. n \in Nat
    BY <2>2 DEF Event
  <2>4. list' = [list EXCEPT ![event[w]].reservations = n]
    BY <1>5 DEF ReserveNumber
  <2> HIDE DEF n
  <2>5. /\ DOMAIN list' = DOMAIN list
        /\ \A q \in DOMAIN list : list'[q].data = list[q].data
    BY <2>1, <2>3, <2>4, CounterChange
  <2> QED
    BY <2>5
<1>6. ASSUME list' = list PROVE Final(p)
  BY <1>6
<1>7. ASSUME NEW w \in Workers, Step(w) PROVE Final(p)
  <2>1. CASE \/ CreateLock(w) \/ CreateReject(w) \/ CreateCount(w)
             \/ CreateUnlock(w) \/ ReserveLock(w) \/ ReserveLookup(w)
             \/ ShowLock(w) \/ ShowLookup(w) \/ ShowHeader(w) \/ ShowCopy(w)
             \/ ListLock(w) \/ ListUnlock(w) \/ Return(w)
    BY <1>6, <2>1 DEF CreateLock, CreateReject, CreateCount, CreateUnlock,
       ReserveLock, ReserveLookup, ShowLock, ShowLookup, ShowHeader, ShowCopy,
       ListLock, ListUnlock, Return, shared
  <2> QED
    BY <1>1, <1>2, <1>4, <1>5, <1>7, <2>1 DEF Step
<1>8. ASSUME NEW w \in Workers, Invoke(w) PROVE Final(p)
  BY <1>6, <1>8 DEF Invoke, shared
<1>9. CASE ShowEMS \/ Finished \/ UNCHANGED vars
  BY <1>6, <1>9 DEF ShowEMS, PrintLock, PrintSeat, PrintNext, PrintUnlock,
     Finished, vars, shared
<1> QED
  BY <1>7, <1>8, <1>9 DEF Next

-----------------------------------------------------------------------------
(* The theorems.                                                           *)

\* The list of events, the locks and the locals of every call have their
\* types in every reachable state of any instance.
THEOREM TypeCorrect == Spec => []TypeOK
<1>1. IInv => TypeOK
  BY DEF IInv
<1> QED
  BY <1>1, InvariantHolds, PTL

\* Creating the same event from several workers at once never puts two
\* events with one identifier into the list.
THEOREM IdentifiersAreUnique == Spec => []UniqueInv
<1>1. IInv => UniqueInv
  BY DEF IInv
<1> QED
  BY <1>1, InvariantHolds, PTL

\* No double booking (SeatsAreFinal of the run store_safety): a seat that has
\* an owner keeps it, whatever the requests and however ems_create,
\* ems_reserve, ems_show, ems_list_events and show_EMS interleave.
THEOREM NoDoubleBooking == Spec => SeatsAreFinal
<1>1. IInv /\ [Next]_vars => [\A p \in DOMAIN list : Final(p)]_vars
  BY FinalStep
<1> QED
  BY <1>1, InvariantHolds, PTL DEF Spec, SeatsAreFinal, Final

-----------------------------------------------------------------------------
(***************************************************************************)
(* Proofs about the list of EventStore and its read-write lock, for any    *)
(* number of threads, events and calls: what a thread that may read the    *)
(* list finds in it, and what show_EMS prints of it.                       *)
(*                                                                         *)
(* ListConsistent is not inductive: that num_events is the length of the   *)
(* list depends on where the writer is between linking the node and        *)
(* incrementing the counter.  CountInv says so for every state, and        *)
(* LockInv that no reader gets in between.                                 *)
(***************************************************************************)

ReadsList  == {"reserve_lookup", "show_lookup", "show_mutex", "show_header",
               "list_read"}
WritesList == {"create_lookup", "create_count", "create_unlock"}

\* The lock is held by whoever is between taking and releasing it, and a
\* writer is alone.
LockInv ==
  /\ writer # NoOne => readers = {}
  /\ \A w \in Workers : pc[w] \in WritesList => writer = w
  /\ \A w \in Workers : pc[w] \in ReadsList => w \in readers
  /\ printer.pc = "walk" => Printer \in readers

\* The counter is the length of the list, or one less until the writer that
\* linked a node counts it.
CountInv ==
  /\ (\A w \in Workers : pc[w] # "create_count") => num_events = Len(list)
  /\ \A w \in Workers : pc[w] = "create_count" => num_events + 1 = Len(list)

\* The locals of show_EMS: what it printed of an event is no longer than the
\* event, and it printed nothing of an event that is not there.
PrinterInv ==
  /\ printer \in [pc : {"idle", "walk"}, node : Nat, seats : Seq(Nat), calls : Nat]
  /\ printer.node \in DOMAIN list => DOMAIN Printed \subseteq DOMAIN list[printer.node].data
  /\ printer.node \notin DOMAIN list => printer.seats = <<>>
  /\ PrintedSeatsAreTaken

ListInv == LockInv /\ CountInv /\ PrinterInv

-----------------------------------------------------------------------------
(* How the steps of the workers change the list.                           *)

\* Event p is the same, except for its mutex.
SameEvent(p) ==
  /\ list'[p].id = list[p].id /\ list'[p].rows = list[p].rows
  /\ list'[p].cols = list[p].cols /\ list'[p].data = list[p].data
  /\ list'[p].reservations = list[p].reservations

\* A new event is added at the end of the list.
LEMMA AppendStep ==
  ASSUME IInv, NEW w \in Workers, CreateAppend(w)
  PROVE  /\ call[w] \in CreateCalls
         /\ list' \in Seq(Event) /\ Len(list') = Len(list) + 1
         /\ DOMAIN list' = DOMAIN list \cup {Len(list) + 1}
         /\ list'[Len(list) + 1] = NewEvent(call[w].id, call[w].shape)
         /\ \A p \in DOMAIN list : list'[p] = list[p]
<1> DEFINE e == NewEvent(call[w].id, call[w].shape)
<1>1. call[w] \in CreateCalls
  BY DEF CreateAppend, Goto, IInv, CallInv
<1>2. e \in Event
  BY <1>1, NewEventType
<1>3. list \in Seq(Event) /\ list' = Append(list, e)
  BY DEF CreateAppend, IInv, TypeOK
<1> HIDE DEF e
<1>4. /\ list' \in Seq(Event) /\ Len(list') = Len(list) + 1
      /\ DOMAIN list' = DOMAIN list \cup {Len(list) + 1}
      /\ list'[Len(list) + 1] = e
      /\ \A p \in DOMAIN list : list'[p] = list[p]
  BY <1>2, <1>3
<1> QED
  BY <1>1, <1>4 DEF e

\* The counter of one event is incremented.
LEMMA NumberStep ==
  ASSUME IInv, NEW w \in Workers, ReserveNumber(w)
  PROVE  /\ event[w] \in DOMAIN list /\ list[event[w]].reservations \in Nat
         /\ DOMAIN list' = DOMAIN list /\ Len(list') = Len(list)
         /\ list'[event[w]].reservations = list[event[w]].reservations + 1
         /\ \A q \in DOMAIN list :
              /\ list'[q].id = list[q].id /\ list'[q].rows = list[q].rows
              /\ list'[q].cols = list[q].cols /\ list'[q].data = list[q].data
              /\ q # event[w] => list'[q] = list[q]
<1> DEFINE n == list[event[w]].reservations + 1
<1>1. list \in Seq(Event) /\ event[w] \in DOMAIN list
  BY DEF ReserveNumber, Goto, IInv, TypeOK, PointerInv, UsesEvent
<1>2. list[event[w]] \in Event
  BY <1>1
<1>3. list[event[w]].reservations \in Nat /\ n \in Nat
  BY <1>2 DEF Event
<1>4. list' = [list EXCEPT ![event[w]].reservations = n]
  BY DEF ReserveNumber
<1>5. list'[event[w]] = [list[event[w]] EXCEPT !.reservations = n]
  BY <1>1, <1>4
<1> HIDE DEF n
<1>6. list'[event[w]].reservations = n
  BY <1>2, <1>5 DEF Event
<1>7. /\ DOMAIN list' = DOMAIN list /\ Len(list') = Len(list)
      /\ \A q \in DOMAIN list :
           /\ list'[q].id = list[q].id /\ list'[q].rows = list[q].rows
           /\ list'[q].cols = list[q].cols /\ list'[q].data = list[q].data
           /\ q # event[w] => list'[q] = list[q]
  BY <1>1, <1>3, <1>4, CounterChange
<1> QED
  BY <1>1, <1>3, <1>6, <1>7 DEF n

\* One seat of one event is written.
LEMMA WriteStep ==
  ASSUME IInv, NEW w \in Workers, ReserveWrite(w)
  PROVE  LET e == list[event[w]]
             i == seat_index(e, call[w].seats[pos[w]])
         IN  /\ event[w] \in DOMAIN list /\ pos[w] \in DOMAIN call[w].seats
             /\ DOMAIN list' = DOMAIN list /\ Len(list') = Len(list)
             /\ list'[event[w]].data = [e.data EXCEPT ![i] = reservation_id[w]]
             /\ \A q \in DOMAIN list :
                  /\ list'[q].id = list[q].id /\ list'[q].rows = list[q].rows
                  /\ list'[q].cols = list[q].cols
                  /\ list'[q].reservations = list[q].reservations
                  /\ q # event[w] => list'[q] = list[q]
<1> DEFINE e == list[event[w]]
           i == seat_index(e, call[w].seats[pos[w]])
           d == [e.data EXCEPT ![i] = reservation_id[w]]
<1>1. /\ pc[w] = "reserve_write" /\ pos[w] \in Nat /\ pos[w] >= 1
      /\ list \in Seq(Event) /\ event[w] \in DOMAIN list
      /\ call[w] \in ReserveCalls /\ reservation_id[w] \in Nat
  BY DEF ReserveWrite, IInv, TypeOK, PointerInv, CallInv, ReserveInv, UsesEvent,
     Reserving
<1>2. pos[w] \in DOMAIN call[w].seats
  <2>1. call[w].seats \in Seq(Nat \X Nat)
    BY <1>1, ArgumentsAssumption DEF ReserveCalls
  <2>2. pos[w] <= Len(call[w].seats)
    BY <1>1, <2>1 DEF ReserveWrite, AllWritten
  <2> QED
    BY <1>1, <2>1, <2>2
<1>3. e \in Event
  BY <1>1
<1>4. d \in CellMaps
  <2>1. e.data \in CellMaps
    BY <1>3 DEF Event
  <2> QED
    BY <1>1, <2>1, CellMapsClosed
<1>5. list' = [list EXCEPT ![event[w]].data = d]
  BY DEF ReserveWrite
<1> HIDE DEF d
<1>6. /\ list' \in Seq(Event) /\ DOMAIN list' = DOMAIN list
      /\ list'[event[w]].data = d
      /\ \A q \in DOMAIN list :
           /\ list'[q].id = list[q].id /\ list'[q].rows = list[q].rows
           /\ list'[q].cols = list[q].cols
           /\ list'[q].reservations = list[q].reservations
           /\ q # event[w] => list'[q] = list[q]
  BY <1>1, <1>4, <1>5, SeatChange
<1>7. Len(list') = Len(list)
  BY <1>1, <1>6
<1> QED
  BY <1>1, <1>2, <1>6, <1>7 DEF d

\* The other steps leave the events as they are, except for their mutexes.
LEMMA QuietStep ==
  ASSUME IInv, NEW w \in Workers, Invoke(w) \/ Step(w),
         ~ CreateAppend(w), ~ ReserveNumber(w), ~ ReserveWrite(w)
  PROVE  /\ DOMAIN list' = DOMAIN list /\ Len(list') = Len(list)
         /\ \A p \in DOMAIN list : SameEvent(p)
<1> DEFINE Quiet == /\ DOMAIN list' = DOMAIN list /\ Len(list') = Len(list)
                    /\ \A p \in DOMAIN list : SameEvent(p)
<1>1. ASSUME list' = list PROVE Quiet
  BY <1>1 DEF SameEvent
<1>2. CASE \/ ReserveMutex(w) \/ ReserveReject(w) \/ ReserveUnlock(w)
           \/ ShowMutex(w) \/ ShowHeaderFails(w) \/ ShowUnlock(w)
  <2>1. pc[w] \in UsesEvent
    BY <1>2 DEF ReserveMutex, ReserveReject, ReserveUnlock, ShowMutex,
       ShowHeaderFails, ShowUnlock, Goto, UsesEvent
  <2>2. list \in Seq(Event) /\ event[w] \in DOMAIN list
    BY <2>1 DEF IInv, TypeOK, PointerInv
  <2>3. PICK x \in Workers \cup {NoOne} : list' = [list EXCEPT ![event[w]].mutex = x]
    BY <1>2 DEF ReserveMutex, ReserveReject, ReserveUnlock, ShowMutex,
       ShowHeaderFails, ShowUnlock, MutexLock, MutexUnlock
  <2> QED
    BY <2>2, <2>3, MutexChange DEF SameEvent
<1>3. CASE \/ CreateLock(w) \/ CreateReject(w) \/ CreateCount(w)
           \/ CreateUnlock(w) \/ ReserveLock(w) \/ ReserveLookup(w)
           \/ ShowLock(w) \/ ShowLookup(w) \/ ShowHeader(w) \/ ShowCopy(w)
           \/ ListLock(w) \/ ListUnlock(w) \/ Return(w) \/ Invoke(w)
  BY <1>1, <1>3 DEF CreateLock, CreateReject, CreateCount, CreateUnlock,
     ReserveLock, ReserveLookup, ShowLock, ShowLookup, ShowHeader, ShowCopy,
     ListLock, ListUnlock, Return, Invoke, shared
<1> QED
  BY <1>2, <1>3 DEF Step

-----------------------------------------------------------------------------
(* The read-write lock and the counter.                                    *)

LEMMA ListInit == Init => ListInv
<1> SUFFICES ASSUME Init PROVE ListInv
  OBVIOUS
<1>1. LockInv /\ CountInv
  BY DEF Init, LockInv, CountInv, ReadsList, WritesList
<1>2. PrinterInv
  BY DEF Init, PrinterInv, Printed, PrintedSeatsAreTaken
<1> QED
  BY <1>1, <1>2 DEF ListInv

\* A worker that stays on its side of the lock.
LEMMA LockKept ==
  ASSUME IInv, LockInv, NEW w \in Workers, NEW to \in PCs,
         pc' = [pc EXCEPT ![w] = to],
         UNCHANGED <<readers, writer, printer>>,
         to \in ReadsList => pc[w] \in ReadsList,
         to \in WritesList => pc[w] \in WritesList
  PROVE  LockInv'
BY DEF IInv, TypeOK, LockInv

LEMMA LockTaken ==
  ASSUME IInv, LockInv, NEW w \in Workers, NEW to \in PCs,
         pc' = [pc EXCEPT ![w] = to], printer' = printer,
         to \notin WritesList, RdLock(w)
  PROVE  LockInv'
BY DEF IInv, TypeOK, LockInv, RdLock

LEMMA LockReleased ==
  ASSUME IInv, LockInv, NEW w \in Workers, NEW to \in PCs,
         pc' = [pc EXCEPT ![w] = to], printer' = printer,
         to \notin ReadsList, to \notin WritesList, RdUnlock(w)
  PROVE  LockInv'
BY ThreadsAssumption DEF IInv, TypeOK, LockInv, RdUnlock

LEMMA LockStep ==
  ASSUME IInv, ListInv, [Next]_vars PROVE LockInv'
<1>0. LockInv /\ PrinterInv
  BY DEF ListInv
<1> USE <1>0 DEF Goto, ReadsList, WritesList, PCs, rwl
<1>1. ASSUME NEW w \in Workers, Invoke(w) PROVE LockInv'
  <2>1. PICK c \in Calls : pc' = [pc EXCEPT ![w] = c.op]
    BY <1>1 DEF Invoke
  <2>2. c.op \in {"create", "reserve", "show", "list"}
    BY DEF Calls
  <2> QED
    BY <1>1, <2>1, <2>2, LockKept DEF Invoke
<1>2. ASSUME NEW w \in Workers,
             \/ CreateReject(w) \/ CreateAppend(w) \/ CreateCount(w)
             \/ ReserveMutex(w) \/ ReserveReject(w) \/ ReserveNumber(w)
             \/ ReserveUnlock(w) \/ ShowMutex(w) \/ ShowUnlock(w) \/ Return(w)
      PROVE  LockInv'
  BY <1>2, LockKept DEF CreateReject, CreateAppend, CreateCount, ReserveMutex,
     ReserveReject, ReserveNumber, ReserveUnlock, ShowMutex, ShowUnlock, Return
<1>3. ASSUME NEW w \in Workers, ReserveWrite(w) \/ ShowCopy(w) PROVE LockInv'
  BY <1>3 DEF ReserveWrite, ShowCopy, LockInv
<1>4. ASSUME NEW w \in Workers, ReserveLock(w) \/ ShowLock(w) \/ ListLock(w)
      PROVE  LockInv'
  BY <1>4, LockTaken DEF ReserveLock, ShowLock, ListLock
<1>5. ASSUME NEW w \in Workers,
             ReserveLookup(w) \/ ShowHeader(w) \/ ShowHeaderFails(w) \/ ListUnlock(w)
      PROVE  LockInv'
  BY <1>5, LockReleased DEF ReserveLookup, ShowHeader, ShowHeaderFails, ListUnlock
<1>6. ASSUME NEW w \in Workers, ShowLookup(w) PROVE LockInv'
  BY <1>6, LockKept, LockReleased DEF ShowLookup
<1>7. ASSUME NEW w \in Workers, CreateLock(w) PROVE LockInv'
  BY <1>7, ThreadsAssumption DEF CreateLock, WrLock, IInv, TypeOK, LockInv
<1>8. ASSUME NEW w \in Workers, CreateUnlock(w) PROVE LockInv'
  BY <1>8 DEF CreateUnlock, WrUnlock, IInv, TypeOK, LockInv
<1>9. CASE ShowEMS
  <2>1. PrintSeat \/ PrintNext => printer'.pc = printer.pc /\ UNCHANGED <<pc, rwl>>
    BY DEF PrintSeat, PrintNext, PrinterInv
  <2>2. PrintUnlock => printer'.pc = "idle"
    BY DEF PrintUnlock, PrinterInv
  <2> QED
    BY <1>9, <2>1, <2>2, ThreadsAssumption DEF ShowEMS, PrintLock, PrintUnlock,
       RdLock, RdUnlock, LockInv, IInv, TypeOK
<1>10. CASE Finished \/ UNCHANGED vars
  BY <1>10 DEF Finished, vars, LockInv
<1> QED
  BY <1>1, <1>2, <1>3, <1>4, <1>5, <1>6, <1>7, <1>8, <1>9, <1>10 DEF Next, Step

\* Only the writer of the list changes its length or the counter, in this
\* order.
LEMMA CountStep ==
  ASSUME IInv, ListInv, [Next]_vars PROVE CountInv'
<1>0. LockInv /\ CountInv /\ list \in Seq(Event) /\ num_events \in Nat
      /\ pc \in [Workers -> PCs]
  BY DEF ListInv, IInv, TypeOK
<1>1. ASSUME NEW w \in Workers, CreateAppend(w) PROVE CountInv'
  <2>1. Len(list') = Len(list) + 1 /\ num_events' = num_events
    BY <1>1, AppendStep DEF CreateAppend
  <2>2. pc[w] = "create_lookup" /\ pc' = [pc EXCEPT ![w] = "create_count"]
    BY <1>1 DEF CreateAppend, Goto
  <2>3. \A v \in Workers : pc[v] # "create_count"
    BY <1>0, <2>2 DEF LockInv, WritesList
  <2> QED
    BY <1>0, <2>1, <2>2, <2>3 DEF CountInv
<1>2. ASSUME NEW w \in Workers, CreateCount(w) PROVE CountInv'
  <2>1. Len(list') = Len(list) /\ num_events' = num_events + 1
    BY <1>2 DEF CreateCount
  <2>2. pc[w] = "create_count" /\ pc' = [pc EXCEPT ![w] = "create_unlock"]
    BY <1>2 DEF CreateCount, Goto
  <2>3. \A v \in Workers : v # w => pc[v] # "create_count"
    BY <1>0, <2>2 DEF LockInv, WritesList
  <2> QED
    BY <1>0, <2>1, <2>2, <2>3 DEF CountInv
<1>3. ASSUME Len(list') = Len(list), num_events' = num_events,
             \A v \in Workers : pc'[v] = "create_count" <=> pc[v] = "create_count"
      PROVE  CountInv'
  BY <1>0, <1>3 DEF CountInv
<1>4. ASSUME NEW w \in Workers, Invoke(w) \/ Step(w), ~ CreateAppend(w), ~ CreateCount(w)
      PROVE  CountInv'
  <2>1. Len(list') = Len(list)
    BY <1>4, QuietStep, NumberStep, WriteStep
  <2>2. num_events' = num_events
    BY <1>4 DEF Step, Invoke, CreateLock, CreateReject, CreateUnlock, ReserveLock,
       ReserveLookup, ReserveMutex, ReserveReject, ReserveNumber, ReserveWrite,
       ReserveUnlock, ShowLock, ShowLookup, ShowMutex, ShowHeader, ShowHeaderFails,
       ShowCopy, ShowUnlock, ListLock, ListUnlock, Return, shared
  <2>3. \/ pc' = pc
        \/ \E to \in PCs : /\ to # "create_count" /\ pc[w] # "create_count"
                           /\ pc' = [pc EXCEPT ![w] = to]
    <3>1. CASE Invoke(w)
      BY <3>1 DEF Invoke, Goto, Calls, PCs
    <3>2. CASE Step(w)
      BY <1>4, <3>2 DEF Step, CreateLock, CreateReject, CreateUnlock, ReserveLock,
         ReserveLookup, ReserveMutex, ReserveReject, ReserveNumber, ReserveWrite,
         ReserveUnlock, ShowLock, ShowLookup, ShowMutex, ShowHeader,
         ShowHeaderFails, ShowCopy, ShowUnlock, ListLock, ListUnlock, Return,
         Goto, PCs
    <3> QED
      BY <1>4, <3>1, <3>2
  <2> QED
    BY <1>0, <1>3, <2>1, <2>2, <2>3
<1>5. CASE ShowEMS \/ Finished \/ UNCHANGED vars
  BY <1>3, <1>5 DEF ShowEMS, PrintLock, PrintSeat, PrintNext, PrintUnlock,
     Finished, vars, shared
<1> QED
  BY <1>1, <1>2, <1>4, <1>5 DEF Next

-----------------------------------------------------------------------------
(* show_EMS                                                                *)

\* What was printed stays true: taken seats are final and the node of the
\* current event is never unlinked.
LEMMA PrinterKept ==
  ASSUME IInv, PrinterInv, [Next]_vars, printer' = printer
  PROVE  PrinterInv'
<1>1. Printed' = Printed
  BY DEF Printed
<1>2. \A p \in DOMAIN list : Final(p)
  BY FinalStep
<1>3. CASE printer.node \in DOMAIN list
  BY <1>1, <1>2, <1>3 DEF PrinterInv, PrintedSeatsAreTaken, Final
<1>4. CASE printer.node \notin DOMAIN list
  <2>1. printer.seats = <<>>
    BY <1>4 DEF PrinterInv
  <2>2. DOMAIN Printed = {}
    BY <2>1 DEF Printed
  <2> QED
    BY <1>1, <2>1, <2>2 DEF PrinterInv, PrintedSeatsAreTaken
<1> QED
  BY <1>3, <1>4

LEMMA PrinterStep ==
  ASSUME IInv, ListInv, [Next]_vars PROVE PrinterInv'
<1>0. PrinterInv /\ list \in Seq(Event)
  BY DEF ListInv, IInv, TypeOK
<1> DEFINE Locals == [pc : {"idle", "walk"}, node : Nat, seats : Seq(Nat), calls : Nat]
<1>1. ASSUME list' = list, printer' \in Locals, printer'.seats = <<>>
      PROVE  PrinterInv'
  <2>1. DOMAIN Printed' = {}
    BY <1>1 DEF Printed
  <2> QED
    BY <1>1, <2>1 DEF PrinterInv, PrintedSeatsAreTaken
<1>2. CASE PrintLock
  <2>1. printer' = [pc |-> "walk", node |-> 1, seats |-> <<>>,
                    calls |-> printer.calls + 1]
    BY <1>2 DEF PrintLock
  <2>2. printer.calls + 1 \in Nat
    BY <1>0 DEF PrinterInv
  <2> QED
    BY <1>1, <1>2, <2>1, <2>2 DEF PrintLock, shared
<1>3. CASE PrintSeat
  <2> DEFINE d == list[printer.node].data
             n == Len(printer.seats)
  <2>1. /\ list' = list /\ printer.node \in DOMAIN list /\ n \in DOMAIN d
        /\ printer' = [printer EXCEPT !.seats = Append(printer.seats, d[n])]
    BY <1>3 DEF PrintSeat, shared
  <2>2. printer \in Locals /\ printer.seats \in Seq(Nat) /\ n \in Nat
    BY <1>0 DEF PrinterInv
  <2>3. d[n] \in Nat
    BY <2>1 DEF IInv, TypeOK
  <2>4. /\ Append(printer.seats, d[n]) \in Seq(Nat)
        /\ Len(Append(printer.seats, d[n])) = n + 1
        /\ Append(printer.seats, d[n])[n + 1] = d[n]
        /\ \A k \in 1 .. n : Append(printer.seats, d[n])[k] = printer.seats[k]
    BY <2>2, <2>3
  <2>5. /\ printer' \in Locals /\ printer'.node = printer.node
        /\ printer'.seats = Append(printer.seats, d[n])
    BY <2>1, <2>2, <2>4
  <2> HIDE DEF n
  <2>6. /\ DOMAIN Printed' = 0 .. n
        /\ Printed'[n] = d[n]
        /\ \A i \in 0 .. n - 1 : Printed'[i] = printer.seats[i + 1]
    BY SMTT(60), <2>2, <2>4, <2>5 DEF Printed
  <2>7. /\ DOMAIN Printed = 0 .. n - 1
        /\ \A i \in 0 .. n - 1 : Printed[i] = printer.seats[i + 1]
    BY DEF Printed, n
  <2>8. \A i \in 0 .. n : i = n \/ i \in 0 .. n - 1
    BY <2>2
  <2>9. DOMAIN Printed' \subseteq DOMAIN d
    BY <1>0, <2>1, <2>6, <2>7, <2>8 DEF PrinterInv
  <2>10. \A i \in 0 .. n - 1 : Printed'[i] = Printed[i]
    BY <2>6, <2>7
  <2>11. \A i \in DOMAIN Printed' : Printed'[i] # 0 => d[i] = Printed'[i]
    <3>1. \A i \in 0 .. n - 1 : Printed[i] # 0 => d[i] = Printed[i]
      BY <1>0, <2>1, <2>7 DEF PrinterInv, PrintedSeatsAreTaken
    <3> HIDE DEF d
    <3> QED
      BY <2>6, <2>8, <2>10, <3>1
  <2>12. list'[printer'.node].data = d
    BY <2>1, <2>5
  <2>13. PrintedSeatsAreTaken'
    BY <2>11, <2>12 DEF PrintedSeatsAreTaken
  <2> QED
    BY <2>1, <2>5, <2>9, <2>13 DEF PrinterInv
<1>4. CASE PrintNext
  <2>1. printer' = [printer EXCEPT !.node = printer.node + 1, !.seats = <<>>]
    BY <1>4 DEF PrintNext
  <2>2. printer \in Locals /\ printer.node + 1 \in Nat /\ <<>> \in Seq(Nat)
    BY <1>0 DEF PrinterInv
  <2>3. printer' \in Locals /\ printer'.seats = <<>>
    BY <2>1, <2>2
  <2> QED
    BY <1>1, <1>4, <2>3 DEF PrintNext, shared
<1>5. CASE PrintUnlock
  <2>1. list' = list /\ printer' = [printer EXCEPT !.pc = "idle"]
    BY <1>5 DEF PrintUnlock, shared
  <2>2. /\ printer' \in Locals /\ printer'.seats = printer.seats
        /\ printer'.node = printer.node
    BY <1>0, <2>1 DEF PrinterInv
  <2>3. Printed' = Printed
    BY <2>2 DEF Printed
  <2> QED
    BY <1>0, <2>1, <2>2, <2>3 DEF PrinterInv, PrintedSeatsAreTaken
<1>6. ASSUME NEW w \in Workers, Invoke(w) \/ Step(w) PROVE printer' = printer
  BY <1>6 DEF Step, Invoke, CreateLock, CreateReject, CreateAppend, CreateCount,
     CreateUnlock, ReserveLock, ReserveLookup, ReserveMutex, ReserveReject,
     ReserveNumber, ReserveWrite, ReserveUnlock, ShowLock, ShowLookup, ShowMutex,
     ShowHeader, ShowHeaderFails, ShowCopy, ShowUnlock, ListLock, ListUnlock, Return
<1>7. CASE Finished \/ UNCHANGED vars
  BY <1>0, <1>7, PrinterKept DEF Finished, vars
<1> QED
  BY <1>0, <1>2, <1>3, <1>4, <1>5, <1>6, <1>7, PrinterKept DEF Next, ShowEMS

LEMMA ListInvariantHolds == Spec => [](IInv /\ ListInv)
<1>1. Init => IInv /\ ListInv
  BY InitInv, ListInit
<1>2. IInv /\ ListInv /\ [Next]_vars => IInv' /\ ListInv'
  BY StepInvariant, LockStep, CountStep, PrinterStep DEF ListInv
<1> QED
  BY <1>1, <1>2, PTL DEF Spec

-----------------------------------------------------------------------------
(* The theorems.                                                           *)

\* A worker that looks up, links and counts a new event is alone: no other
\* worker is inside the list, for reading or for writing, and show_EMS does
\* not walk over it.
WriterIsAlone ==
  \A w \in Workers : pc[w] \in WritesList =>
    /\ \A v \in Workers \ {w} : pc[v] \notin ReadsList \cup WritesList
    /\ printer.pc # "walk"

THEOREM ListLockExcludes == Spec => []WriterIsAlone
<1>1. LockInv => WriterIsAlone
  BY ThreadsAssumption DEF LockInv, WriterIsAlone
<1> QED
  BY <1>1, ListInvariantHolds, PTL DEF ListInv

\* ListConsistent of the run store_safety: no identifier is in the list
\* twice, and whoever may read the list finds as many events as num_events
\* says, so that ems_list_events fills exactly the array it allocated.
THEOREM ListIsConsistent == Spec => []ListConsistent
<1>1. IInv /\ LockInv /\ CountInv => ListConsistent
  BY ThreadsAssumption DEF IInv, UniqueInv, LockInv, CountInv, WritesList,
     ListConsistent
<1> QED
  BY <1>1, ListInvariantHolds, PTL DEF ListInv

\* PrintedSeatsAreTaken of the run store_safety: show_EMS reads the seats
\* without the mutex of their event, and still every taken seat it printed of
\* the current event is taken by the reservation it printed.
THEOREM PrintedSeatsStayTaken == Spec => []PrintedSeatsAreTaken
<1>1. ListInv => PrintedSeatsAreTaken
  BY DEF ListInv, PrinterInv
<1> QED
  BY <1>1, ListInvariantHolds, PTL

-----------------------------------------------------------------------------
(***************************************************************************)
(* The calls look atomic: reservations are granted whole, shown whole and  *)
(* numbered without gaps, and every call implements one step of            *)
(* EventStoreAbs.                                                          *)
(***************************************************************************)

Creates  == {"create", "create_lookup", "create_count", "create_unlock"}
Shows    == {"show", "show_lookup", "show_mutex", "show_header", "show_copy"}
Lists    == {"list", "list_read"}
Answered == {"create_count", "create_unlock", "return"}
Loops    == {"reserve_write", "show_copy", "return"}

\* A worker is where its call is; it has answered when the effect of the call
\* is there; the event it uses is the one the call names; and its loop index
\* is 0 until a loop starts.
Place(w) ==
  /\ pc[w] = "idle" => call[w] = NoCall
  /\ pc[w] \in Creates => call[w].op = "create"
  /\ pc[w] \in Reserving => call[w].op = "reserve"
  /\ pc[w] \in Shows => call[w].op = "show"
  /\ pc[w] \in Lists => call[w].op = "list"
  /\ pc[w] \in Answered <=> reply[w] # NoReply
  /\ pc[w] \in UsesEvent => list[event[w]].id = call[w].id
  /\ pc[w] \notin Loops => pos[w] = 0

PlaceInv ==
  /\ DOMAIN reply = Workers /\ DOMAIN response_seats = Workers
  /\ \A w \in Workers : Place(w)

\* w is writing the seats of event p.
Writes(w, p) == pc[w] = "reserve_write" /\ event[w] = p

\* Where the number of a reservation of event e stands.
SeatsOf(e, n) == {i \in DOMAIN e.data : e.data[i] = n}

\* The seats that the loop of ems_reserve has written.
Written(w) ==
  {seat_index(list[event[w]], call[w].seats[k]) :
     k \in {j \in DOMAIN call[w].seats : j < pos[w]}}

\* Every number up to the counter stands in a seat, except the one that is
\* being written, and no other number does.
NumberInv ==
  \A p \in DOMAIN list :
    /\ \A i \in DOMAIN list[p].data : list[p].data[i] <= list[p].reservations
    /\ \A n \in 1 .. list[p].reservations :
         \/ SeatsOf(list[p], n) # {}
         \/ \E w \in Workers : Writes(w, p) /\ reservation_id[w] = n

\* The number that is being written is the last one, the seats all exist, and
\* the number stands in the seats written so far and in no others.
WriteInv ==
  \A w \in Workers : pc[w] = "reserve_write" =>
    /\ reservation_id[w] = list[event[w]].reservations
    /\ reservation_id[w] >= 1
    /\ \A k \in DOMAIN call[w].seats :
         InBounds(list[event[w]], call[w].seats[k])
    /\ SeatsOf(list[event[w]], reservation_id[w]) = Written(w)

\* A reservation that was granted keeps its seats: nobody is writing its
\* number.
Granted(w) == pc[w] = "return" /\ call[w].op = "reserve" /\ reply[w] = Success

GrantKept(w) ==
  Granted(w) =>
    /\ event[w] \in DOMAIN list
    /\ reservation_id[w] \in 1 .. list[event[w]].reservations
    /\ \A v \in Workers : Writes(v, event[w]) => reservation_id[v] # reservation_id[w]
    /\ SeatsOf(list[event[w]], reservation_id[w])
         = Asked(list[event[w]], call[w].seats)

\* The seats copied so far are the seats of the event.
CopyKept(w) ==
  pc[w] = "show_copy" =>
    /\ response_seats[w] \in [DOMAIN list[event[w]].data -> Nat]
    /\ \A i \in DOMAIN response_seats[w] :
         i < pos[w] => response_seats[w][i] = list[event[w]].data[i]

\* What ems_show answered stays whole: the numbers it shows are not being
\* written, and none of them stands in a seat that it shows as free.
Shown(w) == pc[w] = "return" /\ call[w].op = "show" /\ reply[w] \notin {Failure, Lost}

ShownKept(w) ==
  Shown(w) =>
    /\ event[w] \in DOMAIN list
    /\ DOMAIN reply[w].seats = DOMAIN list[event[w]].data
    /\ \A i \in DOMAIN reply[w].seats :
         /\ reply[w].seats[i] \in 0 .. list[event[w]].reservations
         /\ \A v \in Workers :
              Writes(v, event[w]) => reservation_id[v] # reply[w].seats[i]
    /\ ~ Torn(reply[w].seats, event[w])

AnswerInv == \A w \in Workers : GrantKept(w) /\ CopyKept(w) /\ ShownKept(w)

SeatInv == NumberInv /\ WriteInv /\ AnswerInv

-----------------------------------------------------------------------------
(* Lemmas about the operators.                                             *)

\* A seat that ems_reserve accepts is a cell of the event: the flat index of
\* the C code does not leave the array.
LEMMA SeatIsCell ==
  ASSUME NEW e, NEW s, e.rows \in Nat, e.cols \in Nat, s[1] \in Nat, s[2] \in Nat,
         InBounds(e, s)
  PROVE  seat_index(e, s) \in Cells(e.rows, e.cols)
<1>1. ASSUME NEW r \in Nat, NEW c \in Nat, NEW x \in Nat, NEW y \in Nat,
             1 <= x, x <= r, 1 <= y, y <= c
      PROVE  (x - 1) * c + y - 1 \in 0 .. (r * c - 1)
  <2>1. PICK d \in Nat : r = x + d
    BY <1>1
  <2>2. r * c = x * c + d * c /\ (x - 1) * c = x * c - c
    BY <1>1, <2>1
  <2>3. d * c \in Nat /\ x * c \in Nat /\ r * c \in Nat /\ (x - 1) * c \in Nat
    BY <1>1, <2>1
  <2> QED
    BY <1>1, <2>2, <2>3
<1>2. 1 <= s[1] /\ s[1] <= e.rows /\ 1 <= s[2] /\ s[2] <= e.cols
  BY DEF InBounds
<1> QED
  BY <1>1, <1>2 DEF seat_index, Cells

\* The answers are told apart by their error code or their fields.
LEMMA RepliesDiffer ==
  /\ Success # NoReply /\ Failure # NoReply /\ Lost # NoReply
  /\ Success # Failure /\ Success # Lost
  /\ \A a, b, c : [err |-> "ok", rows |-> a, cols |-> b, seats |-> c]
                   \notin {NoReply, Failure, Lost}
  /\ \A a, b : [err |-> "ok", num_events |-> a, ids |-> b] # NoReply
<1>1. Success.err = "ok" /\ Failure.err = "error" /\ Lost.err = "lost" /\ NoReply.err = "none"
  BY DEF Success, Failure, Lost, NoReply
<1>2. \A a, b, c : [err |-> "ok", rows |-> a, cols |-> b, seats |-> c].err = "ok"
  OBVIOUS
<1>3. \A a, b : [err |-> "ok", num_events |-> a, ids |-> b].err = "ok"
  OBVIOUS
<1> QED
  BY <1>1, <1>2, <1>3

-----------------------------------------------------------------------------
(* A step of one worker leaves the others where they are.                  *)

SameLocals(v) ==
  /\ pc'[v] = pc[v] /\ call'[v] = call[v] /\ reply'[v] = reply[v]
  /\ event'[v] = event[v] /\ pos'[v] = pos[v]
  /\ reservation_id'[v] = reservation_id[v]
  /\ response_seats'[v] = response_seats[v]

LEMMA OthersStay ==
  ASSUME IInv, PlaceInv, NEW w \in Workers, Invoke(w) \/ Step(w),
         NEW v \in Workers, v # w
  PROVE  SameLocals(v)
<1>0. /\ DOMAIN pc = Workers /\ DOMAIN call = Workers /\ DOMAIN event = Workers
      /\ DOMAIN pos = Workers /\ DOMAIN reservation_id = Workers
      /\ DOMAIN reply = Workers /\ DOMAIN response_seats = Workers
  BY DEF IInv, TypeOK, PlaceInv
<1> USE <1>0 DEF SameLocals, Goto, Answer, locals
<1>1. CASE Invoke(w) \/ Return(w)
  BY <1>1 DEF Invoke, Return
<1>2. CASE CreateLock(w) \/ CreateReject(w) \/ CreateAppend(w) \/ CreateCount(w)
           \/ CreateUnlock(w)
  BY <1>2 DEF CreateLock, CreateReject, CreateAppend, CreateCount, CreateUnlock
<1>3. CASE ReserveLock(w) \/ ReserveLookup(w) \/ ReserveMutex(w) \/ ReserveReject(w)
  BY <1>3 DEF ReserveLock, ReserveLookup, ReserveMutex, ReserveReject
<1>4. CASE ReserveNumber(w) \/ ReserveWrite(w) \/ ReserveUnlock(w)
  BY <1>4 DEF ReserveNumber, ReserveWrite, ReserveUnlock
<1>5. CASE ShowLock(w) \/ ShowLookup(w) \/ ShowMutex(w) \/ ShowHeader(w)
  BY <1>5 DEF ShowLock, ShowLookup, ShowMutex, ShowHeader
<1>6. CASE ShowHeaderFails(w) \/ ShowCopy(w) \/ ShowUnlock(w)
  BY <1>6 DEF ShowHeaderFails, ShowCopy, ShowUnlock
<1>7. CASE ListLock(w) \/ ListUnlock(w)
  BY <1>7 DEF ListLock, ListUnlock
<1> QED
  BY <1>1, <1>2, <1>3, <1>4, <1>5, <1>6, <1>7 DEF Step

\* show_EMS, a finished system and a stutter change neither the list nor the
\* workers.
LEMMA NobodyMoves ==
  ASSUME ShowEMS \/ Finished \/ UNCHANGED vars
  PROVE  UNCHANGED <<list, pc, call, reply, event, pos, reservation_id,
                     response_seats>>
BY DEF ShowEMS, PrintLock, PrintSeat, PrintNext, PrintUnlock, Finished, vars,
   shared, locals

\* An event keeps its identifier and its shape.
LEMMA EventsStay ==
  ASSUME IInv, NEW w \in Workers, Invoke(w) \/ Step(w), NEW p \in DOMAIN list
  PROVE  /\ p \in DOMAIN list' /\ list'[p].id = list[p].id
         /\ list'[p].rows = list[p].rows /\ list'[p].cols = list[p].cols
<1>1. CASE CreateAppend(w)
  BY <1>1, AppendStep
<1>2. CASE ReserveNumber(w)
  BY <1>2, NumberStep
<1>3. CASE ReserveWrite(w)
  BY <1>3, WriteStep
<1>4. CASE ~ CreateAppend(w) /\ ~ ReserveNumber(w) /\ ~ ReserveWrite(w)
  BY <1>4, QuietStep DEF SameEvent
<1> QED
  BY <1>1, <1>2, <1>3, <1>4

LEMMA PlaceStep ==
  ASSUME IInv, PlaceInv, [Next]_vars PROVE PlaceInv'
<1>0. IInv'
  BY StepInvariant
<1>1. ASSUME NEW w \in Workers, Invoke(w) \/ Step(w)
      PROVE  DOMAIN reply' = Workers /\ DOMAIN response_seats' = Workers
  <2>1. DOMAIN reply = Workers /\ DOMAIN response_seats = Workers
    BY DEF PlaceInv
  <2>2. reply' = reply \/ \E r : reply' = [reply EXCEPT ![w] = r]
    BY <1>1 DEF Step, Invoke, CreateLock, CreateReject, CreateAppend, CreateCount,
       CreateUnlock, ReserveLock, ReserveLookup, ReserveMutex, ReserveReject,
       ReserveNumber, ReserveWrite, ReserveUnlock, ShowLock, ShowLookup, ShowMutex,
       ShowHeader, ShowHeaderFails, ShowCopy, ShowUnlock, ListLock, ListUnlock,
       Return, Answer
  <2>3. response_seats' = response_seats \/ \E r : response_seats' = [response_seats EXCEPT ![w] = r]
    BY <1>1 DEF Step, Invoke, CreateLock, CreateReject, CreateAppend, CreateCount,
       CreateUnlock, ReserveLock, ReserveLookup, ReserveMutex, ReserveReject,
       ReserveNumber, ReserveWrite, ReserveUnlock, ShowLock, ShowLookup, ShowMutex,
       ShowHeader, ShowHeaderFails, ShowCopy, ShowUnlock, ListLock, ListUnlock,
       Return, locals
  <2> QED
    BY <2>1, <2>2, <2>3
<1>2. ASSUME NEW w \in Workers, Invoke(w) \/ Step(w), NEW v \in Workers, v # w
      PROVE  Place(v)'
  <2>1. Place(v) /\ SameLocals(v)
    BY <1>2, OthersStay DEF PlaceInv
  <2>2. pc[v] \in UsesEvent => list'[event[v]].id = list[event[v]].id
    BY <1>2, EventsStay DEF IInv, PointerInv
  <2> QED
    BY <2>1, <2>2 DEF Place, SameLocals
<1>3. ASSUME NEW w \in Workers, Invoke(w) \/ Step(w)
      PROVE  Place(w)'
  <2>0. /\ Place(w) /\ DOMAIN reply = Workers /\ DOMAIN response_seats = Workers
        /\ pc \in [Workers -> PCs] /\ DOMAIN call = Workers /\ DOMAIN pos = Workers
        /\ DOMAIN event = Workers
    BY DEF IInv, TypeOK, PlaceInv
  <2> DEFINE Id == list'[event[w]].id = list[event[w]].id
  <2>1. pc[w] \in UsesEvent => Id
    BY <1>3, EventsStay DEF IInv, PointerInv
  <2> HIDE DEF Id
  <2> USE <2>0 DEF Goto, Answer, locals, Place, Creates, Reserving, Shows, Lists,
                   Answered, UsesEvent, Loops
  <2>2. CASE Invoke(w)
    <3>1. PICK c \in Calls : /\ pc[w] = "idle" /\ pc' = [pc EXCEPT ![w] = c.op]
                             /\ call' = [call EXCEPT ![w] = c]
                             /\ reply' = reply /\ pos' = pos
      BY <2>2 DEF Invoke
    <3>2. c.op \in {"create", "reserve", "show", "list"}
      BY DEF Calls
    <3> QED
      BY <3>1, <3>2
  <2>3. CASE Return(w)
    BY <2>3 DEF Return
  <2>4. CASE CreateLock(w) \/ CreateReject(w) \/ CreateAppend(w) \/ CreateCount(w)
             \/ CreateUnlock(w)
    BY <2>4, RepliesDiffer DEF CreateLock, CreateReject, CreateAppend, CreateCount,
       CreateUnlock
  <2>5. CASE ReserveLock(w)
    BY <2>5 DEF ReserveLock
  <2>6. CASE ReserveLookup(w)
    <3>1. get_event(call[w].id) # 0 => list[get_event(call[w].id)].id = call[w].id
      BY GetEventType
    <3>2. /\ event' = [event EXCEPT ![w] = get_event(call[w].id)]
          /\ list' = list /\ call' = call /\ pos' = pos
      BY <2>6 DEF ReserveLookup, shared
    <3>3. \/ /\ Goto(w, "reserve_lookup", "return") /\ Answer(w, Failure)
          \/ /\ event'[w] # 0
             /\ Goto(w, "reserve_lookup", "reserve_mutex") /\ UNCHANGED reply
      BY <2>6 DEF ReserveLookup
    <3> QED
      BY <3>1, <3>2, <3>3, RepliesDiffer
  <2>7. CASE ReserveMutex(w) \/ ReserveReject(w) \/ ReserveUnlock(w)
    BY <2>1, <2>7, RepliesDiffer DEF ReserveMutex, ReserveReject, ReserveUnlock, Id
  <2>8. CASE ReserveNumber(w) \/ ReserveWrite(w)
    BY <2>1, <2>8 DEF ReserveNumber, ReserveWrite, Id
  <2>9. CASE ShowLock(w)
    BY <2>9 DEF ShowLock
  <2>10. CASE ShowLookup(w)
    <3>1. get_event(call[w].id) # 0 => list[get_event(call[w].id)].id = call[w].id
      BY GetEventType
    <3>2. /\ event' = [event EXCEPT ![w] = get_event(call[w].id)]
          /\ list' = list /\ call' = call /\ pos' = pos
      BY <2>10 DEF ShowLookup, shared
    <3>3. \/ /\ Goto(w, "show_lookup", "return") /\ Answer(w, Failure)
          \/ /\ event'[w] # 0
             /\ Goto(w, "show_lookup", "show_mutex") /\ UNCHANGED reply
      BY <2>10 DEF ShowLookup
    <3> QED
      BY <3>1, <3>2, <3>3, RepliesDiffer
  <2>11. CASE ShowMutex(w) \/ ShowHeader(w) \/ ShowHeaderFails(w) \/ ShowCopy(w)
    BY <2>1, <2>11, RepliesDiffer DEF ShowMutex, ShowHeader, ShowHeaderFails,
       ShowCopy, Id
  <2>12. CASE ShowUnlock(w)
    <3>1. PICK r : r # NoReply /\ Answer(w, r)
      BY <2>12, RepliesDiffer DEF ShowUnlock
    <3> QED
      BY <2>12, <3>1 DEF ShowUnlock
  <2>13. CASE ListLock(w)
    BY <2>13 DEF ListLock
  <2>14. CASE ListUnlock(w)
    <3>1. PICK r : r # NoReply /\ Answer(w, r)
      BY <2>14, RepliesDiffer DEF ListUnlock
    <3> QED
      BY <2>14, <3>1 DEF ListUnlock
  <2> QED
    BY <1>3, <2>2, <2>3, <2>4, <2>5, <2>6, <2>7, <2>8, <2>9, <2>10, <2>11, <2>12,
       <2>13, <2>14 DEF Step
<1>4. CASE ShowEMS \/ Finished \/ UNCHANGED vars
  BY <1>4, NobodyMoves DEF PlaceInv, Place
<1> QED
  BY <1>1, <1>2, <1>3, <1>4 DEF Next, PlaceInv

-----------------------------------------------------------------------------
(* The seats.                                                              *)

LEMMA SeatInit == Init => PlaceInv /\ SeatInv
<1> SUFFICES ASSUME Init PROVE PlaceInv /\ SeatInv
  OBVIOUS
<1>1. PlaceInv
  BY DEF Init, PlaceInv, Place, Creates, Reserving, Shows, Lists, Answered, UsesEvent,
     Loops
<1>2. SeatInv
  BY DEF Init, SeatInv, NumberInv, WriteInv, AnswerInv, GrantKept, Granted, CopyKept,
     ShownKept, Shown
<1> QED
  BY <1>1, <1>2

\* The mutex of an event has one owner.
LEMMA OneHolder ==
  ASSUME IInv, NEW v \in Workers, NEW w \in Workers, pc[v] \in HoldsMutex,
         pc[w] \in HoldsMutex, event[v] = event[w]
  PROVE  v = w
BY DEF IInv, MutexInv

LEMMA EventType ==
  ASSUME IInv, NEW p \in DOMAIN list
  PROVE  /\ list[p].rows \in Nat /\ list[p].cols \in Nat
         /\ list[p].reservations \in Nat
         /\ list[p].data \in [Cells(list[p].rows, list[p].cols) -> Nat]
<1>1. list[p] \in Event
  BY DEF IInv, TypeOK
<1> QED
  BY <1>1 DEF IInv, TypeOK, Event

\* The arguments of ems_reserve.
LEMMA SeatsType ==
  ASSUME IInv, NEW w \in Workers, pc[w] \in Reserving
  PROVE  /\ call[w].seats \in Seq(Nat \X Nat) /\ call[w].seats # <<>>
         /\ \A k \in DOMAIN call[w].seats :
              call[w].seats[k][1] \in Nat /\ call[w].seats[k][2] \in Nat
<1>1. call[w].seats \in SeatLists
  BY DEF IInv, CallInv, ReserveCalls
<1>2. call[w].seats \in Seq(Nat \X Nat) /\ call[w].seats # <<>>
  BY <1>1, ArgumentsAssumption
<1> QED
  BY <1>2

\* When the loop has ended, the number stands in the seats asked for, and in
\* at least one.
LEMMA WrittenAll ==
  ASSUME IInv, WriteInv, NEW w \in Workers, ReserveUnlock(w)
  PROVE  LET e == list[event[w]] IN
         /\ SeatsOf(e, reservation_id[w]) = Asked(e, call[w].seats)
         /\ SeatsOf(e, reservation_id[w]) # {}
<1> DEFINE e == list[event[w]]  seats == call[w].seats
<1>1. /\ pc[w] = "reserve_write" /\ event[w] \in DOMAIN list
      /\ pos[w] \in Nat /\ pos[w] > Len(seats)
  BY DEF ReserveUnlock, Goto, AllWritten, IInv, TypeOK, PointerInv, UsesEvent
<1>2. /\ seats \in Seq(Nat \X Nat) /\ seats # <<>>
      /\ \A k \in DOMAIN seats : seats[k][1] \in Nat /\ seats[k][2] \in Nat
  BY <1>1, SeatsType DEF Reserving
<1>3. SeatsOf(e, reservation_id[w]) = Written(w)
  BY <1>1 DEF WriteInv
<1>4. {j \in DOMAIN seats : j < pos[w]} = DOMAIN seats
  BY <1>1, <1>2
<1>5. Written(w) = Asked(e, seats)
  BY <1>4 DEF Written, Asked
<1>6. 1 \in DOMAIN seats
  BY <1>2
<1>7. seat_index(e, seats[1]) \in Asked(e, seats)
  BY <1>6 DEF Asked
<1> QED
  BY <1>3, <1>5, <1>7

\* What nobody writes to stays as it is: a step that leaves the events alone
\* and starts no reservation, seen from a worker it does not move.
LEMMA AnswerKept ==
  ASSUME IInv, PlaceInv, SeatInv, NEW v \in Workers, SameLocals(v),
         \A p \in DOMAIN list : p \in DOMAIN list' /\ SameEvent(p),
         \A u \in Workers, p \in DOMAIN list :
            Writes(u, p)' => Writes(u, p) /\ reservation_id'[u] = reservation_id[u]
  PROVE  GrantKept(v)' /\ CopyKept(v)' /\ ShownKept(v)'
<1>0. GrantKept(v) /\ CopyKept(v) /\ ShownKept(v)
  BY DEF SeatInv, AnswerInv
<1>1. GrantKept(v)'
  <2> SUFFICES ASSUME Granted(v)' PROVE GrantKept(v)'
    BY DEF GrantKept
  <2>1. Granted(v) /\ event'[v] = event[v] /\ event[v] \in DOMAIN list
    BY <1>0 DEF Granted, GrantKept, SameLocals
  <2>2. SameEvent(event[v]) /\ event[v] \in DOMAIN list'
    BY <2>1
  <2>3. /\ SeatsOf(list'[event[v]], reservation_id[v]) = SeatsOf(list[event[v]], reservation_id[v])
        /\ Asked(list'[event[v]], call[v].seats) = Asked(list[event[v]], call[v].seats)
    BY <2>2 DEF SameEvent, SeatsOf, Asked, seat_index
  <2> QED
    BY <1>0, <2>1, <2>2, <2>3 DEF GrantKept, SameLocals, SameEvent
<1>2. CopyKept(v)'
  <2> SUFFICES ASSUME pc'[v] = "show_copy" PROVE CopyKept(v)'
    BY DEF CopyKept
  <2>1. pc[v] = "show_copy" /\ event'[v] = event[v] /\ event[v] \in DOMAIN list
    BY DEF SameLocals, IInv, PointerInv, UsesEvent
  <2>2. SameEvent(event[v])
    BY <2>1
  <2> QED
    BY <1>0, <2>1, <2>2 DEF CopyKept, SameLocals, SameEvent
<1>3. ShownKept(v)'
  <2> SUFFICES ASSUME Shown(v)' PROVE ShownKept(v)'
    BY DEF ShownKept
  <2>1. Shown(v) /\ event'[v] = event[v] /\ event[v] \in DOMAIN list
    BY <1>0 DEF Shown, ShownKept, SameLocals
  <2>2. SameEvent(event[v]) /\ event[v] \in DOMAIN list'
    BY <2>1
  <2> QED
    BY <1>0, <2>1, <2>2 DEF ShownKept, SameLocals, SameEvent, Torn
<1> QED
  BY <1>1, <1>2, <1>3

\* The same for what is being written.
LEMMA WriteKept ==
  ASSUME IInv, SeatInv, \A p \in DOMAIN list : SameEvent(p),
         \A v \in Workers : pc'[v] = "reserve_write" =>
            pc[v] = "reserve_write" /\ SameLocals(v)
  PROVE  WriteInv'
<1>0. WriteInv
  BY DEF SeatInv
<1> SUFFICES ASSUME NEW w \in Workers, pc'[w] = "reserve_write" PROVE WriteInv!(w)'
  BY DEF WriteInv
<1>1. pc[w] = "reserve_write" /\ SameLocals(w) /\ event[w] \in DOMAIN list
  BY DEF IInv, PointerInv, UsesEvent
<1>2. SameEvent(event[w]) /\ event'[w] = event[w]
  BY <1>1 DEF SameLocals
<1>3. /\ Written(w)' = Written(w)
      /\ SeatsOf(list'[event[w]], reservation_id[w]) = SeatsOf(list[event[w]], reservation_id[w])
      /\ \A s : InBounds(list'[event[w]], s) <=> InBounds(list[event[w]], s)
  BY <1>1, <1>2 DEF SameEvent, SeatsOf, SameLocals, Written, seat_index, InBounds
<1> QED
  BY <1>0, <1>1, <1>2, <1>3 DEF WriteInv, SameLocals, SameEvent

LEMMA NumbersKept ==
  ASSUME IInv, SeatInv, DOMAIN list' = DOMAIN list,
         \A p \in DOMAIN list : SameEvent(p),
         \A v \in Workers : pc'[v] = "reserve_write" <=> pc[v] = "reserve_write",
         \A v \in Workers : pc[v] = "reserve_write" => SameLocals(v)
  PROVE  NumberInv' /\ WriteInv'
<1>0. NumberInv
  BY DEF SeatInv
<1>1. NumberInv'
  <2> SUFFICES ASSUME NEW p \in DOMAIN list PROVE NumberInv!(p)'
    BY DEF NumberInv
  <2>1. SameEvent(p)
    OBVIOUS
  <2>2. \A n : SeatsOf(list'[p], n) = SeatsOf(list[p], n)
    BY <2>1 DEF SameEvent, SeatsOf
  <2>3. \A w \in Workers : Writes(w, p) => Writes(w, p)' /\ reservation_id'[w] = reservation_id[w]
    BY DEF Writes, SameLocals
  <2> QED
    BY <1>0, <2>1, <2>2, <2>3 DEF NumberInv, SameEvent
<1> QED
  BY <1>1, WriteKept

\* A new event has no reservations, and nobody uses it yet.
LEMMA AppendSeats ==
  ASSUME IInv, PlaceInv, SeatInv, NEW w \in Workers, CreateAppend(w) PROVE SeatInv'
<1> DEFINE e == NewEvent(call[w].id, call[w].shape)  m == Len(list) + 1
<1>0. NumberInv /\ WriteInv
  BY DEF SeatInv
<1>1. /\ DOMAIN list' = DOMAIN list \cup {m} /\ list'[m] = e
      /\ \A p \in DOMAIN list : list'[p] = list[p]
  BY AppendStep
<1>2. /\ \A v \in Workers : v # w => SameLocals(v)
      /\ pc[w] = "create_lookup" /\ pc'[w] = "create_count"
  <2>1. \A v \in Workers : v # w => SameLocals(v)
    BY OthersStay DEF Step
  <2> QED
    BY <2>1 DEF CreateAppend, Goto, IInv, TypeOK
<1>3. \A v \in Workers : pc'[v] = "reserve_write" <=> pc[v] = "reserve_write"
  BY <1>2 DEF SameLocals
<1>4. \A p \in DOMAIN list : p \in DOMAIN list' /\ SameEvent(p)
  BY <1>1 DEF SameEvent
<1>5. \A u \in Workers, p \in DOMAIN list :
         /\ Writes(u, p)' => Writes(u, p) /\ reservation_id'[u] = reservation_id[u]
         /\ Writes(u, p) => Writes(u, p)' /\ reservation_id'[u] = reservation_id[u]
  BY <1>2, <1>3 DEF Writes, SameLocals
<1>6. NumberInv'
  <2> SUFFICES ASSUME NEW p \in DOMAIN list' PROVE NumberInv!(p)'
    BY DEF NumberInv
  <2>1. CASE p \in DOMAIN list
    <3>1. list'[p] = list[p] /\ \A n : SeatsOf(list'[p], n) = SeatsOf(list[p], n)
      BY <1>1, <2>1
    <3> QED
      BY <1>0, <1>5, <2>1, <3>1 DEF NumberInv
  <2>2. CASE p = m
    <3>1. e.reservations = 0 /\ \A i \in DOMAIN e.data : e.data[i] = 0
      BY DEF NewEvent
    <3> QED
      BY <1>1, <2>2, <3>1
  <2> QED
    BY <1>1, <2>1, <2>2
<1>7. WriteInv'
  <2> SUFFICES ASSUME NEW v \in Workers, pc'[v] = "reserve_write" PROVE WriteInv!(v)'
    BY DEF WriteInv
  <2>1. pc[v] = "reserve_write" /\ SameLocals(v) /\ event[v] \in DOMAIN list
    BY <1>2, <1>3 DEF IInv, PointerInv, UsesEvent
  <2>2. list'[event[v]] = list[event[v]] /\ event'[v] = event[v]
    BY <1>1, <2>1 DEF SameLocals
  <2>3. Written(v)' = Written(v)
    BY <2>1, <2>2 DEF Written, SameLocals
  <2> QED
    BY <1>0, <2>1, <2>2, <2>3 DEF WriteInv, SameLocals
<1>8. AnswerInv'
  <2> SUFFICES ASSUME NEW v \in Workers
               PROVE  GrantKept(v)' /\ CopyKept(v)' /\ ShownKept(v)'
    BY DEF AnswerInv
  <2>1. CASE v = w
    BY <1>2, <2>1 DEF GrantKept, Granted, CopyKept, ShownKept, Shown
  <2>2. CASE v # w
    BY <1>2, <1>4, <1>5, <2>2, AnswerKept
  <2> QED
    BY <2>1, <2>2
<1> QED
  BY <1>6, <1>7, <1>8 DEF SeatInv

\* The next number stands nowhere yet, and only its owner can write it.
LEMMA NumberSeats ==
  ASSUME IInv, PlaceInv, SeatInv, NEW w \in Workers, ReserveNumber(w) PROVE SeatInv'
<1> DEFINE e == list[event[w]]  f == list'[event[w]]  R == e.reservations
<1>0. NumberInv /\ WriteInv /\ AnswerInv
  BY DEF SeatInv
<1>1. /\ event[w] \in DOMAIN list /\ R \in Nat /\ DOMAIN list' = DOMAIN list
      /\ f.reservations = R + 1
      /\ f.rows = e.rows /\ f.cols = e.cols /\ f.data = e.data
      /\ \A q \in DOMAIN list : q # event[w] => list'[q] = list[q]
  BY NumberStep
<1>2. /\ pc[w] = "reserve_check" /\ pc'[w] = "reserve_write"
      /\ event'[w] = event[w] /\ call'[w] = call[w]
      /\ reservation_id'[w] = R + 1 /\ pos'[w] = 1
      /\ CanReserve(e, call[w].seats)
  BY DEF ReserveNumber, Goto, NextNumber, IInv, TypeOK
<1>3. \A v \in Workers : v # w => SameLocals(v)
  BY OthersStay DEF Step
<1>4. \A v \in Workers : pc[v] = "reserve_write" => v # w /\ event[v] # event[w]
  BY <1>2, OneHolder DEF HoldsMutex
<1>5. \A i \in DOMAIN e.data : e.data[i] \in Nat /\ e.data[i] <= R
  BY <1>0, <1>1, EventType DEF NumberInv
<1>6. \A n : SeatsOf(f, n) = SeatsOf(e, n)
  BY <1>1 DEF SeatsOf
<1>7. NumberInv'
  <2> SUFFICES ASSUME NEW p \in DOMAIN list PROVE NumberInv!(p)'
    BY <1>1 DEF NumberInv
  <2>1. CASE p = event[w]
    <3>1. \A i \in DOMAIN list'[p].data : list'[p].data[i] <= list'[p].reservations
      BY <1>1, <1>5, <2>1
    <3>2. ASSUME NEW n \in 1 .. list'[p].reservations
          PROVE  \/ SeatsOf(list'[p], n) # {}
                 \/ \E v \in Workers : Writes(v, p)' /\ reservation_id'[v] = n
      <4>1. CASE n = R + 1
        <5>1. Writes(w, p)' /\ reservation_id'[w] = n
          BY <1>2, <2>1, <4>1 DEF Writes
        <5> QED
          BY <5>1
      <4>2. CASE n # R + 1
        <5>1. n \in 1 .. R
          BY <1>1, <2>1, <3>2, <4>2
        <5>2. \A v \in Workers : ~ Writes(v, event[w])
          BY <1>4 DEF Writes
        <5> QED
          BY <1>0, <1>1, <1>6, <2>1, <5>1, <5>2 DEF NumberInv
      <4> QED
        BY <4>1, <4>2
    <3> QED
      BY <3>1, <3>2
  <2>2. CASE p # event[w]
    <3>1. list'[p] = list[p]
      BY <1>1, <2>2
    <3>2. \A v \in Workers : Writes(v, p) => Writes(v, p)' /\ reservation_id'[v] = reservation_id[v]
      BY <1>3, <1>4 DEF Writes, SameLocals
    <3> QED
      BY <1>0, <3>1, <3>2 DEF NumberInv
  <2> QED
    BY <2>1, <2>2
<1>8. WriteInv'
  <2> SUFFICES ASSUME NEW v \in Workers, pc'[v] = "reserve_write" PROVE WriteInv!(v)'
    BY DEF WriteInv
  <2>1. CASE v = w
    <3>1. \A k \in DOMAIN call[w].seats : InBounds(f, call[w].seats[k])
      BY <1>1, <1>2 DEF CanReserve, InBounds
    <3>2. SeatsOf(f, R + 1) = {}
      BY <1>1, <1>5, <1>6 DEF SeatsOf
    <3>3. call[w].seats \in Seq(Nat \X Nat)
      BY <1>2, SeatsType DEF Reserving
    <3>4. {k \in DOMAIN call[w].seats : k < 1} = {}
      BY <3>3
    <3>5. Written(w)' = {}
      BY <1>2, <3>4 DEF Written
    <3> QED
      BY <1>1, <1>2, <2>1, <3>1, <3>2, <3>5
  <2>2. CASE v # w
    <3>1. pc[v] = "reserve_write" /\ SameLocals(v)
      BY <1>3, <2>2 DEF SameLocals
    <3>2. event[v] \in DOMAIN list /\ event'[v] = event[v]
      BY <3>1 DEF SameLocals, IInv, PointerInv, UsesEvent
    <3>3. list'[event[v]] = list[event[v]]
      BY <1>1, <1>4, <3>1, <3>2
    <3>4. Written(v)' = Written(v)
      BY <3>1, <3>3 DEF Written, SameLocals
    <3> QED
      BY <1>0, <3>1, <3>3, <3>4 DEF WriteInv, SameLocals
  <2> QED
    BY <2>1, <2>2
<1>9. AnswerInv'
  <2> SUFFICES ASSUME NEW v \in Workers
               PROVE  GrantKept(v)' /\ CopyKept(v)' /\ ShownKept(v)'
    BY DEF AnswerInv
  <2>1. CASE v = w
    BY <1>2, <2>1 DEF GrantKept, Granted, CopyKept, ShownKept, Shown
  <2>2. CASE v # w
    <3>1. SameLocals(v) /\ GrantKept(v) /\ CopyKept(v) /\ ShownKept(v)
      BY <1>0, <1>3, <2>2 DEF AnswerInv
    <3>2. \A u \in Workers, p \in DOMAIN list :
             Writes(u, p)' =>
               \/ Writes(u, p) /\ reservation_id'[u] = reservation_id[u]
               \/ p = event[w] /\ reservation_id'[u] = R + 1
      BY <1>2, <1>3 DEF Writes, SameLocals
    <3>3. \A p \in DOMAIN list :
             /\ list'[p].data = list[p].data
             /\ list'[p].cols = list[p].cols
             /\ list[p].reservations \in Nat
             /\ list'[p].reservations \in {list[p].reservations, list[p].reservations + 1}
             /\ p = event[w] => list[p].reservations = R
      <4> SUFFICES ASSUME NEW p \in DOMAIN list
                   PROVE  /\ list'[p].data = list[p].data
                          /\ list'[p].cols = list[p].cols
                          /\ list[p].reservations \in Nat
                          /\ list'[p].reservations \in
                               {list[p].reservations, list[p].reservations + 1}
                          /\ p = event[w] => list[p].reservations = R
        OBVIOUS
      <4>1. list[p].reservations \in Nat
        BY EventType
      <4> QED
        BY <1>1, <4>1
    <3>4. GrantKept(v)'
      <4> SUFFICES ASSUME Granted(v)' PROVE GrantKept(v)'
        BY DEF GrantKept
      <4>1. /\ Granted(v) /\ event'[v] = event[v] /\ event[v] \in DOMAIN list
            /\ reservation_id[v] \in 1 .. list[event[v]].reservations
        BY <3>1 DEF Granted, GrantKept, SameLocals
      <4>2. /\ SeatsOf(list'[event[v]], reservation_id[v])
                 = SeatsOf(list[event[v]], reservation_id[v])
            /\ Asked(list'[event[v]], call[v].seats) = Asked(list[event[v]], call[v].seats)
        BY <3>3, <4>1 DEF SeatsOf, Asked, seat_index
      <4>3. reservation_id[v] \in 1 .. list'[event[v]].reservations
        BY <3>3, <4>1
      <4>4. ASSUME NEW u \in Workers, Writes(u, event[v])'
            PROVE  reservation_id'[u] # reservation_id[v]
        BY <1>1, <3>1, <3>2, <4>1, <4>4 DEF GrantKept
      <4> QED
        BY <1>1, <3>1, <4>1, <4>2, <4>3, <4>4 DEF GrantKept, SameLocals
    <3>5. CopyKept(v)'
      <4> SUFFICES ASSUME pc'[v] = "show_copy" PROVE CopyKept(v)'
        BY DEF CopyKept
      <4>1. pc[v] = "show_copy" /\ event'[v] = event[v] /\ event[v] \in DOMAIN list
        BY <3>1 DEF SameLocals, IInv, PointerInv, UsesEvent
      <4> QED
        BY <3>1, <3>3, <4>1 DEF CopyKept, SameLocals
    <3>6. ShownKept(v)'
      <4> SUFFICES ASSUME Shown(v)' PROVE ShownKept(v)'
        BY DEF ShownKept
      <4>1. /\ Shown(v) /\ event'[v] = event[v] /\ event[v] \in DOMAIN list
            /\ reply'[v] = reply[v]
        BY <3>1 DEF Shown, ShownKept, SameLocals
      <4>2. ASSUME NEW i \in DOMAIN reply[v].seats
            PROVE  /\ reply[v].seats[i] \in 0 .. list'[event[v]].reservations
                   /\ \A u \in Workers : Writes(u, event[v])'
                         => reservation_id'[u] # reply[v].seats[i]
        <5>1. reply[v].seats[i] \in 0 .. list[event[v]].reservations
          BY <3>1, <4>1, <4>2 DEF ShownKept
        <5>2. reply[v].seats[i] \in 0 .. list'[event[v]].reservations
          BY <3>3, <4>1, <5>1
        <5>3. ASSUME NEW u \in Workers, Writes(u, event[v])'
              PROVE  reservation_id'[u] # reply[v].seats[i]
          <6>1. CASE Writes(u, event[v]) /\ reservation_id'[u] = reservation_id[u]
            BY <3>1, <4>1, <4>2, <6>1 DEF ShownKept
          <6>2. CASE event[v] = event[w] /\ reservation_id'[u] = R + 1
            BY <1>1, <5>1, <6>2
          <6> QED
            BY <3>2, <4>1, <5>3, <6>1, <6>2
        <5> QED
          BY <5>2, <5>3
      <4>3. ~ Torn(reply[v].seats, event[v])'
        BY <3>1, <3>3, <4>1 DEF ShownKept, Torn
      <4> QED
        BY <1>1, <3>1, <3>3, <4>1, <4>2, <4>3 DEF ShownKept
    <3> QED
      BY <3>4, <3>5, <3>6
  <2> QED
    BY <2>1, <2>2
<1> QED
  BY <1>7, <1>8, <1>9 DEF SeatInv

\* Writing a seat moves the number that is being written one seat further
\* and disturbs no other number.
LEMMA WriteSeats ==
  ASSUME IInv, PlaceInv, SeatInv, NEW w \in Workers, ReserveWrite(w) PROVE SeatInv'
<1> DEFINE e == list[event[w]]  f == list'[event[w]]  R == reservation_id[w]
           i == seat_index(e, call[w].seats[pos[w]])
<1>0. NumberInv /\ WriteInv /\ AnswerInv
  BY DEF SeatInv
<1>1. /\ event[w] \in DOMAIN list /\ pos[w] \in DOMAIN call[w].seats
      /\ DOMAIN list' = DOMAIN list
      /\ f.data = [e.data EXCEPT ![i] = R]
      /\ f.rows = e.rows /\ f.cols = e.cols /\ f.reservations = e.reservations
      /\ \A q \in DOMAIN list : q # event[w] => list'[q] = list[q]
  BY WriteStep
<1>2. /\ pc[w] = "reserve_write" /\ pc' = pc /\ call' = call /\ event' = event
      /\ reservation_id' = reservation_id /\ pos'[w] = pos[w] + 1
      /\ pos[w] \in Nat /\ R \in Nat
  BY DEF ReserveWrite, IInv, TypeOK
<1>3. \A v \in Workers : v # w => SameLocals(v)
  BY OthersStay DEF Step
<1>4. \A v \in Workers : v # w /\ pc[v] \in HoldsMutex => event[v] # event[w]
  BY <1>2, OneHolder DEF HoldsMutex
<1>5. /\ R = e.reservations /\ R >= 1
      /\ \A k \in DOMAIN call[w].seats : InBounds(e, call[w].seats[k])
      /\ SeatsOf(e, R) = Written(w)
  BY <1>0, <1>2 DEF WriteInv
<1>6. i \in DOMAIN e.data /\ e.data[i] \in {0, R}
  <2>1. /\ e.rows \in Nat /\ e.cols \in Nat
        /\ e.data \in [Cells(e.rows, e.cols) -> Nat]
    BY <1>1, EventType
  <2>2. /\ call[w].seats[pos[w]][1] \in Nat /\ call[w].seats[pos[w]][2] \in Nat
    BY <1>1, <1>2, SeatsType DEF Reserving
  <2>3. i \in Cells(e.rows, e.cols)
    BY <1>1, <1>5, <2>1, <2>2, SeatIsCell
  <2> QED
    BY <1>1, <1>2, <2>1, <2>3 DEF IInv, ReserveInv
<1> HIDE DEF i
<1>7. /\ DOMAIN f.data = DOMAIN e.data /\ f.data[i] = R
      /\ \A j \in DOMAIN e.data : j # i => f.data[j] = e.data[j]
  BY <1>1, <1>6
<1>8. /\ SeatsOf(f, R) = SeatsOf(e, R) \cup {i}
      /\ \A n : n # 0 /\ n # R => SeatsOf(f, n) = SeatsOf(e, n)
  BY <1>6, <1>7 DEF SeatsOf
<1>9. NumberInv'
  <2> SUFFICES ASSUME NEW p \in DOMAIN list PROVE NumberInv!(p)'
    BY <1>1 DEF NumberInv
  <2>1. CASE p = event[w]
    <3>1. \A j \in DOMAIN list'[p].data : list'[p].data[j] <= list'[p].reservations
      <4>1. \A j \in DOMAIN e.data : e.data[j] <= e.reservations
        BY <1>0, <1>1 DEF NumberInv
      <4> QED
        BY <1>1, <1>2, <1>5, <1>7, <2>1, <4>1
    <3>2. ASSUME NEW n \in 1 .. list'[p].reservations
          PROVE  SeatsOf(list'[p], n) # {}
      <4>1. CASE n = R
        BY <1>8, <2>1, <4>1
      <4>2. CASE n # R
        <5>1. n \in 1 .. e.reservations /\ n # 0
          BY <1>1, <2>1, <3>2
        <5>2. \A v \in Workers : Writes(v, event[w]) => v = w
          BY <1>4 DEF Writes, HoldsMutex
        <5>3. SeatsOf(e, n) # {}
          BY <1>0, <1>1, <4>2, <5>1, <5>2 DEF NumberInv
        <5> QED
          BY <1>8, <2>1, <4>2, <5>1, <5>3
      <4> QED
        BY <4>1, <4>2
    <3> QED
      BY <3>1, <3>2
  <2>2. CASE p # event[w]
    <3>1. list'[p] = list[p]
      BY <1>1, <2>2
    <3>2. \A v \in Workers : Writes(v, p) => Writes(v, p)' /\ reservation_id'[v] = reservation_id[v]
      BY <1>2 DEF Writes
    <3> QED
      BY <1>0, <3>1, <3>2 DEF NumberInv
  <2> QED
    BY <2>1, <2>2
<1>10. WriteInv'
  <2> SUFFICES ASSUME NEW v \in Workers, pc'[v] = "reserve_write" PROVE WriteInv!(v)'
    BY DEF WriteInv
  <2>1. CASE v = w
    <3>1. \A k \in DOMAIN call[w].seats : InBounds(f, call[w].seats[k])
      BY <1>1, <1>5 DEF InBounds
    <3>2. call[w].seats \in Seq(Nat \X Nat)
      BY <1>2, SeatsType DEF Reserving
    <3>3. \A k \in DOMAIN call[w].seats :
             seat_index(f, call[w].seats[k]) = seat_index(e, call[w].seats[k])
      BY <1>1 DEF seat_index
    <3>4. {k \in DOMAIN call[w].seats : k < pos[w] + 1}
            = {k \in DOMAIN call[w].seats : k < pos[w]} \cup {pos[w]}
      <4>1. pos[w] \in Nat /\ pos[w] \in DOMAIN call[w].seats
        BY <1>1, <1>2
      <4>2. \A k \in DOMAIN call[w].seats : k \in Nat
        BY <3>2
      <4>3. \A k \in DOMAIN call[w].seats : k < pos[w] + 1 <=> k < pos[w] \/ k = pos[w]
        BY <4>1, <4>2
      <4> QED
        BY <4>1, <4>3
    <3>5. Written(w)' = Written(w) \cup {i}
      <4>1. Written(w)' = {seat_index(f, call[w].seats[k]) :
                             k \in {j \in DOMAIN call[w].seats : j < pos[w] + 1}}
        BY <1>2 DEF Written
      <4> QED
        BY <3>3, <3>4, <4>1 DEF Written, i
    <3> QED
      BY <1>1, <1>2, <1>5, <1>8, <2>1, <3>1, <3>5
  <2>2. CASE v # w
    <3>1. pc[v] = "reserve_write" /\ SameLocals(v)
      BY <1>3, <2>2 DEF SameLocals
    <3>2. event[v] \in DOMAIN list /\ event'[v] = event[v]
      BY <3>1 DEF SameLocals, IInv, PointerInv, UsesEvent
    <3>3. list'[event[v]] = list[event[v]]
      BY <1>1, <1>4, <2>2, <3>1, <3>2 DEF HoldsMutex
    <3>4. Written(v)' = Written(v)
      BY <3>1, <3>3 DEF Written, SameLocals
    <3> QED
      BY <1>0, <3>1, <3>3, <3>4 DEF WriteInv, SameLocals
  <2> QED
    BY <2>1, <2>2
<1>11. AnswerInv'
  <2> SUFFICES ASSUME NEW v \in Workers
               PROVE  GrantKept(v)' /\ CopyKept(v)' /\ ShownKept(v)'
    BY DEF AnswerInv
  <2>1. CASE v = w
    BY <1>2, <2>1 DEF GrantKept, Granted, CopyKept, ShownKept, Shown
  <2>2. CASE v # w
    <3>1. SameLocals(v) /\ GrantKept(v) /\ CopyKept(v) /\ ShownKept(v)
      BY <1>0, <1>3, <2>2 DEF AnswerInv
    <3>2. \A u \in Workers, p \in DOMAIN list :
             Writes(u, p)' => Writes(u, p) /\ reservation_id'[u] = reservation_id[u]
      BY <1>2 DEF Writes
    <3>3. Writes(w, event[w])
      BY <1>2 DEF Writes
    <3>4. GrantKept(v)'
      <4> SUFFICES ASSUME Granted(v)' PROVE GrantKept(v)'
        BY DEF GrantKept
      <4>1. /\ Granted(v) /\ event'[v] = event[v] /\ event[v] \in DOMAIN list
            /\ reservation_id[v] \in 1 .. list[event[v]].reservations
        BY <3>1 DEF Granted, GrantKept, SameLocals
      <4>2. SeatsOf(list'[event[v]], reservation_id[v])
              = SeatsOf(list[event[v]], reservation_id[v])
        <5>1. CASE event[v] = event[w]
          BY <1>8, <3>1, <3>3, <4>1, <5>1 DEF GrantKept
        <5>2. CASE event[v] # event[w]
          BY <1>1, <4>1, <5>2
        <5> QED
          BY <5>1, <5>2
      <4>3. list'[event[v]].reservations = list[event[v]].reservations
            /\ list'[event[v]].cols = list[event[v]].cols
        BY <1>1, <4>1
      <4>4. Asked(list'[event[v]], call[v].seats) = Asked(list[event[v]], call[v].seats)
        BY <4>3 DEF Asked, seat_index
      <4> QED
        BY <1>1, <3>1, <3>2, <4>1, <4>2, <4>3, <4>4 DEF GrantKept, SameLocals
    <3>5. CopyKept(v)'
      <4> SUFFICES ASSUME pc'[v] = "show_copy" PROVE CopyKept(v)'
        BY DEF CopyKept
      <4>1. pc[v] = "show_copy" /\ event'[v] = event[v] /\ event[v] \in DOMAIN list
        BY <3>1 DEF SameLocals, IInv, PointerInv, UsesEvent
      <4>2. list'[event[v]] = list[event[v]]
        BY <1>1, <1>4, <2>2, <4>1 DEF HoldsMutex
      <4> QED
        BY <3>1, <4>1, <4>2 DEF CopyKept, SameLocals
    <3>6. ShownKept(v)'
      <4> SUFFICES ASSUME Shown(v)' PROVE ShownKept(v)'
        BY DEF ShownKept
      <4>1. /\ Shown(v) /\ event'[v] = event[v] /\ event[v] \in DOMAIN list
            /\ reply'[v] = reply[v]
        BY <3>1 DEF Shown, ShownKept, SameLocals
      <4>2. /\ list'[event[v]].reservations = list[event[v]].reservations
            /\ DOMAIN list'[event[v]].data = DOMAIN list[event[v]].data
        BY <1>1, <1>7, <4>1
      <4>3. ~ Torn(reply[v].seats, event[v])'
        <5>1. CASE event[v] = event[w]
          <6>1. \A j \in DOMAIN reply[v].seats : j \in DOMAIN e.data /\ reply[v].seats[j] # R
            BY <3>1, <3>3, <4>1, <5>1 DEF ShownKept
          <6>2. \A a, j \in DOMAIN reply[v].seats :
                   f.data[j] = reply[v].seats[a] => e.data[j] = reply[v].seats[a]
            BY <1>7, <6>1
          <6> QED
            BY <3>1, <4>1, <5>1, <6>2 DEF ShownKept, Torn
        <5>2. CASE event[v] # event[w]
          BY <1>1, <3>1, <4>1, <5>2 DEF ShownKept, Torn
        <5> QED
          BY <5>1, <5>2
      <4> QED
        BY <1>1, <3>1, <3>2, <4>1, <4>2, <4>3 DEF ShownKept
    <3> QED
      BY <3>4, <3>5, <3>6
  <2> QED
    BY <2>1, <2>2
<1> QED
  BY <1>9, <1>10, <1>11 DEF SeatInv

\* When the loop has ended, the reservation has all of its seats.
LEMMA UnlockSeats ==
  ASSUME IInv, PlaceInv, SeatInv, NEW w \in Workers, ReserveUnlock(w) PROVE SeatInv'
<1> DEFINE e == list[event[w]]  R == reservation_id[w]
<1>0. NumberInv /\ WriteInv /\ AnswerInv /\ Place(w)
  BY DEF SeatInv, PlaceInv
<1>1. DOMAIN list' = DOMAIN list /\ \A p \in DOMAIN list : SameEvent(p)
  <2>1. ~ CreateAppend(w) /\ ~ ReserveNumber(w) /\ ~ ReserveWrite(w)
    BY DEF ReserveUnlock, CreateAppend, ReserveNumber, ReserveWrite, Goto
  <2> QED
    BY <2>1, QuietStep DEF Step
<1>2. /\ pc[w] = "reserve_write" /\ pc'[w] = "return" /\ event'[w] = event[w]
      /\ call'[w] = call[w] /\ reservation_id'[w] = R
      /\ event[w] \in DOMAIN list /\ call[w].op = "reserve"
  BY <1>0 DEF ReserveUnlock, Goto, locals, IInv, TypeOK, PointerInv, UsesEvent, Place,
     Reserving
<1>3. \A v \in Workers : v # w => SameLocals(v)
  BY OthersStay DEF Step
<1>4. SeatsOf(e, R) = Asked(e, call[w].seats) /\ SeatsOf(e, R) # {}
  BY <1>0, WrittenAll
<1>5. \A u \in Workers, p \in DOMAIN list :
         /\ Writes(u, p)' => /\ u # w /\ Writes(u, p)
                             /\ reservation_id'[u] = reservation_id[u]
         /\ Writes(u, p) /\ u # w => /\ Writes(u, p)'
                                     /\ reservation_id'[u] = reservation_id[u]
  BY <1>2, <1>3 DEF Writes, SameLocals
<1>6. NumberInv'
  <2> SUFFICES ASSUME NEW p \in DOMAIN list PROVE NumberInv!(p)'
    BY <1>1 DEF NumberInv
  <2>1. SameEvent(p) /\ \A n : SeatsOf(list'[p], n) = SeatsOf(list[p], n)
    BY <1>1 DEF SameEvent, SeatsOf
  <2>2. ASSUME NEW n \in 1 .. list[p].reservations
        PROVE  \/ SeatsOf(list[p], n) # {}
               \/ \E u \in Workers : Writes(u, p)' /\ reservation_id'[u] = n
    <3>1. CASE SeatsOf(list[p], n) # {}
      BY <3>1
    <3>2. CASE SeatsOf(list[p], n) = {}
      <4>1. PICK u \in Workers : Writes(u, p) /\ reservation_id[u] = n
        BY <1>0, <3>2 DEF NumberInv
      <4>2. u # w
        BY <1>4, <3>2, <4>1 DEF Writes
      <4> QED
        BY <1>5, <4>1, <4>2
    <3> QED
      BY <3>1, <3>2
  <2>3. \A i \in DOMAIN list[p].data : list[p].data[i] <= list[p].reservations
    BY <1>0 DEF NumberInv
  <2> QED
    BY <2>1, <2>2, <2>3 DEF SameEvent
<1>7. WriteInv'
  <2>1. \A v \in Workers : pc'[v] = "reserve_write" =>
           pc[v] = "reserve_write" /\ SameLocals(v)
    BY <1>2, <1>3 DEF SameLocals
  <2> QED
    BY <1>1, <2>1, WriteKept
<1>8. AnswerInv'
  <2> SUFFICES ASSUME NEW v \in Workers
               PROVE  GrantKept(v)' /\ CopyKept(v)' /\ ShownKept(v)'
    BY DEF AnswerInv
  <2>1. CASE v = w
    <3>1. CopyKept(w)' /\ ShownKept(w)'
      BY <1>2 DEF CopyKept, ShownKept, Shown
    <3>2. R \in 1 .. e.reservations
      BY <1>0, <1>2, EventType DEF WriteInv
    <3>3. \A u \in Workers : ~ Writes(u, event[w])'
      BY <1>2, <1>5, OneHolder DEF Writes, HoldsMutex
    <3>4. /\ SeatsOf(list'[event[w]], R) = SeatsOf(e, R)
          /\ Asked(list'[event[w]], call[w].seats) = Asked(e, call[w].seats)
          /\ list'[event[w]].reservations = e.reservations
      BY <1>1, <1>2 DEF SameEvent, SeatsOf, Asked, seat_index
    <3>5. GrantKept(w)'
      BY <1>1, <1>2, <1>4, <3>2, <3>3, <3>4 DEF GrantKept
    <3> QED
      BY <2>1, <3>1, <3>5
  <2>2. CASE v # w
    BY <1>1, <1>3, <1>5, <2>2, AnswerKept
  <2> QED
    BY <2>1, <2>2
<1> QED
  BY <1>6, <1>7, <1>8 DEF SeatInv

\* What ems_show answers is the event as it stands when the mutex is released.
LEMMA ShowSeats ==
  ASSUME IInv, PlaceInv, SeatInv, NEW w \in Workers,
         ShowHeader(w) \/ ShowCopy(w) \/ ShowUnlock(w)
  PROVE  GrantKept(w)' /\ CopyKept(w)' /\ ShownKept(w)'
<1> DEFINE e == list[event[w]]
<1>0. /\ Place(w) /\ CopyKept(w) /\ DOMAIN response_seats = Workers
      /\ DOMAIN reply = Workers /\ NumberInv
  BY DEF PlaceInv, SeatInv, AnswerInv
<1>1. /\ pc[w] \in {"show_header", "show_copy"} /\ call[w].op = "show"
      /\ call' = call /\ event' = event /\ event[w] \in DOMAIN list
      /\ pc \in [Workers -> PCs] /\ pos \in [Workers -> Nat]
  BY <1>0 DEF ShowHeader, ShowCopy, ShowUnlock, Goto, locals, Place, Shows, IInv,
     TypeOK, PointerInv, UsesEvent
<1>2. GrantKept(w)'
  BY <1>1 DEF GrantKept, Granted
<1>3. /\ e.rows \in Nat /\ e.cols \in Nat /\ e.reservations \in Nat
      /\ e.data \in [Cells(e.rows, e.cols) -> Nat]
  BY <1>1, EventType
<1>4. Cells(e.rows, e.cols) \subseteq Nat
  BY <1>3 DEF Cells
<1>5. CASE ShowHeader(w)
  <2>1. /\ response_seats'[w] = [i \in Cells(e.rows, e.cols) |-> 0]
        /\ pc'[w] = "show_copy" /\ pos'[w] = 0 /\ list' = list
    BY <1>0, <1>1, <1>5 DEF ShowHeader, Goto, Place, Loops, shared
  <2> QED
    BY <1>1, <1>2, <1>3, <1>4, <2>1 DEF CopyKept, ShownKept, Shown
<1>6. CASE ShowCopy(w)
  <2>1. /\ response_seats' = [response_seats EXCEPT ![w][pos[w]] = e.data[pos[w]]]
        /\ pc[w] = "show_copy" /\ pc'[w] = pc[w] /\ pos'[w] = pos[w] + 1 /\ list' = list
    BY <1>1, <1>6 DEF ShowCopy, shared
  <2>2. response_seats'[w] = [response_seats[w] EXCEPT ![pos[w]] = e.data[pos[w]]]
    BY <1>0, <2>1
  <2>3. response_seats[w] \in [DOMAIN e.data -> Nat] /\ pos[w] \in DOMAIN e.data
    BY <1>0, <1>3, <1>6, <2>1 DEF CopyKept, ShowCopy
  <2>4. ASSUME NEW i \in DOMAIN response_seats[w], i < pos[w] + 1
        PROVE  response_seats'[w][i] = e.data[i]
    <3>1. i \in Nat /\ pos[w] \in Nat
      BY <1>1, <1>3, <1>4, <2>3
    <3> QED
      BY <1>0, <2>1, <2>2, <2>4, <3>1 DEF CopyKept
  <2>5. response_seats'[w] \in [DOMAIN e.data -> Nat]
    BY <1>3, <2>2, <2>3
  <2> QED
    BY <1>1, <1>2, <2>1, <2>2, <2>3, <2>4, <2>5 DEF CopyKept, ShownKept, Shown
<1>7. CASE ShowUnlock(w)
  <2>1. /\ pc[w] = "show_copy" /\ pc'[w] = "return"
        /\ pos[w] \in Nat /\ pos[w] \notin Cells(e.rows, e.cols)
    BY <1>1, <1>7 DEF ShowUnlock, Goto
  <2>2. \/ reply'[w] = Lost
        \/ reply'[w] = [err |-> "ok", rows |-> e.rows, cols |-> e.cols,
                        seats |-> response_seats[w]]
    BY <1>0, <1>7 DEF ShowUnlock, Answer
  <2>3. CopyKept(w)'
    BY <2>1 DEF CopyKept
  <2>4. ShownKept(w)'
    <3> SUFFICES ASSUME Shown(w)' PROVE ShownKept(w)'
      BY DEF ShownKept
    <3>1. reply'[w].seats = response_seats[w]
      BY <2>2 DEF Shown
    <3>2. \A i \in Cells(e.rows, e.cols) : i < pos[w]
      BY <1>3, <2>1 DEF Cells
    <3>3. /\ response_seats[w] \in [DOMAIN e.data -> Nat]
          /\ \A i \in DOMAIN e.data : response_seats[w][i] = e.data[i]
      BY <1>0, <1>3, <2>1, <3>2 DEF CopyKept
    <3>4. DOMAIN list' = DOMAIN list /\ SameEvent(event[w])
      <4>1. ~ CreateAppend(w) /\ ~ ReserveNumber(w) /\ ~ ReserveWrite(w)
        BY <2>1 DEF CreateAppend, ReserveNumber, ReserveWrite, Goto
      <4> QED
        BY <1>1, <1>7, <4>1, QuietStep DEF Step
    <3>5. \A i \in DOMAIN e.data : e.data[i] \in 0 .. e.reservations
      BY <1>0, <1>1, <1>3 DEF NumberInv
    <3>6. \A v \in Workers : ~ Writes(v, event[w])'
      <4> SUFFICES ASSUME NEW v \in Workers, Writes(v, event[w])' PROVE FALSE
        BY <1>1
      <4>1. v # w
        BY <1>1, <2>1 DEF Writes
      <4>2. SameLocals(v)
        BY <1>7, <4>1, OthersStay DEF Step
      <4> QED
        BY <1>1, <2>1, <4>1, <4>2, OneHolder DEF Writes, SameLocals, HoldsMutex
    <3>7. ~ Torn(reply[w].seats, event[w])'
      BY <1>1, <3>1, <3>3, <3>4 DEF Torn, SameEvent
    <3> QED
      BY <1>1, <3>1, <3>3, <3>4, <3>5, <3>6, <3>7 DEF ShownKept, SameEvent
  <2> QED
    BY <1>2, <2>3, <2>4
<1> QED
  BY <1>5, <1>6, <1>7

\* Every other step leaves the seats alone: it answers an error, or it is not
\* at its answer yet.
LEMMA QuietSeats ==
  ASSUME IInv, PlaceInv, SeatInv, NEW w \in Workers, Invoke(w) \/ Step(w),
         ~ CreateAppend(w), ~ ReserveNumber(w), ~ ReserveWrite(w), ~ ReserveUnlock(w)
  PROVE  SeatInv'
<1>0. /\ Place(w) /\ pc \in [Workers -> PCs] /\ DOMAIN call = Workers
      /\ DOMAIN reply = Workers
  BY DEF IInv, TypeOK, PlaceInv
<1>1. DOMAIN list' = DOMAIN list /\ \A p \in DOMAIN list : SameEvent(p)
  BY QuietStep
<1>2. \A v \in Workers : v # w => SameLocals(v)
  BY OthersStay
<1>3. /\ pc[w] # "reserve_write" /\ pc'[w] # "reserve_write"
      /\ GrantKept(w)' /\ CopyKept(w)' /\ ShownKept(w)'
  <2> USE <1>0 DEF Goto, Answer, GrantKept, Granted, CopyKept, ShownKept, Shown
  <2>1. CASE Invoke(w)
    <3>1. PICK c \in Calls : pc[w] = "idle" /\ pc' = [pc EXCEPT ![w] = c.op]
      BY <2>1 DEF Invoke
    <3>2. c.op \in {"create", "reserve", "show", "list"}
      BY DEF Calls
    <3> QED
      BY <3>1, <3>2
  <2>2. CASE \/ CreateLock(w) \/ CreateReject(w) \/ CreateCount(w) \/ ReserveLock(w)
             \/ ReserveMutex(w) \/ ShowLock(w) \/ ShowMutex(w) \/ ListLock(w)
             \/ Return(w)
    BY <2>2 DEF CreateLock, CreateReject, CreateCount, ReserveLock, ReserveMutex,
       ShowLock, ShowMutex, ListLock, Return
  <2>3. CASE CreateUnlock(w) \/ ListUnlock(w)
    BY <2>3 DEF CreateUnlock, ListUnlock, Place, Creates, Lists, locals
  <2>4. CASE ReserveLookup(w) \/ ReserveReject(w)
    BY <2>4, RepliesDiffer DEF ReserveLookup, ReserveReject, Place, Reserving, locals
  <2>5. CASE ShowLookup(w) \/ ShowHeaderFails(w)
    BY <2>5, RepliesDiffer DEF ShowLookup, ShowHeaderFails, Place, Shows, locals
  <2> HIDE DEF Goto, Answer, GrantKept, Granted, CopyKept, ShownKept, Shown
  <2>6. CASE ShowHeader(w) \/ ShowCopy(w) \/ ShowUnlock(w)
    <3>1. pc[w] # "reserve_write" /\ pc'[w] # "reserve_write"
      BY <2>6 DEF ShowHeader, ShowCopy, ShowUnlock, Goto
    <3> QED
      BY <2>6, <3>1, ShowSeats
  <2> QED
    BY <2>1, <2>2, <2>3, <2>4, <2>5, <2>6 DEF Step
<1>4. NumberInv' /\ WriteInv'
  <2>1. /\ \A v \in Workers : pc'[v] = "reserve_write" <=> pc[v] = "reserve_write"
        /\ \A v \in Workers : pc[v] = "reserve_write" => SameLocals(v)
    BY <1>2, <1>3 DEF SameLocals
  <2> QED
    BY <1>1, <2>1, NumbersKept
<1>5. AnswerInv'
  <2>1. \A u \in Workers, p \in DOMAIN list :
           Writes(u, p)' => Writes(u, p) /\ reservation_id'[u] = reservation_id[u]
    BY <1>2, <1>3 DEF Writes, SameLocals
  <2>2. ASSUME NEW v \in Workers, v # w
        PROVE  GrantKept(v)' /\ CopyKept(v)' /\ ShownKept(v)'
    BY <1>1, <1>2, <2>1, <2>2, AnswerKept
  <2> QED
    BY <1>3, <2>2 DEF AnswerInv
<1> QED
  BY <1>4, <1>5 DEF SeatInv

LEMMA SeatStep ==
  ASSUME IInv, PlaceInv, SeatInv, [Next]_vars PROVE SeatInv'
<1>1. ASSUME NEW w \in Workers, Invoke(w) \/ Step(w) PROVE SeatInv'
  BY <1>1, AppendSeats, NumberSeats, WriteSeats, UnlockSeats, QuietSeats
<1>2. CASE ShowEMS \/ Finished \/ UNCHANGED vars
  <2>1. UNCHANGED <<list, pc, call, reply, event, pos, reservation_id, response_seats>>
    BY <1>2, NobodyMoves
  <2>2. /\ \A p \in DOMAIN list : SameEvent(p)
        /\ \A v \in Workers : SameLocals(v)
        /\ \A u \in Workers, p \in DOMAIN list :
              Writes(u, p)' => Writes(u, p) /\ reservation_id'[u] = reservation_id[u]
    BY <2>1 DEF SameEvent, SameLocals, Writes
  <2>3. NumberInv' /\ WriteInv'
    BY <2>1, <2>2, NumbersKept
  <2>4. AnswerInv'
    BY <2>1, <2>2, AnswerKept DEF AnswerInv
  <2> QED
    BY <2>3, <2>4 DEF SeatInv
<1> QED
  BY <1>1, <1>2 DEF Next

LEMMA SeatInvariantHolds == Spec => [](IInv /\ ListInv /\ PlaceInv /\ SeatInv)
<1>1. Init => IInv /\ ListInv /\ PlaceInv /\ SeatInv
  BY InitInv, ListInit, SeatInit
<1>2. IInv /\ ListInv /\ PlaceInv /\ SeatInv /\ [Next]_vars
        => IInv' /\ ListInv' /\ PlaceInv' /\ SeatInv'
  BY StepInvariant, LockStep, CountStep, PrinterStep, PlaceStep, SeatStep DEF ListInv
<1> QED
  BY <1>1, <1>2, PTL DEF Spec

-----------------------------------------------------------------------------
(* The theorems.                                                           *)

\* When nobody holds the mutex of an event, the numbers in its seats are
\* exactly 1 .. reservations: no number that ems_reserve handed out is lost,
\* so the counter never exceeds the number of seats.
THEOREM NumbersAreSeats == Spec => []NumbersMatchSeats
<1>1. ASSUME IInv, NumberInv, NEW p \in DOMAIN list, ~ Held(p)
      PROVE  Given(p) = 1 .. list[p].reservations
  <2> DEFINE e == list[p]
  <2>1. /\ e.reservations \in Nat
        /\ e.data \in [Cells(e.rows, e.cols) -> Nat]
    BY <1>1, EventType
  <2>2. \A v \in Workers : ~ Writes(v, p)
    BY <1>1, ThreadsAssumption DEF Writes, Held, IInv, MutexInv, HoldsMutex
  <2>3. \A i \in DOMAIN e.data : e.data[i] \in Nat /\ e.data[i] <= e.reservations
    BY <1>1, <2>1 DEF NumberInv
  <2>4. \A n \in 1 .. e.reservations : \E i \in DOMAIN e.data : e.data[i] = n
    BY <1>1, <2>2 DEF NumberInv, SeatsOf
  <2>5. \A x : x \in Given(p) <=> x # 0 /\ \E i \in DOMAIN e.data : e.data[i] = x
    BY DEF Given
  <2> HIDE DEF e
  <2>6. ASSUME NEW x PROVE x \in Given(p) <=> x \in 1 .. e.reservations
    <3>1. ASSUME x \in Given(p) PROVE x \in 1 .. e.reservations
      BY <2>1, <2>3, <2>5, <3>1
    <3>2. ASSUME x \in 1 .. e.reservations PROVE x \in Given(p)
      <4>1. x # 0
        BY <2>1, <3>2
      <4> QED
        BY <2>4, <2>5, <3>2, <4>1
    <3> QED
      BY <3>1, <3>2
  <2>7. Given(p) = 1 .. e.reservations
    BY <2>6
  <2> QED
    BY <2>7 DEF e
<1>2. IInv /\ NumberInv => NumbersMatchSeats
  BY <1>1 DEF NumbersMatchSeats
<1> QED
  BY <1>2, SeatInvariantHolds, PTL DEF SeatInv

\* A reservation that ems_reserve granted owns exactly the seats it asked
\* for, and ems_show never answers with a part of a reservation, whatever the
\* interleaving of the threads.
THEOREM ReservationsStayWhole == Spec => []ReservationsAreWhole
<1>1. AnswerInv => ReservationsAreWhole
  BY DEF AnswerInv, GrantKept, Granted, ShownKept, Shown, SeatsOf,
     ReservationsAreWhole, GrantedExactly, ShowsWholeReservations
<1> QED
  BY <1>1, SeatInvariantHolds, PTL DEF SeatInv

-----------------------------------------------------------------------------
(***************************************************************************)
(* Proof that EventStore implements EventStoreAbs, for any number of       *)
(* threads, events, seats and calls: every step of a thread is one step of *)
(* the abstract specification or changes nothing that it shows.            *)
(*                                                                         *)
(* A reservation takes effect when its mutex is released: until then       *)
(* AbsEvent hides its number, and the seats that carry it count as free.   *)
(***************************************************************************)

-----------------------------------------------------------------------------
(* The events that the refinement mapping shows.                           *)

\* Nobody writes to the event: it is shown as it is.
LEMMA ShownAsItIs ==
  ASSUME IInv, SeatInv, NEW p \in DOMAIN list, ~ Writing(p)
  PROVE  /\ AbsEvent(p).id = list[p].id /\ AbsEvent(p).rows = list[p].rows
         /\ AbsEvent(p).cols = list[p].cols
         /\ AbsEvent(p).reservations = list[p].reservations
         /\ AbsEvent(p).data = list[p].data
<1> DEFINE e == list[p]
<1>1. e.reservations \in Nat /\ e.data \in [Cells(e.rows, e.cols) -> Nat]
  BY EventType
<1>2. \A i \in DOMAIN e.data : ~ (e.data[i] > e.reservations)
  BY <1>1 DEF SeatInv, NumberInv
<1>3. [i \in DOMAIN e.data |-> IF e.data[i] > e.reservations THEN 0 ELSE e.data[i]]
        = e.data
  BY <1>1, <1>2
<1> QED
  BY <1>3 DEF AbsEvent

LEMMA IdentityShown ==
  ASSUME NEW p \in DOMAIN list
  PROVE  /\ AbsEvent(p).id = list[p].id /\ AbsEvent(p).rows = list[p].rows
         /\ AbsEvent(p).cols = list[p].cols
         /\ DOMAIN AbsEvent(p).data = DOMAIN list[p].data
BY DEF AbsEvent

LEMMA SameShown ==
  ASSUME NEW p, SameEvent(p), Writing(p)' <=> Writing(p)
  PROVE  AbsEvent(p)' = AbsEvent(p)
BY DEF AbsEvent, SameEvent

\* Only the owner of the mutex writes to an event.
LEMMA OwnerWrites ==
  ASSUME IInv, NEW w \in Workers, pc[w] \in HoldsMutex
  PROVE  Writing(event[w]) <=> pc[w] = "reserve_write"
BY OneHolder DEF Writing, HoldsMutex

\* What the abstract specification sees of a step that starts and ends no
\* reservation.
LEMMA SameView ==
  ASSUME IInv, PlaceInv, NEW w \in Workers, Invoke(w) \/ Step(w),
         ~ CreateAppend(w), ~ ReserveNumber(w), ~ ReserveWrite(w), ~ ReserveUnlock(w)
  PROVE  /\ DOMAIN list' = DOMAIN list
         /\ \A p \in DOMAIN list : AbsEvent(p)' = AbsEvent(p)
<1>1. DOMAIN list' = DOMAIN list /\ \A p \in DOMAIN list : SameEvent(p)
  BY QuietStep
<1>2. \A v \in Workers : v # w => SameLocals(v)
  BY OthersStay
<1>3. pc[w] # "reserve_write" /\ pc'[w] # "reserve_write"
  <2>1. pc \in [Workers -> PCs]
    BY DEF IInv, TypeOK
  <2>2. CASE Invoke(w)
    <3>1. PICK c \in Calls : pc[w] = "idle" /\ pc' = [pc EXCEPT ![w] = c.op]
      BY <2>2 DEF Invoke, Goto
    <3>2. c.op \in {"create", "reserve", "show", "list"}
      BY DEF Calls
    <3> QED
      BY <2>1, <3>1, <3>2
  <2>3. CASE Step(w)
    BY <2>1, <2>3 DEF Step, CreateLock, CreateReject, CreateCount, CreateUnlock,
       ReserveLock, ReserveLookup, ReserveMutex, ReserveReject, ShowLock, ShowLookup,
       ShowMutex, ShowHeader, ShowHeaderFails, ShowCopy, ShowUnlock, ListLock,
       ListUnlock, Return, Goto
  <2> QED
    BY <2>2, <2>3
<1>4. \A p \in DOMAIN list : Writing(p)' <=> Writing(p)
  BY <1>2, <1>3 DEF Writing, SameLocals
<1> QED
  BY <1>1, <1>4, SameShown

\* The number of a reservation that starts is not shown yet.
LEMMA NumberView ==
  ASSUME IInv, PlaceInv, SeatInv, NEW w \in Workers, ReserveNumber(w)
  PROVE  /\ DOMAIN list' = DOMAIN list
         /\ \A p \in DOMAIN list : AbsEvent(p)' = AbsEvent(p)
<1>1. /\ event[w] \in DOMAIN list /\ list[event[w]].reservations \in Nat
      /\ DOMAIN list' = DOMAIN list
      /\ list'[event[w]].reservations = list[event[w]].reservations + 1
      /\ \A q \in DOMAIN list :
           /\ list'[q].id = list[q].id /\ list'[q].rows = list[q].rows
           /\ list'[q].cols = list[q].cols /\ list'[q].data = list[q].data
           /\ q # event[w] => list'[q] = list[q]
  BY NumberStep
<1>2. pc[w] = "reserve_check" /\ pc'[w] = "reserve_write" /\ event'[w] = event[w]
  BY DEF ReserveNumber, Goto, IInv, TypeOK
<1>3. \A v \in Workers : v # w => SameLocals(v)
  BY OthersStay DEF Step
<1>4. ASSUME NEW p \in DOMAIN list, p # event[w] PROVE AbsEvent(p)' = AbsEvent(p)
  <2>1. Writing(p)' <=> Writing(p)
    BY <1>2, <1>3, <1>4 DEF Writing, SameLocals
  <2> QED
    BY <1>1, <1>4, <2>1, SameShown DEF SameEvent
<1>5. ASSUME NEW p \in DOMAIN list, p = event[w] PROVE AbsEvent(p)' = AbsEvent(p)
  <2>1. ~ Writing(p) /\ Writing(p)'
    BY <1>2, <1>5, OwnerWrites DEF HoldsMutex, Writing
  <2>2. /\ list'[p].reservations - 1 = list[p].reservations
        /\ list'[p].id = list[p].id /\ list'[p].rows = list[p].rows
        /\ list'[p].cols = list[p].cols /\ list'[p].data = list[p].data
    BY <1>1, <1>5
  <2> QED
    BY <2>1, <2>2 DEF AbsEvent
<1> QED
  BY <1>1, <1>4, <1>5

\* The seats that a reservation has written so far are not shown yet.
LEMMA WriteView ==
  ASSUME IInv, PlaceInv, SeatInv, NEW w \in Workers, ReserveWrite(w)
  PROVE  /\ DOMAIN list' = DOMAIN list
         /\ \A p \in DOMAIN list : AbsEvent(p)' = AbsEvent(p)
<1> DEFINE e == list[event[w]]  f == list'[event[w]]  R == reservation_id[w]
           i == seat_index(e, call[w].seats[pos[w]])
<1>1. /\ event[w] \in DOMAIN list /\ pos[w] \in DOMAIN call[w].seats
      /\ DOMAIN list' = DOMAIN list
      /\ f.data = [e.data EXCEPT ![i] = R]
      /\ \A q \in DOMAIN list :
           /\ list'[q].id = list[q].id /\ list'[q].rows = list[q].rows
           /\ list'[q].cols = list[q].cols
           /\ list'[q].reservations = list[q].reservations
           /\ q # event[w] => list'[q] = list[q]
  BY WriteStep
<1>2. pc[w] = "reserve_write" /\ pc' = pc /\ event' = event
  BY DEF ReserveWrite
<1>3. \A p : Writing(p)' <=> Writing(p)
  BY <1>2 DEF Writing
<1>4. ASSUME NEW p \in DOMAIN list, p # event[w] PROVE AbsEvent(p)' = AbsEvent(p)
  BY <1>1, <1>3, <1>4, SameShown DEF SameEvent
<1>5. ASSUME NEW p \in DOMAIN list, p = event[w] PROVE AbsEvent(p)' = AbsEvent(p)
  <2>1. Writing(p) /\ Writing(p)'
    BY <1>2, <1>5 DEF Writing
  <2>2. R = e.reservations /\ R \in Nat /\ R >= 1
    BY <1>1, <1>2, EventType DEF SeatInv, WriteInv
  <2>3. i \in DOMAIN e.data => e.data[i] \in {0, R}
    BY <1>1, <1>2 DEF IInv, ReserveInv
  <2> HIDE DEF i
  <2>4. DOMAIN f.data = DOMAIN e.data
    BY <1>1
  <2>5. ASSUME NEW j \in DOMAIN e.data
        PROVE  (IF f.data[j] > R - 1 THEN 0 ELSE f.data[j])
                 = (IF e.data[j] > R - 1 THEN 0 ELSE e.data[j])
    BY <1>1, <2>2, <2>3
  <2>6. [j \in DOMAIN f.data |-> IF f.data[j] > R - 1 THEN 0 ELSE f.data[j]]
          = [j \in DOMAIN e.data |-> IF e.data[j] > R - 1 THEN 0 ELSE e.data[j]]
    BY <2>4, <2>5
  <2>7. /\ list[p].reservations = R /\ list'[p].reservations = R
        /\ list'[p].id = list[p].id /\ list'[p].rows = list[p].rows
        /\ list'[p].cols = list[p].cols /\ f = list'[p] /\ e = list[p]
    BY <1>1, <1>5, <2>2
  <2> HIDE DEF e, f, R
  <2> QED
    BY <2>1, <2>6, <2>7 DEF AbsEvent
<1> QED
  BY <1>1, <1>4, <1>5

-----------------------------------------------------------------------------
(* Each step of a worker is a step of the abstract specification.          *)

LEMMA InvokeSimulates ==
  ASSUME IInv, PlaceInv, NEW w \in Workers, Invoke(w) PROVE Abs!Invoke(w)
<1>1. ~ CreateAppend(w) /\ ~ ReserveNumber(w) /\ ~ ReserveWrite(w) /\ ~ ReserveUnlock(w)
  <2>1. pc[w] = "idle"
    BY DEF Invoke, Goto
  <2> QED
    BY <2>1 DEF CreateAppend, ReserveNumber, ReserveWrite, ReserveUnlock, Goto
<1>2. /\ DOMAIN list' = DOMAIN list
      /\ \A p \in DOMAIN list : AbsEvent(p)' = AbsEvent(p)
  BY <1>1, SameView
<1>3. call[w] = NoCall /\ \E c \in Calls : call' = [call EXCEPT ![w] = c]
  BY DEF Invoke, Goto, PlaceInv, Place
<1>4. reply' = reply
  BY DEF Invoke
<1> QED
  BY <1>2, <1>3, <1>4 DEF Abs!Invoke, Abs!NoCall, NoCall, Abs!Calls, Calls

LEMMA ReturnSimulates ==
  ASSUME IInv, PlaceInv, NEW w \in Workers, Return(w) PROVE Abs!Return(w)
<1>1. ~ CreateAppend(w) /\ ~ ReserveNumber(w) /\ ~ ReserveWrite(w) /\ ~ ReserveUnlock(w)
  BY DEF Return, CreateAppend, ReserveNumber, ReserveWrite, ReserveUnlock, Goto
<1>2. /\ DOMAIN list' = DOMAIN list
      /\ \A p \in DOMAIN list : AbsEvent(p)' = AbsEvent(p)
  BY <1>1, SameView DEF Step
<1>3. reply[w] # NoReply
  BY DEF Return, Goto, PlaceInv, Place, Answered
<1> QED
  BY <1>2, <1>3 DEF Return, Answer, Abs!Return, Abs!NoCall, NoCall, Abs!NoReply, NoReply

\* The answer of a call that leaves what is shown alone.
LEMMA AnswerView ==
  ASSUME IInv, PlaceInv, NEW w \in Workers, Step(w),
         ~ CreateAppend(w), ~ ReserveNumber(w), ~ ReserveWrite(w), ~ ReserveUnlock(w),
         UNCHANGED call
  PROVE  /\ UNCHANGED [p \in DOMAIN list |-> AbsEvent(p)]
         /\ \A r : Answer(w, r) => Abs!Answer(w, r)
<1>1. /\ DOMAIN list' = DOMAIN list
      /\ \A p \in DOMAIN list : AbsEvent(p)' = AbsEvent(p)
  BY SameView
<1> QED
  BY <1>1 DEF Answer, Abs!Answer

\* An identifier that get_event does not find is not shown.
LEMMA NotFound ==
  ASSUME IInv, NEW id, get_event(id) = 0
  PROVE  \A p \in DOMAIN list : AbsEvent(p).id # id
BY GetEventType, IdentityShown DEF Matches

\* A function that extends a sequence by one element appends it.
LEMMA ExtendIsAppend ==
  ASSUME NEW S, NEW s \in Seq(S), NEW x, NEW g, g = [i \in DOMAIN g |-> g[i]],
         DOMAIN g = 1 .. (Len(s) + 1), g[Len(s) + 1] = x,
         \A i \in 1 .. Len(s) : g[i] = s[i]
  PROVE  g = Append(s, x)
<1> DEFINE T == S \cup {x}
<1>1. s \in Seq(T) /\ x \in T /\ Len(s) \in Nat
  OBVIOUS
<1>2. \A i \in 1 .. (Len(s) + 1) : g[i] \in T
  BY <1>1
<1>3. g \in Seq(T) /\ Len(g) = Len(s) + 1
  BY <1>1, <1>2
<1>4. /\ Append(s, x) \in Seq(T) /\ Len(Append(s, x)) = Len(s) + 1
      /\ \A i \in 1 .. Len(s) : Append(s, x)[i] = s[i]
      /\ Append(s, x)[Len(s) + 1] = x
  BY <1>1, AppendProperties
<1>5. \A i \in 1 .. Len(g) : g[i] = Append(s, x)[i]
  BY <1>1, <1>3, <1>4
<1> QED
  BY <1>3, <1>4, <1>5, SeqEqual

LEMMA CreateSimulates ==
  ASSUME IInv, PlaceInv, SeatInv, NEW w \in Workers, CreateReject(w) \/ CreateAppend(w)
  PROVE  Abs!Create(w)
<1>0. call[w].op = "create" /\ reply[w] = NoReply /\ call' = call
  BY DEF CreateReject, CreateAppend, Goto, locals, PlaceInv, Place, Creates, Answered
<1>1. CASE CreateReject(w)
  <2>1. ~ CreateAppend(w) /\ ~ ReserveNumber(w) /\ ~ ReserveWrite(w) /\ ~ ReserveUnlock(w)
    <3>1. list' = list
      BY <1>1 DEF CreateReject, shared
    <3>2. list \in Seq(Event)
      BY DEF IInv, TypeOK
    <3>3. Len(list) \in Nat /\ Len(list) # Len(list) + 1
      BY <3>2
    <3>4. ~ CreateAppend(w)
      BY <3>1, <3>3, AppendStep
    <3> QED
      BY <1>1, <3>4 DEF CreateReject, ReserveNumber, ReserveWrite, ReserveUnlock, Goto
  <2>2. Answer(w, Failure)
    BY <1>1 DEF CreateReject
  <2>3. /\ UNCHANGED [p \in DOMAIN list |-> AbsEvent(p)]
        /\ Abs!Answer(w, Failure)
    BY <1>0, <1>1, <2>1, <2>2, AnswerView DEF Step
  <2> QED
    BY <1>0, <2>3 DEF Abs!Create, Abs!Pending, Abs!NoReply, NoReply, Abs!Failure, Failure
<1>2. CASE CreateAppend(w)
  <2> DEFINE n == Len(list)  e == NewEvent(call[w].id, call[w].shape)
             F == [p \in DOMAIN list |-> AbsEvent(p)]
             G == [p \in DOMAIN list' |-> AbsEvent(p)']
             S == {AbsEvent(p) : p \in DOMAIN list}
             a == [id |-> call[w].id, rows |-> call[w].shape[1],
                   cols |-> call[w].shape[2], reservations |-> 0,
                   data |-> [i \in Cells(call[w].shape[1], call[w].shape[2]) |-> 0]]
  <2>1. /\ DOMAIN list = 1 .. n /\ n \in Nat
        /\ DOMAIN list' = 1 .. (n + 1) /\ list'[n + 1] = e
        /\ \A p \in DOMAIN list : list'[p] = list[p]
    <3>1. list \in Seq(Event)
      BY DEF IInv, TypeOK
    <3> QED
      BY <1>2, <3>1, AppendStep
  <2>2. /\ \A v \in Workers : v # w => SameLocals(v)
        /\ pc[w] = "create_lookup" /\ pc'[w] = "create_count"
    <3>1. \A v \in Workers : v # w => SameLocals(v)
      BY <1>2, OthersStay DEF Step
    <3> QED
      BY <1>2, <3>1 DEF CreateAppend, Goto, IInv, TypeOK
  <2>3. \A p \in DOMAIN list : AbsEvent(p)' = AbsEvent(p)
    <3>1. \A p \in DOMAIN list : Writing(p)' <=> Writing(p)
      BY <2>2 DEF Writing, SameLocals
    <3> QED
      BY <2>1, <3>1, SameShown DEF SameEvent
  <2>4. ASSUME NEW p, p = n + 1 PROVE AbsEvent(p)' = a
    <3>1. ~ Writing(p)'
      <4>1. ASSUME NEW v \in Workers, pc'[v] = "reserve_write", event'[v] = p PROVE FALSE
        <5>1. v # w /\ pc[v] = "reserve_write" /\ event[v] = p
          BY <2>2, <4>1 DEF SameLocals
        <5> QED
          BY <2>1, <2>4, <5>1 DEF IInv, PointerInv, UsesEvent
      <4> QED
        BY <4>1 DEF Writing
    <3>2. list'[p] = e
      BY <2>1, <2>4
    <3>3. \A i \in DOMAIN e.data : ~ (e.data[i] > e.reservations)
      BY DEF NewEvent
    <3> QED
      BY <3>1, <3>2, <3>3 DEF AbsEvent, NewEvent
  <2>5. ~ \E p \in DOMAIN F : F[p].id = call[w].id
    BY <1>2, NotFound DEF CreateAppend
  <2>6. F \in Seq(S) /\ Len(F) = n
    BY <2>1
  <2>7. G = Append(F, a)
    <3> HIDE DEF a
    <3>1. DOMAIN G = 1 .. (n + 1) /\ G[n + 1] = a /\ \A p \in 1 .. n : G[p] = F[p]
      BY <2>1, <2>3, <2>4
    <3>2. G = [i \in DOMAIN G |-> G[i]]
      OBVIOUS
    <3> HIDE DEF F, G
    <3> QED
      BY <2>6, <3>1, <3>2, ExtendIsAppend
  <2>8. Answer(w, Success)
    BY <1>2 DEF CreateAppend
  <2> QED
    BY <1>0, <2>5, <2>7, <2>8 DEF Answer, Abs!Create, Abs!Pending, Abs!Exists,
       Abs!Answer, Abs!Cells, Cells, Abs!NoReply, NoReply, Abs!Success, Success
<1> QED
  BY <1>1, <1>2

\* A reservation is refused for a reason that the abstract events show.
LEMMA RefuseSimulates ==
  ASSUME IInv, PlaceInv, SeatInv, NEW w \in Workers,
         (ReserveLookup(w) /\ get_event(call[w].id) = 0) \/ ReserveReject(w)
  PROVE  Abs!Reserve(w)
<1>0. call[w].op = "reserve" /\ reply[w] = NoReply /\ call' = call
  BY DEF ReserveLookup, ReserveReject, Goto, locals, PlaceInv, Place, Reserving, Answered
<1>1. ~ CreateAppend(w) /\ ~ ReserveNumber(w) /\ ~ ReserveWrite(w) /\ ~ ReserveUnlock(w)
  BY DEF ReserveLookup, ReserveReject, CreateAppend, ReserveNumber, ReserveWrite,
     ReserveUnlock, Goto
<1>2. Answer(w, Failure)
  <2>1. CASE ReserveReject(w)
    BY <2>1 DEF ReserveReject
  <2>2. CASE ReserveLookup(w) /\ get_event(call[w].id) = 0
    <3>1. DOMAIN event = Workers
      BY DEF IInv, TypeOK
    <3> QED
      BY <2>2, <3>1 DEF ReserveLookup
  <2> QED
    BY <2>1, <2>2
<1>3. /\ UNCHANGED [p \in DOMAIN list |-> AbsEvent(p)]
      /\ Abs!Answer(w, Failure)
  BY <1>0, <1>1, <1>2, AnswerView DEF Step
<1>4. ASSUME NEW p \in DOMAIN list, AbsEvent(p).id = call[w].id
      PROVE  \E k \in DOMAIN call[w].seats :
               LET s == call[w].seats[k]
               IN  \/ ~ Abs!InBounds(AbsEvent(p), s)
                   \/ AbsEvent(p).data[Abs!Index(AbsEvent(p), s)] # 0
  <2>1. ReserveReject(w)
    BY <1>4, NotFound
  <2>2. /\ pc[w] = "reserve_check" /\ event[w] \in DOMAIN list
        /\ list[event[w]].id = call[w].id /\ ~ CanReserve(list[event[w]], call[w].seats)
    BY <2>1 DEF ReserveReject, Goto, PlaceInv, Place, IInv, PointerInv, UsesEvent
  <2>3. p = event[w]
    BY <1>4, <2>2, IdentityShown DEF IInv, UniqueInv
  <2>4. ~ Writing(p)
    BY <2>2, <2>3, OwnerWrites DEF HoldsMutex
  <2>5. /\ AbsEvent(p).rows = list[p].rows /\ AbsEvent(p).cols = list[p].cols
        /\ AbsEvent(p).data = list[p].data
    BY <2>4, ShownAsItIs
  <2>6. \A k \in DOMAIN call[w].seats :
           call[w].seats[k][1] \in Nat /\ call[w].seats[k][2] \in Nat
    BY <2>2, SeatsType DEF Reserving
  <2>7. CASE \E k \in DOMAIN call[w].seats : ~ InBounds(list[p], call[w].seats[k])
    <3>1. PICK k \in DOMAIN call[w].seats : ~ InBounds(list[p], call[w].seats[k])
      BY <2>7
    <3>2. list[p].rows \in Nat /\ list[p].cols \in Nat
      BY EventType
    <3>3. ~ Abs!InBounds(AbsEvent(p), call[w].seats[k])
      BY <2>5, <2>6, <3>1, <3>2 DEF InBounds, Abs!InBounds
    <3> QED
      BY <3>3
  <2>8. CASE \E i \in Asked(list[p], call[w].seats) : list[p].data[i] # 0
    <3>1. PICK k \in DOMAIN call[w].seats :
                 list[p].data[seat_index(list[p], call[w].seats[k])] # 0
      BY <2>8 DEF Asked
    <3>2. Abs!Index(AbsEvent(p), call[w].seats[k])
            = seat_index(list[p], call[w].seats[k])
      BY <2>5 DEF Abs!Index, seat_index
    <3> QED
      BY <2>5, <3>1, <3>2
  <2> QED
    BY <2>2, <2>3, <2>7, <2>8 DEF CanReserve
<1>5. Abs!Refuse(w)
  BY <1>3, <1>4 DEF Abs!Refuse, Abs!Failure, Failure
<1> QED
  BY <1>0, <1>5 DEF Abs!Reserve, Abs!Pending, Abs!NoReply, NoReply

\* A reservation is granted when its mutex is released: its number appears,
\* in all of its seats at once.
LEMMA GrantSimulates ==
  ASSUME IInv, PlaceInv, SeatInv, NEW w \in Workers, ReserveUnlock(w),
         NEW p \in DOMAIN list, p = event[w]
  PROVE  Abs!Reserve(w)
<1> DEFINE e == list[p]  seats == call[w].seats  R == reservation_id[w]
           F == [q \in DOMAIN list |-> AbsEvent(q)]
           G == [q \in DOMAIN list' |-> AbsEvent(q)']
           d == [i \in DOMAIN e.data |->
                   IF i \in Asked(e, seats) THEN R ELSE AbsEvent(p).data[i]]
<1>0. call[w].op = "reserve" /\ reply[w] = NoReply /\ call' = call
  BY DEF ReserveUnlock, Goto, locals, PlaceInv, Place, Reserving, Answered
<1>1. DOMAIN list' = DOMAIN list /\ \A q \in DOMAIN list : SameEvent(q)
  <2>1. ~ CreateAppend(w) /\ ~ ReserveNumber(w) /\ ~ ReserveWrite(w)
    BY DEF ReserveUnlock, CreateAppend, ReserveNumber, ReserveWrite, Goto
  <2> QED
    BY <2>1, QuietStep DEF Step
<1>2. /\ pc[w] = "reserve_write" /\ pc'[w] = "return" /\ event' = event
      /\ e.id = call[w].id
  BY DEF ReserveUnlock, Goto, locals, IInv, TypeOK, PointerInv, PlaceInv, Place, UsesEvent
<1>3. /\ R = e.reservations /\ R \in Nat /\ R >= 1
      /\ \A k \in DOMAIN seats : InBounds(e, seats[k])
      /\ SeatsOf(e, R) = Asked(e, seats)
      /\ \A i \in DOMAIN e.data : e.data[i] \in Nat /\ e.data[i] <= R
  BY <1>2, WrittenAll, EventType DEF SeatInv, WriteInv, NumberInv
<1>4. \A v \in Workers : v # w => SameLocals(v)
  BY OthersStay DEF Step
<1>5. /\ AbsEvent(p).id = e.id /\ AbsEvent(p).rows = e.rows /\ AbsEvent(p).cols = e.cols
      /\ AbsEvent(p).reservations = R - 1
      /\ AbsEvent(p).data = [i \in DOMAIN e.data |->
                               IF e.data[i] > R - 1 THEN 0 ELSE e.data[i]]
  <2>1. Writing(p)
    BY <1>2 DEF Writing
  <2> QED
    BY <1>3, <2>1 DEF AbsEvent
<1>6. ASSUME NEW q \in DOMAIN list, q # p PROVE AbsEvent(q)' = AbsEvent(q)
  <2>1. Writing(q)' <=> Writing(q)
    BY <1>2, <1>4, <1>6 DEF Writing, SameLocals
  <2> QED
    BY <1>1, <2>1, SameShown
<1>7. ASSUME NEW q \in DOMAIN list, q = p
      PROVE  AbsEvent(q)' = [id |-> e.id, rows |-> e.rows, cols |-> e.cols,
                             reservations |-> R, data |-> d]
  <2>1. ~ Writing(q)'
    <3> SUFFICES ASSUME NEW v \in Workers, pc'[v] = "reserve_write", event'[v] = q
                 PROVE  FALSE
      BY DEF Writing
    <3>1. v # w /\ pc[v] = "reserve_write" /\ event[v] = p
      BY <1>2, <1>4, <1>7 DEF SameLocals
    <3> QED
      BY <1>2, <3>1, OneHolder DEF HoldsMutex
  <2>2. SameEvent(q)
    BY <1>1
  <2>3. \A i \in DOMAIN e.data : i \in Asked(e, seats) <=> e.data[i] = R
    BY <1>3 DEF SeatsOf
  <2>4. \A i \in DOMAIN e.data :
           (IF e.data[i] > R THEN 0 ELSE e.data[i]) = d[i]
    BY <1>3, <1>5, <2>3
  <2>5. [i \in DOMAIN e.data |-> IF e.data[i] > R THEN 0 ELSE e.data[i]] = d
    BY <2>4
  <2> HIDE DEF d
  <2> QED
    BY <1>3, <1>7, <2>1, <2>2, <2>5 DEF AbsEvent, SameEvent
<1>8. Abs!Grant(w, p)
  <2>1. \A k \in DOMAIN seats : Abs!InBounds(F[p], seats[k])
    <3>1. \A k \in DOMAIN seats : seats[k][1] \in Nat /\ seats[k][2] \in Nat
      BY <1>2, SeatsType DEF Reserving
    <3>2. e.rows \in Nat /\ e.cols \in Nat
      BY <1>2, EventType
    <3> QED
      BY <1>2, <1>3, <1>5, <3>1, <3>2 DEF InBounds, Abs!InBounds
  <2>2. Abs!Asked(F[p], seats) = Asked(e, seats)
    BY <1>2, <1>5 DEF Abs!Asked, Asked, Abs!Index, seat_index
  <2>3. \A i \in Asked(e, seats) : F[p].data[i] = 0
    BY <1>2, <1>3, <1>5 DEF SeatsOf
  <2>4. G = [F EXCEPT ![p].reservations = @ + 1,
                      ![p].data = [i \in DOMAIN @ |->
                         IF i \in Abs!Asked(F[p], seats)
                         THEN F[p].reservations + 1 ELSE @[i]]]
    <3>1. DOMAIN F[p].data = DOMAIN e.data /\ F[p].reservations + 1 = R
      BY <1>2, <1>3, <1>5
    <3>2. [i \in DOMAIN F[p].data |->
             IF i \in Abs!Asked(F[p], seats)
             THEN F[p].reservations + 1 ELSE F[p].data[i]] = d
      <4> HIDE DEF F
      <4>1. F[p] = AbsEvent(p)
        BY DEF F
      <4> QED
        BY <2>2, <3>1, <4>1
    <3>3. F[p] = [id |-> e.id, rows |-> e.rows, cols |-> e.cols,
                  reservations |-> R - 1, data |-> F[p].data]
      BY <1>2, <1>5 DEF AbsEvent
    <3>4. G[p] = [F[p] EXCEPT !.reservations = R, !.data = d]
      <4> DEFINE T == [id : {e.id}, rows : {e.rows}, cols : {e.cols},
                       reservations : {R - 1, R}, data : {F[p].data, d}]
                 s == [F[p] EXCEPT !.reservations = R]
                 t == [s EXCEPT !.data = d]
                 r == [id |-> e.id, rows |-> e.rows, cols |-> e.cols,
                       reservations |-> R, data |-> d]
      <4>1. G[p] = r
        BY <1>1, <1>7
      <4> HIDE DEF d, G, F, e, R
      <4>2. F[p] \in T
        BY <3>3
      <4>3. s \in T /\ s.reservations = R
        BY <4>2
      <4> HIDE DEF s
      <4>4. /\ t \in T /\ t.reservations = R /\ t.data = d
            /\ t.id = e.id /\ t.rows = e.rows /\ t.cols = e.cols
        BY <4>3
      <4> HIDE DEF t
      <4>5. t = r
        BY <4>4
      <4> HIDE DEF r
      <4> QED
        BY <4>1, <4>5 DEF s, t
    <3>5. G = [F EXCEPT ![p] = [F[p] EXCEPT !.reservations = R, !.data = d]]
      BY <1>1, <1>2, <1>6, <3>4
    <3> HIDE DEF d, G, F
    <3> QED
      BY <3>1, <3>2, <3>5
  <2>5. Answer(w, Success)
    BY DEF ReserveUnlock
  <2>6. F[p].id = call[w].id
    BY <1>2, <1>5
  <2>7. Abs!Answer(w, Abs!Success)
    BY <1>0, <2>5 DEF Answer, Abs!Answer, Abs!Success, Success
  <2>8. \A i \in Abs!Asked(F[p], seats) : F[p].data[i] = 0
    BY <2>2, <2>3
  <2>9. G = [q \in DOMAIN list |-> AbsEvent(q)]'
    OBVIOUS
  <2> HIDE DEF G
  <2> QED
    BY <2>1, <2>6, <2>7, <2>4, <2>8, <2>9 DEF Abs!Grant
<1> QED
  BY <1>0, <1>2, <1>8 DEF Abs!Reserve, Abs!Pending, Abs!NoReply, NoReply

\* ems_show answers with the event as the abstract specification shows it.
LEMMA ShowSimulates ==
  ASSUME IInv, PlaceInv, SeatInv, NEW w \in Workers,
         \/ ShowLookup(w) /\ get_event(call[w].id) = 0
         \/ ShowHeaderFails(w) \/ ShowUnlock(w)
  PROVE  Abs!Show(w)
<1>0. call[w].op = "show" /\ reply[w] = NoReply /\ call' = call
  BY DEF ShowLookup, ShowHeaderFails, ShowUnlock, Goto, locals, PlaceInv, Place, Shows,
     Answered
<1>1. ~ CreateAppend(w) /\ ~ ReserveNumber(w) /\ ~ ReserveWrite(w) /\ ~ ReserveUnlock(w)
  BY DEF ShowLookup, ShowHeaderFails, ShowUnlock, CreateAppend, ReserveNumber,
     ReserveWrite, ReserveUnlock, Goto
<1>2. /\ UNCHANGED [p \in DOMAIN list |-> AbsEvent(p)]
      /\ \A r : Answer(w, r) => Abs!Answer(w, r)
  BY <1>0, <1>1, AnswerView DEF Step
<1> USE DEF Abs!Pending, Abs!NoReply, NoReply, Abs!Failure, Failure, Abs!Lost, Lost
<1>3. CASE Answer(w, Lost)
  BY <1>0, <1>2, <1>3 DEF Abs!Show
<1>4. CASE ShowLookup(w) /\ get_event(call[w].id) = 0
  <2>1. Answer(w, Failure)
    <3>1. DOMAIN event = Workers
      BY DEF IInv, TypeOK
    <3> QED
      BY <1>4, <3>1 DEF ShowLookup
  <2>2. \A p \in DOMAIN list : AbsEvent(p).id # call[w].id
    BY <1>4, NotFound
  <2> QED
    BY <1>0, <1>2, <2>1, <2>2 DEF Abs!Show, Abs!Exists
<1>5. CASE ShowUnlock(w) /\ ~ Answer(w, Lost)
  <2>1. PICK p \in DOMAIN list : p = event[w]
    BY <1>5 DEF ShowUnlock, Goto, IInv, PointerInv, UsesEvent
  <2> DEFINE e == list[p]
  <2>2. /\ pc[w] = "show_copy" /\ pos[w] \in Nat /\ pos[w] \notin Cells(e.rows, e.cols)
        /\ e.id = call[w].id
        /\ Answer(w, [err |-> "ok", rows |-> e.rows, cols |-> e.cols,
                      seats |-> response_seats[w]])
    BY <1>5, <2>1 DEF ShowUnlock, Goto, IInv, TypeOK, PlaceInv, Place, UsesEvent
  <2>3. /\ e.rows \in Nat /\ e.cols \in Nat
        /\ e.data \in [Cells(e.rows, e.cols) -> Nat]
    BY EventType
  <2>4. \A i \in Cells(e.rows, e.cols) : i < pos[w]
    BY <2>2, <2>3 DEF Cells
  <2>5. response_seats[w] = e.data
    BY <2>1, <2>2, <2>3, <2>4 DEF SeatInv, AnswerInv, CopyKept
  <2>6. ~ Writing(p)
    BY <2>1, <2>2, OwnerWrites DEF HoldsMutex
  <2>7. /\ AbsEvent(p).id = e.id /\ AbsEvent(p).rows = e.rows
        /\ AbsEvent(p).cols = e.cols /\ AbsEvent(p).data = e.data
    BY <2>6, ShownAsItIs
  <2>8. Answer(w, [err |-> "ok", rows |-> AbsEvent(p).rows, cols |-> AbsEvent(p).cols,
                   seats |-> AbsEvent(p).data])
    BY <2>2, <2>5, <2>7
  <2> QED
    BY <1>0, <1>2, <2>2, <2>7, <2>8 DEF Abs!Show
<1> QED
  BY <1>3, <1>4, <1>5 DEF ShowHeaderFails

\* ems_list_events answers with the identifiers of the abstract events: the
\* writer that could be between the node and the counter is locked out.
LEMMA ListSimulates ==
  ASSUME IInv, ListInv, PlaceInv, NEW w \in Workers, ListUnlock(w)
  PROVE  Abs!List(w)
<1>0. call[w].op = "list" /\ reply[w] = NoReply /\ call' = call
  BY DEF ListUnlock, Goto, locals, PlaceInv, Place, Lists, Answered
<1>1. ~ CreateAppend(w) /\ ~ ReserveNumber(w) /\ ~ ReserveWrite(w) /\ ~ ReserveUnlock(w)
  BY DEF ListUnlock, CreateAppend, ReserveNumber, ReserveWrite, ReserveUnlock, Goto
<1>2. /\ UNCHANGED [p \in DOMAIN list |-> AbsEvent(p)]
      /\ \A r : Answer(w, r) => Abs!Answer(w, r)
  BY <1>0, <1>1, AnswerView DEF Step
<1>3. num_events = Len(list) /\ list \in Seq(Event)
  BY ThreadsAssumption DEF ListUnlock, Goto, ListInv, LockInv, CountInv, ReadsList,
     WritesList, IInv, TypeOK
<1> DEFINE F == [p \in DOMAIN list |-> AbsEvent(p)]
<1>4. Len(F) = Len(list) /\ DOMAIN F = DOMAIN list
  BY <1>3
<1>5. F = <<>> <=> list = <<>>
  BY <1>3, <1>4
<1>6. \A p \in DOMAIN list : F[p].id = list[p].id
  BY IdentityShown
<1> HIDE DEF F
<1>7. [p \in DOMAIN F |-> F[p].id] = [p \in DOMAIN list |-> list[p].id]
  BY <1>4, <1>6
<1>8. \/ F = <<>> /\ Answer(w, Failure)
      \/ F # <<>> /\ Answer(w, [err |-> "ok", num_events |-> Len(F),
                                ids |-> [p \in DOMAIN F |-> F[p].id]])
      \/ Answer(w, Lost)
  BY <1>3, <1>4, <1>5, <1>7 DEF ListUnlock
<1> QED
  BY <1>0, <1>2, <1>8 DEF F, Abs!List, Abs!Pending, Abs!NoReply, NoReply, Abs!Failure,
     Failure, Abs!Lost, Lost

\* The other steps change nothing that is shown.
LEMMA StutterSimulates ==
  ASSUME IInv, PlaceInv, SeatInv, NEW w \in Workers,
         \/ CreateLock(w) \/ CreateCount(w) \/ CreateUnlock(w)
         \/ ReserveLock(w) \/ (ReserveLookup(w) /\ get_event(call[w].id) # 0)
         \/ ReserveMutex(w) \/ ReserveNumber(w) \/ ReserveWrite(w)
         \/ ShowLock(w) \/ (ShowLookup(w) /\ get_event(call[w].id) # 0)
         \/ ShowMutex(w) \/ ShowHeader(w) \/ ShowCopy(w) \/ ListLock(w)
  PROVE  UNCHANGED Abs!vars
<1>1. UNCHANGED <<call, reply>>
  <2>1. DOMAIN event = Workers
    BY DEF IInv, TypeOK
  <2> QED
    BY <2>1 DEF CreateLock, CreateCount, CreateUnlock, ReserveLock, ReserveLookup,
       ReserveMutex, ReserveNumber, ReserveWrite, ShowLock, ShowLookup, ShowMutex,
       ShowHeader, ShowCopy, ListLock, locals
<1>2. /\ DOMAIN list' = DOMAIN list
      /\ \A p \in DOMAIN list : AbsEvent(p)' = AbsEvent(p)
  <2>1. CASE ReserveNumber(w) \/ ReserveWrite(w)
    BY <2>1, NumberView, WriteView
  <2>2. CASE ~ ReserveNumber(w) /\ ~ ReserveWrite(w)
    <3>1. ~ CreateAppend(w) /\ ~ ReserveUnlock(w) /\ Step(w)
      BY <2>2 DEF CreateLock, CreateCount, CreateUnlock, ReserveLock, ReserveLookup,
         ReserveMutex, ShowLock, ShowLookup, ShowMutex, ShowHeader, ShowCopy,
         ListLock, Goto, CreateAppend, ReserveUnlock, Step
    <3> QED
      BY <2>2, <3>1, SameView
  <2> QED
    BY <2>1, <2>2
<1> QED
  BY <1>1, <1>2 DEF Abs!vars

LEMMA StepSimulates ==
  ASSUME IInv, ListInv, PlaceInv, SeatInv, [Next]_vars
  PROVE  [Abs!Next]_(Abs!vars)
<1>1. ASSUME NEW w \in Workers, Invoke(w) \/ Step(w)
      PROVE  Abs!Next \/ UNCHANGED Abs!vars
  <2>1. CASE Invoke(w) \/ Return(w)
    BY <2>1, InvokeSimulates, ReturnSimulates DEF Abs!Next
  <2>2. CASE CreateReject(w) \/ CreateAppend(w)
    BY <2>2, CreateSimulates DEF Abs!Next
  <2>3. CASE (ReserveLookup(w) /\ get_event(call[w].id) = 0) \/ ReserveReject(w)
    BY <2>3, RefuseSimulates DEF Abs!Next
  <2>4. CASE ReserveUnlock(w)
    <3>1. PICK p \in DOMAIN list : p = event[w]
      BY <2>4 DEF ReserveUnlock, Goto, IInv, PointerInv, UsesEvent
    <3> QED
      BY <2>4, <3>1, GrantSimulates DEF Abs!Next
  <2>5. CASE \/ ShowLookup(w) /\ get_event(call[w].id) = 0
             \/ ShowHeaderFails(w) \/ ShowUnlock(w)
    BY <2>5, ShowSimulates DEF Abs!Next
  <2>6. CASE ListUnlock(w)
    BY <2>6, ListSimulates DEF Abs!Next
  <2>7. CASE \/ CreateLock(w) \/ CreateCount(w) \/ CreateUnlock(w)
             \/ ReserveLock(w) \/ (ReserveLookup(w) /\ get_event(call[w].id) # 0)
             \/ ReserveMutex(w) \/ ReserveNumber(w) \/ ReserveWrite(w)
             \/ ShowLock(w) \/ (ShowLookup(w) /\ get_event(call[w].id) # 0)
             \/ ShowMutex(w) \/ ShowHeader(w) \/ ShowCopy(w) \/ ListLock(w)
    BY <2>7, StutterSimulates
  <2> QED
    BY <1>1, <2>1, <2>2, <2>3, <2>4, <2>5, <2>6, <2>7 DEF Step
<1>2. CASE ShowEMS \/ Finished \/ UNCHANGED vars
  <2>1. UNCHANGED <<list, pc, call, reply, event>>
    BY <1>2, NobodyMoves
  <2>2. \A p \in DOMAIN list : SameEvent(p) /\ (Writing(p)' <=> Writing(p))
    BY <2>1 DEF SameEvent, Writing
  <2> QED
    BY <2>1, <2>2, SameShown DEF Abs!vars
<1> QED
  BY <1>1, <1>2 DEF Next

LEMMA InitSimulates == Init => Abs!Init
<1> SUFFICES ASSUME Init PROVE Abs!Init
  OBVIOUS
<1>1. list = <<>> /\ [p \in DOMAIN list |-> AbsEvent(p)] = <<>>
  BY DEF Init
<1> QED
  BY <1>1 DEF Init, Abs!Init, Abs!NoCall, NoCall, Abs!NoReply, NoReply

\* Every call to ems_create, ems_reserve, ems_show and ems_list_events takes
\* effect in one step between its invocation and its return, whatever the
\* other threads do: the code with its two kinds of lock implements the
\* atomic operations that its callers see.
THEOREM OperationsAreAtomic == Spec => AtomicOperations
<1>1. Init => Abs!Init
  BY InitSimulates
<1>2. IInv /\ ListInv /\ PlaceInv /\ SeatInv /\ [Next]_vars => [Abs!Next]_(Abs!vars)
  BY StepSimulates
<1> QED
  BY <1>1, <1>2, SeatInvariantHolds, PTL DEF Spec, AtomicOperations, Abs!Spec
=============================================================================
