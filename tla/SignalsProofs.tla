----------------------------- MODULE SignalsProofs -----------------------------
(***************************************************************************)
(* Proofs about Signals for any number of clients, slots, starts and       *)
(* signals.                                                                *)
(*                                                                         *)
(* Sessions proves that the dispatcher finds a slot from the accounting of *)
(* permits, and a signal breaks exactly that: a sem_wait that fails lets a *)
(* search through without a permit.  SessionInv says what is left: the     *)
(* permits count the free slots plus the interrupted sem_waits, the search *)
(* is safe until the first of them, and the sessions are isolated whatever *)
(* happens, because FillSlot only takes a slot it saw free.  The rest of   *)
(* the invariant follows a signal from kill to the call it interrupts      *)
(* (SignalsSpent: at most one interrupt per signal) and the mutex   *)
(* of worker 0 through the two threads that wait with it.                  *)
(***************************************************************************)
EXTENDS Signals, SessionsProofs

\* What signals leave of the invariant of Sessions.
SessionInv ==
  /\ SlotsInv /\ Accounts(interrupts) /\ IsolationInv
  /\ interrupts = 0 => SearchInv /\ NeverNull

\* A signal is pending, has interrupted a call, or is over.
SignalsSpent ==
  /\ interrupts <= sent
  /\ eintr \/ pending => interrupts + 1 <= sent
  /\ eintr /\ pending => interrupts + 2 <= sent

\* Somebody runs the handler unless it is installed.
HandlerInv == handler # "installed" => by # Nobody

\* The truth values.
FlagsInv == pending \in BOOLEAN /\ eintr \in BOOLEAN /\ woken \in BOOLEAN

\* Worker 0 has been woken for a session and did not lock its mutex yet.
WokenInv == woken => worker[0] = "open_request"

\* The lock word of the mutex of worker 0, as in SignalsTypeOK.
MutexInv ==
  /\ mutex \in {"free", "worker", "printer", "destroyed"}
  /\ mutex = "worker" => InSession
  /\ mutex = "printer" => printer \in {"print", "start"}
  /\ mutex = "destroyed" => worker[0] = "reset"

\* main goes on only when a read was interrupted.
EndInv ==
  /\ dispatcher = "returned" => hits # {}
  /\ main # "join" => hits # {}

\* The other types.
PlacesInv ==
  /\ sent \in 0 .. MaxSignals /\ interrupts \in Nat
  /\ handler \in {"installed", "signal", "install"}
  /\ by \in {"main", "dispatcher", Nobody}
  /\ eintr => dispatcher \in {"read", "wait"}
  /\ hits \subseteq {"read", "handler"}
  /\ printer \in {"start", "waiting", "relock", "asleep", "print"}
  /\ main \in {"join", "terminate", "returned"}

ThreadInv ==
  /\ PlacesInv /\ FlagsInv /\ SignalsSpent /\ HandlerInv
  /\ WokenInv /\ MutexInv /\ EndInv

SInv == SessionInv /\ ThreadInv /\ SignalsDoNoHarm

-----------------------------------------------------------------------------
LEMMA SignalsInitInv == SignalsInit => SInv
<1> SUFFICES ASSUME SignalsInit PROVE SInv
  OBVIOUS
<1>1. IInv /\ IsolationInv
  BY InitInv, IsolationInit DEF SignalsInit
<1>2. interrupts = 0 /\ SessionInv
  BY <1>1, InvParts DEF SignalsInit, SessionInv
<1>3. FlagsInv
  BY Zenon DEF SignalsInit, FlagsInv
<1>4. ~ pending /\ ~ eintr /\ ~ woken
  BY Zenon DEF SignalsInit
<1>5. PlacesInv /\ SignalsSpent /\ HandlerInv
  BY <1>4, SignalsAssumption DEF SignalsInit, PlacesInv, SignalsSpent, HandlerInv
<1>6. WokenInv /\ MutexInv /\ EndInv
  BY <1>4 DEF SignalsInit, Init, WokenInv, MutexInv, EndInv
<1> QED
  BY <1>2, <1>3, <1>5, <1>6 DEF SInv, ThreadInv, SignalsDoNoHarm, SignalsInit, Init

-----------------------------------------------------------------------------
(* The sessions.                                                           *)

\* A step that at most ends the server.
LEMMA StillSession ==
  ASSUME SessionInv, interrupts \in Nat, server' \in {"up", "down"},
         UNCHANGED <<queue, slots, worker, clients, pipes, interrupts>>
  PROVE  SessionInv'
<1>1. PICK k \in Nat : k = interrupts
  OBVIOUS
<1>2. DataOK'
  BY DEF SessionInv, SlotsInv, DataOK, queue, slots, clients, pipes
<1>3. SlotsInv' /\ Accounts(k)'
  BY <1>1, <1>2, OutsideStep DEF SessionInv, SlotsInv, queue, slots
<1>4. (interrupts = 0 => SearchInv /\ NeverNull)'
  BY DEF SessionInv, SearchInv, NeverNull, queue, slots
<1>5. IsolationInv'
  BY DEF SessionInv, queue, slots, clients, pipes, IsolationInv, SlotInv, ClientInv, Once,
     Met, PipeState, Fifos, Holds, UsesPipes, Filled, Queued, Twice, InHand
<1> QED
  BY <1>1, <1>3, <1>4, <1>5 DEF SessionInv, Accounts

LEMMA DispatchSession ==
  ASSUME SessionInv, interrupts \in Nat, Dispatch, UNCHANGED <<server, interrupts>>
  PROVE  SessionInv'
<1>1. PICK k \in Nat : k = interrupts
  OBVIOUS
<1>2. SlotsInv' /\ Accounts(k)'
  BY <1>1, DispatchSlots DEF SessionInv
<1>3. (interrupts = 0 => SearchInv /\ NeverNull)'
  BY DispatchSearch DEF SessionInv
<1>4. IsolationInv'
  BY DispatchIsolation DEF SessionInv
<1> QED
  BY <1>1, <1>2, <1>3, <1>4 DEF SessionInv, Accounts

LEMMA WorkSession ==
  ASSUME SessionInv, interrupts \in Nat, NEW i \in Slots, Work(i), UNCHANGED interrupts
  PROVE  SessionInv' /\ dispatcher' = dispatcher
<1>1. PICK k \in Nat : k = interrupts
  OBVIOUS
<1>2. SlotsInv' /\ Accounts(k)'
  BY <1>1, WorkSlots DEF SessionInv
<1>3. (interrupts = 0 => SearchInv /\ NeverNull)'
  BY OthersSearch DEF SessionInv
<1>4. IsolationInv'
  BY WorkIsolation DEF SessionInv
<1>5. dispatcher' = dispatcher
  BY DEF Work, CondWait, ReadQuit, UnlinkRequest, UnlinkResponse, ResetWorker, SemPost,
     ExitFailure, OpenRequest, OpenResponse, SendId, queue
<1> QED
  BY <1>1, <1>2, <1>3, <1>4, <1>5 DEF SessionInv, Accounts

LEMMA ClientSession ==
  ASSUME SessionInv, interrupts \in Nat, ClientStep, UNCHANGED interrupts
  PROVE  SessionInv' /\ UNCHANGED <<dispatcher, worker, server>>
<1>1. PICK k \in Nat : k = interrupts
  OBVIOUS
<1>2. SlotsInv' /\ Accounts(k)'
  BY <1>1, ClientSlots DEF SessionInv
<1>3. (interrupts = 0 => SearchInv /\ NeverNull)'
  BY OthersSearch DEF SessionInv
<1>4. IsolationInv'
  BY ClientIsolation DEF SessionInv
<1>5. UNCHANGED <<dispatcher, worker, server>>
  BY DEF ClientStep, Setup, MakeRequestPipe, MakeResponsePipe, Register, Quit, Die, queue
<1> QED
  BY <1>1, <1>2, <1>3, <1>4, <1>5 DEF SessionInv, Accounts

\* A call of the dispatcher that a signal made fail.  After a read nobody
\* dispatches; after a sem_wait the search has no permit, and the count of
\* interrupts pays for it.
LEMMA FailSession ==
  ASSUME SessionInv, interrupts \in Nat, ReadFails \/ SemWaitFails
  PROVE  SessionInv'
<1>1. /\ UNCHANGED <<register, request, slots, worker, clients, pipes, server>>
      /\ \/ /\ dispatcher = "read" /\ dispatcher' = "returned"
            /\ interrupts' = interrupts /\ chosen' = chosen
         \/ /\ dispatcher = "wait" /\ dispatcher' = "search"
            /\ interrupts' = interrupts + 1 /\ chosen' = 0
  BY DEF ReadFails, SemWaitFails, DispatcherGoto
<1>2. DataOK'
  BY <1>1, SlotsAssumption DEF SessionInv, SlotsInv, DataOK, slots, clients, pipes
<1>3. FillInv' /\ SignalInv' /\ BusyInv'
  BY <1>1 DEF SessionInv, SlotsInv, FillInv, SignalInv, BusyInv, slots
<1>4. (Accounts(interrupts))'
  <2>1. Posting' = Posting /\ FreeSlots' = FreeSlots
    BY <1>1 DEF Posting, FreeSlots, slots
  <2>2. /\ semaphore \in Nat /\ Cardinality(Posting) \in Nat
        /\ Cardinality(FreeSlots) \in Nat
    BY SlotSets DEF SessionInv, SlotsInv, DataOK, Posting, FreeSlots
  <2>3. semaphore + Permit + Cardinality(Posting) = Cardinality(FreeSlots) + interrupts
    BY <1>1 DEF SessionInv, Accounts
  <2> QED
    BY <1>1, <2>1, <2>2, <2>3 DEF Accounts, Permit, slots
<1>5. (interrupts = 0 => SearchInv /\ NeverNull)'
  BY <1>1 DEF SessionInv, SearchInv, NeverNull
<1>6. IsolationInv'
  BY <1>1 DEF SessionInv, slots, clients, pipes, IsolationInv, SlotInv, ClientInv, Once,
     Met, PipeState, Fifos, Holds, UsesPipes, Filled, Queued, Twice, InHand
<1> QED
  BY <1>2, <1>3, <1>4, <1>5, <1>6 DEF SessionInv, SlotsInv

LEMMA SessionStep ==
  ASSUME SInv, [SignalsNext]_svars PROVE SessionInv'
<1>0. SessionInv /\ interrupts \in Nat /\ server \in {"up", "down"}
  BY DEF SInv, SessionInv, SlotsInv, DataOK, ThreadInv, PlacesInv
<1> USE DEF signal, thread
<1>1. ASSUME NEW t, Deliver(t) PROVE SessionInv'
  BY <1>0, <1>1, StillSession DEF Deliver
<1>2. CASE Handle
  BY <1>0, <1>2, StillSession DEF Handle, HandlerSignals, HandlerReturns, vars
<1>3. CASE Dispatches
  BY <1>0, <1>3, DispatchSession DEF Dispatches
<1>4. CASE ReadFails \/ SemWaitFails
  BY <1>0, <1>4, FailSession
<1>5. CASE NullDereference
  BY <1>0, <1>5, StillSession DEF NullDereference
<1>6. CASE Printer \/ Main
  BY <1>0, <1>6, StillSession DEF Printer, StartWaiting, StopWaiting, ShowsEMS, Main, Join,
     Return, vars
<1>7. ASSUME NEW i \in Slots, WorkerStep(i) PROVE SessionInv'
  <2>1. CASE Work(i) /\ UNCHANGED interrupts
    BY <1>0, <2>1, WorkSession
  <2>2. CASE Relock \/ DestroyMutex
    BY <1>0, <2>2, StillSession DEF Relock, DestroyMutex, vars
  <2> QED
    BY <1>7, <2>1, <2>2 DEF WorkerStep, Worker0
<1>8. CASE SendSignal
  BY <1>0, <1>8, StillSession DEF SendSignal, vars
<1>9. CASE ClientStep /\ UNCHANGED <<signal, thread, main>>
  BY <1>0, <1>9, ClientSession
<1>10. CASE UNCHANGED svars
  BY <1>0, <1>10, StillSession DEF svars, vars
<1> QED
  BY <1>1, <1>2, <1>3, <1>4, <1>5, <1>6, <1>7, <1>8, <1>9, <1>10
     DEF SignalsNext, DispatcherStep

-----------------------------------------------------------------------------
(* Signals, main and the two threads that wait with the mutex of worker 0. *)

\* Where a step of a worker leads.
LEMMA WorkPlaces ==
  ASSUME SlotsInv, NEW i \in Slots, Work(i)
  PROVE  /\ dispatcher' = dispatcher
         /\ \A j \in Slots : j # i => worker'[j] = worker[j]
         /\ \/ worker' = worker
            \/ worker[i] \in {"start", "reset", "post"}
            \/ /\ worker[i] \notin {"start", "waiting", "reset", "post"}
               /\ worker'[i] \notin {"start", "waiting", "post"}
<1>1. worker \in [Slots -> WorkerPlaces]
  BY DEF SlotsInv, DataOK
<1>2. CASE ExitFailure(i)
  BY <1>2 DEF ExitFailure, queue
<1>3. CASE CondWait(i) \/ ResetWorker(i) \/ SemPost(i)
  BY <1>1, <1>3 DEF CondWait, ResetWorker, SemPost, WorkerGoto, queue
<1>4. CASE ReadQuit(i) \/ UnlinkRequest(i) \/ UnlinkResponse(i)
  BY <1>1, <1>4 DEF ReadQuit, UnlinkRequest, UnlinkResponse, WorkerGoto, queue
<1>5. ASSUME NEW c \in Clients, OpenRequest(i, c) \/ OpenResponse(i, c) \/ SendId(i, c)
      PROVE  /\ dispatcher' = dispatcher
             /\ \A j \in Slots : j # i => worker'[j] = worker[j]
             /\ worker[i] \notin {"start", "waiting", "reset", "post"}
             /\ worker'[i] \notin {"start", "waiting", "post"}
  BY <1>1, <1>5 DEF OpenRequest, OpenResponse, SendId, WorkerGoto, queue
<1> QED
  BY <1>2, <1>3, <1>4, <1>5 DEF Work

\* A step of the dispatcher wakes worker 0 or leaves it where it is.
LEMMA DispatchPlaces ==
  ASSUME SlotsInv, Dispatch
  PROVE  /\ \A j \in Slots : \/ worker'[j] = worker[j]
                             \/ worker[j] = "waiting" /\ worker'[j] = "open_request"
         /\ dispatcher \in {"read", "wait", "search", "fill", "signal"}
         /\ dispatcher' \in {"read", "wait", "search", "fill", "signal", "null"}
<1>1. worker \in [Slots -> WorkerPlaces]
  BY DEF SlotsInv, DataOK
<1>2. CASE Signal
  BY <1>1, <1>2 DEF Signal, DispatcherGoto
<1>3. CASE ReadRegister \/ SemWait \/ GetFree \/ FillSlot
  BY <1>3 DEF ReadRegister, SemWait, GetFree, FillSlot, DispatcherGoto
<1> QED
  BY <1>2, <1>3 DEF Dispatch

LEMMA DeliverThread ==
  ASSUME ThreadInv, NEW t \in {"main", "dispatcher"}, Deliver(t) PROVE ThreadInv'
<1>1. /\ UNCHANGED <<dispatcher, worker, sent, interrupts, mutex, woken, printer, main>>
      /\ pending
  BY DEF Deliver, queue, thread
<1>2. ~ pending' /\ pending' \in BOOLEAN
  BY Zenon DEF Deliver
<1>3. eintr' = eintr \/ (eintr' = TRUE /\ dispatcher \in {"read", "wait"})
  BY DEF Deliver, Blocked
<1>4. FlagsInv'
  BY <1>1, <1>2, <1>3, Zenon DEF ThreadInv, FlagsInv
<1>5. PlacesInv'
  <2>1. /\ handler' \in {"installed", "signal", "install"}
        /\ by' \in {"main", "dispatcher", Nobody} /\ hits' \subseteq {"read", "handler"}
    BY DEF Deliver, ThreadInv, PlacesInv
  <2>2. eintr' => dispatcher' \in {"read", "wait"}
    BY <1>1, <1>3 DEF ThreadInv, PlacesInv
  <2> QED
    BY <1>1, <2>1, <2>2 DEF ThreadInv, PlacesInv
<1>6. SignalsSpent'
  BY <1>1, <1>2, <1>3 DEF ThreadInv, SignalsSpent
<1>7. HandlerInv' /\ EndInv'
  BY <1>1, SignalsAssumption DEF Deliver, ThreadInv, HandlerInv, EndInv
<1>8. WokenInv' /\ MutexInv'
  BY <1>1 DEF ThreadInv, WokenInv, MutexInv, InSession
<1> QED
  BY <1>4, <1>5, <1>6, <1>7, <1>8 DEF ThreadInv

LEMMA HandleThread ==
  ASSUME ThreadInv, Handle PROVE ThreadInv'
<1>1. /\ UNCHANGED <<dispatcher, worker, sent, pending, eintr, interrupts, hits, mutex,
                     woken, main>>
      /\ \/ by' = by /\ handler' = "install"
         \/ handler' = "installed" /\ by' = Nobody
      /\ printer' = printer \/ (printer = "waiting" /\ printer' = "relock")
      /\ handler # "installed"
  BY DEF Handle, HandlerSignals, HandlerReturns, vars, queue, thread
<1>2. PlacesInv' /\ HandlerInv' /\ EndInv'
  BY <1>1 DEF ThreadInv, PlacesInv, HandlerInv, EndInv
<1>3. FlagsInv' /\ SignalsSpent' /\ WokenInv'
  BY <1>1 DEF ThreadInv, FlagsInv, SignalsSpent, WokenInv
<1>4. MutexInv'
  BY <1>1 DEF ThreadInv, MutexInv, InSession
<1> QED
  BY <1>2, <1>3, <1>4 DEF ThreadInv

LEMMA DispatcherThread ==
  ASSUME SlotsInv, ThreadInv, DispatcherStep PROVE ThreadInv'
<1>0. 0 \in Slots
  BY SlotsAssumption DEF Slots
<1>1. CASE Dispatches
  <2>1. /\ UNCHANGED <<sent, pending, handler, by, eintr, interrupts, hits, mutex, printer,
                       main>>
        /\ ~ eintr
    BY <1>1 DEF Dispatches, signal
  <2>2. woken' = (woken \/ (worker[0] = "waiting" /\ worker'[0] = "open_request"))
    BY <1>1 DEF Dispatches
  <2>3. /\ \/ worker'[0] = worker[0]
           \/ worker[0] = "waiting" /\ worker'[0] = "open_request"
        /\ dispatcher' \in {"read", "wait", "search", "fill", "signal", "null"}
    BY <1>0, <1>1, DispatchPlaces DEF Dispatches
  <2>4. woken' \in BOOLEAN
    BY <2>2, Zenon DEF ThreadInv, FlagsInv
  <2>5. woken' <=> (woken \/ (worker[0] = "waiting" /\ worker'[0] = "open_request"))
    BY <2>2, Zenon DEF ThreadInv, FlagsInv
  <2>6. PlacesInv' /\ FlagsInv' /\ SignalsSpent' /\ HandlerInv'
    BY <2>1, <2>4 DEF ThreadInv, PlacesInv, FlagsInv, SignalsSpent, HandlerInv
  <2>7. WokenInv'
    BY <2>3, <2>5 DEF ThreadInv, WokenInv
  <2>8. MutexInv'
    BY <2>1, <2>3, <2>5 DEF ThreadInv, MutexInv, InSession
  <2>9. EndInv'
    BY <2>1, <2>3 DEF ThreadInv, EndInv
  <2> QED
    BY <2>6, <2>7, <2>8, <2>9 DEF ThreadInv
<1>2. CASE ReadFails \/ SemWaitFails
  <2>1. /\ UNCHANGED <<worker, sent, pending, handler, by, mutex, woken, printer, main>>
        /\ eintr
        /\ \/ dispatcher' = "returned" /\ hits' = hits \cup {"read"} /\ interrupts' = interrupts
           \/ dispatcher' = "search" /\ hits' = hits /\ interrupts' = interrupts + 1
    BY <1>2 DEF ReadFails, SemWaitFails, DispatcherGoto, thread
  <2>2. ~ eintr' /\ eintr' \in BOOLEAN
    BY <1>2, Zenon DEF ReadFails, SemWaitFails
  <2>3. PlacesInv'
    <3>1. interrupts \in Nat /\ hits \subseteq {"read", "handler"}
      BY DEF ThreadInv, PlacesInv
    <3>2. interrupts' \in Nat
      BY <2>1, <3>1
    <3>3. hits' \subseteq {"read", "handler"}
      BY <2>1, <3>1
    <3> QED
      BY <2>1, <2>2, <3>2, <3>3 DEF ThreadInv, PlacesInv
  <2>4. FlagsInv'
    BY <2>1, <2>2, Zenon DEF ThreadInv, FlagsInv
  <2>5. SignalsSpent'
    BY <2>1, <2>2 DEF ThreadInv, SignalsSpent, PlacesInv
  <2>6. HandlerInv' /\ WokenInv' /\ EndInv'
    BY <2>1 DEF ThreadInv, HandlerInv, WokenInv, EndInv
  <2>7. MutexInv'
    BY <2>1 DEF ThreadInv, MutexInv, InSession
  <2> QED
    BY <2>3, <2>4, <2>5, <2>6, <2>7 DEF ThreadInv
<1>3. CASE NullDereference
  BY <1>3 DEF NullDereference, queue, signal, thread, ThreadInv, PlacesInv, FlagsInv,
     SignalsSpent, HandlerInv, WokenInv, MutexInv, EndInv, InSession
<1> QED
  BY <1>1, <1>2, <1>3 DEF DispatcherStep

LEMMA WorkerThread ==
  ASSUME SlotsInv, ThreadInv, NEW i \in Slots, WorkerStep(i) PROVE ThreadInv'
<1>0. 0 \in Slots
  BY SlotsAssumption DEF Slots
<1>1. UNCHANGED <<signal, printer, main>>
  BY DEF WorkerStep, Worker0, Relock, DestroyMutex, thread
<1>2. UNCHANGED dispatcher
  BY WorkPlaces DEF WorkerStep, Worker0, Relock, DestroyMutex, vars, queue
<1>3. PlacesInv' /\ SignalsSpent' /\ HandlerInv' /\ EndInv'
  BY <1>1, <1>2 DEF signal, ThreadInv, PlacesInv, SignalsSpent, HandlerInv, EndInv
<1>4. CASE i # 0 /\ Work(i) /\ UNCHANGED thread
  <2>1. worker'[0] = worker[0] /\ UNCHANGED <<mutex, woken>>
    BY <1>0, <1>4, WorkPlaces DEF thread
  <2> QED
    BY <1>1, <1>3, <2>1 DEF signal, ThreadInv, FlagsInv, WokenInv, MutexInv, InSession
<1>5. CASE Worker0
  <2>1. Work(0) /\ UNCHANGED woken /\ ~ woken
        /\ mutex' = IF worker'[0] # worker[0] /\ worker[0] \in {"start", "reset"}
                    THEN "free" ELSE mutex
    BY <1>5 DEF Worker0
  <2>2. \/ worker'[0] = worker[0]
        \/ worker[0] \in {"start", "reset", "post"}
        \/ /\ worker[0] \notin {"start", "waiting", "reset", "post"}
           /\ worker'[0] \notin {"start", "waiting", "post"}
    BY <1>0, <2>1, WorkPlaces
  <2>3. MutexInv'
    BY <1>1, <2>1, <2>2 DEF ThreadInv, MutexInv, InSession
  <2> QED
    BY <1>1, <1>3, <2>1, <2>3 DEF signal, ThreadInv, FlagsInv, WokenInv
<1>6. CASE Relock
  <2>1. woken /\ UNCHANGED worker /\ mutex' = "worker"
    BY <1>6 DEF Relock, vars
  <2>2. ~ woken' /\ woken' \in BOOLEAN
    BY <1>6, Zenon DEF Relock
  <2>3. MutexInv' /\ WokenInv'
    BY <2>1, <2>2 DEF ThreadInv, WokenInv, MutexInv, InSession
  <2>4. FlagsInv'
    BY <1>1, <2>2 DEF ThreadInv, FlagsInv, signal
  <2> QED
    BY <1>3, <2>3, <2>4 DEF ThreadInv
<1>7. CASE DestroyMutex
  BY <1>1, <1>3, <1>7 DEF DestroyMutex, vars, signal, ThreadInv, FlagsInv, WokenInv,
     MutexInv, InSession
<1> QED
  BY <1>4, <1>5, <1>6, <1>7 DEF WorkerStep

LEMMA PrinterThread ==
  ASSUME ThreadInv, Printer PROVE ThreadInv'
<1>1. UNCHANGED <<dispatcher, worker, signal, woken, main>>
  BY DEF Printer, StartWaiting, StopWaiting, ShowsEMS, vars, queue
<1>2. \/ /\ printer' = "waiting" /\ mutex' = "free"
      \/ printer' = "print" /\ mutex = "destroyed" /\ mutex' = mutex
      \/ printer' = "print" /\ mutex' = "printer"
      \/ /\ printer' = "asleep" /\ mutex' = mutex
         /\ printer = "relock"
      \/ printer = "print" /\ printer' = "start" /\ mutex' = mutex
  BY DEF Printer, StartWaiting, StopWaiting, ShowsEMS
<1>3. PlacesInv' /\ FlagsInv' /\ SignalsSpent' /\ HandlerInv' /\ WokenInv' /\ EndInv'
  BY <1>1, <1>2 DEF signal, ThreadInv, PlacesInv, FlagsInv, SignalsSpent, HandlerInv,
     WokenInv, EndInv
<1>4. MutexInv'
  BY <1>1, <1>2 DEF ThreadInv, MutexInv, InSession
<1> QED
  BY <1>3, <1>4 DEF ThreadInv

LEMMA MainThread ==
  ASSUME ThreadInv, Main PROVE ThreadInv'
<1>1. /\ UNCHANGED <<dispatcher, worker, signal, thread>>
      /\ \/ main = "join" /\ dispatcher = "returned" /\ main' = "terminate"
         \/ main = "terminate" /\ main' = "returned"
  BY DEF Main, Join, Return, vars, queue
<1> QED
  BY <1>1 DEF signal, thread, ThreadInv, PlacesInv, FlagsInv, SignalsSpent, HandlerInv,
     WokenInv, MutexInv, InSession, EndInv

LEMMA SendThread ==
  ASSUME ThreadInv, SendSignal PROVE ThreadInv'
<1>1. /\ UNCHANGED <<dispatcher, worker, handler, by, eintr, interrupts, hits, thread, main>>
      /\ sent < MaxSignals /\ sent' = sent + 1
  BY DEF SendSignal, vars, queue
<1>2. pending' \in BOOLEAN
  BY Zenon DEF SendSignal
<1>3. PlacesInv'
  <2>1. sent' \in 0 .. MaxSignals
    <3>1. sent \in 0 .. MaxSignals
      BY DEF ThreadInv, PlacesInv
    <3> QED
      BY <1>1, <3>1, SignalsAssumption
  <2> QED
    BY <1>1, <2>1 DEF thread, ThreadInv, PlacesInv
<1>4. SignalsSpent'
  <2>1. sent \in Nat /\ interrupts \in Nat /\ SignalsSpent
    BY DEF ThreadInv, PlacesInv
  <2> QED
    BY <1>1, <2>1 DEF SignalsSpent
<1>5. HandlerInv' /\ WokenInv' /\ MutexInv' /\ EndInv'
  BY <1>1 DEF thread, ThreadInv, HandlerInv, WokenInv, MutexInv, InSession, EndInv
<1> QED
  BY <1>1, <1>2, <1>3, <1>4, <1>5 DEF thread, ThreadInv, FlagsInv

LEMMA ThreadStep ==
  ASSUME SInv, [SignalsNext]_svars PROVE ThreadInv'
<1>0. SlotsInv /\ ThreadInv /\ SessionInv /\ interrupts \in Nat
  BY DEF SInv, SessionInv, ThreadInv, PlacesInv
<1>1. CASE (ClientStep /\ UNCHANGED <<signal, thread, main>>) \/ UNCHANGED svars
  <2>1. UNCHANGED <<dispatcher, worker, signal, thread, main>>
    BY <1>0, <1>1, ClientSession DEF svars, vars, queue, signal
  <2> QED
    BY <1>0, <2>1 DEF signal, thread, ThreadInv, PlacesInv, FlagsInv, SignalsSpent,
       HandlerInv, WokenInv, MutexInv, InSession, EndInv
<1> QED
  BY <1>0, <1>1, DeliverThread, HandleThread, DispatcherThread, WorkerThread, PrinterThread,
     MainThread, SendThread DEF SignalsNext

-----------------------------------------------------------------------------
(* Who ends the server.                                                    *)

LEMMA HarmStep ==
  ASSUME SInv, [SignalsNext]_svars PROVE SignalsDoNoHarm'
<1>0. SlotsInv /\ IsolationInv /\ DataOK /\ ThreadInv /\ interrupts \in Nat
  BY DEF SInv, SessionInv, SlotsInv, ThreadInv, PlacesInv
<1> DEFINE Interrupted == hits # {} \/ interrupts > 0
<1>1. SomebodyDied => SomebodyDied'
  <2>1. UNCHANGED clients \/ (\E i \in Slots : Work(i)) \/ ClientStep
    BY DEF SignalsNext, Deliver, Handle, HandlerSignals, HandlerReturns, DispatcherStep,
       Dispatches, Dispatch, ReadRegister, SemWait, GetFree, FillSlot, Signal, ReadFails,
       SemWaitFails, NullDereference, Printer, StartWaiting, StopWaiting, ShowsEMS, Main,
       Join, Return, WorkerStep, Worker0, Relock, DestroyMutex, SendSignal, vars, svars
  <2> QED
    BY <1>0, <2>1, DeadStayDead
<1>2. Interrupted => Interrupted'
  <2>1. \/ hits' = hits \/ (\E h : hits' = hits \cup {h})
    BY DEF SignalsNext, Deliver, Handle, HandlerSignals, HandlerReturns, DispatcherStep,
       Dispatches, ReadFails, SemWaitFails, NullDereference, Printer, StartWaiting,
       StopWaiting, ShowsEMS, Main, Join, Return, WorkerStep, Worker0, Relock,
       DestroyMutex, SendSignal, signal, svars
  <2>2. interrupts' = interrupts \/ interrupts' = interrupts + 1
    BY DEF SignalsNext, Deliver, Handle, HandlerSignals, HandlerReturns, DispatcherStep,
       Dispatches, ReadFails, SemWaitFails, NullDereference, Printer, StartWaiting,
       StopWaiting, ShowsEMS, Main, Join, Return, WorkerStep, Worker0, Relock,
       DestroyMutex, SendSignal, signal, svars
  <2>3. hits # {} => hits' # {}
    BY <2>1
  <2>4. interrupts > 0 => interrupts' > 0
    BY <1>0, <2>2
  <2> QED
    BY <2>3, <2>4
<1>3. CASE server' = server
  BY <1>1, <1>2, <1>3 DEF SInv, SignalsDoNoHarm
<1>4. ASSUME NEW t \in {"main", "dispatcher"}, Deliver(t), server' # server PROVE Interrupted'
  BY <1>4 DEF Deliver, SInv, ThreadInv, HandlerInv
<1>5. CASE NullDereference
  <2>1. interrupts > 0
    BY <1>0, <1>5 DEF NullDereference, SInv, SessionInv, NeverNull
  <2> QED
    BY <1>2, <2>1 DEF SignalsDoNoHarm
<1>6. CASE Main
  <2>1. hits # {}
    BY <1>6 DEF Main, Join, Return, SInv, ThreadInv, EndInv
  <2> QED
    BY <1>2, <2>1 DEF SignalsDoNoHarm
<1>7. CASE \E i \in Slots : ExitFailure(i)
  <2>1. SomebodyDied
    BY <1>0, <1>7, WorkersWork DEF ExitFailure
  <2> QED
    BY <1>1, <2>1 DEF SignalsDoNoHarm
<1>8. \/ server' = server \/ NullDereference \/ Main
      \/ (\E i \in Slots : ExitFailure(i)) \/ (\E t \in {"main", "dispatcher"} : Deliver(t))
  <2>1. ASSUME NEW i \in Slots, Work(i) PROVE server' = server \/ ExitFailure(i)
    BY <2>1 DEF Work, CondWait, ReadQuit, UnlinkRequest, UnlinkResponse, ResetWorker,
       SemPost, OpenRequest, OpenResponse, SendId
  <2>2. ASSUME NEW i \in Slots, WorkerStep(i)
        PROVE  server' = server \/ ExitFailure(i)
    BY <2>1, <2>2 DEF WorkerStep, Worker0, Relock, DestroyMutex, vars
  <2>3. CASE ClientStep
    BY <2>3 DEF ClientStep, Setup, MakeRequestPipe, MakeResponsePipe, Register, Quit, Die
  <2>4. CASE Handle \/ DispatcherStep \/ Printer \/ SendSignal \/ UNCHANGED svars
    BY <2>4 DEF Handle, HandlerSignals, HandlerReturns, DispatcherStep, Dispatches,
       ReadFails, SemWaitFails, Printer, StartWaiting, StopWaiting, ShowsEMS, SendSignal,
       vars, svars
  <2> QED
    BY <2>2, <2>3, <2>4 DEF SignalsNext
<1> QED
  BY <1>3, <1>4, <1>5, <1>6, <1>7, <1>8 DEF SignalsDoNoHarm

LEMMA SignalsHold == SignalsSpec => []SInv
<1>1. SInv /\ [SignalsNext]_svars => SInv'
  BY SessionStep, ThreadStep, HarmStep DEF SInv
<1> QED
  BY <1>1, SignalsInitInv, PTL DEF SignalsSpec

-----------------------------------------------------------------------------
(* The theorems.                                                           *)

\* Types of every variable; and the mutex that worker 0 shares with
\* wait_for_signal is locked by worker 0 only in a session, by the thread that
\* prints only while it prints or is about to wait, and destroyed only while
\* the slot is reset.
THEOREM SignalTypes == SignalsSpec => []SignalsTypeOK
<1>1. SInv => SignalsTypeOK
  <2> SUFFICES ASSUME SInv PROVE SignalsTypeOK
    OBVIOUS
  <2>1. PlacesInv /\ FlagsInv /\ SignalsSpent /\ MutexInv
    BY DEF SInv, ThreadInv
  <2>2. interrupts \in 0 .. MaxSignals
    BY <2>1, SignalsAssumption DEF PlacesInv, SignalsSpent
  <2> QED
    BY <2>1, <2>2 DEF SignalsTypeOK, PlacesInv, FlagsInv, MutexInv
<1> QED
  BY <1>1, SignalsHold, PTL

\* Every interrupted sem_wait leaves exactly one permit more than there are
\* free slots, until the search that it let through finds none.
THEOREM InterruptsAreCounted == SignalsSpec => []InterruptsCount
<1>1. SInv => InterruptsCount
  BY DEF SInv, SessionInv, Accounts, InterruptsCount
<1> QED
  BY <1>1, SignalsHold, PTL

\* Unless a client died, the server ends only by a signal that interrupted a
\* call of the dispatcher or the handler itself.
THEOREM OnlyInterruptsHarm == SignalsSpec => []SignalsDoNoHarm
<1>1. SInv => SignalsDoNoHarm
  BY DEF SInv
<1> QED
  BY <1>1, SignalsHold, PTL

\* Signals do not mix sessions up: even a search that an interrupted sem_wait
\* lets through without a permit gives away no slot that is in use.
THEOREM SignalsKeepSessionsApart == SignalsSpec => []SessionsAreIsolated
<1>1. SInv => SessionsAreIsolated
  BY IsolatedSessions DEF SInv, SessionInv
<1> QED
  BY <1>1, SignalsHold, PTL
=============================================================================
