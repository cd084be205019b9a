---------------------------- MODULE SessionsProofs ----------------------------
(***************************************************************************)
(* Proofs about Sessions for any number of clients, slots and starts.      *)
(*                                                                         *)
(* That the dispatcher always finds a slot follows from the accounting     *)
(* PermitsCountFreeSlots, but not at once: it looks at the flags one by    *)
(* one while they change.  SearchInv says that a free slot is always ahead *)
(* of it; it is preserved because only the dispatcher marks slots busy.    *)
(* BusyInv says which places of a worker go with a free slot, and          *)
(* SignalInv keeps the slot the dispatcher has filled, and not signalled   *)
(* yet, from being freed again by its worker.                              *)
(***************************************************************************)
EXTENDS Sessions, FiniteSetTheorems, TLAPS

\* Places of a worker that is between two sessions.
BetweenSessions == {"start", "waiting", "post"}

SearchInv ==
  dispatcher = "search" => \E j \in Slots : chosen <= j /\ free[j]

FillInv == dispatcher = "fill" => free[chosen]

SignalInv ==
  dispatcher = "signal" => ~ free[chosen] /\ worker[chosen] \in BetweenSessions

BusyInv == \A i \in Slots : free[i] => worker[i] \in BetweenSessions

\* TypeOK but for the places of the dispatcher: Signals knows more of them.
DataOK ==
  /\ register \in Seq(Clients)
  /\ request \in Clients \cup {Nobody}
  /\ chosen \in 0 .. MAX_SESSION_COUNT
  /\ dispatcher \in {"fill", "signal"} => chosen \in Slots
  /\ dispatcher \in {"wait", "search", "fill", "signal"} => request # Nobody
  /\ semaphore \in Nat
  /\ free \in [Slots -> BOOLEAN]
  /\ path \in [Slots -> Clients \cup {Nobody}]
  /\ worker \in [Slots -> WorkerPlaces]
  /\ client \in [Clients -> ClientPlaces]
  /\ id_session \in [Clients -> Slots \cup {Nobody}]
  /\ fifos \subseteq {"request", "response"} \X Clients
  /\ pipe \in [Clients -> {"empty", "quit", "eof"}]
  /\ starts \in [Clients -> 0 .. MaxStarts]
  /\ server \in {"up", "down"}

\* What holds of the slots whether sem_wait may fail or not.
SlotsInv == DataOK /\ FillInv /\ SignalInv /\ BusyInv

\* The accounting, with k permits too many.
Accounts(k) ==
  dispatcher # "null" =>
    semaphore + Permit + Cardinality(Posting) = Cardinality(FreeSlots) + k

IInv ==
  /\ TypeOK /\ PermitsCountFreeSlots /\ NeverNull
  /\ SearchInv /\ FillInv /\ SignalInv /\ BusyInv

LEMMA InvParts ==
  IInv <=> /\ SlotsInv /\ Accounts(0) /\ NeverNull /\ SearchInv
           /\ dispatcher \in {"read", "wait", "search", "fill", "signal", "null"}
<1>1. TypeOK <=> /\ DataOK
                 /\ dispatcher \in {"read", "wait", "search", "fill", "signal", "null"}
  BY DEF TypeOK, DataOK
<1>2. Cardinality(FreeSlots) \in Nat
  <2>1. IsFiniteSet(Slots) /\ FreeSlots \subseteq Slots
    BY SlotsAssumption, FS_Interval DEF Slots, FreeSlots
  <2> QED
    BY <2>1, FS_Subset, FS_CardinalityType
<1>3. NeverNull => (Accounts(0) <=> PermitsCountFreeSlots)
  BY <1>2 DEF NeverNull, Accounts, PermitsCountFreeSlots
<1> QED
  BY <1>1, <1>3 DEF IInv, SlotsInv

-----------------------------------------------------------------------------
(* Counting slots.                                                         *)

\* There are finitely many slots, and every set of slots has a size.
LEMMA SlotSets ==
  ASSUME NEW S \in SUBSET Slots
  PROVE  IsFiniteSet(S) /\ Cardinality(S) \in Nat
<1>1. IsFiniteSet(Slots)
  BY SlotsAssumption, FS_Interval DEF Slots
<1> QED
  BY <1>1, FS_Subset, FS_CardinalityType

\* Setting one more slot free, or starting to post, adds one.
LEMMA OneMore ==
  ASSUME NEW S \in SUBSET Slots, NEW i \in Slots, i \notin S
  PROVE  Cardinality(S \cup {i}) = Cardinality(S) + 1
BY SlotSets, FS_AddElement

\* Marking one slot busy, or having posted, takes one away.
LEMMA OneLess ==
  ASSUME NEW S \in SUBSET Slots, NEW i \in Slots, i \in S
  PROVE  Cardinality(S \ {i}) = Cardinality(S) - 1
BY SlotSets, FS_RemoveElement

\* A permit means that some slot is free.
LEMMA FreeSlotExists ==
  ASSUME Cardinality(FreeSlots) > 0
  PROVE  \E j \in Slots : free[j]
<1>1. FreeSlots # {}
  BY FS_EmptySet
<1> QED
  BY <1>1 DEF FreeSlots

-----------------------------------------------------------------------------
LEMMA InitInv == Init => IInv
<1> SUFFICES ASSUME Init PROVE IInv
  OBVIOUS
<1>1. TypeOK
  BY SlotsAssumption, BoundAssumption
     DEF Init, InitialPermits, TypeOK, Slots, WorkerPlaces, ClientPlaces
<1>2. FreeSlots = Slots /\ Posting = {}
  BY DEF Init, FreeSlots, Posting
<1>3. Cardinality(Slots) = MAX_SESSION_COUNT
  BY SlotsAssumption, FS_Interval DEF Slots
<1>4. PermitsCountFreeSlots
  BY <1>2, <1>3, FS_EmptySet, SlotsAssumption
     DEF Init, InitialPermits, PermitsCountFreeSlots, Permit
<1>5. NeverNull /\ SearchInv /\ FillInv /\ SignalInv /\ BusyInv
  BY DEF Init, NeverNull, SearchInv, FillInv, SignalInv, BusyInv, BetweenSessions
<1> QED
  BY <1>1, <1>4, <1>5 DEF IInv

-----------------------------------------------------------------------------
(* Types.                                                                  *)

LEMMA DispatchType ==
  ASSUME DataOK, Dispatch, UNCHANGED server PROVE DataOK'
<1>1. CASE ReadRegister
  <2>1. Head(register) \in Clients /\ Tail(register) \in Seq(Clients)
    BY <1>1 DEF ReadRegister, DataOK
  <2> QED
    BY <1>1, <2>1, ClientsAssumption
       DEF ReadRegister, DispatcherGoto, DataOK, slots, clients, pipes
<1>2. CASE SemWait
  BY <1>2, SlotsAssumption
     DEF SemWait, DispatcherGoto, DataOK, slots, clients, pipes
<1>3. CASE GetFree
  BY <1>3, SlotsAssumption
     DEF GetFree, DispatcherGoto, DataOK, Slots, slots, clients, pipes
<1>4. CASE FillSlot
  BY <1>4 DEF FillSlot, DispatcherGoto, DataOK, slots, clients, pipes
<1>5. CASE Signal
  BY <1>5 DEF Signal, DispatcherGoto, DataOK, WorkerPlaces, slots, clients, pipes
<1> QED
  BY <1>1, <1>2, <1>3, <1>4, <1>5 DEF Dispatch

LEMMA WorkType ==
  ASSUME DataOK, NEW i \in Slots, Work(i) PROVE DataOK'
<1> USE DEF WorkerGoto, ClientGoto, DataOK, WorkerPlaces, ClientPlaces,
            queue, slots, clients, pipes
<1>1. CASE CondWait(i) \/ ReadQuit(i)
  BY <1>1 DEF CondWait, ReadQuit
<1>2. CASE UnlinkRequest(i) \/ UnlinkResponse(i)
  BY <1>2 DEF UnlinkRequest, UnlinkResponse
<1>3. CASE ResetWorker(i)
  BY <1>3 DEF ResetWorker
<1>4. CASE SemPost(i)
  <2>1. semaphore' \in Nat
    BY <1>4 DEF SemPost
  <2>2. worker' \in [Slots -> WorkerPlaces]
    BY <1>4 DEF SemPost
  <2> QED
    BY <1>4, <2>1, <2>2 DEF SemPost
<1>5. CASE ExitFailure(i)
  BY <1>5 DEF ExitFailure
<1>6. ASSUME NEW c \in Clients, OpenRequest(i, c) PROVE DataOK'
  BY <1>6 DEF OpenRequest
<1>7. ASSUME NEW c \in Clients, OpenResponse(i, c) PROVE DataOK'
  BY <1>7 DEF OpenResponse
<1>8. ASSUME NEW c \in Clients, SendId(i, c) PROVE DataOK'
  BY <1>8 DEF SendId
<1> QED
  BY <1>1, <1>2, <1>3, <1>4, <1>5, <1>6, <1>7, <1>8 DEF Work

LEMMA ClientType ==
  ASSUME DataOK, ClientStep PROVE DataOK'
<1> SUFFICES ASSUME NEW c \in Clients,
                    \/ MakeRequestPipe(c) \/ MakeResponsePipe(c) \/ Register(c)
                    \/ Quit(c) \/ Die(c)
             PROVE  DataOK'
  BY DEF ClientStep, Setup
<1> USE DEF ClientGoto, DataOK, ClientPlaces, queue, slots, clients, pipes
<1>1. CASE MakeRequestPipe(c)
  <2>1. starts' \in [Clients -> 0 .. MaxStarts]
    BY <1>1, BoundAssumption DEF MakeRequestPipe
  <2>2. client' \in [Clients -> ClientPlaces]
    BY <1>1 DEF MakeRequestPipe
  <2>3. pipe' \in [Clients -> {"empty", "quit", "eof"}]
    BY <1>1 DEF MakeRequestPipe
  <2>4. fifos' \subseteq {"request", "response"} \X Clients
    <3>1. <<"request", c>> \in {"request", "response"} \X Clients
      OBVIOUS
    <3>2. fifos' = fifos \/ fifos' = fifos \cup {<<"request", c>>}
      BY <1>1 DEF MakeRequestPipe
    <3> QED
      BY <3>1, <3>2
  <2>5. UNCHANGED <<queue, slots, worker, id_session, server>>
    BY <1>1 DEF MakeRequestPipe
  <2> QED
    BY <2>1, <2>2, <2>3, <2>4, <2>5
<1>2. CASE MakeResponsePipe(c)
  <2>1. client' \in [Clients -> ClientPlaces]
    <3>1. \/ client' = [client EXCEPT ![c] = "idle"]
          \/ client' = [client EXCEPT ![c] = "register"]
      BY ONLY <1>2 DEF MakeResponsePipe, ClientGoto
    <3>2. client \in [Clients -> ClientPlaces]
      OBVIOUS
    <3> QED
      BY ONLY <3>1, <3>2 DEF ClientPlaces
  <2>2. fifos' \subseteq {"request", "response"} \X Clients
    <3>1. <<"response", c>> \in {"request", "response"} \X Clients
      OBVIOUS
    <3>2. fifos' = fifos \/ fifos' = fifos \cup {<<"response", c>>}
      BY <1>2 DEF MakeResponsePipe
    <3> QED
      BY <3>1, <3>2
  <2>3. UNCHANGED <<queue, slots, worker, id_session, starts, pipe, server>>
    BY <1>2 DEF MakeResponsePipe
  <2> QED
    BY <2>1, <2>2, <2>3
<1>3. CASE Register(c)
  BY <1>3 DEF Register
<1>4. CASE Quit(c) \/ Die(c)
  BY <1>4 DEF Quit, Die
<1> QED
  BY <1>1, <1>2, <1>3, <1>4

-----------------------------------------------------------------------------
(* The accounting.                                                         *)

\* Steps that neither touch the flags and the semaphore nor move the
\* dispatcher or a worker into or out of the places that count.
LEMMA QuietStep ==
  ASSUME SlotsInv, UNCHANGED <<dispatcher, chosen, semaphore, free>>,
         NEW k \in Nat, Accounts(k),
         NEW i \in Slots, NEW to \in WorkerPlaces,
         worker' = [worker EXCEPT ![i] = to],
         worker[i] # "post", to # "post",
         worker[i] \in BetweenSessions => to \in BetweenSessions
  PROVE  Accounts(k)' /\ FillInv' /\ SignalInv' /\ BusyInv'
<1>1. worker \in [Slots -> WorkerPlaces]
  BY DEF SlotsInv, DataOK
<1>2. Posting' = Posting /\ FreeSlots' = FreeSlots
  BY <1>1 DEF Posting, FreeSlots
<1>3. Accounts(k)'
  BY <1>2 DEF Accounts, Permit
<1>4. FillInv'
  BY DEF SlotsInv, FillInv
<1>5. SignalInv' /\ BusyInv'
  BY <1>1 DEF SlotsInv, DataOK, SignalInv, BusyInv
<1> QED
  BY <1>3, <1>4, <1>5

\* Steps of the clients and steps that change nothing.
LEMMA OutsideStep ==
  ASSUME SlotsInv, NEW k \in Nat, Accounts(k),
         UNCHANGED <<dispatcher, chosen, semaphore, free, worker>>
  PROVE  Accounts(k)' /\ FillInv' /\ SignalInv' /\ BusyInv'
<1>1. Posting' = Posting /\ FreeSlots' = FreeSlots
  BY DEF Posting, FreeSlots
<1> QED
  BY <1>1 DEF SlotsInv, Accounts, Permit, FillInv, SignalInv, BusyInv

LEMMA DispatchSlots ==
  ASSUME SlotsInv, NEW k \in Nat, Accounts(k), Dispatch, UNCHANGED server
  PROVE  SlotsInv' /\ Accounts(k)'
<1>1. DataOK'
  BY DispatchType DEF SlotsInv
<1>0. /\ semaphore \in Nat /\ Cardinality(Posting) \in Nat
      /\ Cardinality(FreeSlots) \in Nat
  BY SlotSets DEF SlotsInv, DataOK, Posting, FreeSlots
<1> USE DEF DispatcherGoto
<1>2. CASE ReadRegister
  <2>1. /\ UNCHANGED <<chosen, semaphore, free, worker>>
        /\ dispatcher = "read" /\ dispatcher' = "wait"
    BY <1>2 DEF ReadRegister, slots
  <2>2. Posting' = Posting /\ FreeSlots' = FreeSlots
    BY <2>1 DEF Posting, FreeSlots
  <2>3. Accounts(k)'
    BY <2>1, <2>2 DEF Accounts, Permit
  <2>4. FillInv' /\ SignalInv' /\ BusyInv'
    BY <2>1 DEF SlotsInv, FillInv, SignalInv, BusyInv
  <2> QED
    BY <1>1, <2>3, <2>4 DEF SlotsInv
<1>3. CASE SemWait
  <2>1. /\ UNCHANGED <<free, worker>>
        /\ dispatcher = "wait" /\ dispatcher' = "search"
        /\ semaphore > 0 /\ semaphore' = semaphore - 1 /\ chosen' = 0
    BY <1>3 DEF SemWait
  <2>2. Posting' = Posting /\ FreeSlots' = FreeSlots
    BY <2>1 DEF Posting, FreeSlots
  <2>3. Accounts(k)'
    BY <1>0, <2>1, <2>2 DEF Accounts, Permit
  <2>4. FillInv' /\ SignalInv' /\ BusyInv'
    BY <2>1 DEF SlotsInv, FillInv, SignalInv, BusyInv
  <2> QED
    BY <1>1, <2>3, <2>4 DEF SlotsInv
<1>4. CASE GetFree
  <2>1. UNCHANGED <<semaphore, free, worker>> /\ dispatcher = "search"
    BY <1>4 DEF GetFree, slots
  <2>2. \/ free[chosen] /\ dispatcher' = "fill" /\ chosen' = chosen
        \/ dispatcher' = "search" \/ dispatcher' = "null"
    BY <1>4 DEF GetFree
  <2>3. Posting' = Posting /\ FreeSlots' = FreeSlots
    BY <2>1 DEF Posting, FreeSlots
  <2>4. Accounts(k)'
    BY <2>1, <2>2, <2>3 DEF Accounts, Permit
  <2>5. FillInv' /\ SignalInv' /\ BusyInv'
    BY <2>1, <2>2 DEF SlotsInv, FillInv, SignalInv, BusyInv
  <2> QED
    BY <1>1, <2>4, <2>5 DEF SlotsInv
<1>5. CASE FillSlot
  <2>1. /\ UNCHANGED <<semaphore, worker, chosen>>
        /\ dispatcher = "fill" /\ dispatcher' = "signal"
        /\ free' = [free EXCEPT ![chosen] = FALSE]
    BY <1>5 DEF FillSlot
  <2>2. chosen \in Slots /\ free[chosen] /\ free \in [Slots -> BOOLEAN]
    BY <2>1 DEF SlotsInv, DataOK, FillInv
  <2>3. Posting' = Posting /\ FreeSlots' = FreeSlots \ {chosen}
    BY <2>1, <2>2 DEF Posting, FreeSlots
  <2>4. Cardinality(FreeSlots') = Cardinality(FreeSlots) - 1
    BY <2>2, <2>3, OneLess DEF FreeSlots
  <2>5. Accounts(k)'
    BY <1>0, <2>1, <2>3, <2>4 DEF Accounts, Permit
  <2>6. FillInv' /\ SignalInv' /\ BusyInv'
    BY <2>1, <2>2 DEF SlotsInv, FillInv, SignalInv, BusyInv
  <2> QED
    BY <1>1, <2>5, <2>6 DEF SlotsInv
<1>6. CASE Signal
  <2>1. /\ UNCHANGED <<semaphore, free, chosen>>
        /\ dispatcher = "signal" /\ dispatcher' = "read"
        /\ worker' = [worker EXCEPT ![chosen] =
                        IF @ = "waiting" THEN "open_request" ELSE @]
    BY <1>6 DEF Signal, slots
  <2>2. chosen \in Slots /\ ~ free[chosen] /\ worker \in [Slots -> WorkerPlaces]
    BY <2>1 DEF SlotsInv, DataOK, SignalInv
  <2>3. Posting' = Posting /\ FreeSlots' = FreeSlots
    BY <2>1, <2>2 DEF Posting, FreeSlots
  <2>4. Accounts(k)'
    BY <2>1, <2>3 DEF Accounts, Permit
  <2>5. BusyInv' /\ FillInv' /\ SignalInv'
    BY <2>1, <2>2 DEF SlotsInv, BusyInv, FillInv, SignalInv
  <2> QED
    BY <1>1, <2>4, <2>5 DEF SlotsInv
<1> QED
  BY <1>2, <1>3, <1>4, <1>5, <1>6 DEF Dispatch

LEMMA WorkSlots ==
  ASSUME SlotsInv, NEW k \in Nat, Accounts(k), NEW i \in Slots, Work(i)
  PROVE  SlotsInv' /\ Accounts(k)'
<1>1. DataOK'
  BY WorkType DEF SlotsInv
<1>2. /\ free \in [Slots -> BOOLEAN] /\ worker \in [Slots -> WorkerPlaces]
      /\ semaphore \in Nat /\ Cardinality(Posting) \in Nat
      /\ Cardinality(FreeSlots) \in Nat
  BY SlotSets DEF SlotsInv, DataOK, Posting, FreeSlots
<1>3. CASE ResetWorker(i)
  <2>1. /\ UNCHANGED <<dispatcher, chosen, semaphore>>
        /\ worker[i] = "reset" /\ worker' = [worker EXCEPT ![i] = "post"]
        /\ free' = [free EXCEPT ![i] = TRUE]
    BY <1>3 DEF ResetWorker, WorkerGoto, queue
  <2>2. ~ free[i]
    BY <2>1 DEF SlotsInv, BusyInv, BetweenSessions
  <2>3. /\ Posting' = Posting \cup {i} /\ i \notin Posting
        /\ FreeSlots' = FreeSlots \cup {i} /\ i \notin FreeSlots
    BY <1>2, <2>1, <2>2 DEF Posting, FreeSlots
  <2>4. /\ Cardinality(Posting') = Cardinality(Posting) + 1
        /\ Cardinality(FreeSlots') = Cardinality(FreeSlots) + 1
    <3>1. Posting \in SUBSET Slots /\ FreeSlots \in SUBSET Slots
      BY DEF Posting, FreeSlots
    <3> QED
      BY <2>3, <3>1, OneMore
  <2>5. Accounts(k)'
    BY <1>2, <2>1, <2>4 DEF Accounts, Permit
  <2>6. FillInv' /\ SignalInv' /\ BusyInv'
    BY <1>2, <2>1 DEF SlotsInv, DataOK, FillInv, SignalInv, BusyInv, BetweenSessions
  <2> QED
    BY <1>1, <2>5, <2>6 DEF SlotsInv
<1>4. CASE SemPost(i)
  <2>1. /\ UNCHANGED <<dispatcher, chosen, free>> /\ semaphore' = semaphore + 1
        /\ worker[i] = "post" /\ worker' = [worker EXCEPT ![i] = "start"]
    BY <1>4 DEF SemPost, WorkerGoto, queue
  <2>2. Posting' = Posting \ {i} /\ i \in Posting /\ FreeSlots' = FreeSlots
    BY <1>2, <2>1 DEF Posting, FreeSlots
  <2>3. Cardinality(Posting') = Cardinality(Posting) - 1
    <3>1. Posting \in SUBSET Slots
      BY DEF Posting
    <3> QED
      BY <2>2, <3>1, OneLess
  <2>4. Accounts(k)'
    BY <1>2, <2>1, <2>2, <2>3 DEF Accounts, Permit
  <2>5. FillInv' /\ SignalInv' /\ BusyInv'
    BY <1>2, <2>1 DEF SlotsInv, DataOK, FillInv, SignalInv, BusyInv, BetweenSessions
  <2> QED
    BY <1>1, <2>4, <2>5 DEF SlotsInv
<1>5. CASE ExitFailure(i)
  <2>1. UNCHANGED <<dispatcher, chosen, semaphore, free, worker>>
    BY <1>5 DEF ExitFailure, queue, slots
  <2> QED
    BY <1>1, <2>1, OutsideStep DEF SlotsInv
<1>6. CASE \/ CondWait(i) \/ ReadQuit(i) \/ UnlinkRequest(i) \/ UnlinkResponse(i)
           \/ \E c \in Clients :
                OpenRequest(i, c) \/ OpenResponse(i, c) \/ SendId(i, c)
  <2>1. UNCHANGED <<dispatcher, chosen, semaphore, free>>
    BY <1>6 DEF CondWait, ReadQuit, UnlinkRequest, UnlinkResponse, OpenRequest,
       OpenResponse, SendId, queue, slots
  <2>2. PICK to \in WorkerPlaces \ {"post"} :
          /\ worker' = [worker EXCEPT ![i] = to] /\ worker[i] # "post"
          /\ worker[i] \in BetweenSessions => to \in BetweenSessions
    BY <1>6 DEF CondWait, ReadQuit, UnlinkRequest, UnlinkResponse, OpenRequest,
       OpenResponse, SendId, WorkerGoto, WorkerPlaces, BetweenSessions
  <2> QED
    BY <1>1, <2>1, <2>2, QuietStep DEF SlotsInv
<1> QED
  BY <1>3, <1>4, <1>5, <1>6 DEF Work

LEMMA ClientSlots ==
  ASSUME SlotsInv, NEW k \in Nat, Accounts(k), ClientStep
  PROVE  SlotsInv' /\ Accounts(k)'
<1>1. UNCHANGED <<dispatcher, chosen, semaphore, free, worker>>
  BY DEF ClientStep, Setup, MakeRequestPipe, MakeResponsePipe, Register, Quit, Die,
     queue, slots
<1>2. DataOK'
  BY ClientType DEF SlotsInv
<1> QED
  BY <1>1, <1>2, OutsideStep DEF SlotsInv

\* The search: only the dispatcher marks slots busy.
LEMMA DispatchSearch ==
  ASSUME SlotsInv, Accounts(0), SearchInv, NeverNull, Dispatch
  PROVE  SearchInv' /\ NeverNull'
<1> USE DEF DispatcherGoto
<1>1. CASE SemWait
  <2>1. /\ free' = free /\ dispatcher = "wait" /\ dispatcher' = "search"
        /\ semaphore > 0 /\ chosen' = 0
    BY <1>1 DEF SemWait
  <2>2. /\ semaphore \in Nat /\ Cardinality(Posting) \in Nat
        /\ Cardinality(FreeSlots) \in Nat
    BY SlotSets DEF SlotsInv, DataOK, Posting, FreeSlots
  <2>3. Cardinality(FreeSlots) > 0
    BY <2>1, <2>2 DEF Accounts, Permit
  <2>4. PICK j \in Slots : free[j]
    BY <2>3, FreeSlotExists
  <2> QED
    BY <2>1, <2>4 DEF SearchInv, NeverNull, Slots
<1>2. CASE GetFree
  <2>1. free' = free /\ dispatcher = "search"
    BY <1>2 DEF GetFree, slots
  <2>2. PICK j \in Slots : chosen <= j /\ free[j]
    BY <2>1 DEF SearchInv
  <2>3. chosen \in Slots
    BY <2>2, SlotsAssumption DEF SlotsInv, DataOK, Slots
  <2>4. \/ free[chosen] /\ dispatcher' = "fill" /\ chosen' = chosen
        \/ ~ free[chosen] /\ dispatcher' = "search" /\ chosen' = chosen + 1
    BY <1>2, <2>3 DEF GetFree
  <2>5. j \in Int /\ chosen \in Int
    BY <2>3 DEF Slots
  <2> QED
    BY <2>1, <2>2, <2>4, <2>5 DEF SearchInv, NeverNull
<1>3. CASE ReadRegister \/ FillSlot \/ Signal
  BY <1>3 DEF ReadRegister, FillSlot, Signal, SearchInv, NeverNull
<1> QED
  BY <1>1, <1>2, <1>3 DEF Dispatch

LEMMA OthersSearch ==
  ASSUME SlotsInv, SearchInv, NeverNull, (\E i \in Slots : Work(i)) \/ ClientStep
  PROVE  /\ SearchInv' /\ NeverNull' /\ dispatcher' = dispatcher
<1>1. UNCHANGED <<dispatcher, chosen>>
  BY DEF Work, CondWait, ReadQuit, UnlinkRequest, UnlinkResponse, ResetWorker, SemPost,
     ExitFailure, OpenRequest, OpenResponse, SendId, ClientStep, Setup, MakeRequestPipe,
     MakeResponsePipe, Register, Quit, Die, queue
<1>2. \A j \in Slots : free[j] => free'[j]
  BY DEF Work, CondWait, ReadQuit, UnlinkRequest, UnlinkResponse, ResetWorker, SemPost,
     ExitFailure, OpenRequest, OpenResponse, SendId, ClientStep, Setup, MakeRequestPipe,
     MakeResponsePipe, Register, Quit, Die, slots, SlotsInv, DataOK
<1> QED
  BY <1>1, <1>2 DEF SearchInv, NeverNull

LEMMA StepInv == IInv /\ [Next]_vars => IInv'
<1> SUFFICES ASSUME IInv, [Next]_vars PROVE IInv'
  OBVIOUS
<1>0. /\ SlotsInv /\ Accounts(0) /\ NeverNull /\ SearchInv
      /\ dispatcher \in {"read", "wait", "search", "fill", "signal", "null"}
  BY InvParts
<1>1. SUFFICES /\ SlotsInv' /\ Accounts(0)' /\ NeverNull' /\ SearchInv'
               /\ dispatcher' \in {"read", "wait", "search", "fill", "signal", "null"}
  <2>1. TypeOK'
    BY <1>1 DEF SlotsInv, DataOK, TypeOK
  <2>2. FreeSlots' \in SUBSET Slots
    BY DEF FreeSlots
  <2>3. Cardinality(FreeSlots') \in Nat
    BY <2>2, SlotSets
  <2>4. PermitsCountFreeSlots'
    BY <1>1, <2>3 DEF NeverNull, Accounts, PermitsCountFreeSlots
  <2> QED
    BY <1>1, <2>1, <2>4 DEF IInv, SlotsInv
<1>2. CASE Dispatch /\ UNCHANGED server
  <2>1. dispatcher' \in {"read", "wait", "search", "fill", "signal", "null"}
    BY <1>2 DEF Dispatch, ReadRegister, SemWait, GetFree, FillSlot, Signal, DispatcherGoto
  <2> QED
    BY <1>0, <1>2, <2>1, DispatchSlots, DispatchSearch
<1>3. ASSUME NEW i \in Slots, Work(i)
      PROVE  /\ SlotsInv' /\ Accounts(0)' /\ NeverNull' /\ SearchInv'
             /\ dispatcher' = dispatcher
  BY <1>0, <1>3, WorkSlots, OthersSearch
<1>4. CASE ClientStep
  BY <1>0, <1>4, ClientSlots, OthersSearch
<1>5. CASE UNCHANGED vars
  <2>1. UNCHANGED <<dispatcher, chosen, semaphore, free, worker>>
    BY <1>5 DEF vars, queue, slots
  <2>2. DataOK'
    BY <1>0, <1>5 DEF SlotsInv, DataOK, vars, queue, slots, clients, pipes
  <2> QED
    BY <1>0, <2>1, <2>2, OutsideStep DEF SlotsInv, SearchInv, NeverNull
<1> QED
  BY <1>0, <1>2, <1>3, <1>4, <1>5 DEF Next, ServerStep

LEMMA InvariantHolds == Spec => []IInv
<1> QED
  BY InitInv, StepInv, PTL DEF Spec

-----------------------------------------------------------------------------
(* The theorems.                                                           *)

\* Types of every variable, for any number of slots and clients.
THEOREM TypeCorrect == Spec => []TypeOK
<1>1. IInv => TypeOK
  BY DEF IInv
<1> QED
  BY <1>1, InvariantHolds, PTL

\* The semaphore of the server counts the free slots exactly, up to the
\* permits in the hands of the dispatcher and of the workers.
THEOREM AccountingHolds == Spec => []PermitsCountFreeSlots
<1>1. IInv => PermitsCountFreeSlots
  BY DEF IInv
<1> QED
  BY <1>1, InvariantHolds, PTL

\* product_consumer_queue never dereferences NULL: whoever comes and goes,
\* get_free_worker_thread finds a slot after sem_wait.
THEOREM DispatcherFindsASlot == Spec => []NeverNull
<1>1. IInv => NeverNull
  BY DEF IInv
<1> QED
  BY <1>1, InvariantHolds, PTL

\* The pipe paths of a slot do not change while its worker uses them.
THEOREM PathsStayWithTheirWorker == Spec => PathsAreStable
<1> DEFINE Stable == \A i \in Slots : UsesPipes(i) => path'[i] = path[i]
<1>1. IInv /\ [Next]_vars => Stable
  <2> SUFFICES ASSUME IInv, [Next]_vars, NEW i \in Slots, UsesPipes(i)
               PROVE  path'[i] = path[i]
    OBVIOUS
  <2>1. CASE FillSlot
    <3>1. /\ path' = [path EXCEPT ![chosen] =
                        IF free[chosen] THEN request ELSE @]
          /\ chosen \in Slots /\ free[chosen]
          /\ path \in [Slots -> Clients \cup {Nobody}]
      BY <2>1 DEF FillSlot, DispatcherGoto, IInv, TypeOK, FillInv
    <3>2. chosen # i
      BY <3>1 DEF IInv, BusyInv, BetweenSessions, UsesPipes
    <3> QED
      BY <3>1, <3>2
  <2>2. CASE ReadRegister \/ SemWait \/ GetFree \/ Signal
    BY <2>2 DEF ReadRegister, SemWait, GetFree, Signal, slots
  <2>3. ASSUME NEW j \in Slots, Work(j) PROVE path' = path
    BY <2>3 DEF Work, CondWait, ReadQuit, UnlinkRequest, UnlinkResponse,
       ResetWorker, SemPost, ExitFailure, OpenRequest, OpenResponse, SendId, slots
  <2>4. CASE ClientStep
    BY <2>4 DEF ClientStep, Setup, MakeRequestPipe, MakeResponsePipe, Register,
       Quit, Die, slots
  <2>5. CASE UNCHANGED vars
    BY <2>5 DEF vars, slots
  <2> QED
    BY <2>1, <2>2, <2>3, <2>4, <2>5 DEF Next, ServerStep, Dispatch
<1>2. IInv /\ [Next]_vars => [Stable]_vars
  BY <1>1
<1> QED
  BY <1>2, InvariantHolds, PTL DEF Spec, PathsAreStable

-----------------------------------------------------------------------------
(* Sessions are isolated.                                                  *)
(*                                                                         *)
(* Neither SessionsAreIsolated nor ServerStaysUp is inductive: that two    *)
(* workers never serve the same pipes rests on there being one request of  *)
(* a client at a time, in the register pipe, in the hands of the           *)
(* dispatcher or in one slot, and on how far its client is when it is      *)
(* there.  The client in turn starts again only when the worker has        *)
(* unlinked its request pipe, so the state of the named pipes is part of   *)
(* the invariant.                                                          *)

\* Where the request of client c is.
Queued(c)   == \E k \in DOMAIN register : register[k] = c
Twice(c)    == \E k, l \in DOMAIN register : k # l /\ register[k] = c /\ register[l] = c
InHand(c)   == request = c /\ dispatcher \in {"wait", "search", "fill"}
\* The slot was filled and its worker has not been woken for it.
Filled(i)   == ~ free[i] /\ worker[i] \in BetweenSessions
Holds(i, c) == path[i] = c /\ (UsesPipes(i) \/ Filled(i))

\* There is one request of a client at a time.
Once(c) ==
  /\ ~ Twice(c)
  /\ ~ (InHand(c) /\ Queued(c))
  /\ \A i \in Slots : Holds(i, c) => ~ InHand(c) /\ ~ Queued(c)
  /\ \A i, j \in Slots : Holds(i, c) /\ Holds(j, c) => i = j

NotWoken == BetweenSessions \cup {"open_request"}
InSetup  == {"register", "open_request", "open_response", "read_id", "session"}

\* Where the client can be when the worker that has its request is at place.
Meets(place, there) ==
  \/ place \in NotWoken          /\ there = "open_request"
  \/ place = "open_response"     /\ there = "open_response"
  \/ place = "send_id"           /\ there = "read_id"
  \/ place = "serve"             /\ there \in {"session", "idle"}
  \/ place = "unlink_request"    /\ there = "idle"
  \/ place = "unlink_response"   /\ there \in {"idle", "make_response"}

\* A client that lives is where its request says.
Met(c) ==
  client[c] # "dead" =>
    /\ InHand(c) \/ Queued(c) => client[c] = "open_request"
    /\ \A i \in Slots : Holds(i, c) => Meets(worker[i], client[c])
    /\ client[c] = "session" =>
         /\ id_session[c] \in Slots
         /\ worker[id_session[c]] = "serve" /\ path[id_session[c]] = c

\* Only a dead client leaves the end of its pipe, and only one that quits
\* leaves an op code.
PipeState(c) ==
  /\ pipe[c] = "eof" => client[c] = "dead"
  /\ client[c] \in InSetup \cup {"make_response"} => pipe[c] = "empty"

\* The named pipes that a living client and its worker rely on are there.
Fifos(c) ==
  client[c] # "dead" =>
    /\ client[c] \in InSetup \cup {"make_response"} => <<"request", c>> \in fifos
    /\ client[c] \in InSetup => <<"response", c>> \in fifos
    /\ \A i \in Slots : Holds(i, c) =>
         /\ worker[i] \in {"serve", "unlink_request"} => <<"request", c>> \in fifos
         /\ worker[i] \in {"serve", "unlink_request", "unlink_response"} =>
              <<"response", c>> \in fifos

ClientInv(c) == Once(c) /\ Met(c) /\ PipeState(c) /\ Fifos(c)

SlotInv == \A i \in Slots : UsesPipes(i) \/ Filled(i) => path[i] \in Clients

IsolationInv == SlotInv /\ \A c \in Clients : ClientInv(c)

\* A step that does not touch client c: its request stays where it is.
Apart(c) ==
  /\ \A j \in Slots : /\ Holds(j, c)' <=> Holds(j, c)
                      /\ Holds(j, c) => \/ worker'[j] = worker[j]
                                        \/ {worker[j], worker'[j]} \subseteq NotWoken
  /\ Queued(c)' => Queued(c)
  /\ Twice(c)' => Twice(c)
  /\ InHand(c)' => InHand(c)
  /\ client'[c] = client[c] /\ id_session'[c] = id_session[c] /\ pipe'[c] = pipe[c]
  /\ \A kind \in {"request", "response"} : <<kind, c>> \in fifos => <<kind, c>> \in fifos'

LEMMA ApartKeeps ==
  ASSUME NEW c \in Clients, ClientInv(c), Apart(c) PROVE ClientInv(c)'
<1>1. Once(c)'
  BY DEF ClientInv, Once, Apart
<1>2. Met(c)'
  <2>1. \A i \in Slots : Holds(i, c)' /\ client'[c] # "dead" => Meets(worker'[i], client'[c])
    BY DEF ClientInv, Met, Apart, Meets, NotWoken, BetweenSessions
  <2>2. ASSUME client'[c] # "dead", client'[c] = "session"
        PROVE  /\ id_session'[c] \in Slots
               /\ worker'[id_session'[c]] = "serve" /\ path'[id_session'[c]] = c
    <3>1. PICK i \in Slots : /\ i = id_session[c] /\ i = id_session'[c]
                             /\ worker[i] = "serve" /\ path[i] = c
      BY <2>2 DEF ClientInv, Met, Apart
    <3>2. Holds(i, c)
      BY <3>1 DEF Holds, UsesPipes
    <3>3. worker'[i] = "serve"
      BY <3>1, <3>2 DEF Apart, NotWoken, BetweenSessions
    <3>4. Holds(i, c)'
      BY <3>2 DEF Apart
    <3> QED
      BY <3>1, <3>3, <3>4 DEF Holds
  <2> QED
    BY <2>1, <2>2 DEF ClientInv, Met, Apart
<1>3. PipeState(c)'
  BY DEF ClientInv, PipeState, Apart
<1>4. Fifos(c)'
  BY DEF ClientInv, Fifos, Apart, NotWoken, BetweenSessions
<1> QED
  BY <1>1, <1>2, <1>3, <1>4 DEF ClientInv

\* A worker moves on with the pipes of its client.
LEMMA ServingStep ==
  ASSUME SlotsInv, NEW i \in Slots, NEW to \in WorkerPlaces,
         worker' = [worker EXCEPT ![i] = to], UNCHANGED <<free, path>>,
         UsesPipes(i), to \notin BetweenSessions \cup {"reset"}
  PROVE  /\ UsesPipes(i)' /\ (SlotInv => SlotInv')
         /\ \A j \in Slots, c \in Clients : Holds(j, c)' <=> Holds(j, c)
         /\ \A j \in Slots : j # i => worker'[j] = worker[j]
<1>1. worker \in [Slots -> WorkerPlaces]
  BY DEF SlotsInv, DataOK
<1>2. UsesPipes(i)' /\ \A j \in Slots : j # i => worker'[j] = worker[j]
  BY <1>1 DEF UsesPipes, BetweenSessions
<1>3. \A j \in Slots : (UsesPipes(j) <=> UsesPipes(j)') /\ (j # i => (Filled(j) <=> Filled(j)'))
  BY <1>1, <1>2 DEF UsesPipes, Filled
<1> QED
  BY <1>2, <1>3 DEF SlotInv, Holds

\* The steps of a worker with its client's pipes open, or opening them.
LEMMA MeetStep ==
  ASSUME SlotsInv, IsolationInv, NEW i \in Slots, NEW c \in Clients,
         OpenRequest(i, c) \/ OpenResponse(i, c) \/ SendId(i, c)
  PROVE  IsolationInv'
<1>1. /\ worker \in [Slots -> WorkerPlaces] /\ client \in [Clients -> ClientPlaces]
      /\ id_session \in [Clients -> Slots \cup {Nobody}]
  BY DEF SlotsInv, DataOK
<1>2. /\ path[i] = c /\ UsesPipes(i) /\ UNCHANGED <<free, path, register, request,
                                                    dispatcher, pipe, fifos>>
      /\ \A d \in Clients : d # c => client'[d] = client[d] /\ id_session'[d] = id_session[d]
  BY <1>1 DEF OpenRequest, OpenResponse, SendId, WorkerGoto, ClientGoto, UsesPipes,
     queue, slots, pipes
<1>3. PICK to \in {"open_response", "send_id", "serve"} : worker' = [worker EXCEPT ![i] = to]
  BY DEF OpenRequest, OpenResponse, SendId, WorkerGoto
<1>4. /\ UsesPipes(i)' /\ (SlotInv => SlotInv')
      /\ \A j \in Slots, d \in Clients : Holds(j, d)' <=> Holds(j, d)
      /\ \A j \in Slots : j # i => worker'[j] = worker[j]
  BY <1>2, <1>3, ServingStep DEF WorkerPlaces, BetweenSessions
<1>5. ASSUME NEW d \in Clients, d # c PROVE ClientInv(d)'
  <2>1. Apart(d)
    BY <1>2, <1>4, <1>5 DEF Apart, Queued, Twice, InHand, Holds
  <2> QED
    BY <2>1, ApartKeeps DEF IsolationInv
<1>6. ClientInv(c)'
  <2>1. ClientInv(c) /\ Holds(i, c)
    BY <1>2 DEF IsolationInv, Holds
  <2>2. /\ Once(c)' /\ ~ Queued(c)' /\ ~ InHand(c)'
        /\ \A j \in Slots : Holds(j, c)' => j = i
    BY <1>2, <1>4, <2>1 DEF ClientInv, Once, Queued, Twice, InHand
  <2>3. /\ client[c] \in {"open_request", "open_response", "read_id"}
        /\ client'[c] \in {"open_response", "read_id", "session"}
        /\ Meets(worker'[i], client'[c])
        /\ client'[c] = "session" => id_session'[c] = i /\ worker'[i] = "serve"
    BY <1>1 DEF OpenRequest, OpenResponse, SendId, WorkerGoto, ClientGoto, Meets
  <2>4. Met(c)'
    BY <1>2, <2>2, <2>3 DEF Met
  <2>5. PipeState(c)' /\ Fifos(c)'
    BY <1>2, <2>1, <2>2, <2>3 DEF ClientInv, PipeState, Fifos, InSetup
  <2> QED
    BY <2>2, <2>4, <2>5 DEF ClientInv
<1> QED
  BY <1>4, <1>5, <1>6 DEF IsolationInv

\* A worker ends its session and unlinks the pipes.
LEMMA EndStep ==
  ASSUME SlotsInv, IsolationInv, NEW i \in Slots,
         ReadQuit(i) \/ UnlinkRequest(i) \/ UnlinkResponse(i)
  PROVE  IsolationInv'
<1>1. worker \in [Slots -> WorkerPlaces]
  BY DEF SlotsInv, DataOK
<1>2. /\ UsesPipes(i) /\ UNCHANGED <<free, path, register, request, dispatcher,
                                     client, id_session, pipe>>
      /\ \A c \in Clients, kind \in {"request", "response"} :
           c # path[i] /\ <<kind, c>> \in fifos => <<kind, c>> \in fifos'
  BY DEF ReadQuit, UnlinkRequest, UnlinkResponse, WorkerGoto, UsesPipes, queue, slots,
     clients, pipes
<1>3. PICK c \in Clients : c = path[i]
  BY <1>2 DEF IsolationInv, SlotInv
<1>4. /\ SlotInv'
      /\ \A j \in Slots, d \in Clients : d # c => (Holds(j, d)' <=> Holds(j, d))
      /\ \A j \in Slots : Holds(j, c)' => Holds(j, c)
      /\ \A j \in Slots : j # i => worker'[j] = worker[j]
  <2>1. CASE ReadQuit(i) \/ UnlinkRequest(i)
    <3>1. PICK to \in {"unlink_request", "unlink_response"} :
                 worker' = [worker EXCEPT ![i] = to]
      BY <2>1 DEF ReadQuit, UnlinkRequest, WorkerGoto
    <3> QED
      BY <1>2, <3>1, ServingStep DEF WorkerPlaces, BetweenSessions, IsolationInv
  <2>2. CASE UnlinkResponse(i)
    <3>1. worker' = [worker EXCEPT ![i] = "reset"]
      BY <2>2 DEF UnlinkResponse, WorkerGoto
    <3>2. \A j \in Slots : j # i => worker'[j] = worker[j]
      BY <1>1, <3>1
    <3>3. ~ UsesPipes(i)' /\ ~ Filled(i)'
      BY <1>1, <3>1 DEF UsesPipes, Filled, BetweenSessions
    <3>4. \A j \in Slots : j # i => (UsesPipes(j)' <=> UsesPipes(j)) /\ (Filled(j)' <=> Filled(j))
      BY <1>2, <3>2 DEF UsesPipes, Filled
    <3> QED
      BY <1>2, <1>3, <3>2, <3>3, <3>4 DEF Holds, SlotInv, IsolationInv
  <2> QED
    BY <2>1, <2>2
<1>5. ASSUME NEW d \in Clients, d # c PROVE ClientInv(d)'
  <2>1. Apart(d)
    BY <1>2, <1>3, <1>4, <1>5 DEF Apart, Queued, Twice, InHand, Holds
  <2> QED
    BY <2>1, ApartKeeps DEF IsolationInv
<1>6. ClientInv(c)'
  <2>1. ClientInv(c) /\ Holds(i, c)
    BY <1>2, <1>3 DEF IsolationInv, Holds
  <2>2. /\ Once(c)' /\ ~ Queued(c)' /\ ~ InHand(c)'
        /\ \A j \in Slots : Holds(j, c)' => j = i
    BY <1>2, <1>4, <2>1 DEF ClientInv, Once, Queued, Twice, InHand
  <2>3. /\ client[c] # "dead" => client[c] \in {"idle", "make_response"}
        /\ client[c] # "dead" /\ Holds(i, c)' => Meets(worker'[i], client[c])
    <3>1. CASE ReadQuit(i)
      BY <1>1, <1>3, <2>1, <3>1 DEF ReadQuit, WorkerGoto, ClientInv, Met, Meets, NotWoken,
         BetweenSessions, PipeState, InSetup
    <3>2. CASE UnlinkRequest(i)
      BY <1>1, <1>3, <2>1, <3>2 DEF UnlinkRequest, WorkerGoto, ClientInv, Met, Meets,
         NotWoken, BetweenSessions
    <3>3. CASE UnlinkResponse(i)
      BY <1>1, <1>3, <2>1, <3>3 DEF UnlinkResponse, WorkerGoto, ClientInv, Met, Meets,
         NotWoken, BetweenSessions, Holds, UsesPipes, Filled
    <3> QED
      BY <3>1, <3>2, <3>3
  <2>4. Met(c)'
    BY <1>2, <2>2, <2>3 DEF Met
  <2>5. PipeState(c)'
    BY <1>2, <2>1 DEF ClientInv, PipeState
  <2>6. Fifos(c)'
    <3>1. CASE ReadQuit(i)
      BY <1>1, <1>2, <1>3, <2>1, <2>2, <2>3, <3>1
         DEF ReadQuit, WorkerGoto, ClientInv, Fifos, InSetup, pipes
    <3>2. CASE UnlinkRequest(i)
      <4>1. worker[i] = "unlink_request" /\ worker'[i] = "unlink_response"
        BY <1>1, <3>2 DEF UnlinkRequest, WorkerGoto
      <4>2. client[c] # "dead" => client[c] = "idle"
        BY <2>1, <4>1 DEF ClientInv, Met, Meets, NotWoken, BetweenSessions
      <4>3. client[c] # "dead" => <<"response", c>> \in fifos'
        BY <1>3, <2>1, <3>2, <4>1 DEF UnlinkRequest, ClientInv, Fifos
      <4> QED
        BY <1>2, <2>2, <4>1, <4>2, <4>3 DEF Fifos, InSetup
    <3>3. CASE UnlinkResponse(i)
      <4>1. worker[i] = "unlink_response" /\ worker'[i] = "reset"
        BY <1>1, <3>3 DEF UnlinkResponse, WorkerGoto
      <4>2. client[c] = "make_response" => <<"request", c>> \in fifos'
        BY <1>3, <2>1, <3>3 DEF UnlinkResponse, ClientInv, Fifos
      <4> QED
        BY <1>2, <2>2, <2>3, <4>1, <4>2 DEF Fifos, InSetup
    <3> QED
      BY <3>1, <3>2, <3>3
  <2> QED
    BY <2>2, <2>4, <2>5, <2>6 DEF ClientInv
<1> QED
  BY <1>4, <1>5, <1>6 DEF IsolationInv

\* A worker between two sessions, or one whose exit ends the server.
LEMMA RestStep ==
  ASSUME SlotsInv, IsolationInv, NEW i \in Slots,
         CondWait(i) \/ ResetWorker(i) \/ SemPost(i) \/ ExitFailure(i)
  PROVE  IsolationInv'
<1>1. worker \in [Slots -> WorkerPlaces] /\ free \in [Slots -> BOOLEAN]
  BY DEF SlotsInv, DataOK
<1>2. UNCHANGED <<path, register, request, dispatcher, client, id_session, fifos, pipe>>
  BY DEF CondWait, ResetWorker, SemPost, ExitFailure, queue, slots, clients, pipes
<1>3. \A j \in Slots : /\ UsesPipes(j)' <=> UsesPipes(j)
                       /\ Filled(j)' <=> Filled(j)
                       /\ UsesPipes(j) \/ Filled(j) =>
                            \/ worker'[j] = worker[j]
                            \/ {worker[j], worker'[j]} \subseteq NotWoken
  BY <1>1 DEF CondWait, ResetWorker, SemPost, ExitFailure, WorkerGoto, UsesPipes,
     Filled, NotWoken, BetweenSessions, slots
<1>4. SlotInv'
  BY <1>2, <1>3 DEF IsolationInv, SlotInv
<1>5. ASSUME NEW c \in Clients PROVE ClientInv(c)'
  <2>1. Apart(c)
    BY <1>2, <1>3 DEF Apart, Queued, Twice, InHand, Holds
  <2> QED
    BY <2>1, ApartKeeps DEF IsolationInv
<1> QED
  BY <1>4, <1>5 DEF IsolationInv

LEMMA WorkIsolation ==
  ASSUME SlotsInv, IsolationInv, NEW i \in Slots, Work(i) PROVE IsolationInv'
BY MeetStep, EndStep, RestStep DEF Work

\* The dispatcher takes the request from the pipe to a slot.
LEMMA DispatchIsolation ==
  ASSUME SlotsInv, IsolationInv, Dispatch PROVE IsolationInv'
<1>0. /\ worker \in [Slots -> WorkerPlaces] /\ free \in [Slots -> BOOLEAN]
      /\ path \in [Slots -> Clients \cup {Nobody}] /\ register \in Seq(Clients)
  BY DEF SlotsInv, DataOK
<1>1. UNCHANGED <<client, id_session, fifos, pipe>>
  BY DEF Dispatch, ReadRegister, SemWait, GetFree, FillSlot, Signal, clients, pipes
<1>2. CASE ReadRegister
  <2>0. PICK d \in Clients : d = Head(register)
    BY <1>0, <1>2 DEF ReadRegister
  <2>1. /\ UNCHANGED <<free, path, worker>> /\ request' = d /\ dispatcher = "read"
        /\ dispatcher' = "wait" /\ register # <<>> /\ register' = Tail(register)
    BY <1>2, <2>0 DEF ReadRegister, DispatcherGoto, slots
  <2>2. /\ 1 \in DOMAIN register /\ register[1] = d
        /\ \A k \in DOMAIN register' : /\ k + 1 \in DOMAIN register /\ k + 1 # 1
                                       /\ register'[k] = register[k + 1]
        /\ DOMAIN register' \subseteq Nat
    BY <1>0, <2>0, <2>1
  <2>3. \A c : (Queued(c)' => Queued(c)) /\ (Twice(c)' => Twice(c))
    <3>1. ASSUME NEW c, Queued(c)' PROVE Queued(c)
      BY <2>2, <3>1 DEF Queued
    <3>2. ASSUME NEW c, Twice(c)' PROVE Twice(c)
      <4>1. PICK k \in DOMAIN register', l \in DOMAIN register' :
                   k # l /\ register'[k] = c /\ register'[l] = c
        BY <3>2 DEF Twice
      <4>2. k + 1 # l + 1
        BY <2>2, <4>1
      <4> QED
        BY <2>2, <4>1, <4>2 DEF Twice
    <3> QED
      BY <3>1, <3>2
  <2>4. \A j \in Slots : (UsesPipes(j)' <=> UsesPipes(j)) /\ (Filled(j)' <=> Filled(j))
    BY <2>1 DEF UsesPipes, Filled
  <2>5. ASSUME NEW c \in Clients, c # d PROVE ClientInv(c)'
    <3>1. Apart(c)
      BY <1>1, <2>1, <2>3, <2>4, <2>5 DEF Apart, InHand, Holds
    <3> QED
      BY <3>1, ApartKeeps DEF IsolationInv
  <2>6. ClientInv(d)'
    <3>1. ClientInv(d) /\ Queued(d)
      BY <2>2 DEF IsolationInv, Queued
    <3>2. ~ Queued(d)'
      BY <2>2, <3>1 DEF ClientInv, Once, Queued, Twice
    <3>3. \A j \in Slots : ~ Holds(j, d)'
      BY <2>1, <2>4, <3>1 DEF ClientInv, Once, Holds
    <3>4. Once(d)'
      BY <2>3, <3>1, <3>2, <3>3 DEF ClientInv, Once
    <3>5. Met(d)' /\ PipeState(d)' /\ Fifos(d)'
      BY <1>1, <3>1, <3>3 DEF ClientInv, Met, PipeState, Fifos
    <3> QED
      BY <3>4, <3>5 DEF ClientInv
  <2>7. SlotInv'
    BY <2>1, <2>4 DEF IsolationInv, SlotInv
  <2> QED
    BY <2>5, <2>6, <2>7 DEF IsolationInv
<1>3. CASE SemWait \/ GetFree
  <2>1. /\ UNCHANGED <<free, path, worker, register, request>>
        /\ dispatcher \in {"wait", "search", "fill"}
    BY <1>3 DEF SemWait, GetFree, DispatcherGoto, slots
  <2>2. \A j \in Slots : (UsesPipes(j)' <=> UsesPipes(j)) /\ (Filled(j)' <=> Filled(j))
    BY <2>1 DEF UsesPipes, Filled
  <2>3. ASSUME NEW c \in Clients PROVE ClientInv(c)'
    <3>1. Apart(c)
      BY <1>1, <2>1, <2>2 DEF Apart, InHand, Holds, Queued, Twice
    <3> QED
      BY <3>1, ApartKeeps DEF IsolationInv
  <2> QED
    BY <2>1, <2>2, <2>3 DEF IsolationInv, SlotInv
<1>4. CASE FillSlot
  <2>1. /\ dispatcher = "fill" /\ dispatcher' = "signal" /\ chosen \in Slots
        /\ free[chosen] /\ request \in Clients
        /\ path' = [path EXCEPT ![chosen] = request]
        /\ free' = [free EXCEPT ![chosen] = FALSE]
        /\ UNCHANGED <<register, request, worker, chosen>>
    BY <1>4 DEF FillSlot, DispatcherGoto, SlotsInv, DataOK, FillInv
  <2>2. worker[chosen] \in BetweenSessions /\ ~ UsesPipes(chosen)
    BY <2>1 DEF SlotsInv, BusyInv, UsesPipes, BetweenSessions
  <2>3. /\ \A j \in Slots : UsesPipes(j)' <=> UsesPipes(j)
        /\ \A j \in Slots : j # chosen => (Filled(j)' <=> Filled(j)) /\ path'[j] = path[j]
        /\ Filled(chosen)' /\ ~ Filled(chosen) /\ path'[chosen] = request
    BY <1>0, <2>1, <2>2 DEF UsesPipes, Filled
  <2>4. \A c \in Clients : \A j \in Slots :
           Holds(j, c)' <=> (Holds(j, c) \/ (j = chosen /\ c = request))
    <3> SUFFICES ASSUME NEW c \in Clients, NEW j \in Slots
                 PROVE  Holds(j, c)' <=> (Holds(j, c) \/ (j = chosen /\ c = request))
      OBVIOUS
    <3>1. CASE j = chosen
      <4>1. Filled(j)' /\ path'[j] = request /\ ~ Filled(j) /\ ~ UsesPipes(j)
        BY <2>1, <2>2, <2>3, <3>1
      <4> QED
        BY <3>1, <4>1 DEF Holds
    <3>2. CASE j # chosen
      <4>1. /\ UsesPipes(j)' <=> UsesPipes(j)
            /\ Filled(j)' <=> Filled(j)
            /\ path'[j] = path[j]
        BY <2>3, <3>2
      <4> QED
        BY <3>2, <4>1 DEF Holds
    <3> QED
      BY <3>1, <3>2
  <2>5. ASSUME NEW c \in Clients, c # request PROVE ClientInv(c)'
    <3>1. Apart(c)
      BY <1>1, <2>1, <2>4, <2>5 DEF Apart, InHand, Queued, Twice
    <3> QED
      BY <3>1, ApartKeeps DEF IsolationInv
  <2>6. ASSUME NEW d \in Clients, d = request PROVE ClientInv(d)'
    <3>1. ClientInv(d) /\ InHand(d)
      BY <2>1, <2>6 DEF IsolationInv, InHand
    <3>2. /\ ~ Queued(d)' /\ ~ InHand(d)' /\ ~ Twice(d)'
          /\ \A j \in Slots : Holds(j, d)' <=> j = chosen
      BY <2>1, <2>4, <2>6, <3>1 DEF ClientInv, Once, Queued, Twice, InHand
    <3>3. client[d] # "dead" => client[d] = "open_request"
      BY <3>1 DEF ClientInv, Met
    <3>4. Once(d)' /\ PipeState(d)'
      BY <1>1, <3>1, <3>2 DEF ClientInv, Once, PipeState
    <3>5. Met(d)'
      BY <1>1, <2>1, <2>2, <3>2, <3>3 DEF Met, Meets, NotWoken
    <3>6. Fifos(d)'
      BY <1>1, <2>1, <2>2, <3>1, <3>2 DEF ClientInv, Fifos, BetweenSessions
    <3> QED
      BY <3>4, <3>5, <3>6 DEF ClientInv
  <2>7. SlotInv'
    BY <2>1, <2>3 DEF IsolationInv, SlotInv
  <2> QED
    BY <2>1, <2>5, <2>6, <2>7 DEF IsolationInv
<1>5. CASE Signal
  <2>1. /\ dispatcher = "signal" /\ dispatcher' = "read" /\ chosen \in Slots
        /\ ~ free[chosen] /\ worker[chosen] \in BetweenSessions
        /\ UNCHANGED <<free, path, register>>
        /\ worker' = [worker EXCEPT ![chosen] =
                        IF worker[chosen] = "waiting" THEN "open_request"
                        ELSE worker[chosen]]
    BY <1>5 DEF Signal, DispatcherGoto, slots, SlotsInv, DataOK, SignalInv
  <2>2. \A j \in Slots : /\ (UsesPipes(j) \/ Filled(j))' <=> (UsesPipes(j) \/ Filled(j))
                         /\ \/ worker'[j] = worker[j]
                            \/ {worker[j], worker'[j]} \subseteq NotWoken
    BY <1>0, <2>1 DEF UsesPipes, Filled, BetweenSessions, NotWoken
  <2>3. ASSUME NEW c \in Clients PROVE ClientInv(c)'
    <3>1. Apart(c)
      BY <1>1, <2>1, <2>2 DEF Apart, InHand, Holds, Queued, Twice
    <3> QED
      BY <3>1, ApartKeeps DEF IsolationInv
  <2> QED
    BY <2>1, <2>2, <2>3 DEF IsolationInv, SlotInv
<1> QED
  BY <1>2, <1>3, <1>4, <1>5 DEF Dispatch

\* Steps of a client leave the server where it is, so that only the
\* register pipe can bring a request of the client in.
LEMMA ClientIsolation ==
  ASSUME SlotsInv, IsolationInv, ClientStep PROVE IsolationInv'
<1>0. PICK d \in Clients : \/ MakeRequestPipe(d) \/ MakeResponsePipe(d) \/ Register(d)
                           \/ Quit(d) \/ Die(d)
  BY DEF ClientStep, Setup
<1>1. /\ register \in Seq(Clients) /\ client \in [Clients -> ClientPlaces]
      /\ id_session \in [Clients -> Slots \cup {Nobody}]
      /\ pipe \in [Clients -> {"empty", "quit", "eof"}]
  BY DEF SlotsInv, DataOK
<1>2. /\ UNCHANGED <<worker, free, path, dispatcher, request>>
      /\ \A c \in Clients : c # d => /\ client'[c] = client[c] /\ pipe'[c] = pipe[c]
                                     /\ id_session'[c] = id_session[c]
      /\ \A c \in Clients, kind \in {"request", "response"} :
           <<kind, c>> \in fifos => <<kind, c>> \in fifos'
  BY <1>0, <1>1 DEF MakeRequestPipe, MakeResponsePipe, Register, Quit, Die, ClientGoto,
     queue, slots, pipes
<1>3. /\ SlotInv'
      /\ \A j \in Slots, c \in Clients : Holds(j, c)' <=> Holds(j, c)
      /\ \A c \in Clients : InHand(c)' <=> InHand(c)
  BY <1>2 DEF IsolationInv, SlotInv, Holds, UsesPipes, Filled, InHand
<1>4. ClientInv(d) /\ \A c \in Clients : ClientInv(c)
  BY DEF IsolationInv
<1>5. CASE Register(d)
  <2>1. /\ client[d] = "register" /\ client'[d] = "open_request"
        /\ register' = Append(register, d) /\ UNCHANGED <<pipe, fifos>>
    BY <1>1, <1>5 DEF Register, ClientGoto, pipes
  <2>2. PICK n \in Nat : /\ DOMAIN register = 1 .. n /\ DOMAIN register' = 1 .. n + 1
                         /\ \A k \in 1 .. n : register'[k] = register[k]
                         /\ register'[n + 1] = d
    <3>1. Len(register) \in Nat /\ DOMAIN register = 1 .. Len(register)
      BY <1>1
    <3>2. /\ DOMAIN register' = 1 .. Len(register) + 1
          /\ \A k \in 1 .. Len(register) : register'[k] = register[k]
          /\ register'[Len(register) + 1] = d
      BY <1>1, <2>1, <3>1
    <3> QED
      BY <3>1, <3>2
  <2>3. \A c \in Clients : c # d => (Queued(c)' => Queued(c)) /\ (Twice(c)' => Twice(c))
    BY <2>2 DEF Queued, Twice
  <2>4. ASSUME NEW c \in Clients, c # d PROVE ClientInv(c)'
    <3>1. Apart(c)
      BY <1>2, <1>3, <2>3, <2>4 DEF Apart
    <3> QED
      BY <1>4, <3>1, ApartKeeps
  <2>5. ~ Queued(d) /\ ~ InHand(d) /\ \A j \in Slots : ~ Holds(j, d)
    BY <1>4, <2>1 DEF ClientInv, Met, Meets, NotWoken, BetweenSessions
  <2>6. ~ Twice(d)'
    <3> SUFFICES ASSUME NEW k \in 1 .. n + 1, NEW l \in 1 .. n + 1, k # l,
                        register'[k] = d, register'[l] = d
                 PROVE  FALSE
      BY <2>2 DEF Twice
    <3>1. k \in 1 .. n \/ l \in 1 .. n
      OBVIOUS
    <3> QED
      BY <2>2, <2>5, <3>1 DEF Queued
  <2>7. ClientInv(d)'
    BY <1>2, <1>3, <1>4, <2>1, <2>5, <2>6 DEF ClientInv, Once, Met, PipeState, Fifos, InSetup
  <2> QED
    BY <1>3, <2>4, <2>7 DEF IsolationInv
<1>6. CASE \/ MakeRequestPipe(d) \/ MakeResponsePipe(d) \/ Quit(d) \/ Die(d)
  <2>1. register' = register
    BY <1>6 DEF MakeRequestPipe, MakeResponsePipe, Quit, Die, queue
  <2>2. \A c \in Clients : (Queued(c)' <=> Queued(c)) /\ (Twice(c)' <=> Twice(c))
    BY <2>1 DEF Queued, Twice
  <2>3. ASSUME NEW c \in Clients, c # d PROVE ClientInv(c)'
    <3>1. Apart(c)
      BY <1>2, <1>3, <2>2, <2>3 DEF Apart
    <3> QED
      BY <1>4, <3>1, ApartKeeps
  <2>4. Once(d)'
    BY <1>3, <1>4, <2>2 DEF ClientInv, Once
  <2>5. Met(d)' /\ PipeState(d)' /\ Fifos(d)'
    <3>1. CASE MakeRequestPipe(d)
      <4>1. client[d] = "idle"
        BY <3>1 DEF MakeRequestPipe, ClientGoto
      <4>2. CASE <<"request", d>> \in fifos
        <5>1. UNCHANGED <<client, id_session, pipes>>
          BY <3>1, <4>2 DEF MakeRequestPipe
        <5> QED
          BY <1>2, <1>3, <1>4, <2>2, <5>1 DEF ClientInv, Met, PipeState, Fifos, pipes
      <4>3. CASE <<"request", d>> \notin fifos
        <5>1. /\ client'[d] = "make_response" /\ pipe'[d] = "empty"
              /\ <<"request", d>> \in fifos'
          BY <1>1, <3>1, <4>3 DEF MakeRequestPipe, ClientGoto
        <5>2. \A j \in Slots : Holds(j, d) => worker[j] = "unlink_response"
          BY <1>4, <4>1, <4>3 DEF ClientInv, Met, Fifos, Meets, NotWoken, BetweenSessions
        <5> QED
          BY <1>2, <1>3, <1>4, <2>2, <4>1, <5>1, <5>2
             DEF ClientInv, Met, PipeState, Fifos, Meets, InSetup
      <4> QED
        BY <4>2, <4>3
    <3>2. CASE MakeResponsePipe(d)
      <4>1. client[d] = "make_response" /\ pipe' = pipe /\ <<"request", d>> \in fifos'
        BY <1>2, <1>4, <3>2 DEF MakeResponsePipe, ClientGoto, ClientInv, Fifos
      <4>2. \A j \in Slots : Holds(j, d) => worker[j] = "unlink_response"
        BY <1>4, <4>1 DEF ClientInv, Met, Meets, NotWoken, BetweenSessions
      <4>3. CASE <<"response", d>> \in fifos
        <5>1. client'[d] = "idle" /\ fifos' = fifos
          BY <1>1, <3>2, <4>3 DEF MakeResponsePipe, ClientGoto
        <5> QED
          BY <1>2, <1>3, <1>4, <2>2, <4>1, <4>2, <5>1
             DEF ClientInv, Met, PipeState, Fifos, Meets, InSetup
      <4>4. CASE <<"response", d>> \notin fifos
        <5>1. client'[d] = "register" /\ <<"response", d>> \in fifos'
          BY <1>1, <3>2, <4>4 DEF MakeResponsePipe, ClientGoto
        <5>2. \A j \in Slots : ~ Holds(j, d)
          BY <1>4, <4>1, <4>2, <4>4 DEF ClientInv, Fifos
        <5> QED
          BY <1>2, <1>3, <1>4, <2>2, <4>1, <5>1, <5>2
             DEF ClientInv, Met, PipeState, Fifos, InSetup
      <4> QED
        BY <4>3, <4>4
    <3>3. CASE Quit(d)
      <4>1. /\ client[d] = "session" /\ client'[d] = "idle" /\ pipe'[d] = "quit"
            /\ fifos' = fifos
        BY <1>1, <3>3 DEF Quit, ClientGoto
      <4> QED
        BY <1>2, <1>3, <1>4, <2>2, <4>1
           DEF ClientInv, Met, PipeState, Fifos, Meets, InSetup, NotWoken, BetweenSessions
    <3>4. CASE Die(d)
      <4>1. client'[d] = "dead" /\ pipe'[d] = "eof"
        BY <1>1, <3>4 DEF Die
      <4> QED
        BY <4>1 DEF Met, PipeState, Fifos, InSetup
    <3> QED
      BY <1>6, <3>1, <3>2, <3>3, <3>4
  <2> QED
    BY <1>3, <2>3, <2>4, <2>5 DEF IsolationInv, ClientInv
<1> QED
  BY <1>0, <1>5, <1>6

\* At first there is no request and no pipe.
LEMMA IsolationInit == Init => IsolationInv
<1> SUFFICES ASSUME Init PROVE IsolationInv
  OBVIOUS
<1>1. \A i \in Slots : ~ UsesPipes(i) /\ ~ Filled(i)
  BY DEF Init, UsesPipes, Filled
<1>2. \A c \in Clients : ~ Queued(c) /\ ~ Twice(c) /\ ~ InHand(c)
  BY DEF Init, Queued, Twice, InHand
<1> QED
  BY <1>1, <1>2 DEF Init, IsolationInv, SlotInv, ClientInv, Once, Met, PipeState, Fifos,
     Holds, InSetup

\* The server stays up.  A worker whose next step would fail has a client
\* that died, and who died stays dead.
LEMMA WorkersWork ==
  ASSUME SlotsInv, IsolationInv, ~ SomebodyDied, NEW i \in Slots PROVE Works(i)
<1>1. CASE UsesPipes(i)
  <2>1. PICK c \in Clients : c = path[i]
    BY <1>1 DEF IsolationInv, SlotInv
  <2>2. /\ client[c] # "dead" /\ Holds(i, c) /\ Meets(worker[i], client[c])
        /\ PipeState(c) /\ Fifos(c)
    BY <1>1, <2>1 DEF SomebodyDied, IsolationInv, ClientInv, Met, Holds
  <2>3. worker[i] = "send_id" => client[c] = "read_id"
    BY <2>2 DEF Meets, NotWoken, BetweenSessions
  <2>4. worker[i] = "serve" => pipe[c] # "eof"
    BY <2>2 DEF PipeState
  <2>5. /\ worker[i] \in {"open_request", "unlink_request"} => <<"request", c>> \in fifos
        /\ worker[i] \in {"open_response", "unlink_response"} => <<"response", c>> \in fifos
    BY <2>2 DEF Fifos, Meets, NotWoken, BetweenSessions, InSetup
  <2>6. NeededPipes(i) \subseteq fifos
    BY <2>1, <2>5 DEF NeededPipes
  <2> QED
    BY <2>1, <2>3, <2>4, <2>6 DEF Works
<1>2. CASE ~ UsesPipes(i)
  BY <1>2 DEF UsesPipes, Works, NeededPipes
<1> QED
  BY <1>1, <1>2

LEMMA DeadStayDead ==
  ASSUME DataOK, SomebodyDied,
         UNCHANGED clients \/ (\E i \in Slots : Work(i)) \/ ClientStep
  PROVE  SomebodyDied'
<1>1. client \in [Clients -> ClientPlaces]
  BY DEF DataOK
<1>2. PICK c \in Clients : client[c] = "dead"
  BY DEF SomebodyDied
<1>3. CASE client' = client
  BY <1>2, <1>3 DEF SomebodyDied
<1>4. CASE \E d \in Clients : d # c /\ \E there : client' = [client EXCEPT ![d] = there]
  BY <1>1, <1>2, <1>4 DEF SomebodyDied
<1>5. \/ client' = client
      \/ \E d \in Clients : d # c /\ \E there : client' = [client EXCEPT ![d] = there]
  <2>1. ASSUME NEW i \in Slots, Work(i)
        PROVE  \/ client' = client
               \/ \E d \in Clients : d # c /\ \E there : client' = [client EXCEPT ![d] = there]
    BY <1>2, <2>1 DEF Work, CondWait, ReadQuit, UnlinkRequest, UnlinkResponse, ResetWorker,
       SemPost, ExitFailure, OpenRequest, OpenResponse, SendId, ClientGoto, clients
  <2>2. CASE ClientStep
    BY <1>2, <2>2 DEF ClientStep, Setup, MakeRequestPipe, MakeResponsePipe, Register, Quit,
       Die, ClientGoto
  <2> QED
    BY <2>1, <2>2 DEF clients
<1> QED
  BY <1>3, <1>4, <1>5

LEMMA StaysUpStep ==
  ASSUME IInv, IsolationInv, ServerStaysUp, [Next]_vars PROVE ServerStaysUp'
<1>1. SlotsInv
  BY InvParts
<1>2. UNCHANGED clients \/ (\E i \in Slots : Work(i)) \/ ClientStep
  BY DEF Next, ServerStep, Dispatch, ReadRegister, SemWait, GetFree, FillSlot, Signal, vars
<1>3. SomebodyDied => SomebodyDied'
  BY <1>1, <1>2, DeadStayDead DEF SlotsInv
<1>4. CASE \E i \in Slots : ExitFailure(i)
  BY <1>1, <1>3, <1>4, WorkersWork DEF ExitFailure, ServerStaysUp
<1>5. CASE server' = server
  BY <1>3, <1>5 DEF ServerStaysUp
<1>6. server' = server \/ \E i \in Slots : ExitFailure(i)
  BY DEF Next, ServerStep, Work, CondWait, ReadQuit, UnlinkRequest, UnlinkResponse,
     ResetWorker, SemPost, OpenRequest, OpenResponse, SendId, ClientStep, Setup,
     MakeRequestPipe, MakeResponsePipe, Register, Quit, Die, vars
<1> QED
  BY <1>4, <1>5, <1>6

LEMMA IsolationStep ==
  IInv /\ IsolationInv /\ [Next]_vars => IsolationInv'
<1> SUFFICES ASSUME IInv, IsolationInv, [Next]_vars PROVE IsolationInv'
  OBVIOUS
<1>0. SlotsInv
  BY InvParts
<1>1. CASE UNCHANGED vars
  BY <1>1 DEF vars, queue, slots, clients, pipes, IsolationInv, SlotInv, ClientInv, Once,
     Met, PipeState, Fifos, Holds, UsesPipes, Filled, Queued, Twice, InHand
<1>2. CASE Dispatch
  BY <1>0, <1>2, DispatchIsolation
<1>3. ASSUME NEW i \in Slots, Work(i) PROVE IsolationInv'
  BY <1>0, <1>3, WorkIsolation
<1>4. CASE ClientStep
  BY <1>0, <1>4, ClientIsolation
<1> QED
  BY <1>1, <1>2, <1>3, <1>4 DEF Next, ServerStep

LEMMA IsolationHolds == Spec => [](IInv /\ IsolationInv /\ ServerStaysUp)
<1>1. Init => IInv /\ IsolationInv /\ ServerStaysUp
  BY InitInv, IsolationInit DEF Init, ServerStaysUp
<1>2. IInv /\ IsolationInv /\ ServerStaysUp /\ [Next]_vars
        => (IInv /\ IsolationInv /\ ServerStaysUp)'
  BY StepInv, IsolationStep, StaysUpStep
<1> QED
  BY <1>1, <1>2, PTL DEF Spec

\* One request per client means one worker per client.
LEMMA IsolatedSessions == IsolationInv => SessionsAreIsolated
<1> SUFFICES ASSUME IsolationInv PROVE SessionsAreIsolated
  OBVIOUS
<1>1. ASSUME NEW i \in Slots, NEW j \in Slots,
             UsesPipes(i), UsesPipes(j), path[i] = path[j]
      PROVE  i = j
  <2>1. PICK c \in Clients : c = path[i]
    BY <1>1 DEF IsolationInv, SlotInv
  <2> QED
    BY <1>1, <2>1 DEF IsolationInv, ClientInv, Once, Holds
<1>2. \A c \in Clients : client[c] = "session" =>
         id_session[c] \in Slots /\ worker[id_session[c]] = "serve"
         /\ path[id_session[c]] = c
  BY DEF IsolationInv, ClientInv, Met
<1> QED
  BY <1>1, <1>2 DEF SessionsAreIsolated

\* A client in a session is served by the worker whose session id it read
\* and by no other, and no two workers use the same pipes, however clients
\* are restarted or die.
THEOREM SessionsStayApart == Spec => []SessionsAreIsolated
<1>1. IsolationInv => SessionsAreIsolated
  BY IsolatedSessions
<1> QED
  BY <1>1, IsolationHolds, PTL

\* Unless a client ends without ems_quit, no worker ends the server: every
\* pipe it opens or unlinks is there and its client is where it waits.
THEOREM ServerSurvivesSessions == Spec => []ServerStaysUp
BY IsolationHolds, PTL
=============================================================================
