--------------------------- MODULE JobThreadsProofs ---------------------------
(***************************************************************************)
(* Proofs about JobThreads for any number of threads and any files.        *)
(*                                                                         *)
(* First the lines the threads read and the output they write: what a      *)
(* thread does under rwlock is summed up once, by LEMMA OperateStep, and   *)
(* nothing looks into the events.  Then the events: what an operation      *)
(* leaves in the list.  Last the refinement: one thread alone is SeqJobs.  *)
(***************************************************************************)
EXTENDS JobThreads, JobStoreProofs

Fields == {"op", "line", "current_thread_id", "return_value", "event", "rows",
           "cols", "seats", "delay", "thread", "sleep", "p", "i"}

\* What the proofs need to know of a ThreadArgs.
ArgsOK ==
  /\ DOMAIN args = Threads
  /\ \A t \in Threads : /\ DOMAIN args[t] = Fields
                        /\ args[t].line \in Nat /\ args[t].delay \in Nat

OutOK == \E S : out \in Seq(S)

Gone == {"none", "exited"}

\* The rounds: main creates the threads of a round one after the other, joins
\* them in the same order, and is alone before and after.
RoundInv ==
  /\ DOMAIN main = {"pc", "i", "exitFlag"}
  /\ main.i \in Nat
  /\ main.pc \in {"set_id", "create"} =>
       main.i < num_threads /\ \A t \in Threads : t >= main.i => pc[t] = "none"
  /\ main.pc = "join" =>
       main.i < num_threads /\ \A t \in Threads : t < main.i => pc[t] = "exited"
  /\ main.pc = "end" => \A t \in Threads : pc[t] = "exited"
  /\ main.pc \in {"set_list", "done"} => \A t \in Threads : pc[t] \in Gone

\* The command of a line was read if and only if a thread is about to read the
\* rest, and that thread has the right line.
ReadInv ==
  /\ half_read => mutex \in Threads /\ pc[mutex] = "parse"
  /\ \A t \in Threads : pc[t] = "parse" =>
       /\ half_read /\ line < Len(input) /\ args[t].line = line + 1
       /\ args[t].op = input[line + 1].op
       /\ args[t].op \in {"create", "reserve", "show", "wait"}

IInv == TypeOK /\ ArgsOK /\ OutOK /\ RoundInv /\ ReadInv

-----------------------------------------------------------------------------
(* The operators the actions are built from                                *)

LEMMA StartFacts ==
  ASSUME IInv
  PROVE  /\ num_threads \in Nat /\ num_threads > 0 /\ NoOne \notin Threads
         /\ input \in Seq(Lines) /\ Threads \subseteq Nat /\ 0 \in Threads
         /\ Len(input) \in Nat
BY ThreadsAssumption DEF IInv, TypeOK, Threads

\* Set writes the fields it is given and leaves the others.
LEMMA SetArgs ==
  ASSUME NEW t \in Threads, NEW new, ArgsOK, Set(t, new)
  PROVE  /\ DOMAIN args' = Threads
         /\ \A u \in Threads \ {t} : args'[u] = args[u]
         /\ DOMAIN args'[t] = Fields
         /\ \A f \in Fields : args'[t][f] = IF f \in DOMAIN new THEN new[f] ELSE args[t][f]
BY DEF ArgsOK, Set

LEMMA GotoMoves ==
  ASSUME NEW t \in Threads, NEW from, NEW to, pc \in [Threads -> Places], Goto(t, from, to)
  PROVE  /\ pc[t] = from /\ pc'[t] = to /\ DOMAIN pc' = Threads
         /\ \A u \in Threads \ {t} : pc'[u] = pc[u]
         /\ to \in Places => pc' \in [Threads -> Places]
BY DEF Goto

-----------------------------------------------------------------------------
(* What an operation does, whatever it does to the events                  *)

OthersStay(t) == \A u \in Threads \ {t} : pc'[u] = pc[u] /\ args'[u] = args[u]

KeepsItsLine(t) ==
  \A f \in Fields \ {"p", "i"} : args'[t][f] = args[t][f]

WritesItsLine(t) ==
  pc[t] = "write" /\ \E e : e.line = args[t].line /\ out' = Append(out, e)

\* A step under rwlock, or the one that takes it.
OperatesOnly(t) ==
  /\ UNCHANGED <<num_threads, input, line, half_read, BARRIER_FLAG, mutex, id, wait,
                 id_thread, main>>
  /\ pc' \in [Threads -> Places]
  /\ DOMAIN args' = Threads /\ DOMAIN args'[t] = Fields
  /\ OthersStay(t) /\ KeepsItsLine(t)
  /\ pc[t] \in {"wrlock"} \cup HoldsRwlock /\ pc'[t] \in {"check"} \cup HoldsRwlock
  /\ rwlock = (IF pc[t] = "wrlock" THEN NoOne ELSE t)
  /\ rwlock' = (IF pc'[t] = "check" THEN NoOne ELSE t)
  /\ pc'[t] = "write" => pc[t] \in {"lookup", "write"}
  /\ pc[t] = "write" => pc'[t] \in {"write", "check"}
  /\ out' = out \/ WritesItsLine(t)

LEMMA OperateStep ==
  ASSUME IInv, NEW t \in Threads, Operate(t)
  PROVE  OperatesOnly(t)
<1>. TypeOK /\ ArgsOK /\ pc \in [Threads -> Places]
  BY DEF IInv, TypeOK
<1>0. pc[t] \in HoldsRwlock => rwlock = t
  BY DEF TypeOK
<1>. USE DEF file, start, store, locks, list, OthersStay, KeepsItsLine, OperatesOnly,
             Places, ReadPlaces, Executes, HoldsRwlock, Fields
<1>1. CASE TakeRwlock(t)
  BY <1>1, GotoMoves DEF TakeRwlock, WrLock, ArgsOK
<1>2. CASE GiveUp(t)
  BY <1>0, <1>2, GotoMoves DEF GiveUp, RwUnlock, ArgsOK
<1>3. CASE StartCreate(t)
  BY <1>0, <1>3, GotoMoves DEF StartCreate, ArgsOK
<1>4. CASE AppendEvent(t)
  BY <1>0, <1>4, GotoMoves DEF AppendEvent, RwUnlock, ArgsOK
<1>5. CASE StartReserve(t)
  <2>1. Set(t, [p |-> Found(t), i |-> 1]) /\ Goto(t, "lookup", "seat")
    BY <1>5 DEF StartReserve
  <2>2. QED  BY <1>0, <1>5, <2>1, GotoMoves, SetArgs DEF StartReserve
<1>6. CASE ReserveSeat(t)
  <2>1. Set(t, [i |-> args[t].i + 1])
    BY <1>6 DEF ReserveSeat
  <2>2. QED  BY <1>0, <1>6, <2>1, SetArgs DEF ReserveSeat
<1>7. CASE RollBack(t)
  BY <1>0, <1>7, GotoMoves DEF RollBack, RwUnlock, ArgsOK
<1>8. CASE EndReserve(t)
  BY <1>0, <1>8, GotoMoves DEF EndReserve, RwUnlock, ArgsOK
<1>9. CASE StartShow(t)
  <2>1. /\ Set(t, [p |-> IF args[t].op = "show" THEN Found(t) ELSE 0, i |-> 1])
        /\ Goto(t, "lookup", "write")
    BY <1>9 DEF StartShow
  <2>2. QED  BY <1>0, <1>9, <2>1, GotoMoves, SetArgs DEF StartShow
<1>10. CASE WriteNext(t)
  <2>1. Set(t, [i |-> args[t].i + 1])
    BY <1>10 DEF WriteNext
  <2>2. PICK e : e.line = args[t].line /\ out' = Append(out, e)
    BY <1>10 DEF WriteNext
  <2>3. QED  BY <1>0, <1>10, <2>1, <2>2, SetArgs DEF WriteNext, WritesItsLine
<1>11. CASE EndWrite(t)
  BY <1>0, <1>11, GotoMoves DEF EndWrite, RwUnlock, ArgsOK
<1>12. QED
  BY <1>1, <1>2, <1>3, <1>4, <1>5, <1>6, <1>7, <1>8, <1>9, <1>10, <1>11 DEF Operate

-----------------------------------------------------------------------------
(* What any step of a thread does to its place and to the locks            *)

\* A lock is taken when the thread enters the places that hold it, and only
\* if it is free, and released when the thread leaves them.
MutexFollows(t) ==
  /\ mutex' = (IF pc'[t] \in HoldsMutex THEN t
               ELSE IF pc[t] \in HoldsMutex THEN NoOne ELSE mutex)
  /\ pc'[t] \in HoldsMutex /\ pc[t] \notin HoldsMutex => mutex = NoOne

RwlockFollows(t) ==
  /\ rwlock' = (IF pc'[t] \in HoldsRwlock THEN t
                ELSE IF pc[t] \in HoldsRwlock THEN NoOne ELSE rwlock)
  /\ pc'[t] \in HoldsRwlock /\ pc[t] \notin HoldsRwlock => rwlock = NoOne

Moves(t) ==
  /\ UNCHANGED <<num_threads, input, id, id_thread, main>>
  /\ pc' \in [Threads -> Places] /\ pc[t] \notin Gone /\ pc'[t] # "none"
  /\ OthersStay(t)
  /\ DOMAIN args' = Threads /\ DOMAIN args'[t] = Fields
  /\ args'[t].line \in Nat /\ args'[t].delay \in Nat
  /\ MutexFollows(t) /\ RwlockFollows(t)

LEMMA OperateMoves ==
  ASSUME IInv, NEW t \in Threads, OperatesOnly(t)
  PROVE  Moves(t)
<1>1. /\ pc[t] \in HoldsMutex <=> mutex = t
      /\ pc[t] \in HoldsRwlock <=> rwlock = t
      /\ args[t].line \in Nat /\ args[t].delay \in Nat
  BY DEF IInv, TypeOK, ArgsOK
<1>2. args'[t].line = args[t].line /\ args'[t].delay = args[t].delay
  BY DEF OperatesOnly, KeepsItsLine, Fields
<1>3. QED
  BY <1>1, <1>2 DEF OperatesOnly, Moves, MutexFollows, RwlockFollows, HoldsMutex,
                    HoldsRwlock, Gone

\* The parser never writes the fields the loop keeps for itself.
LEMMA StoredFields ==
  ASSUME NEW l \in Lines
  PROVE  /\ {"op", "line", "return_value"} \cap DOMAIN Stored(l) = {}
         /\ "delay" \in DOMAIN Stored(l) => Stored(l)["delay"] \in Nat
BY DEF Stored, Lines, LinesRead, Number

\* The line a thread is about to read, or has read the command of.
LEMMA NextLine ==
  ASSUME IInv, line < Len(input)
  PROVE  input[line + 1] \in Lines
BY StartFacts DEF IInv, TypeOK

\* Nobody is in the middle of a line when a thread is about to read one.
LEMMA WholeLines ==
  ASSUME IInv, NEW t \in Threads, pc[t] = "get_next"
  PROVE  ~ half_read /\ (~ EndOfFile => line < Len(input))
<1>1. mutex = t
  BY DEF IInv, TypeOK, HoldsMutex
<1>2. ~ half_read
  BY <1>1 DEF IInv, ReadInv
<1>3. QED
  BY <1>2, StartFacts DEF IInv, TypeOK, EndOfFile

LEMMA ReadMoves ==
  ASSUME IInv, NEW t \in Threads, Read(t)
  PROVE  Moves(t)
<1>. TypeOK /\ ArgsOK /\ pc \in [Threads -> Places] /\ NoOne \notin Threads
  BY StartFacts DEF IInv, TypeOK
<1>0. /\ pc[t] \in HoldsMutex <=> mutex = t
      /\ pc[t] \in HoldsRwlock <=> rwlock = t
      /\ args[t].line \in Nat /\ args[t].delay \in Nat /\ DOMAIN args[t] = Fields
      /\ DOMAIN args = Threads
  BY DEF TypeOK, ArgsOK
<1>00. line + 1 \in Nat
  BY StartFacts DEF TypeOK
<1>. USE DEF file, start, store, locks, list, OthersStay, Moves, MutexFollows, RwlockFollows,
             Places, ReadPlaces, Executes, HoldsRwlock, HoldsMutex, Fields, Gone
<1>1. CASE CheckFlag(t)
  <2>1. CASE BARRIER_FLAG = 0
    BY <1>0, <1>1, <2>1, GotoMoves, SetArgs DEF CheckFlag
  <2>2. CASE BARRIER_FLAG # 0
    BY <1>0, <1>1, <2>2, GotoMoves DEF CheckFlag
  <2>3. QED  BY <2>1, <2>2
<1>2. CASE StartWait(t)
  <2>1. CASE wait[Own(t)] > 0
    BY <1>0, <1>2, <2>1, GotoMoves, SetArgs DEF StartWait
  <2>2. CASE ~ wait[Own(t)] > 0
    BY <1>0, <1>2, <2>2, GotoMoves DEF StartWait
  <2>3. QED  BY <2>1, <2>2
<1>3. CASE EndWait(t)
  BY <1>0, <1>3, GotoMoves, SetArgs DEF EndWait
<1>4. CASE LockInput(t)
  BY <1>0, <1>4, GotoMoves DEF LockInput, Lock
<1>5. CASE GetEOC(t)
  BY <1>0, <1>5, GotoMoves, SetArgs DEF GetEOC, Unlock
<1>6. CASE GetCommand(t)
  BY <1>0, <1>00, <1>6, GotoMoves, SetArgs DEF GetCommand
<1>7. CASE GetWholeLine(t)
  <2>1. CASE input[line + 1].op = "list"
    BY <1>0, <1>00, <1>7, <2>1, GotoMoves, SetArgs DEF GetWholeLine, Unlock
  <2>2. CASE input[line + 1].op # "list"
    BY <1>0, <1>00, <1>7, <2>2, GotoMoves, SetArgs DEF GetWholeLine
  <2>3. QED  BY <2>1, <2>2
<1>8. CASE GetSkip(t)
  BY <1>0, <1>8, GotoMoves DEF GetSkip, Unlock
<1>9. CASE Parse(t)
  <2>1. input[line + 1] \in Lines
    BY <1>9, NextLine DEF IInv, ReadInv, Parse, Goto
  <2>2. /\ Set(t, Stored(input[line + 1])) /\ Unlock(t)
        /\ Goto(t, "parse", IF args[t].op = "wait" THEN "set_wait" ELSE "wrlock")
    BY <1>9 DEF Parse
  <2>3. args'[t].line \in Nat /\ args'[t].delay \in Nat
    BY <1>0, <2>1, <2>2, SetArgs, StoredFields
  <2>4. QED  BY <1>0, <1>9, <2>2, <2>3, GotoMoves, SetArgs DEF Parse, Unlock
<1>10. CASE BarrierLine(t)
  BY <1>0, <1>10, GotoMoves, SetArgs DEF BarrierLine, Unlock
<1>11. CASE WaitAll(t)
  BY <1>0, <1>11, GotoMoves DEF WaitAll, Lock
<1>12. CASE EndWaitAll(t)
  BY <1>0, <1>12, GotoMoves DEF EndWaitAll, Unlock
<1>13. CASE SetWait(t)
  BY <1>0, <1>13, GotoMoves DEF SetWait
<1>14. QED
  BY <1>1, <1>2, <1>3, <1>4, <1>5, <1>6, <1>7, <1>8, <1>9, <1>10, <1>11, <1>12, <1>13
  DEF Read

-----------------------------------------------------------------------------
(* The inductive invariant                                                 *)

LEMMA AppendOut ==
  ASSUME OutOK, NEW e, out' = Append(out, e)
  PROVE  /\ OutOK' /\ Len(out) \in Nat /\ DOMAIN out = 1 .. Len(out)
         /\ DOMAIN out' = 1 .. Len(out) + 1
         /\ out'[Len(out) + 1] = e /\ \A k \in DOMAIN out : out'[k] = out[k]
<1>1. PICK S : out \in Seq(S)
  BY DEF OutOK
<1>2. out \in Seq(S \cup {e}) /\ e \in S \cup {e}
  BY <1>1
<1>3. out' \in Seq(S \cup {e})
  BY <1>2, AppendProperties
<1>4. QED
  BY <1>1, <1>2, <1>3, AppendProperties DEF OutOK

LEMMA LocksAreHeld ==
  ASSUME IInv, NEW t \in Threads, Moves(t)
  PROVE  /\ mutex' \in Threads \cup {NoOne} /\ rwlock' \in Threads \cup {NoOne}
         /\ \A u \in Threads : /\ pc'[u] \in HoldsMutex <=> mutex' = u
                               /\ pc'[u] \in HoldsRwlock <=> rwlock' = u
<1>1. /\ mutex \in Threads \cup {NoOne} /\ rwlock \in Threads \cup {NoOne}
      /\ \A u \in Threads : /\ pc[u] \in HoldsMutex <=> mutex = u
                            /\ pc[u] \in HoldsRwlock <=> rwlock = u
      /\ NoOne \notin Threads
  BY StartFacts DEF IInv, TypeOK
<1>2. /\ \A u \in Threads \ {t} : pc'[u] = pc[u]
      /\ MutexFollows(t) /\ RwlockFollows(t)
  BY DEF Moves, OthersStay
<1>3. \A u \in Threads : pc'[u] \in HoldsMutex <=> mutex' = u
  <2>1. CASE pc'[t] \in HoldsMutex
    BY <1>1, <1>2, <2>1 DEF MutexFollows
  <2>2. CASE pc'[t] \notin HoldsMutex /\ pc[t] \in HoldsMutex
    BY <1>1, <1>2, <2>2 DEF MutexFollows
  <2>3. CASE pc'[t] \notin HoldsMutex /\ pc[t] \notin HoldsMutex
    BY <1>1, <1>2, <2>3 DEF MutexFollows
  <2>4. QED  BY <2>1, <2>2, <2>3
<1>4. \A u \in Threads : pc'[u] \in HoldsRwlock <=> rwlock' = u
  <2>1. CASE pc'[t] \in HoldsRwlock
    BY <1>1, <1>2, <2>1 DEF RwlockFollows
  <2>2. CASE pc'[t] \notin HoldsRwlock /\ pc[t] \in HoldsRwlock
    BY <1>1, <1>2, <2>2 DEF RwlockFollows
  <2>3. CASE pc'[t] \notin HoldsRwlock /\ pc[t] \notin HoldsRwlock
    BY <1>1, <1>2, <2>3 DEF RwlockFollows
  <2>4. QED  BY <2>1, <2>2, <2>3
<1>5. mutex' \in Threads \cup {NoOne} /\ rwlock' \in Threads \cup {NoOne}
  BY <1>1, <1>2 DEF MutexFollows, RwlockFollows
<1>6. QED
  BY <1>3, <1>4, <1>5

\* Main waits for the threads and creates none behind their back.
LEMMA RoundGoesOn ==
  ASSUME IInv, NEW t \in Threads, Moves(t)
  PROVE  RoundInv'
<1>1. /\ Threads \subseteq Nat /\ Threads' = Threads /\ num_threads' = num_threads
      /\ main' = main
  BY StartFacts DEF Moves, Threads
<1>2. /\ pc[t] \notin Gone /\ \A u \in Threads \ {t} : pc'[u] = pc[u]
  BY DEF Moves, OthersStay
<1>3. /\ main.pc \in {"set_id", "create"} => t < main.i
      /\ main.pc = "join" => t >= main.i
      /\ main.pc \notin {"end", "set_list", "done"}
      /\ main.i \in Nat
  BY <1>1, <1>2 DEF IInv, RoundInv, Gone
<1>4. QED
  BY <1>1, <1>2, <1>3 DEF IInv, RoundInv

\* The types of what the threads share.
SharedOK ==
  /\ line \in 0 .. Len(input) /\ half_read \in BOOLEAN
  /\ BARRIER_FLAG \in {0, 1} /\ wait \in [Threads -> Nat] /\ id_thread \in Nat

LEMMA ReadShares ==
  ASSUME IInv, NEW t \in Threads, Read(t)
  PROVE  SharedOK' /\ OutOK'
<1>. /\ SharedOK /\ OutOK /\ Len(input) \in Nat /\ args[t].delay \in Nat
  BY StartFacts DEF IInv, TypeOK, ArgsOK, SharedOK
<1>0. Threads' = Threads /\ input' = input
  BY ReadMoves DEF Moves, Threads
<1>. USE <1>0 DEF SharedOK, file, start, store, locks, list, OutOK
<1>1. CASE CheckFlag(t)
  BY <1>1 DEF CheckFlag
<1>2. CASE StartWait(t)
  BY <1>2 DEF StartWait
<1>3. CASE EndWait(t)
  BY <1>3 DEF EndWait
<1>4. CASE LockInput(t)
  BY <1>4 DEF LockInput
<1>5. CASE GetEOC(t)
  BY <1>5 DEF GetEOC
<1>6. CASE GetCommand(t)
  BY <1>6 DEF GetCommand
<1>7. CASE GetWholeLine(t)
  <2>1. line < Len(input)
    BY <1>7, WholeLines DEF GetWholeLine, Goto
  <2>2. QED  BY <1>7, <2>1 DEF GetWholeLine
<1>8. CASE GetSkip(t)
  <2>1. line < Len(input)
    BY <1>8, WholeLines DEF GetSkip, Goto
  <2>2. half_read' \in BOOLEAN
    BY <1>8, Zenon DEF GetSkip
  <2>3. line' \in 0 .. Len(input) /\ UNCHANGED <<out, BARRIER_FLAG, wait, id_thread>>
    BY <1>8, <2>1 DEF GetSkip
  <2>4. QED  BY <2>2, <2>3
<1>9. CASE Parse(t)
  <2>1. line < Len(input)
    BY <1>9 DEF IInv, ReadInv, Parse, Goto
  <2>2. half_read' \in BOOLEAN
    BY <1>9, Zenon DEF Parse
  <2>3. line' \in 0 .. Len(input) /\ UNCHANGED <<out, BARRIER_FLAG, wait, id_thread>>
    BY <1>9, <2>1 DEF Parse
  <2>4. QED  BY <2>2, <2>3
<1>10. CASE BarrierLine(t)
  BY <1>10 DEF BarrierLine
<1>11. CASE WaitAll(t)
  <2>1. OutOK'
    BY <1>11, AppendOut DEF WaitAll
  <2>2. QED  BY <1>11, <2>1 DEF WaitAll
<1>12. CASE EndWaitAll(t)
  BY <1>12 DEF EndWaitAll
<1>13. CASE SetWait(t)
  BY <1>13 DEF SetWait
<1>14. QED
  BY <1>1, <1>2, <1>3, <1>4, <1>5, <1>6, <1>7, <1>8, <1>9, <1>10, <1>11, <1>12, <1>13
  DEF Read

LEMMA OperateShares ==
  ASSUME IInv, NEW t \in Threads, OperatesOnly(t)
  PROVE  SharedOK' /\ OutOK'
<1>1. SharedOK /\ OutOK
  BY DEF IInv, TypeOK, SharedOK
<1>2. OutOK'
  <2>1. CASE out' = out
    BY <1>1, <2>1 DEF OutOK
  <2>2. CASE WritesItsLine(t)
    BY <1>1, <2>2, AppendOut DEF WritesItsLine
  <2>3. QED  BY <2>1, <2>2 DEF OperatesOnly
<1>3. Threads' = Threads
  BY DEF OperatesOnly, Threads
<1>4. SharedOK'
  BY <1>1, <1>3 DEF OperatesOnly, SharedOK
<1>5. QED
  BY <1>2, <1>4

\* The part of the invariant on which every step of a thread agrees.
LEMMA ThreadKeepsTypes ==
  ASSUME IInv, NEW t \in Threads, Moves(t), SharedOK', OutOK'
  PROVE  (TypeOK /\ ArgsOK /\ OutOK /\ RoundInv)'
<1>1. Threads' = Threads /\ num_threads' = num_threads /\ input' = input
  BY DEF Moves, Threads
<1>2. TypeOK'
  <2>1. /\ <<num_threads, input>> \in Programs /\ id \in [Threads -> Int]
        /\ main.pc \in {"set_list", "set_id", "create", "join", "end", "done"}
    BY DEF IInv, TypeOK
  <2>2. pc' \in [Threads -> Places] /\ id' = id /\ main' = main
    BY DEF Moves
  <2>3. QED
    BY <1>1, <2>1, <2>2, LocksAreHeld DEF TypeOK, SharedOK
<1>3. ArgsOK'
  BY <1>1 DEF IInv, ArgsOK, Moves, OthersStay
<1>4. QED
  BY <1>2, <1>3, RoundGoesOn

\* A thread that does not read leaves the file and its reader alone.
LEMMA OperateReads ==
  ASSUME IInv, NEW t \in Threads, OperatesOnly(t)
  PROVE  ReadInv'
<1>1. /\ pc[t] # "parse" /\ pc'[t] # "parse"
      /\ \A u \in Threads \ {t} : pc'[u] = pc[u] /\ args'[u] = args[u]
      /\ UNCHANGED <<half_read, mutex, line, input>> /\ Threads' = Threads
  BY DEF OperatesOnly, OthersStay, HoldsRwlock, Threads
<1>2. QED
  BY <1>1 DEF IInv, ReadInv

\* The same for the steps of the reading loop that read nothing.
LEMMA LoopReads ==
  ASSUME IInv, NEW t \in Threads, Moves(t), UNCHANGED <<half_read, line>>,
         pc[t] # "parse", pc'[t] # "parse"
  PROVE  ReadInv'
<1>1. /\ \A u \in Threads \ {t} : pc'[u] = pc[u] /\ args'[u] = args[u]
      /\ UNCHANGED input /\ Threads' = Threads
  BY DEF Moves, OthersStay, Threads
<1>2. \A u \in Threads : pc[u] = "parse" => mutex = u
  BY DEF IInv, TypeOK, HoldsMutex
<1>3. half_read => /\ mutex \in Threads /\ pc[mutex] = "parse"
                   /\ pc'[mutex] = "parse" /\ mutex' = mutex
  <2>1. SUFFICES ASSUME half_read
        PROVE  /\ mutex \in Threads /\ pc[mutex] = "parse"
               /\ pc'[mutex] = "parse" /\ mutex' = mutex
    OBVIOUS
  <2>2. mutex \in Threads /\ pc[mutex] = "parse" /\ mutex # t
    BY <2>1 DEF IInv, ReadInv
  <2>3. pc'[mutex] = "parse"
    BY <1>1, <2>2
  <2>4. mutex' = mutex
    BY <2>2, <2>3, LocksAreHeld DEF HoldsMutex
  <2>5. QED  BY <2>2, <2>3, <2>4
<1>4. QED
  BY <1>1, <1>3 DEF IInv, ReadInv

LEMMA ReadReads ==
  ASSUME IInv, NEW t \in Threads, Read(t)
  PROVE  ReadInv'
<1>. /\ Moves(t) /\ pc \in [Threads -> Places] /\ ArgsOK
  BY ReadMoves DEF IInv, TypeOK
<1>0. /\ \A u \in Threads \ {t} : pc'[u] = pc[u] /\ args'[u] = args[u]
      /\ UNCHANGED input /\ Threads' = Threads
  BY DEF Moves, OthersStay, Threads
<1>1. CASE GetCommand(t)
  <2>1. /\ pc'[t] = "parse" /\ half_read' = TRUE /\ line' = line /\ pc[t] = "get_next"
        /\ Set(t, [op |-> input[line + 1].op, line |-> line + 1]) /\ mutex' = mutex
        /\ input[line + 1].op \in {"create", "reserve", "show", "wait"}
    BY <1>1, GotoMoves DEF GetCommand, locks
  <2>2. args'[t].op = input[line + 1].op /\ args'[t].line = line + 1
    BY <2>1, SetArgs DEF Fields
  <2>3. mutex = t /\ \A u \in Threads \ {t} : pc[u] # "parse"
    BY <2>1 DEF IInv, TypeOK, HoldsMutex
  <2>4. line < Len(input)
    BY <1>1, <2>1, WholeLines DEF GetCommand
  <2>5. QED  BY <1>0, <2>1, <2>2, <2>3, <2>4 DEF ReadInv
<1>2. CASE GetWholeLine(t) \/ GetSkip(t) \/ Parse(t)
  <2>1. /\ pc[t] \in {"get_next", "parse"} /\ half_read' = FALSE
        /\ pc'[t] \in {"wrlock", "barrier", "check", "set_wait"}
    <3>1. CASE GetWholeLine(t)
      BY <1>2, <3>1, GotoMoves, WholeLines DEF GetWholeLine
    <3>2. CASE GetSkip(t)
      BY <3>2, GotoMoves DEF GetSkip
    <3>3. CASE Parse(t)
      BY <3>3, GotoMoves DEF Parse
    <3>4. QED  BY <1>2, <3>1, <3>2, <3>3
  <2>2. \A u \in Threads \ {t} : pc[u] # "parse"
    BY <2>1 DEF IInv, TypeOK, HoldsMutex
  <2>3. QED  BY <1>0, <2>1, <2>2 DEF ReadInv
<1>3. CASE \/ CheckFlag(t) \/ StartWait(t) \/ EndWait(t) \/ LockInput(t) \/ GetEOC(t)
           \/ BarrierLine(t) \/ WaitAll(t) \/ EndWaitAll(t) \/ SetWait(t)
  <2>1. UNCHANGED <<half_read, line>> /\ pc[t] # "parse" /\ pc'[t] # "parse"
    BY <1>3, GotoMoves DEF CheckFlag, StartWait, EndWait, LockInput, GetEOC, BarrierLine,
         WaitAll, EndWaitAll, SetWait, file, start
  <2>2. QED  BY <2>1, LoopReads
<1>4. QED
  BY <1>1, <1>2, <1>3 DEF Read

LEMMA InitInv == Init => IInv
<1>. SUFFICES ASSUME Init PROVE IInv
  OBVIOUS
<1>1. <<num_threads, input>> \in Programs /\ num_threads \in Nat /\ num_threads > 0
      /\ NoOne \notin Threads /\ input \in Seq(Lines) /\ Len(input) \in Nat
      /\ Threads \subseteq Nat
  <2>1. PICK p \in Programs : num_threads = p[1] /\ input = p[2]
    BY DEF Init
  <2>2. p \in (1 .. MaxThreads) \X Seq(Lines) /\ MaxThreads \in Nat
    BY ThreadsAssumption
  <2>3. p = <<num_threads, input>>
    BY <2>1, <2>2
  <2>4. QED  BY <2>1, <2>2, <2>3, ThreadsAssumption DEF Threads
<1>2. pc \in [Threads -> Places] /\ \A t \in Threads : pc[t] = "none"
  BY DEF Init, Places
<1>3. TypeOK
  <2>1. id \in [Threads -> Int] /\ wait \in [Threads -> Nat]
    BY DEF Init
  <2>2. \A t \in Threads : pc[t] \notin HoldsMutex /\ pc[t] \notin HoldsRwlock
    BY <1>2 DEF HoldsMutex, HoldsRwlock
  <2>3. half_read \in BOOLEAN
    BY Zenon DEF Init
  <2>4. /\ line \in 0 .. Len(input) /\ BARRIER_FLAG \in {0, 1}
        /\ mutex = NoOne /\ rwlock = NoOne /\ id_thread \in Nat /\ main.pc = "set_list"
    BY <1>1 DEF Init
  <2>5. QED  BY <1>1, <1>2, <2>1, <2>2, <2>3, <2>4 DEF TypeOK
<1>4. ArgsOK
  BY DEF Init, ArgsOK, NewArgs, Fields
<1>5. OutOK
  <2>1. out \in Seq({})
    BY DEF Init
  <2>2. QED  BY <2>1 DEF OutOK
<1>6. RoundInv
  BY <1>1, <1>2 DEF Init, RoundInv, Gone
<1>7. ReadInv
  BY <1>2 DEF Init, ReadInv
<1>8. QED
  BY <1>3, <1>4, <1>5, <1>6, <1>7 DEF IInv

\* When main is alone nobody holds a lock or half a line.
LEMMA AloneHoldsNothing ==
  ASSUME IInv, \A t \in Threads : pc[t] \in Gone
  PROVE  mutex = NoOne /\ rwlock = NoOne /\ ~ half_read
<1>1. mutex = NoOne /\ rwlock = NoOne
  BY DEF IInv, TypeOK, HoldsMutex, HoldsRwlock, Gone
<1>2. QED
  BY <1>1, StartFacts DEF IInv, ReadInv

LEMMA MainStep ==
  ASSUME IInv, Main
  PROVE  IInv'
<1>0. /\ num_threads \in Nat /\ num_threads > 0 /\ NoOne \notin Threads
      /\ Threads \subseteq Nat /\ 0 \in Threads /\ Len(input) \in Nat
      /\ TypeOK /\ ArgsOK /\ OutOK /\ RoundInv /\ ReadInv
      /\ pc \in [Threads -> Places] /\ wait \in [Threads -> Nat] /\ id_thread \in Nat
      /\ DOMAIN main = {"pc", "i", "exitFlag"} /\ main.i \in Nat
  BY StartFacts DEF IInv, TypeOK, RoundInv
<1>1. /\ UNCHANGED <<num_threads, input, line, half_read, out, mutex, rwlock>>
      /\ Threads' = Threads
  BY DEF Main, SetList, SetId, CreateThread, JoinThread, EndRound, file, start, store,
         locks, list, Threads
<1>2. OutOK'
  BY <1>0, <1>1 DEF OutOK
<1>3. CASE SetList
  <2>1. mutex = NoOne /\ rwlock = NoOne /\ ~ half_read
    BY <1>0, <1>3, AloneHoldsNothing DEF SetList, RoundInv
  <2>2. /\ pc' \in [Threads -> Places] /\ \A t \in Threads : pc'[t] = "none"
        /\ main' = [main EXCEPT !.pc = "set_id", !.i = 0] /\ BARRIER_FLAG' = 1
        /\ id' \in [Threads -> Int] /\ UNCHANGED <<wait, args, id_thread>>
    BY <1>3 DEF SetList, Places, list
  <2>3. TypeOK'
    BY <1>0, <1>1, <2>1, <2>2 DEF TypeOK, HoldsMutex, HoldsRwlock
  <2>4. ArgsOK' /\ RoundInv' /\ ReadInv'
    BY <1>0, <1>1, <2>1, <2>2 DEF ArgsOK, RoundInv, ReadInv
  <2>5. QED  BY <1>2, <2>3, <2>4 DEF IInv
<1>4. CASE SetId
  <2>1. /\ UNCHANGED <<pc, BARRIER_FLAG, wait, args, id_thread>>
        /\ main' = [main EXCEPT !.pc = "create"] /\ main.pc = "set_id"
        /\ id' = [id EXCEPT ![main.i] = id_thread]
    BY <1>4 DEF SetId
  <2>2. id' \in [Threads -> Int]
    <3>1. id \in [Threads -> Int] /\ id_thread \in Int
      BY <1>0 DEF TypeOK
    <3>2. QED  BY <2>1, <3>1
  <2>3. TypeOK'
    BY <1>0, <1>1, <2>1, <2>2 DEF TypeOK
  <2>4. ArgsOK' /\ RoundInv' /\ ReadInv'
    BY <1>0, <1>1, <2>1 DEF ArgsOK, RoundInv, ReadInv
  <2>5. QED  BY <1>2, <2>3, <2>4 DEF IInv
<1>5. CASE CreateThread
  <2>0. PICK g \in Garbage : args' = [args EXCEPT ![main.i] = NewArgs(g, id_thread)]
    BY <1>5 DEF CreateThread
  <2>1. /\ main.i \in Threads /\ pc[main.i] = "none" /\ main.i < num_threads
        /\ \A t \in Threads : t >= main.i => pc[t] = "none"
    BY <1>0, <1>5 DEF CreateThread, RoundInv, Threads
  <2>2. /\ pc' \in [Threads -> Places] /\ pc'[main.i] = "check"
        /\ \A t \in Threads \ {main.i} : pc'[t] = pc[t]
        /\ wait' \in [Threads -> Nat] /\ id_thread' \in Nat /\ UNCHANGED <<BARRIER_FLAG, id>>
    <3>1. /\ pc' = [pc EXCEPT ![main.i] = "check"] /\ wait' = [wait EXCEPT ![main.i] = 0]
          /\ id_thread' = id_thread + 1 /\ UNCHANGED <<BARRIER_FLAG, id>>
      BY <1>5 DEF CreateThread
    <3>2. "check" \in Places
      BY DEF Places, ReadPlaces
    <3>3. QED  BY <1>0, <2>1, <3>1, <3>2
  <2>3. /\ main'.pc = (IF main.i + 1 < num_threads THEN "set_id" ELSE "join")
        /\ main'.i = (IF main.i + 1 < num_threads THEN main.i + 1 ELSE 0)
        /\ DOMAIN main' = {"pc", "i", "exitFlag"}
    BY <1>0, <1>5 DEF CreateThread
  <2>4. TypeOK'
    BY <1>0, <1>1, <2>1, <2>2, <2>3 DEF TypeOK, HoldsMutex, HoldsRwlock
  <2>5. ArgsOK'
    BY <1>0, <1>1, <2>0, <2>1 DEF ArgsOK, NewArgs, Fields
  <2>6. RoundInv'
    BY SMTT(30), <1>0, <1>1, <2>1, <2>2, <2>3 DEF RoundInv
  <2>7. ReadInv'
    BY ZenonT(60), <1>0, <1>1, <2>0, <2>1, <2>2 DEF ReadInv, ArgsOK
  <2>8. QED  BY <1>2, <2>4, <2>5, <2>6, <2>7 DEF IInv
<1>6. CASE JoinThread
  <2>1. /\ UNCHANGED <<pc, BARRIER_FLAG, id, wait, args, id_thread>>
        /\ main.pc = "join" /\ pc[main.i] = "exited"
        /\ main'.pc = (IF main.i + 1 < num_threads THEN "join" ELSE "end")
        /\ main'.i = main.i + 1 /\ DOMAIN main' = {"pc", "i", "exitFlag"}
    BY <1>0, <1>6 DEF JoinThread, list
  <2>2. TypeOK'
    BY <1>0, <1>1, <2>1 DEF TypeOK
  <2>3. ArgsOK' /\ ReadInv'
    BY <1>0, <1>1, <2>1 DEF ArgsOK, ReadInv
  <2>4. \A t \in Threads : t < main.i + 1 => pc[t] = "exited"
    BY <1>0, <2>1 DEF RoundInv
  <2>5. ~ main.i + 1 < num_threads => \A t \in Threads : t < main.i + 1
    BY <1>0 DEF Threads
  <2>6. RoundInv'
    BY <1>0, <1>1, <2>1, <2>4, <2>5 DEF RoundInv
  <2>7. QED  BY <1>2, <2>2, <2>3, <2>6 DEF IInv
<1>7. CASE EndRound
  <2>1. /\ UNCHANGED <<pc, BARRIER_FLAG, id, wait, args, id_thread>>
        /\ main.pc = "end" /\ main'.pc \in {"done", "set_list"} /\ main'.i = main.i
        /\ DOMAIN main' = {"pc", "i", "exitFlag"}
    BY <1>0, <1>7 DEF EndRound, list
  <2>2. TypeOK'
    BY <1>0, <1>1, <2>1 DEF TypeOK
  <2>3. ArgsOK' /\ RoundInv' /\ ReadInv'
    BY <1>0, <1>1, <2>1 DEF ArgsOK, RoundInv, ReadInv, Gone
  <2>4. QED  BY <1>2, <2>2, <2>3 DEF IInv
<1>8. QED
  BY <1>3, <1>4, <1>5, <1>6, <1>7 DEF Main

LEMMA ThreadStep ==
  ASSUME IInv, NEW t \in Threads, Thread(t)
  PROVE  Moves(t) /\ IInv'
<1>1. CASE Read(t)
  BY <1>1, ReadMoves, ReadShares, ReadReads, ThreadKeepsTypes DEF IInv
<1>2. CASE Operate(t)
  BY <1>2, OperateStep, OperateMoves, OperateShares, OperateReads, ThreadKeepsTypes DEF IInv
<1>3. QED
  BY <1>1, <1>2 DEF Thread

\* The part of a thread's step that most invariants need to know.
LEMMA ThreadEffect ==
  ASSUME IInv, NEW t \in Threads, Thread(t)
  PROVE  /\ Moves(t) /\ Threads' = Threads /\ input' = input
         /\ line \in Nat /\ pc \in [Threads -> Places]
         /\ pc[t] \notin Gone /\ pc'[t] # "none"
         /\ \A u \in Threads \ {t} : pc'[u] = pc[u] /\ args'[u] = args[u]
<1>1. Moves(t)
  BY ThreadStep
<1>2. Threads' = Threads
  BY <1>1 DEF Moves, Threads
<1>3. pc \in [Threads -> Places]
  BY DEF IInv, TypeOK
<1>4. line \in Nat
  <2>1. line \in 0 .. Len(input)
    BY DEF IInv, TypeOK
  <2> QED
    BY <2>1, StartFacts
<1>5. /\ input' = input /\ pc[t] \notin Gone /\ pc'[t] # "none"
      /\ \A u \in Threads \ {t} : pc'[u] = pc[u] /\ args'[u] = args[u]
  BY <1>1 DEF Moves, OthersStay
<1> QED
  BY <1>1, <1>2, <1>3, <1>4, <1>5

LEMMA RestStep ==
  ASSUME IInv, UNCHANGED vars
  PROVE  IInv'
BY DEF IInv, TypeOK, ArgsOK, OutOK, RoundInv, ReadInv, Threads, vars, file, start, store,
       locks, list

LEMMA InvStep == IInv /\ [Next]_vars => IInv'
<1>. SUFFICES ASSUME IInv, [Next]_vars PROVE IInv'
  OBVIOUS
<1>1. CASE Main
  BY <1>1, MainStep
<1>2. CASE \E t \in Threads : Thread(t)
  BY <1>2, ThreadStep
<1>3. CASE UNCHANGED vars
  BY <1>3, RestStep
<1>4. QED
  BY <1>1, <1>2, <1>3 DEF Next, Finished

LEMMA InvHolds == Spec => []IInv
<1>1. QED
  BY InitInv, InvStep, PTL DEF Spec

-----------------------------------------------------------------------------
(* Types, locks and the shared file                                        *)

\* The variables keep their types and each lock is held by the thread that
\* is between taking and releasing it (try_lock_mutex and try_lock_rwmutex,
\* over all early returns), for any number of threads and any files.
THEOREM TypeCorrect == Spec => []TypeOK
<1>1. IInv => TypeOK
  BY DEF IInv
<1>2. QED
  BY <1>1, InvHolds, PTL

\* Only the thread that read the command of a line reads the rest of it: the
\* mutex covers get_next and parse together.
THEOREM LinesStayWhole == Spec => []LinesAreReadWhole
<1>1. IInv => LinesAreReadWhole
  BY DEF IInv, ReadInv, LinesAreReadWhole
<1>2. QED
  BY <1>1, InvHolds, PTL

-----------------------------------------------------------------------------
(* The end of the file                                                     *)

\* A thread reports the end of the file only when it was reached, and then it
\* stays reached.
EndInv ==
  /\ \A t \in Threads : pc[t] = "exited" /\ args[t].return_value = 0 => EndOfFile
  /\ main.exitFlag = 0 => EndOfFile
  /\ main.pc = "done" => main.exitFlag = 0

LEMMA EndThread ==
  ASSUME IInv, EndInv, NEW t \in Threads, Thread(t)
  PROVE  EndInv'
<1>0. /\ Moves(t) /\ Threads' = Threads /\ main' = main /\ input' = input /\ ArgsOK
      /\ pc \in [Threads -> Places]
      /\ \A u \in Threads \ {t} : pc'[u] = pc[u] /\ args'[u] = args[u]
  BY ThreadStep DEF Moves, OthersStay, Threads, IInv, TypeOK
<1>1. EndOfFile => line' = line /\ half_read' = half_read
  <2>1. CASE Operate(t)
    BY <2>1, OperateStep DEF OperatesOnly
  <2>2. SUFFICES ASSUME EndOfFile, Read(t)
        PROVE  line' = line /\ half_read' = half_read
    BY <2>1 DEF Thread
  <2>3. ~ half_read /\ pc[t] # "parse"
    BY <2>2 DEF EndOfFile, IInv, ReadInv
  <2>4. QED
    BY <2>2, <2>3 DEF Read, CheckFlag, StartWait, EndWait, LockInput, GetEOC, GetCommand,
         GetWholeLine, GetSkip, Parse, BarrierLine, WaitAll, EndWaitAll, SetWait, Goto,
         file, start
<1>2. EndOfFile => EndOfFile'
  BY <1>0, <1>1 DEF EndOfFile
<1>3. pc'[t] = "exited" /\ args'[t].return_value = 0 => EndOfFile
  <2>1. CASE Operate(t)
    BY <2>1, OperateStep DEF OperatesOnly, HoldsRwlock
  <2>2. CASE CheckFlag(t) /\ pc'[t] = "exited"
    <3>1. Set(t, [return_value |-> 1])
      BY <1>0, <2>2, GotoMoves DEF CheckFlag
    <3>2. QED  BY <1>0, <3>1, SetArgs DEF Fields
  <2>3. CASE GetEOC(t)
    BY <2>3 DEF GetEOC
  <2>4. CASE BarrierLine(t)
    <3>1. Set(t, [return_value |-> 1])
      BY <2>4 DEF BarrierLine
    <3>2. QED  BY <1>0, <3>1, SetArgs DEF Fields
  <2>5. CASE \/ StartWait(t) \/ EndWait(t) \/ LockInput(t) \/ GetCommand(t) \/ GetWholeLine(t)
             \/ GetSkip(t) \/ Parse(t) \/ WaitAll(t) \/ EndWaitAll(t) \/ SetWait(t)
    <3>1. pc'[t] # "exited"
      BY <1>0, <2>5, GotoMoves DEF StartWait, EndWait, LockInput, GetCommand, GetWholeLine,
           GetSkip, Parse, WaitAll, EndWaitAll, SetWait
    <3>2. QED  BY <3>1
  <2>6. QED
    BY <2>1, <2>2, <2>3, <2>4, <2>5 DEF Thread, Read
<1>4. QED
  BY <1>0, <1>2, <1>3 DEF EndInv

LEMMA EndMain ==
  ASSUME IInv, EndInv, Main
  PROVE  EndInv'
<1>0. /\ UNCHANGED <<num_threads, input, line, half_read>> /\ Threads' = Threads
      /\ EndOfFile' = EndOfFile /\ DOMAIN main = {"pc", "i", "exitFlag"} /\ main.i \in Nat
      /\ pc \in [Threads -> Places]
  BY DEF Main, SetList, SetId, CreateThread, JoinThread, EndRound, file, start, Threads,
         EndOfFile, IInv, RoundInv, TypeOK
<1>1. CASE SetList
  BY <1>0, <1>1 DEF SetList, EndInv
<1>2. CASE SetId
  BY <1>0, <1>2 DEF SetId, EndInv
<1>3. CASE CreateThread
  <2>1. /\ pc' = [pc EXCEPT ![main.i] = "check"] /\ main'.exitFlag = main.exitFlag
        /\ \A t \in Threads \ {main.i} : args'[t] = args[t]
        /\ main'.pc # "done"
    BY <1>0, <1>3 DEF CreateThread, IInv, ArgsOK
  <2>2. QED  BY <1>0, <2>1 DEF EndInv
<1>4. CASE JoinThread
  <2>1. /\ main.i \in Threads /\ pc[main.i] = "exited" /\ UNCHANGED <<pc, args>>
        /\ main'.exitFlag = (IF args[main.i].return_value = 0 THEN 0 ELSE main.exitFlag)
        /\ main'.pc # "done"
    <3>1. main.i \in Threads
      BY <1>0, <1>4, StartFacts DEF JoinThread, IInv, RoundInv, Threads
    <3>2. QED  BY <1>0, <1>4, <3>1 DEF JoinThread, list
  <2>2. QED  BY <1>0, <2>1 DEF EndInv
<1>5. CASE EndRound
  BY <1>0, <1>5 DEF EndRound, EndInv
<1>6. QED
  BY <1>1, <1>2, <1>3, <1>4, <1>5 DEF Main

LEMMA EndHolds == Spec => []EndInv
<1>1. Init => EndInv
  BY DEF Init, EndInv
<1>2. IInv /\ EndInv /\ [Next]_vars => EndInv'
  <2>1. CASE UNCHANGED vars
    BY <2>1 DEF EndInv, EndOfFile, Threads, vars, file, start
  <2>2. QED
    BY <2>1, EndThread, EndMain DEF Next, Finished
<1>3. QED
  BY <1>1, <1>2, InvHolds, PTL DEF Spec

\* The process ends only after the whole file was read and every thread has
\* left its operation: ems_terminate runs alone, whatever the barriers
\* (ems_process_with_threads joins every thread of every round).
THEOREM ProcessEndsAtTheEnd == Spec => []EndsAfterTheLastLine
<1>1. IInv /\ EndInv => EndsAfterTheLastLine
  BY DEF IInv, RoundInv, EndInv, EndOfFile, EndsAfterTheLastLine, Gone
<1>2. QED
  BY <1>1, InvHolds, EndHolds, PTL

-----------------------------------------------------------------------------
(* The lines of the threads                                                *)

\* Each line that was read is executed by one thread at most, and the thread
\* at a barrier was the last to read.
LineInv ==
  /\ \A t \in Threads :
       /\ args[t].op = "barrier" => pc[t] \in {"barrier"} \cup Gone
       /\ pc[t] = "barrier" => args[t].op = "barrier" /\ args[t].line = line
       /\ Executing(t) => args[t].line \in 1 .. line /\ args[t].op = input[args[t].line].op
       /\ pc[t] = "set_wait" => args[t].op = "wait"
  /\ \A t, u \in Threads :
       Executing(t) /\ Executing(u) /\ t # u => args[t].line # args[u].line

\* A step that reads nothing: the thread keeps its line.
Quiet(t) ==
  /\ line' = line
  /\ args'[t].line = args[t].line /\ args'[t].op = args[t].op
  /\ pc'[t] \in Executes => pc[t] \in Executes
  /\ pc'[t] \notin {"barrier", "set_wait"} /\ pc'[t] # "none"
  /\ pc'[t] = "exited" => pc[t] \notin Executes

LEMMA QuietSteps ==
  ASSUME IInv, NEW t \in Threads, Thread(t)
  PROVE  Quiet(t) \/ GetCommand(t) \/ GetWholeLine(t) \/ GetSkip(t) \/ Parse(t)
<1>. ArgsOK /\ pc \in [Threads -> Places] /\ DOMAIN args[t] = Fields
  BY DEF IInv, ArgsOK, TypeOK
<1>1. CASE Operate(t)
  BY <1>1, OperateStep DEF OperatesOnly, KeepsItsLine, Quiet, HoldsRwlock, Executes, Fields
<1>2. CASE \/ LockInput(t) \/ EndWaitAll(t) \/ SetWait(t) \/ WaitAll(t)
  BY <1>2, GotoMoves DEF LockInput, EndWaitAll, SetWait, WaitAll, Quiet, Executes, HoldsRwlock,
       file
<1>3. CASE CheckFlag(t)
  <2>1. CASE BARRIER_FLAG = 0
    BY <1>3, <2>1, GotoMoves, SetArgs DEF CheckFlag, Quiet, Executes, HoldsRwlock, file, Fields
  <2>2. CASE BARRIER_FLAG # 0
    BY <1>3, <2>2, GotoMoves DEF CheckFlag, Quiet, Executes, HoldsRwlock, file
  <2>3. QED  BY <2>1, <2>2
<1>4. CASE StartWait(t)
  <2>1. CASE wait[Own(t)] > 0
    BY <1>4, <2>1, GotoMoves, SetArgs DEF StartWait, Quiet, Executes, HoldsRwlock, file, Fields
  <2>2. CASE ~ wait[Own(t)] > 0
    BY <1>4, <2>2, GotoMoves DEF StartWait, Quiet, Executes, HoldsRwlock, file
  <2>3. QED  BY <2>1, <2>2
<1>5. CASE EndWait(t)
  BY <1>5, GotoMoves, SetArgs DEF EndWait, Quiet, Executes, HoldsRwlock, file, Fields
<1>6. CASE GetEOC(t)
  BY <1>6, GotoMoves, SetArgs DEF GetEOC, Quiet, Executes, HoldsRwlock, file, Fields
<1>7. CASE BarrierLine(t)
  BY <1>7, GotoMoves, SetArgs DEF BarrierLine, Quiet, Executes, HoldsRwlock, file, Fields
<1>8. QED
  BY <1>1, <1>2, <1>3, <1>4, <1>5, <1>6, <1>7 DEF Thread, Read

\* What the four steps that read do.
Reads(t) ==
  \/ /\ GetCommand(t) /\ line' = line /\ pc[t] = "get_next" /\ pc'[t] = "parse"
     /\ args'[t].op # "barrier"
  \/ /\ GetWholeLine(t) /\ line' = line + 1 /\ pc[t] = "get_next"
     /\ \/ pc'[t] = "wrlock" /\ args'[t].op = "list"
        \/ pc'[t] = "barrier" /\ args'[t].op = "barrier"
     /\ args'[t].line = line + 1 /\ args'[t].op = input[line + 1].op
  \/ /\ GetSkip(t) /\ line' = line + 1 /\ pc[t] = "get_next" /\ pc'[t] = "check"
     /\ args'[t] = args[t]
  \/ /\ Parse(t) /\ line' = line + 1 /\ pc[t] = "parse"
     /\ pc'[t] = "wrlock" \/ (pc'[t] = "set_wait" /\ args'[t].op = "wait")
     /\ args'[t].op \in {"create", "reserve", "show", "wait"}
     /\ args'[t].line = line + 1 /\ args'[t].op = input[line + 1].op

LEMMA ReadingSteps ==
  ASSUME IInv, NEW t \in Threads, GetCommand(t) \/ GetWholeLine(t) \/ GetSkip(t) \/ Parse(t)
  PROVE  Reads(t)
<1>. ArgsOK /\ pc \in [Threads -> Places] /\ DOMAIN args[t] = Fields
  BY DEF IInv, ArgsOK, TypeOK
<1>1. CASE GetCommand(t)
  <2>1. /\ Set(t, [op |-> input[line + 1].op, line |-> line + 1])
        /\ input[line + 1].op \in {"create", "reserve", "show", "wait"}
        /\ line' = line /\ pc[t] = "get_next" /\ pc'[t] = "parse"
    BY <1>1, GotoMoves DEF GetCommand
  <2>2. args'[t].op = input[line + 1].op
    BY <2>1, SetArgs DEF Fields
  <2>3. QED  BY <1>1, <2>1, <2>2 DEF Reads
<1>2. CASE GetWholeLine(t)
  <2>1. /\ Set(t, [op |-> input[line + 1].op, line |-> line + 1])
        /\ input[line + 1].op \in {"list", "barrier"} /\ line' = line + 1
        /\ pc[t] = "get_next"
        /\ pc'[t] = (IF input[line + 1].op = "list" THEN "wrlock" ELSE "barrier")
    <3>1. CASE input[line + 1].op = "list"
      BY <1>2, <3>1, GotoMoves DEF GetWholeLine
    <3>2. CASE input[line + 1].op # "list"
      BY <1>2, <3>2, GotoMoves DEF GetWholeLine
    <3>3. QED  BY <3>1, <3>2
  <2>2. args'[t].op = input[line + 1].op /\ args'[t].line = line + 1
    BY <2>1, SetArgs DEF Fields
  <2>3. QED  BY <1>2, <2>1, <2>2 DEF Reads
<1>3. CASE GetSkip(t)
  BY <1>3, GotoMoves DEF GetSkip, Reads
<1>4. CASE Parse(t)
  <2>1. /\ pc[t] = "parse" /\ Set(t, Stored(input[line + 1])) /\ line' = line + 1
        /\ pc'[t] = (IF args[t].op = "wait" THEN "set_wait" ELSE "wrlock")
    BY <1>4, GotoMoves DEF Parse
  <2>2. input[line + 1] \in Lines
    BY <2>1, NextLine DEF IInv, ReadInv
  <2>3. args'[t].op = args[t].op /\ args'[t].line = args[t].line
    BY <2>1, <2>2, SetArgs, StoredFields DEF Fields
  <2>4. /\ args[t].op = input[line + 1].op /\ args[t].line = line + 1
        /\ args[t].op \in {"create", "reserve", "show", "wait"}
    BY <2>1 DEF IInv, ReadInv
  <2>5. pc'[t] = "wrlock" \/ (pc'[t] = "set_wait" /\ args'[t].op = "wait")
    BY <2>1, <2>3
  <2>6. QED  BY <1>4, <2>1, <2>3, <2>4, <2>5 DEF Reads
<1>5. QED
  BY <1>1, <1>2, <1>3, <1>4

LEMMA BarrierEnds ==
  ASSUME IInv, NEW t \in Threads, Thread(t), pc[t] = "barrier"
  PROVE  BarrierLine(t) /\ pc'[t] = "exited"
<1>. pc \in [Threads -> Places]
  BY DEF IInv, TypeOK
<1>1. CASE Operate(t)
  BY <1>1, OperateStep DEF OperatesOnly, HoldsRwlock
<1>2. CASE Read(t)
  BY <1>2, GotoMoves DEF Read, CheckFlag, StartWait, EndWait, LockInput, GetEOC, GetCommand,
     GetWholeLine, GetSkip, Parse, BarrierLine, WaitAll, EndWaitAll, SetWait
<1>3. QED
  BY <1>1, <1>2 DEF Thread

LEMMA LineThread ==
  ASSUME IInv, LineInv, NEW t \in Threads, Thread(t)
  PROVE  LineInv'
<1>0. /\ Moves(t) /\ Threads' = Threads /\ input' = input /\ line \in Nat
      /\ pc[t] \notin Gone /\ pc'[t] # "none"
      /\ \A u \in Threads \ {t} : pc'[u] = pc[u] /\ args'[u] = args[u]
  BY ThreadEffect
<1>1. \A u \in Threads \ {t} : pc[u] \in HoldsMutex => pc[t] \notin HoldsMutex
  BY DEF IInv, TypeOK
<1>2. CASE Quiet(t)
  <2>1. /\ args'[t].line = args[t].line /\ args'[t].op = args[t].op /\ line' = line
        /\ Executing(t)' => Executing(t)
        /\ pc'[t] \notin {"barrier", "set_wait"}
    BY <1>2 DEF Quiet, Executing
  <2>2. args'[t].op = "barrier" => pc'[t] \in {"barrier"} \cup Gone
    <3>1. CASE pc[t] # "barrier"
      BY <1>0, <2>1, <3>1 DEF LineInv
    <3>2. CASE pc[t] = "barrier"
      BY <3>2, BarrierEnds DEF Gone
    <3>3. QED  BY <3>1, <3>2
  <2>3. \A u \in Threads : args'[u].line = args[u].line /\ args'[u].op = args[u].op
    BY <1>0, <2>1
  <2>4. \A u \in Threads : Executing(u)' => Executing(u)
    BY <1>0, <2>1 DEF Executing
  <2>5. QED
    BY <1>0, <2>1, <2>2, <2>3, <2>4 DEF LineInv
<1>3. CASE Reads(t)
  <2>1. pc[t] \in {"get_next", "parse"} /\ \A u \in Threads \ {t} : pc[u] # "barrier"
    BY <1>1, <1>3 DEF Reads, HoldsMutex
  <2>2. line' \in {line, line + 1}
    BY <1>3 DEF Reads
  <2>3. /\ args'[t].op = "barrier" => pc'[t] \in {"barrier"} \cup Gone
        /\ pc'[t] = "barrier" => args'[t].op = "barrier" /\ args'[t].line = line'
        /\ pc'[t] \in Executes => /\ args'[t].line = line + 1 /\ line' = line + 1
                                  /\ args'[t].op = input[args'[t].line].op
        /\ pc'[t] = "set_wait" => args'[t].op = "wait"
    BY <1>3, <2>1 DEF Reads, Executes, HoldsRwlock, LineInv, Gone
  <2>4. \A u \in Threads \ {t} : Executing(u) => args[u].line \in 1 .. line
    BY DEF LineInv
  <2>5. QED
    BY <1>0, <2>1, <2>2, <2>3, <2>4 DEF LineInv, Executing
<1>4. QED
  BY <1>2, <1>3, QuietSteps, ReadingSteps

LEMMA LineMain ==
  ASSUME IInv, LineInv, Main
  PROVE  LineInv'
<1>0. /\ UNCHANGED <<num_threads, input, line>> /\ Threads' = Threads
      /\ pc \in [Threads -> Places]
  BY DEF Main, SetList, SetId, CreateThread, JoinThread, EndRound, file, start, Threads,
         IInv, TypeOK
<1>1. CASE SetList
  BY <1>0, <1>1 DEF SetList, LineInv, Executing, Executes, HoldsRwlock, Gone
<1>2. CASE CreateThread
  <2>1. PICK g \in Garbage : args' = [args EXCEPT ![main.i] = NewArgs(g, id_thread)]
    BY <1>2 DEF CreateThread
  <2>2. /\ pc' = [pc EXCEPT ![main.i] = "check"]
        /\ \A t \in Threads \ {main.i} : args'[t] = args[t]
        /\ main.i \in Threads => args'[main.i].op = "none"
    BY <1>2, <2>1 DEF CreateThread, IInv, ArgsOK, NewArgs
  <2>3. QED
    BY <1>0, <2>2 DEF LineInv, Executing, Executes, HoldsRwlock
<1>3. CASE SetId \/ JoinThread \/ EndRound
  BY <1>0, <1>3 DEF SetId, JoinThread, EndRound, list, LineInv, Executing
<1>4. QED
  BY <1>1, <1>2, <1>3 DEF Main

LEMMA LineHolds == Spec => []LineInv
<1>1. Init => LineInv
  BY DEF Init, LineInv, NewArgs, Gone, Executing, Executes, HoldsRwlock
<1>2. IInv /\ LineInv /\ [Next]_vars => LineInv'
  <2>1. CASE UNCHANGED vars
    BY <2>1 DEF LineInv, Executing, Threads, vars, file, start
  <2>2. QED
    BY <2>1, LineThread, LineMain DEF Next, Finished
<1>3. QED
  BY <1>1, <1>2, InvHolds, PTL DEF Spec

\* The threads that may still read a line whatever the flag says.
CanRead == {t \in Threads : pc[t] \in {"wait", "sleep", "lock", "get_next", "parse"}}

\* The lines read after a barrier, and those that may still follow, are one
\* for each other thread at most.
BarrierInv ==
  \A b \in BarriersMet :
    BARRIER_FLAG = 0 /\ b \in Nat /\ line - b + Cardinality(CanRead) <= num_threads - 1

LEMMA CanReadIsFinite ==
  ASSUME IInv
  PROVE  /\ IsFiniteSet(CanRead) /\ Cardinality(CanRead) \in Nat
         /\ \A S \in SUBSET CanRead : Cardinality(S) \in Nat
                                      /\ Cardinality(S) <= Cardinality(CanRead)
         /\ \A t \in CanRead : Cardinality(CanRead \ {t}) = Cardinality(CanRead) - 1
         /\ \A t \in Threads \ CanRead : Cardinality(CanRead) <= num_threads - 1
<1>1. IsFiniteSet(Threads) /\ Cardinality(Threads) = num_threads
  <2>1. num_threads \in Nat /\ num_threads > 0 /\ 0 \in Int /\ num_threads - 1 \in Int
    BY StartFacts
  <2>2. QED  BY <2>1, FS_Interval DEF Threads
<1>2. IsFiniteSet(CanRead) /\ CanRead \subseteq Threads
  BY <1>1, FS_Subset DEF CanRead
<1>3. Cardinality(CanRead) \in Nat
  BY <1>2, FS_CardinalityType
<1>4. \A S \in SUBSET CanRead : Cardinality(S) \in Nat
                                /\ Cardinality(S) <= Cardinality(CanRead)
  BY <1>2, FS_Subset, FS_CardinalityType
<1>5. \A t \in CanRead : Cardinality(CanRead \ {t}) = Cardinality(CanRead) - 1
  BY <1>2, FS_RemoveElement
<1>6. ASSUME NEW t \in Threads \ CanRead
      PROVE  Cardinality(CanRead) <= num_threads - 1
  <2>1. CanRead \subseteq Threads \ {t} /\ IsFiniteSet(Threads \ {t})
    BY <1>1, <1>2, FS_Subset
  <2>2. Cardinality(Threads \ {t}) = num_threads - 1
    BY <1>1, FS_RemoveElement
  <2>3. QED  BY <2>1, <2>2, FS_Subset
<1>7. QED
  BY <1>2, <1>3, <1>4, <1>5, <1>6

LEMMA BarrierThread ==
  ASSUME IInv, LineInv, BarrierInv, NEW t \in Threads, Thread(t)
  PROVE  BarrierInv'
<1>0. /\ Moves(t) /\ Threads' = Threads /\ num_threads' = num_threads /\ num_threads \in Nat
      /\ line \in Nat /\ num_threads > 0
      /\ pc[t] \notin Gone /\ pc \in [Threads -> Places]
      /\ \A u \in Threads \ {t} : pc'[u] = pc[u] /\ args'[u] = args[u]
  <2>1. num_threads' = num_threads
    BY ThreadEffect DEF Moves
  <2> QED
    BY <2>1, ThreadEffect, StartFacts
<1>1. \A b \in BarriersMet' : \/ b \in BarriersMet
                              \/ /\ b = args'[t].line /\ pc'[t] = "exited"
                                 /\ args'[t].op = "barrier"
  BY <1>0 DEF BarriersMet
<1>2. /\ Cardinality(CanRead) \in Nat
      /\ \A b \in BarriersMet : /\ BARRIER_FLAG = 0 /\ b \in Nat
                                /\ line - b + Cardinality(CanRead) <= num_threads - 1
  BY CanReadIsFinite DEF BarrierInv
<1>3. ASSUME BarriersMet' \subseteq BarriersMet, BARRIER_FLAG' = BARRIER_FLAG,
             Cardinality(CanRead') \in Nat,
             line' + Cardinality(CanRead') <= line + Cardinality(CanRead), line' \in Nat
      PROVE  BarrierInv'
  BY <1>0, <1>2, <1>3 DEF BarrierInv
<1>4. CASE BarrierLine(t)
  <2>1. /\ BARRIER_FLAG' = 0 /\ line' = line /\ pc[t] = "barrier"
        /\ Set(t, [return_value |-> 1]) /\ pc'[t] = "exited"
    BY <1>0, <1>4, GotoMoves DEF BarrierLine, file
  <2>2. args'[t].line = args[t].line
    BY <2>1, SetArgs DEF IInv, Fields
  <2>3. args[t].line = line
    BY <2>1 DEF LineInv
  <2>4. CanRead' = CanRead /\ t \notin CanRead
    BY <1>0, <2>1 DEF CanRead
  <2>5. Cardinality(CanRead) <= num_threads - 1
    BY <2>4, CanReadIsFinite
  <2>6. ASSUME NEW b \in BarriersMet'
        PROVE  b \in Nat /\ line' - b + Cardinality(CanRead') <= num_threads - 1
    <3>1. CASE b \in BarriersMet
      BY <1>0, <1>2, <2>1, <2>4, <3>1
    <3>2. CASE b = line
      BY <1>0, <1>2, <2>1, <2>4, <2>5, <3>2
    <3>3. QED  BY <1>1, <2>2, <2>3, <3>1, <3>2
  <2>7. QED  BY <1>0, <2>1, <2>6 DEF BarrierInv
<1>5. CASE CheckFlag(t)
  <2>1. CASE BARRIER_FLAG = 0
    <3>1. /\ pc[t] = "check" /\ pc'[t] = "exited" /\ Set(t, [return_value |-> 1])
          /\ line' = line /\ BARRIER_FLAG' = BARRIER_FLAG
      BY <1>0, <1>5, <2>1, GotoMoves DEF CheckFlag, file
    <3>2. args'[t].op = args[t].op
      BY <3>1, SetArgs DEF IInv, Fields
    <3>3. args[t].op # "barrier"
      BY <3>1 DEF LineInv, Gone
    <3>4. CanRead' = CanRead
      BY <1>0, <3>1 DEF CanRead
    <3>5. QED  BY <1>0, <1>1, <1>2, <1>3, <3>1, <3>2, <3>3, <3>4
  <2>2. CASE BARRIER_FLAG # 0
    <3>1. pc'[t] = "wait"
      BY <1>0, <1>5, <2>2, GotoMoves DEF CheckFlag
    <3>2. BarriersMet' = {}
      BY <1>1, <1>2, <2>2, <3>1
    <3>3. QED  BY <3>2 DEF BarrierInv
  <2>3. QED  BY <2>1, <2>2
<1>6. CASE Reads(t)
  <2>1. /\ t \in CanRead /\ pc'[t] # "exited" /\ BARRIER_FLAG' = BARRIER_FLAG
        /\ \/ line' = line /\ CanRead' = CanRead
           \/ line' = line + 1 /\ CanRead' = CanRead \ {t}
    <3>1. t \in CanRead /\ pc'[t] # "exited"
      BY <1>6 DEF Reads, CanRead
    <3>2. BARRIER_FLAG' = BARRIER_FLAG
      BY <1>6 DEF Reads, GetCommand, GetWholeLine, GetSkip, Parse
    <3>3. \/ line' = line /\ pc'[t] = "parse"
          \/ line' = line + 1 /\ pc'[t] \in {"wrlock", "barrier", "check", "set_wait"}
      BY <1>6 DEF Reads
    <3>4. pc'[t] = "parse" => CanRead' = CanRead
      BY <1>0, <3>1 DEF CanRead
    <3>5. pc'[t] \in {"wrlock", "barrier", "check", "set_wait"} => CanRead' = CanRead \ {t}
      BY <1>0, <3>1 DEF CanRead
    <3>6. QED  BY <3>1, <3>2, <3>3, <3>4, <3>5
  <2>2. Cardinality(CanRead \ {t}) = Cardinality(CanRead) - 1
        /\ Cardinality(CanRead \ {t}) \in Nat
    BY <2>1, CanReadIsFinite
  <2>3. /\ Cardinality(CanRead') \in Nat /\ line' \in Nat
        /\ line' + Cardinality(CanRead') <= line + Cardinality(CanRead)
    <3>1. CASE line' = line /\ CanRead' = CanRead
      BY <1>0, <1>2, <3>1
    <3>2. CASE line' = line + 1 /\ CanRead' = CanRead \ {t}
      <4>1. Cardinality(CanRead') = Cardinality(CanRead) - 1
        BY <2>2, <3>2
      <4>2. QED  BY <1>0, <1>2, <2>2, <3>2, <4>1
    <3>3. QED  BY <2>1, <3>1, <3>2
  <2>4. BarriersMet' \subseteq BarriersMet
    BY <1>1, <2>1
  <2>5. QED  BY <1>3, <2>1, <2>3, <2>4
<1>7. CASE Quiet(t) /\ ~ BarrierLine(t) /\ ~ CheckFlag(t)
  <2>1. BARRIER_FLAG' = BARRIER_FLAG
    <3>1. CASE Operate(t)
      BY <3>1, OperateStep DEF OperatesOnly
    <3>2. CASE Read(t)
      BY <1>7, <3>2 DEF Read, StartWait, EndWait, LockInput, GetEOC, GetCommand,
         GetWholeLine, GetSkip, Parse, WaitAll, EndWaitAll, SetWait
    <3>3. QED  BY <3>1, <3>2 DEF Thread
  <2>2. pc'[t] \in {"wait", "sleep", "lock", "get_next", "parse"} =>
          pc[t] \in {"wait", "sleep", "lock", "get_next", "parse"}
    <3>1. CASE Operate(t)
      BY <3>1, OperateStep DEF OperatesOnly, HoldsRwlock
    <3>2. CASE Read(t)
      BY <1>0, <1>7, <3>2, GotoMoves DEF Read, StartWait, EndWait, LockInput, GetEOC,
         GetCommand, GetWholeLine, GetSkip, Parse, WaitAll, EndWaitAll, SetWait
    <3>3. QED  BY <3>1, <3>2 DEF Thread
  <2>3. CanRead' \subseteq CanRead
    BY <1>0, <2>2 DEF CanRead
  <2>4. Cardinality(CanRead') \in Nat /\ Cardinality(CanRead') <= Cardinality(CanRead)
    BY <2>3, CanReadIsFinite
  <2>5. pc[t] # "barrier"
    BY <1>7, BarrierEnds
  <2>6. ~ (pc'[t] = "exited" /\ args'[t].op = "barrier")
    BY <1>0, <1>7, <2>5 DEF Quiet, LineInv
  <2>7. line' = line
    BY <1>7 DEF Quiet
  <2>8. QED  BY <1>0, <1>1, <1>2, <1>3, <2>1, <2>4, <2>6, <2>7
<1>8. QED
  BY <1>4, <1>5, <1>6, <1>7, QuietSteps, ReadingSteps

LEMMA BarrierMain ==
  ASSUME IInv, BarrierInv, Main
  PROVE  BarrierInv'
<1>0. /\ UNCHANGED <<num_threads, input, line>> /\ Threads' = Threads
      /\ pc \in [Threads -> Places]
  BY DEF Main, SetList, SetId, CreateThread, JoinThread, EndRound, file, start, Threads,
         IInv, TypeOK
<1>1. CASE SetList
  <2>1. \A t \in Threads : pc'[t] = "none"
    BY <1>1 DEF SetList
  <2>2. BarriersMet' = {}
    BY <1>0, <2>1 DEF BarriersMet
  <2>3. QED  BY <2>2 DEF BarrierInv
<1>2. CASE CreateThread
  <2>1. /\ pc' = [pc EXCEPT ![main.i] = "check"] /\ BARRIER_FLAG' = BARRIER_FLAG
        /\ \A t \in Threads \ {main.i} : args'[t] = args[t]
    BY <1>2 DEF CreateThread, IInv, ArgsOK
  <2>2. main.i \in Threads => pc[main.i] = "none"
    BY <1>2, StartFacts DEF CreateThread, IInv, RoundInv
  <2>3. CanRead' = CanRead /\ BarriersMet' = BarriersMet
    BY <1>0, <2>1, <2>2 DEF CanRead, BarriersMet
  <2>4. QED  BY <1>0, <2>1, <2>3 DEF BarrierInv
<1>3. CASE SetId \/ JoinThread \/ EndRound
  <2>1. UNCHANGED <<pc, args, BARRIER_FLAG>>
    BY <1>3 DEF SetId, JoinThread, EndRound, list
  <2>2. CanRead' = CanRead /\ BarriersMet' = BarriersMet
    BY <1>0, <2>1 DEF CanRead, BarriersMet
  <2>3. QED  BY <1>0, <2>1, <2>2 DEF BarrierInv
<1>4. QED
  BY <1>1, <1>2, <1>3 DEF Main

LEMMA BarrierHolds == Spec => []BarrierInv
<1>1. Init => BarrierInv
  <2>1. Init => BarriersMet = {}
    BY DEF Init, BarriersMet
  <2>2. QED  BY <2>1 DEF BarrierInv
<1>2. IInv /\ LineInv /\ BarrierInv /\ [Next]_vars => BarrierInv'
  <2>1. ASSUME BarrierInv, UNCHANGED vars
        PROVE  BarrierInv'
    <3>1. UNCHANGED <<num_threads, line, BARRIER_FLAG, pc, args>> /\ Threads' = Threads
      BY <2>1 DEF vars, file, start, Threads
    <3>2. CanRead' = CanRead /\ BarriersMet' = BarriersMet
      BY <3>1 DEF CanRead, BarriersMet
    <3>3. QED  BY <2>1, <3>1, <3>2 DEF BarrierInv
  <2>2. QED
    BY <2>1, BarrierThread, BarrierMain DEF Next, Finished
<1>3. QED
  BY <1>1, <1>2, InvHolds, LineHolds, PTL DEF Spec

\* BARRIER_FLAG is read once for each line: of the lines after a barrier each
\* of the other threads of the round reads at most one (ems_process_thread),
\* for any number of threads.
THEOREM BarrierLetsFewThrough == Spec => []FewLinesPassTheBarrier
<1>1. IInv /\ BarrierInv => FewLinesPassTheBarrier
  <2>1. SUFFICES ASSUME IInv, BarrierInv, NEW b \in BarriersMet
        PROVE  line - b <= num_threads - 1
    BY DEF FewLinesPassTheBarrier
  <2>2. Cardinality(CanRead) \in Nat /\ line \in Nat /\ num_threads \in Nat
    BY <2>1, CanReadIsFinite, StartFacts DEF IInv, TypeOK
  <2>3. QED  BY <2>1, <2>2 DEF BarrierInv
<1>2. QED
  BY <1>1, InvHolds, BarrierHolds, PTL

-----------------------------------------------------------------------------
(* The output                                                              *)

IsWait(k) == input[k].op = "wait"

\* Nobody has written for a line that is still to be executed, and while a
\* thread writes, nobody else but a WAIT does.
OutInv ==
  /\ \A a \in DOMAIN out : out[a].line \in 1 .. line
  /\ \A t \in Threads : pc[t] \in {"set_wait", "wrlock", "lookup", "append", "seat"} =>
       \A a \in DOMAIN out : out[a].line # args[t].line
  /\ \A t \in Threads : pc[t] = "write" =>
       \A a, b \in DOMAIN out : a < b /\ out[a].line = args[t].line =>
         out[b].line = args[t].line \/ IsWait(out[b].line)
  /\ OutputIsContiguous

\* The threads that will still write for their line, if at all.
Writes(t) == pc[t] \in {"set_wait", "wrlock", "lookup", "append", "seat"}

\* Output may be appended for the line of a thread if nobody else is writing,
\* or if it is the output of a WAIT.
LEMMA OutGrows ==
  ASSUME IInv, LineInv, OutInv, NEW t \in Threads, Thread(t), NEW e,
         out' = Append(out, e), e.line = args[t].line, line' = line,
         pc[t] \in {"set_wait", "write"}, ~ Writes(t)', args'[t].line = args[t].line,
         IsWait(e.line) \/ \A u \in Threads \ {t} : pc[u] # "write",
         \A a, b \in DOMAIN out : a < b /\ out[a].line = e.line =>
           out[b].line = e.line \/ IsWait(out[b].line)
  PROVE  OutInv'
<1>0. /\ Threads' = Threads /\ input' = input /\ line \in Nat
      /\ \A u \in Threads \ {t} : pc'[u] = pc[u] /\ args'[u] = args[u]
      /\ \A u \in Threads : args'[u].line = args[u].line
  BY ThreadEffect
<1>1. /\ Len(out) \in Nat /\ DOMAIN out = 1 .. Len(out)
      /\ DOMAIN out' = 1 .. Len(out) + 1
      /\ out'[Len(out) + 1] = e /\ \A k \in DOMAIN out : out'[k] = out[k]
  BY AppendOut DEF IInv
<1>2. \A k \in Nat : IsWait(k)' = IsWait(k)
  BY <1>0 DEF IsWait
<1>3. Executing(t) /\ e.line \in 1 .. line
  BY DEF Executing, Executes, HoldsRwlock, LineInv
<1>4. \A a \in DOMAIN out : out[a].line \in 1 .. line /\ out[a].line \in Nat
  BY <1>0 DEF OutInv
<1>5. \A a \in DOMAIN out' : out'[a].line \in 1 .. line'
  BY <1>1, <1>3, <1>4
<1>6. ASSUME NEW u \in Threads, Writes(u)', NEW a \in DOMAIN out'
      PROVE  out'[a].line # args'[u].line
  <2>1. u # t /\ Writes(u) /\ Executing(u)
    BY <1>0, <1>6 DEF Writes, Executing, Executes, HoldsRwlock
  <2>2. args[u].line # e.line
    BY <1>3, <2>1 DEF LineInv
  <2>3. \A k \in DOMAIN out : out[k].line # args[u].line
    BY <2>1 DEF OutInv, Writes
  <2>4. QED  BY <1>0, <1>1, <1>6, <2>2, <2>3
<1>7. ASSUME NEW u \in Threads, pc'[u] = "write", NEW a \in DOMAIN out', NEW b \in DOMAIN out',
             a < b, out'[a].line = args'[u].line
      PROVE  out'[b].line = args'[u].line \/ IsWait(out'[b].line)
  <2>1. a \in DOMAIN out /\ out[a].line = args[u].line
    BY <1>0, <1>1, <1>7
  <2>2. CASE b \in DOMAIN out
    <3>1. out[b].line = args[u].line \/ IsWait(out[b].line)
      <4>1. CASE u = t
        BY <1>7, <2>1, <2>2, <4>1
      <4>2. CASE u # t
        BY <1>0, <1>7, <2>1, <2>2, <4>2 DEF OutInv
      <4>3. QED  BY <4>1, <4>2
    <3>2. QED  BY <1>0, <1>1, <2>2, <3>1
  <2>3. CASE b = Len(out) + 1
    <3>1. u = t \/ IsWait(e.line)
      BY <1>0, <1>7
    <3>2. out'[b] = e
      BY <1>1, <2>3
    <3>3. QED  BY <1>0, <3>1, <3>2
  <2>4. QED  BY <1>1, <1>7, <2>2, <2>3
<1>8. ASSUME NEW a \in DOMAIN out', NEW b \in DOMAIN out', NEW c \in DOMAIN out',
             a < b, b < c, out'[a].line = out'[c].line, input[out'[b].line].op # "wait"
      PROVE  out'[b].line = out'[a].line
  <2>1. a \in DOMAIN out /\ b \in DOMAIN out /\ out'[a] = out[a] /\ out'[b] = out[b]
    BY <1>1, <1>8
  <2>2. CASE c \in DOMAIN out
    BY <1>1, <1>8, <2>1, <2>2 DEF OutInv, OutputIsContiguous
  <2>3. CASE c = Len(out) + 1
    BY <1>1, <1>8, <2>1, <2>3 DEF IsWait
  <2>4. QED  BY <1>1, <1>8, <2>2, <2>3
<1>9. OutputIsContiguous'
  BY <1>0, <1>8 DEF OutputIsContiguous
<1>10. QED
  BY SMTT(30), <1>0, <1>5, <1>6, <1>7, <1>9 DEF OutInv, Writes, IsWait

LEMMA OutThread ==
  ASSUME IInv, LineInv, OutInv, NEW t \in Threads, Thread(t)
  PROVE  OutInv'
<1>0. /\ Moves(t) /\ Threads' = Threads /\ input' = input /\ line \in Nat
      /\ pc[t] \notin Gone /\ pc \in [Threads -> Places]
      /\ \A u \in Threads \ {t} : pc'[u] = pc[u] /\ args'[u] = args[u]
  BY ThreadEffect
<1>. USE DEF Writes
<1>1. CASE GetCommand(t) \/ GetWholeLine(t) \/ GetSkip(t) \/ Parse(t)
  <2>1. Reads(t)
    BY <1>1, ReadingSteps
  <2>2. out' = out
    BY <1>1 DEF GetCommand, GetWholeLine, GetSkip, Parse, store
  <2>3. line' \in {line, line + 1} /\ pc'[t] \in {"parse", "wrlock", "barrier", "check", "set_wait"}
    BY <2>1 DEF Reads
  <2>4. pc'[t] \in {"wrlock", "set_wait"} => args'[t].line = line + 1
    BY <2>1 DEF Reads
  <2>5. \A a \in DOMAIN out : out[a].line \in 1 .. line
    BY DEF OutInv
  <2>6. \A a \in DOMAIN out' : out'[a].line \in 1 .. line'
    BY <1>0, <2>2, <2>3, <2>5
  <2>7. \A u \in Threads : Writes(u)' => \A a \in DOMAIN out : out[a].line # args'[u].line
    BY <1>0, <2>3, <2>4, <2>5 DEF OutInv
  <2>8. \A u \in Threads : pc'[u] = "write" => pc[u] = "write" /\ args'[u] = args[u]
    BY <1>0, <2>3
  <2>9. QED
    BY <1>0, <2>2, <2>6, <2>7, <2>8 DEF OutInv, IsWait, OutputIsContiguous
<1>2. CASE Quiet(t) /\ out' = out
  <2>1. /\ args'[t].line = args[t].line /\ line' = line
        /\ pc'[t] \in Executes => pc[t] \in Executes /\ pc'[t] # "set_wait"
    BY <1>2 DEF Quiet
  <2>2. \A u \in Threads : args'[u].line = args[u].line
    BY <1>0, <2>1
  <2>3. /\ Writes(t)' => Writes(t)
        /\ pc'[t] = "write" => pc[t] = "write" \/ Writes(t)
    <3>1. CASE Operate(t)
      BY <3>1, OperateStep DEF OperatesOnly, HoldsRwlock
    <3>2. CASE Read(t)
      BY <1>0, <1>2, <3>2, GotoMoves DEF Read, CheckFlag, StartWait, EndWait, LockInput, GetEOC,
         GetCommand, GetWholeLine, GetSkip, Parse, BarrierLine, WaitAll, EndWaitAll, SetWait, Quiet
    <3>3. QED  BY <3>1, <3>2 DEF Thread
  <2>4. QED
    BY <1>0, <1>2, <2>1, <2>2, <2>3 DEF OutInv, IsWait, OutputIsContiguous
<1>3. CASE WaitAll(t)
  <2>1. /\ pc[t] = "set_wait" /\ pc'[t] = "sleep_all" /\ line' = line /\ args' = args
    BY <1>0, <1>3, GotoMoves DEF WaitAll, file
  <2>2. PICK e : e.line = args[t].line /\ out' = Append(out, e)
    BY <1>3 DEF WaitAll
  <2>3. IsWait(args[t].line)
    BY <2>1 DEF LineInv, IsWait, Executing, Executes
  <2>4. \A a \in DOMAIN out : out[a].line # args[t].line
    BY <2>1 DEF OutInv
  <2>5. ~ Writes(t)' /\ args'[t].line = args[t].line
    BY <2>1
  <2>6. QED  BY <2>1, <2>2, <2>3, <2>4, <2>5, OutGrows
<1>4. CASE WritesItsLine(t) /\ Operate(t)
  <2>1. /\ pc[t] = "write" /\ pc'[t] \in {"write", "check"} /\ line' = line
        /\ args'[t].line = args[t].line
    BY <1>4, OperateStep DEF OperatesOnly, WritesItsLine, KeepsItsLine, Fields
  <2>2. PICK e : e.line = args[t].line /\ out' = Append(out, e)
    BY <1>4 DEF WritesItsLine
  <2>3. \A u \in Threads \ {t} : pc[u] # "write"
    BY <2>1 DEF IInv, TypeOK, HoldsRwlock
  <2>4. \A a, b \in DOMAIN out : a < b /\ out[a].line = args[t].line =>
          out[b].line = args[t].line \/ IsWait(out[b].line)
    BY <2>1 DEF OutInv
  <2>5. ~ Writes(t)'
    BY <2>1
  <2>6. QED  BY <2>1, <2>2, <2>3, <2>4, <2>5, OutGrows
<1>5. CASE Quiet(t) /\ ~ WaitAll(t) /\ ~ (WritesItsLine(t) /\ Operate(t))
  <2>1. out' = out
    <3>1. CASE Operate(t)
      BY <1>5, <3>1, OperateStep DEF OperatesOnly
    <3>2. CASE Read(t)
      BY <1>5, <3>2 DEF Read, CheckFlag, StartWait, EndWait, LockInput, GetEOC, GetCommand,
         GetWholeLine, GetSkip, Parse, BarrierLine, EndWaitAll, SetWait, store
    <3>3. QED  BY <3>1, <3>2 DEF Thread
  <2>2. QED  BY <1>2, <1>5, <2>1
<1>6. QED
  BY <1>1, <1>3, <1>4, <1>5, QuietSteps

LEMMA OutMain ==
  ASSUME IInv, OutInv, Main
  PROVE  OutInv'
<1>0. /\ UNCHANGED <<num_threads, input, line, out>> /\ Threads' = Threads
      /\ pc \in [Threads -> Places]
  BY DEF Main, SetList, SetId, CreateThread, JoinThread, EndRound, file, start, store, Threads,
         IInv, TypeOK
<1>1. ASSUME NEW u \in Threads, pc'[u] \notin {"none", "check"}
      PROVE  pc'[u] = pc[u] /\ args'[u] = args[u]
  BY <1>0, <1>1 DEF Main, SetList, SetId, CreateThread, JoinThread, EndRound, list, IInv, ArgsOK
<1>2. QED
  BY <1>0, <1>1 DEF OutInv, IsWait, OutputIsContiguous

\* What one SHOW or LIST writes is not torn apart by another one: it is
\* written under rwlock, and only the line of a WAIT, written under mutex, may
\* fall in between.
THEOREM OutputStaysTogether == Spec => []OutputIsContiguous
<1>1. Init => OutInv
  BY DEF Init, OutInv, OutputIsContiguous
<1>2. IInv /\ LineInv /\ OutInv /\ [Next]_vars => OutInv'
  <2>1. CASE UNCHANGED vars
    BY <2>1 DEF OutInv, IsWait, OutputIsContiguous, Threads, vars, file, start, store
  <2>2. QED
    BY <2>1, OutThread, OutMain DEF Next, Finished
<1>3. OutInv => OutputIsContiguous
  BY DEF OutInv
<1>4. QED
  BY <1>1, <1>2, <1>3, InvHolds, LineHolds, PTL DEF Spec

-----------------------------------------------------------------------------
(* Sorting                                                                 *)

\* The seats that are not after the j-th one in the sorted list.
UpTo(seats, j) ==
  {k \in DOMAIN seats : Precedes(seats[k], seats[j]) \/ (seats[k] = seats[j] /\ k <= j)}

\* The ranks of the seats are all the places of the sorted list.
LEMMA RanksAreThePlaces ==
  ASSUME NEW seats \in Seq(Seats)
  PROVE  \A n \in DOMAIN seats : \E j \in DOMAIN seats : Rank(seats, j) = n
<1>. DEFINE D == DOMAIN seats
            f == [j \in D |-> Rank(seats, j)]
<1>1. /\ D = 1 .. Len(seats) /\ Len(seats) \in Nat /\ D \subseteq Nat
      /\ \A j \in D : seats[j] \in Seats /\ seats[j][1] \in Nat /\ seats[j][2] \in Nat
  BY DEF Seats
<1>2. IsFiniteSet(D) /\ Cardinality(D) = Len(seats)
  <2>1. 1 \in Int /\ Len(seats) \in Int
    BY <1>1
  <2>2. /\ IsFiniteSet(1 .. Len(seats))
        /\ Cardinality(1 .. Len(seats))
             = IF 1 > Len(seats) THEN 0 ELSE Len(seats) - 1 + 1
    BY <2>1, FS_Interval
  <2>3. QED  BY <1>1, <2>2
<1>3. ASSUME NEW j \in D
      PROVE  /\ UpTo(seats, j) \subseteq D /\ j \in UpTo(seats, j)
             /\ IsFiniteSet(UpTo(seats, j)) /\ Cardinality(UpTo(seats, j)) \in Nat
             /\ Rank(seats, j) = Cardinality(UpTo(seats, j))
  <2>1. UpTo(seats, j) \subseteq D /\ j \in UpTo(seats, j)
    BY <1>1 DEF UpTo
  <2>2. IsFiniteSet(UpTo(seats, j)) /\ Cardinality(UpTo(seats, j)) \in Nat
    BY <1>2, <2>1, FS_Subset, FS_CardinalityType
  <2>3. QED  BY <2>1, <2>2 DEF Rank, UpTo
<1>4. ASSUME NEW j \in D PROVE Rank(seats, j) \in D
  <2>1. /\ Cardinality(UpTo(seats, j)) <= Len(seats)
        /\ Cardinality(UpTo(seats, j)) # 0
    BY <1>2, <1>3, FS_Subset, FS_EmptySet
  <2>2. QED  BY <1>1, <1>3, <2>1
<1>5. ASSUME NEW j \in D, NEW k \in D, j # k, UpTo(seats, j) \subseteq UpTo(seats, k)
      PROVE  Rank(seats, j) # Rank(seats, k)
  <2>1. k \notin UpTo(seats, j)
    BY <1>1, <1>3, <1>5 DEF UpTo, Precedes
  <2>2. UpTo(seats, j) # UpTo(seats, k)
    BY <1>3, <2>1
  <2>3. QED  BY <1>3, <1>5, <2>2, FS_Subset
<1>6. ASSUME NEW j \in D, NEW k \in D
      PROVE  UpTo(seats, j) \subseteq UpTo(seats, k) \/ UpTo(seats, k) \subseteq UpTo(seats, j)
  <2>1. \/ Precedes(seats[j], seats[k]) \/ Precedes(seats[k], seats[j])
        \/ seats[j] = seats[k]
    BY <1>1 DEF Precedes, Seats
  <2>2. CASE Precedes(seats[j], seats[k])
    BY SMTT(30), <1>1, <2>2 DEF UpTo, Precedes
  <2>3. CASE Precedes(seats[k], seats[j])
    BY SMTT(30), <1>1, <2>3 DEF UpTo, Precedes
  <2>4. CASE seats[j] = seats[k]
    BY <1>1, <2>4 DEF UpTo
  <2>5. QED  BY <2>1, <2>2, <2>3, <2>4
<1>7. f \in Injection(D, D)
  BY <1>4, <1>5, <1>6 DEF Injection, IsInjective
<1>8. f \in Surjection(D, D)
  BY <1>2, <1>7, FS_Injection
<1>9. QED
  BY <1>8 DEF Surjection

\* SortSeats returns as many seats, each of them one of those it was given.
LEMMA SortedSeats ==
  ASSUME NEW seats \in Seq(Seats)
  PROVE  SortSeats(seats) \in Seq(Seats) /\ (SortSeats(seats) = <<>> <=> seats = <<>>)
<1>1. \A n \in DOMAIN seats :
        (CHOOSE j \in DOMAIN seats : Rank(seats, j) = n) \in DOMAIN seats
  BY RanksAreThePlaces
<1>2. SortSeats(seats) \in [1 .. Len(seats) -> Seats] /\ Len(seats) \in Nat
  BY SMTT(30), <1>1 DEF SortSeats
<1>3. SortSeats(seats) \in Seq(Seats) /\ Len(SortSeats(seats)) = Len(seats)
  BY <1>2
<1>4. QED
  BY <1>3

-----------------------------------------------------------------------------
(* The invariant                                                           *)

\* The rejected RESERVE lines that were executed to the end.
Spent == {k \in RejectedReserves : k <= line /\ \A t \in Threads :
            Executing(t) => args[t].line # k}

\* The numbers up to n that no seat carries.
Unseated(e, n) == (1 .. n) \ Numbers(e)

\* The seats carry numbers that were given, and of the first n numbers all
\* but m are in a seat.
Settled(e, n, m) ==
  Numbers(e) \subseteq 1 .. e.reservations /\ Cardinality(Unseated(e, n)) <= m

\* In the middle of a reservation: the seats taken so far, and no others,
\* carry the last number, and without it the event is in order.
Reserving(t) ==
  LET e == Event(t)
      s == args[t].seats
  IN  /\ args[t].p \in DOMAIN event_list /\ args[t].i \in 1 .. Len(s) + 1
      /\ args[t].op = "reserve" /\ e.reservations >= 1
      /\ \A j \in 1 .. args[t].i - 1 : seat_index(e, s[j]) \in DOMAIN e.data
      /\ \A c \in DOMAIN e.data :
           e.data[c] = e.reservations <=>
             \E j \in 1 .. args[t].i - 1 : c = seat_index(e, s[j])
      /\ Settled(e, e.reservations - 1, Cardinality(Spent))

\* The seats a thread asks for are those of its line.
SeatsInv ==
  \A t \in Threads :
    /\ args[t].event \in Nat /\ args[t].rows \in Nat /\ args[t].cols \in Nat
    /\ args[t].seats \in Seq(Seats)
    /\ Executing(t) /\ args[t].op = "reserve" =>
         args[t].seats = SortSeats(input[args[t].line].seats)

StoreInv ==
  /\ main.pc = "done" => event_list = NULL
  /\ main.pc # "done" =>
       /\ event_list \in Seq(Events) /\ NoDuplicates(event_list)
       /\ \A t \in Threads : pc[t] = "append" =>
            \A p \in DOMAIN event_list : event_list[p].id # args[t].event
       /\ \A t \in Threads : pc[t] = "seat" => Reserving(t)
       /\ \A p \in DOMAIN event_list :
            (\A t \in Threads : pc[t] = "seat" => args[t].p # p) =>
              Settled(event_list[p], event_list[p].reservations, Cardinality(Spent))

-----------------------------------------------------------------------------
(* The operations on one event                                             *)

LEMMA NewEvents ==
  ASSUME NEW i \in Nat, NEW r \in Nat, NEW c \in Nat, NEW m \in Nat
  PROVE  /\ NewEvent(i, r, c) \in Events /\ NewEvent(i, r, c).id = i
         /\ Settled(NewEvent(i, r, c), NewEvent(i, r, c).reservations, m)
<1>. DEFINE e == NewEvent(i, r, c)
<1>1. e \in Events /\ e.id = i /\ e.reservations = 0 /\ Numbers(e) = {}
  BY EmptyEvent
<1>2. Unseated(e, e.reservations) = {}
  BY <1>1 DEF Unseated
<1>3. Cardinality(Unseated(e, e.reservations)) = 0
  BY <1>2, FS_EmptySet
<1>4. Settled(e, e.reservations, m)
  BY <1>1, <1>3 DEF Settled
<1>5. QED
  BY <1>1, <1>4

\* ++event->reservations
LEMMA CountUp ==
  ASSUME NEW e \in Events, NEW m, Settled(e, e.reservations, m),
         NEW x, x = [e EXCEPT !.reservations = @ + 1]
  PROVE  /\ x \in Events /\ x.id = e.id /\ x.data = e.data /\ x.reservations >= 1
         /\ x.rows = e.rows /\ x.cols = e.cols
         /\ Settled(x, x.reservations - 1, m)
         /\ \A c \in DOMAIN x.data : x.data[c] # x.reservations
<1>1. e.reservations \in Nat /\ e.data \in [DOMAIN e.data -> Nat]
      /\ DOMAIN e = {"id", "rows", "cols", "reservations", "data"}
  BY EventFields
<1>2. /\ x.id = e.id /\ x.data = e.data /\ x.reservations = e.reservations + 1
      /\ x.rows = e.rows /\ x.cols = e.cols
  BY <1>1
<1>3. x \in Events
  BY <1>1, <1>2, SameShape
<1>4. Numbers(x) = Numbers(e)
  BY <1>2 DEF Numbers
<1>5. \A c \in DOMAIN e.data : e.data[c] # 0 => e.data[c] \in 1 .. e.reservations
  BY DEF Settled, Numbers
<1>6. Settled(x, x.reservations - 1, m)
  <2>1. Unseated(x, x.reservations - 1) = Unseated(e, e.reservations)
    BY <1>1, <1>2, <1>4 DEF Unseated
  <2>2. Numbers(x) \subseteq 1 .. x.reservations
    BY <1>1, <1>2, <1>4 DEF Settled
  <2>3. QED  BY <2>1, <2>2 DEF Settled
<1>7. \A c \in DOMAIN x.data : x.data[c] # x.reservations
  BY <1>1, <1>2, <1>5
<1>8. QED
  BY <1>1, <1>2, <1>3, <1>6, <1>7

\* *get_seat_with_delay(...) = reservation_id, on a seat that is free.
LEMMA TakeOne ==
  ASSUME NEW e \in Events, NEW s \in Seats, Available(e, s), e.reservations >= 1,
         NEW m, Settled(e, e.reservations - 1, m),
         NEW x, x = Taken(e, s, e.reservations)
  PROVE  /\ x \in Events /\ x.id = e.id /\ x.reservations = e.reservations
         /\ x.rows = e.rows /\ x.cols = e.cols
         /\ seat_index(e, s) \in DOMAIN e.data /\ DOMAIN x.data = DOMAIN e.data
         /\ \A c \in DOMAIN e.data :
              x.data[c] = IF c = seat_index(e, s) THEN e.reservations ELSE e.data[c]
         /\ Settled(x, x.reservations - 1, m)
<1>1. e.reservations \in Nat /\ e.data \in [DOMAIN e.data -> Nat]
      /\ DOMAIN e = {"id", "rows", "cols", "reservations", "data"}
  BY EventFields
<1>2. seat_index(e, s) \in DOMAIN e.data /\ e.data[seat_index(e, s)] = 0
  BY SeatHasACell DEF Available
<1>3. /\ x.id = e.id /\ x.reservations = e.reservations /\ x.rows = e.rows /\ x.cols = e.cols
      /\ x.data = [e.data EXCEPT ![seat_index(e, s)] = e.reservations]
  BY <1>1 DEF Taken
<1>4. x.data \in [DOMAIN e.data -> Nat]
  BY <1>1, <1>3
<1>5. x \in Events
  BY <1>1, <1>3, <1>4, SameShape DEF Taken
<1>6. Numbers(x) = Numbers(e) \cup {e.reservations}
  BY <1>1, <1>2, <1>3 DEF Numbers
<1>7. Settled(x, x.reservations - 1, m)
  <2>1. Unseated(x, x.reservations - 1) = Unseated(e, e.reservations - 1)
    BY <1>1, <1>3, <1>6 DEF Unseated
  <2>2. Numbers(x) \subseteq 1 .. x.reservations
    BY <1>1, <1>3, <1>6 DEF Settled
  <2>3. QED  BY <2>1, <2>2 DEF Settled
<1>8. QED
  BY <1>2, <1>3, <1>4, <1>5, <1>7

\* Everything the last reservation took is given back, and its number.
LEMMA GiveBack ==
  ASSUME NEW e \in Events, e.reservations >= 1, NEW m, Settled(e, e.reservations - 1, m),
         NEW seats, NEW n \in Nat,
         \A c \in DOMAIN e.data :
           e.data[c] = e.reservations <=> \E j \in 1 .. n : c = seat_index(e, seats[j]),
         NEW x, x = Rollback(e, seats, n)
  PROVE  /\ x \in Events /\ x.id = e.id /\ Settled(x, x.reservations, m)
<1>. DEFINE back == {seat_index(e, seats[j]) : j \in 1 .. n}
<1>1. e.reservations \in Nat /\ e.data \in [DOMAIN e.data -> Nat]
      /\ DOMAIN e = {"id", "rows", "cols", "reservations", "data"}
  BY EventFields
<1>2. /\ x.id = e.id /\ x.reservations = e.reservations - 1 /\ x.rows = e.rows
      /\ x.cols = e.cols
      /\ x.data = [i \in DOMAIN e.data |-> IF i \in back THEN 0 ELSE e.data[i]]
      /\ DOMAIN x = DOMAIN e /\ x = [f \in DOMAIN x |-> x[f]]
  BY <1>1 DEF Rollback
<1>3. x.data \in [DOMAIN e.data -> Nat]
  BY <1>1, <1>2
<1>4. x \in Events
  BY <1>1, <1>2, <1>3, SameShape
<1>5. \A c \in DOMAIN e.data : x.data[c] = IF e.data[c] = e.reservations THEN 0 ELSE e.data[c]
  BY <1>2
<1>6. Numbers(x) = Numbers(e) \ {e.reservations}
  BY <1>1, <1>2, <1>3, <1>5 DEF Numbers
<1>7. /\ Unseated(x, x.reservations) = Unseated(e, e.reservations - 1)
      /\ Numbers(x) \subseteq 1 .. x.reservations
  BY <1>1, <1>2, <1>6 DEF Settled, Unseated
<1>8. QED
  BY <1>2, <1>4, <1>7 DEF Settled

\* A reservation that took all its seats; without any, it leaves its number
\* unused.
LEMMA CompleteOne ==
  ASSUME NEW e \in Events, e.reservations >= 1, NEW m \in Nat, NEW k \in Nat,
         Settled(e, e.reservations - 1, m),
         (e.reservations \in Numbers(e) /\ m <= k) \/ m + 1 <= k
  PROVE  Settled(e, e.reservations, k)
<1>. DEFINE r == e.reservations
            less == Unseated(e, r - 1)
            all == Unseated(e, r)
<1>1. r \in Nat /\ IsFiniteSet(1 .. r - 1)
  <2>1. r \in Nat
    BY EventFields
  <2> HIDE DEF r
  <2>2. 1 \in Int /\ r - 1 \in Int
    BY <2>1
  <2> QED
    BY <2>1, <2>2, FS_Interval
<1>2. IsFiniteSet(less) /\ Cardinality(less) \in Nat /\ Cardinality(less) <= m
  <2>1. less \subseteq 1 .. r - 1
    BY DEF Unseated
  <2>2. QED  BY <1>1, <2>1, FS_Subset, FS_CardinalityType DEF Settled
<1>3. CASE r \in Numbers(e) /\ m <= k
  <2>1. all = less
    BY <1>1, <1>3 DEF Unseated
  <2>2. Cardinality(all) <= k
    BY <1>2, <1>3, <2>1
  <2>3. QED  BY <2>2 DEF Settled
<1>4. CASE m + 1 <= k
  <2>1. /\ IsFiniteSet(less \cup {r})
        /\ Cardinality(less \cup {r})
             = IF r \in less THEN Cardinality(less) ELSE Cardinality(less) + 1
    BY <1>2, FS_AddElement
  <2>2. all \subseteq less \cup {r}
    BY <1>1 DEF Unseated
  <2>3. /\ Cardinality(all) <= Cardinality(less \cup {r})
        /\ Cardinality(all) \in Nat
    BY <2>1, <2>2, FS_Subset, FS_CardinalityType
  <2>4. Cardinality(all) <= k
    BY <1>2, <1>4, <2>1, <2>3
  <2>5. QED  BY <2>4 DEF Settled
<1>5. QED
  BY <1>3, <1>4

-----------------------------------------------------------------------------
(* What the threads were asked for                                         *)

LEMMA StoredRequest ==
  ASSUME NEW l \in Lines
  PROVE  /\ \A f \in {"event", "rows", "cols"} :
              f \in DOMAIN Stored(l) => Stored(l)[f] \in Nat
         /\ "seats" \in DOMAIN Stored(l) <=> l.op = "reserve"
         /\ l.op = "reserve" => /\ l.seats \in Seq(Seats) /\ l.ok \in BOOLEAN
                                /\ l.ok <=> l.seats # <<>>
                                /\ Stored(l)["seats"] = SortSeats(l.seats)
<1>1. CASE l.op = "reserve"
  <2>1. /\ l.seats \in Seq(Nat \X Nat) /\ l.ok \in BOOLEAN
        /\ l.ok <=> l.seats # <<>>
        /\ DOMAIN l = {"op", "event", "seats", "ok"} /\ l.event \in Number
    BY <1>1 DEF Lines, LinesRead
  <2>2. Unread \notin Seq(Nat \X Nat)
    BY ThreadsAssumption
  <2>3. l.seats # Unread
    BY <2>1, <2>2
  <2>4. /\ DOMAIN Stored(l) = {"seats"} \cup (IF l.event # Unread THEN {"event"} ELSE {})
        /\ Stored(l)["seats"] = SortSeats(l.seats)
        /\ "event" \in DOMAIN Stored(l) => Stored(l)["event"] = l.event
    BY <2>1, <2>3 DEF Stored
  <2>5. "event" \in DOMAIN Stored(l) => l.event \in Nat
    BY <2>1, <2>4 DEF Number
  <2>6. QED  BY <1>1, <2>1, <2>4, <2>5 DEF Seats
<1>2. CASE l.op # "reserve"
  BY <1>2 DEF Lines, LinesRead, Stored, Number
<1>3. QED
  BY <1>1, <1>2

LEMMA KeepsRequest ==
  ASSUME IInv, NEW t \in Threads, Thread(t), ~ Parse(t)
  PROVE  \A f \in {"event", "rows", "cols", "seats", "delay", "thread"} :
           args'[t][f] = args[t][f]
<1>. ArgsOK /\ pc \in [Threads -> Places] /\ DOMAIN args[t] = Fields
  BY DEF IInv, ArgsOK, TypeOK
<1>1. CASE Operate(t)
  BY <1>1, OperateStep DEF OperatesOnly, KeepsItsLine, Fields
<1>2. CASE args' = args
  BY <1>2
<1>3. CASE CheckFlag(t)
  BY <1>2, <1>3, SetArgs DEF CheckFlag, Fields
<1>4. CASE StartWait(t)
  BY <1>2, <1>4, SetArgs DEF StartWait, Fields
<1>5. CASE EndWait(t)
  BY <1>5, SetArgs DEF EndWait, Fields
<1>6. CASE GetEOC(t)
  BY <1>6, SetArgs DEF GetEOC, Fields
<1>7. CASE GetCommand(t)
  BY <1>7, SetArgs DEF GetCommand, Fields
<1>8. CASE GetWholeLine(t)
  BY <1>8, SetArgs DEF GetWholeLine, Fields
<1>9. CASE BarrierLine(t)
  BY <1>9, SetArgs DEF BarrierLine, Fields
<1>10. CASE LockInput(t) \/ GetSkip(t) \/ WaitAll(t) \/ EndWaitAll(t) \/ SetWait(t)
  BY <1>2, <1>10 DEF LockInput, GetSkip, WaitAll, EndWaitAll, SetWait
<1>11. QED
  BY <1>1, <1>3, <1>4, <1>5, <1>6, <1>7, <1>8, <1>9, <1>10 DEF Thread, Read

LEMMA SeatsThread ==
  ASSUME IInv, LineInv, SeatsInv, NEW t \in Threads, Thread(t)
  PROVE  SeatsInv'
<1>0. /\ Threads' = Threads /\ input' = input /\ ArgsOK
      /\ \A u \in Threads \ {t} : pc'[u] = pc[u] /\ args'[u] = args[u]
  BY ThreadStep DEF Moves, OthersStay, Threads, IInv
<1>1. SUFFICES
        /\ args'[t].event \in Nat /\ args'[t].rows \in Nat /\ args'[t].cols \in Nat
        /\ args'[t].seats \in Seq(Seats)
        /\ pc'[t] \in Executes /\ args'[t].op = "reserve" =>
             args'[t].seats = SortSeats(input[args'[t].line].seats)
  BY <1>0 DEF SeatsInv, Executing
<1>2. CASE Parse(t)
  <2>1. Set(t, Stored(input[line + 1])) /\ pc[t] = "parse"
    BY <1>2 DEF Parse, Goto
  <2>2. input[line + 1] \in Lines
    BY <2>1, NextLine DEF IInv, ReadInv
  <2>3. Reads(t) /\ args'[t].line = line + 1 /\ args'[t].op = input[line + 1].op
    BY <1>2, <2>1, ReadingSteps DEF Reads
  <2>4. \A f \in Fields : args'[t][f] =
          IF f \in DOMAIN Stored(input[line + 1]) THEN Stored(input[line + 1])[f]
                                                  ELSE args[t][f]
    BY <1>0, <2>1, SetArgs
  <2>5. args'[t].event \in Nat /\ args'[t].rows \in Nat /\ args'[t].cols \in Nat
    BY <2>2, <2>4, StoredRequest DEF Fields, SeatsInv
  <2>6. CASE input[line + 1].op = "reserve"
    <3>1. /\ input[line + 1].seats \in Seq(Seats) /\ "seats" \in DOMAIN Stored(input[line + 1])
          /\ Stored(input[line + 1])["seats"] = SortSeats(input[line + 1].seats)
      BY <2>2, <2>6, StoredRequest
    <3>2. args'[t]["seats"] = SortSeats(input[line + 1].seats)
      BY <2>4, <3>1 DEF Fields
    <3>3. SortSeats(input[line + 1].seats) \in Seq(Seats)
      BY <3>1, SortedSeats
    <3>4. QED  BY <2>3, <2>5, <3>2, <3>3
  <2>7. CASE input[line + 1].op # "reserve"
    <3>1. args'[t].seats = args[t].seats
      BY <2>2, <2>4, <2>7, StoredRequest DEF Fields
    <3>2. QED  BY <2>3, <2>5, <2>7, <3>1 DEF SeatsInv
  <2>8. QED  BY <2>6, <2>7
<1>3. CASE ~ Parse(t)
  <2>1. /\ args'[t].event = args[t].event /\ args'[t].rows = args[t].rows
        /\ args'[t].cols = args[t].cols /\ args'[t].seats = args[t].seats
    BY <1>3, KeepsRequest
  <2>2. pc'[t] \in Executes /\ args'[t].op = "reserve" =>
          /\ pc[t] \in Executes /\ args[t].op = "reserve" /\ args'[t].line = args[t].line
    <3>1. CASE Quiet(t)
      BY <3>1 DEF Quiet
    <3>2. CASE Reads(t)
      BY <1>3, <3>2 DEF Reads, Executes, HoldsRwlock
    <3>3. QED  BY <3>1, <3>2, QuietSteps, ReadingSteps
  <2>3. QED  BY <2>1, <2>2 DEF SeatsInv, Executing
<1>4. QED
  BY <1>2, <1>3

LEMMA SeatsMain ==
  ASSUME IInv, SeatsInv, Main
  PROVE  SeatsInv'
<1>0. /\ UNCHANGED <<num_threads, input>> /\ Threads' = Threads /\ id_thread \in Nat
      /\ pc \in [Threads -> Places] /\ DOMAIN args = Threads
  BY DEF Main, SetList, SetId, CreateThread, JoinThread, EndRound, file, start, Threads,
         IInv, TypeOK, ArgsOK
<1>1. CASE CreateThread
  <2>1. PICK g \in Garbage : args' = [args EXCEPT ![main.i] = NewArgs(g, id_thread)]
    BY <1>1 DEF CreateThread
  <2>2. g \in Nat \X Nat \X Nat
    BY ThreadsAssumption
  <2>3. /\ pc' = [pc EXCEPT ![main.i] = "check"]
        /\ \A t \in Threads \ {main.i} : args'[t] = args[t]
        /\ main.i \in Threads =>
             /\ args'[main.i].event \in Nat /\ args'[main.i].rows \in Nat
             /\ args'[main.i].cols \in Nat /\ args'[main.i].seats = <<>>
    BY <1>0, <1>1, <2>1, <2>2 DEF CreateThread, NewArgs
  <2>4. ASSUME NEW t \in Threads
        PROVE  /\ args'[t].event \in Nat /\ args'[t].rows \in Nat /\ args'[t].cols \in Nat
               /\ args'[t].seats \in Seq(Seats)
               /\ pc'[t] \in Executes /\ args'[t].op = "reserve" =>
                    args'[t].seats = SortSeats(input[args'[t].line].seats)
    <3>1. CASE t = main.i
      <4>1. pc'[t] \notin Executes
        BY <1>0, <2>3, <3>1 DEF Executes, HoldsRwlock
      <4>2. <<>> \in Seq(Seats)
        OBVIOUS
      <4>3. QED  BY <2>3, <3>1, <4>1, <4>2
    <3>2. CASE t # main.i
      <4>1. pc'[t] = pc[t] /\ args'[t] = args[t]
        BY <1>0, <2>3, <3>2
      <4>2. QED  BY <4>1 DEF SeatsInv, Executing
    <3>3. QED  BY <3>1, <3>2
  <2>5. QED
    BY <1>0, <2>4 DEF SeatsInv, Executing
<1>2. CASE SetList
  BY <1>0, <1>2 DEF SetList, SeatsInv, Executing, Executes, HoldsRwlock
<1>3. CASE SetId \/ JoinThread \/ EndRound
  BY <1>0, <1>3 DEF SetId, JoinThread, EndRound, list, SeatsInv, Executing
<1>4. QED
  BY <1>1, <1>2, <1>3 DEF Main

LEMMA SeatsHold == Spec => []SeatsInv
<1>1. Init => SeatsInv
  <2>1. SUFFICES ASSUME Init, NEW t \in Threads
        PROVE  /\ args[t].event \in Nat /\ args[t].rows \in Nat /\ args[t].cols \in Nat
               /\ args[t].seats \in Seq(Seats) /\ ~ Executing(t)
    BY DEF SeatsInv
  <2>2. args[t] = NewArgs(<<0, 0, 0>>, 0) /\ pc[t] = "none"
    BY <2>1 DEF Init
  <2>3. <<>> \in Seq(Seats)
    OBVIOUS
  <2>4. QED  BY <2>2, <2>3 DEF NewArgs, Executing, Executes, HoldsRwlock
<1>2. IInv /\ LineInv /\ SeatsInv /\ [Next]_vars => SeatsInv'
  <2>1. CASE UNCHANGED vars
    BY <2>1 DEF SeatsInv, Executing, Threads, vars, file, start
  <2>2. QED
    BY <2>1, SeatsThread, SeatsMain DEF Next, Finished
<1>3. QED
  BY <1>1, <1>2, InvHolds, LineHolds, PTL DEF Spec

-----------------------------------------------------------------------------
(* The lines that cost a number                                            *)

LEMMA SpentIsFinite ==
  ASSUME IInv
  PROVE  /\ IsFiniteSet(RejectedReserves) /\ IsFiniteSet(Spent)
         /\ Cardinality(Spent) \in Nat /\ Cardinality(RejectedReserves) \in Nat
         /\ Cardinality(Spent) <= Cardinality(RejectedReserves)
<1>1. Len(input) \in Nat /\ RejectedReserves \subseteq 1 .. Len(input)
  BY StartFacts DEF RejectedReserves
<1>2. IsFiniteSet(1 .. Len(input))
  BY <1>1, FS_Interval
<1>3. IsFiniteSet(RejectedReserves) /\ Cardinality(RejectedReserves) \in Nat
  BY <1>1, <1>2, FS_Subset, FS_CardinalityType
<1>4. Spent \subseteq RejectedReserves
  BY DEF Spent
<1>5. QED
  BY <1>3, <1>4, FS_Subset, FS_CardinalityType

\* A line stays executed: a thread that starts to execute takes a later one.
LEMMA SpentStays ==
  ASSUME IInv, Threads' = Threads, input' = input, line' \in Nat, line <= line',
         \A u \in Threads : Executing(u)' =>
           (Executing(u) /\ args'[u].line = args[u].line) \/ args'[u].line = line + 1
  PROVE  Spent \subseteq Spent' /\ RejectedReserves' = RejectedReserves
<1>1. RejectedReserves' = RejectedReserves /\ RejectedReserves \subseteq Nat /\ line \in Nat
  BY StartFacts DEF RejectedReserves, IInv, TypeOK
<1>2. ASSUME NEW k \in Spent PROVE k \in Spent'
  <2>1. k \in RejectedReserves /\ k <= line /\ k \in Nat
    BY <1>1 DEF Spent
  <2>2. \A u \in Threads : Executing(u)' => args'[u].line # k
    BY <1>1, <2>1 DEF Spent
  <2>3. QED  BY <1>1, <2>1, <2>2 DEF Spent
<1>3. QED
  BY <1>1, <1>2

LEMMA ThreadLines ==
  ASSUME IInv, NEW t \in Threads, Thread(t)
  PROVE  /\ IInv' /\ Threads' = Threads /\ input' = input /\ main' = main
         /\ line \in Nat /\ line' \in Nat /\ line <= line'
         /\ \A u \in Threads \ {t} : pc'[u] = pc[u] /\ args'[u] = args[u]
         /\ \A u \in Threads : Executing(u)' =>
              (Executing(u) /\ args'[u].line = args[u].line) \/ args'[u].line = line + 1
<1>1. /\ IInv' /\ Threads' = Threads /\ input' = input /\ main' = main
      /\ \A u \in Threads \ {t} : pc'[u] = pc[u] /\ args'[u] = args[u]
  BY ThreadStep DEF Moves, OthersStay, Threads
<1>2. line \in Nat
  BY StartFacts DEF IInv, TypeOK
<1>3. /\ line' \in {line, line + 1}
      /\ pc'[t] \in Executes =>
           (pc[t] \in Executes /\ args'[t].line = args[t].line) \/ args'[t].line = line + 1
  <2>1. CASE Quiet(t)
    BY <2>1 DEF Quiet
  <2>2. CASE Reads(t)
    BY <2>2 DEF Reads, Executes, HoldsRwlock
  <2>3. QED  BY <2>1, <2>2, QuietSteps, ReadingSteps
<1>4. QED
  BY <1>1, <1>2, <1>3 DEF Executing

LEMMA SpentGrows ==
  ASSUME IInv, RejectedReserves' = RejectedReserves, Spent \subseteq Spent'
  PROVE  /\ IsFiniteSet(Spent') /\ Cardinality(Spent) \in Nat /\ Cardinality(Spent') \in Nat
         /\ Cardinality(Spent) <= Cardinality(Spent')
<1>1. IsFiniteSet(RejectedReserves)
  BY SpentIsFinite
<1>2. Spent' \subseteq RejectedReserves
  BY DEF Spent
<1>3. IsFiniteSet(Spent') /\ Cardinality(Spent') \in Nat
  BY <1>1, <1>2, FS_Subset, FS_CardinalityType
<1>4. IsFiniteSet(Spent) /\ Cardinality(Spent) \in Nat
  BY SpentIsFinite
<1>5. QED
  BY <1>3, <1>4, FS_Subset

\* A rejected line pays for one number when its operation ends.
LEMMA SpentOneMore ==
  ASSUME IInv, LineInv, NEW t \in Threads, Thread(t), pc[t] = "seat", pc'[t] = "check",
         args[t].line \in RejectedReserves
  PROVE  Cardinality(Spent) + 1 <= Cardinality(Spent')
<1>. DEFINE k == args[t].line
<1>1. /\ IInv' /\ Threads' = Threads /\ input' = input /\ line' \in Nat /\ line <= line'
      /\ line \in Nat /\ \A u \in Threads \ {t} : pc'[u] = pc[u] /\ args'[u] = args[u]
  BY ThreadLines
<1>2. Spent \subseteq Spent' /\ RejectedReserves' = RejectedReserves
  BY ThreadLines, SpentStays
<1>3. k \in 1 .. line /\ Executing(t)
      /\ \A u \in Threads \ {t} : Executing(u) => args[u].line # k
  BY DEF LineInv, Executing, Executes, HoldsRwlock
<1>4. k \notin Spent
  BY <1>3 DEF Spent
<1>5. k \in Spent'
  <2>1. \A u \in Threads : Executing(u)' => args'[u].line # k
    BY <1>1, <1>3 DEF Executing, Executes, HoldsRwlock
  <2>2. k \in RejectedReserves' /\ k <= line'
    BY <1>1, <1>2, <1>3
  <2>3. QED  BY <1>1, <2>1, <2>2 DEF Spent
<1>6. IsFiniteSet(Spent) /\ Cardinality(Spent) \in Nat
  BY SpentIsFinite
<1>7. IsFiniteSet(Spent') /\ Cardinality(Spent') \in Nat
  BY <1>2, SpentGrows
<1>8. Cardinality(Spent \cup {k}) = Cardinality(Spent) + 1
  BY <1>4, <1>6, FS_AddElement
<1>9. QED
  BY <1>2, <1>5, <1>7, <1>8, FS_Subset

-----------------------------------------------------------------------------
(* The list as a whole                                                     *)

LEMMA SettledMore ==
  ASSUME NEW e, NEW n \in Int, NEW m \in Nat, NEW k \in Nat, m <= k, Settled(e, n, m)
  PROVE  Settled(e, n, k)
<1>1. IsFiniteSet(1 .. n) /\ Unseated(e, n) \subseteq 1 .. n
  BY FS_Interval DEF Unseated
<1>2. Cardinality(Unseated(e, n)) \in Nat
  BY <1>1, FS_Subset, FS_CardinalityType
<1>3. QED
  BY <1>2 DEF Settled

-----------------------------------------------------------------------------
(* The steps of the threads                                                *)

Ready == IInv /\ LineInv /\ SeatsInv /\ StoreInv

\* What every step of a thread leaves to be shown.
LEMMA ThreadFrame ==
  ASSUME Ready, NEW t \in Threads, Thread(t)
  PROVE  /\ main.pc # "done" /\ main'.pc # "done"
         /\ event_list \in Seq(Events) /\ NoDuplicates(event_list)
         /\ Cardinality(Spent) \in Nat /\ Cardinality(Spent') \in Nat
         /\ Cardinality(Spent) <= Cardinality(Spent')
<1>1. pc[t] \notin Gone /\ IInv' /\ main' = main
  BY ThreadStep, ThreadLines DEF Ready, Moves
<1>2. main.pc # "done"
  BY <1>1 DEF Ready, IInv, RoundInv
<1>3. Spent \subseteq Spent' /\ RejectedReserves' = RejectedReserves
  BY ThreadLines, SpentStays DEF Ready
<1>4. QED
  BY <1>1, <1>2, <1>3, SpentGrows DEF Ready, StoreInv

\* A step that leaves the list alone and is not about to change it.
LEMMA StoreRests ==
  ASSUME Ready, NEW t \in Threads, Thread(t), event_list' = event_list,
         pc[t] # "seat", pc'[t] \notin {"append", "seat"}
  PROVE  StoreInv'
<1>1. /\ Threads' = Threads /\ main' = main /\ main.pc # "done"
      /\ \A u \in Threads \ {t} : pc'[u] = pc[u] /\ args'[u] = args[u]
  BY ThreadLines, ThreadFrame DEF Ready
<1>2. Cardinality(Spent) \in Nat /\ Cardinality(Spent') \in Nat
      /\ Cardinality(Spent) <= Cardinality(Spent')
  BY ThreadFrame
<1>3. event_list \in Seq(Events) /\ NoDuplicates(event_list)
  BY ThreadFrame
<1>4. ASSUME NEW u \in Threads, pc'[u] = "append"
      PROVE  \A p \in DOMAIN event_list : event_list[p].id # args'[u].event
  BY <1>1, <1>4 DEF Ready, StoreInv
<1>5. ASSUME NEW u \in Threads, pc'[u] = "seat"
      PROVE  Reserving(u)'
  <2>1. u # t /\ args'[u] = args[u] /\ Reserving(u)
    BY <1>1, <1>5 DEF Ready, StoreInv
  <2>2. event_list[args[u].p].reservations - 1 \in Int
    BY SMTT(60), <1>3, <2>1, EventFields DEF Reserving, Event
  <2>3. Settled(Event(u), Event(u).reservations - 1, Cardinality(Spent'))
    BY <1>2, <2>1, <2>2, SettledMore DEF Reserving, Event
  <2>4. QED  BY <2>1, <2>3 DEF Reserving, Event
<1>6. ASSUME NEW p \in DOMAIN event_list,
             \A u \in Threads : pc'[u] = "seat" => args'[u].p # p
      PROVE  Settled(event_list[p], event_list[p].reservations, Cardinality(Spent'))
  <2>1. \A u \in Threads : pc[u] = "seat" => args[u].p # p
    BY <1>1, <1>6
  <2>2. Settled(event_list[p], event_list[p].reservations, Cardinality(Spent))
    BY <1>1, <2>1 DEF Ready, StoreInv
  <2>3. event_list[p].reservations \in Int
    BY <1>3, EventFields
  <2>4. QED  BY <1>2, <2>2, <2>3, SettledMore
<1>7. QED
  BY <1>1, <1>3, <1>4, <1>5, <1>6 DEF StoreInv

\* The thread with rwlock is the only one in the middle of an operation.
LEMMA HolderAlone ==
  ASSUME Ready, NEW t \in Threads, Thread(t), pc[t] \in HoldsRwlock
  PROVE  \A u \in Threads \ {t} : /\ pc[u] \notin {"append", "seat"}
                                  /\ pc'[u] \notin {"append", "seat"}
<1>1. \A u \in Threads \ {t} : pc[u] \notin HoldsRwlock
  BY DEF Ready, IInv, TypeOK
<1>2. QED
  BY <1>1, ThreadLines DEF Ready, HoldsRwlock

LEMMA HolderSteps ==
  ASSUME Ready, NEW t \in Threads, Thread(t), pc[t] \in HoldsRwlock,
         event_list' \in Seq(Events), NoDuplicates(event_list'),
         pc'[t] = "append" => \A p \in DOMAIN event_list' : event_list'[p].id # args'[t].event,
         pc'[t] = "seat" => Reserving(t)',
         \A p \in DOMAIN event_list' : (pc'[t] = "seat" => args'[t].p # p) =>
           Settled(event_list'[p], event_list'[p].reservations, Cardinality(Spent'))
  PROVE  StoreInv'
<1>1. Threads' = Threads /\ main'.pc # "done"
  BY ThreadLines, ThreadFrame DEF Ready
<1>2. \A u \in Threads \ {t} : pc'[u] \notin {"append", "seat"}
  BY HolderAlone
<1>3. QED
  BY <1>1, <1>2 DEF StoreInv

\* The events that nobody is changing.
LEMMA OthersSettled ==
  ASSUME Ready, NEW t \in Threads, Thread(t), pc[t] \in HoldsRwlock,
         NEW p \in DOMAIN event_list, pc[t] = "seat" => args[t].p # p
  PROVE  Settled(event_list[p], event_list[p].reservations, Cardinality(Spent'))
<1>1. /\ event_list \in Seq(Events) /\ main.pc # "done"
      /\ Cardinality(Spent) \in Nat /\ Cardinality(Spent') \in Nat
      /\ Cardinality(Spent) <= Cardinality(Spent')
  BY ThreadFrame
<1>2. \A u \in Threads : pc[u] = "seat" => args[u].p # p
  BY HolderAlone
<1>3. Settled(event_list[p], event_list[p].reservations, Cardinality(Spent))
  BY <1>1, <1>2 DEF Ready, StoreInv
<1>4. event_list[p].reservations \in Int
  BY <1>1, EventFields
<1>5. QED
  BY <1>1, <1>3, <1>4, SettledMore

LEMMA CreateSteps ==
  ASSUME Ready, NEW t \in Threads, StartCreate(t) \/ AppendEvent(t)
  PROVE  StoreInv'
<1>0. Thread(t) /\ pc[t] \in HoldsRwlock /\ pc[t] # "seat"
  BY DEF Thread, Operate, StartCreate, AppendEvent, Goto, HoldsRwlock
<1>1. event_list \in Seq(Events) /\ NoDuplicates(event_list) /\ main.pc # "done"
  BY <1>0, ThreadFrame
<1>2. pc \in [Threads -> Places] /\ ArgsOK
  BY DEF Ready, IInv, TypeOK
<1>3. \A p \in DOMAIN event_list :
        Settled(event_list[p], event_list[p].reservations, Cardinality(Spent'))
  BY <1>0, OthersSettled
<1>4. CASE StartCreate(t)
  <2>1. /\ event_list' = event_list /\ args' = args /\ pc'[t] = "append"
        /\ get_event(event_list, args[t].event) = 0
    BY <1>2, <1>4, GotoMoves DEF StartCreate, store, Found
  <2>2. 0 \notin DOMAIN event_list
    BY <1>1
  <2>3. \A p \in DOMAIN event_list : event_list[p].id # args[t].event
    BY <1>1, <2>1, <2>2, LookupEvent
  <2>4. QED  BY <1>0, <1>1, <1>3, <2>1, <2>3, HolderSteps
<1>5. CASE AppendEvent(t)
  <2>. DEFINE x == NewEvent(args[t].event, args[t].rows, args[t].cols)
  <2>1. event_list' = Append(event_list, x) /\ pc'[t] = "check" /\ pc[t] = "append"
    BY <1>2, <1>5, GotoMoves DEF AppendEvent
  <2>2. x \in Events /\ x.id = args[t].event /\ Settled(x, x.reservations, Cardinality(Spent'))
    BY <1>0, NewEvents, ThreadFrame DEF Ready, SeatsInv
  <2>3. /\ event_list' \in Seq(Events) /\ Len(event_list) \in Nat
        /\ DOMAIN event_list = 1 .. Len(event_list)
        /\ DOMAIN event_list' = 1 .. Len(event_list) + 1
        /\ event_list'[Len(event_list) + 1] = x
        /\ \A p \in DOMAIN event_list : event_list'[p] = event_list[p]
    BY <1>1, <2>1, <2>2, AppendProperties
  <2>4. \A p \in DOMAIN event_list : event_list[p].id # x.id
    BY <1>1, <2>1, <2>2 DEF Ready, StoreInv
  <2>5. NoDuplicates(event_list')
    BY <1>1, <2>3, <2>4 DEF NoDuplicates
  <2>6. ASSUME NEW p \in DOMAIN event_list'
        PROVE  Settled(event_list'[p], event_list'[p].reservations, Cardinality(Spent'))
    <3>1. CASE p \in DOMAIN event_list
      BY <1>3, <2>3, <3>1
    <3>2. CASE p = Len(event_list) + 1
      BY <2>2, <2>3, <3>2
    <3>3. QED  BY <2>3, <3>1, <3>2
  <2>7. QED  BY <1>0, <2>1, <2>3, <2>5, <2>6, HolderSteps
<1>6. QED
  BY <1>4, <1>5

LEMMA StartReserveStep ==
  ASSUME Ready, NEW t \in Threads, StartReserve(t)
  PROVE  StoreInv'
<1>. DEFINE p == Found(t)
            x == [event_list[p] EXCEPT !.reservations = @ + 1]
<1>0. Thread(t) /\ pc[t] = "lookup" /\ pc[t] \in HoldsRwlock
  BY DEF Thread, Operate, StartReserve, Goto, HoldsRwlock
<1>1. event_list \in Seq(Events) /\ NoDuplicates(event_list) /\ ArgsOK
      /\ pc \in [Threads -> Places]
  BY <1>0, ThreadFrame DEF Ready, IInv, TypeOK
<1>2. /\ Set(t, [p |-> p, i |-> 1]) /\ Goto(t, "lookup", "seat") /\ args[t].op = "reserve"
      /\ p # 0 /\ event_list' = [event_list EXCEPT ![p].reservations = @ + 1]
  BY DEF StartReserve
<1>3. p \in DOMAIN event_list
  BY <1>1, <1>2, LookupEvent DEF Found
<1>4. /\ pc'[t] = "seat" /\ args'[t].p = p /\ args'[t].i = 1
      /\ args'[t].seats = args[t].seats /\ args'[t].op = "reserve"
  BY <1>1, <1>2, GotoMoves, SetArgs DEF Fields
<1>5. \A q \in DOMAIN event_list :
        Settled(event_list[q], event_list[q].reservations, Cardinality(Spent'))
  BY <1>0, OthersSettled
<1>6. event_list[p] \in Events
  BY <1>1, <1>3
<1>7. /\ x \in Events /\ x.id = event_list[p].id /\ x.reservations >= 1
      /\ Settled(x, x.reservations - 1, Cardinality(Spent'))
      /\ \A c \in DOMAIN x.data : x.data[c] # x.reservations
  <2>1. Settled(event_list[p], event_list[p].reservations, Cardinality(Spent'))
    BY <1>3, <1>5
  <2>2. QED  BY ZenonT(60), <1>6, <2>1, CountUp
<1>8. event_list' = [event_list EXCEPT ![p] = x]
  BY <1>2, <1>3
<1>9. /\ event_list' \in Seq(Events) /\ NoDuplicates(event_list')
      /\ DOMAIN event_list' = DOMAIN event_list /\ event_list'[p] = x
      /\ \A q \in DOMAIN event_list \ {p} : event_list'[q] = event_list[q]
  BY ZenonT(60), <1>1, <1>3, <1>7, <1>8, ReplaceEvent
<1>10. Reserving(t)'
  <2>1. Event(t)' = x /\ Len(args[t].seats) \in Nat
    BY <1>4, <1>9 DEF Event, Ready, SeatsInv
  <2>2. args'[t].i \in 1 .. Len(args'[t].seats) + 1
    BY <1>4, <2>1
  <2>3. 1 .. args'[t].i - 1 = {}
    BY <1>4
  <2>4. QED  BY <1>3, <1>4, <1>7, <1>9, <2>1, <2>2, <2>3 DEF Reserving
<1>11. QED
  BY <1>0, <1>4, <1>5, <1>9, <1>10, HolderSteps

\* The event a reservation is working on.
LEMMA SeatFacts ==
  ASSUME Ready, NEW t \in Threads, Thread(t), pc[t] = "seat"
  PROVE  /\ Reserving(t) /\ args[t].p \in DOMAIN event_list /\ Event(t) \in Events
         /\ Event(t) = event_list[args[t].p] /\ args[t].seats \in Seq(Seats)
         /\ args[t].i \in 1 .. Len(args[t].seats) + 1 /\ Event(t).reservations \in Nat
         /\ Settled(Event(t), Event(t).reservations - 1, Cardinality(Spent'))
         /\ pc[t] \in HoldsRwlock
<1>1. /\ event_list \in Seq(Events) /\ main.pc # "done"
      /\ Cardinality(Spent) \in Nat /\ Cardinality(Spent') \in Nat
      /\ Cardinality(Spent) <= Cardinality(Spent')
  BY ThreadFrame
<1>2. Reserving(t) /\ args[t].seats \in Seq(Seats)
  BY <1>1 DEF Ready, StoreInv, SeatsInv
<1>3. /\ args[t].p \in DOMAIN event_list /\ args[t].i \in 1 .. Len(args[t].seats) + 1
      /\ Event(t) = event_list[args[t].p]
  BY <1>2 DEF Reserving, Event
<1>4. Event(t) \in Events
  BY <1>1, <1>3
<1>5. Event(t).reservations \in Nat /\ Event(t).reservations - 1 \in Int
  BY <1>4, EventFields
<1>6. Settled(Event(t), Event(t).reservations - 1, Cardinality(Spent'))
  BY <1>1, <1>2, <1>5, SettledMore DEF Reserving
<1>7. QED
  BY <1>2, <1>3, <1>4, <1>5, <1>6 DEF HoldsRwlock

LEMMA ReserveSeatStep ==
  ASSUME Ready, NEW t \in Threads, ReserveSeat(t)
  PROVE  StoreInv'
<1>. DEFINE p == args[t].p
            i == args[t].i
            e == Event(t)
            s == args[t].seats
            x == Taken(e, s[i], e.reservations)
<1>0. Thread(t) /\ pc[t] = "seat"
  BY DEF Thread, Operate, ReserveSeat
<1>1. event_list \in Seq(Events) /\ NoDuplicates(event_list) /\ ArgsOK
  BY <1>0, ThreadFrame DEF Ready, IInv
<1>2. /\ Reserving(t) /\ p \in DOMAIN event_list /\ e \in Events /\ e = event_list[p]
      /\ s \in Seq(Seats) /\ i \in 1 .. Len(s) + 1 /\ e.reservations \in Nat
      /\ Settled(e, e.reservations - 1, Cardinality(Spent')) /\ pc[t] \in HoldsRwlock
  BY <1>0, SeatFacts
<1>3. /\ Set(t, [i |-> i + 1]) /\ pc' = pc /\ Available(e, s[i]) /\ i <= Len(s)
      /\ event_list' = [event_list EXCEPT ![p] = Taken(@, s[i], e.reservations)]
  BY DEF ReserveSeat, MoreSeats
<1>4. /\ args'[t].p = p /\ args'[t].i = i + 1 /\ args'[t].seats = s
      /\ args'[t].op = args[t].op /\ pc'[t] = "seat"
  BY <1>0, <1>1, <1>3, SetArgs DEF Fields
<1>5. s[i] \in Seats /\ e.reservations >= 1 /\ args[t].op = "reserve" /\ Len(s) \in Nat
      /\ i \in Nat /\ i >= 1
  BY <1>2, <1>3 DEF Reserving
<1>6. /\ x \in Events /\ x.id = e.id /\ x.reservations = e.reservations
      /\ x.rows = e.rows /\ x.cols = e.cols
      /\ seat_index(e, s[i]) \in DOMAIN e.data /\ DOMAIN x.data = DOMAIN e.data
      /\ \A c \in DOMAIN e.data :
           x.data[c] = IF c = seat_index(e, s[i]) THEN e.reservations ELSE e.data[c]
      /\ Settled(x, x.reservations - 1, Cardinality(Spent'))
  BY <1>2, <1>3, <1>5, TakeOne
<1>7. event_list' = [event_list EXCEPT ![p] = x]
  BY <1>2, <1>3
<1>8. /\ event_list' \in Seq(Events) /\ NoDuplicates(event_list')
      /\ DOMAIN event_list' = DOMAIN event_list /\ event_list'[p] = x
      /\ \A q \in DOMAIN event_list \ {p} : event_list'[q] = event_list[q]
  <2>1. x.id = event_list[p].id /\ x \in Events
    BY <1>2, <1>6
  <2>. HIDE DEF x, e
  <2>2. QED  BY <1>1, <1>2, <1>7, <2>1, ReplaceEvent
<1>9. \A j \in 1 .. i : seat_index(x, s[j]) = seat_index(e, s[j])
  <2>1. x.cols = e.cols
    BY <1>6
  <2>2. QED  BY <2>1, Zenon DEF seat_index
<1>10. /\ \A j \in 1 .. i - 1 : seat_index(e, s[j]) \in DOMAIN e.data
       /\ \A c \in DOMAIN e.data :
            e.data[c] = e.reservations <=> \E j \in 1 .. i - 1 : c = seat_index(e, s[j])
  BY <1>2 DEF Reserving
<1>11. \A j : j \in 1 .. i <=> j \in 1 .. i - 1 \/ j = i
  BY <1>5
<1>12. /\ \A j \in 1 .. i : seat_index(x, s[j]) \in DOMAIN x.data
       /\ \A c \in DOMAIN x.data :
            x.data[c] = x.reservations <=> \E j \in 1 .. i : c = seat_index(x, s[j])
  <2>1. /\ seat_index(e, s[i]) \in DOMAIN e.data /\ DOMAIN x.data = DOMAIN e.data
        /\ x.reservations = e.reservations
        /\ \A c \in DOMAIN e.data :
             x.data[c] = IF c = seat_index(e, s[i]) THEN e.reservations ELSE e.data[c]
    BY <1>6
  <2>2. ASSUME NEW j \in 1 .. i
        PROVE  seat_index(x, s[j]) \in DOMAIN x.data
    BY <1>9, <1>10, <1>11, <2>1
  <2>3. ASSUME NEW c \in DOMAIN x.data
        PROVE  x.data[c] = x.reservations <=> \E j \in 1 .. i : c = seat_index(x, s[j])
    <3>1. x.data[c] = e.reservations <=>
            c = seat_index(e, s[i]) \/ \E j \in 1 .. i - 1 : c = seat_index(e, s[j])
      BY <1>10, <2>1, <2>3
    <3>2. i \in 1 .. i /\ \A j \in 1 .. i : j \in 1 .. i - 1 \/ j = i
      BY <1>5
    <3>3. (\E j \in 1 .. i : c = seat_index(x, s[j])) <=>
            c = seat_index(e, s[i]) \/ \E j \in 1 .. i - 1 : c = seat_index(e, s[j])
      BY <1>9, <1>11, <3>2
    <3>4. QED  BY <2>1, <3>1, <3>3
  <2>4. QED  BY <2>2, <2>3
<1>13. Reserving(t)'
  <2>1. Event(t)' = x /\ args'[t].i - 1 = i
    BY <1>4, <1>5, <1>8 DEF Event
  <2>2. args'[t].i \in 1 .. Len(args'[t].seats) + 1
    BY <1>3, <1>4, <1>5
  <2>3. /\ args'[t].p \in DOMAIN event_list' /\ args'[t].op = "reserve"
        /\ x.reservations >= 1
    BY <1>2, <1>4, <1>5, <1>6, <1>8
  <2>4. Settled(x, x.reservations - 1, Cardinality(Spent'))
    BY <1>6
  <2>5. args'[t].seats = s
    BY <1>4
  <2>. HIDE DEF i, s, x, e, p
  <2>6. QED  BY <1>12, <2>1, <2>2, <2>3, <2>4, <2>5 DEF Reserving
<1>14. \A q \in DOMAIN event_list \ {p} :
         Settled(event_list[q], event_list[q].reservations, Cardinality(Spent'))
  BY <1>0, <1>2, OthersSettled
<1>15. QED
  BY <1>0, <1>2, <1>4, <1>8, <1>13, <1>14, HolderSteps

LEMMA RollBackStep ==
  ASSUME Ready, NEW t \in Threads, RollBack(t)
  PROVE  StoreInv'
<1>. DEFINE p == args[t].p
            e == Event(t)
            s == args[t].seats
            n == args[t].i - 1
            x == Rollback(e, s, n)
<1>0. Thread(t) /\ pc[t] = "seat"
  BY DEF Thread, Operate, RollBack, Goto
<1>1. event_list \in Seq(Events) /\ NoDuplicates(event_list) /\ pc \in [Threads -> Places]
  BY <1>0, ThreadFrame DEF Ready, IInv, TypeOK
<1>2. /\ Reserving(t) /\ p \in DOMAIN event_list /\ e \in Events /\ e = event_list[p]
      /\ args[t].i \in 1 .. Len(s) + 1 /\ s \in Seq(Seats)
      /\ Settled(e, e.reservations - 1, Cardinality(Spent')) /\ pc[t] \in HoldsRwlock
  BY <1>0, SeatFacts
<1>3. pc'[t] = "check" /\ event_list' = [event_list EXCEPT ![p] = Rollback(@, s, n)]
  BY <1>1, GotoMoves DEF RollBack
<1>4. /\ n \in Nat /\ e.reservations >= 1
      /\ \A c \in DOMAIN e.data :
           e.data[c] = e.reservations <=> \E j \in 1 .. n : c = seat_index(e, s[j])
  BY <1>2 DEF Reserving
<1>5. x \in Events /\ x.id = e.id /\ Settled(x, x.reservations, Cardinality(Spent'))
  BY <1>2, <1>4, GiveBack
<1>6. event_list' = [event_list EXCEPT ![p] = x]
  BY <1>2, <1>3
<1>7. /\ event_list' \in Seq(Events) /\ NoDuplicates(event_list')
      /\ DOMAIN event_list' = DOMAIN event_list /\ event_list'[p] = x
      /\ \A q \in DOMAIN event_list \ {p} : event_list'[q] = event_list[q]
  <2>1. x.id = event_list[p].id
    BY <1>2, <1>5
  <2>. HIDE DEF x, e
  <2>2. QED  BY <1>1, <1>2, <1>5, <1>6, <2>1, ReplaceEvent
<1>8. \A q \in DOMAIN event_list \ {p} :
        Settled(event_list[q], event_list[q].reservations, Cardinality(Spent'))
  BY <1>0, <1>2, OthersSettled
<1>9. QED
  BY <1>0, <1>2, <1>3, <1>5, <1>7, <1>8, HolderSteps

LEMMA EndReserveStep ==
  ASSUME Ready, NEW t \in Threads, EndReserve(t)
  PROVE  StoreInv'
<1>. DEFINE p == args[t].p
            e == Event(t)
            s == args[t].seats
            l == input[args[t].line]
<1>0. Thread(t) /\ pc[t] = "seat"
  BY DEF Thread, Operate, EndReserve, Goto
<1>1. /\ event_list \in Seq(Events) /\ NoDuplicates(event_list) /\ pc \in [Threads -> Places]
      /\ Cardinality(Spent) \in Nat /\ Cardinality(Spent') \in Nat
      /\ Cardinality(Spent) <= Cardinality(Spent')
  BY <1>0, ThreadFrame DEF Ready, IInv, TypeOK
<1>2. /\ Reserving(t) /\ p \in DOMAIN event_list /\ e \in Events /\ e = event_list[p]
      /\ s \in Seq(Seats) /\ args[t].i \in 1 .. Len(s) + 1 /\ e.reservations \in Nat
      /\ pc[t] \in HoldsRwlock
  BY <1>0, SeatFacts
<1>3. pc'[t] = "check" /\ event_list' = event_list /\ ~ (args[t].i <= Len(s))
  BY <1>1, GotoMoves DEF EndReserve, store, MoreSeats
<1>4. args[t].i = Len(s) + 1 /\ Len(s) \in Nat
  BY <1>2, <1>3
<1>5. e.reservations \in Numbers(e) \/ Cardinality(Spent) + 1 <= Cardinality(Spent')
  <2>1. CASE Len(s) # 0
    <3>1. 1 \in 1 .. args[t].i - 1
      BY <1>4, <2>1
    <3>2. /\ seat_index(e, s[1]) \in DOMAIN e.data
          /\ e.data[seat_index(e, s[1])] = e.reservations /\ e.reservations >= 1
      BY <1>2, <3>1 DEF Reserving
    <3>3. QED  BY <1>2, <3>2 DEF Numbers
  <2>2. CASE Len(s) = 0
    <3>1. args[t].line \in 1 .. line /\ l.op = "reserve" /\ s = SortSeats(l.seats)
      BY <1>0, <1>2 DEF Ready, LineInv, SeatsInv, Reserving, Executing, Executes, HoldsRwlock
    <3>2. l \in Lines /\ args[t].line \in DOMAIN input
      BY <3>1, StartFacts DEF Ready, IInv, TypeOK
    <3>3. l.seats \in Seq(Seats) /\ (l.ok <=> l.seats # <<>>)
      BY <3>1, <3>2, StoredRequest
    <3>4. s = <<>>
      BY <1>2, <2>2
    <3>5. ~ l.ok
      BY <3>1, <3>3, <3>4, SortedSeats
    <3>6. args[t].line \in RejectedReserves
      BY <3>1, <3>2, <3>5 DEF RejectedReserves
    <3>7. QED  BY <1>0, <1>3, <3>6, SpentOneMore DEF Ready
  <2>3. QED  BY <2>1, <2>2
<1>6. Settled(e, e.reservations, Cardinality(Spent'))
  <2>1. e.reservations >= 1 /\ Settled(e, e.reservations - 1, Cardinality(Spent))
    BY <1>2 DEF Reserving
  <2>2. \/ e.reservations \in Numbers(e) /\ Cardinality(Spent) <= Cardinality(Spent')
        \/ Cardinality(Spent) + 1 <= Cardinality(Spent')
    BY <1>1, <1>5
  <2>3. QED  BY <1>1, <1>2, <2>1, <2>2, CompleteOne
<1>7. \A q \in DOMAIN event_list \ {p} :
        Settled(event_list[q], event_list[q].reservations, Cardinality(Spent'))
  BY <1>0, <1>2, OthersSettled
<1>8. QED
  BY <1>0, <1>1, <1>2, <1>3, <1>6, <1>7, HolderSteps

\* Everything else a thread does leaves the events alone.
LEMMA OtherSteps ==
  ASSUME Ready, NEW t \in Threads,
         \/ Read(t) \/ TakeRwlock(t) \/ GiveUp(t) \/ StartShow(t) \/ WriteNext(t)
         \/ EndWrite(t)
  PROVE  StoreInv'
<1>1. Thread(t) /\ pc \in [Threads -> Places]
  BY DEF Thread, Operate, Ready, IInv, TypeOK
<1>2. event_list' = event_list /\ pc[t] # "seat" /\ pc'[t] \notin {"append", "seat"}
  <2>1. CASE TakeRwlock(t) \/ GiveUp(t) \/ EndWrite(t) \/ StartShow(t)
    BY <1>1, <2>1, GotoMoves DEF TakeRwlock, GiveUp, EndWrite, StartShow, store
  <2>2. CASE WriteNext(t)
    BY <2>2 DEF WriteNext
  <2>3. CASE CheckFlag(t) \/ StartWait(t) \/ EndWait(t) \/ LockInput(t)
    BY <1>1, <2>3, GotoMoves DEF CheckFlag, StartWait, EndWait, LockInput, store
  <2>4. CASE GetEOC(t) \/ GetCommand(t) \/ GetWholeLine(t) \/ GetSkip(t)
    BY <1>1, <2>4, GotoMoves DEF GetEOC, GetCommand, GetWholeLine, GetSkip, store
  <2>5. CASE Parse(t)
    BY <1>1, <2>5, GotoMoves DEF Parse, store
  <2>6. CASE BarrierLine(t) \/ WaitAll(t) \/ EndWaitAll(t) \/ SetWait(t)
    BY <1>1, <2>6, GotoMoves DEF BarrierLine, WaitAll, EndWaitAll, SetWait, store
  <2>7. QED  BY <2>1, <2>2, <2>3, <2>4, <2>5, <2>6 DEF Read
<1>3. QED
  BY <1>1, <1>2, StoreRests

LEMMA StoreThread ==
  ASSUME Ready, NEW t \in Threads, Thread(t)
  PROVE  StoreInv'
BY OtherSteps, CreateSteps, StartReserveStep, ReserveSeatStep, RollBackStep, EndReserveStep
DEF Thread, Operate

-----------------------------------------------------------------------------
(* Main, and the whole                                                     *)

\* Nobody is in an operation that main begins or ends.
LEMMA MainLines ==
  ASSUME IInv, Main
  PROVE  /\ IInv' /\ Threads' = Threads /\ input' = input /\ line' = line /\ line \in Nat
         /\ \A u \in Threads : pc'[u] \in Executes => pc[u] = pc'[u] /\ args'[u] = args[u]
<1>1. /\ IInv' /\ UNCHANGED <<num_threads, input, line>> /\ Threads' = Threads
      /\ pc \in [Threads -> Places] /\ DOMAIN args = Threads /\ line \in Nat
  <2>1. IInv'
    BY MainStep
  <2>2. UNCHANGED <<num_threads, input, line>> /\ Threads' = Threads
    BY DEF Main, SetList, SetId, CreateThread, JoinThread, EndRound, file, start, Threads
  <2>3. pc \in [Threads -> Places] /\ DOMAIN args = Threads /\ line \in Nat
    BY StartFacts DEF IInv, TypeOK, ArgsOK
  <2>4. QED  BY <2>1, <2>2, <2>3
<1>2. CASE SetList
  BY <1>1, <1>2 DEF SetList, Executes, HoldsRwlock
<1>3. CASE CreateThread
  <2>1. PICK g \in Garbage : args' = [args EXCEPT ![main.i] = NewArgs(g, id_thread)]
    BY <1>3 DEF CreateThread
  <2>2. pc' = [pc EXCEPT ![main.i] = "check"]
    BY <1>3 DEF CreateThread
  <2>3. ASSUME NEW u \in Threads, pc'[u] \in Executes
        PROVE  pc[u] = pc'[u] /\ args'[u] = args[u]
    <3>1. u # main.i
      BY <1>1, <2>2, <2>3 DEF Executes, HoldsRwlock
    <3>2. QED  BY <1>1, <2>1, <2>2, <3>1
  <2>4. QED  BY <1>1, <2>3
<1>4. CASE SetId \/ JoinThread \/ EndRound
  BY <1>1, <1>4 DEF SetId, JoinThread, EndRound, list
<1>5. QED
  BY <1>2, <1>3, <1>4 DEF Main

LEMMA StoreMain ==
  ASSUME Ready, Main
  PROVE  StoreInv'
<1>1. /\ IInv' /\ Threads' = Threads /\ input' = input /\ line' = line /\ line \in Nat
      /\ \A u \in Threads : pc'[u] \in Executes => pc[u] = pc'[u] /\ args'[u] = args[u]
  BY MainLines DEF Ready
<1>2. DOMAIN main = {"pc", "i", "exitFlag"} /\ main.pc # "done"
  BY DEF Ready, IInv, RoundInv, Main, SetList, SetId, CreateThread, JoinThread, EndRound
<1>3. CASE main'.pc = "done"
  <2>1. EndRound /\ main.exitFlag = 0
    BY <1>2, <1>3 DEF Main, SetList, SetId, CreateThread, JoinThread, EndRound
  <2>2. event_list' = NULL
    BY <2>1 DEF EndRound
  <2>3. QED  BY <1>3, <2>2 DEF StoreInv
<1>4. CASE main'.pc # "done"
  <2>1. event_list' = event_list
    BY <1>2, <1>4 DEF Main, SetList, SetId, CreateThread, JoinThread, EndRound, store
  <2>2. event_list \in Seq(Events) /\ NoDuplicates(event_list)
    BY <1>2 DEF Ready, StoreInv
  <2>3. ASSUME NEW u \in Threads, pc[u] \in HoldsRwlock
        PROVE  pc'[u] = pc[u] /\ args'[u] = args[u]
    <3>0. /\ pc \in [Threads -> Places] /\ DOMAIN args = Threads /\ RoundInv
          /\ num_threads \in Nat
      BY StartFacts DEF Ready, IInv, TypeOK, ArgsOK
    <3>1. /\ pc[u] \notin Gone /\ main.i \in Nat
          /\ main.i < num_threads => main.i \in Threads
      BY <2>3, <3>0 DEF RoundInv, HoldsRwlock, Gone, Threads
    <3>2. CASE SetList
      BY <2>3, <3>0, <3>1, <3>2 DEF SetList, RoundInv
    <3>3. CASE CreateThread
      <4>1. PICK g \in Garbage : args' = [args EXCEPT ![main.i] = NewArgs(g, id_thread)]
        BY <3>3 DEF CreateThread
      <4>2. main.pc = "create" /\ pc' = [pc EXCEPT ![main.i] = "check"]
        BY <3>3 DEF CreateThread
      <4>3. main.i \in Threads /\ pc[main.i] = "none"
        BY <3>0, <3>1, <4>2 DEF RoundInv
      <4>4. u # main.i
        BY <3>1, <4>3 DEF Gone
      <4>5. QED  BY <3>0, <4>1, <4>2, <4>4
    <3>4. CASE SetId \/ JoinThread \/ EndRound
      BY <3>4 DEF SetId, JoinThread, EndRound
    <3>5. QED  BY <3>2, <3>3, <3>4 DEF Main
  <2>4. Spent \subseteq Spent' /\ RejectedReserves' = RejectedReserves
    BY <1>1, SpentStays DEF Ready, Executing
  <2>5. Cardinality(Spent) \in Nat /\ Cardinality(Spent') \in Nat
        /\ Cardinality(Spent) <= Cardinality(Spent')
    BY <1>1, <2>4, SpentGrows DEF Ready
  <2>6. ASSUME NEW u \in Threads, pc'[u] = "append"
        PROVE  \A p \in DOMAIN event_list : event_list[p].id # args'[u].event
    BY <1>1, <1>2, <2>6 DEF Ready, StoreInv, Executes, HoldsRwlock
  <2>7. ASSUME NEW u \in Threads, pc'[u] = "seat"
        PROVE  Reserving(u)'
    <3>1. pc[u] = "seat" /\ args'[u] = args[u]
      BY <1>1, <2>7 DEF Executes, HoldsRwlock
    <3>2. Reserving(u)
      BY <1>2, <3>1 DEF Ready, StoreInv
    <3>3. event_list[args[u].p].reservations - 1 \in Int
      BY SMTT(60), <2>2, <3>2, EventFields DEF Reserving, Event
    <3>4. Settled(Event(u), Event(u).reservations - 1, Cardinality(Spent'))
      BY <2>5, <3>2, <3>3, SettledMore DEF Reserving, Event
    <3>5. QED  BY <2>1, <3>1, <3>2, <3>4 DEF Reserving, Event
  <2>8. ASSUME NEW p \in DOMAIN event_list,
               \A u \in Threads : pc'[u] = "seat" => args'[u].p # p
        PROVE  Settled(event_list[p], event_list[p].reservations, Cardinality(Spent'))
    <3>1. \A u \in Threads : pc[u] = "seat" => args[u].p # p
      BY <2>3, <2>8 DEF HoldsRwlock
    <3>2. Settled(event_list[p], event_list[p].reservations, Cardinality(Spent))
      BY <1>2, <3>1 DEF Ready, StoreInv
    <3>3. event_list[p].reservations \in Int
      BY <2>2, EventFields
    <3>4. QED  BY <2>5, <3>2, <3>3, SettledMore
  <2>9. QED
    BY <1>1, <1>4, <2>1, <2>2, <2>6, <2>7, <2>8 DEF StoreInv
<1>5. QED
  BY <1>3, <1>4

LEMMA StoreHolds == Spec => []StoreInv
<1>1. Init => StoreInv
  <2>1. SUFFICES ASSUME Init PROVE StoreInv
    OBVIOUS
  <2>2. event_list = <<>> /\ main.pc = "set_list" /\ \A t \in Threads : pc[t] = "none"
    BY <2>1 DEF Init
  <2>3. event_list \in Seq(Events) /\ DOMAIN event_list = {}
    BY <2>2
  <2>4. NoDuplicates(event_list)
    BY <2>3 DEF NoDuplicates
  <2>5. main.pc # "done" /\ \A t \in Threads : pc[t] # "append" /\ pc[t] # "seat"
    BY <2>2
  <2>6. QED  BY <2>3, <2>4, <2>5 DEF StoreInv
<1>2. IInv /\ LineInv /\ SeatsInv /\ StoreInv /\ [Next]_vars => StoreInv'
  <2>1. SUFFICES ASSUME Ready, [Next]_vars PROVE StoreInv'
    BY DEF Ready
  <2>2. CASE UNCHANGED vars
    <3>1. UNCHANGED <<num_threads, input, line, event_list, pc, args, main>>
          /\ Threads' = Threads
      BY <2>2 DEF vars, file, start, store, Threads
    <3>2. Spent' = Spent
      BY <3>1 DEF Spent, RejectedReserves, Executing
    <3>3. ASSUME NEW t \in Threads, Reserving(t) PROVE Reserving(t)'
      BY <3>1, <3>2, <3>3 DEF Reserving, Event
    <3>4. QED  BY <2>1, <3>1, <3>2, <3>3 DEF Ready, StoreInv
  <2>3. QED
    BY <2>1, <2>2, StoreThread, StoreMain DEF Next, Finished
<1>3. QED
  BY <1>1, <1>2, InvHolds, LineHolds, SeatsHold, PTL DEF Spec

\* Between two operations no two events share an identifier, every number in
\* a seat was given to a reservation, and the numbers without a seat are those
\* of rejected RESERVE lines: rwlock makes each of ems_create and ems_reserve
\* one step, roll-back included, for any number of threads and any files.
THEOREM StoreStaysConsistent == Spec => []StoreConsistent
<1>1. IInv /\ StoreInv => StoreConsistent
  <2>1. SUFFICES ASSUME IInv, StoreInv, rwlock = NoOne, event_list # NULL,
                        NEW p \in DOMAIN event_list
        PROVE  /\ NoDuplicates(event_list)
               /\ Numbers(event_list[p]) \subseteq 1 .. event_list[p].reservations
               /\ event_list[p].reservations - Cardinality(Numbers(event_list[p]))
                    <= Cardinality(RejectedReserves)
    BY DEF StoreConsistent, StoreInv
  <2>. DEFINE e == event_list[p]
              r == e.reservations
  <2>2. main.pc # "done" /\ event_list \in Seq(Events) /\ NoDuplicates(event_list)
    BY <2>1 DEF StoreInv
  <2>3. \A t \in Threads : pc[t] # "seat"
    BY <2>1, StartFacts DEF IInv, TypeOK, HoldsRwlock
  <2>4. Settled(e, r, Cardinality(Spent)) /\ e \in Events
    BY <2>1, <2>2, <2>3 DEF StoreInv
  <2>5. r \in Nat /\ IsFiniteSet(1 .. r) /\ Cardinality(1 .. r) = r
    <3>1. r \in Nat
      BY <2>4, EventFields
    <3>2. 1 \in Int /\ r \in Int
      BY <3>1
    <3>3. /\ IsFiniteSet(1 .. r)
          /\ Cardinality(1 .. r) = IF 1 > r THEN 0 ELSE r - 1 + 1
      BY <3>2, FS_Interval
    <3>4. QED  BY <3>1, <3>3
  <2>6. Numbers(e) \subseteq 1 .. r /\ Cardinality(Unseated(e, r)) <= Cardinality(Spent)
    BY <2>4 DEF Settled
  <2>7. /\ Cardinality(Unseated(e, r)) = Cardinality(1 .. r) - Cardinality(Numbers(e))
        /\ Cardinality(Numbers(e)) \in Nat
    <3>1. IsFiniteSet(Numbers(e)) /\ Cardinality(Numbers(e)) \in Nat
      BY <2>5, <2>6, FS_Subset, FS_CardinalityType
    <3>2. (1 .. r) \cap Numbers(e) = Numbers(e)
      BY <2>6
    <3>3. Cardinality((1 .. r) \ Numbers(e))
            = Cardinality(1 .. r) - Cardinality((1 .. r) \cap Numbers(e))
      BY <2>5, FS_Difference
    <3>4. QED  BY <3>1, <3>2, <3>3 DEF Unseated
  <2>8. /\ Cardinality(Spent) \in Nat /\ Cardinality(RejectedReserves) \in Nat
        /\ Cardinality(Spent) <= Cardinality(RejectedReserves)
    BY <2>1, SpentIsFinite
  <2>9. r - Cardinality(Numbers(e)) <= Cardinality(RejectedReserves)
    <3>1. Cardinality(Unseated(e, r)) = r - Cardinality(Numbers(e))
      BY <2>5, <2>7
    <3>2. QED  BY <2>5, <2>6, <2>7, <2>8, <3>1
  <2>10. QED
    BY <2>2, <2>6, <2>9
<1>2. QED
  BY <1>1, InvHolds, StoreHolds, PTL

-----------------------------------------------------------------------------
(* With one thread: the variables of SeqJobs, and its actions              *)

\* What Alone substitutes for line, event_list and out.
LineDone == CASE ~ IsAlone -> 0
              [] IsAlone /\ Pending(0) -> line - 1
              [] OTHER -> line
ListDone == CASE ~ IsAlone -> <<>>
              [] IsAlone /\ pc[0] = "seat" ->
                   [event_list EXCEPT
                      ![args[0].p] = Rollback(@, args[0].seats, args[0].i - 1)]
              [] OTHER -> event_list
OutDone == CASE ~ IsAlone -> <<>>
             [] IsAlone /\ pc[0] = "write" ->
                  SubSeq(out, 1, Len(out) - (args[0].i - 1))
             [] OTHER -> out

\* What Alone!Reads says.
Performs(op) ==
  /\ ListDone # NULL
  /\ LineDone < Len(input)
  /\ input[LineDone + 1].op = op
  /\ LineDone' = LineDone + 1
  /\ input' = input

LEMMA AloneValues ==
  /\ ~ IsAlone => LineDone = 0 /\ ListDone = <<>> /\ OutDone = <<>>
  /\ IsAlone => /\ LineDone = IF Pending(0) THEN line - 1 ELSE line
                /\ pc[0] = "seat" => ListDone = [event_list EXCEPT
                      ![args[0].p] = Rollback(@, args[0].seats, args[0].i - 1)]
                /\ pc[0] # "seat" => ListDone = event_list
                /\ pc[0] = "write" => OutDone = SubSeq(out, 1, Len(out) - (args[0].i - 1))
                /\ pc[0] # "write" => OutDone = out
BY DEF LineDone, ListDone, OutDone

LEMMA AloneValuesNext ==
  /\ ~ IsAlone' => LineDone' = 0 /\ ListDone' = <<>> /\ OutDone' = <<>>
  /\ IsAlone' => /\ LineDone' = IF Pending(0)' THEN line' - 1 ELSE line'
                 /\ pc'[0] = "seat" => ListDone' = [event_list' EXCEPT
                       ![args'[0].p] = Rollback(@, args'[0].seats, args'[0].i - 1)]
                 /\ pc'[0] # "seat" => ListDone' = event_list'
                 /\ pc'[0] = "write" => OutDone' = SubSeq(out', 1, Len(out') - (args'[0].i - 1))
                 /\ pc'[0] # "write" => OutDone' = out'
BY DEF LineDone, ListDone, OutDone

LEMMA AloneReads ==
  ASSUME NEW op, Performs(op)
  PROVE  Alone!Reads(op)
BY DEF Performs, Alone!Reads, Alone!Current, LineDone, ListDone

LEMMA AloneStutters ==
  ASSUME input' = input, LineDone' = LineDone, ListDone' = ListDone, OutDone' = OutDone
  PROVE  UNCHANGED Alone!vars
BY DEF Alone!vars, LineDone, ListDone, OutDone

LEMMA AloneOperators ==
  /\ \A e, seats : Alone!Reserved(e, seats) = Reserved(e, seats)
  /\ \A e, i : Alone!Row(e, i) = Row(e, i)
  /\ \A i, r, c : Alone!NewEvent(i, r, c) = NewEvent(i, r, c)
  /\ \A l, i : Alone!get_event(l, i) = get_event(l, i)
<1>1. \A e, seats : Alone!Reserved(e, seats) = Reserved(e, seats)
  BY DEF Alone!Reserved, Reserved, Alone!SeatLoop, SeatLoop, Alone!TakeSeat, TakeSeat, Alone!Rollback, Rollback, Alone!Available, Available, Alone!InBounds, InBounds, Alone!Taken, Taken, Alone!seat_index, seat_index
<1>2. \A e, i : Alone!Row(e, i) = Row(e, i)
  BY DEF Alone!Row, Row, Alone!seat_index, seat_index
<1>3. \A i, r, c : Alone!NewEvent(i, r, c) = NewEvent(i, r, c)
  BY DEF Alone!NewEvent, NewEvent, Alone!Cells, Cells
<1>4. \A l, i : Alone!get_event(l, i) = get_event(l, i)
  BY DEF Alone!get_event, get_event, Alone!SelectInSeq, SelectInSeq, Alone!Min, Min
<1>5. QED
  BY <1>1, <1>2, <1>3, <1>4

LEMMA AloneCreates ==
  ASSUME Performs("create"), NEW l, l = input[LineDone + 1], l.ok,
         ListDone' = (IF get_event(ListDone, l.event) # 0 THEN ListDone
                      ELSE Append(ListDone, NewEvent(l.event, l.rows, l.cols))),
         OutDone' = OutDone
  PROVE  Alone!ems_create
<1>1. Alone!Reads("create")
  BY AloneReads
<1>2. ListDone' = IF Alone!get_event(ListDone, l.event) # 0 THEN ListDone
                  ELSE Append(ListDone, Alone!NewEvent(l.event, l.rows, l.cols))
  BY AloneOperators
<1>3. QED
  BY <1>1, <1>2 DEF Alone!ems_create, Alone!Current, LineDone, ListDone, OutDone

LEMMA AloneReserves ==
  ASSUME Performs("reserve"), NEW l, l = input[LineDone + 1], l.ok,
         NEW p, p = get_event(ListDone, l.event),
         ListDone' = (IF p = 0 THEN ListDone
                      ELSE [ListDone EXCEPT ![p] = Reserved(@, l.seats)]),
         OutDone' = OutDone
  PROVE  Alone!ems_reserve
<1>1. Alone!Reads("reserve")
  BY AloneReads
<1>2. p = Alone!get_event(ListDone, l.event)
  BY AloneOperators
<1>3. ListDone' = IF p = 0 THEN ListDone
                  ELSE [ListDone EXCEPT ![p] = Alone!Reserved(@, l.seats)]
  BY AloneOperators
<1>4. QED
  BY <1>1, <1>2, <1>3 DEF Alone!ems_reserve, Alone!Current, LineDone, ListDone, OutDone

LEMMA AloneShows ==
  ASSUME Performs("show"), NEW l, l = input[LineDone + 1], l.ok,
         NEW p, p = get_event(ListDone, l.event),
         OutDone' = OutDone \o (IF p = 0 THEN <<>>
                                ELSE [i \in 1 .. ListDone[p].rows |->
                                        [line |-> LineDone', row |-> Row(ListDone[p], i)]]),
         ListDone' = ListDone
  PROVE  Alone!ems_show
<1>1. Alone!Reads("show")
  BY AloneReads
<1>2. p = Alone!get_event(ListDone, l.event)
  BY AloneOperators
<1>3. OutDone' = OutDone \o (IF p = 0 THEN <<>>
                             ELSE [i \in 1 .. ListDone[p].rows |->
                                     [line |-> LineDone', row |-> Alone!Row(ListDone[p], i)]])
  BY AloneOperators
<1>4. QED
  BY ZenonT(60), <1>1, <1>2, <1>3 DEF Alone!ems_show, Alone!Write, Alone!Current, LineDone, ListDone,
                          OutDone

LEMMA AloneLists ==
  ASSUME Performs("list"),
         OutDone' = OutDone \o [p \in DOMAIN ListDone |->
                                  [line |-> LineDone', id |-> ListDone[p].id]],
         ListDone' = ListDone
  PROVE  Alone!ems_list_events
<1>1. Alone!Reads("list")
  BY AloneReads
<1>2. QED
  BY <1>1 DEF Alone!ems_list_events, Alone!Write, LineDone, ListDone, OutDone

LEMMA AloneWaits ==
  ASSUME Performs("wait"), NEW l, l = input[LineDone + 1],
         OutDone' = OutDone \o (IF l.ok /\ l.delay > 0
                                THEN <<[line |-> LineDone', text |-> "Waiting"]>> ELSE <<>>),
         ListDone' = ListDone
  PROVE  Alone!ems_wait
<1>1. Alone!Reads("wait")
  BY AloneReads
<1>2. QED
  BY <1>1 DEF Alone!ems_wait, Alone!Write, Alone!Current, LineDone, ListDone, OutDone

LEMMA AloneIgnores ==
  ASSUME Performs("skip") \/ Performs("barrier"), ListDone' = ListDone, OutDone' = OutDone
  PROVE  Alone!Ignore
<1>1. Alone!Reads("skip") \/ Alone!Reads("barrier")
  BY AloneReads
<1>2. QED
  BY <1>1 DEF Alone!Ignore, ListDone, OutDone

LEMMA AloneTerminates ==
  ASSUME ListDone # NULL, LineDone = Len(input), ListDone' = NULL,
         input' = input, LineDone' = LineDone, OutDone' = OutDone
  PROVE  Alone!ems_terminate
BY DEF Alone!ems_terminate, LineDone, ListDone, OutDone

-----------------------------------------------------------------------------
(* The order of the seats                                                  *)

\* SortSeats returns the seats it was given in another order.
LEMMA SortingPermutes ==
  ASSUME NEW seats \in Seq(Seats)
  PROVE  /\ SortSeats(seats) \in Seq(Seats)
         /\ \E f \in Bijection(DOMAIN SortSeats(seats), DOMAIN seats) :
              \A n \in DOMAIN SortSeats(seats) : SortSeats(seats)[n] = seats[f[n]]
<1>. DEFINE D == DOMAIN seats
            f == [n \in D |-> CHOOSE j \in D : Rank(seats, j) = n]
<1>1. \A n \in D : f[n] \in D /\ Rank(seats, f[n]) = n
  BY RanksAreThePlaces
<1>2. f \in [D -> D] /\ \A n, m \in D : f[n] = f[m] => n = m
  BY <1>1
<1>3. f \in Injection(D, D)
  BY <1>2 DEF Injection, IsInjective
<1>4. IsFiniteSet(D)
  BY FS_Interval
<1>5. f \in Surjection(D, D)
  BY <1>3, <1>4, FS_Injection
<1>6. f \in Bijection(D, D)
  BY <1>3, <1>5 DEF Bijection
<1>7. /\ DOMAIN SortSeats(seats) = D
      /\ \A n \in D : SortSeats(seats)[n] = seats[f[n]]
  BY DEF SortSeats
<1>8. QED
  BY <1>6, <1>7, SortedSeats

LEMMA SortedReservation ==
  ASSUME NEW e \in Events, NEW seats \in Seq(Seats)
  PROVE  Reserved(e, seats) = AllOrNothing(e, SortSeats(seats))
<1>1. SortSeats(seats) \in Seq(Seats)
  BY SortingPermutes
<1>2. PICK f \in Bijection(DOMAIN SortSeats(seats), DOMAIN seats) :
        \A n \in DOMAIN SortSeats(seats) : SortSeats(seats)[n] = seats[f[n]]
  BY SortingPermutes
<1>3. AllOrNothing(e, SortSeats(seats)) = AllOrNothing(e, seats)
  BY <1>1, <1>2, AnyOrder
<1>4. QED
  BY <1>3, ReservedIsAllOrNothing

-----------------------------------------------------------------------------
(* The request of a line that was accepted                                 *)

\* A thread executes what its line asks for, and nothing an earlier line or
\* malloc left in its arguments.
RequestInv ==
  \A t \in Threads : Executing(t) /\ input[args[t].line].ok =>
    \A f \in DOMAIN input[args[t].line] \ {"op", "ok", "seats"} :
      args[t][f] = input[args[t].line][f]

LEMMA AcceptedFields ==
  ASSUME NEW l \in Lines
  PROVE  /\ DOMAIN l \subseteq {"op", "ok", "event", "rows", "cols", "seats", "delay", "thread"}
         /\ l.op \in {"list", "barrier", "skip"} => DOMAIN l = {"op", "ok"}
         /\ l.ok => \A f \in DOMAIN l \ {"op", "ok", "seats"} :
                      f \in DOMAIN Stored(l) /\ Stored(l)[f] = l[f]
<1>1. /\ DOMAIN l \subseteq {"op", "ok", "event", "rows", "cols", "seats", "delay", "thread"}
      /\ l.op \in {"list", "barrier", "skip"} => DOMAIN l = {"op", "ok"}
  BY DEF Lines, LinesRead
<1>2. l.ok => \A f \in DOMAIN l : l[f] # Unread
  BY DEF Lines
<1>3. QED
  BY <1>1, <1>2 DEF Stored

LEMMA RequestThread ==
  ASSUME IInv, LineInv, RequestInv, NEW t \in Threads, Thread(t)
  PROVE  RequestInv'
<1>. DEFINE l == input[args[t].line]
            next == input[line + 1]
<1>0. /\ Threads' = Threads /\ input' = input /\ ArgsOK /\ line \in Nat
      /\ \A u \in Threads \ {t} : pc'[u] = pc[u] /\ args'[u] = args[u]
  BY ThreadEffect DEF IInv
<1>1. SUFFICES ASSUME pc'[t] \in Executes, input[args'[t].line].ok,
                      NEW f \in DOMAIN input[args'[t].line] \ {"op", "ok", "seats"}
               PROVE  args'[t][f] = input[args'[t].line][f]
  BY <1>0 DEF RequestInv, Executing
<1>2. CASE Parse(t)
  <2>1. Set(t, Stored(next)) /\ pc[t] = "parse"
    BY <1>2 DEF Parse, Goto
  <2>2. next \in Lines
    BY <2>1, NextLine DEF IInv, ReadInv
  <2>3. args'[t].line = line + 1
    BY <1>2, <2>1, ReadingSteps DEF Reads
  <2>4. f \in DOMAIN Stored(next) /\ Stored(next)[f] = next[f] /\ f \in Fields
    BY <1>1, <2>2, <2>3, AcceptedFields DEF Fields
  <2>5. args'[t][f] = Stored(next)[f]
    BY <1>0, <2>1, <2>4, SetArgs
  <2>6. QED  BY <2>3, <2>4, <2>5
<1>3. CASE ~ Parse(t) /\ Quiet(t)
  <2>1. pc[t] \in Executes /\ args'[t].line = args[t].line
    BY <1>1, <1>3 DEF Quiet
  <2>2. args[t].line \in DOMAIN input /\ l \in Lines
    <3>1. args[t].line \in 1 .. line /\ line <= Len(input)
      BY <1>0, <2>1, StartFacts DEF LineInv, Executing, IInv, TypeOK
    <3>2. QED  BY <1>0, <3>1, StartFacts
  <2>3. f \in {"event", "rows", "cols", "delay", "thread"}
    BY <1>1, <2>1, <2>2, AcceptedFields
  <2>4. args'[t][f] = args[t][f]
    BY <1>3, <2>3, KeepsRequest
  <2>5. args[t][f] = l[f]
    BY <1>1, <2>1 DEF RequestInv, Executing
  <2>6. QED  BY <2>1, <2>4, <2>5
<1>4. CASE ~ Parse(t) /\ ~ Quiet(t)
  <2>1. /\ args'[t].line = line + 1 /\ pc[t] = "get_next" /\ GetWholeLine(t)
        /\ next.op = "list"
    BY <1>1, <1>4, QuietSteps, ReadingSteps DEF Reads, Executes, HoldsRwlock
  <2>2. next \in Lines
    BY <2>1, WholeLines, NextLine DEF GetWholeLine
  <2>3. QED  BY <1>1, <2>1, <2>2, AcceptedFields
<1>5. QED
  BY <1>2, <1>3, <1>4

LEMMA RequestMain ==
  ASSUME IInv, RequestInv, Main
  PROVE  RequestInv'
BY MainLines DEF RequestInv, Executing

LEMMA RequestHolds == Spec => []RequestInv
<1>1. Init => RequestInv
  BY DEF Init, RequestInv, Executing, Executes, HoldsRwlock
<1>2. IInv /\ LineInv /\ RequestInv /\ [Next]_vars => RequestInv'
  <2>1. CASE UNCHANGED vars
    BY <2>1 DEF RequestInv, Executing, Threads, vars, file, start
  <2>2. QED
    BY <2>1, RequestThread, RequestMain DEF Next, Finished
<1>3. QED
  BY <1>1, <1>2, InvHolds, LineHolds, PTL DEF Spec

-----------------------------------------------------------------------------
(* A reservation under way                                                 *)

\* The event as the reservation found it: what a rollback now would leave.
Before(t) == Rollback(Event(t), args[t].seats, args[t].i - 1)

\* The seats taken so far could all be taken, and nothing else was changed.
Taking(t) ==
  /\ Before(t) \in Events /\ Before(t).id = args[t].event
  /\ CanTake(Counted(Before(t)), args[t].seats, args[t].i - 1)
  /\ Event(t) = TakenFirst(Counted(Before(t)), args[t].seats, args[t].i - 1)

\* No seat is taken yet.
LEMMA NothingTaken ==
  ASSUME NEW e \in Events, NEW seats
  PROVE  CanTake(Counted(e), seats, 0) /\ TakenFirst(Counted(e), seats, 0) = Counted(e)
<1>. DEFINE x == Counted(e)
            y == TakenFirst(x, seats, 0)
<1>1. x \in Events
  BY CountedFields
<1>2. 1 .. 0 = {}
  OBVIOUS
<1>3. CanTake(x, seats, 0) /\ \A c : ~ IsCellOf(x, seats, 0, c)
  BY <1>2 DEF CanTake, IsCellOf
<1>. HIDE DEF x
<1>4. /\ y \in Events /\ y.id = x.id /\ y.rows = x.rows /\ y.cols = x.cols
      /\ y.reservations = x.reservations /\ DOMAIN y.data = DOMAIN x.data
      /\ \A c \in DOMAIN x.data : y.data[c] = x.data[c]
  BY <1>1, <1>3, TakenFirstFields
<1>. HIDE DEF y
<1>5. y = x
  BY <1>1, <1>4, SameEvent
<1>6. QED
  BY <1>3, <1>5 DEF x, y

\* Whatever the event was, it is what a rollback restores.
LEMMA TakingIs ==
  ASSUME NEW t, NEW e \in Events, e.id = args[t].event,
         CanTake(Counted(e), args[t].seats, args[t].i - 1),
         Event(t) = TakenFirst(Counted(e), args[t].seats, args[t].i - 1)
  PROVE  Before(t) = e /\ Taking(t)
<1>1. Before(t) = e
  BY UndoTaken DEF Before
<1>2. QED
  BY <1>1 DEF Taking

LEMMA TakingIsNext ==
  ASSUME NEW t, NEW e \in Events, e.id = args'[t].event,
         CanTake(Counted(e), args'[t].seats, args'[t].i - 1),
         Event(t)' = TakenFirst(Counted(e), args'[t].seats, args'[t].i - 1)
  PROVE  Before(t)' = e /\ Taking(t)'
<1>1. Before(t)' = e
  BY UndoTaken DEF Before
<1>2. QED
  BY <1>1 DEF Taking

LEMMA TakingStarts ==
  ASSUME Ready, NEW t \in Threads, StartReserve(t)
  PROVE  /\ Taking(t)' /\ Before(t)' = event_list[Found(t)] /\ args'[t].p = Found(t)
         /\ Found(t) \in DOMAIN event_list /\ pc[t] = "lookup" /\ pc'[t] = "seat"
         /\ event_list' = [event_list EXCEPT ![Found(t)] = Counted(event_list[Found(t)])]
<1>. DEFINE p == Found(t)
            e == event_list[p]
<1>0. Thread(t) /\ pc[t] = "lookup"
  BY DEF Thread, Operate, StartReserve, Goto
<1>1. event_list \in Seq(Events) /\ ArgsOK /\ pc \in [Threads -> Places]
  BY <1>0, ThreadFrame DEF Ready, IInv, TypeOK
<1>2. /\ Set(t, [p |-> p, i |-> 1]) /\ Goto(t, "lookup", "seat")
      /\ p # 0 /\ event_list' = [event_list EXCEPT ![p].reservations = @ + 1]
  BY DEF StartReserve
<1>3. p \in DOMAIN event_list /\ e.id = args[t].event
  BY <1>1, <1>2, LookupEvent DEF Found
<1>4. /\ pc'[t] = "seat" /\ args'[t].p = p /\ args'[t].i = 1
      /\ args'[t].seats = args[t].seats /\ args'[t].event = args[t].event
  BY <1>1, <1>2, GotoMoves, SetArgs DEF Fields
<1>5. event_list' = [event_list EXCEPT ![p] = Counted(e)]
  BY <1>2, <1>3 DEF Counted
<1>6. e \in Events
  BY <1>1, <1>3
<1>7. Event(t)' = Counted(e)
  BY <1>1, <1>3, <1>4, <1>5 DEF Event
<1>8. args'[t].i - 1 = 0
  BY <1>4
<1>. HIDE DEF e
<1>9. /\ CanTake(Counted(e), args'[t].seats, args'[t].i - 1)
      /\ Event(t)' = TakenFirst(Counted(e), args'[t].seats, args'[t].i - 1)
  BY <1>6, <1>7, <1>8, NothingTaken
<1>10. Before(t)' = e /\ Taking(t)'
  BY <1>3, <1>4, <1>6, <1>9, TakingIsNext
<1>11. QED
  BY <1>0, <1>3, <1>4, <1>5, <1>10 DEF e

LEMMA TakingGoesOn ==
  ASSUME Ready, NEW t \in Threads, Taking(t), ReserveSeat(t)
  PROVE  /\ Taking(t)' /\ Before(t)' = Before(t) /\ args'[t].p = args[t].p
         /\ args[t].p \in DOMAIN event_list /\ pc[t] = "seat" /\ pc' = pc
         /\ event_list' = [event_list EXCEPT ![args[t].p] = Event(t)']
<1>. DEFINE p == args[t].p
            e == Before(t)
            seats == args[t].seats
            n == args[t].i
<1>0. Thread(t) /\ pc[t] = "seat"
  BY DEF Thread, Operate, ReserveSeat
<1>1. event_list \in Seq(Events) /\ ArgsOK
  BY <1>0, ThreadFrame DEF Ready, IInv
<1>2. /\ p \in DOMAIN event_list /\ Event(t) = event_list[p] /\ Event(t) \in Events
      /\ seats \in Seq(Seats) /\ n \in 1 .. Len(seats) + 1
  BY <1>0, SeatFacts
<1>3. /\ Set(t, [i |-> n + 1]) /\ n <= Len(seats) /\ Available(Event(t), seats[n])
      /\ event_list' = [event_list EXCEPT ![p] = Taken(@, seats[n], Event(t).reservations)]
      /\ pc' = pc
  BY DEF ReserveSeat, MoreSeats
<1>4. n \in 1 .. Len(seats)
  BY <1>2, <1>3
<1>5. /\ args'[t].p = p /\ args'[t].i = n + 1 /\ args'[t].seats = seats
      /\ args'[t].event = args[t].event
  BY <1>1, <1>3, SetArgs DEF Fields
<1>6. /\ e \in Events /\ e.id = args[t].event /\ CanTake(Counted(e), seats, n - 1)
      /\ Event(t) = TakenFirst(Counted(e), seats, n - 1)
  BY DEF Taking
<1>. HIDE DEF e
<1>7. Counted(e) \in Events /\ Counted(e).reservations >= 1
      /\ Event(t).reservations = Counted(e).reservations
  BY <1>6, CountedFields, TakenFirstFields
<1>8. CanTake(Counted(e), seats, n)
      /\ Taken(Event(t), seats[n], Event(t).reservations) = TakenFirst(Counted(e), seats, n)
  BY <1>2, <1>3, <1>4, <1>6, <1>7, NextSeat
<1>9. Event(t)' = TakenFirst(Counted(e), seats, n)
      /\ event_list' = [event_list EXCEPT ![p] = Event(t)']
  BY <1>1, <1>2, <1>3, <1>5, <1>8 DEF Event
<1>10. args'[t].i - 1 = n
  BY <1>4, <1>5
<1>11. Before(t)' = e /\ Taking(t)'
  BY <1>5, <1>6, <1>8, <1>9, <1>10, TakingIsNext
<1>12. QED
  BY <1>0, <1>2, <1>3, <1>5, <1>9, <1>11 DEF e

\* The end of a reservation, rolled back or not, is the reference.
LEMMA TakingEnds ==
  ASSUME Ready, NEW t \in Threads, Taking(t), RollBack(t) \/ EndReserve(t)
  PROVE  /\ pc[t] = "seat" /\ pc'[t] = "check" /\ args[t].p \in DOMAIN event_list
         /\ event_list[args[t].p].id = args[t].event
         /\ event_list' = [event_list EXCEPT ![args[t].p] =
                            AllOrNothing(Before(t), args[t].seats)]
<1>. DEFINE p == args[t].p
            e == Before(t)
            seats == args[t].seats
            n == args[t].i
<1>0. Thread(t) /\ pc[t] = "seat"
  BY DEF Thread, Operate, RollBack, EndReserve, Goto
<1>1. event_list \in Seq(Events) /\ pc \in [Threads -> Places]
  BY <1>0, ThreadFrame DEF Ready, IInv, TypeOK
<1>2. /\ p \in DOMAIN event_list /\ Event(t) = event_list[p] /\ Event(t) \in Events
      /\ seats \in Seq(Seats) /\ n \in 1 .. Len(seats) + 1 /\ Len(seats) \in Nat
  BY <1>0, SeatFacts
<1>3. /\ e \in Events /\ e.id = args[t].event /\ CanTake(Counted(e), seats, n - 1)
      /\ Event(t) = TakenFirst(Counted(e), seats, n - 1)
  BY DEF Taking
<1>4. pc'[t] = "check"
  BY <1>1, GotoMoves DEF RollBack, EndReserve
<1>5. ASSUME RollBack(t)
      PROVE  event_list' = [event_list EXCEPT ![p] = AllOrNothing(e, seats)]
  <2>1. /\ n \in 1 .. Len(seats) /\ ~ Available(Event(t), seats[n])
        /\ event_list' = [event_list EXCEPT ![p] = e]
    BY <1>2, <1>5 DEF RollBack, MoreSeats, Before
  <2>. HIDE DEF e
  <2>2. Counted(e) \in Events /\ Counted(e).reservations >= 1
    BY <1>3, CountedFields
  <2>3. ~ CanTake(Counted(e), seats, n)
    BY <1>2, <1>3, <2>1, <2>2, NextSeat
  <2>4. ~ CanTake(Counted(e), seats, Len(seats))
    BY <1>2, <2>1, <2>3, CanTakeFewer
  <2>5. ~ CanTake(e, seats, Len(seats))
    BY <1>3, <2>4, CountedSeats
  <2>6. AllOrNothing(e, seats) = e
    BY <1>2, <1>3, <2>5, Reference
  <2>7. QED  BY <2>1, <2>6
<1>6. ASSUME EndReserve(t)
      PROVE  event_list' = [event_list EXCEPT ![p] = AllOrNothing(e, seats)]
  <2>1. n - 1 = Len(seats) /\ event_list' = event_list
    BY <1>2, <1>6 DEF EndReserve, MoreSeats, store
  <2>. HIDE DEF e
  <2>2. Event(t) = Granted(e, seats)
    BY <1>2, <1>3, <2>1, TookAll
  <2>3. CanTake(e, seats, Len(seats))
    BY <1>3, <2>1, CountedSeats
  <2>4. event_list[p] = AllOrNothing(e, seats)
    BY <1>2, <1>3, <2>2, <2>3, Reference
  <2>5. QED  BY <1>1, <1>2, <2>1, <2>4
<1>7. event_list[p].id = args[t].event
  <2>. HIDE DEF e
  <2>1. Event(t).id = e.id
    BY <1>3, CountedTaken
  <2>2. QED  BY <1>2, <1>3, <2>1
<1>8. QED
  BY <1>0, <1>2, <1>4, <1>5, <1>6, <1>7

-----------------------------------------------------------------------------
(* A SHOW or a LIST under way                                              *)

ToWrite(t) == IF args[t].op = "show" THEN Event(t).rows ELSE Len(event_list)

Chunk(t, n) ==
  IF args[t].op = "show" THEN [line |-> args[t].line, row |-> Row(Event(t), n)]
                         ELSE [line |-> args[t].line, id |-> event_list[n].id]

\* The output ends with what was written so far.
Writing(t) ==
  /\ args[t].op \in {"show", "list"}
  /\ args[t].op = "show" => args[t].p \in DOMAIN event_list /\ Event(t).id = args[t].event
  /\ args[t].i \in 1 .. ToWrite(t) + 1 /\ args[t].i \in 1 .. Len(out) + 1
  /\ \A n \in 1 .. args[t].i - 1 : out[Len(out) - (args[t].i - 1) + n] = Chunk(t, n)

\* The output before the operation began.
OutBefore(t) == SubSeq(out, 1, Len(out) - (args[t].i - 1))

LEMMA LengthsToWrite ==
  ASSUME Ready, NEW t \in Threads, main.pc # "done",
         args[t].op = "show" => args[t].p \in DOMAIN event_list
  PROVE  ToWrite(t) \in Nat /\ Len(out) \in Nat /\ DOMAIN out = 1 .. Len(out)
<1>1. event_list \in Seq(Events) /\ OutOK
  BY DEF Ready, StoreInv, IInv
<1>2. PICK S : out \in Seq(S)
  BY <1>1 DEF OutOK
<1>3. args[t].op = "show" => Event(t).rows \in Nat
  <2>1. args[t].op = "show" => Event(t) \in Events
    BY <1>1 DEF Event
  <2>2. QED  BY <2>1, EventFields
<1>4. QED
  BY <1>1, <1>2, <1>3 DEF ToWrite

LEMMA WritingStarts ==
  ASSUME Ready, NEW t \in Threads, StartShow(t)
  PROVE  /\ Writing(t)' /\ OutBefore(t)' = out /\ out' = out /\ event_list' = event_list
         /\ pc[t] = "lookup" /\ pc'[t] = "write"
<1>0. Thread(t) /\ pc[t] = "lookup" /\ UNCHANGED <<out, event_list>>
  BY DEF Thread, Operate, StartShow, Goto, store
<1>1. /\ event_list \in Seq(Events) /\ ArgsOK /\ pc \in [Threads -> Places] /\ OutOK
      /\ main.pc # "done" /\ main'.pc # "done" /\ Ready'
  <2>1. Ready'
    BY <1>0, ThreadStep, LineThread, SeatsThread, StoreThread DEF Ready
  <2>2. QED  BY <1>0, <2>1, ThreadFrame DEF Ready, IInv, TypeOK
<1>2. /\ Set(t, [p |-> IF args[t].op = "show" THEN Found(t) ELSE 0, i |-> 1])
      /\ Goto(t, "lookup", "write")
      /\ (args[t].op = "show" /\ Found(t) # 0) \/ args[t].op = "list"
  BY DEF StartShow
<1>3. /\ pc'[t] = "write" /\ args'[t].i = 1 /\ args'[t].event = args[t].event
      /\ args'[t].op = args[t].op
      /\ args[t].op = "show" => args'[t].p = Found(t)
  BY <1>1, <1>2, GotoMoves, SetArgs DEF Fields
<1>4. args[t].op = "show" => /\ Found(t) \in DOMAIN event_list
                             /\ event_list[Found(t)].id = args[t].event
  BY <1>1, <1>2, LookupEvent DEF Found
<1>5. args'[t].op = "show" => args'[t].p \in DOMAIN event_list' /\ Event(t)'.id = args'[t].event
  BY <1>0, <1>3, <1>4 DEF Event
<1>6. Threads' = Threads
  BY <1>0, ThreadEffect DEF Ready
<1>7. ToWrite(t)' \in Nat
  <2>1. args'[t].op = "show" => Event(t)'.rows \in Nat
    <3>1. args[t].op = "show" => Event(t)' \in Events
      BY <1>0, <1>1, <1>3, <1>4 DEF Event
    <3>2. QED  BY <1>3, <3>1, EventFields
  <2>2. QED  BY <1>0, <1>1, <2>1 DEF ToWrite
<1>8. PICK S : out \in Seq(S)
  BY <1>1 DEF OutOK
<1>9. SubSeq(out, 1, Len(out)) = out /\ Len(out) \in Nat
  BY <1>8
<1>10. OutBefore(t)' = out
  <2>1. Len(out) - (args'[t].i - 1) = Len(out)
    BY <1>3, <1>9
  <2>2. QED  BY <1>0, <1>9, <2>1 DEF OutBefore
<1>11. Writing(t)'
  <2>1. args'[t].i - 1 = 0 /\ 1 .. args'[t].i - 1 = {}
    BY <1>3
  <2>2. QED  BY <1>0, <1>2, <1>3, <1>5, <1>7, <1>9, <2>1 DEF Writing
<1>12. QED
  BY <1>0, <1>3, <1>10, <1>11

LEMMA WritingGoesOn ==
  ASSUME Ready, NEW t \in Threads, Writing(t), WriteNext(t)
  PROVE  /\ Writing(t)' /\ OutBefore(t)' = OutBefore(t) /\ event_list' = event_list
         /\ pc[t] = "write" /\ pc' = pc
<1>. DEFINE n == args[t].i
<1>0. Thread(t) /\ pc[t] = "write" /\ event_list' = event_list /\ pc' = pc
  BY DEF Thread, Operate, WriteNext
<1>1. ArgsOK /\ OutOK /\ main.pc # "done"
  BY <1>0, ThreadFrame DEF Ready, IInv
<1>2. /\ out' = Append(out, Chunk(t, n)) /\ n <= ToWrite(t) /\ Set(t, [i |-> n + 1])
  BY DEF WriteNext, MoreToWrite, ToWrite, Chunk
<1>3. /\ args'[t].i = n + 1 /\ args'[t].op = args[t].op /\ args'[t].line = args[t].line
      /\ args'[t].p = args[t].p /\ args'[t].event = args[t].event
  BY <1>1, <1>2, SetArgs DEF Fields
<1>4. ToWrite(t) \in Nat /\ Len(out) \in Nat /\ DOMAIN out = 1 .. Len(out)
  BY <1>1, LengthsToWrite DEF Writing
<1>5. n \in 1 .. ToWrite(t) /\ n \in 1 .. Len(out) + 1 /\ n \in Nat /\ args'[t].i - 1 = n
  <2>1. n \in 1 .. ToWrite(t) + 1 /\ n \in 1 .. Len(out) + 1
    BY DEF Writing
  <2>2. QED  BY SMTT(30), <1>2, <1>3, <1>4, <2>1
<1>6. /\ Len(out') = Len(out) + 1 /\ out'[Len(out) + 1] = Chunk(t, n)
      /\ \A k \in 1 .. Len(out) : out'[k] = out[k]
  <2>1. PICK S : out \in Seq(S)
    BY <1>1 DEF OutOK
  <2>2. out \in Seq(S \cup {Chunk(t, n)}) /\ Chunk(t, n) \in S \cup {Chunk(t, n)}
    BY <2>1
  <2>3. QED  BY <1>2, <1>4, <2>2, AppendProperties
<1>7. \A k : Chunk(t, k)' = Chunk(t, k)
  BY <1>0, <1>3 DEF Chunk, Event
<1>8. ToWrite(t)' = ToWrite(t) /\ Event(t)' = Event(t)
  BY <1>0, <1>3 DEF ToWrite, Event
<1>9. ASSUME NEW k \in 1 .. n
      PROVE  out'[Len(out) + 1 - n + k] = Chunk(t, k)
  <2>1. CASE k = n
    BY <1>4, <1>5, <1>6, <2>1
  <2>2. CASE k \in 1 .. n - 1
    <3>1. out[Len(out) - (n - 1) + k] = Chunk(t, k)
      BY <2>2 DEF Writing
    <3>2. /\ Len(out) + 1 - n + k = Len(out) - (n - 1) + k
          /\ Len(out) - (n - 1) + k \in 1 .. Len(out)
      BY <1>4, <1>5, <2>2
    <3>3. QED  BY <1>6, <3>1, <3>2
  <2>3. QED  BY <1>5, <2>1, <2>2
<1>10. Writing(t)'
  <2>1. n + 1 \in 1 .. ToWrite(t) + 1 /\ n + 1 \in 1 .. Len(out) + 1 + 1
    BY <1>4, <1>5
  <2>2. ASSUME NEW k \in 1 .. n PROVE out'[Len(out') - n + k] = Chunk(t, k)'
    <3>1. out'[Len(out') - n + k] = Chunk(t, k)
      <4>1. Len(out') - n + k = Len(out) + 1 - n + k
        BY SMTT(30), <1>4, <1>5, <1>6
      <4>2. out'[Len(out) + 1 - n + k] = Chunk(t, k)
        BY <1>9
      <4>. HIDE DEF n
      <4>3. QED  BY <4>1, <4>2
    <3>2. Chunk(t, k)' = Chunk(t, k)
      BY <1>7
    <3>3. QED  BY <3>1, <3>2
  <2>3. /\ args[t].op \in {"show", "list"}
        /\ args[t].op = "show" => args[t].p \in DOMAIN event_list /\ Event(t).id = args[t].event
    BY DEF Writing
  <2>4. QED  BY <1>0, <1>3, <1>5, <1>6, <1>8, <2>1, <2>2, <2>3 DEF Writing
<1>11. OutBefore(t)' = OutBefore(t)
  <2>. DEFINE m == Len(out) - (n - 1)
  <2>1. m \in 0 .. Len(out) /\ Len(out') - n = m
    BY <1>4, <1>5, <1>6
  <2>2. \A k \in 1 .. m : out'[k] = out[k]
    BY <1>4, <1>6, <2>1
  <2>. HIDE DEF m
  <2>3. SubSeq(out', 1, m) = SubSeq(out, 1, m)
    BY <2>1, <2>2
  <2>4. QED  BY <1>5, <2>1, <2>3 DEF OutBefore, m
<1>12. QED
  BY <1>0, <1>10, <1>11

LEMMA WritingEnds ==
  ASSUME Ready, NEW t \in Threads, Writing(t), EndWrite(t)
  PROVE  /\ out' = OutBefore(t) \o [n \in 1 .. ToWrite(t) |-> Chunk(t, n)]
         /\ event_list' = event_list /\ pc[t] = "write" /\ pc'[t] = "check"
<1>. DEFINE L == Len(out)
            w == ToWrite(t)
            chunks == [n \in 1 .. w |-> Chunk(t, n)]
<1>0. /\ Thread(t) /\ pc[t] = "write" /\ event_list' = event_list /\ out' = out
      /\ ~ MoreToWrite(t)
  BY DEF Thread, Operate, EndWrite, Goto, store
<1>1. OutOK /\ main.pc # "done" /\ pc \in [Threads -> Places]
  BY <1>0, ThreadFrame DEF Ready, IInv, TypeOK
<1>2. pc'[t] = "check"
  BY <1>1, GotoMoves DEF EndWrite
<1>3. w \in Nat /\ L \in Nat
  BY <1>1, LengthsToWrite DEF Writing
<1>4. args[t].i - 1 = w /\ w <= L
  <2>1. args[t].i \in 1 .. w + 1 /\ args[t].i \in 1 .. L + 1
    BY DEF Writing
  <2>2. ~ args[t].i <= w
    BY <1>0 DEF MoreToWrite, ToWrite
  <2>3. QED  BY <1>3, <2>1, <2>2
<1>5. \A n \in 1 .. w : out[L - w + n] = Chunk(t, n)
  BY <1>4 DEF Writing
<1>6. PICK S : out \in Seq(S)
  BY <1>1 DEF OutOK
<1>7. \A n \in 1 .. w : Chunk(t, n) \in S
  <2>1. \A n \in 1 .. w : L - w + n \in 1 .. L
    BY <1>3, <1>4
  <2>2. QED  BY <1>5, <1>6, <2>1
<1>8. chunks \in Seq(S) /\ Len(chunks) = w /\ \A n \in 1 .. w : chunks[n] = out[L - w + n]
  BY <1>3, <1>5, <1>7
<1>9. OutBefore(t) = SubSeq(out, 1, L - w)
  BY <1>4 DEF OutBefore
<1>. HIDE DEF w, chunks
<1>10. /\ SubSeq(out, 1, L - w) \in Seq(S) /\ Len(SubSeq(out, 1, L - w)) = L - w
       /\ \A k \in 1 .. L - w : SubSeq(out, 1, L - w)[k] = out[k]
  BY <1>3, <1>4, <1>6
<1>11. out = SubSeq(out, 1, L - w) \o chunks
  <2>. DEFINE x == SubSeq(out, 1, L - w)
              y == x \o chunks
  <2>1. L - w \in Nat /\ L - w + w = L
    BY <1>3, <1>4
  <2>. HIDE DEF x
  <2>2. x \in Seq(S) /\ Len(x) = L - w /\ \A k \in 1 .. L - w : x[k] = out[k]
    BY <1>10 DEF x
  <2>3. /\ y \in Seq(S) /\ Len(y) = L
        /\ \A k \in 1 .. L : y[k] = IF k <= L - w THEN x[k] ELSE chunks[k - (L - w)]
    BY SMTT(30), <1>8, <2>1, <2>2, ConcatProperties
  <2>. HIDE DEF y
  <2>4. ASSUME NEW k \in 1 .. L PROVE y[k] = out[k]
    <3>1. CASE k <= L - w
      BY <1>3, <2>1, <2>2, <2>3, <3>1
    <3>2. CASE ~ k <= L - w
      <4>1. k - (L - w) \in 1 .. w /\ L - w + (k - (L - w)) = k
        BY <1>3, <2>1, <3>2
      <4>2. QED  BY <1>8, <2>3, <3>2, <4>1
    <3>3. QED  BY <3>1, <3>2
  <2>5. y = out
    BY <1>3, <1>6, <2>3, <2>4
  <2>6. QED  BY <2>5 DEF x, y
<1>12. QED
  BY <1>0, <1>2, <1>9, <1>11 DEF w, chunks

-----------------------------------------------------------------------------
(* One thread alone                                                        *)

SoloInv ==
  num_threads = 1 =>
    /\ Executing(0) => args[0].line = line
    /\ pc[0] = "append" => args[0].op = "create"
    /\ pc[0] = "seat" => Taking(0)
    /\ pc[0] = "write" => Writing(0)

LEMMA OnlyThread ==
  ASSUME IInv, num_threads = 1
  PROVE  Threads = {0}
BY DEF Threads

\* The steps that begin an operation or go on with it.
LEMMA OperationSteps ==
  ASSUME IInv, NEW t \in Threads, Thread(t)
  PROVE  /\ pc'[t] = "append" => StartCreate(t)
         /\ pc'[t] = "seat" => StartReserve(t) \/ ReserveSeat(t)
         /\ pc'[t] = "write" => StartShow(t) \/ WriteNext(t)
<1>. pc \in [Threads -> Places]
  BY DEF IInv, TypeOK
<1>1. CASE TakeRwlock(t) \/ GiveUp(t) \/ StartCreate(t) \/ AppendEvent(t)
  BY <1>1, GotoMoves DEF TakeRwlock, GiveUp, StartCreate, AppendEvent
<1>2. CASE StartReserve(t) \/ RollBack(t) \/ EndReserve(t) \/ StartShow(t) \/ EndWrite(t)
  BY <1>2, GotoMoves DEF StartReserve, RollBack, EndReserve, StartShow, EndWrite
<1>3. CASE ReserveSeat(t) \/ WriteNext(t)
  BY <1>3 DEF ReserveSeat, WriteNext
<1>4. CASE CheckFlag(t) \/ StartWait(t) \/ EndWait(t) \/ LockInput(t)
  BY <1>4, GotoMoves DEF CheckFlag, StartWait, EndWait, LockInput
<1>5. CASE GetEOC(t) \/ GetCommand(t) \/ GetWholeLine(t) \/ GetSkip(t)
  BY <1>5, GotoMoves DEF GetEOC, GetCommand, GetWholeLine, GetSkip
<1>6. CASE Parse(t)
  BY <1>6, GotoMoves DEF Parse
<1>7. CASE BarrierLine(t) \/ WaitAll(t) \/ EndWaitAll(t) \/ SetWait(t)
  BY <1>7, GotoMoves DEF BarrierLine, WaitAll, EndWaitAll, SetWait
<1>8. QED
  BY <1>1, <1>2, <1>3, <1>4, <1>5, <1>6, <1>7 DEF Thread, Read, Operate

LEMMA SoloThread ==
  ASSUME Ready, SoloInv, num_threads = 1, NEW t \in Threads, Thread(t)
  PROVE  SoloInv'
<1>1. t = 0 /\ 0 \in Threads /\ num_threads' = 1
  BY OnlyThread, ThreadStep DEF Ready, Moves
<1>2. Executing(t)' => args'[t].line = line'
  <2>1. CASE Quiet(t)
    BY <1>1, <2>1 DEF Quiet, SoloInv, Executing
  <2>2. CASE Reads(t)
    BY <2>2 DEF Reads, Executing, Executes, HoldsRwlock
  <2>3. QED  BY <2>1, <2>2, QuietSteps, ReadingSteps DEF Ready
<1>3. pc'[t] = "append" => args'[t].op = "create"
  BY OperationSteps DEF StartCreate, Ready
<1>4. pc'[t] = "seat" => Taking(t)'
  <2>1. ReserveSeat(t) => Taking(t)
    BY <1>1 DEF ReserveSeat, SoloInv
  <2>2. QED  BY <2>1, OperationSteps, TakingStarts, TakingGoesOn DEF Ready
<1>5. pc'[t] = "write" => Writing(t)'
  <2>1. WriteNext(t) => Writing(t)
    BY <1>1 DEF WriteNext, SoloInv
  <2>2. QED  BY <2>1, OperationSteps, WritingStarts, WritingGoesOn DEF Ready
<1>6. QED
  BY <1>1, <1>2, <1>3, <1>4, <1>5 DEF SoloInv

\* Main acts before the thread starts and after it ended.
LEMMA SoloMain ==
  ASSUME IInv, num_threads = 1, Main
  PROVE  /\ pc[0] \in Gone /\ pc'[0] \in Gone \cup {"check"}
         /\ UNCHANGED <<num_threads, input, line, out>>
         /\ event_list' = event_list \/ (EndRound /\ event_list' = NULL /\ main.exitFlag = 0)
<1>1. /\ 0 \in Threads /\ Threads = {0} /\ pc \in [Threads -> Places] /\ RoundInv
      /\ main.i \in Nat
  BY OnlyThread, StartFacts DEF IInv, TypeOK, RoundInv
<1>2. main.i < num_threads => main.i = 0
  BY <1>1
<1>3. CASE SetList
  BY <1>1, <1>3 DEF SetList, RoundInv, Gone, file, start, store
<1>4. CASE SetId
  BY <1>1, <1>2, <1>4 DEF SetId, RoundInv, Gone, file, start, store
<1>5. CASE CreateThread
  <2>1. main.i = 0 /\ pc[0] = "none"
    BY <1>1, <1>2, <1>5 DEF CreateThread, RoundInv
  <2>2. pc' = [pc EXCEPT ![0] = "check"] /\ UNCHANGED <<file, store>>
    BY <1>5, <2>1 DEF CreateThread
  <2>3. QED  BY <1>1, <2>1, <2>2 DEF Gone, file, start, store
<1>6. CASE JoinThread
  BY <1>1, <1>2, <1>6 DEF JoinThread, RoundInv, Gone, file, start, store, list
<1>7. CASE EndRound
  BY <1>1, <1>7 DEF EndRound, RoundInv, Gone, file, start, list
<1>8. QED
  BY <1>3, <1>4, <1>5, <1>6, <1>7 DEF Main

LEMMA SoloHolds == Spec => []SoloInv
<1>1. Init => SoloInv
  <2>1. SUFFICES ASSUME Init, num_threads = 1
        PROVE  pc[0] = "none"
    BY DEF SoloInv, Executing, Executes, HoldsRwlock
  <2>2. QED  BY <2>1 DEF Init, Threads
<1>2. IInv /\ LineInv /\ SeatsInv /\ StoreInv /\ SoloInv /\ [Next]_vars => SoloInv'
  <2>1. SUFFICES ASSUME Ready, SoloInv, [Next]_vars, num_threads' = 1 PROVE SoloInv'
    BY DEF Ready, SoloInv
  <2>2. CASE UNCHANGED vars
    BY <2>1, <2>2 DEF SoloInv, Executing, Taking, Before, Writing, ToWrite, Chunk, Event,
                      vars, file, start, store
  <2>3. CASE \E t \in Threads : Thread(t)
    <3>1. PICK t \in Threads : Thread(t)
      BY <2>3
    <3>2. num_threads = 1
      BY <2>1, <3>1, ThreadStep DEF Ready, Moves
    <3>3. QED  BY <2>1, <3>1, <3>2, SoloThread
  <2>4. CASE Main
    <3>1. num_threads = 1
      BY <2>1, <2>4 DEF Main, SetList, SetId, CreateThread, JoinThread, EndRound, file, start
    <3>2. pc'[0] \in Gone \cup {"check"}
      BY <2>1, <2>4, <3>1, SoloMain DEF Ready
    <3>3. QED  BY <3>2 DEF SoloInv, Executing, Executes, HoldsRwlock, Gone
  <2>5. QED  BY <2>1, <2>2, <2>3, <2>4 DEF Next, Finished
<1>3. QED
  BY <1>1, <1>2, InvHolds, LineHolds, SeatsHold, StoreHolds, PTL DEF Spec

-----------------------------------------------------------------------------
(* Each step of one thread is a step of SeqJobs, or none                   *)

Lone == Ready /\ EndInv /\ RequestInv /\ SoloInv /\ IsAlone

LEMMA AloneMeans ==
  /\ IsAlone => /\ num_threads = 1
                /\ \A k \in DOMAIN input :
                     input[k].ok /\ (input[k].op = "wait" => input[k].thread = 0)
  /\ UNCHANGED <<num_threads, input>> => IsAlone' = IsAlone
BY DEF IsAlone, Pending

\* What every step of the only thread leaves to be shown.
LEMMA LoneFrame ==
  ASSUME Lone, NEW t \in Threads, Thread(t)
  PROVE  /\ t = 0 /\ IsAlone' /\ input' = input /\ main.pc # "done"
         /\ pc \in [Threads -> Places] /\ event_list \in Seq(Events)
         /\ NoDuplicates(event_list) /\ line \in Nat
<1>1. num_threads = 1 /\ num_threads' = 1 /\ input' = input
  BY ThreadStep, AloneMeans DEF Lone, Ready, Moves
<1>2. IsAlone'
  BY <1>1, AloneMeans DEF Lone
<1>3. t = 0
  BY <1>1, OnlyThread DEF Lone, Ready
<1>4. main.pc # "done" /\ event_list \in Seq(Events) /\ NoDuplicates(event_list)
  BY ThreadFrame DEF Lone
<1>5. QED
  BY <1>1, <1>2, <1>3, <1>4, ThreadEffect DEF Lone, Ready

\* The list without what an operation under way did to it.
LEMMA LoneList ==
  ASSUME Lone, main.pc # "done"
  PROVE  /\ ListDone \in Seq(Events) /\ NoDuplicates(ListDone)
         /\ pc[0] = "seat" =>
              /\ args[0].p \in DOMAIN event_list /\ event_list[args[0].p].id = args[0].event
              /\ ListDone = [event_list EXCEPT ![args[0].p] = Before(0)]
              /\ args[0].p \in DOMAIN ListDone /\ ListDone[args[0].p] = Before(0)
<1>. DEFINE p == args[0].p
            e == Before(0)
<1>1. /\ event_list \in Seq(Events) /\ NoDuplicates(event_list) /\ 0 \in Threads
  BY StartFacts DEF Lone, Ready, StoreInv
<1>2. CASE pc[0] # "seat"
  BY <1>1, <1>2, AloneValues DEF Lone
<1>3. CASE pc[0] = "seat"
  <2>1. Taking(0) /\ Reserving(0)
    BY <1>1, <1>3, AloneMeans DEF Lone, SoloInv, Ready, StoreInv
  <2>2. p \in DOMAIN event_list /\ Event(0) = event_list[p]
    BY <2>1 DEF Reserving, Event
  <2>3. e \in Events /\ e.id = args[0].event
        /\ Event(0) = TakenFirst(Counted(e), args[0].seats, args[0].i - 1)
    BY <2>1 DEF Taking
  <2>4. ListDone = [event_list EXCEPT ![p] = e]
    BY <1>3, <2>2, AloneValues DEF Lone, Before, Event
  <2>. HIDE DEF e
  <2>5. event_list[p].id = e.id
    BY <2>2, <2>3, CountedTaken
  <2>6. /\ ListDone \in Seq(Events) /\ NoDuplicates(ListDone)
        /\ DOMAIN ListDone = DOMAIN event_list /\ ListDone[p] = e
    BY <1>1, <2>2, <2>3, <2>4, <2>5, ReplaceEvent
  <2>7. QED  BY <2>2, <2>3, <2>4, <2>5, <2>6 DEF e
<1>4. QED
  BY <1>2, <1>3

\* No line is pending before the step and none after it.
LEMMA StaysOutside ==
  ASSUME Lone, NEW t \in Threads, Thread(t), ~ Pending(t), ~ Pending(t)',
         UNCHANGED <<line, event_list, out>>
  PROVE  UNCHANGED Alone!vars
<1>1. t = 0 /\ IsAlone /\ IsAlone' /\ input' = input
  BY LoneFrame DEF Lone
<1>2. pc[0] \notin {"seat", "write"} /\ pc'[0] \notin {"seat", "write"}
  BY <1>1 DEF Pending, HoldsRwlock
<1>3. QED
  BY <1>1, <1>2, AloneValues, AloneValuesNext, AloneStutters

\* The line is pending before and after the step.
LEMMA StaysPending ==
  ASSUME Lone, NEW t \in Threads, Thread(t), Pending(t), Pending(t)', line' = line,
         ListDone' = ListDone, OutDone' = OutDone
  PROVE  UNCHANGED Alone!vars
<1>1. t = 0 /\ IsAlone /\ IsAlone' /\ input' = input
  BY LoneFrame DEF Lone
<1>2. LineDone' = LineDone
  BY <1>1, AloneValues, AloneValuesNext
<1>3. QED
  BY <1>1, <1>2, AloneStutters

\* A step that ends an operation performs the line of the thread.
LEMMA PerformsItsLine ==
  ASSUME Lone, NULL \notin Seq(Events), NEW t \in Threads, Thread(t), Pending(t), ~ Pending(t)',
         line' = line
  PROVE  /\ Performs(args[t].op) /\ LineDone + 1 = line /\ LineDone' = line
         /\ args[t].line = line /\ input[line] \in Lines /\ input[line].op = args[t].op
         /\ input[line].ok /\ (input[line].op = "wait" => input[line].thread = 0)
         /\ \A f \in DOMAIN input[line] \ {"op", "ok", "seats"} : args[t][f] = input[line][f]
         /\ input[line].op = "reserve" => args[t].seats = SortSeats(input[line].seats)
         /\ ListDone' = event_list' /\ OutDone' = out'
<1>1. /\ t = 0 /\ IsAlone /\ IsAlone' /\ input' = input /\ main.pc # "done"
      /\ num_threads = 1
  BY LoneFrame, AloneMeans DEF Lone
<1>2. Executing(t) /\ pc'[0] \notin {"seat", "write"}
  BY <1>1 DEF Pending, Executing, Executes, HoldsRwlock
<1>3. args[t].line = line /\ args[t].line \in 1 .. line /\ args[t].op = input[args[t].line].op
  BY <1>1, <1>2 DEF Lone, SoloInv, Ready, LineInv
<1>4. line \in 1 .. Len(input) /\ Len(input) \in Nat /\ line \in Nat
  <2>1. line \in 0 .. Len(input) /\ Len(input) \in Nat
    BY StartFacts DEF Lone, Ready, IInv, TypeOK
  <2>2. QED  BY <1>3, <2>1
<1>5. input[line] \in Lines /\ line \in DOMAIN input
  BY <1>4, StartFacts DEF Lone, Ready
<1>6. input[line].ok /\ (input[line].op = "wait" => input[line].thread = 0)
  BY <1>1, <1>5, AloneMeans
<1>7. /\ \A f \in DOMAIN input[line] \ {"op", "ok", "seats"} : args[t][f] = input[line][f]
      /\ input[line].op = "reserve" => args[t].seats = SortSeats(input[line].seats)
  BY <1>2, <1>3, <1>6 DEF Lone, RequestInv, Ready, SeatsInv
<1>8. LineDone = line - 1 /\ LineDone' = line /\ ListDone' = event_list' /\ OutDone' = out'
  BY <1>1, <1>2, AloneValues, AloneValuesNext
<1>9. ListDone # NULL
  BY <1>1, LoneList DEF Lone
<1>10. LineDone + 1 = line /\ LineDone < Len(input) /\ LineDone' = LineDone + 1
  BY <1>4, <1>8
<1>11. Performs(args[t].op)
  BY <1>1, <1>3, <1>9, <1>10 DEF Performs
<1>12. QED
  BY <1>3, <1>5, <1>6, <1>7, <1>8, <1>10, <1>11

LEMMA CreatesAlone ==
  ASSUME Lone, NULL \notin Seq(Events), NEW t \in Threads,
         AppendEvent(t) \/ (GiveUp(t) /\ args[t].op = "create")
  PROVE  Alone!ems_create
<1>. DEFINE l == input[line]
<1>0. Thread(t) /\ pc[t] \in {"append", "lookup"} /\ UNCHANGED <<line, out>>
  BY DEF Thread, Operate, AppendEvent, GiveUp, Goto, file, store
<1>1. /\ t = 0 /\ IsAlone /\ pc \in [Threads -> Places] /\ event_list \in Seq(Events)
      /\ main.pc # "done" /\ num_threads = 1
  BY <1>0, LoneFrame, AloneMeans DEF Lone
<1>2. pc'[t] = "check" /\ args[t].op = "create"
  BY <1>1, GotoMoves DEF AppendEvent, GiveUp, Lone, SoloInv, Goto
<1>3. Pending(t) /\ ~ Pending(t)'
  BY <1>0, <1>2 DEF Pending, HoldsRwlock
<1>4. /\ Performs("create") /\ LineDone + 1 = line /\ l \in Lines /\ l.op = "create" /\ l.ok
      /\ \A f \in DOMAIN l \ {"op", "ok", "seats"} : args[t][f] = l[f]
      /\ ListDone' = event_list' /\ OutDone' = out'
  BY <1>0, <1>2, <1>3, PerformsItsLine
<1>5. DOMAIN l = {"op", "event", "rows", "cols", "ok"}
  BY <1>4 DEF Lines, LinesRead
<1>6. args[t].event = l.event /\ args[t].rows = l.rows /\ args[t].cols = l.cols
  BY <1>4, <1>5
<1>7. ListDone = event_list /\ OutDone' = OutDone
  BY <1>0, <1>1, <1>4, AloneValues
<1>8. event_list' = IF get_event(event_list, l.event) # 0 THEN event_list
                    ELSE Append(event_list, NewEvent(l.event, l.rows, l.cols))
  <2>1. CASE AppendEvent(t)
    <3>1. \A p \in DOMAIN event_list : event_list[p].id # l.event
      BY <1>1, <1>6, <2>1 DEF AppendEvent, Goto, Lone, Ready, StoreInv
    <3>2. get_event(event_list, l.event) = 0
      BY <1>1, <3>1, LookupEvent
    <3>3. QED  BY <1>6, <2>1, <3>2 DEF AppendEvent
  <2>2. CASE GiveUp(t)
    BY <1>2, <1>6, <2>2 DEF GiveUp, Found, store
  <2>3. QED  BY <2>1, <2>2
<1>9. QED
  BY <1>4, <1>7, <1>8, AloneCreates

LEMMA ReservesAlone ==
  ASSUME Lone, NULL \notin Seq(Events), NEW t \in Threads,
         RollBack(t) \/ EndReserve(t) \/ (GiveUp(t) /\ args[t].op = "reserve")
  PROVE  Alone!ems_reserve
<1>. DEFINE l == input[line]
<1>0. Thread(t) /\ pc[t] \in {"seat", "lookup"} /\ UNCHANGED <<line, out>>
  BY DEF Thread, Operate, RollBack, EndReserve, GiveUp, Goto, file, store
<1>1. /\ t = 0 /\ IsAlone /\ pc \in [Threads -> Places] /\ event_list \in Seq(Events)
      /\ main.pc # "done" /\ num_threads = 1
  BY <1>0, LoneFrame, AloneMeans DEF Lone
<1>2. pc'[t] = "check" /\ args[t].op = "reserve"
  <2>1. pc[t] = "seat" => args[t].op = "reserve"
    BY <1>1 DEF Lone, Ready, StoreInv, Reserving
  <2>2. QED  BY <1>1, <2>1, GotoMoves DEF RollBack, EndReserve, GiveUp, Goto
<1>3. Pending(t) /\ ~ Pending(t)'
  BY <1>0, <1>2 DEF Pending, HoldsRwlock
<1>4. /\ Performs("reserve") /\ LineDone + 1 = line /\ l \in Lines /\ l.op = "reserve" /\ l.ok
      /\ \A f \in DOMAIN l \ {"op", "ok", "seats"} : args[t][f] = l[f]
      /\ args[t].seats = SortSeats(l.seats)
      /\ ListDone' = event_list' /\ OutDone' = out'
  BY <1>0, <1>2, <1>3, PerformsItsLine
<1>5. DOMAIN l = {"op", "event", "seats", "ok"} /\ l.seats \in Seq(Seats)
  BY <1>4 DEF Lines, LinesRead, Seats
<1>6. args[t].event = l.event
  BY <1>4, <1>5
<1>7. OutDone' = OutDone
  BY <1>0, <1>1, <1>4, AloneValues
<1>8. CASE GiveUp(t)
  <2>1. pc[t] = "lookup" /\ event_list' = event_list /\ get_event(event_list, l.event) = 0
    BY <1>2, <1>6, <1>8 DEF GiveUp, Found, store, Goto
  <2>2. ListDone = event_list
    BY <1>1, <2>1, AloneValues
  <2>3. QED  BY <1>4, <1>7, <2>1, <2>2, AloneReserves
<1>9. CASE RollBack(t) \/ EndReserve(t)
  <2>. DEFINE p == args[t].p
              e == Before(t)
  <2>1. pc[t] = "seat" /\ Taking(t)
    BY <1>1, <1>9 DEF RollBack, EndReserve, Goto, Lone, SoloInv
  <2>2. /\ p \in DOMAIN event_list
        /\ event_list' = [event_list EXCEPT ![p] = AllOrNothing(e, args[t].seats)]
    BY <1>9, <2>1, TakingEnds DEF Lone
  <2>3. /\ ListDone \in Seq(Events) /\ NoDuplicates(ListDone)
        /\ ListDone = [event_list EXCEPT ![p] = e]
        /\ p \in DOMAIN ListDone /\ ListDone[p] = e
    BY <1>1, <2>1, LoneList
  <2>4. e \in Events /\ e.id = l.event
    BY <1>6, <2>1 DEF Taking
  <2>. HIDE DEF e, p
  <2>5. get_event(ListDone, l.event) = p
    BY <2>3, <2>4, LookupTheEvent
  <2>6. AllOrNothing(e, args[t].seats) = Reserved(e, l.seats)
    BY <1>4, <1>5, <2>4, SortedReservation
  <2>7. ListDone' = [ListDone EXCEPT ![p] = Reserved(@, l.seats)]
    BY <1>1, <1>4, <2>2, <2>3, <2>6
  <2>8. p # 0
    BY <2>3
  <2>9. l = input[LineDone + 1] /\ l.ok
    BY <1>4
  <2>10. ListDone' = IF p = 0 THEN ListDone
                     ELSE [ListDone EXCEPT ![p] = Reserved(@, l.seats)]
    BY <2>7, <2>8
  <2>. HIDE DEF l
  <2>11. QED  BY <1>4, <1>7, <2>5, <2>9, <2>10, AloneReserves
<1>10. QED
  BY <1>8, <1>9

LEMMA WritesAlone ==
  ASSUME Lone, NULL \notin Seq(Events), NEW t \in Threads,
         EndWrite(t) \/ (GiveUp(t) /\ args[t].op = "show")
  PROVE  Alone!ems_show \/ Alone!ems_list_events
<1>. DEFINE l == input[line]
<1>0. Thread(t) /\ pc[t] \in {"write", "lookup"} /\ UNCHANGED <<line, event_list>>
  BY DEF Thread, Operate, EndWrite, GiveUp, Goto, file, store
<1>1. /\ t = 0 /\ IsAlone /\ pc \in [Threads -> Places] /\ event_list \in Seq(Events)
      /\ NoDuplicates(event_list) /\ main.pc # "done" /\ num_threads = 1
  BY <1>0, LoneFrame, AloneMeans DEF Lone
<1>2. pc'[t] = "check" /\ args[t].op \in {"show", "list"}
  <2>1. pc[t] = "write" => args[t].op \in {"show", "list"}
    BY <1>1 DEF Lone, SoloInv, Writing
  <2>2. QED  BY <1>1, <2>1, GotoMoves DEF EndWrite, GiveUp, Goto
<1>3. Pending(t) /\ ~ Pending(t)'
  BY <1>0, <1>2 DEF Pending, HoldsRwlock
<1>4. /\ Performs(args[t].op) /\ LineDone + 1 = line /\ LineDone' = line /\ args[t].line = line
      /\ l \in Lines /\ l.op = args[t].op /\ l.ok
      /\ \A f \in DOMAIN l \ {"op", "ok", "seats"} : args[t][f] = l[f]
      /\ ListDone' = event_list' /\ OutDone' = out'
  BY <1>0, <1>3, PerformsItsLine
<1>5. ListDone = event_list
  BY <1>0, <1>1, AloneValues
<1>6. args[t].op = "show" => args[t].event = l.event
  <2>1. l.op = "show" => DOMAIN l = {"op", "event", "ok"}
    BY <1>4 DEF Lines, LinesRead
  <2>2. QED  BY <1>4, <2>1
<1>7. CASE GiveUp(t)
  <2>1. /\ pc[t] = "lookup" /\ args[t].op = "show" /\ out' = out
        /\ get_event(event_list, l.event) = 0
    BY <1>2, <1>6, <1>7 DEF GiveUp, Found, store, Goto
  <2>2. OutDone = out
    BY <1>1, <2>1, AloneValues
  <2>3. OutDone \o <<>> = OutDone
    <3>1. PICK S : out \in Seq(S)
      BY DEF Lone, Ready, IInv, OutOK
    <3>2. QED  BY <2>2, <3>1
  <2>4. l = input[LineDone + 1] /\ l.ok /\ Performs("show") /\ ListDone' = ListDone
    BY <1>0, <1>4, <1>5, <2>1
  <2>5. get_event(ListDone, l.event) = 0 /\ OutDone' = OutDone
    BY <1>4, <1>5, <2>1, <2>2
  <2>. HIDE DEF l
  <2>6. Alone!ems_show
    BY <2>3, <2>4, <2>5, AloneShows
  <2>7. QED  BY <2>6
<1>8. CASE EndWrite(t)
  <2>1. pc[t] = "write" /\ Writing(t)
    BY <1>1, <1>8 DEF EndWrite, Goto, Lone, SoloInv
  <2>2. /\ out' = OutBefore(t) \o [n \in 1 .. ToWrite(t) |-> Chunk(t, n)]
        /\ ListDone' = ListDone
    BY <1>0, <1>4, <1>5, <1>8, <2>1, WritingEnds DEF Lone
  <2>3. OutDone = OutBefore(t)
    BY <1>1, <2>1, AloneValues DEF OutBefore
  <2>4. CASE args[t].op = "show"
    <3>. DEFINE p == args[t].p
    <3>1. p \in DOMAIN event_list /\ event_list[p].id = l.event
      BY <1>6, <2>1, <2>4 DEF Writing, Event
    <3>2. get_event(ListDone, l.event) = p /\ p # 0
      BY <1>1, <1>5, <3>1, LookupTheEvent
    <3>3. [n \in 1 .. ToWrite(t) |-> Chunk(t, n)]
            = [n \in 1 .. ListDone[p].rows |->
                 [line |-> LineDone', row |-> Row(ListDone[p], n)]]
      BY <1>4, <1>5, <2>4 DEF ToWrite, Chunk, Event
    <3>4. l = input[LineDone + 1] /\ l.ok /\ Performs("show")
      BY <1>4, <2>4
    <3>. HIDE DEF l, p
    <3>5. OutDone' = OutDone \o (IF p = 0 THEN <<>>
                                 ELSE [n \in 1 .. ListDone[p].rows |->
                                         [line |-> LineDone', row |-> Row(ListDone[p], n)]])
      BY <1>4, <2>2, <2>3, <3>2, <3>3
    <3>6. Alone!ems_show
      BY <2>2, <3>2, <3>4, <3>5, AloneShows
    <3>7. QED  BY <3>6
  <2>5. CASE args[t].op = "list"
    <3>1. DOMAIN event_list = 1 .. Len(event_list)
      BY <1>1
    <3>2. [n \in 1 .. ToWrite(t) |-> Chunk(t, n)]
            = [n \in DOMAIN ListDone |-> [line |-> LineDone', id |-> ListDone[n].id]]
      BY <1>4, <1>5, <2>5, <3>1 DEF ToWrite, Chunk
    <3>3. Performs("list")
      BY <1>4, <2>5
    <3>4. OutDone' = OutDone \o [n \in DOMAIN ListDone |->
                                  [line |-> LineDone', id |-> ListDone[n].id]]
      BY <1>4, <2>2, <2>3, <3>2
    <3>5. Alone!ems_list_events
      BY <2>2, <3>3, <3>4, AloneLists
    <3>6. QED  BY <3>5
  <2>6. QED  BY <1>2, <2>4, <2>5
<1>9. QED
  BY <1>7, <1>8

LEMMA WaitsAlone ==
  ASSUME Lone, NULL \notin Seq(Events), NEW t \in Threads, WaitAll(t) \/ SetWait(t)
  PROVE  Alone!ems_wait
<1>. DEFINE l == input[line]
<1>0. Thread(t) /\ pc[t] = "set_wait" /\ UNCHANGED <<line, event_list>>
  BY DEF Thread, Read, WaitAll, SetWait, Goto, file, store
<1>1. t = 0 /\ IsAlone /\ pc \in [Threads -> Places]
  BY <1>0, LoneFrame DEF Lone
<1>2. pc'[t] \in {"sleep_all", "check"} /\ args[t].op = "wait"
  <2>1. args[t].op = "wait"
    BY <1>0 DEF Lone, Ready, LineInv
  <2>2. QED  BY <1>1, <2>1, GotoMoves DEF WaitAll, SetWait
<1>3. Pending(t) /\ ~ Pending(t)'
  BY <1>0, <1>2 DEF Pending, HoldsRwlock
<1>4. /\ Performs("wait") /\ LineDone + 1 = line /\ LineDone' = line /\ args[t].line = line
      /\ l \in Lines /\ l.op = "wait" /\ l.ok /\ l.thread = 0
      /\ \A f \in DOMAIN l \ {"op", "ok", "seats"} : args[t][f] = l[f]
      /\ ListDone' = event_list' /\ OutDone' = out'
  BY <1>0, <1>2, <1>3, PerformsItsLine
<1>5. ListDone' = ListDone /\ OutDone = out
  BY <1>0, <1>1, <1>4, AloneValues
<1>6. args[t].delay = l.delay /\ args[t].thread = 0
  <2>1. DOMAIN l = {"op", "delay", "thread", "ok"}
    BY <1>4 DEF Lines, LinesRead
  <2>2. QED  BY <1>4, <2>1
<1>7. l = input[LineDone + 1]
  BY <1>4
<1>8. PICK S : out \in Seq(S)
  BY DEF Lone, Ready, IInv, OutOK
<1>9. CASE WaitAll(t)
  <2>. DEFINE m == [line |-> LineDone', text |-> "Waiting"]
  <2>1. out' = Append(out, m) /\ l.delay > 0
    BY <1>4, <1>6, <1>9 DEF WaitAll
  <2>. HIDE DEF l, m
  <2>2. Append(out, m) = out \o <<m>>
    BY <1>8
  <2>3. OutDone' = OutDone \o (IF l.ok /\ l.delay > 0 THEN <<m>> ELSE <<>>)
    BY <1>4, <1>5, <2>1, <2>2
  <2>4. QED  BY <1>4, <1>5, <1>7, <2>3, AloneWaits DEF m
<1>10. CASE SetWait(t)
  <2>1. ~ l.delay > 0 /\ out' = out
    <3>1. l.delay = 0 \/ FALSE
      BY <1>6, <1>10 DEF SetWait
    <3>2. QED  BY <1>10, <3>1 DEF SetWait, store
  <2>. HIDE DEF l
  <2>2. out \o <<>> = out
    BY <1>8
  <2>3. OutDone' = OutDone \o (IF l.ok /\ l.delay > 0
                               THEN <<[line |-> LineDone', text |-> "Waiting"]>> ELSE <<>>)
    BY <1>4, <1>5, <2>1, <2>2
  <2>4. QED  BY <1>4, <1>5, <1>7, <2>3, AloneWaits
<1>11. QED
  BY <1>9, <1>10

LEMMA IgnoresAlone ==
  ASSUME Lone, NULL \notin Seq(Events), NEW t \in Threads,
         GetSkip(t) \/ (GetWholeLine(t) /\ input[line + 1].op = "barrier")
  PROVE  Alone!Ignore
<1>0. /\ Thread(t) /\ pc[t] = "get_next" /\ UNCHANGED <<event_list, out>> /\ line' = line + 1
      /\ ~ EndOfFile
  BY DEF Thread, Read, GetSkip, GetWholeLine, Goto, store
<1>1. /\ t = 0 /\ IsAlone /\ IsAlone' /\ input' = input /\ main.pc # "done"
      /\ pc \in [Threads -> Places]
  BY <1>0, LoneFrame DEF Lone
<1>2. ~ half_read /\ line < Len(input)
  BY <1>0, WholeLines DEF Lone, Ready
<1>3. pc'[t] \in {"check", "barrier"} /\ input[line + 1].op \in {"skip", "barrier"}
  BY <1>1, <1>2, GotoMoves DEF GetSkip, GetWholeLine
<1>4. ~ Pending(0) /\ ~ Pending(0)'
  BY <1>0, <1>1, <1>3 DEF Pending, HoldsRwlock
<1>5. /\ LineDone = line /\ LineDone' = line + 1
      /\ ListDone = event_list /\ ListDone' = event_list
      /\ OutDone = out /\ OutDone' = out
  <2>1. pc[0] \notin {"seat", "write"} /\ pc'[0] \notin {"seat", "write"}
    BY <1>0, <1>1, <1>3
  <2>2. QED  BY <1>0, <1>1, <1>4, <2>1, AloneValues, AloneValuesNext
<1>6. ListDone # NULL
  BY <1>1, LoneList DEF Lone
<1>7. Performs("skip") \/ Performs("barrier")
  BY <1>1, <1>2, <1>3, <1>5, <1>6 DEF Performs
<1>8. QED
  BY <1>5, <1>7, AloneIgnores

\* The steps before a line is read and after it was executed.
LEMMA OutsideSteps ==
  ASSUME Lone, NEW t \in Threads,
         \/ CheckFlag(t) \/ StartWait(t) \/ EndWait(t) \/ LockInput(t) \/ GetEOC(t)
         \/ GetCommand(t) \/ BarrierLine(t) \/ EndWaitAll(t)
  PROVE  UNCHANGED Alone!vars
<1>1. Thread(t) /\ pc \in [Threads -> Places]
  BY DEF Thread, Read, Lone, Ready, IInv, TypeOK
<1>2. /\ UNCHANGED <<line, event_list, out>>
      /\ pc[t] \notin {"set_wait", "wrlock"} \cup HoldsRwlock
      /\ pc'[t] \notin {"set_wait", "wrlock"} \cup HoldsRwlock
  <2>1. CASE CheckFlag(t) \/ StartWait(t) \/ EndWait(t) \/ LockInput(t)
    BY <1>1, <2>1, GotoMoves DEF CheckFlag, StartWait, EndWait, LockInput, file, store,
                                 HoldsRwlock
  <2>2. CASE GetEOC(t) \/ GetCommand(t) \/ BarrierLine(t) \/ EndWaitAll(t)
    BY <1>1, <2>2, GotoMoves DEF GetEOC, GetCommand, BarrierLine, EndWaitAll, file, store,
                                 HoldsRwlock
  <2>3. QED  BY <2>1, <2>2
<1>3. ~ Pending(t) /\ ~ Pending(t)'
  BY <1>2 DEF Pending
<1>4. QED
  BY <1>1, <1>2, <1>3, StaysOutside

\* Reading a line does not execute it.
LEMMA ReadingStutters ==
  ASSUME Lone, NEW t \in Threads,
         Parse(t) \/ (GetWholeLine(t) /\ input[line + 1].op = "list")
  PROVE  UNCHANGED Alone!vars
<1>0. Thread(t) /\ UNCHANGED <<event_list, out>> /\ line' = line + 1
  BY DEF Thread, Read, Parse, GetWholeLine, store
<1>1. /\ t = 0 /\ IsAlone /\ IsAlone' /\ input' = input /\ pc \in [Threads -> Places]
      /\ line \in Nat
  BY <1>0, LoneFrame DEF Lone
<1>2. pc[t] \in {"get_next", "parse"} /\ pc'[t] \in {"set_wait", "wrlock"}
  BY <1>1, GotoMoves DEF Parse, GetWholeLine, Goto
<1>3. /\ ~ Pending(0) /\ Pending(0)'
      /\ pc[0] \notin {"seat", "write"} /\ pc'[0] \notin {"seat", "write"}
  BY <1>1, <1>2 DEF Pending, HoldsRwlock
<1>4. LineDone = line /\ LineDone' = line
  BY <1>0, <1>1, <1>3, AloneValues, AloneValuesNext
<1>5. ListDone' = ListDone /\ OutDone' = OutDone
  BY <1>0, <1>1, <1>3, AloneValues, AloneValuesNext
<1>6. QED
  BY <1>1, <1>4, <1>5, AloneStutters

\* What an operation does before it ends does not count yet.
LEMMA PendingSteps ==
  ASSUME Lone, NEW t \in Threads,
         \/ TakeRwlock(t) \/ StartCreate(t) \/ StartReserve(t) \/ ReserveSeat(t)
         \/ StartShow(t) \/ WriteNext(t)
  PROVE  UNCHANGED Alone!vars
<1>0. Thread(t) /\ line' = line
  BY DEF Thread, Operate, TakeRwlock, StartCreate, StartReserve, ReserveSeat, StartShow,
         WriteNext, file
<1>1. /\ t = 0 /\ IsAlone /\ IsAlone' /\ input' = input /\ pc \in [Threads -> Places]
      /\ num_threads = 1 /\ event_list \in Seq(Events)
  BY <1>0, LoneFrame, AloneMeans DEF Lone
<1>2. Pending(t) /\ Pending(t)'
  BY <1>1, GotoMoves DEF Pending, HoldsRwlock, TakeRwlock, StartCreate, StartReserve,
     ReserveSeat, StartShow, WriteNext, Goto
<1>3. CASE TakeRwlock(t) \/ StartCreate(t)
  <2>1. /\ pc[0] \notin {"seat", "write"} /\ pc'[0] \notin {"seat", "write"}
        /\ UNCHANGED <<event_list, out>>
    BY <1>1, <1>3, GotoMoves DEF TakeRwlock, StartCreate, store
  <2>2. ListDone' = ListDone /\ OutDone' = OutDone
    BY <1>1, <2>1, AloneValues, AloneValuesNext
  <2>3. QED  BY <1>0, <1>2, <2>2, StaysPending
<1>4. CASE StartReserve(t)
  <2>. DEFINE p == Found(t)
  <2>1. /\ Before(t)' = event_list[p] /\ args'[t].p = p
        /\ p \in DOMAIN event_list /\ pc[t] = "lookup" /\ pc'[t] = "seat"
        /\ event_list' = [event_list EXCEPT ![p] = Counted(event_list[p])]
    BY <1>4, TakingStarts DEF Lone
  <2>2. out' = out
    BY <1>4 DEF StartReserve
  <2>. HIDE DEF p
  <2>3. ListDone = event_list /\ OutDone = out /\ OutDone' = out'
    BY <1>1, <2>1, AloneValues, AloneValuesNext
  <2>4. ListDone' = [event_list' EXCEPT ![p] = Before(t)']
    BY <1>1, <2>1, AloneValuesNext DEF Before, Event
  <2>5. ListDone' = event_list
    BY <1>1, <2>1, <2>4
  <2>6. QED  BY <1>0, <1>2, <2>2, <2>3, <2>5, StaysPending
<1>5. CASE ReserveSeat(t)
  <2>. DEFINE p == args[t].p
  <2>1. Taking(t) /\ pc[t] = "seat"
    BY <1>1, <1>5 DEF ReserveSeat, Lone, SoloInv
  <2>2. /\ Before(t)' = Before(t) /\ args'[t].p = p /\ p \in DOMAIN event_list /\ pc' = pc
        /\ event_list' = [event_list EXCEPT ![p] = Event(t)']
    BY <1>5, <2>1, TakingGoesOn DEF Lone
  <2>3. out' = out
    BY <1>5 DEF ReserveSeat
  <2>4. ListDone = [event_list EXCEPT ![p] = Before(t)]
    BY <1>1, <2>1, <2>2, AloneValues DEF Before, Event
  <2>5. ListDone' = [event_list' EXCEPT ![p] = Before(t)']
    BY <1>1, <2>1, <2>2, AloneValuesNext DEF Before, Event
  <2>. HIDE DEF p
  <2>6. ListDone' = ListDone
    BY <1>1, <2>2, <2>4, <2>5
  <2>7. OutDone' = OutDone
    BY <1>1, <2>1, <2>2, <2>3, AloneValues, AloneValuesNext
  <2>8. QED  BY <1>0, <1>2, <2>6, <2>7, StaysPending
<1>6. CASE StartShow(t)
  <2>1. /\ OutBefore(t)' = out /\ out' = out /\ event_list' = event_list
        /\ pc[t] = "lookup" /\ pc'[t] = "write"
    BY <1>6, WritingStarts DEF Lone
  <2>2. ListDone' = ListDone /\ OutDone = out
    BY <1>1, <2>1, AloneValues, AloneValuesNext
  <2>3. OutDone' = OutBefore(t)'
    BY <1>1, <2>1, AloneValuesNext DEF OutBefore
  <2>4. QED  BY <1>0, <1>2, <2>1, <2>2, <2>3, StaysPending
<1>7. CASE WriteNext(t)
  <2>1. Writing(t) /\ pc[t] = "write"
    BY <1>1, <1>7 DEF WriteNext, Lone, SoloInv
  <2>2. OutBefore(t)' = OutBefore(t) /\ event_list' = event_list /\ pc' = pc
    BY <1>7, <2>1, WritingGoesOn DEF Lone
  <2>3. OutDone = OutBefore(t)
    BY <1>1, <2>1, AloneValues DEF OutBefore
  <2>4. OutDone' = OutBefore(t)'
    BY <1>1, <2>1, <2>2, AloneValuesNext DEF OutBefore
  <2>5. ListDone' = ListDone
    BY <1>1, <2>1, <2>2, AloneValues, AloneValuesNext
  <2>6. QED  BY <1>0, <1>2, <2>2, <2>3, <2>4, <2>5, StaysPending
<1>8. QED
  BY <1>3, <1>4, <1>5, <1>6, <1>7

LEMMA AloneThread ==
  ASSUME Lone, NULL \notin Seq(Events), NEW t \in Threads, Thread(t)
  PROVE  Alone!Next \/ UNCHANGED Alone!vars
<1>1. CASE Operate(t)
  <2>1. GiveUp(t) => args[t].op \in {"create", "reserve", "show"}
    BY DEF GiveUp
  <2>2. QED
    BY <1>1, <2>1, PendingSteps, CreatesAlone, ReservesAlone, WritesAlone
    DEF Operate, Alone!Next
<1>2. CASE Read(t)
  <2>1. GetWholeLine(t) => input[line + 1].op \in {"list", "barrier"}
    BY DEF GetWholeLine
  <2>2. QED
    BY <1>2, <2>1, OutsideSteps, ReadingStutters, WaitsAlone, IgnoresAlone
    DEF Read, Alone!Next
<1>3. QED
  BY <1>1, <1>2 DEF Thread

LEMMA AloneMain ==
  ASSUME Lone, NULL \notin Seq(Events), Main
  PROVE  Alone!Next \/ UNCHANGED Alone!vars
<1>1. num_threads = 1 /\ IsAlone
  BY AloneMeans DEF Lone
<1>2. /\ pc[0] \in Gone /\ pc'[0] \in Gone \cup {"check"}
      /\ UNCHANGED <<num_threads, input, line, out>>
      /\ event_list' = event_list \/ (EndRound /\ event_list' = NULL /\ main.exitFlag = 0)
  BY <1>1, SoloMain DEF Lone, Ready
<1>3. IsAlone'
  BY <1>1, <1>2, AloneMeans
<1>4. /\ ~ Pending(0) /\ ~ Pending(0)'
      /\ pc[0] \notin {"seat", "write"} /\ pc'[0] \notin {"seat", "write"}
  BY <1>2 DEF Pending, HoldsRwlock, Gone
<1>5. /\ LineDone = line /\ LineDone' = line /\ OutDone = out /\ OutDone' = out
      /\ ListDone = event_list /\ ListDone' = event_list'
  BY <1>1, <1>2, <1>3, <1>4, AloneValues, AloneValuesNext
<1>6. CASE event_list' = event_list
  BY <1>2, <1>5, <1>6, AloneStutters
<1>7. CASE EndRound /\ event_list' = NULL /\ main.exitFlag = 0
  <2>1. event_list # NULL
    BY <1>7 DEF EndRound, Lone, Ready, StoreInv
  <2>2. line = Len(input)
    BY <1>7 DEF Lone, EndInv, EndOfFile
  <2>3. Alone!ems_terminate
    BY <1>2, <1>5, <1>7, <2>1, <2>2, AloneTerminates
  <2>4. QED  BY <2>3 DEF Alone!Next
<1>8. QED
  BY <1>2, <1>6, <1>7

\* The programs that are not mapped to a run of Ex1 do not start.
LEMMA NotAlone ==
  ASSUME ~ IsAlone, UNCHANGED <<num_threads, input>>
  PROVE  UNCHANGED Alone!vars
BY AloneMeans, AloneValues, AloneValuesNext, AloneStutters

LEMMA AloneStarts ==
  ASSUME Init
  PROVE  Alone!Init
<1>1. /\ input \in {p[2] : p \in Programs} /\ line = 0 /\ event_list = <<>> /\ out = <<>>
  BY DEF Init
<1>2. IsAlone => pc[0] = "none"
  BY AloneMeans DEF Init, Threads
<1>3. LineDone = 0 /\ ListDone = <<>> /\ OutDone = <<>>
  <2>1. IsAlone => ~ Pending(0)
    BY <1>2 DEF Pending, HoldsRwlock
  <2>2. QED  BY <1>1, <1>2, <2>1, AloneValues
<1>4. QED
  BY <1>1, <1>3 DEF Alone!Init, LineDone, ListDone, OutDone

\* With one thread and a file of valid lines the program of Ex3 does what the
\* program of Ex1 does: ems_create, ems_reserve, ems_show, ems_list_events and
\* ems_wait of Ex3 take effect as a whole when they end, one line after the
\* other, and ems_terminate comes after the last one.  NULL is no list.
THEOREM OneThreadIsSequential ==
  ASSUME NULL \notin Seq(Events)
  PROVE  Spec => SequentialWithOneThread
<1>1. Init => Alone!Init
  BY AloneStarts
<1>2. IInv /\ LineInv /\ SeatsInv /\ StoreInv /\ EndInv /\ RequestInv /\ SoloInv /\ [Next]_vars
        => [Alone!Next]_Alone!vars
  <2>1. SUFFICES ASSUME Ready, EndInv, RequestInv, SoloInv, [Next]_vars
                 PROVE  Alone!Next \/ UNCHANGED Alone!vars
    BY DEF Ready
  <2>2. CASE IsAlone
    <3>1. Lone
      BY <2>1, <2>2 DEF Lone
    <3>2. CASE UNCHANGED vars
      <4>1. /\ UNCHANGED <<num_threads, input, line, event_list, out, pc, args>>
        BY <3>2 DEF vars, file, start, store
      <4>2. LineDone' = LineDone /\ ListDone' = ListDone /\ OutDone' = OutDone
        <5>1. IsAlone' /\ (Pending(0)' <=> Pending(0))
          BY <2>2, <4>1, AloneMeans DEF Pending
        <5>2. QED  BY <2>2, <4>1, <5>1, AloneValues, AloneValuesNext
      <4>3. QED  BY <4>1, <4>2, AloneStutters
    <3>3. QED
      BY <2>1, <3>1, <3>2, AloneThread, AloneMain DEF Next, Finished
  <2>3. CASE ~ IsAlone
    <3>1. UNCHANGED <<num_threads, input>>
      <4>1. CASE UNCHANGED vars
        BY <4>1 DEF vars, file, start
      <4>2. CASE \E t \in Threads : Thread(t)
        BY <2>1, <4>2, ThreadStep DEF Ready, Moves
      <4>3. CASE Main
        BY <4>3 DEF Main, SetList, SetId, CreateThread, JoinThread, EndRound, file, start
      <4>4. QED  BY <2>1, <4>1, <4>2, <4>3 DEF Next, Finished
    <3>2. QED  BY <2>3, <3>1, NotAlone
  <2>4. QED  BY <2>2, <2>3
<1>3. QED
  BY <1>1, <1>2, InvHolds, LineHolds, SeatsHold, StoreHolds, EndHolds, RequestHolds, SoloHolds,
     PTL DEF Spec, SequentialWithOneThread, Alone!Spec
===============================================================================
