------------------------------ MODULE JobThreads ------------------------------
(***************************************************************************)
(* Proj1/Ex3 on one .jobs file: ems_process_with_threads creates           *)
(* num_threads threads and joins them, round after round; a round ends     *)
(* with a BARRIER or at the end of the file.  ems_process_thread reads a   *)
(* line under mutex and executes it under rwlock, which every operation    *)
(* takes for writing.                                                      *)
(*                                                                         *)
(* The threads share the file: get_next reads the command of a line, parse *)
(* the rest of it.  A thread is its index in the list of threads.          *)
(***************************************************************************)
EXTENDS JobStore

CONSTANTS
  Programs,     \* <<max_threads, .jobs file>>: how the program is started
  MaxThreads,   \* bound: the largest max_threads
  NULL,         \* event_list after ems_terminate
  NoOne,        \* owner of a lock nobody holds
  Garbage       \* <<event, rows, cols>>: what malloc may leave in ThreadArgs

ASSUME ThreadsAssumption ==
  /\ MaxThreads \in Nat /\ NoOne \notin Nat
  /\ Programs \subseteq (1 .. MaxThreads) \X Seq(Lines)
  /\ Garbage \subseteq Nat \X Nat \X Nat
  /\ Unread \notin Seq(Nat \X Nat)

VARIABLES
  num_threads,  \* max_threads, the argument of the program
  input,        \* the lines of the file
  line,         \* how many of them were read
  half_read,    \* the command of the next line was read, the rest was not
  event_list,
  out,          \* what was written to the .out file, with the line that wrote it
  BARRIER_FLAG,
  mutex,        \* the thread that holds it, or NoOne
  rwlock,       \* the thread that holds it for writing, or NoOne
  id,           \* threads[i].id, -1 before it is set
  wait,         \* threads[i].wait
  pc,           \* where each thread is
  args,         \* its ThreadArgs and the locals of the operation it executes
  id_thread,    \* the next thread id
  main          \* ems_process_with_threads: where it is, i, exitFlag

Threads == 0 .. num_threads - 1

start == <<num_threads, input>>
file  == <<start, line, half_read>>
store == <<event_list, out>>
locks == <<mutex, rwlock>>
list  == <<id, wait>>
vars  == <<file, store, BARRIER_FLAG, locks, list, pc, args, id_thread, main>>

Goto(t, from, to) == pc[t] = from /\ pc' = [pc EXCEPT ![t] = to]
Set(t, new) ==
  args' = [args EXCEPT ![t] =
             [f \in DOMAIN @ |-> IF f \in DOMAIN new THEN new[f] ELSE @[f]]]

Lock(t)   == mutex = NoOne /\ mutex' = t /\ UNCHANGED rwlock
Unlock(t) == mutex' = NoOne /\ UNCHANGED rwlock
WrLock(t) == rwlock = NoOne /\ rwlock' = t /\ UNCHANGED mutex
RwUnlock(t) == rwlock' = NoOne /\ UNCHANGED mutex

\* The index of the thread with the id; 0 when there is none.
get_index_thread(i) ==
  IF \E t \in Threads : id[t] = i
  THEN CHOOSE t \in Threads : id[t] = i /\ \A u \in 0 .. t - 1 : id[u] # i
  ELSE 0

\* Fresh ThreadArgs, with garbage in the fields a line would set.
NewArgs(g, thread_id) ==
  [op |-> "none", line |-> 0, current_thread_id |-> thread_id, return_value |-> 0,
   event |-> g[1], rows |-> g[2], cols |-> g[3], seats |-> <<>>,
   delay |-> 0, thread |-> 0, sleep |-> 0, p |-> 0, i |-> 0]

\* parse_reserve sorts the seats by row and then again by column.
Precedes(a, b) == a[2] < b[2] \/ (a[2] = b[2] /\ a[1] < b[1])
Rank(seats, j) ==
  Cardinality({k \in DOMAIN seats : \/ Precedes(seats[k], seats[j])
                                    \/ seats[k] = seats[j] /\ k <= j})
SortSeats(seats) ==
  [n \in DOMAIN seats |-> seats[CHOOSE j \in DOMAIN seats : Rank(seats, j) = n]]

-----------------------------------------------------------------------------
Init ==
  /\ \E p \in Programs : num_threads = p[1] /\ input = p[2]
  /\ line = 0 /\ half_read = FALSE
  /\ event_list = <<>> /\ out = <<>>
  /\ BARRIER_FLAG = 1
  /\ mutex = NoOne /\ rwlock = NoOne
  /\ id = [t \in Threads |-> -1]
  /\ wait = [t \in Threads |-> 0]
  /\ pc = [t \in Threads |-> "none"]
  /\ args = [t \in Threads |-> NewArgs(<<0, 0, 0>>, 0)]
  /\ id_thread = 1
  /\ main = [pc |-> "set_list", i |-> 0, exitFlag |-> 1]

-----------------------------------------------------------------------------
(* ems_process_with_threads                                                *)

\* The threads of the round before are gone; the flag is raised again.
SetList ==
  /\ main.pc = "set_list"
  /\ id' = [t \in Threads |-> -1]
  /\ BARRIER_FLAG' = 1
  /\ pc' = [t \in Threads |-> "none"]
  /\ main' = [main EXCEPT !.pc = "set_id", !.i = 0]
  /\ UNCHANGED <<file, store, locks, wait, args, id_thread>>

SetId ==
  /\ main.pc = "set_id"
  /\ id' = [id EXCEPT ![main.i] = id_thread]
  /\ main' = [main EXCEPT !.pc = "create"]
  /\ UNCHANGED <<file, store, BARRIER_FLAG, locks, wait, pc, args, id_thread>>

\* The arguments come from malloc.
CreateThread ==
  /\ main.pc = "create"
  /\ wait' = [wait EXCEPT ![main.i] = 0]
  /\ pc' = [pc EXCEPT ![main.i] = "check"]
  /\ \E g \in Garbage : args' = [args EXCEPT ![main.i] = NewArgs(g, id_thread)]
  /\ id_thread' = id_thread + 1
  /\ main' = [main EXCEPT !.pc = IF main.i + 1 < num_threads THEN "set_id" ELSE "join",
                          !.i = IF @ + 1 < num_threads THEN @ + 1 ELSE 0]
  /\ UNCHANGED <<file, store, BARRIER_FLAG, locks, id>>

\* Mutant: the threads of the round are not joined.
JoinThread_NoWait ==
  /\ main.pc = "join"
  /\ main' = [main EXCEPT
       !.exitFlag = IF pc[main.i] = "exited" /\ args[main.i].return_value = 0
                    THEN 0 ELSE @,
       !.pc = IF main.i + 1 < num_threads THEN "join" ELSE "end",
       !.i = @ + 1]
  /\ UNCHANGED <<file, store, BARRIER_FLAG, locks, list, pc, args, id_thread>>

JoinThread ==
  /\ main.pc = "join" /\ pc[main.i] = "exited"
  /\ main' = [main EXCEPT
       !.exitFlag = IF args[main.i].return_value = 0 THEN 0 ELSE @,
       !.pc = IF main.i + 1 < num_threads THEN "join" ELSE "end",
       !.i = @ + 1]
  /\ UNCHANGED <<file, store, BARRIER_FLAG, locks, list, pc, args, id_thread>>

\* The next round, or ems_terminate when a thread met the end of the file.
EndRound ==
  /\ main.pc = "end"
  /\ IF main.exitFlag = 0
     THEN main' = [main EXCEPT !.pc = "done"] /\ event_list' = NULL
     ELSE main' = [main EXCEPT !.pc = "set_list"] /\ UNCHANGED event_list
  /\ UNCHANGED <<file, out, BARRIER_FLAG, locks, list, pc, args, id_thread>>

Main == SetList \/ SetId \/ CreateThread \/ JoinThread \/ EndRound

-----------------------------------------------------------------------------
(* ems_process_thread: before a line is read                               *)

\* The flag is read under rwlock and used after it was released.
CheckFlag(t) ==
  /\ rwlock = NoOne
  /\ IF BARRIER_FLAG = 0
     THEN Goto(t, "check", "exited") /\ Set(t, [return_value |-> 1])
     ELSE Goto(t, "check", "wait") /\ UNCHANGED args
  /\ UNCHANGED <<file, store, BARRIER_FLAG, locks, list, id_thread, main>>

Own(t) == get_index_thread(args[t].current_thread_id)

StartWait(t) ==
  /\ pc[t] = "wait"
  /\ IF wait[Own(t)] > 0
     THEN Goto(t, "wait", "sleep") /\ Set(t, [sleep |-> wait[Own(t)]])
     ELSE Goto(t, "wait", "lock") /\ UNCHANGED args
  /\ UNCHANGED <<file, store, BARRIER_FLAG, locks, list, id_thread, main>>

EndWait(t) ==
  /\ Goto(t, "sleep", "lock")
  /\ wait' = [wait EXCEPT ![Own(t)] = 0]
  /\ Set(t, [sleep |-> 0])
  /\ UNCHANGED <<file, store, BARRIER_FLAG, locks, id, id_thread, main>>

LockInput(t) ==
  /\ Goto(t, "lock", "get_next") /\ Lock(t)
  /\ UNCHANGED <<file, store, BARRIER_FLAG, list, args, id_thread, main>>

-----------------------------------------------------------------------------
(* Reading a line, with mutex held                                         *)

EndOfFile == line = Len(input) /\ ~ half_read

GetEOC(t) ==
  /\ Goto(t, "get_next", "exited") /\ Unlock(t)
  /\ EndOfFile
  /\ Set(t, [return_value |-> 0])
  /\ UNCHANGED <<file, store, BARRIER_FLAG, list, id_thread, main>>

\* Mutant: mutex is released before the rest of the line is read.
GetCommand_UnlocksEarly(t) ==
  /\ Goto(t, "get_next", "parse") /\ Unlock(t)
  /\ ~ EndOfFile /\ ~ half_read
  /\ input[line + 1].op \in {"create", "reserve", "show", "wait"}
  /\ half_read' = TRUE
  /\ Set(t, [op |-> input[line + 1].op, line |-> line + 1])
  /\ UNCHANGED <<start, line, store, BARRIER_FLAG, list, id_thread, main>>

\* The command of a line that has arguments.
GetCommand(t) ==
  /\ Goto(t, "get_next", "parse")
  /\ ~ EndOfFile /\ ~ half_read
  /\ input[line + 1].op \in {"create", "reserve", "show", "wait"}
  /\ half_read' = TRUE
  /\ Set(t, [op |-> input[line + 1].op, line |-> line + 1])
  /\ UNCHANGED <<start, line, store, BARRIER_FLAG, locks, list, id_thread, main>>

\* LIST and BARRIER are whole lines; BARRIER keeps the mutex.
GetWholeLine(t) ==
  /\ ~ EndOfFile /\ ~ half_read
  /\ input[line + 1].op \in {"list", "barrier"}
  /\ IF input[line + 1].op = "list"
     THEN Goto(t, "get_next", "wrlock") /\ Unlock(t)
     ELSE Goto(t, "get_next", "barrier") /\ UNCHANGED locks
  /\ line' = line + 1
  /\ Set(t, [op |-> input[line + 1].op, line |-> line + 1])
  /\ UNCHANGED <<start, half_read, store, BARRIER_FLAG, list, id_thread, main>>

\* HELP, empty and invalid lines.  The rest of a line is no command either.
GetSkip(t) ==
  /\ Goto(t, "get_next", "check") /\ Unlock(t)
  /\ ~ EndOfFile
  /\ ~ half_read => input[line + 1].op = "skip"
  /\ line' = line + 1 /\ half_read' = FALSE
  /\ UNCHANGED <<start, store, BARRIER_FLAG, list, args, id_thread, main>>

\* What the parser stores, whether it accepts the line or not.
Stored(l) ==
  [f \in {g \in DOMAIN l \ {"op", "ok"} : l[g] # Unread} |->
     IF f = "seats" THEN SortSeats(l[f]) ELSE l[f]]

\* The operation follows even if the parser rejected the line.
Parse(t) ==
  /\ Goto(t, "parse", IF args[t].op = "wait" THEN "set_wait" ELSE "wrlock")
  /\ Unlock(t)
  /\ Set(t, Stored(input[line + 1]))
  /\ line' = line + 1 /\ half_read' = FALSE
  /\ UNCHANGED <<start, store, BARRIER_FLAG, list, id_thread, main>>

\* Mutant: a thread that met a barrier reports the end of the file.
BarrierLine_ReturnsZero(t) ==
  /\ Goto(t, "barrier", "exited") /\ Unlock(t)
  /\ rwlock = NoOne
  /\ BARRIER_FLAG' = 0
  /\ Set(t, [return_value |-> 0])
  /\ UNCHANGED <<file, store, list, id_thread, main>>

\* Mutant: the thread ends with the mutex held.
BarrierLine_KeepsMutex(t) ==
  /\ Goto(t, "barrier", "exited")
  /\ rwlock = NoOne
  /\ BARRIER_FLAG' = 0
  /\ Set(t, [return_value |-> 1])
  /\ UNCHANGED <<file, store, locks, list, id_thread, main>>

\* Mutant: the other threads are not told.
BarrierLine_KeepsFlag(t) ==
  /\ Goto(t, "barrier", "exited") /\ Unlock(t)
  /\ rwlock = NoOne
  /\ Set(t, [return_value |-> 1])
  /\ UNCHANGED <<file, store, BARRIER_FLAG, list, id_thread, main>>

BarrierLine(t) ==
  /\ Goto(t, "barrier", "exited") /\ Unlock(t)
  /\ rwlock = NoOne
  /\ BARRIER_FLAG' = 0
  /\ Set(t, [return_value |-> 1])
  /\ UNCHANGED <<file, store, list, id_thread, main>>

\* WAIT without a thread: the mutex, released after parsing, is taken again.
WaitAll(t) ==
  /\ Goto(t, "set_wait", "sleep_all") /\ Lock(t)
  /\ args[t].delay > 0 /\ args[t].thread = 0
  /\ out' = Append(out, [line |-> args[t].line, text |-> "Waiting"])
  /\ UNCHANGED <<file, event_list, BARRIER_FLAG, list, args, id_thread, main>>

EndWaitAll(t) ==
  /\ Goto(t, "sleep_all", "check") /\ Unlock(t)
  /\ UNCHANGED <<file, store, BARRIER_FLAG, list, args, id_thread, main>>

\* WAIT for a thread: index 0 stands for no such thread.
SetWait(t) ==
  /\ Goto(t, "set_wait", "check")
  /\ args[t].delay = 0 \/ args[t].thread > 0
  /\ LET index == get_index_thread(args[t].thread)
     IN  wait' = IF args[t].delay > 0 /\ index # 0
                 THEN [wait EXCEPT ![index] = args[t].delay] ELSE wait
  /\ UNCHANGED <<file, store, BARRIER_FLAG, locks, id, args, id_thread, main>>

Read(t) ==
  \/ CheckFlag(t) \/ StartWait(t) \/ EndWait(t) \/ LockInput(t)
  \/ GetEOC(t) \/ GetCommand(t) \/ GetWholeLine(t) \/ GetSkip(t) \/ Parse(t)
  \/ BarrierLine(t) \/ WaitAll(t) \/ EndWaitAll(t) \/ SetWait(t)

-----------------------------------------------------------------------------
(* The operations, each from taking rwlock for writing to releasing it     *)

\* Mutant: rwlock is not waited for.
TakeRwlock_NoWait(t) ==
  /\ Goto(t, "wrlock", "lookup")
  /\ rwlock' = t /\ UNCHANGED mutex
  /\ UNCHANGED <<file, store, BARRIER_FLAG, list, args, id_thread, main>>

TakeRwlock(t) ==
  /\ Goto(t, "wrlock", "lookup") /\ WrLock(t)
  /\ UNCHANGED <<file, store, BARRIER_FLAG, list, args, id_thread, main>>

Found(t) == get_event(event_list, args[t].event)

\* The early returns: the event exists already, the event is not found.
GiveUp(t) ==
  /\ Goto(t, "lookup", "check") /\ RwUnlock(t)
  /\ \/ args[t].op = "create" /\ Found(t) # 0
     \/ args[t].op \in {"reserve", "show"} /\ Found(t) = 0
  /\ UNCHANGED <<file, store, BARRIER_FLAG, list, args, id_thread, main>>

StartCreate(t) ==
  /\ Goto(t, "lookup", "append")
  /\ args[t].op = "create" /\ Found(t) = 0
  /\ UNCHANGED <<file, store, BARRIER_FLAG, locks, list, args, id_thread, main>>

AppendEvent(t) ==
  /\ Goto(t, "append", "check") /\ RwUnlock(t)
  /\ event_list' = Append(event_list,
                          NewEvent(args[t].event, args[t].rows, args[t].cols))
  /\ UNCHANGED <<file, out, BARRIER_FLAG, list, args, id_thread, main>>

\* ++event->reservations
StartReserve(t) ==
  /\ Goto(t, "lookup", "seat")
  /\ args[t].op = "reserve" /\ Found(t) # 0
  /\ Set(t, [p |-> Found(t), i |-> 1])
  /\ event_list' = [event_list EXCEPT ![Found(t)].reservations = @ + 1]
  /\ UNCHANGED <<file, out, BARRIER_FLAG, locks, list, id_thread, main>>

Event(t) == event_list[args[t].p]
MoreSeats(t) == args[t].i <= Len(args[t].seats)

ReserveSeat(t) ==
  /\ pc[t] = "seat" /\ MoreSeats(t)
  /\ LET s == args[t].seats[args[t].i]
     IN  /\ Available(Event(t), s)
         /\ event_list' = [event_list EXCEPT
               ![args[t].p] = Taken(@, s, Event(t).reservations)]
  /\ Set(t, [i |-> args[t].i + 1])
  /\ UNCHANGED <<file, out, BARRIER_FLAG, locks, list, pc, id_thread, main>>

\* Mutant: the seats are given back, the number is not.
RollBack_KeepsNumber(t) ==
  /\ Goto(t, "seat", "check") /\ RwUnlock(t)
  /\ MoreSeats(t) /\ ~ Available(Event(t), args[t].seats[args[t].i])
  /\ event_list' = [event_list EXCEPT ![args[t].p] =
        [Rollback(@, args[t].seats, args[t].i - 1) EXCEPT !.reservations = @ + 1]]
  /\ UNCHANGED <<file, out, BARRIER_FLAG, list, args, id_thread, main>>

\* A seat that does not exist or is taken: all that was done is undone.
RollBack(t) ==
  /\ Goto(t, "seat", "check") /\ RwUnlock(t)
  /\ MoreSeats(t) /\ ~ Available(Event(t), args[t].seats[args[t].i])
  /\ event_list' = [event_list EXCEPT
        ![args[t].p] = Rollback(@, args[t].seats, args[t].i - 1)]
  /\ UNCHANGED <<file, out, BARRIER_FLAG, list, args, id_thread, main>>

EndReserve(t) ==
  /\ Goto(t, "seat", "check") /\ RwUnlock(t)
  /\ ~ MoreSeats(t)
  /\ UNCHANGED <<file, store, BARRIER_FLAG, list, args, id_thread, main>>

\* Mutant: rwlock is released after the lookup.
StartShow_Unlocks(t) ==
  /\ Goto(t, "lookup", "write") /\ RwUnlock(t)
  /\ \/ args[t].op = "show" /\ Found(t) # 0
     \/ args[t].op = "list"
  /\ Set(t, [p |-> IF args[t].op = "show" THEN Found(t) ELSE 0, i |-> 1])
  /\ UNCHANGED <<file, store, BARRIER_FLAG, list, id_thread, main>>

StartShow(t) ==
  /\ Goto(t, "lookup", "write")
  /\ \/ args[t].op = "show" /\ Found(t) # 0
     \/ args[t].op = "list"
  /\ Set(t, [p |-> IF args[t].op = "show" THEN Found(t) ELSE 0, i |-> 1])
  /\ UNCHANGED <<file, store, BARRIER_FLAG, locks, list, id_thread, main>>

\* What is left to write: the rows of an event, the identifiers of the list.
MoreToWrite(t) ==
  args[t].i <= IF args[t].op = "show" THEN Event(t).rows ELSE Len(event_list)

WriteNext(t) ==
  /\ pc[t] = "write" /\ MoreToWrite(t)
  /\ LET k == args[t].line i == args[t].i
     IN  out' = Append(out, IF args[t].op = "show"
                            THEN [line |-> k, row |-> Row(Event(t), i)]
                            ELSE [line |-> k, id |-> event_list[i].id])
  /\ Set(t, [i |-> args[t].i + 1])
  /\ UNCHANGED <<file, event_list, BARRIER_FLAG, locks, list, pc, id_thread, main>>

EndWrite(t) ==
  /\ Goto(t, "write", "check") /\ RwUnlock(t)
  /\ ~ MoreToWrite(t)
  /\ UNCHANGED <<file, store, BARRIER_FLAG, list, args, id_thread, main>>

Operate(t) ==
  \/ TakeRwlock(t) \/ GiveUp(t) \/ StartCreate(t) \/ AppendEvent(t)
  \/ StartReserve(t) \/ ReserveSeat(t) \/ RollBack(t) \/ EndReserve(t)
  \/ StartShow(t) \/ WriteNext(t) \/ EndWrite(t)

Thread(t) == Read(t) \/ Operate(t)

\* The process exits.
Finished == main.pc = "done" /\ UNCHANGED vars

Next == Main \/ (\E t \in Threads : Thread(t)) \/ Finished

Spec == Init /\ [][Next]_vars

\* Main and every thread run; a lock that is free again and again is got in
\* the end because the others run out of lines.
FairSpec == /\ Spec /\ WF_vars(Main)
            /\ \A t \in 0 .. MaxThreads - 1 : WF_vars(t \in Threads /\ Thread(t))

-----------------------------------------------------------------------------
(* Type invariant                                                          *)

ReadPlaces   == {"check", "wait", "sleep", "lock", "get_next", "parse", "barrier"}
HoldsRwlock  == {"lookup", "append", "seat", "write"}
\* Between reading a line and the end of its execution.
Executes     == {"set_wait", "sleep_all", "wrlock"} \cup HoldsRwlock
HoldsMutex   == {"get_next", "parse", "barrier", "sleep_all"}

Places == {"none", "exited"} \cup ReadPlaces \cup Executes

\* The variables have their types and a lock is held by the thread that is
\* between taking and releasing it.
TypeOK ==
  /\ <<num_threads, input>> \in Programs
  /\ line \in 0 .. Len(input) /\ half_read \in BOOLEAN
  /\ BARRIER_FLAG \in {0, 1}
  /\ mutex \in Threads \cup {NoOne} /\ rwlock \in Threads \cup {NoOne}
  /\ id \in [Threads -> Int] /\ wait \in [Threads -> Nat]
  /\ pc \in [Threads -> Places]
  /\ \A t \in Threads : (pc[t] \in HoldsMutex <=> mutex = t)
                       /\ (pc[t] \in HoldsRwlock <=> rwlock = t)
  /\ id_thread \in Nat
  /\ main.pc \in {"set_list", "set_id", "create", "join", "end", "done"}

-----------------------------------------------------------------------------
(* Safety                                                                  *)

Executing(t) == pc[t] \in Executes

\* The threads share one file offset, and a line is read in two calls: only
\* the thread that read the command of a line reads the rest of that line.
LinesAreReadWhole ==
  \A t \in Threads :
    pc[t] = "parse" => half_read /\ args[t].line = line + 1
                       /\ args[t].op = input[line + 1].op

\* The process ends only after the whole file was read and every thread has
\* left its operation: whatever the barriers, no line is dropped, and
\* ems_terminate frees the list under nobody's feet.
EndsAfterTheLastLine ==
  main.pc \in {"set_list", "done"} =>
    /\ \A t \in Threads : pc[t] \in {"none", "exited"}
    /\ main.pc = "done" => line = Len(input)

\* The RESERVE lines the parser rejects: they are executed all the same,
\* with no seats, and still count.
RejectedReserves ==
  {k \in DOMAIN input : input[k].op = "reserve" /\ ~ input[k].ok}

\* Between two operations no two events share an identifier, every number in
\* a seat was given to a reservation, and no more numbers are without a seat
\* than there are rejected RESERVE lines: what a failed reservation took,
\* seats and number, is given back before anybody else looks.
StoreConsistent ==
  rwlock = NoOne /\ event_list # NULL =>
    /\ NoDuplicates(event_list)
    /\ \A p \in DOMAIN event_list : LET e == event_list[p]
         IN /\ Numbers(e) \subseteq 1 .. e.reservations
            /\ e.reservations - Cardinality(Numbers(e))
                 <= Cardinality(RejectedReserves)

\* What one SHOW or LIST writes is not torn apart by another one.
OutputIsContiguous ==
  \A a, b, c \in DOMAIN out :
    /\ a < b /\ b < c /\ out[a].line = out[c].line
    /\ input[out[b].line].op # "wait"
    => out[b].line = out[a].line

\* The barriers this round has met.
BarriersMet == {args[t].line : t \in {u \in Threads :
                  pc[u] = "exited" /\ args[u].op = "barrier"}}

\* A thread that passed the check of BARRIER_FLAG reads one more line: of the
\* lines after a barrier each of the other threads reads at most one before
\* all of them meet.
FewLinesPassTheBarrier ==
  \A b \in BarriersMet : line - b <= num_threads - 1

\* A round ends and the file ends: no thread waits forever for a lock, and
\* main joins them all.
Terminates == <>(main.pc = "done")

-----------------------------------------------------------------------------
(* With one thread the program of Ex3 is the program of Ex1                *)

\* A line has an effect when its operation ends: until then it is pending,
\* the seats taken and the rows written so far do not count.
Pending(t) == pc[t] \in {"set_wait", "wrlock"} \cup HoldsRwlock

\* Ex1 has no threads to wait for and ignores the lines the parser rejects.
IsAlone ==
  /\ num_threads = 1
  /\ \A k \in DOMAIN input :
       input[k].ok /\ (input[k].op = "wait" => input[k].thread = 0)

\* The other programs are mapped to a program that never starts.
Alone == INSTANCE SeqJobs WITH
  Inputs <- {p[2] : p \in Programs},
  line <- CASE ~ IsAlone -> 0
            [] IsAlone /\ Pending(0) -> line - 1
            [] OTHER -> line,
  event_list <- CASE ~ IsAlone -> <<>>
                  [] IsAlone /\ pc[0] = "seat" ->
                       [event_list EXCEPT
                          ![args[0].p] = Rollback(@, args[0].seats, args[0].i - 1)]
                  [] OTHER -> event_list,
  out <- CASE ~ IsAlone -> <<>>
           [] IsAlone /\ pc[0] = "write" ->
                SubSeq(out, 1, Len(out) - (args[0].i - 1))
           [] OTHER -> out

\* One thread executes a file of valid lines as Ex1 does, line after line,
\* whatever its barriers: each operation takes effect as a whole.
SequentialWithOneThread == Alone!Spec

-----------------------------------------------------------------------------
(* What a comment of ems_process_thread says, and the program does not do. *)

\* "Wait all threads before the barrier to finish": no line before a BARRIER
\* is executed together with a line after it.
BarrierSeparates ==
  \A t, u \in Threads : Executing(t) /\ Executing(u) =>
    \A b \in args[t].line .. args[u].line : input[b].op # "barrier"
=============================================================================
