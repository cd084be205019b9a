----------------------------- MODULE JobProcesses -----------------------------
(***************************************************************************)
(* The pool of processes of Proj1/Ex2 and Ex3: main forks one child for    *)
(* each .jobs file of the directory and keeps at most max_proc of them     *)
(* running.  The two programs have the same loop; the lines are those of   *)
(* Ex3/main3.c.                                                            *)
(*                                                                         *)
(* A child that cannot open its files does not exit: it continues the loop *)
(* over the directory with its own copy of every variable, and becomes a   *)
(* parent itself.  active_processes is unsigned, so it wraps; its width is *)
(* a parameter.  ProcessLimit is the number of processes the system        *)
(* permits: beyond it fork fails; it may fail before.                      *)
(***************************************************************************)
EXTENDS Integers, FiniteSets

CONSTANTS
  NumFiles,     \* .jobs files in the directory, in the order of readdir
  MayBreak,     \* those of which some may be impossible to open, or their .out
  max_proc,
  UINT_MAX,
  ProcessLimit

ASSUME FilesAssumption ==
  NumFiles \in Nat /\ MayBreak \subseteq 1 .. NumFiles
ASSUME UnsignedAssumption == UINT_MAX \in Nat /\ max_proc \in 0 .. UINT_MAX
ASSUME LimitAssumption == ProcessLimit \in Nat \ {0}

Processes == 1 .. ProcessLimit
root == 1      \* the process the user started
init == 0      \* the parent of an orphan

VARIABLES
  broken,       \* the files that cannot be opened
  pc,           \* where each process is; "none" if there is no such process
  entry,        \* the directory entry it read last
  active_processes,
  parent,
  status,       \* how main ended; "failure" too if a child's fork failed
  handled       \* how often each file was processed

vars == <<broken, pc, entry, active_processes, parent, status, handled>>

Children(p) == {c \in Processes : pc[c] # "none" /\ parent[c] = p}
Zombies(p)  == {c \in Children(p) : pc[c] = "zombie"}

Goto(p, from, to) == pc[p] = from /\ pc' = [pc EXCEPT ![p] = to]

Increment(n) == (n + 1) % (UINT_MAX + 1)
Decrement(n) == (n + UINT_MAX) % (UINT_MAX + 1)

\* p ends: its zombies vanish with it and its other children go to init,
\* which reaps them.  Only the end of a child of p itself is left to see.
Exits(p) ==
  LET gone == Zombies(p) \cup (IF parent[p] \in Processes THEN {} ELSE {p})
  IN  /\ pc' = [c \in Processes |->
           IF p = root /\ c = root THEN "exited"
           ELSE IF c \in gone THEN "none"
           ELSE IF c = p THEN "zombie" ELSE pc[c]]
      /\ parent' = [c \in Processes |->
           IF c \in Children(p) THEN init ELSE parent[c]]

Init ==
  /\ broken \in SUBSET MayBreak
  /\ pc = [p \in Processes |-> IF p = root THEN "readdir" ELSE "none"]
  /\ entry = [p \in Processes |-> 0]
  /\ active_processes = [p \in Processes |-> 0]
  /\ parent = [p \in Processes |-> init]
  /\ status = "running"
  /\ handled = [f \in 1 .. NumFiles |-> 0]

-----------------------------------------------------------------------------
ReadDir(p) ==
  /\ pc[p] = "readdir"
  /\ IF entry[p] < NumFiles
     THEN Goto(p, "readdir", "limit") /\ entry' = [entry EXCEPT ![p] = @ + 1]
     ELSE Goto(p, "readdir", "drain") /\ UNCHANGED entry
  /\ UNCHANGED <<broken, active_processes, parent, status, handled>>

\* Mutant: the child that is waited for is still counted.
Waits_KeepsCount(p) ==
  /\ \/ Children(p) = {} /\ UNCHANGED pc
     \/ \E c \in Zombies(p) : pc' = [pc EXCEPT ![c] = "none"]
  /\ UNCHANGED active_processes

\* wait: reaps a child that ended, blocks while all of them run, and returns
\* -1 without any.  Its caller counts one process less in either case.
Waits(p) ==
  /\ \/ Children(p) = {} /\ UNCHANGED pc
     \/ \E c \in Zombies(p) : pc' = [pc EXCEPT ![c] = "none"]
  /\ active_processes' = [active_processes EXCEPT ![p] = Decrement(@)]

\* Mutant: the pool admits one process more.
AtLimit_OffByOne(p) == active_processes[p] = max_proc + 1

AtLimit(p) == active_processes[p] = max_proc

\* Mutant: after the wait the loop goes on with the next file.
Limit_SkipsFile(p) ==
  /\ pc[p] = "limit"
  /\ IF AtLimit(p)
     THEN /\ \/ Children(p) = {} /\ Goto(p, "limit", "readdir")
             \/ \E c \in Zombies(p) : pc' = [pc EXCEPT ![c] = "none", ![p] = "readdir"]
          /\ active_processes' = [active_processes EXCEPT ![p] = Decrement(@)]
     ELSE Goto(p, "limit", "fork") /\ UNCHANGED active_processes
  /\ UNCHANGED <<broken, entry, parent, status, handled>>

Limit(p) ==
  /\ pc[p] = "limit"
  /\ IF AtLimit(p) THEN Waits(p)
     ELSE Goto(p, "limit", "fork") /\ UNCHANGED active_processes
  /\ UNCHANGED <<broken, entry, parent, status, handled>>

\* The child has a copy of everything; both processes count it.
Fork(p) ==
  /\ pc[p] = "fork"
  /\ \E c \in {q \in Processes : pc[q] = "none"} :
       /\ \A q \in Processes : pc[q] = "none" => c <= q
       /\ pc' = [pc EXCEPT ![p] = "poll", ![c] = "open"]
       /\ entry' = [entry EXCEPT ![c] = entry[p]]
       /\ active_processes' = [active_processes EXCEPT
            ![p] = Increment(@), ![c] = Increment(active_processes[p])]
       /\ parent' = [parent EXCEPT ![c] = p]
  /\ UNCHANGED <<broken, status, handled>>

\* fork may fail at any time, for want of memory or of a process.
ForkFails(p) ==
  /\ pc[p] = "fork"
  /\ Exits(p)
  /\ status' = "failure"
  /\ UNCHANGED <<broken, entry, active_processes, handled>>

\* The child opens its files; if it cannot, it goes on with the directory.
Open(p) ==
  /\ Goto(p, "open", IF entry[p] \in broken THEN "readdir" ELSE "process")
  /\ UNCHANGED <<broken, entry, active_processes, parent, status, handled>>

\* The child processes its file and exits.
Process(p) ==
  /\ pc[p] = "process"
  /\ handled' = [handled EXCEPT ![entry[p]] = @ + 1]
  /\ Exits(p)
  /\ UNCHANGED <<broken, entry, active_processes, status>>

\* Mutant: a child that is reaped here is still counted.
Poll_KeepsCount(p) ==
  /\ pc[p] = "poll"
  /\ IF Zombies(p) = {}
     THEN Goto(p, "poll", "readdir")
     ELSE \E c \in Zombies(p) : pc' = [pc EXCEPT ![p] = "readdir", ![c] = "none"]
  /\ UNCHANGED <<broken, entry, active_processes, parent, status, handled>>

\* waitpid with WNOHANG, after each fork
Poll(p) ==
  /\ pc[p] = "poll"
  /\ IF Zombies(p) = {}
     THEN Goto(p, "poll", "readdir") /\ UNCHANGED active_processes
     ELSE /\ \E c \in Zombies(p) : pc' = [pc EXCEPT ![p] = "readdir", ![c] = "none"]
          /\ active_processes' = [active_processes EXCEPT ![p] = Decrement(@)]
  /\ UNCHANGED <<broken, entry, parent, status, handled>>

\* Mutant: the last child is not waited for.
MoreToWaitFor_OffByOne(p) == active_processes[p] > 1

MoreToWaitFor(p) == active_processes[p] > 0

\* The loop after the directory, and the end of main.
Drain(p) ==
  /\ pc[p] = "drain" /\ MoreToWaitFor(p)
  /\ Waits(p)
  /\ UNCHANGED <<broken, entry, parent, status, handled>>

Return(p) ==
  /\ pc[p] = "drain" /\ ~ MoreToWaitFor(p)
  /\ Exits(p)
  /\ status' = IF p = root /\ status = "running" THEN "success" ELSE status
  /\ UNCHANGED <<broken, entry, active_processes, handled>>

Run(p) ==
  \/ ReadDir(p) \/ Limit(p) \/ Fork(p) \/ ForkFails(p) \/ Open(p) \/ Process(p)
  \/ Poll(p) \/ Drain(p) \/ Return(p)

Finished == (\A p \in Processes : pc[p] \in {"none", "exited"}) /\ UNCHANGED vars

Next == (\E p \in Processes : Run(p)) \/ Finished

Spec == Init /\ [][Next]_vars

\* The system runs every process.
FairSpec == Spec /\ \A p \in Processes : WF_vars(Run(p))

-----------------------------------------------------------------------------
Places == {"none", "readdir", "limit", "fork", "open", "process", "poll", "drain",
           "zombie", "exited"}

\* The variables have their types, and a process between reading an entry
\* and the next one has one.
TypeOK ==
  /\ pc \in [Processes -> Places]
  /\ broken \subseteq MayBreak
  /\ entry \in [Processes -> 0 .. NumFiles]
  /\ active_processes \in [Processes -> 0 .. UINT_MAX]
  /\ parent \in [Processes -> 0 .. ProcessLimit]
  /\ status \in {"running", "success", "failure"}
  /\ handled \in [1 .. NumFiles -> Nat]
  /\ \A p \in Processes :
       pc[p] \in {"limit", "fork", "open", "process"} => entry[p] \in 1 .. NumFiles

\* active_processes of the first process is the number of its children that
\* were not reaped, so its wait never fails and its count never wraps; a
\* child that took up the loop counts its own children and, besides them,
\* processes that are not its to wait for.
CountsItsChildren ==
  /\ TypeOK
  /\ \A p \in Processes : pc[p] \in {"readdir", "limit", "fork", "drain", "poll"} =>
       /\ Cardinality(Children(p)) <= active_processes[p]
       /\ p = root => Cardinality(Children(p)) = active_processes[p]

\* "Wait for all the processes to finish": the program does not return
\* while a process it started, itself or through a child that took up the
\* loop, is still processing a file, unless a fork failed.
NobodyIsAbandoned ==
  status = "success" => \A p \in Processes : pc[p] \in {"none", "exited"}

\* When all the files can be opened and every fork succeeds, each of them is
\* processed exactly once before the program returns.
EveryFileOnce ==
  broken = {} /\ status = "success" => \A f \in 1 .. NumFiles : handled[f] = 1

Busy == {p \in Processes : pc[p] \in {"open", "process"}}

\* No process has more than max_proc children, the ones it did not wait for
\* included, and while every file can be opened no more than max_proc
\* processes work on one.
PoolIsBounded ==
  /\ \A p \in Processes : Cardinality(Children(p)) <= max_proc
  /\ broken = {} => Cardinality(Busy) <= max_proc

\* The program ends, whatever can be opened and wherever fork fails.
Terminates == <>(pc[root] = "exited")

-----------------------------------------------------------------------------
(* What the comment before the limit loop says, and the program does not   *)
(* do when a file cannot be opened.                                        *)

\* "Verify if the maximum number of processes has been reached": no more than
\* max_proc processes work on a file.
AtMostMaxProc == Cardinality(Busy) <= max_proc
=============================================================================
