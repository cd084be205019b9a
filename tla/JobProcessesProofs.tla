-------------------------- MODULE JobProcessesProofs --------------------------
(***************************************************************************)
(* Proofs about JobProcesses for any number of files and any limits.       *)
(*                                                                         *)
(* max_proc comes from the command line and may be 0: then the wait of the *)
(* first process has no child, its count wraps and its loop is not bounded *)
(* any more.  The theorems about the pool are therefore stated for         *)
(* max_proc > 0, which is what the program is meant for.                   *)
(***************************************************************************)
EXTENDS JobProcesses, FiniteSetTheorems, TLAPS

\* The places of a process that goes on with the directory.
Loop == {"readdir", "limit", "fork", "poll", "drain"}
Live == {p \in Processes : pc[p] # "none"}

\* Each process knows its children, or overestimates them, and only one that
\* is in the loop has any.
CountInv ==
  \A p \in Processes :
    /\ pc[p] \in Loop => /\ Cardinality(Children(p)) <= active_processes[p]
                         /\ active_processes[p] <= max_proc
                         /\ p = root => Cardinality(Children(p)) = active_processes[p]
    /\ pc[p] = "fork" => active_processes[p] < max_proc
    /\ pc[p] = "open" => active_processes[p] <= max_proc
    /\ pc[p] \notin Loop => Children(p) = {}

\* The first process has no parent to wait for it and does nothing but loop.
RootInv ==
  /\ pc[root] \in Loop \cup {"exited"} /\ parent[root] = init
  /\ \A p \in Processes \ {root} : pc[p] # "exited"

\* Until the program ends or a fork fails, the processes form a tree: each
\* but the first has a parent in the loop, and no set of them is closed
\* under taking parents.
TreeInv ==
  status = "running" =>
    /\ pc[root] # "exited"
    /\ \A p \in Live \ {root} : parent[p] \in Processes
    /\ \A S \in SUBSET (Live \ {root}) : S # {} => \E p \in S : parent[p] \notin S

\* The files the first process has forked a child for.
Started(f) == f < entry[root] \/ (f = entry[root] /\ pc[root] \notin {"limit", "fork"})
Working(f) == {p \in Busy : entry[p] = f}

\* If all files can be opened, the first process is the only one that forks,
\* and a file it has forked a child for is being processed or was, once.
FileInv ==
  broken = {} =>
    /\ \A p \in Processes \ {root} : pc[p] \in {"none", "open", "process", "zombie"}
    /\ pc[root] # "exited" => Busy \subseteq Children(root)
    /\ Cardinality(Busy) <= max_proc
    /\ status # "failure" => \A f \in 1 .. NumFiles :
         IF Started(f)
         THEN \/ handled[f] = 1 /\ Working(f) = {}
              \/ handled[f] = 0 /\ \E p \in Processes : Working(f) = {p}
         ELSE handled[f] = 0 /\ Working(f) = {}

\* The loop over the directory was left with all the files read.
EndInv ==
  /\ \A p \in Processes : pc[p] = "drain" => entry[p] = NumFiles
  /\ status # "failure" /\ pc[root] = "exited" => entry[root] = NumFiles

PoolInv == CountInv /\ RootInv /\ TreeInv /\ FileInv /\ EndInv /\ NobodyIsAbandoned

-----------------------------------------------------------------------------
(* The unsigned count.                                                     *)

\* The count stays in its width; it wraps only at the ends.
LEMMA Unsigned ==
  /\ \A n \in 0 .. UINT_MAX : Increment(n) \in 0 .. UINT_MAX /\ Decrement(n) \in 0 .. UINT_MAX
  /\ \A n \in 0 .. UINT_MAX - 1 : Increment(n) = n + 1
  /\ \A n \in 1 .. UINT_MAX : Decrement(n) = n - 1
BY UnsignedAssumption DEF Increment, Decrement

-----------------------------------------------------------------------------
(* Types, whatever max_proc is.                                            *)

LEMMA InitType == Init => TypeOK
BY FilesAssumption, UnsignedAssumption, LimitAssumption
   DEF Init, TypeOK, Places, Processes, init, root

\* Nobody is reaped but zombies, and a process that exits is a zombie, gone,
\* or the first one.
LEMMA ExitsType ==
  ASSUME TypeOK, NEW p \in Processes, Exits(p)
  PROVE  /\ pc' \in [Processes -> Places] /\ parent' \in [Processes -> 0 .. ProcessLimit]
         /\ pc'[p] \in {"none", "zombie", "exited"}
         /\ \A c \in Processes : c # p => pc'[c] = pc[c] \/ pc'[c] = "none"
BY LimitAssumption DEF TypeOK, Exits, Places, init, root, Processes, Zombies, Children

LEMMA StepType ==
  ASSUME TypeOK, NEW p \in Processes, Run(p) PROVE TypeOK'
<1>1. /\ pc \in [Processes -> Places] /\ entry \in [Processes -> 0 .. NumFiles]
      /\ active_processes \in [Processes -> 0 .. UINT_MAX]
      /\ parent \in [Processes -> 0 .. ProcessLimit] /\ handled \in [1 .. NumFiles -> Nat]
      /\ NumFiles \in Nat
  BY FilesAssumption DEF TypeOK
<1>a. /\ Increment(active_processes[p]) \in 0 .. UINT_MAX
      /\ Decrement(active_processes[p]) \in 0 .. UINT_MAX
  BY <1>1, Unsigned
<1>2. CASE ReadDir(p)
  <2>1. entry' \in [Processes -> 0 .. NumFiles] /\ (pc'[p] = "limit" => entry'[p] \in 1 .. NumFiles)
    BY SMTT(60), <1>1, <1>2 DEF ReadDir, Goto
  <2>2. \/ pc' = [pc EXCEPT ![p] = "limit"]
        \/ pc' = [pc EXCEPT ![p] = "drain"]
    BY <1>2 DEF ReadDir, Goto
  <2>3. \A q \in Processes : q # p => entry'[q] = entry[q]
    BY <1>1, <1>2 DEF ReadDir, Goto
  <2> QED
    BY <1>1, <1>2, <2>1, <2>2, <2>3 DEF ReadDir, TypeOK, Places
<1>3. CASE Limit(p)
  <2>1. active_processes' \in [Processes -> 0 .. UINT_MAX]
    BY <1>1, <1>a, <1>3 DEF Limit, Waits
  <2>2. \/ pc' = pc
        \/ \E c \in Processes : pc' = [pc EXCEPT ![c] = "none"]
        \/ pc[p] = "limit" /\ pc' = [pc EXCEPT ![p] = "fork"]
    BY <1>3 DEF Limit, Waits, Goto, Zombies, Children
  <2> QED
    BY <1>1, <1>3, <2>1, <2>2 DEF Limit, TypeOK, Places
<1>4. CASE Fork(p)
  <2>1. PICK c \in Processes :
           /\ pc[c] = "none" /\ pc[p] = "fork"
           /\ pc' = [pc EXCEPT ![p] = "poll", ![c] = "open"]
           /\ entry' = [entry EXCEPT ![c] = entry[p]]
           /\ active_processes' = [active_processes EXCEPT
                ![p] = Increment(@), ![c] = Increment(active_processes[p])]
           /\ parent' = [parent EXCEPT ![c] = p]
    BY <1>4 DEF Fork
  <2>2. entry[p] \in 1 .. NumFiles
    BY <2>1 DEF TypeOK
  <2>3. active_processes' \in [Processes -> 0 .. UINT_MAX]
    BY <1>1, <1>a, <2>1
  <2>4. pc' \in [Processes -> Places] /\ entry' \in [Processes -> 0 .. NumFiles]
    BY <1>1, <2>1, <2>2 DEF Places
  <2>5. parent' \in [Processes -> 0 .. ProcessLimit]
    BY <1>1, <2>1, LimitAssumption DEF Processes
  <2>6. \A q \in Processes :
           pc'[q] \in {"limit", "fork", "open", "process"} => entry'[q] \in 1 .. NumFiles
    BY <1>1, <2>1, <2>2 DEF TypeOK
  <2> QED
    BY <1>4, <2>3, <2>4, <2>5, <2>6 DEF Fork, TypeOK
<1>5. CASE Open(p)
  BY <1>1, <1>5 DEF Open, Goto, TypeOK, Places
<1>6. CASE Poll(p)
  <2>1. active_processes' \in [Processes -> 0 .. UINT_MAX]
    BY <1>1, <1>a, <1>6 DEF Poll
  <2>2. \/ pc' = [pc EXCEPT ![p] = "readdir"]
        \/ \E c \in Processes : pc' = [pc EXCEPT ![p] = "readdir", ![c] = "none"]
    BY <1>6 DEF Poll, Goto, Zombies, Children
  <2>3. /\ pc' \in [Processes -> Places]
        /\ \A q \in Processes : pc'[q] \in {"none", "readdir"} \/ pc'[q] = pc[q]
    BY <1>1, <2>2 DEF Places
  <2> QED
    BY <1>1, <1>6, <2>1, <2>3 DEF Poll, TypeOK
<1>7. CASE Drain(p)
  <2>1. active_processes' \in [Processes -> 0 .. UINT_MAX]
    BY <1>1, <1>a, <1>7 DEF Drain, Waits
  <2>2. pc' = pc \/ \E c \in Processes : pc' = [pc EXCEPT ![c] = "none"]
    BY <1>7 DEF Drain, Waits, Zombies, Children
  <2> QED
    BY <1>1, <1>7, <2>1, <2>2 DEF Drain, TypeOK, Places
<1>8. CASE ForkFails(p) \/ Process(p) \/ Return(p)
  <2>1. Exits(p) /\ UNCHANGED <<broken, entry, active_processes>>
    BY <1>8 DEF ForkFails, Process, Return
  <2>2. status' \in {"running", "success", "failure"}
    BY <1>8 DEF ForkFails, Process, Return, TypeOK
  <2>3. handled' \in [1 .. NumFiles -> Nat]
    BY <1>1, <1>8 DEF ForkFails, Process, Return, TypeOK
  <2> QED
    BY <2>1, <2>2, <2>3, ExitsType DEF TypeOK
<1> QED
  BY <1>2, <1>3, <1>4, <1>5, <1>6, <1>7, <1>8 DEF Run

\* The variables keep their types for any limits.
THEOREM ProcessTypes == Spec => []TypeOK
<1>1. TypeOK /\ [Next]_vars => TypeOK'
  <2>1. TypeOK /\ UNCHANGED vars => TypeOK'
    BY DEF vars, TypeOK
  <2> QED
    BY <2>1, StepType DEF Next, Finished
<1> QED
  BY <1>1, InitType, PTL DEF Spec

-----------------------------------------------------------------------------
(* What the kinds of steps do to the children.                             *)

\* There are finitely many processes, and a set of them has a size.
LEMMA ProcessSets ==
  ASSUME NEW S \in SUBSET Processes
  PROVE  IsFiniteSet(S) /\ Cardinality(S) \in Nat
<1>1. IsFiniteSet(Processes)
  BY LimitAssumption, FS_Interval DEF Processes
<1> QED
  BY <1>1, FS_Subset, FS_CardinalityType

\* A process goes on.
LEMMA Moving ==
  ASSUME TypeOK, NEW p \in Processes, NEW to \in Places, pc[p] # "none", to # "none",
         pc' = [pc EXCEPT ![p] = to], parent' = parent
  PROVE  \A q : Children(q)' = Children(q)
BY DEF TypeOK, Children

\* It reaps a child.
LEMMA Reaping ==
  ASSUME TypeOK, NEW p \in Processes, NEW c \in Zombies(p), pc[p] \in Loop,
         NEW to \in Loop, pc' = [pc EXCEPT ![p] = to, ![c] = "none"], parent' = parent
  PROVE  /\ c \in Processes /\ c # p /\ pc[c] = "zombie"
         /\ Children(p)' = Children(p) \ {c}
         /\ Cardinality(Children(p)) >= 1
         /\ Cardinality(Children(p)') = Cardinality(Children(p)) - 1
         /\ \A q : q # p => Children(q)' = Children(q)
<1>1. c \in Processes /\ c # p /\ pc[c] = "zombie" /\ c \in Children(p)
  BY DEF Zombies, Children, Loop
<1>2. \A q : Children(q)' = Children(q) \ {c}
  BY <1>1 DEF TypeOK, Children, Loop
<1>3. \A q : q # p => c \notin Children(q)
  BY <1>1 DEF Children
<1>4. Cardinality(Children(p) \ {c}) = Cardinality(Children(p)) - 1
  BY <1>1, ProcessSets, FS_RemoveElement DEF Children
<1>5. Cardinality(Children(p)) \in Nat /\ Cardinality(Children(p) \ {c}) \in Nat
  <2>1. Children(p) \in SUBSET Processes /\ Children(p) \ {c} \in SUBSET Processes
    BY DEF Children
  <2> QED
    BY <2>1, ProcessSets
<1>6. Children(p)' = Children(p) \ {c} /\ \A q : q # p => Children(q)' = Children(q)
  BY <1>2, <1>3
<1> QED
  BY <1>1, <1>4, <1>5, <1>6

\* It forks one.
LEMMA Forking ==
  ASSUME TypeOK, NEW p \in Processes, NEW c \in Processes,
         pc[p] = "fork", pc[c] = "none",
         pc' = [pc EXCEPT ![p] = "poll", ![c] = "open"], parent' = [parent EXCEPT ![c] = p]
  PROVE  /\ c # p /\ c \notin Children(p) /\ Children(p)' = Children(p) \cup {c}
         /\ Cardinality(Children(p)') = Cardinality(Children(p)) + 1
         /\ \A q : q # p => Children(q)' = Children(q)
<1>1. c # p /\ c \notin Children(p) /\ Children(p)' = Children(p) \cup {c}
  BY DEF TypeOK, Children
<1>2. \A q : q # p => Children(q)' = Children(q)
  BY DEF TypeOK, Children
<1>3. Cardinality(Children(p) \cup {c}) = Cardinality(Children(p)) + 1
  BY <1>1, ProcessSets, FS_AddElement DEF Children
<1> QED
  BY <1>1, <1>2, <1>3

\* It ends; those who waited for its children to end still do.
LEMMA Exiting ==
  ASSUME TypeOK, NEW p \in Processes, Exits(p), pc[p] \notin {"none", "zombie", "exited"}
  PROVE  /\ pc'[p] = IF p = root THEN "exited"
                     ELSE IF parent[p] \in Processes THEN "zombie" ELSE "none"
         /\ \A c \in Processes : c # p => \/ pc'[c] = pc[c]
                                          \/ c \in Zombies(p) /\ pc'[c] = "none"
         /\ \A c \in Processes : parent'[c] = IF c \in Children(p) THEN init ELSE parent[c]
         /\ Children(p)' = {}
         /\ \A q \in Processes : q # p => Children(q)' = Children(q)
<1>1. /\ root \in Processes /\ init \notin Processes
      /\ pc \in [Processes -> Places] /\ parent \in [Processes -> 0 .. ProcessLimit]
  BY LimitAssumption DEF TypeOK, root, init, Processes
<1>2. /\ pc'[p] = IF p = root THEN "exited"
                  ELSE IF parent[p] \in Processes THEN "zombie" ELSE "none"
      /\ \A c \in Processes : c # p => \/ pc'[c] = pc[c]
                                       \/ c \in Zombies(p) /\ pc'[c] = "none"
  BY DEF Exits, Zombies
<1>3. \A c \in Processes : parent'[c] = IF c \in Children(p) THEN init ELSE parent[c]
  BY DEF Exits
<1>4. Children(p)' = {}
  BY <1>1, <1>2, <1>3 DEF Children, Zombies
<1>5. ASSUME NEW q \in Processes, q # p PROVE Children(q)' = Children(q)
  BY <1>1, <1>2, <1>3, <1>5 DEF Children, Zombies
<1> QED
  BY <1>2, <1>3, <1>4, <1>5

-----------------------------------------------------------------------------
(* A process counts its children.                                          *)

LEMMA MoveCount ==
  ASSUME TypeOK, CountInv, RootInv, NEW p \in Processes, NEW to \in Places \ {"exited"},
         pc[p] # "none", to # "none", pc' = [pc EXCEPT ![p] = to], parent' = parent,
         \A q \in Processes : q # p => active_processes'[q] = active_processes[q],
         to \in Loop => /\ Cardinality(Children(p)) <= active_processes'[p]
                        /\ active_processes'[p] <= max_proc
                        /\ p = root => Cardinality(Children(p)) = active_processes'[p],
         to = "fork" => active_processes'[p] < max_proc,
         to = "open" => active_processes'[p] <= max_proc,
         to \notin Loop => Children(p) = {} /\ p # root
  PROVE  CountInv' /\ RootInv'
<1>1. \A q : Children(q)' = Children(q)
  BY Moving
<1>2. pc'[p] = to /\ \A q \in Processes : q # p => pc'[q] = pc[q]
  BY DEF TypeOK
<1>3. CountInv'
  BY <1>1, <1>2 DEF CountInv
<1>4. root \in Processes
  BY LimitAssumption DEF root, Processes
<1> QED
  BY <1>2, <1>3, <1>4 DEF RootInv

LEMMA ReapCount ==
  ASSUME TypeOK, CountInv, RootInv, NEW p \in Processes, NEW c \in Zombies(p),
         pc[p] \in Loop, NEW to \in Loop \ {"fork"},
         pc' = [pc EXCEPT ![p] = to, ![c] = "none"], parent' = parent,
         active_processes' = [active_processes EXCEPT ![p] = Decrement(@)]
  PROVE  CountInv' /\ RootInv'
<1>1. /\ active_processes \in [Processes -> 0 .. UINT_MAX] /\ pc \in [Processes -> Places]
      /\ UINT_MAX \in Nat /\ max_proc \in 0 .. UINT_MAX
  BY UnsignedAssumption DEF TypeOK
<1>2. /\ c \in Processes /\ c # p /\ pc[c] = "zombie"
      /\ Cardinality(Children(p)) >= 1
      /\ Cardinality(Children(p)') = Cardinality(Children(p)) - 1
      /\ \A q : q # p => Children(q)' = Children(q)
  BY Reaping
<1>3. /\ Cardinality(Children(p)) \in Nat
      /\ Cardinality(Children(p)) <= active_processes[p] /\ active_processes[p] <= max_proc
  BY ProcessSets DEF CountInv, Children
<1>4. active_processes'[p] = active_processes[p] - 1
  <2>1. active_processes[p] \in 1 .. UINT_MAX
    BY <1>1, <1>2, <1>3
  <2> QED
    BY <1>1, <2>1, Unsigned
<1>5. /\ pc'[p] = to /\ pc'[c] = "none"
      /\ \A q \in Processes : q # p /\ q # c => pc'[q] = pc[q]
      /\ \A q \in Processes : q # p => active_processes'[q] = active_processes[q]
  BY <1>1, <1>2
<1>6. Children(c)' = {}
  BY <1>2 DEF CountInv, Loop
<1>7. CountInv'
  <2>1. /\ Cardinality(Children(p)') <= active_processes'[p]
        /\ active_processes'[p] <= max_proc
        /\ p = root => Cardinality(Children(p)') = active_processes'[p]
    BY <1>1, <1>2, <1>3, <1>4 DEF CountInv
  <2> QED
    BY <1>2, <1>5, <1>6, <2>1 DEF CountInv, Loop
<1>8. root \in Processes /\ c # root
  BY <1>2, LimitAssumption DEF root, Processes, RootInv, Loop
<1> QED
  BY <1>5, <1>7, <1>8 DEF RootInv, Loop

LEMMA ForkCount ==
  ASSUME TypeOK, CountInv, RootInv, NEW p \in Processes, Fork(p)
  PROVE  CountInv' /\ RootInv'
<1>1. /\ active_processes \in [Processes -> 0 .. UINT_MAX] /\ pc \in [Processes -> Places]
      /\ parent \in [Processes -> 0 .. ProcessLimit]
      /\ UINT_MAX \in Nat /\ max_proc \in 0 .. UINT_MAX
  BY UnsignedAssumption DEF TypeOK
<1>2. PICK c \in Processes :
         /\ pc[c] = "none" /\ pc[p] = "fork"
         /\ pc' = [pc EXCEPT ![p] = "poll", ![c] = "open"]
         /\ active_processes' = [active_processes EXCEPT
              ![p] = Increment(@), ![c] = Increment(active_processes[p])]
         /\ parent' = [parent EXCEPT ![c] = p]
  BY DEF Fork
<1>3. /\ c # p /\ Cardinality(Children(p)') = Cardinality(Children(p)) + 1
      /\ \A q : q # p => Children(q)' = Children(q)
  BY <1>2, Forking
<1>4. /\ Cardinality(Children(p)) \in Nat
      /\ Cardinality(Children(p)) <= active_processes[p] /\ active_processes[p] < max_proc
      /\ p = root => Cardinality(Children(p)) = active_processes[p]
  BY <1>2, ProcessSets DEF CountInv, Loop, Children
<1>5. Increment(active_processes[p]) = active_processes[p] + 1
  <2>1. active_processes[p] \in 0 .. UINT_MAX - 1
    BY <1>1, <1>4
  <2> QED
    BY <2>1, Unsigned
<1>6. /\ pc'[p] = "poll" /\ pc'[c] = "open"
      /\ active_processes'[p] = active_processes[p] + 1
      /\ active_processes'[c] = active_processes[p] + 1
      /\ \A q \in Processes : q # p /\ q # c =>
           pc'[q] = pc[q] /\ active_processes'[q] = active_processes[q]
  BY <1>1, <1>2, <1>3, <1>5
<1>7. Children(c)' = {}
  BY <1>2, <1>3 DEF CountInv, Loop
<1>8. CountInv'
  <2>1. /\ Cardinality(Children(p)') <= active_processes'[p]
        /\ active_processes'[p] <= max_proc /\ active_processes'[c] <= max_proc
        /\ p = root => Cardinality(Children(p)') = active_processes'[p]
    BY <1>1, <1>3, <1>4, <1>6
  <2> QED
    BY <1>3, <1>6, <1>7, <2>1 DEF CountInv, Loop
<1>9. root \in Processes /\ c # root
  BY <1>2, LimitAssumption DEF root, Processes, RootInv, Loop
<1>10. parent'[root] = parent[root]
  BY <1>1, <1>2, <1>9
<1> QED
  BY <1>6, <1>8, <1>9, <1>10 DEF RootInv, Loop

LEMMA ExitCount ==
  ASSUME TypeOK, CountInv, RootInv, NEW p \in Processes, Exits(p),
         pc[p] \notin {"none", "zombie", "exited"},
         active_processes' = active_processes
  PROVE  CountInv' /\ RootInv'
<1>1. root \in Processes /\ init \notin Processes
  BY LimitAssumption DEF root, init, Processes
<1>2. /\ pc'[p] = IF p = root THEN "exited"
                  ELSE IF parent[p] \in Processes THEN "zombie" ELSE "none"
      /\ \A c \in Processes : c # p => \/ pc'[c] = pc[c]
                                       \/ c \in Zombies(p) /\ pc'[c] = "none"
      /\ \A c \in Processes : parent'[c] = IF c \in Children(p) THEN init ELSE parent[c]
      /\ Children(p)' = {}
      /\ \A q \in Processes : q # p => Children(q)' = Children(q)
  BY Exiting
<1>3. \A c \in Zombies(p) : c # p => Children(c)' = {}
  BY <1>2 DEF CountInv, Zombies, Children, Loop
<1>4. ASSUME NEW q \in Processes PROVE CountInv!(q)'
  <2>1. CASE q = p
    BY <1>2, <2>1 DEF Loop
  <2>2. CASE q # p /\ pc'[q] = pc[q]
    BY <1>2, <2>2 DEF CountInv
  <2>3. CASE q # p /\ q \in Zombies(p) /\ pc'[q] = "none"
    BY <1>3, <2>3 DEF Loop
  <2> QED
    BY <1>2, <2>1, <2>2, <2>3
<1>5. CountInv'
  BY <1>4 DEF CountInv
<1>6. RootInv'
  BY <1>1, <1>2 DEF RootInv, Zombies, Children, Loop
<1> QED
  BY <1>5, <1>6

\* A process that goes on without a child, or has none it could wait for.
LEMMA WaitCount ==
  ASSUME max_proc > 0, TypeOK, CountInv, RootInv, NEW p \in Processes, Waits(p),
         parent' = parent, pc[p] \in {"limit", "drain"}, active_processes[p] > 0
  PROVE  CountInv' /\ RootInv'
<1>1. /\ active_processes \in [Processes -> 0 .. UINT_MAX] /\ pc \in [Processes -> Places]
      /\ UINT_MAX \in Nat /\ max_proc \in 0 .. UINT_MAX
  BY UnsignedAssumption DEF TypeOK
<1>2. CASE Children(p) = {}
  <2>1. Zombies(p) = {} /\ Cardinality(Children(p)) = 0
    BY <1>2, FS_EmptySet DEF Zombies
  <2>2. p # root
    BY <1>1, <2>1 DEF CountInv, Loop
  <2>3. pc' = [pc EXCEPT ![p] = pc[p]]
    BY <1>1, <2>1 DEF Waits
  <2>4. /\ active_processes'[p] = active_processes[p] - 1
        /\ \A q \in Processes : q # p => active_processes'[q] = active_processes[q]
    <3>1. active_processes[p] \in 1 .. UINT_MAX
      BY <1>1
    <3> QED
      BY <1>1, <3>1, Unsigned DEF Waits
  <2>5. active_processes[p] <= max_proc
    BY DEF CountInv, Loop
  <2>6. active_processes'[p] <= max_proc /\ Cardinality(Children(p)) <= active_processes'[p]
    BY <1>1, <2>1, <2>4, <2>5
  <2>7. pc[p] \in Places \ {"exited", "none", "fork", "open"} /\ pc[p] \in Loop
    BY DEF Loop, Places
  <2> QED
    BY <2>2, <2>3, <2>4, <2>6, <2>7, MoveCount
<1>3. CASE Children(p) # {}
  <2>1. PICK c \in Zombies(p) : pc' = [pc EXCEPT ![c] = "none"]
    BY <1>3 DEF Waits
  <2>2. c # p
    BY DEF Zombies
  <2>3. pc' = [pc EXCEPT ![p] = pc[p], ![c] = "none"]
    BY <1>1, <2>1, <2>2
  <2> QED
    BY <2>3, ReapCount DEF Waits, Loop
<1> QED
  BY <1>2, <1>3

LEMMA CountStep ==
  ASSUME max_proc > 0, TypeOK, CountInv, RootInv, NEW p \in Processes, Run(p)
  PROVE  CountInv' /\ RootInv'
<1>1. /\ active_processes \in [Processes -> 0 .. UINT_MAX] /\ pc \in [Processes -> Places]
      /\ UINT_MAX \in Nat /\ max_proc \in 0 .. UINT_MAX
  BY UnsignedAssumption DEF TypeOK
<1>2. Cardinality(Children(p)) \in Nat
  BY ProcessSets DEF Children
<1>3. CASE ReadDir(p)
  <2>1. PICK to \in {"limit", "drain"} : pc' = [pc EXCEPT ![p] = to]
    BY <1>3 DEF ReadDir, Goto
  <2> QED
    BY <1>1, <1>3, <2>1, MoveCount DEF ReadDir, CountInv, Loop, Places
<1>4. CASE Limit(p) /\ AtLimit(p)
  BY <1>4, WaitCount DEF Limit, AtLimit
<1>5. CASE Limit(p) /\ ~ AtLimit(p)
  <2>1. active_processes[p] < max_proc
    BY <1>1, <1>5 DEF Limit, AtLimit, CountInv, Loop
  <2> QED
    BY <1>5, <2>1, MoveCount DEF Limit, Goto, CountInv, Loop, Places
<1>6. CASE Fork(p)
  BY <1>6, ForkCount
<1>7. CASE Open(p)
  <2>1. PICK to \in {"readdir", "process"} : pc' = [pc EXCEPT ![p] = to]
    BY <1>7 DEF Open, Goto
  <2>2. /\ Children(p) = {} /\ active_processes[p] <= max_proc /\ p # root
        /\ active_processes[p] \in Nat
    BY <1>1, <1>7 DEF Open, Goto, CountInv, RootInv, Loop
  <2>3. Cardinality(Children(p)) = 0
    BY <2>2, FS_EmptySet
  <2> QED
    <3>1. UNCHANGED <<active_processes, parent>> /\ pc[p] # "none"
      BY <1>7 DEF Open, Goto
    <3>2. /\ to \in Places \ {"exited"} /\ to \notin {"none", "fork", "open"}
          /\ Cardinality(Children(p)) <= active_processes[p]
      BY <2>2, <2>3 DEF Places
    <3> QED
      BY <2>1, <2>2, <3>1, <3>2, MoveCount
<1>8. CASE Poll(p) /\ Zombies(p) = {}
  BY <1>8, MoveCount DEF Poll, Goto, CountInv, Loop, Places
<1>9. CASE Poll(p) /\ Zombies(p) # {}
  BY <1>9, ReapCount DEF Poll, Loop
<1>10. CASE Drain(p)
  BY <1>10, WaitCount DEF Drain, MoreToWaitFor
<1>11. CASE ForkFails(p) \/ Process(p) \/ Return(p)
  BY <1>11, ExitCount DEF ForkFails, Process, Return
<1> QED
  BY <1>3, <1>4, <1>5, <1>6, <1>7, <1>8, <1>9, <1>10, <1>11 DEF Run

-----------------------------------------------------------------------------
(* The tree of processes.                                                  *)

LEMMA TreeShrinks ==
  ASSUME TreeInv, Live' \subseteq Live,
         \A p \in Live' \ {root} : parent'[p] = parent[p],
         status' = "running" => status = "running" /\ pc'[root] # "exited"
  PROVE  TreeInv'
BY DEF TreeInv

LEMMA TreeStep ==
  ASSUME TypeOK, CountInv, RootInv, TreeInv, NEW p \in Processes, Run(p)
  PROVE  TreeInv'
<1>1. /\ pc \in [Processes -> Places] /\ parent \in [Processes -> 0 .. ProcessLimit]
      /\ root \in Processes /\ init \notin Processes
  BY LimitAssumption DEF TypeOK, root, init, Processes
<1>2. CASE Fork(p)
  <2>1. PICK c \in Processes :
           /\ pc[c] = "none" /\ pc[p] = "fork"
           /\ pc' = [pc EXCEPT ![p] = "poll", ![c] = "open"]
           /\ parent' = [parent EXCEPT ![c] = p]
    BY <1>2 DEF Fork
  <2>2. /\ c # p /\ c # root /\ Live' = Live \cup {c} /\ c \notin Live /\ p \in Live
        /\ parent'[c] = p /\ \A q \in Live : parent'[q] = parent[q]
    BY <1>1, <2>1 DEF Live, RootInv, Loop
  <2>3. status' = status /\ (pc[root] # "exited" => pc'[root] # "exited")
    BY <1>1, <1>2, <2>1, <2>2 DEF Fork
  <2>4. \A q \in Live : parent[q] # c
    BY <2>1 DEF CountInv, Loop, Live, Children
  <2> SUFFICES ASSUME status = "running" PROVE TreeInv'
    BY <2>3 DEF TreeInv
  <2>5. ASSUME NEW S \in SUBSET (Live' \ {root}), S # {}
        PROVE  \E q \in S : parent'[q] \notin S
    <3>1. CASE S \ {c} # {}
      <4>1. PICK q \in S \ {c} : parent[q] \notin S \ {c}
        BY <2>2, <2>5, <3>1 DEF TreeInv
      <4> QED
        BY <2>2, <2>4, <2>5, <4>1
    <3>2. CASE S = {c}
      BY <2>2, <3>2
    <3> QED
      BY <2>5, <3>1, <3>2
  <2> QED
    BY <2>2, <2>3, <2>5 DEF TreeInv
<1>3. CASE ReadDir(p) \/ Open(p) \/ Limit(p) \/ Poll(p) \/ Drain(p)
  <2>1. parent' = parent /\ status' = status
    BY <1>3 DEF ReadDir, Open, Limit, Poll, Drain
  <2>2. \A q \in Processes : \/ pc'[q] = pc[q] \/ pc'[q] = "none"
                             \/ q = p /\ pc[q] # "none" /\ pc'[q] # "exited"
    BY <1>1, <1>3 DEF ReadDir, Open, Limit, Poll, Drain, Waits, Goto, Zombies, Children
  <2>3. Live' \subseteq Live /\ (pc[root] # "exited" => pc'[root] # "exited")
    BY <1>1, <2>2 DEF Live
  <2> QED
    BY <2>1, <2>3, TreeShrinks DEF TreeInv
<1>4. CASE ForkFails(p) \/ Process(p) \/ Return(p)
  <2> SUFFICES ASSUME status' = "running" PROVE TreeInv'
    BY DEF TreeInv
  <2>1. /\ status = "running" /\ Exits(p) /\ pc[p] \in {"process", "drain"}
        /\ p # root /\ (pc[p] = "drain" => ~ MoreToWaitFor(p))
    BY <1>4 DEF ForkFails, Process, Return, TypeOK, RootInv, Loop
  <2>2. Children(p) = {}
    <3>1. CASE pc[p] = "drain"
      <4>1. active_processes[p] = 0
        BY <2>1, <3>1, UnsignedAssumption DEF TypeOK, MoreToWaitFor
      <4>2. Cardinality(Children(p)) = 0
        <5>1. Cardinality(Children(p)) \in Nat /\ Cardinality(Children(p)) <= 0
          BY <3>1, <4>1, ProcessSets DEF CountInv, Loop, Children
        <5> QED
          BY <5>1
      <4> QED
        BY <4>2, ProcessSets, FS_EmptySet DEF Children
    <3>2. CASE pc[p] = "process"
      BY <3>2 DEF CountInv, Loop
    <3> QED
      BY <2>1, <3>1, <3>2
  <2>3. /\ \A q \in Processes : parent'[q] = parent[q]
        /\ \A q \in Processes : q # p => pc'[q] = pc[q]
        /\ pc[p] # "none"
    BY <2>1, <2>2, Exiting DEF Zombies
  <2>4. Live' \subseteq Live /\ pc'[root] # "exited"
    BY <1>1, <2>1, <2>3 DEF Live, TreeInv
  <2> QED
    BY <2>1, <2>3, <2>4, TreeShrinks DEF Live
<1> QED
  BY <1>2, <1>3, <1>4 DEF Run

\* A process that leaves the loop for good has waited for all its children.
LEMMA ReturnsAlone ==
  ASSUME TypeOK, CountInv, NEW p \in Processes, pc[p] = "drain", ~ MoreToWaitFor(p)
  PROVE  Children(p) = {}
<1>1. active_processes[p] = 0
  BY UnsignedAssumption DEF TypeOK, MoreToWaitFor
<1>2. Cardinality(Children(p)) \in Nat /\ Cardinality(Children(p)) <= 0
  BY <1>1, ProcessSets DEF CountInv, Loop, Children
<1> QED
  BY <1>2, ProcessSets, FS_EmptySet DEF Children

LEMMA AbandonStep ==
  ASSUME TypeOK, CountInv, RootInv, TreeInv, NobodyIsAbandoned, NEW p \in Processes, Run(p)
  PROVE  NobodyIsAbandoned'
<1>1. status # "success"
  BY DEF NobodyIsAbandoned, Run, ReadDir, Limit, Fork, ForkFails, Open, Process, Poll,
     Drain, Return, Goto
<1> SUFFICES ASSUME status' = "success" PROVE \A q \in Processes : pc'[q] \in {"none", "exited"}
  BY DEF NobodyIsAbandoned
<1>2. /\ Exits(p) /\ p = root /\ pc[p] = "drain" /\ ~ MoreToWaitFor(p)
      /\ status = "running"
  BY <1>1 DEF Run, ReadDir, Limit, Fork, ForkFails, Open, Process, Poll, Drain, Return
<1>3. Children(root) = {}
  BY <1>2, ReturnsAlone
<1>4. Live \ {root} = {}
  <2> SUFFICES ASSUME Live \ {root} # {} PROVE FALSE
    OBVIOUS
  <2>1. PICK q \in Live \ {root} : parent[q] \notin Live \ {root}
    BY <1>2 DEF TreeInv
  <2>2. parent[q] \in Processes /\ q \in Children(parent[q])
    BY <1>2, <2>1 DEF TreeInv, Live, Children
  <2>3. pc[parent[q]] \in Loop
    BY <2>2 DEF CountInv
  <2>4. parent[q] = root
    BY <2>1, <2>2, <2>3 DEF Live, Loop
  <2> QED
    BY <1>3, <2>2, <2>4
<1> QED
  BY <1>2, <1>4, Exiting DEF Live

-----------------------------------------------------------------------------
(* The files.                                                              *)

LEMMA EndStep ==
  ASSUME TypeOK, RootInv, EndInv, NEW p \in Processes, Run(p) PROVE EndInv'
<1>1. /\ pc \in [Processes -> Places] /\ entry \in [Processes -> 0 .. NumFiles]
      /\ root \in Processes /\ NumFiles \in Nat
  BY LimitAssumption, FilesAssumption DEF TypeOK, root, Processes
<1>2. CASE ReadDir(p)
  <2>1. \A q \in Processes : q # p => pc'[q] = pc[q] /\ entry'[q] = entry[q]
    BY <1>1, <1>2 DEF ReadDir, Goto
  <2>2. pc'[p] # "exited" /\ (pc'[p] = "drain" => entry'[p] = NumFiles)
    BY <1>1, <1>2 DEF ReadDir, Goto
  <2>3. status' = status
    BY <1>2 DEF ReadDir
  <2> QED
    BY <1>1, <2>1, <2>2, <2>3 DEF EndInv
<1>3. CASE Fork(p)
  <2>1. PICK c \in Processes : /\ pc[c] = "none" /\ pc' = [pc EXCEPT ![p] = "poll", ![c] = "open"]
                               /\ entry' = [entry EXCEPT ![c] = entry[p]]
    BY <1>3 DEF Fork
  <2>2. c # root
    BY <2>1 DEF RootInv, Loop
  <2> QED
    BY <1>1, <1>3, <2>1, <2>2 DEF Fork, EndInv
<1>4. CASE Limit(p) \/ Open(p) \/ Poll(p) \/ Drain(p)
  <2>1. \A q \in Processes : pc'[q] \in {"drain", "exited"} => pc'[q] = pc[q]
    BY <1>1, <1>4 DEF Limit, Open, Poll, Drain, Waits, Goto, Zombies, Children
  <2> QED
    BY <1>1, <1>4, <2>1 DEF Limit, Open, Poll, Drain, EndInv
<1>5. CASE ForkFails(p) \/ Process(p) \/ Return(p)
  <2>1. /\ Exits(p) /\ entry' = entry /\ pc[p] \in {"fork", "process", "drain"}
        /\ status' # "failure" => /\ status # "failure"
                                  /\ p = root => pc[p] = "drain"
    BY <1>5 DEF ForkFails, Process, Return, RootInv, Loop
  <2>2. /\ \A q \in Processes : q # p => pc'[q] = pc[q] \/ pc'[q] = "none"
        /\ pc'[p] # "drain"
    BY <2>1, Exiting
  <2> QED
    BY <1>1, <2>1, <2>2 DEF EndInv
<1> QED
  BY <1>2, <1>3, <1>4, <1>5 DEF Run

\* A step that neither begins nor ends the processing of a file.
LEMMA FilesRest ==
  ASSUME FileInv, UNCHANGED <<broken, handled>>, Busy' = Busy,
         \A q \in Busy : entry'[q] = entry[q],
         \A q \in Processes \ {root} : \/ pc'[q] = pc[q]
                                       \/ pc'[q] \in {"none", "open", "process", "zombie"},
         pc'[root] # "exited" => /\ pc[root] # "exited"
                                 /\ \A q \in Busy : q \in Children(root) => q \in Children(root)',
         status' # "failure" => /\ status # "failure"
                                /\ \A f \in 1 .. NumFiles : Started(f)' <=> Started(f)
  PROVE  FileInv'
<1> SUFFICES ASSUME broken = {} PROVE FileInv'
  BY DEF FileInv
<1>1. \A f : Working(f)' = Working(f)
  BY DEF Working
<1>2. \A q \in Processes \ {root} : pc'[q] \in {"none", "open", "process", "zombie"}
  BY DEF FileInv
<1>3. pc'[root] # "exited" => Busy' \subseteq Children(root)'
  BY DEF FileInv
<1>4. Cardinality(Busy') <= max_proc
  BY DEF FileInv
<1>5. ASSUME status' # "failure", NEW f \in 1 .. NumFiles
      PROVE  IF Started(f)'
             THEN \/ handled'[f] = 1 /\ Working(f)' = {}
                  \/ handled'[f] = 0 /\ \E q \in Processes : Working(f)' = {q}
             ELSE handled'[f] = 0 /\ Working(f)' = {}
  BY <1>1, <1>5 DEF FileInv
<1> QED
  BY <1>2, <1>3, <1>4, <1>5 DEF FileInv

\* The first process forks a child for the file it read.
LEMMA ForkFile ==
  ASSUME TypeOK, CountInv, RootInv, FileInv, broken = {}, NEW p \in Processes, Fork(p),
         CountInv'
  PROVE  FileInv'
<1>1. /\ pc \in [Processes -> Places] /\ entry \in [Processes -> 0 .. NumFiles]
      /\ active_processes \in [Processes -> 0 .. UINT_MAX]
      /\ root \in Processes /\ NumFiles \in Nat
  BY LimitAssumption, FilesAssumption DEF TypeOK, root, Processes
<1>2. p = root /\ pc[p] = "fork"
  BY DEF Fork, FileInv
<1>3. PICK c \in Processes :
         /\ pc[c] = "none" /\ pc' = [pc EXCEPT ![p] = "poll", ![c] = "open"]
         /\ entry' = [entry EXCEPT ![c] = entry[p]]
         /\ parent' = [parent EXCEPT ![c] = p]
  BY DEF Fork
<1>4. c # root /\ UNCHANGED <<broken, handled, status>>
  BY <1>2, <1>3 DEF Fork
<1>5. Children(root)' = Children(root) \cup {c}
  BY <1>2, <1>3, Forking
<1>6. /\ Busy' = Busy \cup {c} /\ c \notin Busy /\ entry'[c] = entry[root]
      /\ \A q \in Processes : q # c => entry'[q] = entry[q]
  BY <1>1, <1>2, <1>3, <1>4 DEF Busy
<1>7. Busy' \subseteq Children(root)'
  BY <1>2, <1>5, <1>6 DEF FileInv
<1>8. Cardinality(Busy') <= max_proc
  <2>1. pc'[root] = "poll"
    BY <1>1, <1>2, <1>3, <1>4
  <2>2. Cardinality(Children(root)') <= max_proc
    <3>1. /\ Cardinality(Children(root)') <= active_processes'[root]
          /\ active_processes'[root] <= max_proc
      BY <1>1, <2>1 DEF CountInv, Loop
    <3>2. active_processes'[root] \in Nat /\ max_proc \in Nat
      BY <1>1, StepType, UnsignedAssumption DEF TypeOK, Run
    <3>3. Cardinality(Children(root)') \in Nat
      <4>1. Children(root)' \in SUBSET Processes
        BY DEF Children
      <4> QED
        BY <4>1, ProcessSets
    <3> QED
      BY <3>1, <3>2, <3>3
  <2>3. Cardinality(Busy') <= Cardinality(Children(root)')
    <3>1. Children(root)' \in SUBSET Processes
      BY DEF Children
    <3> QED
      BY <1>7, <3>1, ProcessSets, FS_Subset
  <2>4. /\ Cardinality(Busy') \in Nat /\ Cardinality(Children(root)') \in Nat
        /\ max_proc \in Nat
    <3>1. Busy' \in SUBSET Processes /\ Children(root)' \in SUBSET Processes
      BY DEF Busy, Children
    <3> QED
      BY <3>1, ProcessSets, UnsignedAssumption
  <2> QED
    BY <2>2, <2>3, <2>4
<1>9. \A q \in Processes \ {root} : pc'[q] \in {"none", "open", "process", "zombie"}
  BY <1>1, <1>2, <1>3 DEF FileInv
<1>10. ASSUME status' # "failure", NEW f \in 1 .. NumFiles
       PROVE  IF Started(f)'
              THEN \/ handled'[f] = 1 /\ Working(f)' = {}
                   \/ handled'[f] = 0 /\ \E q \in Processes : Working(f)' = {q}
              ELSE handled'[f] = 0 /\ Working(f)' = {}
  <2>1. Started(f)' <=> f <= entry[root]
    BY <1>1, <1>2, <1>3, <1>4, <1>6, <1>10 DEF Started
  <2>2. Started(f) <=> f < entry[root]
    BY <1>1, <1>2, <1>10 DEF Started
  <2>3. CASE f = entry[root]
    <3>1. ~ Started(f) /\ handled[f] = 0 /\ Working(f) = {}
      BY <1>1, <1>4, <1>10, <2>2, <2>3 DEF FileInv
    <3>2. Working(f)' = {c}
      BY <1>6, <2>3, <3>1 DEF Working, Busy
    <3> QED
      BY <1>1, <1>4, <2>1, <2>3, <3>1, <3>2
  <2>4. CASE f # entry[root]
    <3>1. Working(f)' = Working(f)
      BY <1>6, <2>4 DEF Working, Busy
    <3>2. Started(f)' <=> Started(f)
      BY <1>1, <1>10, <2>1, <2>2, <2>4
    <3> QED
      BY <1>4, <1>10, <3>1, <3>2 DEF FileInv
  <2> QED
    BY <2>3, <2>4
<1> QED
  BY <1>7, <1>8, <1>9, <1>10 DEF FileInv

\* A child has processed its file.
LEMMA ProcessFile ==
  ASSUME TypeOK, CountInv, RootInv, FileInv, broken = {}, NEW p \in Processes, Process(p)
  PROVE  FileInv'
<1>1. /\ pc \in [Processes -> Places] /\ entry \in [Processes -> 0 .. NumFiles]
      /\ handled \in [1 .. NumFiles -> Nat] /\ root \in Processes
      /\ max_proc \in Nat
  BY LimitAssumption, UnsignedAssumption DEF TypeOK, root, Processes
<1>2. /\ pc[p] = "process" /\ p # root /\ entry[p] \in 1 .. NumFiles
      /\ handled' = [handled EXCEPT ![entry[p]] = @ + 1]
      /\ Exits(p) /\ UNCHANGED <<broken, entry, status>>
  BY DEF Process, RootInv, Loop, TypeOK
<1>3. Children(p) = {}
  BY <1>2 DEF CountInv, Loop
<1>4. /\ pc'[p] \in {"zombie", "none"} /\ \A q \in Processes : q # p => pc'[q] = pc[q]
      /\ \A q \in Processes : q # p => Children(q)' = Children(q)
  BY <1>2, <1>3, Exiting DEF Zombies
<1>5. Busy' = Busy \ {p} /\ p \in Busy
  BY <1>2, <1>4 DEF Busy
<1>6. pc'[root] # "exited" => Busy' \subseteq Children(root)'
  BY <1>1, <1>2, <1>4, <1>5 DEF FileInv
<1>7. Cardinality(Busy') <= max_proc
  <2>1. /\ Cardinality(Busy) \in Nat /\ Cardinality(Busy \ {p}) <= Cardinality(Busy)
        /\ Cardinality(Busy \ {p}) \in Nat
    <3>1. Busy \in SUBSET Processes /\ Busy \ {p} \in SUBSET Busy
      BY DEF Busy
    <3> QED
      BY <3>1, ProcessSets, FS_Subset
  <2> QED
    BY <1>1, <1>5, <2>1 DEF FileInv
<1>8. \A q \in Processes \ {root} : pc'[q] \in {"none", "open", "process", "zombie"}
  BY <1>4 DEF FileInv
<1>9. ASSUME status' # "failure", NEW f \in 1 .. NumFiles
      PROVE  IF Started(f)'
             THEN \/ handled'[f] = 1 /\ Working(f)' = {}
                  \/ handled'[f] = 0 /\ \E q \in Processes : Working(f)' = {q}
             ELSE handled'[f] = 0 /\ Working(f)' = {}
  <2>1. Started(f)' <=> Started(f)
    BY <1>1, <1>2, <1>4 DEF Started
  <2>2. CASE f = entry[p]
    <3>1. p \in Working(f)
      BY <1>5, <2>2 DEF Working
    <3>2. Started(f) /\ handled[f] = 0 /\ Working(f) = {p}
      BY <1>2, <1>9, <3>1 DEF FileInv
    <3>3. Working(f)' = {}
      BY <1>2, <1>5, <3>2 DEF Working
    <3>4. handled'[f] = 1
      BY <1>1, <1>2, <2>2, <3>2
    <3> QED
      BY <2>1, <3>2, <3>3, <3>4
  <2>3. CASE f # entry[p]
    <3>1. Working(f)' = Working(f)
      BY <1>2, <1>5, <2>3 DEF Working
    <3>2. handled'[f] = handled[f]
      BY <1>1, <1>2, <2>3
    <3> QED
      BY <1>2, <1>9, <2>1, <3>1, <3>2 DEF FileInv
  <2> QED
    BY <2>2, <2>3
<1> QED
  BY <1>6, <1>7, <1>8, <1>9 DEF FileInv

LEMMA FileStep ==
  ASSUME TypeOK, CountInv, RootInv, FileInv, CountInv', NEW p \in Processes, Run(p)
  PROVE  FileInv'
<1> SUFFICES ASSUME broken = {} PROVE FileInv'
  BY DEF Run, ReadDir, Limit, Fork, ForkFails, Open, Process, Poll, Drain, Return, FileInv
<1>1. /\ pc \in [Processes -> Places] /\ entry \in [Processes -> 0 .. NumFiles]
      /\ root \in Processes /\ NumFiles \in Nat
  BY LimitAssumption, FilesAssumption DEF TypeOK, root, Processes
<1>2. pc[p] \in Loop => p = root
  BY DEF FileInv, Loop
<1>3. CASE ReadDir(p)
  <2>1. PICK to \in {"limit", "drain"} :
           /\ pc[p] = "readdir" /\ pc' = [pc EXCEPT ![p] = to] /\ parent' = parent
           /\ entry' = IF to = "limit" THEN [entry EXCEPT ![p] = @ + 1] ELSE entry
    BY <1>3 DEF ReadDir, Goto
  <2>2. p = root /\ UNCHANGED <<broken, handled, status>>
    BY <1>2, <1>3, <2>1 DEF ReadDir, Loop
  <2>3. /\ pc'[root] = to /\ \A q \in Processes \ {root} : pc'[q] = pc[q] /\ entry'[q] = entry[q]
        /\ entry'[root] = IF to = "limit" THEN entry[root] + 1 ELSE entry[root]
    BY <1>1, <2>1, <2>2
  <2>4. Busy' = Busy /\ \A q \in Busy : entry'[q] = entry[q]
    BY <2>1, <2>2, <2>3 DEF Busy
  <2>5. Children(root)' = Children(root)
    BY <2>1, Moving DEF Places
  <2>6. \A f \in 1 .. NumFiles : Started(f)' <=> Started(f)
    BY <1>1, <2>1, <2>2, <2>3 DEF Started
  <2> QED
    BY <2>1, <2>2, <2>3, <2>4, <2>5, <2>6, FilesRest
<1>4. CASE Fork(p)
  BY <1>4, ForkFile
<1>5. CASE Open(p)
  <2>1. /\ pc[p] = "open" /\ pc' = [pc EXCEPT ![p] = "process"]
        /\ UNCHANGED <<broken, handled, status, entry, parent>>
    BY <1>5 DEF Open, Goto
  <2>2. p # root
    BY <2>1 DEF RootInv, Loop
  <2>3. Busy' = Busy /\ pc'[root] = pc[root]
    BY <1>1, <2>1, <2>2 DEF Busy
  <2>4. Children(root)' = Children(root)
    BY <2>1, Moving DEF Places
  <2>5. \A q \in Processes \ {root} : pc'[q] = pc[q] \/ pc'[q] = "process"
    BY <1>1, <2>1
  <2>6. \A f \in 1 .. NumFiles : Started(f)' <=> Started(f)
    BY <2>1, <2>3 DEF Started
  <2> QED
    BY <2>1, <2>3, <2>4, <2>5, <2>6, FilesRest
<1>6. CASE Limit(p) \/ Poll(p) \/ Drain(p)
  <2>1. /\ p = root /\ pc[p] \in {"limit", "poll", "drain"}
        /\ UNCHANGED <<broken, handled, status, entry, parent>>
    BY <1>2, <1>6 DEF Limit, Poll, Drain, Loop
  <2>2. \/ pc' = [pc EXCEPT ![root] = pc'[root]]
        \/ \E c \in Zombies(root) : pc' = [pc EXCEPT ![root] = pc'[root], ![c] = "none"]
    BY <1>1, <1>6, <2>1 DEF Limit, Poll, Drain, Waits, Goto, Zombies, Children
  <2>3. \/ pc[root] = "limit" /\ pc'[root] \in {"limit", "fork"}
        \/ pc[root] = "poll" /\ pc'[root] = "readdir"
        \/ pc[root] = "drain" /\ pc'[root] = "drain"
    BY <1>1, <1>6, <2>1 DEF Limit, Poll, Drain, Waits, Goto, Zombies, Children
  <2>4. /\ \A q \in Processes \ {root} : pc'[q] = pc[q] \/ (pc[q] = "zombie" /\ pc'[q] = "none")
        /\ Busy' = Busy
    <3>1. \A c \in Zombies(root) : c \in Processes \ {root} /\ pc[c] = "zombie"
      BY <2>1 DEF Zombies, Children
    <3>2. \A q \in Processes \ {root} : pc'[q] = pc[q] \/ (pc[q] = "zombie" /\ pc'[q] = "none")
      BY <1>1, <2>2, <3>1
    <3>3. {pc[root], pc'[root]} \cap {"open", "process"} = {}
      BY <2>3
    <3>4. ASSUME NEW q \in Processes
          PROVE  pc'[q] \in {"open", "process"} <=> pc[q] \in {"open", "process"}
      BY <3>2, <3>3
    <3> QED
      BY <3>2, <3>4 DEF Busy
  <2>5. \A q \in Busy : q \in Children(root) => q \in Children(root)'
    BY <2>1, <2>4 DEF Busy, Children
  <2>6. \A f \in 1 .. NumFiles : Started(f)' <=> Started(f)
    BY <2>1, <2>3 DEF Started
  <2> QED
    BY <2>1, <2>3, <2>4, <2>5, <2>6, FilesRest
<1>7. CASE Process(p)
  BY <1>7, ProcessFile
<1>8. CASE ForkFails(p) \/ Return(p)
  <2>1. /\ p = root /\ Exits(p) /\ pc[p] \in {"fork", "drain"}
        /\ UNCHANGED <<broken, handled, entry>>
    BY <1>2, <1>8 DEF ForkFails, Return, Loop
  <2>2. /\ pc'[root] = "exited"
        /\ \A q \in Processes \ {root} : pc'[q] = pc[q] \/ (pc[q] = "zombie" /\ pc'[q] = "none")
    BY <2>1, Exiting DEF Zombies
  <2>3. Busy' = Busy
    BY <2>1, <2>2 DEF Busy
  <2>4. status' # "failure" => status # "failure" /\ pc[root] = "drain"
    BY <1>8, <2>1 DEF ForkFails, Return
  <2>5. status' # "failure" => \A f \in 1 .. NumFiles : Started(f)' <=> Started(f)
    BY <2>1, <2>2, <2>4 DEF Started
  <2> QED
    BY <2>1, <2>2, <2>3, <2>4, <2>5, FilesRest
<1> QED
  BY <1>3, <1>4, <1>5, <1>6, <1>7, <1>8 DEF Run

-----------------------------------------------------------------------------
LEMMA InitPool == Init => PoolInv
<1> SUFFICES ASSUME Init PROVE PoolInv
  OBVIOUS
<1>1. /\ root \in Processes /\ init \notin Processes
      /\ pc[root] = "readdir" /\ \A p \in Processes \ {root} : pc[p] = "none"
      /\ \A p \in Processes : active_processes[p] = 0 /\ entry[p] = 0
      /\ status = "running" /\ max_proc \in Nat /\ NumFiles \in Nat
  BY LimitAssumption, UnsignedAssumption, FilesAssumption DEF Init, root, init, Processes
<1>2. \A p \in Processes : Children(p) = {}
  BY <1>1 DEF Init, Children
<1>3. CountInv
  BY <1>1, <1>2, FS_EmptySet DEF CountInv, Loop
<1>4. RootInv /\ EndInv
  BY <1>1 DEF Init, RootInv, EndInv, Loop
<1>5. TreeInv
  BY <1>1 DEF TreeInv, Live
<1>6. Busy = {}
  BY <1>1 DEF Busy
<1>7. FileInv
  <2>1. \A f \in 1 .. NumFiles : ~ Started(f) /\ Working(f) = {} /\ handled[f] = 0
    BY <1>1, <1>6 DEF Init, Started, Working
  <2> QED
    BY <1>1, <1>6, <2>1, FS_EmptySet DEF FileInv
<1>8. NobodyIsAbandoned
  BY <1>1 DEF NobodyIsAbandoned
<1> QED
  BY <1>3, <1>4, <1>5, <1>7, <1>8 DEF PoolInv

LEMMA StepPool ==
  ASSUME max_proc > 0 PROVE TypeOK /\ PoolInv /\ [Next]_vars => PoolInv'
<1>1. ASSUME TypeOK, PoolInv, NEW p \in Processes, Run(p) PROVE PoolInv'
  <2>1. CountInv' /\ RootInv'
    BY <1>1, CountStep DEF PoolInv
  <2> QED
    BY <1>1, <2>1, TreeStep, AbandonStep, EndStep, FileStep DEF PoolInv
<1>2. ASSUME PoolInv, UNCHANGED vars PROVE PoolInv'
  <2>1. /\ \A q : Children(q)' = Children(q) /\ Working(q)' = Working(q)
        /\ \A f : Started(f)' <=> Started(f)
        /\ Live' = Live /\ Busy' = Busy
    BY <1>2 DEF vars, Children, Working, Started, Live, Busy
  <2> QED
    BY <1>2, <2>1 DEF vars, PoolInv, CountInv, RootInv, TreeInv, FileInv, EndInv,
       NobodyIsAbandoned
<1> QED
  BY <1>1, <1>2 DEF Next, Finished

LEMMA PoolInvariantHolds ==
  ASSUME max_proc > 0 PROVE Spec => [](TypeOK /\ PoolInv)
<1>1. TypeOK /\ PoolInv /\ [Next]_vars => TypeOK'
  <2>1. TypeOK /\ UNCHANGED vars => TypeOK'
    BY DEF vars, TypeOK
  <2> QED
    BY <2>1, StepType DEF Next, Finished
<1>2. TypeOK /\ PoolInv /\ [Next]_vars => PoolInv'
  BY StepPool
<1> QED
  BY <1>1, <1>2, InitType, InitPool, PTL DEF Spec

-----------------------------------------------------------------------------
(* The theorems.                                                           *)

\* The first process knows how many children it has to wait for, and none
\* of the others knows of too few, although one that could not open its
\* files inherits a count that is not its own.
THEOREM ChildrenAreCounted ==
  ASSUME max_proc > 0 PROVE Spec => []CountsItsChildren
<1>1. TypeOK /\ PoolInv => CountsItsChildren
  BY DEF PoolInv, CountInv, Loop, CountsItsChildren
<1> QED
  BY <1>1, PoolInvariantHolds, PTL

\* The program does not return successfully while a process it started,
\* itself or through a child that took up the loop, is still running.
THEOREM EverybodyIsWaitedFor ==
  ASSUME max_proc > 0 PROVE Spec => []NobodyIsAbandoned
<1>1. PoolInv => NobodyIsAbandoned
  BY DEF PoolInv
<1> QED
  BY <1>1, PoolInvariantHolds, PTL

\* When all files can be opened and no fork fails, each file is processed
\* exactly once, in whatever order the children end and are reaped.
THEOREM FilesAreProcessedOnce ==
  ASSUME max_proc > 0 PROVE Spec => []EveryFileOnce
<1>1. TypeOK /\ PoolInv => EveryFileOnce
  <2> SUFFICES ASSUME TypeOK, PoolInv, broken = {}, status = "success",
                      NEW f \in 1 .. NumFiles
               PROVE  handled[f] = 1
    BY DEF EveryFileOnce
  <2>1. /\ \A p \in Processes : pc[p] \in {"none", "exited"}
        /\ root \in Processes
    BY LimitAssumption DEF PoolInv, NobodyIsAbandoned, root, Processes
  <2>2. pc[root] = "exited" /\ entry[root] = NumFiles
    BY <2>1 DEF PoolInv, RootInv, EndInv, Loop
  <2>3. Started(f)
    BY <2>2, FilesAssumption DEF Started
  <2>4. \A p \in Processes : Working(f) # {p}
    BY <2>1 DEF Working, Busy
  <2> QED
    BY <2>3, <2>4 DEF PoolInv, FileInv
<1> QED
  BY <1>1, PoolInvariantHolds, PTL

\* No process has more than max_proc children, and while every file can be
\* opened no more than max_proc processes work on one.
THEOREM PoolStaysBounded ==
  ASSUME max_proc > 0 PROVE Spec => []PoolIsBounded
<1>1. TypeOK /\ PoolInv => PoolIsBounded
  <2> SUFFICES ASSUME TypeOK, PoolInv PROVE PoolIsBounded
    OBVIOUS
  <2>1. ASSUME NEW p \in Processes PROVE Cardinality(Children(p)) <= max_proc
    <3>1. /\ Cardinality(Children(p)) \in Nat /\ active_processes[p] \in Nat
          /\ max_proc \in Nat
      BY ProcessSets, UnsignedAssumption DEF Children, TypeOK
    <3>2. CASE pc[p] \in Loop
      BY <3>1, <3>2 DEF PoolInv, CountInv
    <3>3. CASE pc[p] \notin Loop
      BY <3>1, <3>3, FS_EmptySet DEF PoolInv, CountInv
    <3> QED
      BY <3>2, <3>3
  <2>2. broken = {} => Cardinality(Busy) <= max_proc
    BY DEF PoolInv, FileInv
  <2> QED
    BY <2>1, <2>2 DEF PoolIsBounded
<1> QED
  BY <1>1, PoolInvariantHolds, PTL
=============================================================================
