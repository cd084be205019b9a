-------------------------------- MODULE Signals --------------------------------
(***************************************************************************)
(* SIGUSR1 in the server of Proj2: sig_handler, the thread wait_for_signal *)
(* that prints the store, main, and what a signal does to the dispatcher   *)
(* and the workers of Sessions.                                            *)
(*                                                                         *)
(* Only main and the dispatcher leave SIGUSR1 unblocked.  The build        *)
(* (-std=c17 -D_POSIX_C_SOURCE, glibc) gives signal() its System V         *)
(* meaning: the handler is removed when the signal is delivered, SIGUSR1   *)
(* is not blocked while it runs, and system calls are not restarted.       *)
(* Main waits in pthread_join, which goes on after a handler; the          *)
(* dispatcher waits in read and sem_wait, which fail.                      *)
(*                                                                         *)
(* wait_for_signal waits with the mutex of worker 0, which it never locks. *)
(* The wait releases the mutex, whoever holds it, and locks it again when  *)
(* it is woken, and so does worker 0 with its own wait.  mutex is the lock *)
(* word of that mutex: a lock initialized again wakes nobody who sleeps on *)
(* it.  mutex_whorker_threads is locked by this thread only.               *)
(***************************************************************************)
EXTENDS Sessions

CONSTANT MaxSignals \* bound: how often SIGUSR1 is sent

ASSUME SignalsAssumption ==
  MaxSignals \in Nat /\ Nobody \notin {"main", "dispatcher"}

VARIABLES
  sent,         \* SIGUSR1 sent so far
  pending,      \* a SIGUSR1 was sent to the process and not delivered yet
  handler,      \* "installed", or where sig_handler is
  by,           \* the thread that runs it, or Nobody
  eintr,        \* the call the dispatcher is in was interrupted
  interrupts,   \* how often sem_wait was
  hits,         \* what else a signal interrupted: a read, a handler
  mutex,        \* all_worker_threads[0].mutex
  woken,        \* worker 0 was signalled and has not locked its mutex again
  printer,      \* where wait_for_signal is
  main          \* where main is

signal  == <<sent, pending, handler, by, eintr, interrupts, hits>>
thread  == <<mutex, woken, printer>>
svars   == <<vars, signal, thread, main>>

SignalsInit ==
  /\ Init
  /\ sent = 0 /\ pending = FALSE
  /\ handler = "installed" /\ by = Nobody /\ eintr = FALSE
  /\ interrupts = 0 /\ hits = {}
  /\ mutex = "free" /\ woken = FALSE
  /\ printer = "start"
  /\ main = "join"

-----------------------------------------------------------------------------
(* The signal: sent, delivered, handled                                    *)

SendSignal ==
  /\ sent < MaxSignals /\ server = "up"
  /\ sent' = sent + 1
  /\ pending' = TRUE
  /\ UNCHANGED <<vars, handler, by, eintr, interrupts, hits, thread, main>>

\* The dispatcher may be inside a call that a signal makes fail.
Blocked ==
  \/ dispatcher = "read" /\ register = <<>>
  \/ dispatcher = "wait" /\ semaphore = 0

\* The handler is removed when it starts; without a handler the signal ends
\* the process.
Deliver(t) ==
  /\ pending /\ pending' = FALSE
  /\ IF handler = "installed"
     THEN /\ handler' = "signal" /\ by' = t
          /\ eintr' \in (IF t = "dispatcher" /\ Blocked THEN {eintr, TRUE} ELSE {eintr})
          /\ UNCHANGED <<server, hits>>
     ELSE /\ server' = "down"
          /\ hits' = IF by = Nobody THEN hits ELSE hits \cup {"handler"}
          /\ UNCHANGED <<handler, by, eintr>>
  /\ UNCHANGED <<queue, slots, worker, clients, pipes, sent, interrupts, thread, main>>

\* pthread_cond_signal: lost unless the thread waits.
HandlerSignals ==
  /\ handler = "signal" /\ handler' = "install"
  /\ printer' = IF printer = "waiting" THEN "relock" ELSE printer
  /\ UNCHANGED <<vars, sent, pending, by, eintr, interrupts, hits, mutex, woken, main>>

\* Mutant: the handler does not install itself again.
HandlerReturns_NotInstalled ==
  /\ handler = "install" /\ handler' = "removed" /\ by' = Nobody
  /\ UNCHANGED <<vars, sent, pending, eintr, interrupts, hits, thread, main>>

HandlerReturns ==
  /\ handler = "install" /\ handler' = "installed" /\ by' = Nobody
  /\ UNCHANGED <<vars, sent, pending, eintr, interrupts, hits, thread, main>>

-----------------------------------------------------------------------------
(* The dispatcher                                                          *)

DispatcherRuns == by # "dispatcher"

\* A read that fails ends product_consumer_queue.
ReadFails ==
  /\ eintr /\ eintr' = FALSE
  /\ DispatcherGoto("read", "returned")
  /\ hits' = hits \cup {"read"}
  /\ UNCHANGED <<register, request, chosen, slots, worker, clients, pipes, server,
                 sent, pending, handler, by, interrupts, thread, main>>

\* Mutant: an interrupted sem_wait takes a permit all the same.
SemWaitFails_TakesPermit ==
  /\ eintr /\ eintr' = FALSE
  /\ DispatcherGoto("wait", "search") /\ chosen' = 0
  /\ interrupts' = interrupts + 1
  /\ semaphore' = IF semaphore > 0 THEN semaphore - 1 ELSE 0
  /\ UNCHANGED <<register, request, free, path, worker, clients, pipes, server,
                 sent, pending, handler, by, hits, thread, main>>

\* The result of sem_wait is not looked at: the search starts without a
\* permit.
SemWaitFails ==
  /\ eintr /\ eintr' = FALSE
  /\ DispatcherGoto("wait", "search") /\ chosen' = 0
  /\ interrupts' = interrupts + 1
  /\ UNCHANGED <<register, request, slots, worker, clients, pipes, server,
                 sent, pending, handler, by, hits, thread, main>>

\* free_worker_thread->free with free_worker_thread NULL.
NullDereference ==
  /\ dispatcher = "null"
  /\ server' = "down"
  /\ UNCHANGED <<queue, slots, worker, clients, pipes, signal, thread, main>>

Dispatches ==
  /\ Dispatch /\ ~ eintr
  /\ woken' = (woken \/ (worker[0] = "waiting" /\ worker'[0] = "open_request"))
  /\ UNCHANGED <<server, signal, mutex, printer, main>>

DispatcherStep ==
  DispatcherRuns /\ (Dispatches \/ ReadFails \/ SemWaitFails \/ NullDereference)

-----------------------------------------------------------------------------
(* Worker 0 and its mutex; the other workers have theirs to themselves.    *)

\* The wait returns once the mutex is locked again.
Relock ==
  /\ woken /\ woken' = FALSE
  /\ mutex = "free" /\ mutex' = "worker"
  /\ UNCHANGED <<vars, signal, printer, main>>

\* pthread_mutex_destroy does not fail: the wait does not count as a user.
DestroyMutex ==
  /\ worker[0] = "reset" /\ mutex # "destroyed"
  /\ mutex' = "destroyed"
  /\ UNCHANGED <<vars, signal, woken, printer, main>>

\* Mutant: reset_WorkerThread does not initialize the mutex again.
Worker0_NotInitialized ==
  /\ ~ woken
  /\ worker[0] = "reset" => mutex = "destroyed"
  /\ Work(0)
  /\ mutex' = IF worker'[0] # worker[0] /\ worker[0] = "start" THEN "free" ELSE mutex
  /\ UNCHANGED <<signal, woken, printer, main>>

\* What a step of worker 0 does to its mutex: the wait unlocks it, and
\* reset_WorkerThread initializes it.
Worker0 ==
  /\ ~ woken
  /\ worker[0] = "reset" => mutex = "destroyed"
  /\ Work(0)
  /\ mutex' = IF worker'[0] # worker[0] /\ worker[0] \in {"start", "reset"}
              THEN "free" ELSE mutex
  /\ UNCHANGED <<signal, woken, printer, main>>

WorkerStep(i) ==
  IF i = 0 THEN Worker0 \/ Relock \/ DestroyMutex
  ELSE Work(i) /\ UNCHANGED <<signal, thread, main>>

-----------------------------------------------------------------------------
(* wait_for_signal                                                         *)

\* Mutant: the mutex stays locked while the thread waits.
StartWaiting_KeepsMutex ==
  /\ printer = "start"
  /\ printer' = IF mutex = "destroyed" THEN "print" ELSE "waiting"
  /\ UNCHANGED <<vars, signal, mutex, woken, main>>

\* pthread_cond_wait unlocks the mutex; it fails at once when the mutex is
\* destroyed, and the thread prints.
StartWaiting ==
  /\ printer = "start"
  /\ IF mutex = "destroyed"
     THEN printer' = "print" /\ UNCHANGED mutex
     ELSE printer' = "waiting" /\ mutex' = "free"
  /\ UNCHANGED <<vars, signal, woken, main>>

\* Woken, it locks the mutex or sleeps until somebody unlocks it.
StopWaiting ==
  /\ printer = "relock"
  /\ CASE mutex = "free"      -> printer' = "print" /\ mutex' = "printer"
       [] mutex = "destroyed" -> printer' = "print" /\ UNCHANGED mutex
       [] OTHER               -> printer' = "asleep" /\ UNCHANGED mutex
  /\ UNCHANGED <<vars, signal, woken, main>>

\* show_EMS.
ShowsEMS ==
  /\ printer = "print" /\ printer' = "start"
  /\ UNCHANGED <<vars, signal, mutex, woken, main>>

Printer == StartWaiting \/ StopWaiting \/ ShowsEMS

-----------------------------------------------------------------------------
(* main, from pthread_join to its return                                   *)

\* ems_terminate frees the store, and main unlinks the register pipe.
Join ==
  /\ main = "join" /\ dispatcher = "returned"
  /\ main' = "terminate"
  /\ UNCHANGED <<vars, signal, thread>>

Return ==
  /\ main = "terminate" /\ main' = "returned"
  /\ server' = "down"
  /\ UNCHANGED <<queue, slots, worker, clients, pipes, signal, thread>>

\* Main does not go on while it runs the handler.
Main == by # "main" /\ (Join \/ Return)

-----------------------------------------------------------------------------
Handle == HandlerSignals \/ HandlerReturns

SignalsNext ==
  \/ server = "up" /\ ( \/ (\E t \in {"main", "dispatcher"} : Deliver(t))
                        \/ Handle \/ DispatcherStep \/ Printer \/ Main
                        \/ (\E i \in Slots : WorkerStep(i)) )
  \/ SendSignal
  \/ ClientStep /\ UNCHANGED <<signal, thread, main>>

SignalsSpec == SignalsInit /\ [][SignalsNext]_svars

\* As in Sessions; main, the handler and the thread that prints run too.
FairSignalsSpec ==
  /\ SignalsSpec
  /\ WF_svars(server = "up" /\ DispatcherStep)
  /\ \A i \in Slots : WF_svars(server = "up" /\ WorkerStep(i))
  /\ \A c \in Clients :
       /\ WF_svars(Setup(c) /\ UNCHANGED <<signal, thread, main>>)
       /\ WF_svars(Quit(c) /\ UNCHANGED <<signal, thread, main>>)
  /\ WF_svars(server = "up" /\ Handle) /\ WF_svars(server = "up" /\ Printer)
  /\ WF_svars(server = "up" /\ Main)

-----------------------------------------------------------------------------
(* Properties                                                              *)

\* Worker 0 uses what it locked: it is in a session, or it resets its slot.
InSession == ~ woken /\ worker[0] \notin {"start", "waiting", "post"}

\* The variables have their types, and the lock word of worker 0's mutex
\* agrees with where the two threads are that use it.
SignalsTypeOK ==
  /\ sent \in 0 .. MaxSignals /\ pending \in BOOLEAN
  /\ handler \in {"installed", "signal", "install"} /\ by \in {"main", "dispatcher", Nobody}
  /\ eintr \in BOOLEAN /\ (eintr => dispatcher \in {"read", "wait"})
  /\ interrupts \in 0 .. MaxSignals
  /\ hits \subseteq {"read", "handler"}
  /\ printer \in {"start", "waiting", "relock", "asleep", "print"}
  /\ mutex \in {"free", "worker", "printer", "destroyed"}
  /\ mutex = "worker" => InSession
  /\ mutex = "printer" => printer \in {"print", "start"}
  /\ mutex = "destroyed" => worker[0] = "reset"
  /\ main \in {"join", "terminate", "returned"}

\* The permits of Sessions when sem_wait may fail: every interrupted sem_wait
\* leaves one permit more than there are free slots, until the search that
\* it lets through finds no slot.
InterruptsCount ==
  dispatcher # "null" =>
    semaphore + Permit + Cardinality(Posting) = Cardinality(FreeSlots) + interrupts

\* As long as no client died, the server ends only if a signal interrupted a
\* call of the dispatcher or the handler itself: a signal that main handles
\* and that is not followed by another one too soon does no harm.
SignalsDoNoHarm == server = "down" => SomebodyDied \/ hits # {} \/ interrupts > 0

\* A SIGUSR1 that finds the thread waiting between two sessions of worker 0 is
\* shown.  Once a session begins its worker keeps the mutex to the end, and
\* reset_WorkerThread initializes it without waking who sleeps on it.
SignalsAreShown ==
  (printer = "relock") ~> (printer = "print" \/ InSession \/ server = "down")

\* Worker 0 waits for the thread that prints and still serves its client: a
\* woken worker completes its session, unless the server ends or a client
\* died.
WokenWorkersStillServe ==
  \A i \in Slots : (worker[i] = "open_request")
                     ~> (worker[i] = "start" \/ SomebodyDied \/ server = "down")
=============================================================================
