------------------------------- MODULE Sessions -------------------------------
(***************************************************************************)
(* How the server of Proj2 gives its worker threads to clients: the thread *)
(* that reads the register pipe (product_consumer_queue in server/main.c), *)
(* the worker threads (worker_thread, clients_manager.c) and the clients   *)
(* that set a session up and quit it (client/api.c, client/main.c).        *)
(*                                                                         *)
(* A client stands for the pair of pipe paths it was started with; it may  *)
(* be started MaxStarts times with the same paths.  The operations of a    *)
(* session are in EventStore: here a session only ends, by ems_quit or by  *)
(* the end of the client process.  A condition variable does not remember  *)
(* a signal: only a worker that is already waiting is woken.  Wakeups      *)
(* without a signal, which POSIX permits, are left out.                    *)
(***************************************************************************)
EXTENDS Naturals, Sequences, FiniteSets

CONSTANTS
  Clients,      \* pairs of pipe paths, each with a client process
  Mortal,       \* the clients that may end without ems_quit
  Nobody,       \* no client
  MAX_SESSION_COUNT, \* entries of all_worker_threads
  MaxStarts     \* bound: times each client process is started

ASSUME ClientsAssumption == Mortal \subseteq Clients /\ Nobody \notin Clients
ASSUME SlotsAssumption == MAX_SESSION_COUNT \in Nat \ {0}
ASSUME BoundAssumption == MaxStarts \in Nat

Slots == 0 .. MAX_SESSION_COUNT - 1

VARIABLES
  register,     \* the register pipe: the requests not yet read
  dispatcher,   \* where product_consumer_queue is
  request,      \* its buffer_request
  chosen,       \* its free_worker_thread, the loop index while it searches
  semaphore,    \* semaphore_sessions
  free,         \* all_worker_threads[i].free
  path,         \* the pipe paths of slot i, named by their client
  worker,       \* where each worker thread is
  client,       \* where each client process is
  id_session,   \* the session id each client read
  fifos,        \* named pipes in the file system: <<"request" or "response", c>>
  pipe,         \* what the worker can read next from the request pipe of c
  starts,       \* how often each client was started
  server        \* "up", or "down" after exit(EXIT_FAILURE)

slots   == <<semaphore, free, path>>
queue   == <<register, dispatcher, request, chosen>>
clients == <<client, id_session, starts>>
pipes   == <<fifos, pipe>>
vars    == <<queue, slots, worker, clients, pipes, server>>

\* A thread moves from one place to the next.
WorkerGoto(i, from, to) == worker[i] = from /\ worker' = [worker EXCEPT ![i] = to]
ClientGoto(c, from, to) == client[c] = from /\ client' = [client EXCEPT ![c] = to]
DispatcherGoto(from, to) == dispatcher = from /\ dispatcher' = to

-----------------------------------------------------------------------------
InitialPermits == MAX_SESSION_COUNT

\* product_consumer_queue has initialized the slots and created the threads.
Init ==
  /\ register = <<>> /\ dispatcher = "read"
  /\ request = Nobody /\ chosen = 0
  /\ semaphore = InitialPermits
  /\ free = [i \in Slots |-> TRUE]
  /\ path = [i \in Slots |-> Nobody]
  /\ worker = [i \in Slots |-> "start"]
  /\ client = [c \in Clients |-> "idle"]
  /\ id_session = [c \in Clients |-> Nobody]
  /\ fifos = {}
  /\ pipe = [c \in Clients |-> "empty"]
  /\ starts = [c \in Clients |-> 0]
  /\ server = "up"

-----------------------------------------------------------------------------
(* product_consumer_queue                                                  *)

\* Mutant: the register pipe is opened for reading only, so that a read
\* returns 0 when no client has it open.
ReadRegister_EofWhenEmpty ==
  /\ DispatcherGoto("read", "wait")
  /\ request' = IF register = <<>> THEN Nobody ELSE Head(register)
  /\ register' = IF register = <<>> THEN <<>> ELSE Tail(register)
  /\ UNCHANGED <<chosen, slots, worker, clients, pipes>>

ReadRegister ==
  /\ DispatcherGoto("read", "wait")
  /\ register # <<>>
  /\ request' = Head(register)
  /\ register' = Tail(register)
  /\ UNCHANGED <<chosen, slots, worker, clients, pipes>>

SemWait ==
  /\ DispatcherGoto("wait", "search")
  /\ semaphore > 0
  /\ semaphore' = semaphore - 1
  /\ chosen' = 0
  /\ UNCHANGED <<register, request, free, path, worker, clients, pipes>>

\* One iteration of get_free_worker_thread.  No lock is held: workers set
\* their slots free while it searches.  Past the last slot it returns NULL,
\* which its caller dereferences.
GetFree ==
  /\ IF chosen \notin Slots
     THEN DispatcherGoto("search", "null") /\ UNCHANGED chosen
     ELSE IF free[chosen]
     THEN DispatcherGoto("search", "fill") /\ UNCHANGED chosen
     ELSE DispatcherGoto("search", "search") /\ chosen' = chosen + 1
  /\ UNCHANGED <<register, request, slots, worker, clients, pipes>>

\* Copies the paths into the slot and sets it as busy.
FillSlot ==
  /\ DispatcherGoto("fill", "signal")
  /\ path' = [path EXCEPT ![chosen] = IF free[chosen] THEN request ELSE @]
  /\ free' = [free EXCEPT ![chosen] = FALSE]
  /\ UNCHANGED <<register, request, chosen, semaphore, worker, clients, pipes>>

\* Mutant: one condition variable for all the workers, with a broadcast.
Signal_WakesAll ==
  /\ DispatcherGoto("signal", "read")
  /\ worker' = [i \in Slots |->
                  IF worker[i] = "waiting" THEN "open_request" ELSE worker[i]]
  /\ request' = Nobody
  /\ UNCHANGED <<register, chosen, slots, clients, pipes>>

\* pthread_cond_signal: without a waiter nothing happens.
Signal ==
  /\ DispatcherGoto("signal", "read")
  /\ worker' = [worker EXCEPT ![chosen] =
                  IF @ = "waiting" THEN "open_request" ELSE @]
  /\ request' = Nobody
  /\ UNCHANGED <<register, chosen, slots, clients, pipes>>

Dispatch == ReadRegister \/ SemWait \/ GetFree \/ FillSlot \/ Signal

-----------------------------------------------------------------------------
(* worker_thread.  Opening a named pipe waits for the other end, so an     *)
(* open is a step of the worker and its client together.                   *)

CondWait(i) ==
  /\ WorkerGoto(i, "start", "waiting")
  /\ UNCHANGED <<queue, slots, clients, pipes, server>>

OpenRequest(i, c) ==
  /\ path[i] = c /\ <<"request", c>> \in fifos
  /\ WorkerGoto(i, "open_request", "open_response")
  /\ ClientGoto(c, "open_request", "open_response")
  /\ UNCHANGED <<queue, slots, id_session, starts, pipes, server>>

OpenResponse(i, c) ==
  /\ path[i] = c /\ <<"response", c>> \in fifos
  /\ WorkerGoto(i, "open_response", "send_id")
  /\ ClientGoto(c, "open_response", "read_id")
  /\ UNCHANGED <<queue, slots, id_session, starts, pipes, server>>

\* The client blocks in its read until the id arrives.
SendId(i, c) ==
  /\ path[i] = c
  /\ WorkerGoto(i, "send_id", "serve")
  /\ ClientGoto(c, "read_id", "session")
  /\ id_session' = [id_session EXCEPT ![c] = i]
  /\ UNCHANGED <<queue, slots, starts, pipes, server>>

\* Mutant: the slot is set free before its pipes are unlinked.
ReadQuit_FreesEarly(i) ==
  /\ WorkerGoto(i, "serve", "unlink_request")
  /\ pipe[path[i]] = "quit"
  /\ free' = [free EXCEPT ![i] = TRUE]
  /\ UNCHANGED <<queue, semaphore, path, clients, pipes, server>>

\* Reads the op code of ems_quit and closes both pipes.
ReadQuit(i) ==
  /\ WorkerGoto(i, "serve", "unlink_request")
  /\ pipe[path[i]] = "quit"
  /\ UNCHANGED <<queue, slots, clients, pipes, server>>

UnlinkRequest(i) ==
  /\ WorkerGoto(i, "unlink_request", "unlink_response")
  /\ <<"request", path[i]>> \in fifos
  /\ fifos' = fifos \ {<<"request", path[i]>>}
  /\ UNCHANGED <<queue, slots, clients, pipe, server>>

UnlinkResponse(i) ==
  /\ WorkerGoto(i, "unlink_response", "reset")
  /\ <<"response", path[i]>> \in fifos
  /\ fifos' = fifos \ {<<"response", path[i]>>}
  /\ UNCHANGED <<queue, slots, clients, pipe, server>>

\* Mutant: the flag is not set.
ResetWorker_ForgetsFree(i) ==
  /\ WorkerGoto(i, "reset", "post")
  /\ UNCHANGED <<queue, slots, clients, pipes, server>>

\* reset_WorkerThread: from here on the slot can be given away again.
ResetWorker(i) ==
  /\ WorkerGoto(i, "reset", "post")
  /\ free' = [free EXCEPT ![i] = TRUE]
  /\ UNCHANGED <<queue, semaphore, path, clients, pipes, server>>

SemPost(i) ==
  /\ WorkerGoto(i, "post", "start")
  /\ semaphore' = semaphore + 1
  /\ UNCHANGED <<queue, free, path, clients, pipes, server>>

\* The named pipe the next step of worker i opens or unlinks.
NeededPipes(i) ==
  {<<kind, path[i]>> : kind \in
     (IF worker[i] \in {"open_request", "unlink_request"} THEN {"request"} ELSE {})
       \cup
     (IF worker[i] \in {"open_response", "unlink_response"} THEN {"response"}
      ELSE {})}

\* Every failed open, read, write or unlink ends the server process: a pipe
\* that is not there, a client that is gone.
Works(i) ==
  /\ NeededPipes(i) \subseteq fifos
  /\ worker[i] = "send_id" => client[path[i]] = "read_id"
  /\ worker[i] = "serve" => pipe[path[i]] # "eof"

ExitFailure(i) ==
  /\ ~ Works(i)
  /\ server' = "down"
  /\ UNCHANGED <<queue, slots, worker, clients, pipes>>

Work(i) ==
  \/ CondWait(i) \/ ReadQuit(i) \/ UnlinkRequest(i) \/ UnlinkResponse(i)
  \/ ResetWorker(i) \/ SemPost(i) \/ ExitFailure(i)
  \/ \E c \in Clients : OpenRequest(i, c) \/ OpenResponse(i, c) \/ SendId(i, c)

-----------------------------------------------------------------------------
(* The client: ems_setup, a session, ems_quit.                             *)

MakeRequestPipe(c) ==
  /\ starts[c] < MaxStarts
  /\ starts' = [starts EXCEPT ![c] = @ + 1]
  /\ IF <<"request", c>> \in fifos
     THEN client[c] = "idle" /\ UNCHANGED <<client, pipes>>
     ELSE /\ ClientGoto(c, "idle", "make_response")
          /\ fifos' = fifos \cup {<<"request", c>>}
          /\ pipe' = [pipe EXCEPT ![c] = "empty"]
  /\ UNCHANGED <<queue, slots, worker, id_session, server>>

MakeResponsePipe(c) ==
  /\ IF <<"response", c>> \in fifos
     THEN ClientGoto(c, "make_response", "idle") /\ UNCHANGED fifos
     ELSE /\ ClientGoto(c, "make_response", "register")
          /\ fifos' = fifos \cup {<<"response", c>>}
  /\ UNCHANGED <<queue, slots, worker, id_session, starts, pipe, server>>

\* Mutant: the client opens the response pipe before the request pipe.
Register_ResponseFirst(c) ==
  /\ ClientGoto(c, "register", "open_response")
  /\ register' = Append(register, c)
  /\ UNCHANGED <<dispatcher, request, chosen, slots, worker, id_session, starts,
                 pipes, server>>

Register(c) ==
  /\ ClientGoto(c, "register", "open_request")
  /\ register' = Append(register, c)
  /\ UNCHANGED <<dispatcher, request, chosen, slots, worker, id_session, starts,
                 pipes, server>>

\* Mutant: the client unlinks its pipes too.
Quit_Unlinks(c) ==
  /\ ClientGoto(c, "session", "idle")
  /\ pipe' = [pipe EXCEPT ![c] = "quit"]
  /\ id_session' = [id_session EXCEPT ![c] = Nobody]
  /\ fifos' = fifos \ {<<"request", c>>, <<"response", c>>}
  /\ UNCHANGED <<queue, slots, worker, starts, server>>

\* ems_quit writes its op code and closes the pipes; the process ends.
Quit(c) ==
  /\ ClientGoto(c, "session", "idle")
  /\ pipe' = [pipe EXCEPT ![c] = "quit"]
  /\ id_session' = [id_session EXCEPT ![c] = Nobody]
  /\ UNCHANGED <<queue, slots, worker, starts, fifos, server>>

\* The process ends without ems_quit, as after a bad path of the .jobs file.
Die(c) ==
  /\ c \in Mortal
  /\ client[c] \notin {"idle", "dead"}
  /\ client' = [client EXCEPT ![c] = "dead"]
  /\ pipe' = [pipe EXCEPT ![c] = "eof"]
  /\ id_session' = [id_session EXCEPT ![c] = Nobody]
  /\ UNCHANGED <<queue, slots, worker, starts, fifos, server>>

Setup(c) == MakeResponsePipe(c) \/ Register(c)

-----------------------------------------------------------------------------
ServerStep == server = "up" /\ ((Dispatch /\ UNCHANGED server)
                                \/ \E i \in Slots : Work(i))
ClientStep == \E c \in Clients :
  MakeRequestPipe(c) \/ Setup(c) \/ Quit(c) \/ Die(c)

Next == ServerStep \/ ClientStep

Spec == Init /\ [][Next]_vars

\* The threads of the server run, clients carry their setup through and end
\* their sessions.  Nobody is obliged to start a client or to die.
FairSpec ==
  /\ Spec
  /\ WF_vars(server = "up" /\ Dispatch /\ UNCHANGED server)
  /\ \A i \in Slots : WF_vars(server = "up" /\ Work(i))
  /\ \A c \in Clients : WF_vars(Setup(c)) /\ WF_vars(Quit(c))

-----------------------------------------------------------------------------
(* Type invariant                                                          *)

WorkerPlaces == {"start", "waiting", "open_request", "open_response", "send_id",
                 "serve", "unlink_request", "unlink_response", "reset", "post"}
ClientPlaces == {"idle", "make_response", "register", "open_request",
                 "open_response", "read_id", "session", "dead"}

\* Every variable has its type; the loop index of the search stops one past
\* the last slot.
TypeOK ==
  /\ register \in Seq(Clients)
  /\ dispatcher \in {"read", "wait", "search", "fill", "signal", "null"}
  /\ request \in Clients \cup {Nobody}
  /\ chosen \in 0 .. MAX_SESSION_COUNT
  /\ dispatcher \in {"fill", "signal"} => chosen \in Slots
  /\ dispatcher \notin {"read", "null"} => request # Nobody
  /\ semaphore \in Nat
  /\ free \in [Slots -> BOOLEAN]
  /\ path \in [Slots -> Clients \cup {Nobody}]
  /\ worker \in [Slots -> WorkerPlaces]
  /\ client \in [Clients -> ClientPlaces]
  /\ id_session \in [Clients -> Slots \cup {Nobody}]
  /\ fifos \subseteq {"request", "response"} \X Clients
  /\ pipe \in [Clients -> {"empty", "quit", "eof"}]
  /\ starts \in [Clients -> 0 .. MaxStarts]
  /\ server \in {"up", "down"}

-----------------------------------------------------------------------------
(* Safety                                                                  *)

FreeSlots == {i \in Slots : free[i]}
\* Workers between setting their slot free and posting the semaphore.
Posting   == {i \in Slots : worker[i] = "post"}
\* The dispatcher took a permit and has not marked a slot busy for it yet.
Permit    == IF dispatcher \in {"search", "fill"} THEN 1 ELSE 0

\* Every free slot is accounted for by exactly one permit: one in the
\* semaphore, one the dispatcher holds, or one a worker is about to post.
PermitsCountFreeSlots ==
  semaphore + Permit + Cardinality(Posting) = Cardinality(FreeSlots)

\* get_free_worker_thread never returns NULL to product_consumer_queue, which
\* uses its result unchecked, although it looks at the flags one by one
\* without a lock while workers change them.
NeverNull == dispatcher # "null"

\* The worker was woken for a client and still uses the client's pipes.
UsesPipes(i) == worker[i] \notin {"start", "waiting", "reset", "post"}

\* The dispatcher never overwrites the pipe paths of a slot while its worker
\* uses them: path_request and path_response carry no lock.
PathsAreStable ==
  [][\A i \in Slots : UsesPipes(i) => path'[i] = path[i]]_vars

\* A client in a session is served by exactly one worker, the one whose
\* session id it read, and no worker serves another one's pipes.
SessionsAreIsolated ==
  /\ \A i, j \in Slots :
       UsesPipes(i) /\ UsesPipes(j) /\ path[i] = path[j] => i = j
  /\ \A c \in Clients : client[c] = "session" =>
       id_session[c] \in Slots /\ worker[id_session[c]] = "serve"
       /\ path[id_session[c]] = c

\* As long as no client ended without ems_quit, no worker calls
\* exit(EXIT_FAILURE) and ends the sessions of everybody else: whatever the
\* restarts, every pipe a worker opens or unlinks is there.
SomebodyDied == \E c \in Clients : client[c] = "dead"

ServerStaysUp == server = "down" => SomebodyDied

\* Every client that registered gets its session: ems_setup returns.
EveryClientIsServed ==
  \A c \in Clients : (client[c] = "open_request") ~> (client[c] = "session")
=============================================================================
