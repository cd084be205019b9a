----------------------------- MODULE ClientServer -----------------------------
(***************************************************************************)
(* An open session of Proj2, from the calls of the client's API            *)
(* (client/api.c) through the two pipes to the worker that serves it       *)
(* (server/main.c) and the store.  The store is EventStoreAbs, which       *)
(* EventStore shows to be what the locked code implements; what is left of *)
(* its locks is how long they are held while an answer is written.         *)
(*                                                                         *)
(* A request is written field by field and read field by field.  An answer *)
(* is a sequence of 4-byte words, a size_t being two of them, that the     *)
(* worker writes with one write for each field and the client reads with   *)
(* one read for each field.  A pipe holds Capacity words; a write of up to *)
(* Atomic words goes in whole, a longer one in the parts that fit.         *)
(***************************************************************************)
EXTENDS Naturals, Sequences, SequencesExt

CONSTANTS
  Clients,      \* each served by a worker of its own
  Mortal,       \* the clients that may die
  EventIds, Shapes, SeatLists,   \* as in EventStoreAbs
  Capacity,     \* of a response pipe, in words
  Atomic,       \* PIPE_BUF, in words
  ServerStack, ClientStack,   \* the largest array, in words, that the stack
                              \* of a worker and of a client has room for
  MaxCalls      \* bound: how many calls the clients make

\* POSIX makes PIPE_BUF 512 bytes at least.
ASSUME ClientServerAssumption ==
  /\ Mortal \subseteq Clients
  /\ Capacity \in Nat /\ Atomic \in 2 .. Capacity /\ MaxCalls \in Nat
  /\ ServerStack \in Nat \ {0, 1} /\ ClientStack \in Nat
  /\ EventIds \subseteq Nat /\ Shapes \subseteq Nat \X Nat
  /\ SeatLists \subseteq Seq(Nat \X Nat)
  /\ \A seats \in SeatLists : seats # <<>>   \* main sends no empty reservation

VARIABLES
  events, call, reply,   \* the store; call and reply of the worker of a client
  calling,      \* the call its client is in
  made,         \* how many calls all clients made
  status,       \* "open", "failed", "quit" or "dead"
  sending,      \* fields of its request the client has not written yet
  taken,        \* words of the answer it has read
  request,      \* its request pipe, a sequence of fields
  response,     \* its response pipe, a sequence of words
  worker,       \* where its worker is
  fields,       \* fields of the request the worker has read
  writes,       \* the writes of the answer still to come
  unserved,     \* history: calls made and not executed yet
  given,        \* history: the reply to the call the client is in
  cut,          \* a read of the client was short
  server        \* "up" or "down"

store   == <<events, call, reply>>
client  == <<calling, made, status, sending, taken, cut>>
pipes   == <<request, response>>
thread  == <<worker, fields, writes>>
history == <<unserved, given>>
vars    == <<store, client, pipes, thread, history, server>>

Store == INSTANCE EventStoreAbs WITH Workers <- Clients

Init ==
  /\ Store!Init
  /\ calling = [c \in Clients |-> Store!NoCall] /\ made = 0
  /\ status = [c \in Clients |-> "open"]
  /\ sending = [c \in Clients |-> <<>>] /\ taken = [c \in Clients |-> <<>>]
  /\ request = [c \in Clients |-> <<>>] /\ response = [c \in Clients |-> <<>>]
  /\ worker = [c \in Clients |-> "read"]
  /\ fields = [c \in Clients |-> <<>>] /\ writes = [c \in Clients |-> <<>>]
  /\ unserved = [c \in Clients |-> <<>>]
  /\ given = [c \in Clients |-> Store!NoReply]
  /\ cut = [c \in Clients |-> FALSE]
  /\ server = "up"

Column(seats, j) == [k \in DOMAIN seats |-> seats[k][j]]

\* The fields the API writes, one write each; the name of the operation
\* stands for its code.
Fields(c) ==
  CASE c.op = "create"  -> <<"create", c.id, c.shape[1], c.shape[2]>>
    [] c.op = "reserve" -> <<"reserve", c.id, Len(c.seats),
                             Column(c.seats, 1), Column(c.seats, 2)>>
    [] c.op = "show"    -> <<"show", c.id>>
    [] OTHER            -> <<"list">>

\* How many fields the worker reads for a code.
Arity == [create |-> 4, reserve |-> 5, show |-> 2, list |-> 1]

\* Mutant: the coordinates are stored the other way round.
Decoded_SwapsCoordinates(f) ==
  CASE f[1] = "create"  -> [op |-> "create", id |-> f[2], shape |-> <<f[3], f[4]>>]
    [] f[1] = "reserve" -> [op |-> "reserve", id |-> f[2],
                            seats |-> [k \in 1 .. f[3] |-> <<f[5][k], f[4][k]>>]]
    [] f[1] = "show"    -> [op |-> "show", id |-> f[2]]
    [] OTHER            -> [op |-> "list"]

\* The call the worker makes of the fields it read.
Decoded(f) ==
  CASE f[1] = "create"  -> [op |-> "create", id |-> f[2], shape |-> <<f[3], f[4]>>]
    [] f[1] = "reserve" -> [op |-> "reserve", id |-> f[2],
                            seats |-> [k \in 1 .. f[3] |-> <<f[4][k], f[5][k]>>]]
    [] f[1] = "show"    -> [op |-> "show", id |-> f[2]]
    [] OTHER            -> [op |-> "list"]

Word(n)   == <<n>>
SizeT(n)  == <<n, 0>>
Seats(r)  == [i \in 1 .. r.rows * r.cols |-> r.seats[i - 1]]

\* Mutant: the columns are written before the rows.
Writes_ColumnsFirst(r) ==
  IF r.err # "ok" THEN <<Word(1)>>
  ELSE <<Word(0)>> \o
       (CASE "seats" \in DOMAIN r -> <<SizeT(r.cols), SizeT(r.rows), Seats(r)>>
          [] "ids" \in DOMAIN r   -> <<SizeT(r.num_events), r.ids>>
          [] OTHER                -> <<>>)

\* The writes of an answer.
Writes(r) ==
  IF r.err # "ok" THEN <<Word(1)>>
  ELSE <<Word(0)>> \o
       (CASE "seats" \in DOMAIN r -> <<SizeT(r.rows), SizeT(r.cols), Seats(r)>>
          [] "ids" \in DOMAIN r   -> <<SizeT(r.num_events), r.ids>>
          [] OTHER                -> <<>>)

-----------------------------------------------------------------------------
(* The client: ems_create, ems_reserve, ems_show, ems_list_events, ems_quit *)

Busy(c) == calling[c] # Store!NoCall
Op(c)   == calling[c].op

\* rows * cols modulo 2^64 is a[2] * a[4] + TooMany(a) * 2^32.
TooMany(a)  == a[2] * a[5] + a[3] * a[4]


\* After how many words of the answer a read ends, as far as the words read
\* so far tell.
Ends(a, op) ==
  IF a = <<>> \/ op \in {"create", "reserve"} \/ a[1] = 1 THEN {1}
  ELSE IF op = "show"
       THEN {1, 3, 5} \cup (IF Len(a) < 5 THEN {} ELSE {5 + a[2] * a[4]})
       ELSE {1, 3} \cup (IF Len(a) < 3 THEN {} ELSE {3 + a[2]})

ToRead(c)   == {n \in Ends(taken[c], Op(c)) : n > Len(taken[c])}
Decided(c)  == status[c] = "failed" \/ (sending[c] = <<>> /\ ToRead(c) = {})

\* What the call returns and prints.
Result(c) ==
  LET a == taken[c]
  IN  IF status[c] = "failed" \/ a[1] = 1 THEN Store!Failure
      ELSE CASE Op(c) \in {"create", "reserve"} ->
                  IF a[1] = 0 THEN Store!Success ELSE Store!Failure
             [] Op(c) = "show" ->
                  [err |-> "ok", rows |-> a[2], cols |-> a[4],
                   seats |-> [i \in Store!Cells(a[2], a[4]) |-> a[6 + i]]]
             [] OTHER ->
                  [err |-> "ok", num_events |-> a[2],
                   ids |-> [i \in 1 .. a[2] |-> a[3 + i]]]

Ask(c) ==
  /\ status[c] = "open" /\ ~ Busy(c)
  /\ made < MaxCalls /\ made' = made + 1
  /\ \E x \in Store!Calls :
       /\ calling' = [calling EXCEPT ![c] = x]
       /\ unserved' = [unserved EXCEPT ![c] = Append(@, x)]
       /\ sending' = [sending EXCEPT ![c] = Fields(x)]
  /\ UNCHANGED <<store, status, taken, cut, pipes, thread, given, server>>

\* A write to a pipe nobody reads ends the process (SIGPIPE).
Send(c) ==
  /\ status[c] = "open" /\ sending[c] # <<>>
  /\ IF server = "up"
     THEN /\ request' = [request EXCEPT ![c] = Append(@, Head(sending[c]))]
          /\ sending' = [sending EXCEPT ![c] = Tail(@)]
          /\ UNCHANGED status
     ELSE /\ status' = [status EXCEPT ![c] = "dead"]
          /\ UNCHANGED <<request, sending>>
  /\ UNCHANGED <<store, calling, made, taken, cut, response, thread, history, server>>

\* The array for the rest of the answer does not fit on the stack.  Sizes
\* whose product wraps to one that fits are left out.
Overflows(c) ==
  LET a == taken[c]
  IN  /\ a # <<>> /\ a[1] # 1
      /\ \/ /\ Op(c) = "show" /\ Len(a) = 5
            /\ TooMany(a) # 0 \/ a[2] * a[4] > ClientStack
         \/ /\ Op(c) = "list" /\ Len(a) = 3
            /\ a[3] # 0 \/ a[2] > ClientStack

Reading(c) == status[c] = "open" /\ Busy(c) /\ sending[c] = <<>>

Crash(c) ==
  /\ Reading(c) /\ Overflows(c)
  /\ status' = [status EXCEPT ![c] = "dead"]
  /\ UNCHANGED <<store, calling, made, sending, taken, cut, pipes, thread, history, server>>

\* check_read: one read, which takes what is there; the call fails when that
\* is not what it asked for.
Read(c) ==
  /\ Reading(c) /\ ToRead(c) # {} /\ ~ Overflows(c)
  /\ response[c] # <<>>
  /\ LET n == Min(ToRead(c)) - Len(taken[c])
         r == response[c]
     IN  IF n <= Len(r)
         THEN /\ taken' = [taken EXCEPT ![c] = @ \o SubSeq(r, 1, n)]
              /\ response' = [response EXCEPT ![c] = SubSeq(r, n + 1, Len(r))]
              /\ UNCHANGED <<status, cut>>
         ELSE /\ response' = [response EXCEPT ![c] = <<>>]
              /\ status' = [status EXCEPT ![c] = "failed"]
              /\ cut' = [cut EXCEPT ![c] = TRUE]
              /\ UNCHANGED taken
  /\ UNCHANGED <<store, calling, made, sending, request, thread, history, server>>

\* The server ended: nothing more will come.
ReadEnd(c) ==
  /\ Reading(c) /\ ToRead(c) # {} /\ ~ Overflows(c)
  /\ response[c] = <<>> /\ server = "down"
  /\ status' = [status EXCEPT ![c] = "failed"]
  /\ UNCHANGED <<store, calling, made, sending, taken, cut, pipes, thread, history, server>>

\* Mutant: ems_reserve does not wait for its answer.
Return_NoAnswer(c) ==
  /\ status[c] \in {"open", "failed"} /\ Busy(c) /\ ~ Overflows(c)
  /\ Decided(c) \/ (Op(c) = "reserve" /\ sending[c] = <<>>)
  /\ calling' = [calling EXCEPT ![c] = Store!NoCall]
  /\ given' = [given EXCEPT ![c] = Store!NoReply]
  /\ status' = [status EXCEPT ![c] = "open"]
  /\ taken' = [taken EXCEPT ![c] = <<>>]
  /\ UNCHANGED <<store, made, sending, cut, pipes, thread, unserved, server>>

Return(c) ==
  /\ status[c] \in {"open", "failed"} /\ Busy(c) /\ ~ Overflows(c)
  /\ Decided(c)
  /\ calling' = [calling EXCEPT ![c] = Store!NoCall]
  /\ given' = [given EXCEPT ![c] = Store!NoReply]
  /\ status' = [status EXCEPT ![c] = "open"]
  /\ taken' = [taken EXCEPT ![c] = <<>>]
  /\ UNCHANGED <<store, made, sending, cut, pipes, thread, unserved, server>>

\* ems_quit writes its code and closes both pipes.
Quit(c) ==
  /\ status[c] = "open" /\ ~ Busy(c)
  /\ IF server = "up"
     THEN /\ status' = [status EXCEPT ![c] = "quit"]
          /\ request' = [request EXCEPT ![c] = Append(@, "quit")]
     ELSE /\ status' = [status EXCEPT ![c] = "dead"]
          /\ UNCHANGED request
  /\ UNCHANGED <<store, calling, made, sending, taken, cut, response, thread, history, server>>

Die(c) ==
  /\ c \in Mortal /\ status[c] \in {"open", "failed"}
  /\ status' = [status EXCEPT ![c] = "dead"]
  /\ UNCHANGED <<store, calling, made, sending, taken, cut, pipes, thread, history, server>>

ClientStep(c) ==
  Ask(c) \/ Send(c) \/ Read(c) \/ ReadEnd(c) \/ Crash(c) \/ Return(c) \/ Quit(c)

-----------------------------------------------------------------------------
(* The worker                                                              *)

Gone(c) == status[c] \in {"quit", "dead"}

\* The locks that ems_show and ems_list_events hold while they write.
HoldsList(d) ==
  \/ worker[d] = "mutex"
  \/ /\ worker[d] = "answer"
     /\ \/ call[d].op = "list"
        \/ /\ call[d].op = "show"
           /\ reply[d] = Store!Failure \/ Len(writes[d]) > 1

HoldsMutex(d, id) ==
  /\ worker[d] = "answer"
  /\ call[d].op = "show" /\ call[d].id = id /\ reply[d] # Store!Failure

ReadField(c) ==
  /\ worker[c] = "read"
  /\ request[c] # <<>>
  /\ fields[c] = <<>> => Head(request[c]) # "quit"
  /\ request' = [request EXCEPT ![c] = Tail(@)]
  /\ LET f == Append(fields[c], Head(request[c]))
     IN  IF Len(f) < Arity[f[1]]
         THEN /\ fields' = [fields EXCEPT ![c] = f]
              /\ UNCHANGED <<call, worker>>
         ELSE /\ fields' = [fields EXCEPT ![c] = <<>>]
              /\ call' = [call EXCEPT ![c] = Decoded(f)]
              /\ worker' = [worker EXCEPT ![c] = "call"]
  /\ UNCHANGED <<events, reply, client, response, writes, history, server>>

\* Closes both pipes and gives the session up.
ReadQuit(c) ==
  /\ worker[c] = "read" /\ fields[c] = <<>>
  /\ request[c] # <<>> /\ Head(request[c]) = "quit"
  /\ request' = [request EXCEPT ![c] = <<>>]
  /\ response' = [response EXCEPT ![c] = <<>>]
  /\ worker' = [worker EXCEPT ![c] = "closed"]
  /\ UNCHANGED <<store, client, fields, writes, history, server>>

\* The end of the request pipe is an error, which ends the process.
ReadEof(c) ==
  /\ worker[c] = "read" /\ request[c] = <<>> /\ Gone(c)
  /\ server' = "down"
  /\ UNCHANGED <<store, client, pipes, thread, history>>

ems_create(c) ==
  /\ call[c].op = "create" /\ \A d \in Clients : ~ HoldsList(d)
  /\ Store!Create(c)

ems_reserve(c) ==
  /\ call[c].op = "reserve" /\ \A d \in Clients : ~ HoldsMutex(d, call[c].id)
  /\ Store!Reserve(c)

\* A show of a known event waits for its mutex with the list locked.
ShowLookup(c) ==
  /\ worker[c] = "call" /\ call[c].op = "show" /\ Store!Exists(call[c].id)
  /\ worker' = [worker EXCEPT ![c] = "mutex"]
  /\ UNCHANGED <<store, client, pipes, fields, writes, history, server>>

ems_show(c) ==
  /\ call[c].op = "show"
  /\ worker[c] = "call" => ~ Store!Exists(call[c].id)
  /\ worker[c] = "mutex" => \A d \in Clients : ~ HoldsMutex(d, call[c].id)
  /\ Store!Show(c)

\* The call takes effect and its answer is known; what it takes to send it
\* comes with Write and StackOverrun.
Execute(c) ==
  /\ worker[c] \in {"call", "mutex"}
  /\ \/ ems_create(c) \/ ems_reserve(c) \/ ems_show(c)
     \/ Store!List(c)
  /\ reply'[c] # Store!Lost
  /\ worker' = [worker EXCEPT ![c] = "answer"]
  /\ writes' = [writes EXCEPT ![c] = Writes(reply'[c])]
  /\ unserved' = [unserved EXCEPT ![c] = Tail(@)]
  /\ given' = [given EXCEPT ![c] = reply'[c]]
  /\ UNCHANGED <<client, pipes, fields, server>>

\* The next write is of an array that ems_show or ems_list_events cannot put
\* on its stack.
TooLarge(c) == Len(Head(writes[c])) > ServerStack

\* Clearing such an array ends the process, after what goes before it in the
\* answer was written.
StackOverrun(c) ==
  /\ worker[c] = "answer" /\ writes[c] # <<>> /\ TooLarge(c)
  /\ server' = "down"
  /\ UNCHANGED <<store, client, pipes, thread, history>>

\* check_write: a write that waits for room; a write of nothing always ends.
Write(c) ==
  /\ worker[c] = "answer" /\ writes[c] # <<>> /\ ~ TooLarge(c)
  /\ LET words == Head(writes[c])
         room  == Capacity - Len(response[c])
         k     == IF Len(words) <= Atomic THEN Len(words) ELSE Min({room, Len(words)})
     IN  /\ k <= room
         /\ words # <<>> => k > 0 /\ ~ Gone(c)
         /\ response' = [response EXCEPT ![c] = @ \o SubSeq(words, 1, k)]
         /\ writes' = [writes EXCEPT ![c] =
              IF k = Len(words) THEN Tail(@)
              ELSE [@ EXCEPT ![1] = SubSeq(words, k + 1, Len(words))]]
  /\ UNCHANGED <<store, client, request, worker, fields, history, server>>

\* Nobody reads the pipe: SIGPIPE ends the process.
WriteToNobody(c) ==
  /\ worker[c] = "answer" /\ writes[c] # <<>> /\ ~ TooLarge(c) /\ Gone(c)
  /\ Head(writes[c]) # <<>>
  /\ server' = "down"
  /\ UNCHANGED <<store, client, pipes, thread, history>>

EndCall(c) ==
  /\ worker[c] = "answer" /\ writes[c] = <<>>
  /\ Store!Return(c)
  /\ worker' = [worker EXCEPT ![c] = "read"]
  /\ UNCHANGED <<client, pipes, fields, writes, history, server>>

Work(c) ==
  /\ server = "up"
  /\ \/ ReadField(c) \/ ReadQuit(c) \/ ReadEof(c) \/ ShowLookup(c)
     \/ Execute(c) \/ StackOverrun(c) \/ Write(c) \/ WriteToNobody(c) \/ EndCall(c)

-----------------------------------------------------------------------------
Next == \E c \in Clients : ClientStep(c) \/ Die(c) \/ Work(c)

\* Every thread of the server runs, and a client goes on with its file until
\* it quits.
Spec ==
  /\ Init /\ [][Next]_vars
  /\ \A c \in Clients : WF_vars(ClientStep(c)) /\ WF_vars(Work(c))

-----------------------------------------------------------------------------
(* Properties                                                              *)

\* The variables have their types; as long as its answers were whole, no call
\* of a client returns before its worker executed it.
TypeOK ==
  /\ \A c \in Clients :
       /\ call[c] \in Store!Calls \cup {Store!NoCall}
       /\ Len(response[c]) <= Capacity
       /\ worker[c] \in {"read", "call", "mutex", "answer", "closed"}
       /\ (call[c] = Store!NoCall) = (worker[c] \in {"read", "closed"})
       /\ status[c] \in {"open", "failed", "quit", "dead"}
       /\ calling[c] = Store!NoCall => sending[c] = <<>> /\ taken[c] = <<>>
       /\ server = "up" /\ ~ cut[c] /\ ~ Busy(c) => unserved[c] = <<>>
  /\ server \in {"up", "down"}

\* What a worker executes is what its client asked for, in that order, also
\* when the answers are out of step: the fields the API writes are those the
\* worker reads.
RequestsArriveWhole ==
  \A c \in Clients : worker[c] \in {"call", "mutex"} => call[c] = Head(unserved[c])

\* An answer that the response pipe may not take at once.
TooLong(p) == events[p].rows * events[p].cols > Atomic
                /\ events[p].rows * events[p].cols + 5 > Capacity

\* The call of its worker asks for an answer that does not fit on the stack.
AsksTooMuch(c) ==
  \/ call[c].op = "list" /\ Len(events) > ServerStack
  \/ /\ call[c].op = "show"
     /\ \E p \in DOMAIN events :
          events[p].id = call[c].id /\ events[p].rows * events[p].cols > ServerStack

\* The server goes on unless a client died, was left with a part of its
\* answer or asks for more than the stack of a worker has room for; and only a
\* long answer is ever read in part.
ServerSurvives ==
  /\ server = "down" =>
        \E c \in Clients : cut[c] \/ status[c] = "dead" \/ AsksTooMuch(c)
  /\ (\E c \in Clients : cut[c]) =>
        Len(events) > Atomic \/ \E p \in DOMAIN events : TooLong(p)

answered ==
  [c \in Clients |-> IF Busy(c) /\ Decided(c) THEN Result(c) ELSE given[c]]

Seen == INSTANCE EventStoreAbs
          WITH Workers <- Clients, call <- calling, reply <- answered

\* The calls of the API are those of the abstract store, each taking effect
\* between its invocation and its return with the answer the client gets,
\* until an answer is cut or the server ends.
ClientsSeeTheStore ==
  Seen!Init /\ [][\/ Seen!Next
                  \/ server' = "down" \/ \E c \in Clients : cut'[c]]_<<events, calling, answered>>

=============================================================================
