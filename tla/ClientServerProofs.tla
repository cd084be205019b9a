--------------------------- MODULE ClientServerProofs ---------------------------
(***************************************************************************)
(* Proofs about ClientServer for any number of clients and calls, any      *)
(* shapes, any pipe capacity and any PIPE_BUF that POSIX allows.           *)
(*                                                                         *)
(* Neither pipe carries a length or a mark where a message ends, so that   *)
(* every property rests on both ends agreeing where it does.  RequestInv   *)
(* says so for requests: what the worker has read, what is in the pipe and *)
(* what the client has still to write spell the calls that are not served  *)
(* yet, and nothing else.  AnswerInv says so for answers as long as no     *)
(* read was short: the client has read whole fields, what is in the pipe   *)
(* follows them, and the worker has exactly the rest to write.  A part of  *)
(* a field is in the pipe only when the field is longer than PIPE_BUF and  *)
(* than the room there was, which is what a short read proves.             *)
(***************************************************************************)
EXTENDS ClientServer, SequenceTheorems, WellFoundedInduction, TLAPS

-----------------------------------------------------------------------------
(* Types.                                                                  *)

Calls   == Store!Calls
NoCall  == Store!NoCall
NoReply == Store!NoReply

\* What is written to a request pipe.
FieldValues ==
  {"create", "reserve", "show", "list", "quit"} \cup Nat \cup Seq(Nat)

\* An event has a number for every seat.
EventInv ==
  /\ events \in Seq([id : Nat, rows : Nat, cols : Nat, reservations : Nat,
                     data : UNION {[0 .. n - 1 -> Nat] : n \in Nat}])
  /\ \A p \in DOMAIN events :
       events[p].data \in [Store!Cells(events[p].rows, events[p].cols) -> Nat]

DataInv ==
  /\ call \in [Clients -> Calls \cup {NoCall}]
  /\ calling \in [Clients -> Calls \cup {NoCall}]
  /\ status \in [Clients -> {"open", "failed", "quit", "dead"}]
  /\ worker \in [Clients -> {"read", "call", "mutex", "answer", "closed"}]
  /\ sending \in [Clients -> Seq(FieldValues)]
  /\ request \in [Clients -> Seq(FieldValues)]
  /\ fields \in [Clients -> Seq(FieldValues)]
  /\ unserved \in [Clients -> Seq(Calls)]
  /\ taken \in [Clients -> Seq(Nat)]
  /\ response \in [Clients -> Seq(Nat)]
  /\ writes \in [Clients -> Seq(Seq(Nat))]
  /\ DOMAIN reply = Clients /\ DOMAIN given = Clients
  /\ reply = [c \in Clients |-> reply[c]] /\ given = [c \in Clients |-> given[c]]
  /\ cut \in [Clients -> BOOLEAN]
  /\ server \in {"up", "down"}

\* What one end does not know of the other.
SessionInv(c) ==
  /\ (call[c] = NoCall) <=> (worker[c] \in {"read", "closed"})
  /\ Len(response[c]) <= Capacity
  /\ worker[c] # "answer" => writes[c] = <<>>
  /\ ~ Busy(c) => sending[c] = <<>> /\ taken[c] = <<>>
  /\ status[c] = "failed" => Busy(c) /\ sending[c] = <<>>
  /\ status[c] = "quit" => ~ Busy(c)

-----------------------------------------------------------------------------
(* Requests.                                                               *)

\* st is the fields of the calls of q, one call after the other: at[k] is
\* where those of the k-th call begin.
Spells(st, q) ==
  \E at \in [1 .. Len(q) + 1 -> 0 .. Len(st)] :
    /\ at[1] = 0 /\ at[Len(q) + 1] = Len(st)
    /\ \A k, l \in 1 .. Len(q) + 1 : k <= l => at[k] <= at[l]
    /\ \A k \in 1 .. Len(q) :
         /\ at[k + 1] = at[k] + Len(Fields(q[k]))
         /\ \A i \in 1 .. Len(Fields(q[k])) : st[at[k] + i] = Fields(q[k])[i]

\* In what follows st is the status of a client, un its calls that are not
\* served, se what it has to send, wk where its worker is, ca the worker's call,
\* fi the fields it has read and rq the request pipe.

\* The calls whose fields are not all read.
Ahead(un, wk) == IF wk \in {"call", "mutex"} THEN Tail(un) ELSE un

\* The last field a client sends, unless the worker has read it.
QuitSent(st, wk) == st = "quit" /\ wk # "closed"

\* The fields of calls in the request pipe.
Plain(st, wk, rq) == IF QuitSent(st, wk) THEN SubSeq(rq, 1, Len(rq) - 1) ELSE rq

Requests(st, un, se, wk, ca, fi, rq) ==
  /\ Spells(fi \o (Plain(st, wk, rq) \o se), Ahead(un, wk))
  /\ wk \in {"call", "mutex"} => un # <<>> /\ ca = Head(un)
  /\ fi # <<>> =>
       wk = "read" /\ un # <<>> /\ Len(fi) < Len(Fields(Head(un)))
  /\ QuitSent(st, wk) => rq # <<>> /\ rq[Len(rq)] = "quit"
  /\ wk = "closed" => st = "quit" /\ rq = <<>>

RequestInv(c) ==
  Requests(status[c], unserved[c], sending[c], worker[c], call[c], fields[c], request[c])

-----------------------------------------------------------------------------
(* Answers.                                                                *)

\* The shapes of answers.
IsShow(r) == "seats" \in DOMAIN r
IsList(r) == "ids" \in DOMAIN r

\* The answer belongs to the operation and to the events ev.
Fits(r, op, ev) ==
  \/ r = Store!Failure
  \/ r = Store!Success /\ op \in {"create", "reserve"}
  \/ /\ op = "show" /\ IsShow(r)
     /\ r = [err |-> "ok", rows |-> r.rows, cols |-> r.cols, seats |-> r.seats]
     /\ r.seats \in [Store!Cells(r.rows, r.cols) -> Nat]
     /\ \E p \in DOMAIN ev : r.rows = ev[p].rows /\ r.cols = ev[p].cols
  \/ /\ op = "list" /\ IsList(r)
     /\ r = [err |-> "ok", num_events |-> r.num_events, ids |-> r.ids]
     /\ r.num_events \in 1 .. Len(ev)
     /\ r.ids \in [1 .. r.num_events -> Nat]

\* The words of an answer, and where its fields begin and the last one ends.
Answer(r) ==
  IF r.err # "ok" THEN <<1>>
  ELSE IF IsShow(r)
  THEN [i \in 1 .. 5 + r.rows * r.cols |->
          IF i > 5 THEN r.seats[i - 6]
          ELSE IF i = 2 THEN r.rows ELSE IF i = 4 THEN r.cols ELSE 0]
  ELSE IF IsList(r)
  THEN [i \in 1 .. 3 + r.num_events |->
          IF i > 3 THEN r.ids[i - 3] ELSE IF i = 2 THEN r.num_events ELSE 0]
  ELSE <<0>>

Starts(r) ==
  IF r.err = "ok" /\ IsShow(r) THEN <<0, 1, 3, 5, 5 + r.rows * r.cols>>
  ELSE IF r.err = "ok" /\ IsList(r) THEN <<0, 1, 3, 3 + r.num_events>>
  ELSE <<0, 1>>

\* A field that may not go into the pipe at once.
Long(n) == n > Atomic /\ n + 5 > Capacity

\* n words of the answer have been written: what is left begins with the rest
\* of the j-th field, and a field is in the pipe in part only if it is long.
RestFrom(r, ws, n, j) ==
  /\ Len(ws) = Len(Writes(r)) + 1 - j
  /\ Starts(r)[j] <= n
  /\ j = Len(Writes(r)) + 1 => n = Starts(r)[j]
  /\ j <= Len(Writes(r)) =>
       /\ n + Len(ws[1]) = Starts(r)[j + 1]
       /\ \A i \in 1 .. Len(ws[1]) : ws[1][i] = Answer(r)[n + i]
       /\ \A k \in 2 .. Len(ws) : ws[k] = Writes(r)[j + k - 1]
       /\ n > Starts(r)[j] => Long(Len(Writes(r)[j])) /\ ws[1] # <<>>

Rest(r, ws, n) == \E j \in 1 .. Len(Writes(r)) + 1 : RestFrom(r, ws, n, j)

\* The client has read whole fields of the answer, the words ta, and the pipe,
\* rs, goes on there.
Follows(r, ta, rs) ==
  /\ \E m \in DOMAIN Starts(r) : Len(ta) = Starts(r)[m]
  /\ Len(ta) + Len(rs) <= Len(Answer(r))
  /\ \A k \in 1 .. Len(ta) : ta[k] = Answer(r)[k]
  /\ \A k \in 1 .. Len(rs) : rs[k] = Answer(r)[Len(ta) + k]

\* Before the answer to the call x is known, and after.
Before(x, un, wk, ta, rs, ws, up) ==
  /\ ta = <<>> /\ rs = <<>>
  /\ up = "up" => /\ wk = "answer" => ws \in {<<>>, << <<>> >>}
                  /\ un = IF x = NoCall THEN <<>> ELSE <<x>>

After(r, ev, x, se, un, wk, ta, rs, ws) ==
  /\ x # NoCall /\ se = <<>> /\ un = <<>> /\ wk \in {"read", "answer"}
  /\ Fits(r, x.op, ev)
  /\ Follows(r, ta, rs)
  /\ Rest(r, ws, Len(ta) + Len(rs))

AnswerInv(c) ==
  /\ given[c] = NoReply =>
       Before(calling[c], unserved[c], worker[c], taken[c], response[c], writes[c], server)
  /\ given[c] # NoReply =>
       After(given[c], events, calling[c], sending[c], unserved[c], worker[c],
             taken[c], response[c], writes[c])
  /\ status[c] = "failed" => server = "down" /\ response[c] = <<>>

ManyWords ==
  Len(events) > Atomic \/ \E p \in DOMAIN events : TooLong(p)

\* A read was short only because of a long field.
CutInv == (\E c \in Clients : cut[c]) => ManyWords

\* Only a client that died, is out of step or asks for too much ends the
\* server.
DownInv ==
  server = "down" => \E c \in Clients : cut[c] \/ status[c] = "dead" \/ AsksTooMuch(c)

\* A worker is about to write more than its stack has room for only if it was
\* asked to.
StackInv ==
  \A c \in Clients : \A k \in 1 .. Len(writes[c]) :
    Len(writes[c][k]) > ServerStack => AsksTooMuch(c)

ClientInv(c) == SessionInv(c) /\ RequestInv(c) /\ (~ cut[c] => AnswerInv(c))

Inv ==
  EventInv /\ DataInv /\ CutInv /\ DownInv /\ \A c \in Clients : ClientInv(c)

-----------------------------------------------------------------------------
(* Sequences.                                                              *)

\* What is at the head of b may as well be at the end of a.
LEMMA Shift ==
  ASSUME NEW S, NEW a \in Seq(S), NEW b \in Seq(S), b # <<>>
  PROVE  /\ Append(a, Head(b)) \in Seq(S) /\ Tail(b) \in Seq(S)
         /\ Append(a, Head(b)) \o Tail(b) = a \o b
<1>1. Head(b) \in S /\ Tail(b) \in Seq(S) /\ Append(a, Head(b)) \in Seq(S)
  OBVIOUS
<1>2. /\ Len(Append(a, Head(b))) = Len(a) + 1 /\ Len(Tail(b)) = Len(b) - 1
      /\ \A i \in 1 .. Len(a) : Append(a, Head(b))[i] = a[i]
      /\ Append(a, Head(b))[Len(a) + 1] = b[1]
      /\ \A i \in 1 .. Len(b) - 1 : Tail(b)[i] = b[i + 1]
  BY <1>1
<1> DEFINE l == Append(a, Head(b)) \o Tail(b)
           r == a \o b
<1>3. /\ l \in Seq(S) /\ Len(l) = Len(a) + Len(b)
      /\ \A i \in 1 .. Len(a) + Len(b) :
           l[i] = IF i <= Len(a) + 1 THEN Append(a, Head(b))[i] ELSE Tail(b)[i - (Len(a) + 1)]
  BY <1>1, <1>2, ConcatProperties
<1>4. /\ r \in Seq(S) /\ Len(r) = Len(a) + Len(b)
      /\ \A i \in 1 .. Len(a) + Len(b) : r[i] = IF i <= Len(a) THEN a[i] ELSE b[i - Len(a)]
  BY ConcatProperties
<1>5. ASSUME NEW i \in 1 .. Len(a) + Len(b) PROVE l[i] = r[i]
  <2> HIDE DEF l, r
  <2>0. Len(a) \in Nat /\ Len(b) \in Nat
    OBVIOUS
  <2>1. CASE i <= Len(a)
    BY <1>2, <1>3, <1>4, <2>0, <2>1
  <2>2. CASE i = Len(a) + 1
    BY <1>2, <1>3, <1>4, <2>0, <2>2
  <2>3. CASE i > Len(a) + 1
    <3>1. /\ l[i] = Tail(b)[i - (Len(a) + 1)] /\ r[i] = b[i - Len(a)]
          /\ i - (Len(a) + 1) \in 1 .. Len(b) - 1
      BY <1>3, <1>4, <2>0, <2>3
    <3> QED
      BY <1>2, <2>0, <3>1
  <2> QED
    BY <2>0, <2>1, <2>2, <2>3
<1>6. l = r
  <2> HIDE DEF l, r
  <2> QED
    BY <1>3, <1>4, <1>5, SeqEqual
<1> QED
  BY <1>1, <1>6

-----------------------------------------------------------------------------
(* The fields of a call.                                                   *)

LEMMA CallCases ==
  ASSUME NEW x \in Calls
  PROVE  \/ /\ x.op = "create" /\ x = [op |-> "create", id |-> x.id, shape |-> x.shape]
            /\ x.id \in Nat /\ x.shape \in Nat \X Nat
         \/ /\ x.op = "reserve" /\ x = [op |-> "reserve", id |-> x.id, seats |-> x.seats]
            /\ x.id \in Nat /\ x.seats \in Seq(Nat \X Nat)
         \/ x.op = "show" /\ x = [op |-> "show", id |-> x.id] /\ x.id \in Nat
         \/ x.op = "list" /\ x = [op |-> "list"]
BY ClientServerAssumption DEF Calls, Store!Calls

LEMMA NoCallIsNone == NoCall \notin Calls
BY CallCases DEF NoCall, Store!NoCall

\* Both ends agree on how many fields a call has and what they say.
LEMMA FieldsOf ==
  ASSUME NEW x \in Calls
  PROVE  /\ Fields(x) \in Seq(FieldValues) /\ Len(Fields(x)) \in 1 .. 5
         /\ Fields(x)[1] = x.op /\ Arity[x.op] = Len(Fields(x))
         /\ x.op \in {"create", "reserve", "show", "list"}
         /\ Decoded(Fields(x)) = x
<1>1. CASE x.op = "create" /\ x = [op |-> "create", id |-> x.id, shape |-> x.shape]
           /\ x.id \in Nat /\ x.shape \in Nat \X Nat
  <2>1. Fields(x) = <<"create", x.id, x.shape[1], x.shape[2]>>
    BY <1>1 DEF Fields
  <2>2. x.shape[1] \in Nat /\ x.shape[2] \in Nat /\ x.shape = <<x.shape[1], x.shape[2]>>
    BY <1>1
  <2>3. Fields(x) \in Seq(FieldValues)
    BY <1>1, <2>1, <2>2 DEF FieldValues
  <2>4. Decoded(Fields(x)) = [op |-> "create", id |-> x.id, shape |-> <<x.shape[1], x.shape[2]>>]
    BY <2>1 DEF Decoded
  <2> QED
    BY <1>1, <2>1, <2>2, <2>3, <2>4 DEF Arity
<1>2. CASE x.op = "reserve" /\ x = [op |-> "reserve", id |-> x.id, seats |-> x.seats]
           /\ x.id \in Nat /\ x.seats \in Seq(Nat \X Nat)
  <2> DEFINE n == Len(x.seats)
             xs == Column(x.seats, 1)
             ys == Column(x.seats, 2)
  <2>1. Fields(x) = <<"reserve", x.id, n, xs, ys>>
    BY <1>2 DEF Fields
  <2>2. n \in Nat /\ x.seats \in [1 .. n -> Nat \X Nat] /\ DOMAIN x.seats = 1 .. n
    BY <1>2
  <2>3. /\ xs = [k \in 1 .. n |-> x.seats[k][1]]
        /\ ys = [k \in 1 .. n |-> x.seats[k][2]]
    BY <2>2 DEF Column
  <2>4. /\ xs \in [1 .. n -> Nat] /\ ys \in [1 .. n -> Nat]
        /\ \A k \in 1 .. n : <<xs[k], ys[k]>> = x.seats[k]
    BY <2>2, <2>3
  <2>5. xs \in Seq(Nat) /\ ys \in Seq(Nat)
    <3> HIDE DEF xs, ys, n
    <3> QED
      BY <2>2, <2>4, SeqDef
  <2>6. Fields(x) \in Seq(FieldValues)
    <3> HIDE DEF xs, ys, n
    <3> QED
      BY <1>2, <2>1, <2>2, <2>5 DEF FieldValues
  <2>7. Decoded(Fields(x)) = [op |-> "reserve", id |-> x.id,
                              seats |-> [k \in 1 .. n |-> <<xs[k], ys[k]>>]]
    <3> HIDE DEF xs, ys, n
    <3> QED
      BY <2>1 DEF Decoded
  <2>8. [k \in 1 .. n |-> <<xs[k], ys[k]>>] = x.seats
    <3> HIDE DEF xs, ys, n
    <3> QED
      BY <2>2, <2>4
  <2>9. Decoded(Fields(x)) = x
    BY <1>2, <2>7, <2>8
  <2> HIDE DEF xs, ys, n
  <2>10. Len(Fields(x)) = 5 /\ Fields(x)[1] = "reserve"
    BY <2>1
  <2> QED
    BY <1>2, <2>6, <2>9, <2>10 DEF Arity
<1>3. CASE x.op = "show" /\ x = [op |-> "show", id |-> x.id] /\ x.id \in Nat
  <2>1. Fields(x) = <<"show", x.id>>
    BY <1>3 DEF Fields
  <2>2. Fields(x) \in Seq(FieldValues)
    BY <1>3, <2>1 DEF FieldValues
  <2>3. Decoded(Fields(x)) = [op |-> "show", id |-> x.id]
    BY <2>1 DEF Decoded
  <2> QED
    BY <1>3, <2>1, <2>2, <2>3 DEF Arity
<1>4. CASE x.op = "list" /\ x = [op |-> "list"]
  <2>1. Fields(x) = <<"list">>
    BY <1>4 DEF Fields
  <2>2. Fields(x) \in Seq(FieldValues)
    BY <2>1 DEF FieldValues
  <2>3. Decoded(Fields(x)) = [op |-> "list"]
    BY <2>1 DEF Decoded
  <2> QED
    BY <1>4, <2>1, <2>2, <2>3 DEF Arity
<1> QED
  BY <1>1, <1>2, <1>3, <1>4, CallCases

-----------------------------------------------------------------------------
(* Streams of fields.                                                      *)

LEMMA SpellsNothing ==
  /\ Spells(<<>>, <<>>)
  /\ \A st \in Seq(FieldValues) : Spells(st, <<>>) => st = <<>>
  /\ \A q \in Seq(Calls) : Spells(<<>>, q) => q = <<>>
<1>1. Spells(<<>>, <<>>)
  <2> DEFINE at == [k \in 1 .. 1 |-> 0]
  <2>1. Len(<<>>) = 0
    OBVIOUS
  <2>2. at \in [1 .. 0 + 1 -> 0 .. 0] /\ at[1] = 0
    OBVIOUS
  <2>3. \A k, l \in 1 .. 0 + 1 : k <= l => at[k] <= at[l]
    OBVIOUS
  <2> HIDE DEF at
  <2> QED
    BY <2>1, <2>2, <2>3 DEF Spells
<1>2. ASSUME NEW st \in Seq(FieldValues), Spells(st, <<>>) PROVE st = <<>>
  BY <1>2 DEF Spells
<1>3. ASSUME NEW q \in Seq(Calls), Spells(<<>>, q), q # <<>> PROVE FALSE
  <2>1. PICK at \in [1 .. Len(q) + 1 -> 0 .. 0] :
          /\ at[1] = 0
          /\ \A k \in 1 .. Len(q) : at[k + 1] = at[k] + Len(Fields(q[k]))
    BY <1>3 DEF Spells
  <2>2. 1 \in 1 .. Len(q) /\ 2 \in 1 .. Len(q) + 1 /\ q[1] \in Calls
    BY <1>3
  <2> DEFINE x == q[1]
  <2>3. Len(Fields(x)) \in 1 .. 5
    <3> HIDE DEF x
    <3> QED
      BY <2>2, FieldsOf DEF x
  <2> DEFINE L == Len(Fields(x))
  <2>4. at[1 + 1] = at[1] + L
    BY <2>1, <2>2
  <2> HIDE DEF x, L
  <2>5. at[1 + 1] = 0 + L
    BY <2>1, <2>4
  <2>6. at[1 + 1] = 0
    BY <2>2
  <2>7. L \in 1 .. 5
    BY <2>3 DEF L
  <2> QED
    BY <2>5, <2>6, <2>7
<1> QED
  BY <1>1, <1>2, <1>3

LEMMA SpellsMore ==
  ASSUME NEW st \in Seq(FieldValues), NEW q \in Seq(Calls), Spells(st, q), NEW x \in Calls
  PROVE  Spells(st \o Fields(x), Append(q, x))
<1> DEFINE n == Len(q)
           f == Fields(x)
           new == st \o f
<1>1. /\ f \in Seq(FieldValues) /\ Len(f) \in Nat /\ n \in Nat /\ Len(st) \in Nat
  BY FieldsOf
<1>2. PICK at \in [1 .. n + 1 -> 0 .. Len(st)] :
        /\ at[1] = 0 /\ at[n + 1] = Len(st)
        /\ \A k, l \in 1 .. n + 1 : k <= l => at[k] <= at[l]
        /\ \A k \in 1 .. n :
             /\ at[k + 1] = at[k] + Len(Fields(q[k]))
             /\ \A i \in 1 .. Len(Fields(q[k])) : st[at[k] + i] = Fields(q[k])[i]
  BY DEF Spells
<1>3. /\ Len(new) = Len(st) + Len(f)
      /\ \A i \in 1 .. Len(st) : new[i] = st[i]
      /\ \A i \in 1 .. Len(f) : new[Len(st) + i] = f[i]
  <2>1. \A i \in 1 .. Len(st) + Len(f) : new[i] = IF i <= Len(st) THEN st[i] ELSE f[i - Len(st)]
    BY <1>1, ConcatProperties
  <2> QED
    BY <1>1, <2>1, ConcatProperties
<1>4. /\ Append(q, x) \in Seq(Calls) /\ Len(Append(q, x)) = n + 1
      /\ \A k \in 1 .. n : Append(q, x)[k] = q[k] /\ q[k] \in Calls
      /\ Append(q, x)[n + 1] = x
  OBVIOUS
<1> DEFINE at2 == [k \in 1 .. n + 2 |-> IF k <= n + 1 THEN at[k] ELSE Len(st) + Len(f)]
<1>5. at2 \in [1 .. n + 2 -> 0 .. Len(st) + Len(f)]
  BY <1>1
<1>6. /\ \A k \in 1 .. n + 1 : at2[k] = at[k]
      /\ at2[n + 2] = Len(st) + Len(f) /\ at2[1] = 0
  BY <1>1, <1>2
<1> HIDE DEF at2, f, n, new
<1>7. \A k, l \in 1 .. n + 2 : k <= l => at2[k] <= at2[l]
  <2> SUFFICES ASSUME NEW k \in 1 .. n + 2, NEW l \in 1 .. n + 2, k <= l
               PROVE  at2[k] <= at2[l]
    OBVIOUS
  <2>1. CASE l <= n + 1
    BY <1>1, <1>2, <1>6, <2>1
  <2>2. CASE l = n + 2
    BY <1>1, <1>5, <1>6, <2>2
  <2>3. l <= n + 1 \/ l = n + 2
    BY <1>1
  <2> QED
    BY <2>1, <2>2, <2>3
<1>8. ASSUME NEW k \in 1 .. n + 1
      PROVE  /\ at2[k + 1] = at2[k] + Len(Fields(Append(q, x)[k]))
             /\ \A i \in 1 .. Len(Fields(Append(q, x)[k])) :
                  new[at2[k] + i] = Fields(Append(q, x)[k])[i]
  <2>1. CASE k \in 1 .. n
    <3>1. /\ Append(q, x)[k] = q[k] /\ at2[k] = at[k] /\ at2[k + 1] = at[k + 1]
          /\ at[k] \in Nat /\ at[k + 1] \in 0 .. Len(st)
      BY <1>1, <1>2, <1>4, <1>6, <2>1
    <3>2. Len(Fields(q[k])) \in Nat
      BY <1>4, <2>1, FieldsOf
    <3>3. ASSUME NEW i \in 1 .. Len(Fields(q[k])) PROVE new[at[k] + i] = Fields(q[k])[i]
      <4>1. at[k] + i \in 1 .. Len(st)
        BY SMTT(30), <1>1, <1>2, <2>1, <3>1, <3>2
      <4> QED
        BY <1>2, <1>3, <2>1, <4>1
    <3> QED
      BY <1>2, <2>1, <3>1, <3>3
  <2>2. CASE k = n + 1
    <3>1. Append(q, x)[k] = x /\ at2[k] = Len(st) /\ at2[k + 1] = Len(st) + Len(f)
      BY <1>1, <1>2, <1>4, <1>6, <2>2
    <3> QED
      BY <1>3, <3>1 DEF f
  <2>3. k \in 1 .. n \/ k = n + 1
    BY <1>1
  <2> QED
    BY <2>1, <2>2, <2>3
<1> DEFINE N == n + 1
           M == Len(st) + Len(f)
<1>9. /\ N \in Nat /\ M \in Nat /\ N + 1 = n + 2
      /\ Len(Append(q, x)) = N /\ Len(new) = M
      /\ at2 \in [1 .. N + 1 -> 0 .. M] /\ at2[1] = 0 /\ at2[N + 1] = M
  BY <1>1, <1>3, <1>4, <1>5, <1>6
<1>10. /\ \A k, l \in 1 .. N + 1 : k <= l => at2[k] <= at2[l]
       /\ \A k \in 1 .. N : at2[k + 1] = at2[k] + Len(Fields(Append(q, x)[k]))
       /\ \A k \in 1 .. N : \A i \in 1 .. Len(Fields(Append(q, x)[k])) :
             new[at2[k] + i] = Fields(Append(q, x)[k])[i]
  BY <1>7, <1>8, <1>9
<1> HIDE DEF N, M
<1> DEFINE q2 == Append(q, x)
<1>11. Len(q2) = N
  BY <1>9
<1>12. \A k \in 1 .. N :
         /\ at2[k + 1] = at2[k] + Len(Fields(q2[k]))
         /\ \A i \in 1 .. Len(Fields(q2[k])) : new[at2[k] + i] = Fields(q2[k])[i]
  BY <1>10
<1> HIDE DEF q2
<1>13. Spells(new, q2)
  <2>1. /\ at2 \in [1 .. Len(q2) + 1 -> 0 .. Len(new)]
        /\ at2[1] = 0 /\ at2[Len(q2) + 1] = Len(new)
        /\ \A k, l \in 1 .. Len(q2) + 1 : k <= l => at2[k] <= at2[l]
        /\ \A k \in 1 .. Len(q2) :
             /\ at2[k + 1] = at2[k] + Len(Fields(q2[k]))
             /\ \A i \in 1 .. Len(Fields(q2[k])) : new[at2[k] + i] = Fields(q2[k])[i]
    BY <1>9, <1>10, <1>11, <1>12, Zenon
  <2> QED
    BY <2>1, Zenon DEF Spells
<1> QED
  BY <1>13 DEF new, f, q2

\* The first call of the queue is at the beginning of the stream.
LEMMA SpellsFirst ==
  ASSUME NEW st \in Seq(FieldValues), NEW q \in Seq(Calls), Spells(st, q), q # <<>>
  PROVE  /\ Head(q) \in Calls /\ Len(Fields(Head(q))) <= Len(st)
         /\ \A i \in 1 .. Len(Fields(Head(q))) : st[i] = Fields(Head(q))[i]
         /\ Spells(SubSeq(st, Len(Fields(Head(q))) + 1, Len(st)), Tail(q))
<1> DEFINE n == Len(q)
           L == Len(Fields(Head(q)))
           new == SubSeq(st, L + 1, Len(st))
<1>1. /\ Head(q) \in Calls /\ Head(q) = q[1] /\ n \in Nat /\ n >= 1 /\ Len(st) \in Nat
      /\ Tail(q) \in Seq(Calls) /\ Len(Tail(q)) = n - 1
      /\ \A k \in 1 .. n - 1 : Tail(q)[k] = q[k + 1] /\ q[k + 1] \in Calls
  OBVIOUS
<1>2. L \in Nat
  BY <1>1, FieldsOf
<1>3. PICK at \in [1 .. n + 1 -> 0 .. Len(st)] :
        /\ at[1] = 0 /\ at[n + 1] = Len(st)
        /\ \A k, l \in 1 .. n + 1 : k <= l => at[k] <= at[l]
        /\ \A k \in 1 .. n :
             /\ at[k + 1] = at[k] + Len(Fields(q[k]))
             /\ \A i \in 1 .. Len(Fields(q[k])) : st[at[k] + i] = Fields(q[k])[i]
  BY DEF Spells
<1> HIDE DEF n
<1>4. 1 \in 1 .. n /\ 2 \in 1 .. n + 1 /\ at[2] = L /\ \A i \in 1 .. L : st[i] = Fields(Head(q))[i]
  <2>1. 1 \in 1 .. n /\ 2 \in 1 .. n + 1
    BY <1>1
  <2>2. at[2] = L /\ \A i \in 1 .. L : st[0 + i] = Fields(Head(q))[i]
    BY <1>1, <1>2, <1>3, <2>1
  <2> QED
    BY <1>2, <2>1, <2>2
<1>5. L <= Len(st)
  BY <1>1, <1>3, <1>4
<1> HIDE DEF L
<1>6. /\ Len(new) = Len(st) - L /\ \A i \in 1 .. Len(st) - L : new[i] = st[L + i]
  <2>1. \A i \in L + 1 .. Len(st) : st[i] \in FieldValues
    BY <1>1, <1>2
  <2>2. /\ Len(new) = IF L + 1 <= Len(st) THEN Len(st) - (L + 1) + 1 ELSE 0
        /\ \A i \in 1 .. Len(st) - (L + 1) + 1 : new[i] = st[L + 1 + i - 1]
    BY <1>1, <1>2, <2>1, SubSeqProperties
  <2> QED
    BY <1>1, <1>2, <1>5, <2>2
<1> DEFINE at2 == [k \in 1 .. n |-> at[k + 1] - L]
<1>7. at2 \in [1 .. n -> 0 .. Len(st) - L]
  <2> SUFFICES ASSUME NEW k \in 1 .. n PROVE at[k + 1] - L \in 0 .. Len(st) - L
    OBVIOUS
  <2>1. at[2] <= at[k + 1] /\ at[k + 1] \in 0 .. Len(st)
    BY <1>1, <1>3, <1>4
  <2> QED
    BY <1>1, <1>2, <1>4, <2>1
<1>8. \A k \in 1 .. n : at2[k] = at[k + 1] - L
  OBVIOUS
<1> HIDE DEF at2, new
<1>9. ASSUME NEW k \in 1 .. n, NEW l \in 1 .. n, k <= l PROVE at2[k] <= at2[l]
  <2>1. k + 1 \in 1 .. n + 1 /\ l + 1 \in 1 .. n + 1 /\ k + 1 <= l + 1
    BY <1>1, <1>9
  <2>2. at[k + 1] <= at[l + 1] /\ at[k + 1] \in Int /\ at[l + 1] \in Int
    BY <1>1, <1>3, <2>1
  <2> QED
    BY <1>2, <1>8, <2>2
<1>10. ASSUME NEW k \in 1 .. n - 1
       PROVE  /\ at2[k + 1] = at2[k] + Len(Fields(Tail(q)[k]))
              /\ \A i \in 1 .. Len(Fields(Tail(q)[k])) :
                   new[at2[k] + i] = Fields(Tail(q)[k])[i]
  <2> DEFINE x == q[k + 1]
             f == Fields(x)
  <2>1. /\ k \in 1 .. n /\ k + 1 \in 1 .. n /\ k + 1 \in 1 .. n + 1
        /\ k + 2 \in 1 .. n + 1 /\ 2 <= k + 1 /\ (k + 1) + 1 = k + 2
    BY <1>1
  <2>2. Tail(q)[k] = x /\ x \in Calls
    BY <1>1
  <2>3. at2[k] = at[k + 1] - L /\ at2[k + 1] = at[k + 2] - L
    BY <1>8, <2>1
  <2>4. at[k + 1] \in 0 .. Len(st) /\ at[k + 2] \in 0 .. Len(st)
    BY <2>1
  <2>5. at[2] <= at[k + 1]
    BY <1>3, <1>4, <2>1
  <2>6. at[(k + 1) + 1] = at[k + 1] + Len(f) /\ \A i \in 1 .. Len(f) : st[at[k + 1] + i] = f[i]
    BY <1>3, <2>1
  <2> HIDE DEF x
  <2>7. Len(f) \in Nat
    BY <2>2, FieldsOf
  <2> HIDE DEF f
  <2>8. at[k + 2] = at[k + 1] + Len(f)
    BY <2>1, <2>6
  <2>9. ASSUME NEW i \in 1 .. Len(f) PROVE new[at2[k] + i] = f[i]
    <3>1. at2[k] + i \in 1 .. Len(st) - L /\ L + (at2[k] + i) = at[k + 1] + i
      <4>1. PICK a \in Nat, b \in Nat, l \in Nat, h \in Nat :
              a = at[k + 1] /\ b = at[k + 2] /\ l = Len(f) /\ h = Len(st)
        BY <1>1, <2>4, <2>7
      <4>2. L <= a /\ b <= h /\ b = a + l
        <5>1. L <= a
          BY <1>4, <2>5, <4>1
        <5>2. b <= h
          BY <2>4, <4>1
        <5> QED
          BY <2>8, <4>1, <5>1, <5>2
      <4>3. at2[k] = a - L
        BY <2>3, <4>1
      <4>4. a - L + i \in 1 .. h - L /\ L + (a - L + i) = a + i
        <5>1. i \in Nat /\ 1 <= i /\ i <= l
          BY <4>1
        <5>2. a - L \in Nat /\ a - L + i <= h - L
          BY SMTT(30), <1>2, <4>1, <4>2, <5>1
        <5>3. L + (a - L + i) = a + i
          BY SMTT(30), <1>2, <4>1, <5>1
        <5>4. a - L + i \in Int /\ 1 <= a - L + i /\ h - L \in Int
          <6>1. PICK d \in Nat : d = a - L
            BY <5>2
          <6>2. d + i \in Int /\ 1 <= d + i
            BY <5>1
          <6>3. h - L \in Int
            BY <1>2, <4>1
          <6> QED
            BY <6>1, <6>2, <6>3
        <5> QED
          BY <5>2, <5>3, <5>4
      <4> QED
        BY <4>1, <4>3, <4>4
    <3>2. new[at2[k] + i] = st[at[k + 1] + i]
      BY <1>6, <3>1
    <3> QED
      BY <2>6, <3>2
  <2>10. at2[k + 1] = at2[k] + Len(f)
    BY <1>1, <1>2, <2>3, <2>4, <2>7, <2>8
  <2> QED
    BY <2>2, <2>9, <2>10 DEF f
<1>11. at2[1] = 0 /\ at2[n] = Len(new)
  <2>1. 1 \in 1 .. n /\ n \in 1 .. n /\ 1 + 1 = 2
    BY <1>1
  <2>2. at2[1] = at[1 + 1] - L /\ at2[n] = at[n + 1] - L
    BY <1>8, <2>1
  <2> QED
    BY <1>1, <1>2, <1>3, <1>4, <1>6, <2>1, <2>2
<1> DEFINE m == n - 1
           len == Len(st) - L
<1>12. /\ m \in Nat /\ m + 1 = n /\ len \in Nat /\ Len(Tail(q)) = m /\ Len(new) = len
       /\ at2 \in [1 .. m + 1 -> 0 .. len] /\ at2[m + 1] = len
  BY <1>1, <1>2, <1>5, <1>6, <1>7, <1>11
<1>13. /\ \A k, l \in 1 .. m + 1 : k <= l => at2[k] <= at2[l]
       /\ \A k \in 1 .. m : at2[k + 1] = at2[k] + Len(Fields(Tail(q)[k]))
       /\ \A k \in 1 .. m : \A i \in 1 .. Len(Fields(Tail(q)[k])) :
             new[at2[k] + i] = Fields(Tail(q)[k])[i]
  BY <1>9, <1>10, <1>12
<1> HIDE DEF m, len
<1> DEFINE q2 == Tail(q)
<1>14. /\ Len(q2) = m
       /\ \A k \in 1 .. m :
            /\ at2[k + 1] = at2[k] + Len(Fields(q2[k]))
            /\ \A i \in 1 .. Len(Fields(q2[k])) : new[at2[k] + i] = Fields(q2[k])[i]
  BY <1>12, <1>13
<1> HIDE DEF q2
<1>15. Spells(new, q2)
  <2>1. /\ at2 \in [1 .. Len(q2) + 1 -> 0 .. Len(new)]
        /\ at2[1] = 0 /\ at2[Len(q2) + 1] = Len(new)
        /\ \A k, l \in 1 .. Len(q2) + 1 : k <= l => at2[k] <= at2[l]
        /\ \A k \in 1 .. Len(q2) :
             /\ at2[k + 1] = at2[k] + Len(Fields(q2[k]))
             /\ \A i \in 1 .. Len(Fields(q2[k])) : new[at2[k] + i] = Fields(q2[k])[i]
    BY <1>11, <1>12, <1>13, <1>14, Zenon
  <2> QED
    BY <2>1, Zenon DEF Spells
<1> QED
  BY <1>1, <1>4, <1>5, <1>15 DEF L, new, q2

-----------------------------------------------------------------------------
(* The fields of an answer.                                                *)

LEMMA EventFields ==
  ASSUME EventInv
  PROVE  /\ Len(events) \in Nat /\ DOMAIN events = 1 .. Len(events)
         /\ \A p \in DOMAIN events :
              /\ events[p].id \in Nat /\ events[p].rows \in Nat /\ events[p].cols \in Nat
              /\ events[p].reservations \in Nat
              /\ events[p].data \in [Store!Cells(events[p].rows, events[p].cols) -> Nat]
<1> DEFINE Data == UNION {[0 .. n - 1 -> Nat] : n \in Nat}
           Event == [id : Nat, rows : Nat, cols : Nat, reservations : Nat, data : Data]
<1>1. events \in Seq(Event)
  BY DEF EventInv
<1> HIDE DEF Data
<1>2. \A e \in Event : e.id \in Nat /\ e.rows \in Nat /\ e.cols \in Nat /\ e.reservations \in Nat
  OBVIOUS
<1> HIDE DEF Event
<1>3. Len(events) \in Nat /\ DOMAIN events = 1 .. Len(events)
      /\ \A p \in DOMAIN events : events[p] \in Event
  BY <1>1
<1> QED
  BY <1>2, <1>3 DEF EventInv

LEMMA Joined ==
  ASSUME NEW a, NEW b, NEW c, NEW d
  PROVE  /\ <<a>> \o <<>> = <<a>>
         /\ <<a>> \o <<b, c>> = <<a, b, c>>
         /\ <<a>> \o <<b, c, d>> = <<a, b, c, d>>
<1> DEFINE S == {a, b, c, d}
<1>1. <<a>> \o <<>> = <<a>>
  OBVIOUS
<1>2. <<a>> \o <<b, c>> = <<a, b, c>>
  <2> DEFINE l == <<a>> \o <<b, c>>
             r == <<a, b, c>>
  <2>1. <<a>> \in Seq(S) /\ <<b, c>> \in Seq(S) /\ Len(<<a>>) = 1 /\ Len(<<b, c>>) = 2
    OBVIOUS
  <2>2. /\ l \in Seq(S) /\ Len(l) = 1 + 2
        /\ \A i \in 1 .. 1 + 2 : l[i] = IF i <= 1 THEN <<a>>[i] ELSE <<b, c>>[i - 1]
    BY <2>1, ConcatProperties
  <2> HIDE DEF l
  <2>3. l[1] = a /\ l[2] = b /\ l[3] = c
    BY <2>2
  <2>4. r \in Seq(S) /\ Len(r) = 3 /\ r[1] = a /\ r[2] = b /\ r[3] = c
    OBVIOUS
  <2> HIDE DEF r, S
  <2>5. \A i \in 1 .. 3 : l[i] = r[i]
    BY <2>3, <2>4
  <2>6. l = r
    BY <2>2, <2>4, <2>5, SeqEqual
  <2> QED
    BY <2>6 DEF l, r
<1>3. <<a>> \o <<b, c, d>> = <<a, b, c, d>>
  <2> DEFINE l == <<a>> \o <<b, c, d>>
             r == <<a, b, c, d>>
  <2>1. /\ <<a>> \in Seq(S) /\ <<b, c, d>> \in Seq(S)
        /\ Len(<<a>>) = 1 /\ Len(<<b, c, d>>) = 3
    OBVIOUS
  <2>2. /\ l \in Seq(S) /\ Len(l) = 1 + 3
        /\ \A i \in 1 .. 1 + 3 : l[i] = IF i <= 1 THEN <<a>>[i] ELSE <<b, c, d>>[i - 1]
    BY <2>1, ConcatProperties
  <2> HIDE DEF l
  <2>3. l[1] = a /\ l[2] = b /\ l[3] = c /\ l[4] = d
    BY <2>2
  <2>4. r \in Seq(S) /\ Len(r) = 4 /\ r[1] = a /\ r[2] = b /\ r[3] = c /\ r[4] = d
    OBVIOUS
  <2> HIDE DEF r, S
  <2>5. \A i \in 1 .. 4 : l[i] = r[i]
    BY <2>3, <2>4
  <2>6. l = r
    BY <2>2, <2>4, <2>5, SeqEqual
  <2> QED
    BY <2>6 DEF l, r
<1> QED
  BY <1>1, <1>2, <1>3

Shown(r, rows, cols, n, seats) ==
  /\ n = rows * cols
  /\ r = [err |-> "ok", rows |-> rows, cols |-> cols, seats |-> seats]
  /\ \E p \in DOMAIN events : rows = events[p].rows /\ cols = events[p].cols
  /\ Writes(r) = << <<0>>, <<rows, 0>>, <<cols, 0>>, [i \in 1 .. n |-> seats[i - 1]] >>
  /\ Answer(r) = [i \in 1 .. 5 + n |->
                    IF i > 5 THEN seats[i - 6]
                    ELSE IF i = 2 THEN rows ELSE IF i = 4 THEN cols ELSE 0]
  /\ Starts(r) = <<0, 1, 3, 5, 5 + n>>

Listed(r, n, ids) ==
  /\ r = [err |-> "ok", num_events |-> n, ids |-> ids]
  /\ Writes(r) = << <<0>>, <<n, 0>>, ids >>
  /\ Answer(r) = [i \in 1 .. 3 + n |->
                    IF i > 3 THEN ids[i - 3] ELSE IF i = 2 THEN n ELSE 0]
  /\ Starts(r) = <<0, 1, 3, 3 + n>>

\* An answer is a code alone, a show or a list.
LEMMA Shapes4 ==
  ASSUME EventInv, NEW r, NEW op, Fits(r, op, events)
  PROVE  \/ /\ r = Store!Failure
            /\ Writes(r) = << <<1>> >> /\ Answer(r) = <<1>> /\ Starts(r) = <<0, 1>>
         \/ /\ r = Store!Success /\ op \in {"create", "reserve"}
            /\ Writes(r) = << <<0>> >> /\ Answer(r) = <<0>> /\ Starts(r) = <<0, 1>>
         \/ \E rows, cols, n \in Nat : \E seats \in [0 .. n - 1 -> Nat] :
              op = "show" /\ Shown(r, rows, cols, n, seats)
         \/ \E n \in 1 .. Len(events) : \E ids \in [1 .. n -> Nat] :
              op = "list" /\ Listed(r, n, ids)
<1>1. CASE r = Store!Failure
  <2>1. r.err # "ok"
    BY <1>1 DEF Store!Failure
  <2> QED
    BY <1>1, <2>1 DEF Writes, Answer, Starts, Word
<1>2. CASE r = Store!Success /\ op \in {"create", "reserve"}
  <2>1. r.err = "ok" /\ "seats" \notin DOMAIN r /\ "ids" \notin DOMAIN r
    BY <1>2 DEF Store!Success
  <2>2. Writes(r) = <<Word(0)>> \o <<>>
    BY <2>1 DEF Writes
  <2> QED
    BY <1>2, <2>1, <2>2, Joined DEF Answer, Starts, IsShow, IsList, Word
<1>3. CASE /\ op = "show" /\ IsShow(r)
           /\ r = [err |-> "ok", rows |-> r.rows, cols |-> r.cols, seats |-> r.seats]
           /\ r.seats \in [Store!Cells(r.rows, r.cols) -> Nat]
           /\ \E p \in DOMAIN events : r.rows = events[p].rows /\ r.cols = events[p].cols
  <2>1. r.err = "ok" /\ "seats" \in DOMAIN r /\ "ids" \notin DOMAIN r
    BY <1>3 DEF IsShow
  <2> DEFINE rows == r.rows
             cols == r.cols
             seats == r.seats
             w == Seats(r)
  <2>0. rows \in Nat /\ cols \in Nat /\ rows * cols \in Nat
    <3>1. rows \in Nat /\ cols \in Nat
      BY <1>3, EventFields
    <3> QED
      BY <3>1
  <2>2. Writes(r) = <<Word(0)>> \o <<SizeT(rows), SizeT(cols), w>>
    BY <2>1 DEF Writes
  <2>3. /\ Answer(r) = [i \in 1 .. 5 + rows * cols |->
                          IF i > 5 THEN seats[i - 6]
                          ELSE IF i = 2 THEN rows ELSE IF i = 4 THEN cols ELSE 0]
        /\ Starts(r) = <<0, 1, 3, 5, 5 + rows * cols>>
    BY <1>3, <2>1 DEF Answer, Starts
  <2> HIDE DEF w
  <2>4. Writes(r) = << <<0>>, <<rows, 0>>, <<cols, 0>>, w >>
    <3> DEFINE a == SizeT(rows)
               b == SizeT(cols)
    <3>1. <<Word(0)>> \o <<a, b, w>> = <<Word(0), a, b, w>>
      BY Joined, ZenonT(30)
    <3> QED
      BY <2>2, <3>1 DEF Word, SizeT
  <2> DEFINE n == rows * cols
  <2>5. /\ seats \in [0 .. n - 1 -> Nat] /\ n \in Nat
        /\ r = [err |-> "ok", rows |-> rows, cols |-> cols, seats |-> seats]
        /\ w = [i \in 1 .. n |-> seats[i - 1]]
    BY <1>3, <2>0 DEF Store!Cells, w, Seats
  <2>6. /\ Answer(r) = [i \in 1 .. 5 + n |->
                          IF i > 5 THEN seats[i - 6]
                          ELSE IF i = 2 THEN rows ELSE IF i = 4 THEN cols ELSE 0]
        /\ Starts(r) = <<0, 1, 3, 5, 5 + n>>
    BY <2>3
  <2>7. n = rows * cols
    OBVIOUS
  <2>8. \E p \in DOMAIN events : rows = events[p].rows /\ cols = events[p].cols
    BY <1>3
  <2> HIDE DEF rows, cols, seats, n
  <2>9. Shown(r, rows, cols, n, seats)
    BY <2>4, <2>5, <2>6, <2>7, <2>8, Zenon DEF Shown
  <2> QED
    BY <1>3, <2>0, <2>5, <2>9
<1>4. CASE /\ op = "list" /\ IsList(r)
           /\ r = [err |-> "ok", num_events |-> r.num_events, ids |-> r.ids]
           /\ r.num_events \in 1 .. Len(events)
           /\ r.ids \in [1 .. r.num_events -> Nat]
  <2>1. r.err = "ok" /\ "seats" \notin DOMAIN r /\ "ids" \in DOMAIN r
    BY <1>4
  <2>2. Writes(r) = <<Word(0)>> \o <<SizeT(r.num_events), r.ids>>
    BY <2>1 DEF Writes
  <2>3. /\ Answer(r) = [i \in 1 .. 3 + r.num_events |->
                          IF i > 3 THEN r.ids[i - 3] ELSE IF i = 2 THEN r.num_events ELSE 0]
        /\ Starts(r) = <<0, 1, 3, 3 + r.num_events>>
    BY <1>4, <2>1 DEF Answer, Starts, IsShow, IsList
  <2>4. Writes(r) = << <<0>>, <<r.num_events, 0>>, r.ids >>
    BY <2>2, Joined DEF Word, SizeT
  <2>5. Listed(r, r.num_events, r.ids)
    BY <1>4, <2>3, <2>4 DEF Listed
  <2> QED
    BY <1>4, <2>5
<1> QED
  BY <1>1, <1>2, <1>3, <1>4 DEF Fits

LEMMA FunSeq ==
  ASSUME NEW S, NEW n \in Nat, NEW f \in [1 .. n -> S]
  PROVE  f \in Seq(S) /\ Len(f) = n
<1>1. f \in Seq(S)
  BY SeqDef
<1>2. DOMAIN f = 1 .. n /\ DOMAIN f = 1 .. Len(f) /\ Len(f) \in Nat
  BY <1>1, LenProperties
<1> QED
  BY <1>1, <1>2

\* The words of one field, written with one write and read with one read, lie
\* between two places of the answer.
Lies(x, a, from, to) ==
  /\ x \in Seq(Nat) /\ from <= 5 /\ to = from + Len(x)
  /\ \A i \in 1 .. Len(x) : x[i] = a[from + i]
  /\ Long(Len(x)) => ManyWords

\* How the words of an answer lie in the writes, and where the reads of it end.
Layout(r) ==
  LET w == Writes(r) s == Starts(r) a == Answer(r)
  IN  /\ w \in Seq(Seq(Nat)) /\ a \in Seq(Nat) /\ s \in Seq(Nat)
      /\ Len(w) \in 1 .. 4 /\ Len(s) = Len(w) + 1
      /\ s[1] = 0 /\ s[Len(w) + 1] = Len(a)
      /\ \A j \in 1 .. Len(w) : Lies(w[j], a, s[j], s[j + 1])
      /\ \A j, k \in 1 .. Len(w) + 1 : j <= k => s[j] <= s[k]
      /\ \A j, k \in 1 .. Len(w) : j < k => s[j] < s[k]

LEMMA IsLayout ==
  ASSUME NEW r, NEW w, NEW s, NEW a, w = Writes(r), s = Starts(r), a = Answer(r),
         NEW m \in 1 .. 4, NEW m1 \in 2 .. 5, m1 = m + 1, Len(w) = m, Len(s) = m1,
         w \in Seq(Seq(Nat)), a \in Seq(Nat), s \in Seq(Nat),
         s[1] = 0, s[m1] = Len(a),
         \A j \in 1 .. m : Lies(w[j], a, s[j], s[j + 1]),
         \A j, k \in 1 .. m1 : j < k => s[j] <= s[k] /\ (k <= m => s[j] < s[k])
  PROVE  Layout(r)
<1>1. \A j \in 1 .. m + 1 : s[j] \in Nat
  BY LenProperties
<1>2. \A j, k \in 1 .. m + 1 : j <= k => s[j] <= s[k]
  BY <1>1
<1>3. \A j, k \in 1 .. m : j < k => s[j] < s[k]
  OBVIOUS
<1>4. Len(w) \in 1 .. 4 /\ Len(s) = Len(w) + 1 /\ s[Len(w) + 1] = Len(a)
  OBVIOUS
<1> QED
  BY <1>2, <1>3, <1>4 DEF Layout

LEMMA WordLies ==
  ASSUME NEW n \in Nat, NEW a, a[1] = n
  PROVE  Lies(<<n>>, a, 0, 1)
<1>1. <<n>> \in Seq(Nat) /\ Len(<<n>>) = 1 /\ <<n>>[1] = n
  OBVIOUS
<1>2. ~ Long(1)
  BY ClientServerAssumption DEF Long
<1> DEFINE x == <<n>>
<1> HIDE DEF x
<1>3. \A i \in 1 .. 1 : x[i] = a[0 + i]
  BY <1>1 DEF x
<1> QED
  BY <1>1, <1>2, <1>3 DEF Lies, x

LEMMA SizeLies ==
  ASSUME NEW n \in Nat, NEW a, NEW from \in {1, 3}, a[from + 1] = n, a[from + 2] = 0
  PROVE  Lies(<<n, 0>>, a, from, from + 2)
<1> DEFINE x == <<n, 0>>
<1>1. x \in Seq(Nat) /\ Len(x) = 2 /\ x[1] = n /\ x[2] = 0
  OBVIOUS
<1>2. ~ Long(2)
  BY ClientServerAssumption DEF Long
<1> HIDE DEF x
<1>3. \A i \in 1 .. 2 : x[i] = a[from + i]
  BY <1>1
<1>4. from <= 5
  OBVIOUS
<1> QED
  BY <1>1, <1>2, <1>3, <1>4 DEF Lies, x

LEMMA ShortLayout ==
  ASSUME NEW r, NEW n \in Nat,
         Writes(r) = << <<n>> >>, Answer(r) = <<n>>, Starts(r) = <<0, 1>>
  PROVE  Layout(r)
<1> DEFINE w == Writes(r)
           a == Answer(r)
           s == Starts(r)
<1>1. /\ w \in Seq(Seq(Nat)) /\ a \in Seq(Nat) /\ s \in Seq(Nat)
      /\ Len(w) = 1 /\ Len(a) = 1 /\ Len(s) = 2 /\ s[1] = 0 /\ s[2] = 1
      /\ w[1] = <<n>> /\ a[1] = n
  OBVIOUS
<1> HIDE DEF w, a, s
<1>2. Lies(w[1], a, s[1], s[2])
  BY <1>1, WordLies
<1>3. \A j \in 1 .. 1 : Lies(w[j], a, s[j], s[j + 1])
  BY <1>2
<1>4. /\ \A j, k \in 1 .. 2 : j <= k => s[j] <= s[k]
      /\ \A j, k \in 1 .. 1 : j < k => s[j] < s[k]
  BY <1>1
<1> QED
  BY <1>1, <1>3, <1>4 DEF Layout, w, a, s

LEMMA ShowLayout ==
  ASSUME NEW r, NEW rows \in Nat, NEW cols \in Nat, NEW n \in Nat,
         NEW seats \in [0 .. n - 1 -> Nat], Shown(r, rows, cols, n, seats)
  PROVE  Layout(r)
<1> DEFINE w == Writes(r)
           a == Answer(r)
           s == Starts(r)
           f == [i \in 1 .. n |-> seats[i - 1]]
<1>1. f \in [1 .. n -> Nat] /\ \A i \in 1 .. n : f[i] = seats[i - 1]
  OBVIOUS
<1>2. f \in Seq(Nat) /\ Len(f) = n
  <2> HIDE DEF f
  <2> QED
    BY <1>1, FunSeq
<1>0. /\ n = rows * cols
      /\ \E p \in DOMAIN events : rows = events[p].rows /\ cols = events[p].cols
      /\ w = << <<0>>, <<rows, 0>>, <<cols, 0>>, f >>
      /\ a = [i \in 1 .. 5 + n |->
                    IF i > 5 THEN seats[i - 6]
                    ELSE IF i = 2 THEN rows ELSE IF i = 4 THEN cols ELSE 0]
      /\ s = <<0, 1, 3, 5, 5 + n>>
  BY DEF Shown
<1> HIDE DEF w, a, s
<1>3. a \in [1 .. 5 + n -> Nat]
  <2> USE <1>0
  <2> SUFFICES ASSUME NEW i \in 1 .. 5 + n
               PROVE  (IF i > 5 THEN seats[i - 6]
                       ELSE IF i = 2 THEN rows ELSE IF i = 4 THEN cols ELSE 0) \in Nat
    OBVIOUS
  <2>1. i > 5 => i - 6 \in 0 .. n - 1
    OBVIOUS
  <2> QED
    BY <2>1
<1>4. /\ a[1] = 0 /\ a[2] = rows /\ a[3] = 0 /\ a[4] = cols /\ a[5] = 0
      /\ \A i \in 1 .. n : a[5 + i] = f[i]
  <2>1. a[1] = 0 /\ a[2] = rows /\ a[3] = 0 /\ a[4] = cols /\ a[5] = 0
    <3> DEFINE v(i) == IF i > 5 THEN seats[i - 6]
                       ELSE IF i = 2 THEN rows ELSE IF i = 4 THEN cols ELSE 0
    <3>1. \A i \in 1 .. 5 : a[i] = v(i)
      BY SMTT(30), <1>0
    <3>2. v(1) = 0 /\ v(2) = rows /\ v(3) = 0 /\ v(4) = cols /\ v(5) = 0
      OBVIOUS
    <3> HIDE DEF v
    <3> QED
      BY <3>1, <3>2
  <2>2. ASSUME NEW i \in 1 .. n PROVE a[5 + i] = f[i]
    <3>1. 5 + i \in 1 .. 5 + n /\ 5 + i > 5 /\ (5 + i) - 6 = i - 1
      OBVIOUS
    <3>2. a[5 + i] = seats[(5 + i) - 6]
      BY <1>0, <3>1
    <3> HIDE DEF f
    <3> QED
      BY <1>1, <3>1, <3>2
  <2> QED
    BY <2>1, <2>2
<1>5. a \in Seq(Nat) /\ Len(a) = 5 + n
  <2> DEFINE m == 5 + n
  <2>1. m \in Nat /\ a \in [1 .. m -> Nat]
    BY <1>3
  <2> HIDE DEF m
  <2>2. a \in Seq(Nat) /\ Len(a) = m
    BY <2>1, FunSeq
  <2> QED
    BY <2>2 DEF m
<1>6. w = << <<0>>, <<rows, 0>>, <<cols, 0>>, f >>
  BY <1>0
<1> HIDE DEF f
<1>7. /\ Len(w) = 4 /\ w[1] = <<0>> /\ w[2] = <<rows, 0>> /\ w[3] = <<cols, 0>> /\ w[4] = f
      /\ w \in Seq(Seq(Nat))
  BY <1>2, <1>6
<1>8. /\ s \in Seq(Nat) /\ Len(s) = 5
      /\ s[1] = 0 /\ s[2] = 1 /\ s[3] = 3 /\ s[4] = 5 /\ s[5] = 5 + n
  <2> DEFINE m == 5 + n
  <2>1. m \in Nat
    OBVIOUS
  <2>2. s = <<0, 1, 3, 5, m>>
    BY <1>0
  <2> HIDE DEF m
  <2>3. s \in Seq(Nat) /\ Len(s) = 5 /\ s[1] = 0 /\ s[2] = 1 /\ s[3] = 3 /\ s[4] = 5 /\ s[5] = m
    BY <2>1, <2>2
  <2> QED
    BY <2>3 DEF m
<1>9. Lies(f, a, 5, 5 + n)
  <2>1. Long(n) => \E p \in DOMAIN events : TooLong(p)
    <3> SUFFICES ASSUME Long(n) PROVE \E p \in DOMAIN events : TooLong(p)
      OBVIOUS
    <3>1. PICK p \in DOMAIN events : rows = events[p].rows /\ cols = events[p].cols
      BY <1>0
    <3>2. events[p].rows * events[p].cols = n
      BY <1>0, <3>1
    <3>3. TooLong(p)
      BY <3>2 DEF Long, TooLong
    <3> QED
      BY <3>3
  <2>2. 5 <= 5 /\ f \in Seq(Nat) /\ 5 + n = 5 + Len(f)
    BY <1>2
  <2>3. \A i \in 1 .. Len(f) : f[i] = a[5 + i]
    BY <1>2, <1>4
  <2>4. Long(Len(f)) => ManyWords
    BY <1>2, <2>1 DEF ManyWords
  <2> QED
    BY <2>2, <2>3, <2>4 DEF Lies
<1>10. /\ Lies(w[1], a, s[1], s[2]) /\ Lies(w[2], a, s[2], s[3])
       /\ Lies(w[3], a, s[3], s[4]) /\ Lies(w[4], a, s[4], s[5])
  <2>1. Lies(<<0>>, a, 0, 1)
    BY <1>4, WordLies
  <2>2. Lies(<<rows, 0>>, a, 1, 1 + 2) /\ Lies(<<cols, 0>>, a, 3, 3 + 2)
    BY <1>4, SizeLies
  <2>3. 1 + 2 = 3 /\ 3 + 2 = 5
    OBVIOUS
  <2> QED
    BY <1>7, <1>8, <1>9, <2>1, <2>2, <2>3
<1>11. \A j \in 1 .. 4 : Lies(w[j], a, s[j], s[j + 1])
  BY <1>10
<1>12. ASSUME NEW j \in 1 .. 5, NEW k \in 1 .. 5, j < k
       PROVE  s[j] <= s[k] /\ (k <= 4 => s[j] < s[k])
  <2>0. PICK m \in Nat : m = 5 + n /\ s[5] = m
    BY <1>8
  <2>1. CASE k = 2
    BY <1>8, <1>12, <2>1
  <2>2. CASE k = 3
    BY <1>8, <1>12, <2>2
  <2>3. CASE k = 4
    BY <1>8, <1>12, <2>3
  <2>4. CASE k = 5
    <3>1. s[j] \in 0 .. 5 /\ 5 <= m
      BY <1>8, <1>12, <2>0, <2>4
    <3> QED
      BY <2>0, <2>4, <3>1
  <2> QED
    BY <1>12, <2>1, <2>2, <2>3, <2>4
<1>13. 4 \in 1 .. 4 /\ 5 \in 2 .. 5 /\ 5 = 4 + 1 /\ s[5] = Len(a)
  BY <1>5, <1>8
<1>14. w = Writes(r) /\ s = Starts(r) /\ a = Answer(r)
  BY DEF w, s, a
<1> QED
  BY <1>5, <1>7, <1>8, <1>11, <1>12, <1>13, <1>14, IsLayout

LEMMA ListLayout ==
  ASSUME EventInv, NEW r, NEW n \in 1 .. Len(events), NEW ids \in [1 .. n -> Nat],
         Listed(r, n, ids)
  PROVE  Layout(r)
<1> DEFINE w == Writes(r)
           a == Answer(r)
           s == Starts(r)
<1>1. n \in Nat /\ n <= Len(events) /\ Len(events) \in Nat
  BY EventFields
<1>2. ids \in Seq(Nat) /\ Len(ids) = n
  BY <1>1, FunSeq
<1>0. /\ w = << <<0>>, <<n, 0>>, ids >>
      /\ a = [i \in 1 .. 3 + n |-> IF i > 3 THEN ids[i - 3] ELSE IF i = 2 THEN n ELSE 0]
      /\ s = <<0, 1, 3, 3 + n>>
  BY DEF Listed
<1> HIDE DEF w, a, s
<1>3. a \in [1 .. 3 + n -> Nat]
  <2> USE <1>0
  <2> SUFFICES ASSUME NEW i \in 1 .. 3 + n
               PROVE  (IF i > 3 THEN ids[i - 3] ELSE IF i = 2 THEN n ELSE 0) \in Nat
    OBVIOUS
  <2>1. i > 3 => i - 3 \in 1 .. n
    BY <1>1
  <2> QED
    BY <1>1, <2>1
<1>4. /\ a[1] = 0 /\ a[2] = n /\ a[3] = 0
      /\ \A i \in 1 .. n : a[3 + i] = ids[i]
  <2>1. a[1] = 0 /\ a[2] = n /\ a[3] = 0
    BY <1>0, <1>1
  <2>2. ASSUME NEW i \in 1 .. n PROVE a[3 + i] = ids[i]
    <3>1. 3 + i \in 1 .. 3 + n /\ 3 + i > 3 /\ (3 + i) - 3 = i
      BY <1>1
    <3>2. a[3 + i] = ids[(3 + i) - 3]
      BY <1>0, <3>1
    <3> QED
      BY <3>1, <3>2
  <2> QED
    BY <2>1, <2>2
<1>5. a \in Seq(Nat) /\ Len(a) = 3 + n
  <2> DEFINE m == 3 + n
  <2>1. m \in Nat /\ a \in [1 .. m -> Nat]
    BY <1>1, <1>3
  <2> HIDE DEF m
  <2>2. a \in Seq(Nat) /\ Len(a) = m
    BY <2>1, FunSeq
  <2> QED
    BY <2>2 DEF m
<1>6. /\ Len(w) = 3 /\ w[1] = <<0>> /\ w[2] = <<n, 0>> /\ w[3] = ids
      /\ w \in Seq(Seq(Nat))
  BY <1>0, <1>1, <1>2
<1>7. /\ s \in Seq(Nat) /\ Len(s) = 4
      /\ s[1] = 0 /\ s[2] = 1 /\ s[3] = 3 /\ s[4] = 3 + n
  <2> DEFINE m == 3 + n
  <2>1. m \in Nat
    BY <1>1
  <2>2. s = <<0, 1, 3, m>>
    BY <1>0
  <2> HIDE DEF m
  <2>3. s \in Seq(Nat) /\ Len(s) = 4 /\ s[1] = 0 /\ s[2] = 1 /\ s[3] = 3 /\ s[4] = m
    BY <2>1, <2>2
  <2> QED
    BY <2>3 DEF m
<1>8. Lies(ids, a, 3, 3 + n)
  <2>1. Long(n) => Len(events) > Atomic
    BY <1>1, ClientServerAssumption DEF Long
  <2> QED
    BY <1>2, <1>4, <2>1 DEF Lies, ManyWords
<1>9. /\ Lies(w[1], a, s[1], s[2]) /\ Lies(w[2], a, s[2], s[3])
      /\ Lies(w[3], a, s[3], s[4])
  <2>1. Lies(<<0>>, a, 0, 1)
    BY <1>4, WordLies
  <2>2. Lies(<<n, 0>>, a, 1, 1 + 2)
    BY <1>1, <1>4, SizeLies
  <2>3. 1 + 2 = 3
    OBVIOUS
  <2> QED
    BY <1>6, <1>7, <1>8, <2>1, <2>2, <2>3
<1>10. \A j \in 1 .. 3 : Lies(w[j], a, s[j], s[j + 1])
  BY <1>9
<1>11. ASSUME NEW j \in 1 .. 4, NEW k \in 1 .. 4, j < k
       PROVE  s[j] <= s[k] /\ (k <= 3 => s[j] < s[k])
  <2>1. CASE j = 1
    BY <1>1, <1>7, <1>11, <2>1
  <2>2. CASE j = 2
    BY <1>1, <1>7, <1>11, <2>2
  <2>3. CASE j = 3
    BY <1>1, <1>7, <1>11, <2>3
  <2> QED
    BY <1>11, <2>1, <2>2, <2>3
<1>12. 3 \in 1 .. 4 /\ 4 \in 2 .. 5 /\ 4 = 3 + 1 /\ s[4] = Len(a)
  BY <1>5, <1>7
<1>13. w = Writes(r) /\ s = Starts(r) /\ a = Answer(r)
  BY DEF w, s, a
<1> QED
  BY <1>5, <1>6, <1>7, <1>10, <1>11, <1>12, <1>13, IsLayout

LEMMA LayoutOf ==
  ASSUME EventInv, NEW r, NEW op, Fits(r, op, events)
  PROVE  Layout(r)
<1>1. CASE /\ r = Store!Failure
           /\ Writes(r) = << <<1>> >> /\ Answer(r) = <<1>> /\ Starts(r) = <<0, 1>>
  BY <1>1, ShortLayout
<1>2. CASE /\ r = Store!Success
           /\ Writes(r) = << <<0>> >> /\ Answer(r) = <<0>> /\ Starts(r) = <<0, 1>>
  BY <1>2, ShortLayout
<1> QED
  BY <1>1, <1>2, Shapes4, ShowLayout, ListLayout

-----------------------------------------------------------------------------
(* Reading an answer.                                                      *)

LEMMA MinOne ==
  ASSUME NEW m \in Nat
  PROVE  Min({m}) = m
BY DEF Min

LEMMA MinTwo ==
  ASSUME NEW m \in Nat, NEW n \in Nat, m < n
  PROVE  Min({m, n}) = m
BY DEF Min

\* The reads that remain after the words q.
Remain(q, op) == {n \in Ends(q, op) : n > Len(q)}

\* The next read ends where the next field of the answer does, and there is
\* none when the answer is read.
ReadsNext(q, op, s, m, len) ==
  /\ Remain(q, op) = {} => Len(q) = len
  /\ Remain(q, op) # {} => \E j \in 1 .. m :
       /\ Min(Remain(q, op)) = s[j] /\ s[j] > Len(q)
       /\ \A k \in 1 .. m : s[k] <= Len(q) \/ s[j] <= s[k]

LEMMA ReadsOne ==
  ASSUME NEW q, NEW op, NEW s, NEW m, NEW len, NEW j \in 1 .. m, NEW v,
         v \in Remain(q, op), Min(Remain(q, op)) = v, s[j] = v, v > Len(q),
         \A k \in 1 .. m : s[k] <= Len(q) \/ s[j] <= s[k]
  PROVE  ReadsNext(q, op, s, m, len)
BY DEF ReadsNext

LEMMA ReadsCode ==
  ASSUME NEW q \in Seq(Nat), NEW op, NEW s, s[1] = 0, s[2] = 1,
         q = <<>> \/ /\ Len(q) = 1
                     /\ q[1] = 1 \/ op \in {"create", "reserve"}
  PROVE  ReadsNext(q, op, s, 2, 1)
<1>1. CASE q = <<>>
  <2>1. Remain(q, op) = {1} /\ Len(q) = 0
    BY <1>1 DEF Remain, Ends
  <2>2. Min({1}) = 1
    BY MinOne
  <2> QED
    BY <2>1, <2>2 DEF ReadsNext
<1>2. CASE Len(q) = 1 /\ (q[1] = 1 \/ op \in {"create", "reserve"})
  <2>1. Remain(q, op) = {}
    BY <1>2 DEF Remain, Ends
  <2> QED
    BY <1>2, <2>1 DEF ReadsNext
<1> QED
  BY <1>1, <1>2

LEMMA ReadsShow ==
  ASSUME NEW q \in Seq(Nat), NEW s, NEW n \in Nat,
         s[1] = 0, s[2] = 1, s[3] = 3, s[4] = 5, s[5] = 5 + n,
         Len(q) \in {0, 1, 3, 5, 5 + n},
         Len(q) >= 1 => q[1] = 0, Len(q) >= 5 => q[2] * q[4] = n
  PROVE  ReadsNext(q, "show", s, 5, 5 + n)
<1> DEFINE R == Remain(q, "show")
           len == 5 + n
<1>0. len \in Nat /\ len >= 5 /\ s[5] = len
  OBVIOUS
<1>1. CASE Len(q) = 0
  <2>1. R = {1}
    BY <1>1 DEF Remain, Ends
  <2>2. Min({1}) = 1
    BY MinOne
  <2> HIDE DEF len, R
  <2>3. \A k \in 1 .. 5 : s[k] <= Len(q) \/ s[2] <= s[k]
    BY <1>0, <1>1
  <2> QED
    <3>1. 1 \in Remain(q, "show") /\ Min(Remain(q, "show")) = 1
      BY <2>1, <2>2 DEF R
    <3>2. s[2] = 1 /\ 1 > Len(q)
      BY <1>0, <1>1
    <3>3. 2 \in 1 .. 5
      OBVIOUS
    <3>4. ReadsNext(q, "show", s, 5, len)
      BY <2>3, <3>1, <3>2, <3>3, ReadsOne
    <3> QED
      BY <3>4 DEF len
<1>2. CASE Len(q) = 1
  <2>0. q # <<>> /\ q[1] = 0
    <3>1. Len(q) >= 1 /\ (Len(q) >= 5 => q[2] * q[4] = n)
      BY <1>2
    <3>2. q # <<>>
      BY <3>1
    <3> QED
      BY <1>2, <3>1, <3>2
  <2>1. R = {3, 5}
    BY <1>2, <2>0 DEF Remain, Ends
  <2>2. Min({3, 5}) = 3
    BY MinTwo
  <2> HIDE DEF len, R
  <2>3. \A k \in 1 .. 5 : s[k] <= Len(q) \/ s[3] <= s[k]
    BY <1>0, <1>2
  <2> QED
    <3>1. 3 \in Remain(q, "show") /\ Min(Remain(q, "show")) = 3
      BY <2>1, <2>2 DEF R
    <3>2. s[3] = 3 /\ 3 > Len(q)
      BY <1>0, <1>2
    <3>3. 3 \in 1 .. 5
      OBVIOUS
    <3>4. ReadsNext(q, "show", s, 5, len)
      BY <2>3, <3>1, <3>2, <3>3, ReadsOne
    <3> QED
      BY <3>4 DEF len
<1>3. CASE Len(q) = 3
  <2>0. q # <<>> /\ q[1] = 0
    <3>1. Len(q) >= 1 /\ (Len(q) >= 5 => q[2] * q[4] = n)
      BY <1>3
    <3>2. q # <<>>
      BY <3>1
    <3> QED
      BY <1>3, <3>1, <3>2
  <2>1. R = {5}
    BY <1>3, <2>0 DEF Remain, Ends
  <2>2. Min({5}) = 5
    BY MinOne
  <2> HIDE DEF len, R
  <2>3. \A k \in 1 .. 5 : s[k] <= Len(q) \/ s[4] <= s[k]
    BY <1>0, <1>3
  <2> QED
    <3>1. 5 \in Remain(q, "show") /\ Min(Remain(q, "show")) = 5
      BY <2>1, <2>2 DEF R
    <3>2. s[4] = 5 /\ 5 > Len(q)
      BY <1>0, <1>3
    <3>3. 4 \in 1 .. 5
      OBVIOUS
    <3>4. ReadsNext(q, "show", s, 5, len)
      BY <2>3, <3>1, <3>2, <3>3, ReadsOne
    <3> QED
      BY <3>4 DEF len
<1>4. CASE Len(q) = 5 /\ n > 0
  <2>0. q # <<>> /\ q[1] = 0 /\ q[2] * q[4] = n
    <3>1. Len(q) >= 1 /\ (Len(q) >= 5 => q[2] * q[4] = n)
      BY <1>4
    <3>2. q # <<>>
      BY <3>1
    <3> QED
      BY <1>4, <3>1, <3>2
  <2>1. R = {len}
    BY <1>4, <2>0 DEF Remain, Ends
  <2>2. len > 5
    BY <1>4
  <2> HIDE DEF len, R
  <2>3. Min({len}) = len
    BY <1>0, MinOne
  <2>4. \A k \in 1 .. 5 : s[k] <= Len(q) \/ s[5] <= s[k]
    BY <1>0, <1>4
  <2> QED
    <3>1. len \in Remain(q, "show") /\ Min(Remain(q, "show")) = len
      BY <2>1, <2>3 DEF R
    <3>2. s[5] = len /\ len > Len(q)
      BY <1>0, <1>4
    <3>3. 5 \in 1 .. 5
      OBVIOUS
    <3>4. ReadsNext(q, "show", s, 5, len)
      BY <2>4, <3>1, <3>2, <3>3, ReadsOne
    <3> QED
      BY <3>4 DEF len
<1>5. CASE Len(q) = len
  <2>0. q # <<>> /\ q[1] = 0 /\ q[2] * q[4] = n
    <3>1. Len(q) >= 1 /\ (Len(q) >= 5 => q[2] * q[4] = n)
      BY <1>5
    <3>2. q # <<>>
      BY <3>1
    <3> QED
      BY <1>5, <3>1, <3>2
  <2>1. R = {}
    BY <1>0, <1>5, <2>0 DEF Remain, Ends
  <2> QED
    BY <1>5, <2>1 DEF ReadsNext
<1>6. Len(q) = 5 => n > 0 \/ Len(q) = len
  BY <1>0
<1> QED
  BY <1>1, <1>2, <1>3, <1>4, <1>5, <1>6

LEMMA ReadsList ==
  ASSUME NEW q \in Seq(Nat), NEW s, NEW n \in Nat, n > 0,
         s[1] = 0, s[2] = 1, s[3] = 3, s[4] = 3 + n,
         Len(q) \in {0, 1, 3, 3 + n},
         Len(q) >= 1 => q[1] = 0, Len(q) >= 3 => q[2] = n
  PROVE  ReadsNext(q, "list", s, 4, 3 + n)
<1> DEFINE R == Remain(q, "list")
           len == 3 + n
<1>0. len \in Nat /\ len > 3 /\ s[4] = len
  OBVIOUS
<1>1. CASE Len(q) = 0
  <2>1. R = {1}
    BY <1>1 DEF Remain, Ends
  <2>2. Min({1}) = 1
    BY MinOne
  <2> HIDE DEF len, R
  <2>3. \A k \in 1 .. 4 : s[k] <= Len(q) \/ s[2] <= s[k]
    BY <1>0, <1>1
  <2> QED
    <3>1. 1 \in Remain(q, "list") /\ Min(Remain(q, "list")) = 1
      BY <2>1, <2>2 DEF R
    <3>2. s[2] = 1 /\ 1 > Len(q)
      BY <1>0, <1>1
    <3>3. 2 \in 1 .. 4
      OBVIOUS
    <3>4. ReadsNext(q, "list", s, 4, len)
      BY <2>3, <3>1, <3>2, <3>3, ReadsOne
    <3> QED
      BY <3>4 DEF len
<1>2. CASE Len(q) = 1
  <2>0. q # <<>> /\ q[1] = 0
    <3>1. Len(q) >= 1 /\ (Len(q) >= 3 => q[2] = n)
      BY <1>2
    <3>2. q # <<>>
      BY <3>1
    <3> QED
      BY <1>2, <3>1, <3>2
  <2>1. R = {3}
    BY <1>2, <2>0 DEF Remain, Ends
  <2>2. Min({3}) = 3
    BY MinOne
  <2> HIDE DEF len, R
  <2>3. \A k \in 1 .. 4 : s[k] <= Len(q) \/ s[3] <= s[k]
    BY <1>0, <1>2
  <2> QED
    <3>1. 3 \in Remain(q, "list") /\ Min(Remain(q, "list")) = 3
      BY <2>1, <2>2 DEF R
    <3>2. s[3] = 3 /\ 3 > Len(q)
      BY <1>0, <1>2
    <3>3. 3 \in 1 .. 4
      OBVIOUS
    <3>4. ReadsNext(q, "list", s, 4, len)
      BY <2>3, <3>1, <3>2, <3>3, ReadsOne
    <3> QED
      BY <3>4 DEF len
<1>3. CASE Len(q) = 3
  <2>0. q # <<>> /\ q[1] = 0 /\ q[2] = n
    <3>1. Len(q) >= 1 /\ (Len(q) >= 3 => q[2] = n)
      BY <1>3
    <3>2. q # <<>>
      BY <3>1
    <3> QED
      BY <1>3, <3>1, <3>2
  <2>1. R = {len}
    BY <1>0, <1>3, <2>0 DEF Remain, Ends
  <2> HIDE DEF len, R
  <2>2. Min({len}) = len
    BY <1>0, MinOne
  <2>3. \A k \in 1 .. 4 : s[k] <= Len(q) \/ s[4] <= s[k]
    BY <1>0, <1>3
  <2> QED
    <3>1. len \in Remain(q, "list") /\ Min(Remain(q, "list")) = len
      BY <2>1, <2>2 DEF R
    <3>2. s[4] = len /\ len > Len(q)
      BY <1>0, <1>3
    <3>3. 4 \in 1 .. 4
      OBVIOUS
    <3>4. ReadsNext(q, "list", s, 4, len)
      BY <2>3, <3>1, <3>2, <3>3, ReadsOne
    <3> QED
      BY <3>4 DEF len
<1>4. CASE Len(q) = len
  <2>0. q # <<>> /\ q[1] = 0 /\ q[2] = n
    <3>1. Len(q) >= 1 /\ (Len(q) >= 3 => q[2] = n)
      BY <1>4
    <3>2. q # <<>>
      BY <3>1
    <3> QED
      BY <1>4, <3>1, <3>2
  <2>1. R = {}
    BY <1>0, <1>4, <2>0 DEF Remain, Ends
  <2> QED
    BY <1>4, <2>1 DEF ReadsNext
<1> QED
  BY <1>1, <1>2, <1>3, <1>4

\* What AnswerInv says of the words read is enough to know where the next read
\* ends.
LEMMA NextRead ==
  ASSUME EventInv, NEW r, NEW op, Fits(r, op, events), NEW q \in Seq(Nat),
         NEW m \in DOMAIN Starts(r), Len(q) = Starts(r)[m],
         \A k \in 1 .. Len(q) : q[k] = Answer(r)[k]
  PROVE  ReadsNext(q, op, Starts(r), Len(Starts(r)), Len(Answer(r)))
<1> DEFINE s == Starts(r)
           a == Answer(r)
<1>1. CASE \E n \in {0, 1} : /\ s = <<0, 1>> /\ a = <<n>>
                             /\ n = 1 \/ op \in {"create", "reserve"}
  <2>1. PICK n \in {0, 1} : s = <<0, 1>> /\ a = <<n>> /\ (n = 1 \/ op \in {"create", "reserve"})
    BY <1>1
  <2>2. /\ Len(s) = 2 /\ s[1] = 0 /\ s[2] = 1 /\ DOMAIN s = {1, 2}
        /\ Len(a) = 1 /\ a[1] = n
    BY <2>1
  <2> HIDE DEF s, a
  <2>3. m = 1 \/ m = 2
    BY <2>2 DEF s
  <2>4. Len(q) = 0 \/ Len(q) = 1
    BY <2>2, <2>3 DEF s
  <2>5. Len(q) = 1 => q[1] = n
    BY <2>2 DEF a
  <2>6. q = <<>> \/ (Len(q) = 1 /\ (q[1] = 1 \/ op \in {"create", "reserve"}))
    BY <2>1, <2>4, <2>5, EmptySeq
  <2>7. ReadsNext(q, op, s, 2, 1)
    BY <2>2, <2>6, ReadsCode
  <2> QED
    BY <2>2, <2>7 DEF s, a
<1>2. ASSUME NEW rows \in Nat, NEW cols \in Nat, NEW n \in Nat,
             NEW seats \in [0 .. n - 1 -> Nat], op = "show", Shown(r, rows, cols, n, seats)
      PROVE  ReadsNext(q, op, s, Len(s), Len(a))
  <2>1. /\ n = rows * cols /\ s = <<0, 1, 3, 5, 5 + n>>
        /\ a = [i \in 1 .. 5 + n |->
                    IF i > 5 THEN seats[i - 6]
                    ELSE IF i = 2 THEN rows ELSE IF i = 4 THEN cols ELSE 0]
    BY <1>2 DEF Shown
  <2> HIDE DEF s, a
  <2>2. /\ Len(s) = 5 /\ DOMAIN s = 1 .. 5
        /\ s[1] = 0 /\ s[2] = 1 /\ s[3] = 3 /\ s[4] = 5 /\ s[5] = 5 + n
    BY <2>1
  <2>3. /\ a[1] = 0 /\ a[2] = rows /\ a[4] = cols
    <3> DEFINE v(i) == IF i > 5 THEN seats[i - 6]
                       ELSE IF i = 2 THEN rows ELSE IF i = 4 THEN cols ELSE 0
    <3>1. \A i \in 1 .. 5 + n : a[i] = v(i)
      BY <2>1
    <3>2. v(1) = 0 /\ v(2) = rows /\ v(4) = cols
      OBVIOUS
    <3> HIDE DEF v
    <3> QED
      BY <3>1, <3>2
  <2>4. Len(a) = 5 + n
    <3>1. Layout(r)
      BY <1>2, ShowLayout
    <3>2. a \in Seq(Nat)
      BY <3>1 DEF Layout, a
    <3>3. DOMAIN a = 1 .. 5 + n /\ DOMAIN a = 1 .. Len(a) /\ Len(a) \in Nat
      BY <2>1, <3>2, LenProperties
    <3> QED
      BY <3>3
  <2>5. Len(q) = s[m] /\ m \in 1 .. 5
    BY <2>2 DEF s
  <2>6. Len(q) \in {0, 1, 3, 5, 5 + n}
    BY <2>2, <2>5
  <2>7. Len(q) >= 1 => q[1] = 0
    BY <2>3 DEF a
  <2>8. Len(q) >= 5 => q[2] * q[4] = n
    <3>1. Len(q) >= 5 => q[2] = rows /\ q[4] = cols
      BY <2>3 DEF a
    <3> QED
      BY <2>1, <3>1
  <2>9. ReadsNext(q, "show", s, 5, 5 + n)
    BY <2>2, <2>6, <2>7, <2>8, ReadsShow
  <2> QED
    BY <1>2, <2>2, <2>4, <2>9
<1>3. ASSUME NEW n \in 1 .. Len(events), NEW ids \in [1 .. n -> Nat],
             op = "list", Listed(r, n, ids)
      PROVE  ReadsNext(q, op, s, Len(s), Len(a))
  <2>0. n \in Nat /\ n > 0
    BY EventFields
  <2>1. /\ s = <<0, 1, 3, 3 + n>>
        /\ a = [i \in 1 .. 3 + n |-> IF i > 3 THEN ids[i - 3] ELSE IF i = 2 THEN n ELSE 0]
    BY <1>3 DEF Listed
  <2> HIDE DEF s, a
  <2>2. /\ Len(s) = 4 /\ DOMAIN s = 1 .. 4
        /\ s[1] = 0 /\ s[2] = 1 /\ s[3] = 3 /\ s[4] = 3 + n
    BY <2>0, <2>1
  <2>3. /\ a[1] = 0 /\ a[2] = n
    <3> DEFINE v(i) == IF i > 3 THEN ids[i - 3] ELSE IF i = 2 THEN n ELSE 0
    <3>1. \A i \in 1 .. 3 : a[i] = v(i)
      BY <2>0, <2>1
    <3>2. v(1) = 0 /\ v(2) = n
      OBVIOUS
    <3> HIDE DEF v
    <3> QED
      BY <3>1, <3>2
  <2>4. Len(a) = 3 + n
    <3>1. Layout(r)
      BY <1>3, ListLayout
    <3>2. a \in Seq(Nat)
      BY <3>1 DEF Layout, a
    <3>3. DOMAIN a = 1 .. 3 + n /\ DOMAIN a = 1 .. Len(a) /\ Len(a) \in Nat
      BY <2>1, <3>2, LenProperties
    <3> QED
      BY <2>0, <3>3
  <2>5. Len(q) = s[m] /\ m \in 1 .. 4
    BY <2>2 DEF s
  <2>6. Len(q) \in {0, 1, 3, 3 + n}
    BY <2>2, <2>5
  <2>7. (Len(q) >= 1 => q[1] = 0) /\ (Len(q) >= 3 => q[2] = n)
    BY <2>3 DEF a
  <2>8. ReadsNext(q, "list", s, 4, 3 + n)
    BY <2>0, <2>2, <2>6, <2>7, ReadsList
  <2> QED
    BY <1>3, <2>2, <2>4, <2>8
<1>4. CASE r = Store!Failure /\ Answer(r) = <<1>> /\ Starts(r) = <<0, 1>>
  BY <1>1, <1>4
<1>5. CASE /\ r = Store!Success /\ op \in {"create", "reserve"}
           /\ Answer(r) = <<0>> /\ Starts(r) = <<0, 1>>
  BY <1>1, <1>5
<1> DEFINE Goal == ReadsNext(q, op, s, Len(s), Len(a))
<1>6. \A rows, cols, n \in Nat : \A seats \in [0 .. n - 1 -> Nat] :
        op = "show" /\ Shown(r, rows, cols, n, seats) => Goal
  BY <1>2
<1>7. \A n \in 1 .. Len(events) : \A ids \in [1 .. n -> Nat] :
        op = "list" /\ Listed(r, n, ids) => Goal
  BY <1>3
<1>8. /\ r = Store!Failure /\ Answer(r) = <<1>> /\ Starts(r) = <<0, 1>> => Goal
      /\ r = Store!Success /\ op \in {"create", "reserve"}
         /\ Answer(r) = <<0>> /\ Starts(r) = <<0, 1>> => Goal
  BY <1>4, <1>5
<1> HIDE DEF s, a, Goal
<1>9. Goal
  BY SMTT(30), <1>6, <1>7, <1>8, Shapes4
<1> QED
  BY <1>9 DEF Goal, s, a

\* The words of a whole answer say what was answered.
LEMMA ResultIs ==
  ASSUME EventInv, NEW c, NEW r, NEW op, Op(c) = op, Fits(r, op, events), status[c] # "failed",
         taken[c] \in Seq(Nat), Len(taken[c]) = Len(Answer(r)),
         \A k \in 1 .. Len(taken[c]) : taken[c][k] = Answer(r)[k]
  PROVE  Result(c) = r /\ r # NoReply
<1> DEFINE t == taken[c]
           a == Answer(r)
           Goal == Result(c) = r /\ r # NoReply
<1>1. CASE r = Store!Failure /\ a = <<1>>
  <2>1. t[1] = 1
    <3>1. Len(a) = 1 /\ a[1] = 1
      BY <1>1
    <3> QED
      BY <3>1
  <2>2. Result(c) = Store!Failure
    BY <2>1 DEF Result
  <2> QED
    BY <1>1, <2>2 DEF NoReply, Store!NoReply, Store!Failure
<1>2. CASE r = Store!Success /\ a = <<0>> /\ Op(c) \in {"create", "reserve"}
  <2>1. t[1] = 0
    <3>1. Len(a) = 1 /\ a[1] = 0
      BY <1>2
    <3> QED
      BY <3>1
  <2>2. Result(c) = Store!Success
    BY <1>2, <2>1 DEF Result
  <2> QED
    BY <1>2, <2>2 DEF NoReply, Store!NoReply, Store!Success
<1>3. ASSUME NEW rows \in Nat, NEW cols \in Nat, NEW n \in Nat,
             NEW seats \in [0 .. n - 1 -> Nat], Op(c) = "show", Shown(r, rows, cols, n, seats)
      PROVE  Goal
  <2>1. /\ n = rows * cols
        /\ a = [i \in 1 .. 5 + n |->
                    IF i > 5 THEN seats[i - 6]
                    ELSE IF i = 2 THEN rows ELSE IF i = 4 THEN cols ELSE 0]
        /\ r = [err |-> "ok", rows |-> rows, cols |-> cols, seats |-> seats]
    BY <1>3 DEF Shown
  <2> DEFINE v(i) == IF i > 5 THEN seats[i - 6]
                     ELSE IF i = 2 THEN rows ELSE IF i = 4 THEN cols ELSE 0
  <2> HIDE DEF a
  <2>2. \A i \in 1 .. 5 + n : a[i] = v(i)
    BY <2>1
  <2>3. Len(a) = 5 + n
    <3>1. Layout(r)
      BY <1>3, ShowLayout
    <3>2. a \in Seq(Nat)
      BY <3>1 DEF Layout, a
    <3>3. DOMAIN a = 1 .. 5 + n /\ DOMAIN a = 1 .. Len(a) /\ Len(a) \in Nat
      BY <2>1, <3>2, LenProperties
    <3> QED
      BY <3>3
  <2> HIDE DEF t, v
  <2>4. \A i \in 1 .. 5 + n : t[i] = v(i)
    <3>1. Len(t) = 5 + n /\ \A i \in 1 .. Len(t) : t[i] = a[i]
      BY <2>3 DEF t, a
    <3> QED
      BY <2>2, <3>1
  <2>5. v(1) = 0 /\ v(2) = rows /\ v(4) = cols
    BY DEF v
  <2>6. t[1] = 0 /\ t[2] = rows /\ t[4] = cols
    <3>1. 1 \in 1 .. 5 + n /\ 2 \in 1 .. 5 + n /\ 4 \in 1 .. 5 + n
      OBVIOUS
    <3> QED
      BY <2>4, <2>5, <3>1, Zenon
  <2>7. \A i \in 0 .. n - 1 : t[6 + i] = seats[i]
    <3> SUFFICES ASSUME NEW i \in 0 .. n - 1 PROVE t[6 + i] = seats[i]
      OBVIOUS
    <3>1. 6 + i \in 1 .. 5 + n /\ 6 + i > 5 /\ (6 + i) - 6 = i
      OBVIOUS
    <3>2. v(6 + i) = seats[(6 + i) - 6]
      BY <3>1 DEF v
    <3> QED
      BY <2>4, <3>1, <3>2
  <2>8. Store!Cells(t[2], t[4]) = 0 .. n - 1
    BY <2>1, <2>6 DEF Store!Cells
  <2>9. [i \in Store!Cells(t[2], t[4]) |-> t[6 + i]] = seats
    BY <2>7, <2>8
  <2>10. Result(c) = [err |-> "ok", rows |-> t[2], cols |-> t[4],
                      seats |-> [i \in Store!Cells(t[2], t[4]) |-> t[6 + i]]]
    BY <1>3, <2>6 DEF Result, t
  <2>11. Result(c) = r
    BY <2>1, <2>6, <2>9, <2>10
  <2>12. r.err = "ok"
    BY <2>1
  <2> QED
    BY <2>11, <2>12 DEF NoReply, Store!NoReply
<1>4. ASSUME NEW n \in 1 .. Len(events), NEW ids \in [1 .. n -> Nat],
             Op(c) = "list", Listed(r, n, ids)
      PROVE  Goal
  <2>0. n \in Nat /\ n > 0
    BY EventFields
  <2>1. /\ a = [i \in 1 .. 3 + n |-> IF i > 3 THEN ids[i - 3] ELSE IF i = 2 THEN n ELSE 0]
        /\ r = [err |-> "ok", num_events |-> n, ids |-> ids]
    BY <1>4 DEF Listed
  <2> DEFINE v(i) == IF i > 3 THEN ids[i - 3] ELSE IF i = 2 THEN n ELSE 0
  <2> HIDE DEF a
  <2>2. \A i \in 1 .. 3 + n : a[i] = v(i)
    BY <2>1
  <2>3. Len(a) = 3 + n
    <3>1. Layout(r)
      BY <1>4, ListLayout
    <3>2. a \in Seq(Nat)
      BY <3>1 DEF Layout, a
    <3>3. DOMAIN a = 1 .. 3 + n /\ DOMAIN a = 1 .. Len(a) /\ Len(a) \in Nat
      BY <2>1, <3>2, LenProperties
    <3> QED
      BY <2>0, <3>3
  <2> HIDE DEF t, v
  <2>4. \A i \in 1 .. 3 + n : t[i] = v(i)
    <3>1. Len(t) = 3 + n /\ \A i \in 1 .. Len(t) : t[i] = a[i]
      BY <2>3 DEF t, a
    <3> QED
      BY <2>2, <3>1
  <2>5. v(1) = 0 /\ v(2) = n
    BY DEF v
  <2>6. t[1] = 0 /\ t[2] = n
    BY <2>0, <2>4, <2>5
  <2>7. \A i \in 1 .. n : t[3 + i] = ids[i]
    <3> SUFFICES ASSUME NEW i \in 1 .. n PROVE t[3 + i] = ids[i]
      OBVIOUS
    <3>1. 3 + i \in 1 .. 3 + n /\ 3 + i > 3 /\ (3 + i) - 3 = i
      BY <2>0
    <3>2. v(3 + i) = ids[(3 + i) - 3]
      BY <3>1 DEF v
    <3> QED
      BY <2>4, <3>1, <3>2
  <2>8. [i \in 1 .. t[2] |-> t[3 + i]] = ids
    BY <2>0, <2>6, <2>7
  <2>9. Result(c) = [err |-> "ok", num_events |-> t[2], ids |-> [i \in 1 .. t[2] |-> t[3 + i]]]
    BY <1>4, <2>6 DEF Result, t
  <2>10. Result(c) = r
    BY <2>1, <2>6, <2>8, <2>9
  <2>11. r.err = "ok"
    BY <2>1
  <2> QED
    BY <2>10, <2>11 DEF NoReply, Store!NoReply
<1>5. \A rows, cols, n \in Nat : \A seats \in [0 .. n - 1 -> Nat] :
        op = "show" /\ Shown(r, rows, cols, n, seats) => Goal
  BY <1>3
<1>6. \A n \in 1 .. Len(events) : \A ids \in [1 .. n -> Nat] :
        op = "list" /\ Listed(r, n, ids) => Goal
  BY <1>4
<1>7. /\ r = Store!Failure /\ Answer(r) = <<1>> => Goal
      /\ r = Store!Success /\ op \in {"create", "reserve"} /\ Answer(r) = <<0>> => Goal
  BY <1>1, <1>2
<1> HIDE DEF Goal
<1>8. Goal
  BY <1>5, <1>6, <1>7, Shapes4, SMTT(90)
<1> QED
  BY <1>8 DEF Goal

-----------------------------------------------------------------------------
(* What the steps of both ends do to the requests.                         *)

LEMMA PlainSeq ==
  ASSUME NEW st, NEW wk, NEW rq \in Seq(FieldValues)
  PROVE  Plain(st, wk, rq) \in Seq(FieldValues)
<1>1. \A i \in 1 .. Len(rq) - 1 : rq[i] \in FieldValues
  OBVIOUS
<1>2. SubSeq(rq, 1, Len(rq) - 1) \in Seq(FieldValues)
  BY <1>1, SubSeqProperties
<1> QED
  BY <1>2 DEF Plain

LEMMA AheadSeq ==
  ASSUME NEW un \in Seq(Calls), NEW wk, wk \in {"call", "mutex"} => un # <<>>
  PROVE  Ahead(un, wk) \in Seq(Calls)
BY HeadTailProperties DEF Ahead

\* The client makes a call.
LEMMA AskRequests ==
  ASSUME NEW un \in Seq(Calls), NEW wk, NEW ca, NEW fi \in Seq(FieldValues),
         NEW rq \in Seq(FieldValues), NEW x \in Calls,
         Requests("open", un, <<>>, wk, ca, fi, rq)
  PROVE  Requests("open", Append(un, x), Fields(x), wk, ca, fi, rq)
<1> DEFINE q == Ahead(un, wk)
           new == Append(un, x)
           f == Fields(x)
<1>0. /\ f \in Seq(FieldValues) /\ new \in Seq(Calls) /\ new # <<>>
      /\ Plain("open", wk, rq) = rq
  <2>1. f \in Seq(FieldValues)
    BY FieldsOf
  <2>2. new \in Seq(Calls) /\ new # <<>>
    BY AppendProperties
  <2>3. Plain("open", wk, rq) = rq
    BY DEF Plain, QuitSent
  <2> QED
    BY <2>1, <2>2, <2>3
<1>1. q \in Seq(Calls)
  BY AheadSeq DEF Requests
<1>2. Ahead(new, wk) = Append(q, x)
  <2>1. CASE wk \in {"call", "mutex"}
    <3>1. un # <<>>
      BY <2>1 DEF Requests
    <3>2. Tail(Append(un, x)) = Append(Tail(un), x)
      BY <3>1
    <3> QED
      BY <2>1, <3>2 DEF Ahead
  <2>2. CASE wk \notin {"call", "mutex"}
    BY <2>2 DEF Ahead
  <2> QED
    BY <2>1, <2>2
<1>3. un # <<>> => Head(new) = Head(un)
  OBVIOUS
<1>4. Spells(fi \o (rq \o <<>>), q)
  BY <1>0 DEF Requests
<1> HIDE DEF q, f, new
<1>5. rq \o <<>> = rq /\ fi \o rq \in Seq(FieldValues)
  BY ConcatEmptySeq, ConcatProperties
<1>6. Spells((fi \o rq) \o f, Append(q, x))
  BY <1>1, <1>4, <1>5, SpellsMore DEF f
<1>7. (fi \o rq) \o f = fi \o (rq \o f)
  BY <1>0, ConcatAssociative
<1>8. Spells(fi \o (Plain("open", wk, rq) \o f), Ahead(new, wk))
  BY <1>0, <1>2, <1>6, <1>7
<1>9. /\ wk \in {"call", "mutex"} => new # <<>> /\ ca = Head(new)
      /\ fi # <<>> => wk = "read" /\ new # <<>> /\ Len(fi) < Len(Fields(Head(new)))
      /\ wk # "closed" /\ ~ QuitSent("open", wk)
  BY <1>0, <1>3 DEF Requests, QuitSent
<1> QED
  BY <1>8, <1>9 DEF Requests, f, new

\* It writes a field.
LEMMA SendRequests ==
  ASSUME NEW un, NEW se \in Seq(FieldValues), NEW wk, NEW ca,
         NEW fi, NEW rq \in Seq(FieldValues), se # <<>>,
         Requests("open", un, se, wk, ca, fi, rq)
  PROVE  Requests("open", un, Tail(se), wk, ca, fi, Append(rq, Head(se)))
<1>1. /\ Plain("open", wk, rq) = rq
      /\ Plain("open", wk, Append(rq, Head(se))) = Append(rq, Head(se))
  BY DEF Plain, QuitSent
<1>2. Append(rq, Head(se)) \o Tail(se) = rq \o se
  BY Shift
<1>3. Spells(fi \o (Append(rq, Head(se)) \o Tail(se)), Ahead(un, wk))
  BY <1>1, <1>2 DEF Requests
<1>4. wk # "closed" /\ ~ QuitSent("open", wk)
  BY DEF Requests, QuitSent
<1> QED
  BY <1>1, <1>3, <1>4 DEF Requests

\* It quits.
LEMMA QuitRequests ==
  ASSUME NEW un, NEW wk, NEW ca, NEW fi, NEW rq \in Seq(FieldValues),
         Requests("open", un, <<>>, wk, ca, fi, rq)
  PROVE  Requests("quit", un, <<>>, wk, ca, fi, Append(rq, "quit"))
<1> DEFINE new == Append(rq, "quit")
<1>1. /\ new \in Seq(FieldValues) /\ new # <<>> /\ Len(new) = Len(rq) + 1
      /\ new[Len(new)] = "quit" /\ \A i \in 1 .. Len(rq) : new[i] = rq[i]
      /\ Len(rq) \in Nat
  BY DEF FieldValues
<1>2. Plain("open", wk, rq) = rq /\ wk # "closed" /\ QuitSent("quit", wk)
  BY DEF Plain, QuitSent, Requests
<1> HIDE DEF new
<1>3. SubSeq(new, 1, Len(new) - 1) = rq
  <2>1. Len(new) - 1 = Len(rq)
    BY <1>1
  <2>2. \A i \in 1 .. Len(rq) : new[i] \in FieldValues
    BY <1>1
  <2>3. /\ SubSeq(new, 1, Len(rq)) \in Seq(FieldValues)
        /\ Len(SubSeq(new, 1, Len(rq))) = Len(rq)
        /\ \A i \in 1 .. Len(rq) : SubSeq(new, 1, Len(rq))[i] = new[i]
    <3> DEFINE y == SubSeq(new, 1, Len(rq))
    <3>1. /\ y \in Seq(FieldValues)
          /\ Len(y) = IF 1 <= Len(rq) THEN Len(rq) - 1 + 1 ELSE 0
          /\ \A i \in 1 .. Len(rq) - 1 + 1 : y[i] = new[1 + i - 1]
      BY <1>1, <2>2, SubSeqProperties
    <3> HIDE DEF y
    <3>2. Len(y) = Len(rq)
      BY <1>1, <3>1
    <3>3. \A i \in 1 .. Len(rq) : y[i] = new[i]
      BY <1>1, <3>1
    <3> QED
      BY <3>1, <3>2, <3>3 DEF y
  <2>4. SubSeq(new, 1, Len(rq)) = rq
    BY <1>1, <2>3, SeqEqual
  <2> QED
    BY <2>1, <2>4
<1>4. Plain("quit", wk, new) = rq
  BY <1>2, <1>3 DEF Plain
<1> QED
  BY <1>1, <1>2, <1>4 DEF Requests, new

\* Its status changes otherwise.
LEMMA StatusRequests ==
  ASSUME NEW st, NEW st2, st # "quit", st2 # "quit",
         NEW un, NEW se, NEW wk, NEW ca, NEW fi, NEW rq,
         Requests(st, un, se, wk, ca, fi, rq)
  PROVE  Requests(st2, un, se, wk, ca, fi, rq)
<1>1. Plain(st2, wk, rq) = Plain(st, wk, rq)
  BY DEF Plain, QuitSent
<1> QED
  BY <1>1 DEF Requests, QuitSent

\* The worker goes from one place to another: it waits for a mutex, executes
\* the call, or ends it.
LEMMA MutexRequests ==
  ASSUME NEW st, NEW un, NEW se, NEW ca, NEW fi, NEW rq,
         Requests(st, un, se, "call", ca, fi, rq)
  PROVE  Requests(st, un, se, "mutex", ca, fi, rq)
<1>1. Plain(st, "mutex", rq) = Plain(st, "call", rq) /\ Ahead(un, "mutex") = Ahead(un, "call")
  BY DEF Plain, QuitSent, Ahead
<1> QED
  BY <1>1 DEF Requests, QuitSent

LEMMA ExecuteRequests ==
  ASSUME NEW st, NEW un, NEW se, NEW wk \in {"call", "mutex"}, NEW ca, NEW fi, NEW rq,
         Requests(st, un, se, wk, ca, fi, rq)
  PROVE  Requests(st, Tail(un), se, "answer", ca, fi, rq)
<1>1. Plain(st, "answer", rq) = Plain(st, wk, rq) /\ Ahead(Tail(un), "answer") = Ahead(un, wk)
  BY DEF Plain, QuitSent, Ahead
<1>2. fi = <<>>
  BY DEF Requests
<1> QED
  BY <1>1, <1>2 DEF Requests, QuitSent

LEMMA EndRequests ==
  ASSUME NEW st, NEW un, NEW se, NEW ca, NEW fi, NEW rq,
         Requests(st, un, se, "answer", ca, fi, rq)
  PROVE  Requests(st, un, se, "read", NoCall, fi, rq)
<1>1. Plain(st, "read", rq) = Plain(st, "answer", rq) /\ Ahead(un, "read") = Ahead(un, "answer")
  BY DEF Plain, QuitSent, Ahead
<1> QED
  BY <1>1 DEF Requests, QuitSent

LEMMA PlainHead ==
  ASSUME NEW st, NEW rq \in Seq(FieldValues), rq # <<>>,
         QuitSent(st, "read") => rq[Len(rq)] = "quit"
  PROVE  /\ Plain(st, "read", rq) = <<>> => st = "quit" /\ Head(rq) = "quit"
         /\ Plain(st, "read", rq) # <<>> =>
              /\ Head(Plain(st, "read", rq)) = Head(rq)
              /\ Plain(st, "read", Tail(rq)) = Tail(Plain(st, "read", rq))
              /\ QuitSent(st, "read") => /\ Tail(rq) # <<>>
                                         /\ Tail(rq)[Len(Tail(rq))] = "quit"
<1>1. CASE ~ QuitSent(st, "read")
  BY <1>1 DEF Plain
<1>2. CASE QuitSent(st, "read")
  <2> DEFINE n == Len(rq)
             p == SubSeq(rq, 1, n - 1)
             t == Tail(rq)
  <2>1. /\ n \in Nat /\ n >= 1 /\ Head(rq) = rq[1] /\ rq[n] = "quit"
        /\ \A i \in 1 .. n : rq[i] \in FieldValues
        /\ t \in Seq(FieldValues) /\ Len(t) = n - 1 /\ \A i \in 1 .. n - 1 : t[i] = rq[i + 1]
    BY <1>2
  <2>2. Plain(st, "read", rq) = p /\ Plain(st, "read", t) = SubSeq(t, 1, Len(t) - 1) /\ st = "quit"
    BY <1>2 DEF Plain, QuitSent
  <2>3. CASE n = 1
    <3>1. p = <<>>
      BY <2>1, <2>3, SubSeqEmpty
    <3> QED
      BY <2>1, <2>2, <2>3, <3>1
  <2>4. CASE n > 1
    <3>1. 1 \in 1 .. n /\ n - 1 \in 1 .. n
      BY <2>1, <2>4
    <3>2. Head(p) = rq[1] /\ Tail(p) = SubSeq(rq, 2, n - 1)
      BY <3>1, HeadTailOfSubSeq
    <3>3. t # <<>> /\ t[Len(t)] = "quit"
      <4> HIDE DEF t, n
      <4>1. PICK k \in Nat : k = n - 1
        BY <2>1
      <4>2. Len(t) = k /\ k >= 1 /\ k + 1 = n /\ k \in 1 .. n - 1
        BY <2>1, <2>4, <4>1
      <4>3. t[k] = rq[k + 1]
        BY <2>1, <4>2
      <4>4. t # <<>>
        BY <4>2
      <4> QED
        BY <2>1, <4>2, <4>3, <4>4
    <3>4. SubSeq(t, 1, Len(t) - 1) = SubSeq(rq, 2, n - 1)
      <4> DEFINE a == SubSeq(t, 1, Len(t) - 1)
                 b == SubSeq(rq, 2, n - 1)
                 m == n - 2
      <4>1. m \in Nat /\ Len(t) - 1 = m /\ n - 1 = m + 1
        BY <2>1, <2>4
      <4>2. \A i \in 1 .. m : t[i] \in FieldValues /\ t[i] = rq[i + 1]
        BY <2>1, <4>1
      <4>3. \A i \in 2 .. m + 1 : rq[i] \in FieldValues
        BY <2>1, <4>1
      <4>4. /\ a \in Seq(FieldValues) /\ Len(a) = IF 1 <= m THEN m - 1 + 1 ELSE 0
            /\ \A i \in 1 .. m - 1 + 1 : a[i] = t[1 + i - 1]
        BY <4>1, <4>2, SubSeqProperties
      <4>5. /\ b \in Seq(FieldValues) /\ Len(b) = IF 2 <= m + 1 THEN m + 1 - 2 + 1 ELSE 0
            /\ \A i \in 1 .. m + 1 - 2 + 1 : b[i] = rq[2 + i - 1]
        BY <4>1, <4>3, SubSeqProperties
      <4> HIDE DEF a, b, m, t, n
      <4>6. Len(a) = m /\ Len(b) = m
        BY <4>1, <4>4, <4>5
      <4>7. ASSUME NEW i \in 1 .. m PROVE a[i] = b[i]
        <5>1. 1 + i - 1 = i /\ 2 + i - 1 = i + 1 /\ m - 1 + 1 = m /\ m + 1 - 2 + 1 = m
          BY <4>1
        <5> QED
          BY <4>2, <4>4, <4>5, <5>1
      <4>8. a = b
        BY <4>4, <4>5, <4>6, <4>7, SeqEqual
      <4> QED
        BY <4>8 DEF a, b
    <3>5. Plain(st, "read", rq) = p /\ Plain(st, "read", t) = Tail(p) /\ Head(p) = Head(rq)
      <4> HIDE DEF p, t, n
      <4> QED
        BY <2>1, <2>2, <3>2, <3>4
    <3>6. p # <<>>
      <4>1. p \in Seq(FieldValues) /\ Len(p) = n - 1
        <5>1. n - 1 \in Nat /\ 1 <= n - 1 /\ \A i \in 1 .. n - 1 : rq[i] \in FieldValues
          BY <2>1, <2>4
        <5> HIDE DEF n
        <5>2. p \in Seq(FieldValues) /\ Len(p) = IF 1 <= n - 1 THEN n - 1 - 1 + 1 ELSE 0
          BY <5>1, SubSeqProperties
        <5> HIDE DEF p
        <5> QED
          BY <5>1, <5>2
      <4> HIDE DEF p, n
      <4>2. Len(p) >= 1
        BY <4>1, <2>1, <2>4
      <4> QED
        BY <4>2
    <3> HIDE DEF p, n
    <3> QED
      BY <3>3, <3>5, <3>6
  <2> QED
    BY <2>1, <2>3, <2>4
<1> QED
  BY <1>1, <1>2

LEMMA Suffix ==
  ASSUME NEW S, NEW a \in Seq(S), NEW b \in Seq(S)
  PROVE  /\ SubSeq(a \o b, Len(a) + 1, Len(a \o b)) = b
         /\ \A i \in 1 .. Len(a) : (a \o b)[i] = a[i]
         /\ Len(a \o b) = Len(a) + Len(b)
<1>1. /\ Len(a \o b) = Len(a) + Len(b) /\ Len(a) \in Nat /\ Len(b) \in Nat
      /\ \A i \in 1 .. Len(a) : (a \o b)[i] = a[i]
  BY ConcatProperties
<1>2. CASE b = <<>>
  <2>1. Len(b) = 0
    BY <1>2
  <2>2. SubSeq(a \o b, Len(a) + 1, Len(a)) = <<>>
    BY <1>1, SubSeqEmpty
  <2> QED
    BY <1>1, <1>2, <2>1, <2>2
<1>3. CASE b # <<>>
  <2> DEFINE m == Len(a) + 1
             n == Len(a) + Len(b)
  <2>1. Len(b) >= 1 /\ m \in Len(a) + 1 .. Len(a) + Len(b) /\ n \in Len(a) + 1 .. Len(a) + Len(b)
    BY <1>1, <1>3
  <2>2. SubSeq(a \o b, m, n) = SubSeq(b, m - Len(a), n - Len(a))
    BY <2>1, SubSeqOfConcat2
  <2>3. m - Len(a) = 1 /\ n - Len(a) = Len(b)
    BY <1>1
  <2>4. SubSeq(b, 1, Len(b)) = b
    BY SubSeqFull
  <2> QED
    BY <1>1, <2>2, <2>3, <2>4
<1> QED
  BY <1>1, <1>2, <1>3

LEMMA JoinFields ==
  ASSUME NEW a \in Seq(FieldValues), NEW b \in Seq(FieldValues), NEW d \in Seq(FieldValues)
  PROVE  (a \o b) \o d = a \o (b \o d)
BY ConcatAssociative

\* The fields f have been read of the call at the head of un, maybe all.
FieldRead(st, un, se, ca, f, rq) ==
  /\ f \in Seq(FieldValues) /\ Len(f) \in Nat /\ un # <<>> /\ Head(un) \in Calls
  /\ Len(f) < Arity[f[1]] => Requests(st, un, se, "read", ca, f, rq)
  /\ ~ (Len(f) < Arity[f[1]]) =>
       /\ Decoded(f) = Head(un)
       /\ Requests(st, un, se, "call", Decoded(f), <<>>, rq)

\* The worker reads a field.
LEMMA ReadRequests ==
  ASSUME NEW st, NEW un \in Seq(Calls), NEW se \in Seq(FieldValues), NEW ca,
         NEW fi \in Seq(FieldValues), NEW rq \in Seq(FieldValues), rq # <<>>,
         Requests(st, un, se, "read", ca, fi, rq), st = "quit" => se = <<>>,
         fi = <<>> => Head(rq) # "quit"
  PROVE  FieldRead(st, un, se, ca, Append(fi, Head(rq)), Tail(rq))
<1> SUFFICES ASSUME NEW f, f = Append(fi, Head(rq))
             PROVE  FieldRead(st, un, se, ca, f, Tail(rq))
  OBVIOUS
<1> DEFINE P == Plain(st, "read", rq)
           R == Tail(P) \o se
           S == fi \o (P \o se)
           x == Head(un)
           F == Fields(x)
<1>1. /\ Spells(S, un) /\ P \in Seq(FieldValues)
      /\ fi # <<>> => un # <<>> /\ Len(fi) < Len(F)
      /\ QuitSent(st, "read") => rq[Len(rq)] = "quit"
  BY PlainSeq DEF Requests, Ahead
<1>2. un # <<>> => x \in Calls /\ Tail(un) \in Seq(Calls)
  BY HeadTailProperties
<1>3. P # <<>>
  <2> SUFFICES ASSUME P = <<>> PROVE FALSE
    OBVIOUS
  <2>1. st = "quit" /\ Head(rq) = "quit" /\ se = <<>>
    BY <1>1, PlainHead
  <2>2. fi # <<>> /\ un # <<>>
    BY <1>1, <2>1
  <2>3. S = fi
    BY <2>1, ConcatEmptySeq
  <2>4. Len(F) <= Len(fi)
    BY <1>1, <2>2, <2>3, SpellsFirst
  <2>5. Len(F) \in Nat /\ Len(fi) \in Nat /\ Len(fi) < Len(F)
    <3>1. Len(F) \in 1 .. 5
      BY <1>2, <2>2, FieldsOf
    <3>2. Len(fi) < Len(F) /\ Len(fi) \in Nat
      BY <1>1, <2>2
    <3> QED
      BY <3>1, <3>2
  <2> HIDE DEF F
  <2> QED
    BY <2>4, <2>5
<1>4. /\ Head(P) = Head(rq) /\ Plain(st, "read", Tail(rq)) = Tail(P)
      /\ QuitSent(st, "read") => Tail(rq) # <<>> /\ Tail(rq)[Len(Tail(rq))] = "quit"
  BY <1>1, <1>3, PlainHead
<1> HIDE DEF P
<1>5. /\ f \in Seq(FieldValues) /\ Tail(P) \in Seq(FieldValues) /\ f \o Tail(P) = fi \o P
  <2>1. f = Append(fi, Head(P)) /\ P \in Seq(FieldValues)
    BY <1>1, <1>4
  <2> QED
    BY SMTT(30), <1>3, <2>1, Shift
<1>6. R \in Seq(FieldValues) /\ f \o R = S /\ S \in Seq(FieldValues)
  <2>0. P \in Seq(FieldValues)
    BY <1>1
  <2>a. PICK tp \in Seq(FieldValues) : tp = Tail(P)
    BY <1>5
  <2>d. f \in Seq(FieldValues)
    BY <1>5
  <2>b. (f \o tp) \o se = f \o (tp \o se)
    BY <2>d, JoinFields, ZenonT(60)
  <2>c. (fi \o P) \o se = fi \o (P \o se)
    <3>1. PICK p \in Seq(FieldValues) : p = P
      BY <2>0
    <3>2. (fi \o p) \o se = fi \o (p \o se)
      BY JoinFields, ZenonT(60)
    <3> QED
      BY <3>1, <3>2
  <2>1. (f \o Tail(P)) \o se = f \o R /\ (fi \o P) \o se = S
    BY <2>a, <2>b, <2>c
  <2>2. R \in Seq(FieldValues)
    BY <1>5, ConcatProperties
  <2>3. f \o R \in Seq(FieldValues)
    BY <1>5, <2>2, ConcatProperties
  <2> QED
    BY <1>5, <2>1, <2>2, <2>3
<1>7. /\ Len(f) = Len(fi) + 1 /\ Len(fi) \in Nat /\ (fi = <<>> => Len(fi) = 0)
  BY <1>4, <1>1, <1>3
<1> HIDE DEF R, S
<1>8. SubSeq(S, Len(f) + 1, Len(S)) = R /\ Len(S) = Len(f) + Len(R)
      /\ \A i \in 1 .. Len(f) : S[i] = f[i]
  BY <1>5, <1>6, Suffix
<1>9. un # <<>> /\ x \in Calls
  <2>1. Len(S) >= 1
    BY <1>6, <1>7, <1>8
  <2>2. S # <<>>
    BY <2>1
  <2> QED
    BY <1>1, <1>2, <1>6, <2>2, SpellsNothing
<1>10. /\ F \in Seq(FieldValues) /\ Len(F) \in 1 .. 5 /\ Arity[F[1]] = Len(F) /\ Decoded(F) = x
  BY <1>9, FieldsOf
<1>11. /\ Len(F) <= Len(S) /\ \A i \in 1 .. Len(F) : S[i] = F[i]
       /\ Spells(SubSeq(S, Len(F) + 1, Len(S)), Tail(un))
  BY <1>1, <1>6, <1>9, SpellsFirst
<1> HIDE DEF F
<1>12. Len(f) <= Len(F) /\ \A i \in 1 .. Len(f) : f[i] = F[i]
  <2>1. Len(f) <= Len(F)
    <3>0. Len(F) \in 1 .. 5
      BY <1>10
    <3>a. PICK b \in 1 .. 5 : b = Len(F)
      BY <3>0, Zenon
    <3>b. PICK a \in Nat : a = Len(fi)
      BY <1>7, Zenon
    <3>1. a = Len(fi) /\ b = Len(F) /\ b \in Nat /\ b >= 1
      BY <3>a, <3>b
    <3>2. fi # <<>> => a < b
      BY <1>1, <3>1
    <3>3. fi = <<>> => a = 0
      BY <1>7, <3>1
    <3>4. a + 1 <= b
      BY <3>1, <3>2, <3>3
    <3> QED
      BY <1>7, <3>1, <3>4
  <2> QED
    BY <1>7, <1>8, <1>10, <1>11, <2>1
<1>13. Arity[f[1]] = Len(F)
  <2>1. 1 \in 1 .. Len(f)
    BY <1>7
  <2> QED
    BY <1>10, <1>12, <2>1
<1>14. ASSUME Len(f) < Len(F) PROVE Requests(st, un, se, "read", ca, f, Tail(rq))
  <2>1. Spells(f \o (Plain(st, "read", Tail(rq)) \o se), Ahead(un, "read"))
    BY <1>1, <1>4, <1>6 DEF R, Ahead
  <2> QED
    BY <1>4, <1>9, <1>14, <2>1 DEF Requests, F
<1>15. ASSUME ~ (Len(f) < Len(F)) PROVE Decoded(f) = x
                                  /\ Requests(st, un, se, "call", Decoded(f), <<>>, Tail(rq))
  <2>1. Len(f) = Len(F)
    BY <1>7, <1>10, <1>12, <1>15
  <2>2. f = F
    BY <1>5, <1>10, <1>12, <2>1, SeqEqual
  <2>3. Spells(R, Tail(un))
    BY <1>8, <1>11, <2>2
  <2>4. <<>> \o R = R
    BY <1>6, ConcatEmptySeq
  <2>5. Plain(st, "call", Tail(rq)) = Tail(P)
    BY <1>4 DEF Plain, QuitSent
  <2>6. Spells(<<>> \o (Plain(st, "call", Tail(rq)) \o se), Ahead(un, "call"))
    BY <2>3, <2>4, <2>5 DEF R, Ahead
  <2> QED
    BY <1>4, <1>9, <1>10, <2>2, <2>6 DEF Requests, QuitSent
<1> QED
  BY <1>5, <1>7, <1>9, <1>13, <1>14, <1>15 DEF FieldRead

\* It reads that the client quits.
LEMMA ReadQuitRequests ==
  ASSUME NEW st, NEW un \in Seq(Calls), NEW ca, NEW se \in Seq(FieldValues),
         NEW rq \in Seq(FieldValues), rq # <<>>,
         Requests(st, un, se, "read", ca, <<>>, rq), st = "quit" => se = <<>>,
         Head(rq) = "quit"
  PROVE  st = "quit" /\ Requests(st, un, se, "closed", ca, <<>>, <<>>)
<1> DEFINE P == Plain(st, "read", rq)
           S == <<>> \o (P \o se)
           F == Fields(Head(un))
<1>1. /\ Spells(S, un) /\ P \in Seq(FieldValues)
      /\ QuitSent(st, "read") => rq[Len(rq)] = "quit"
  BY PlainSeq DEF Requests, Ahead
<1> HIDE DEF P
<1>2. S = P \o se /\ S \in Seq(FieldValues)
  <2>1. P \o se \in Seq(FieldValues)
    BY <1>1, ConcatProperties
  <2> QED
    BY <2>1, ConcatEmptySeq
<1>3. P = <<>>
  <2> SUFFICES ASSUME P # <<>> PROVE FALSE
    OBVIOUS
  <2>1. Head(P) = "quit" /\ Len(P) >= 1 /\ P[1] = "quit" /\ Len(P) \in Nat
    <3>1. Head(P) = "quit"
      BY <1>1, PlainHead DEF P
    <3> QED
      BY <1>1, <3>1
  <2>2. S[1] = "quit" /\ Len(S) >= 1
    <3>1. Len(se) \in Nat
      OBVIOUS
    <3>2. Len(P \o se) = Len(P) + Len(se) /\ \A i \in 1 .. Len(P) : (P \o se)[i] = P[i]
      BY <1>1, Suffix
    <3>3. 1 \in 1 .. Len(P)
      BY <2>1
    <3> QED
      BY <1>2, <2>1, <3>1, <3>2, <3>3
  <2> HIDE DEF S
  <2>3. S # <<>>
    BY <2>2
  <2>4. un # <<>>
    BY <1>1, <1>2, <2>3, SpellsNothing
  <2>5. Head(un) \in Calls /\ \A i \in 1 .. Len(F) : S[i] = F[i]
    BY <1>1, <1>2, <2>4, SpellsFirst
  <2>6. Len(F) \in 1 .. 5 /\ F[1] \in {"create", "reserve", "show", "list"}
    BY <2>5, FieldsOf
  <2>7. 1 \in 1 .. Len(F)
    BY <2>6
  <2> QED
    BY <2>2, <2>5, <2>6, <2>7
<1>4. st = "quit" /\ se = <<>>
  BY <1>1, <1>3, PlainHead DEF P
<1>5. S = <<>>
  BY <1>2, <1>3, <1>4, ConcatEmptySeq
<1>6. Spells(<<>>, un)
  BY <1>1, <1>5
<1>7. Plain(st, "closed", <<>>) = <<>> /\ ~ QuitSent(st, "closed") /\ Ahead(un, "closed") = un
  BY DEF Plain, QuitSent, Ahead
<1> QED
  BY <1>4, <1>6, <1>7, ConcatEmptySeq DEF Requests

\* Two sequences one after the other.
LEMMA Chain ==
  ASSUME NEW a \in Seq(Nat), NEW b \in Seq(Nat)
  PROVE  /\ a \o b \in Seq(Nat) /\ Len(a \o b) = Len(a) + Len(b)
         /\ \A i \in 1 .. Len(a) : (a \o b)[i] = a[i]
         /\ \A i \in 1 .. Len(b) : (a \o b)[Len(a) + i] = b[i]
<1>0. PICK t : t = a \o b
  OBVIOUS
<1>1. /\ t \in Seq(Nat) /\ Len(t) = Len(a) + Len(b) /\ Len(a) \in Nat /\ Len(b) \in Nat
      /\ \A i \in 1 .. Len(a) + Len(b) : t[i] = IF i <= Len(a) THEN a[i] ELSE b[i - Len(a)]
  BY <1>0, ConcatProperties
<1>2. ASSUME NEW i \in 1 .. Len(b) PROVE t[Len(a) + i] = b[i]
  <2>1. PICK l \in Nat : l = Len(a) + i
    BY <1>1
  <2>2. l \in 1 .. Len(a) + Len(b) /\ ~ (l <= Len(a)) /\ l - Len(a) = i
    BY SMTT(30), <1>1, <2>1
  <2>3. t[l] = b[l - Len(a)]
    BY <1>1, <2>2
  <2> QED
    BY <2>1, <2>2, <2>3
<1>3. ASSUME NEW i \in 1 .. Len(a) PROVE t[i] = a[i]
  <2>1. i \in 1 .. Len(a) + Len(b) /\ i <= Len(a)
    BY <1>1
  <2> QED
    BY <1>1, <2>1
<1> QED
  BY <1>0, <1>1, <1>2, <1>3

\* A sequence in two parts.
LEMMA Split ==
  ASSUME NEW a \in Seq(Nat), NEW n \in Nat, n <= Len(a)
  PROVE  /\ SubSeq(a, 1, n) \in Seq(Nat) /\ Len(SubSeq(a, 1, n)) = n
         /\ \A i \in 1 .. n : SubSeq(a, 1, n)[i] = a[i]
         /\ SubSeq(a, n + 1, Len(a)) \in Seq(Nat)
         /\ Len(SubSeq(a, n + 1, Len(a))) = Len(a) - n
         /\ \A i \in 1 .. Len(a) - n : SubSeq(a, n + 1, Len(a))[i] = a[n + i]
<1>p. PICK p : p = SubSeq(a, 1, n)
  OBVIOUS
<1>q. PICK q : q = SubSeq(a, n + 1, Len(a))
  OBVIOUS
<1>0. Len(a) \in Nat /\ \A k \in 1 .. Len(a) : a[k] \in Nat
  OBVIOUS
<1>1. \A k \in 1 .. n : a[k] \in Nat
  BY <1>0
<1>2. \A k \in n + 1 .. Len(a) : a[k] \in Nat
  BY <1>0
<1>3. 1 \in Int /\ n \in Int /\ n + 1 \in Int /\ Len(a) \in Int
  BY <1>0
<1>4. /\ p \in Seq(Nat) /\ Len(p) = IF 1 <= n THEN n - 1 + 1 ELSE 0
      /\ \A k \in 1 .. n - 1 + 1 : p[k] = a[1 + k - 1]
  BY <1>1, <1>3, <1>p, SubSeqProperties
<1>5. PICK m \in Nat : m = n + 1
  OBVIOUS
<1>6. /\ q \in Seq(Nat) /\ Len(q) = IF m <= Len(a) THEN Len(a) - m + 1 ELSE 0
      /\ \A k \in 1 .. Len(a) - m + 1 : q[k] = a[m + k - 1]
  BY <1>2, <1>3, <1>5, <1>q, SubSeqProperties
<1>7. Len(p) = n /\ Len(q) = Len(a) - n
  BY <1>0, <1>4, <1>5, <1>6
<1>8. ASSUME NEW k \in 1 .. n PROVE p[k] = a[k]
  <2>1. n - 1 + 1 = n /\ 1 + k - 1 = k
    OBVIOUS
  <2> QED
    BY <1>4, <2>1
<1>9. ASSUME NEW k \in 1 .. Len(a) - n PROVE q[k] = a[n + k]
  <2>1. m + k - 1 = n + k /\ Len(a) - m + 1 = Len(a) - n
    BY <1>0, <1>5
  <2> QED
    BY <1>6, <2>1
<1> QED
  BY <1>4, <1>6, <1>7, <1>8, <1>9, <1>p, <1>q

-----------------------------------------------------------------------------
(* What the steps of both ends do to an answer.                            *)

\* The first write goes into the pipe as a whole.
LEMMA WholeWrite ==
  ASSUME NEW r, Layout(r), NEW n \in Nat, NEW ws \in Seq(Seq(Nat)), ws # <<>>,
         NEW j \in 1 .. Len(Writes(r)) + 1, RestFrom(r, ws, n, j)
  PROVE  Rest(r, Tail(ws), n + Len(Head(ws)))
<1> DEFINE w == Writes(r)
           s == Starts(r)
           a == Answer(r)
           t == Tail(ws)
           N == n + Len(Head(ws))
<1>0. j \in 1 .. Len(w) + 1
  OBVIOUS
<1>1. /\ Head(ws) = ws[1] /\ ws[1] \in Seq(Nat) /\ Len(ws[1]) \in Nat
      /\ t \in Seq(Seq(Nat)) /\ Len(t) = Len(ws) - 1 /\ Len(ws) \in Nat /\ Len(ws) >= 1
      /\ \A k \in 1 .. Len(ws) - 1 : t[k] = ws[k + 1]
  OBVIOUS
<1>2. /\ Len(w) \in 1 .. 4 /\ Len(s) = Len(w) + 1 /\ s \in Seq(Nat)
      /\ \A k \in 1 .. Len(w) : Lies(w[k], a, s[k], s[k + 1])
  BY DEF Layout
<1>3. /\ Len(ws) = Len(w) + 1 - j
      /\ j <= Len(w) => n + Len(ws[1]) = s[j + 1]
      /\ j <= Len(w) => \A k \in 2 .. Len(ws) : ws[k] = w[j + k - 1]
  BY DEF RestFrom
<1> HIDE DEF w, s, a, t
<1>4. j <= Len(w) /\ j \in Nat /\ N = s[j + 1]
  BY <1>1, <1>2, <1>3
<1>5. PICK i \in Nat : i = j + 1
  BY <1>4
<1>6. i \in 1 .. Len(w) + 1 /\ N = s[i] /\ s[i] \in Nat /\ Len(t) = Len(w) + 1 - i
  <2>1. i \in 1 .. Len(s) /\ i \in 1 .. Len(w) + 1
    BY <1>2, <1>4, <1>5
  <2>2. s[i] \in Nat
    BY <1>2, <2>1
  <2>3. Len(t) = Len(w) + 1 - i
    BY <1>1, <1>2, <1>3, <1>4, <1>5
  <2> QED
    BY <1>4, <1>5, <2>1, <2>2, <2>3
<1>7. ASSUME i <= Len(w)
      PROVE  /\ N + Len(t[1]) = s[i + 1]
             /\ \A k \in 1 .. Len(t[1]) : t[1][k] = a[N + k]
             /\ \A k \in 2 .. Len(t) : t[k] = w[i + k - 1]
  <2>1. t[1] = w[i]
    <3>1. 1 \in 1 .. Len(ws) - 1 /\ 2 \in 2 .. Len(ws) /\ j + 2 - 1 = i
      BY <1>1, <1>2, <1>3, <1>5, <1>7
    <3>2. t[1] = ws[1 + 1] /\ ws[2] = w[j + 2 - 1]
      BY <1>1, <1>3, <1>4, <3>1
    <3> QED
      BY <3>1, <3>2
  <2>2. Lies(w[i], a, s[i], s[i + 1])
    BY <1>2, <1>6, <1>7
  <2>3. ASSUME NEW k \in 2 .. Len(t) PROVE t[k] = w[i + k - 1]
    <3>1. PICK l \in Nat : l = k + 1
      OBVIOUS
    <3>2. l \in 2 .. Len(ws) /\ k \in 1 .. Len(ws) - 1 /\ j + l - 1 = i + k - 1
      BY <1>1, <1>3, <1>5, <1>6, <2>3, <3>1
    <3>3. t[k] = ws[l] /\ ws[l] = w[j + l - 1]
      BY <1>1, <1>3, <1>4, <3>1, <3>2
    <3> QED
      BY <3>2, <3>3
  <2> QED
    BY <1>6, <2>1, <2>2, <2>3 DEF Lies
<1>8. RestFrom(r, t, N, i)
  <2>1. i = Len(w) + 1 => N = s[i]
    BY <1>6
  <2>2. s[i] <= N /\ ~ (N > s[i])
    BY <1>6
  <2> QED
    BY <1>6, <1>7, <2>1, <2>2 DEF RestFrom, w, s, a
<1> QED
  BY <1>6, <1>8 DEF Rest, w, t

\* A part of the first write goes into the pipe: it is long, and the pipe was
\* filled.
LEMMA PartWrite ==
  ASSUME NEW r, Layout(r), NEW n \in Nat, NEW ws \in Seq(Seq(Nat)), ws # <<>>,
         NEW j \in 1 .. Len(Writes(r)) + 1, RestFrom(r, ws, n, j),
         NEW k \in Nat, k > 0, k < Len(Head(ws)), Len(Head(ws)) > Atomic,
         Capacity <= k + n
  PROVE  Rest(r, [ws EXCEPT ![1] = SubSeq(Head(ws), k + 1, Len(Head(ws)))], n + k)
<1> DEFINE w == Writes(r)
           s == Starts(r)
           a == Answer(r)
           m == Len(Head(ws))
           part == SubSeq(Head(ws), k + 1, m)
           t == [ws EXCEPT ![1] = part]
<1>0. j \in 1 .. Len(w) + 1
  OBVIOUS
<1>1. /\ Head(ws) = ws[1] /\ ws[1] \in Seq(Nat) /\ m \in Nat
      /\ Len(ws) \in Nat /\ Len(ws) >= 1
      /\ \A i \in 1 .. m : ws[1][i] \in Nat
  BY SMTT(30)
<1>2. /\ Len(w) \in 1 .. 4 /\ Len(s) = Len(w) + 1 /\ s \in Seq(Nat)
      /\ \A i \in 1 .. Len(w) : Lies(w[i], a, s[i], s[i + 1])
  BY DEF Layout
<1>3. /\ Len(ws) = Len(w) + 1 - j /\ s[j] <= n
      /\ j <= Len(w) =>
           /\ n + Len(ws[1]) = s[j + 1]
           /\ \A i \in 1 .. Len(ws[1]) : ws[1][i] = a[n + i]
           /\ \A i \in 2 .. Len(ws) : ws[i] = w[j + i - 1]
           /\ n > s[j] => Long(Len(w[j]))
  BY DEF RestFrom
<1>4. /\ part \in Seq(Nat) /\ Len(part) = m - k
      /\ \A i \in 1 .. m - k : part[i] = ws[1][k + i]
  <2>1. \A i \in k + 1 .. m : Head(ws)[i] \in Nat
    BY SMTT(30), <1>1
  <2>2. k + 1 \in Nat /\ k + 1 <= m
    BY <1>1
  <2>3. /\ part \in Seq(Nat) /\ Len(part) = IF k + 1 <= m THEN m - (k + 1) + 1 ELSE 0
        /\ \A i \in 1 .. m - (k + 1) + 1 : part[i] = Head(ws)[k + 1 + i - 1]
    BY SMTT(30), <1>1, <2>1, <2>2, SubSeqProperties
  <2> HIDE DEF part, m
  <2>4. Len(part) = m - k
    BY <1>1, <2>2, <2>3
  <2>5. ASSUME NEW i \in 1 .. m - k PROVE part[i] = ws[1][k + i]
    <3>1. k + 1 + i - 1 = k + i /\ i \in 1 .. m - (k + 1) + 1
      BY <1>1
    <3> QED
      BY <1>1, <2>3, <3>1
  <2> QED
    BY <2>3, <2>4, <2>5
<1>5. /\ Len(t) = Len(ws) /\ t[1] = part
      /\ \A i \in 2 .. Len(ws) : t[i] = ws[i]
  <2> HIDE DEF part
  <2>1. t \in Seq(Seq(Nat)) /\ DOMAIN t = DOMAIN ws /\ 1 \in DOMAIN ws
    BY <1>1, <1>4
  <2>2. Len(t) = Len(ws)
    BY <2>1
  <2> QED
    BY <1>1, <2>1, <2>2
<1> HIDE DEF w, s, a, m, part, t
<1>6. j <= Len(w) /\ j \in Nat /\ s[j] \in Nat /\ Len(ws[1]) = m
  <2>a. Len(ws[1]) = m
    BY <1>1 DEF m
  <2>b. j <= Len(w) /\ j \in Nat
    BY <1>0, <1>1, <1>2, <1>3
  <2>1. j <= Len(w) /\ j \in Nat /\ Len(ws[1]) = m
    BY <2>a, <2>b
  <2>2. j \in 1 .. Len(s)
    BY <1>2, <2>1
  <2>3. s[j] \in Nat
    BY SMTT(30), <1>2, <2>2
  <2> QED
    BY <2>1, <2>3
<1>7. Long(Len(w[j]))
  <2>1. CASE n > s[j]
    BY <1>3, <1>6, <2>1
  <2>2. CASE n = s[j]
    <3>1. Lies(w[j], a, s[j], s[j + 1])
      BY <1>2, <1>6
    <3>2. s[j] <= 5 /\ s[j + 1] = s[j] + Len(w[j]) /\ Len(w[j]) \in Nat
      BY <3>1 DEF Lies
    <3>3. Len(w[j]) = m /\ m \in Nat
      <4>1. n + m = s[j + 1] /\ m \in Nat
        BY <1>1, <1>3, <1>6
      <4> QED
        BY SMTT(30), <1>6, <2>2, <3>2, <4>1
    <3>4. Atomic \in Nat /\ Capacity \in Nat
      BY ClientServerAssumption
    <3>5. m > Atomic /\ k < m /\ n <= 5
      BY <2>2, <3>2 DEF m
    <3>6. m + 5 > Capacity
      BY <3>3, <3>4, <3>5
    <3> QED
      BY <3>3, <3>5, <3>6 DEF Long
  <2>3. n > s[j] \/ n = s[j]
    <3>1. s[j] <= n
      BY <1>3
    <3> QED
      BY <1>6, <3>1
  <2> QED
    BY <2>1, <2>2, <2>3
<1>8. n + k + Len(t[1]) = s[j + 1] /\ t[1] # <<>> /\ n + k \in Nat /\ s[j] <= n + k
  <2>1. Len(t[1]) = m - k /\ m - k > 0 /\ m - k \in Nat
    BY SMTT(30), <1>1, <1>4, <1>5 DEF m
  <2>2. n + m = s[j + 1] /\ m \in Nat
    BY <1>1, <1>3, <1>6
  <2>3. t[1] # <<>>
    BY <2>1
  <2>4. n + k + Len(t[1]) = s[j + 1]
    BY <2>1, <2>2
  <2>5. s[j] <= n
    BY <1>3
  <2>6. s[j] <= n + k
    BY <1>6, <2>5
  <2>7. n + k \in Nat
    OBVIOUS
  <2> QED
    BY <2>3, <2>4, <2>6, <2>7
<1>9. ASSUME NEW i \in 1 .. Len(t[1]) PROVE t[1][i] = a[n + k + i]
  <2>1. PICK l \in Nat : l = k + i
    OBVIOUS
  <2>2. i \in 1 .. m - k /\ l \in 1 .. m /\ n + l = n + k + i
    BY <1>1, <1>4, <1>5, <2>1
  <2>3. part[i] = ws[1][l]
    BY <1>4, <2>1, <2>2
  <2>4. ws[1][l] = a[n + l]
    BY <1>3, <1>6, <2>2
  <2> QED
    BY <1>5, <2>2, <2>3, <2>4
<1>10. RestFrom(r, t, n + k, j)
  <2>1. \A i \in 2 .. Len(t) : t[i] = w[j + i - 1]
    BY <1>3, <1>5, <1>6
  <2>2. j # Len(w) + 1
    BY <1>2, <1>6
  <2> QED
    BY <1>3, <1>5, <1>7, <1>8, <1>9, <2>1, <2>2 DEF RestFrom, w, s, a
<1> QED
  BY <1>10 DEF Rest, w, t, part, m

\* What was written follows what was read.
LEMMA WriteFollows ==
  ASSUME NEW r, Layout(r), NEW ta \in Seq(Nat), NEW rs \in Seq(Nat),
         NEW ws \in Seq(Seq(Nat)), ws # <<>>, Follows(r, ta, rs),
         Rest(r, ws, Len(ta) + Len(rs)),
         NEW k \in Nat, k <= Len(Head(ws)),
         NEW add \in Seq(Nat), Len(add) = k, \A i \in 1 .. k : add[i] = Head(ws)[i]
  PROVE  /\ rs \o add \in Seq(Nat) /\ Len(rs \o add) = Len(rs) + k
         /\ Follows(r, ta, rs \o add)
<1> DEFINE w == Writes(r)
           s == Starts(r)
           a == Answer(r)
           new == rs \o add
           n == Len(ta) + Len(rs)
<1>1. PICK j \in 1 .. Len(w) + 1 : RestFrom(r, ws, n, j)
  BY DEF Rest
<1>2. /\ Len(w) \in 1 .. 4 /\ Len(s) = Len(w) + 1 /\ s \in Seq(Nat) /\ s[Len(w) + 1] = Len(a)
      /\ \A i, l \in 1 .. Len(w) + 1 : i <= l => s[i] <= s[l]
      /\ Len(a) \in Nat
  BY SMTT(30) DEF Layout
<1>3. /\ Head(ws) = ws[1] /\ ws[1] \in Seq(Nat) /\ Len(ws[1]) \in Nat
      /\ Len(ws) \in Nat /\ Len(ws) >= 1 /\ n \in Nat /\ Len(ta) \in Nat /\ Len(rs) \in Nat
  OBVIOUS
<1>4. /\ Len(ws) = Len(w) + 1 - j
      /\ j <= Len(w) =>
           /\ n + Len(ws[1]) = s[j + 1]
           /\ \A i \in 1 .. Len(ws[1]) : ws[1][i] = a[n + i]
  BY <1>1 DEF RestFrom
<1>5. /\ new \in Seq(Nat) /\ Len(new) = Len(rs) + k
      /\ \A i \in 1 .. Len(rs) : new[i] = rs[i]
      /\ \A i \in 1 .. k : new[Len(rs) + i] = add[i]
  <2>1. PICK t : t = rs \o add
    OBVIOUS
  <2>2. /\ t \in Seq(Nat) /\ Len(t) = Len(rs) + Len(add)
        /\ \A i \in 1 .. Len(rs) : t[i] = rs[i]
        /\ \A i \in 1 .. Len(add) : t[Len(rs) + i] = add[i]
    BY <2>1, Chain
  <2> QED
    BY <2>1, <2>2
<1>6. /\ \E m \in DOMAIN s : Len(ta) = s[m]
      /\ \A i \in 1 .. Len(ta) : ta[i] = a[i]
      /\ \A i \in 1 .. Len(rs) : rs[i] = a[Len(ta) + i]
  BY DEF Follows
<1> HIDE DEF w, s, a, new
<1>7. j <= Len(w) /\ j \in Nat
  BY <1>2, <1>3, <1>4, <1>1
<1>8. Len(ta) + Len(new) <= Len(a)
  <2>1. PICK i \in Nat : i = j + 1
    BY <1>7
  <2>2. i \in 1 .. Len(w) + 1 /\ Len(w) + 1 \in 1 .. Len(w) + 1 /\ i <= Len(w) + 1
    BY <1>2, <1>7, <2>1
  <2>3. s[i] <= Len(a) /\ i \in 1 .. Len(s)
    BY <1>2, <2>2
  <2>4. s[i] \in Nat
    BY SMTT(30), <1>2, <2>3
  <2>5. n + Len(ws[1]) = s[i] /\ k <= Len(ws[1])
    BY <1>3, <1>4, <1>7, <2>1
  <2> QED
    <3>1. Len(new) = Len(rs) + k /\ k <= Len(ws[1]) /\ n + Len(ws[1]) <= Len(a)
      BY <1>5, <2>3, <2>5
    <3>2. PICK la, lr, lw, l \in Nat :
             la = Len(ta) /\ lr = Len(rs) /\ lw = Len(ws[1]) /\ l = Len(a)
      BY <1>2, <1>3
    <3>3. la + lr + lw <= l /\ k <= lw
      BY <3>1, <3>2
    <3>4. la + (lr + k) <= l
      BY <3>3
    <3> QED
      BY <3>1, <3>2, <3>4
<1>9. ASSUME NEW i \in 1 .. Len(new) PROVE new[i] = a[Len(ta) + i]
  <2>1. CASE i \in 1 .. Len(rs)
    BY <1>5, <1>6, <2>1
  <2>2. CASE i \notin 1 .. Len(rs)
    <3>0. PICK x, y, z \in Nat : x = Len(rs) /\ y = Len(ta) /\ z = Len(ws[1])
      BY <1>2, <1>3
    <3>a. i \in 1 .. x + k /\ i \notin 1 .. x /\ k \in Nat /\ k <= z /\ n = y + x
      BY <1>3, <1>5, <2>2, <3>0
    <3>1. PICK l \in Nat : l = i - x
      BY <3>a
    <3>b. l \in 1 .. k /\ l \in 1 .. z /\ i = x + l
      BY <3>a, <3>1
    <3>c. Len(ta) + i = n + l
      BY <3>0, <3>b
    <3>2. l \in 1 .. k /\ l \in 1 .. Len(ws[1]) /\ i = Len(rs) + l /\ Len(ta) + i = n + l
      BY <3>0, <3>b, <3>c
    <3>3. new[i] = add[l] /\ add[l] = ws[1][l]
      BY <1>3, <1>5, <3>2
    <3>4. ws[1][l] = a[n + l]
      BY <1>4, <1>7, <3>2
    <3> QED
      BY <3>2, <3>3, <3>4
  <2> QED
    BY <2>1, <2>2
<1> QED
  BY <1>5, <1>6, <1>8, <1>9 DEF Follows, w, s, a, new

\* m words of a have been read, the words t, and the k words q come next.
Moved(a, m, k, t, q) ==
  /\ t \in Seq(Nat) /\ Len(t) = m
  /\ q \in Seq(Nat) /\ Len(q) = k
  /\ \A i \in 1 .. Len(t) : t[i] = a[i]
  /\ \A i \in 1 .. Len(q) : q[i] = a[Len(t) + i]

\* A read moves words from the pipe to those read.
LEMMA MovedWords ==
  ASSUME NEW a, NEW ta \in Seq(Nat), NEW rs \in Seq(Nat), NEW n \in Nat, n <= Len(rs),
         \A k \in 1 .. Len(ta) : ta[k] = a[k],
         \A k \in 1 .. Len(rs) : rs[k] = a[Len(ta) + k]
  PROVE  Moved(a, Len(ta) + n, Len(rs) - n, ta \o SubSeq(rs, 1, n), SubSeq(rs, n + 1, Len(rs)))
<1>p. PICK p : p = SubSeq(rs, 1, n)
  OBVIOUS
<1>q. PICK q : q = SubSeq(rs, n + 1, Len(rs))
  OBVIOUS
<1>t. PICK t : t = ta \o p
  OBVIOUS
<1>1. /\ p \in Seq(Nat) /\ Len(p) = n /\ \A k \in 1 .. n : p[k] = rs[k]
      /\ q \in Seq(Nat) /\ Len(q) = Len(rs) - n
      /\ \A k \in 1 .. Len(rs) - n : q[k] = rs[n + k]
  BY <1>p, <1>q, Split
<1>2. /\ ta \o p \in Seq(Nat) /\ Len(ta \o p) = Len(ta) + Len(p)
      /\ \A k \in 1 .. Len(ta) : (ta \o p)[k] = ta[k]
      /\ \A k \in 1 .. Len(p) : (ta \o p)[Len(ta) + k] = p[k]
  BY <1>1, Chain
<1>3. /\ t \in Seq(Nat) /\ Len(t) = Len(ta) + n
      /\ \A k \in 1 .. Len(ta) : t[k] = ta[k]
      /\ \A k \in 1 .. n : t[Len(ta) + k] = p[k]
  BY <1>1, <1>2, <1>t
<1>4. PICK x, y \in Nat : x = Len(ta) /\ y = Len(rs)
  OBVIOUS
<1>5. ASSUME NEW k \in 1 .. Len(t) PROVE t[k] = a[k]
  <2>0. k \in 1 .. x + n
    BY <1>3, <1>4, <1>5
  <2>1. CASE k <= x
    <3>1. k \in 1 .. Len(ta)
      BY <1>4, <2>0, <2>1
    <3> QED
      BY <1>3, <3>1
  <2>2. CASE ~ (k <= x)
    <3>1. PICK l \in Nat : l = k - x
      BY <2>0, <2>2
    <3>2. l \in 1 .. n /\ x + l = k
      BY <2>0, <2>2, <3>1
    <3>3. l \in 1 .. Len(rs)
      BY <1>4, <3>2
    <3>4. t[k] = p[l] /\ p[l] = rs[l] /\ rs[l] = a[Len(ta) + l]
      BY <1>1, <1>3, <1>4, <3>2, <3>3
    <3> QED
      BY <1>4, <3>2, <3>4
  <2> QED
    BY <2>1, <2>2
<1>6. ASSUME NEW k \in 1 .. Len(q) PROVE q[k] = a[Len(t) + k]
  <2>0. k \in 1 .. y - n /\ n <= y
    BY <1>1, <1>4
  <2>1. PICK l \in Nat : l = n + k
    BY <2>0
  <2>2. l \in 1 .. y /\ x + l = x + n + k
    BY <2>0, <2>1
  <2>3. l \in 1 .. Len(rs)
    BY <1>4, <2>2
  <2>4. q[k] = rs[l] /\ rs[l] = a[Len(ta) + l]
    BY <1>1, <1>4, <2>0, <2>1, <2>3
  <2> QED
    BY <1>3, <1>4, <2>2, <2>4
<1>7. Moved(a, Len(ta) + n, Len(rs) - n, t, q)
  BY <1>1, <1>3, <1>5, <1>6 DEF Moved
<1> QED
  BY <1>7, <1>p, <1>q, <1>t

\* The next read ends at a field of the answer.
LEMMA NextField ==
  ASSUME EventInv, NEW r, NEW op, Fits(r, op, events), NEW ta \in Seq(Nat), NEW rs,
         Follows(r, ta, rs)
  PROVE  /\ Remain(ta, op) = {} => Len(ta) = Len(Answer(r))
         /\ Remain(ta, op) # {} => \E j \in DOMAIN Starts(r) :
              /\ Min(Remain(ta, op)) = Starts(r)[j]
              /\ Starts(r)[j] \in Nat /\ Starts(r)[j] > Len(ta)
              /\ \A k \in DOMAIN Starts(r) :
                   Starts(r)[k] <= Len(ta) \/ Starts(r)[j] <= Starts(r)[k]
<1> DEFINE s == Starts(r)
<1>1. s \in Seq(Nat)
  BY LayoutOf DEF Layout
<1>2. DOMAIN s = 1 .. Len(s) /\ \A j \in DOMAIN s : s[j] \in Nat
  BY <1>1
<1>3. ReadsNext(ta, op, s, Len(s), Len(Answer(r)))
  <2>1. PICK m \in DOMAIN s : Len(ta) = s[m]
    BY DEF Follows
  <2>2. \A k \in 1 .. Len(ta) : ta[k] = Answer(r)[k]
    BY DEF Follows
  <2> QED
    BY <2>1, <2>2, NextRead
<1> HIDE DEF s
<1>4. /\ Remain(ta, op) = {} => Len(ta) = Len(Answer(r))
      /\ Remain(ta, op) # {} => \E j \in DOMAIN s :
           /\ Min(Remain(ta, op)) = s[j] /\ s[j] > Len(ta)
           /\ \A k \in DOMAIN s : s[k] <= Len(ta) \/ s[j] <= s[k]
  BY <1>2, <1>3 DEF ReadsNext
<1> QED
  BY <1>2, <1>4 DEF s

StillFollows(r, t, q, m) == Follows(r, t, q) /\ Len(t) + Len(q) = m

\* A read that finds its words takes whole fields.
LEMMA ReadAnswer ==
  ASSUME EventInv, NEW r, NEW op, Fits(r, op, events),
         NEW ta \in Seq(Nat), NEW rs \in Seq(Nat), Follows(r, ta, rs),
         Remain(ta, op) # {}, NEW n \in Nat, Min(Remain(ta, op)) = Len(ta) + n,
         n <= Len(rs)
  PROVE  StillFollows(r, ta \o SubSeq(rs, 1, n), SubSeq(rs, n + 1, Len(rs)), Len(ta) + Len(rs))
<1>t. PICK t : t = ta \o SubSeq(rs, 1, n)
  OBVIOUS
<1>q. PICK q : q = SubSeq(rs, n + 1, Len(rs))
  OBVIOUS
<1>1. /\ Len(ta) + Len(rs) <= Len(Answer(r))
      /\ \A i \in 1 .. Len(ta) : ta[i] = Answer(r)[i]
      /\ \A i \in 1 .. Len(rs) : rs[i] = Answer(r)[Len(ta) + i]
  BY DEF Follows
<1>a. PICK a : a = Answer(r)
  OBVIOUS
<1>m. Moved(a, Len(ta) + n, Len(rs) - n, ta \o SubSeq(rs, 1, n), SubSeq(rs, n + 1, Len(rs)))
  <2>1. /\ \A i \in 1 .. Len(ta) : ta[i] = a[i]
        /\ \A i \in 1 .. Len(rs) : rs[i] = a[Len(ta) + i]
    BY <1>1, <1>a
  <2> QED
    BY <2>1, MovedWords, Zenon
<1>2. /\ t \in Seq(Nat) /\ Len(t) = Len(ta) + n
      /\ q \in Seq(Nat) /\ Len(q) = Len(rs) - n
      /\ \A k \in 1 .. Len(t) : t[k] = Answer(r)[k]
      /\ \A k \in 1 .. Len(q) : q[k] = Answer(r)[Len(t) + k]
  BY <1>m, <1>a, <1>t, <1>q, Zenon DEF Moved
<1>3. PICK j \in DOMAIN Starts(r) : Len(t) = Starts(r)[j]
  <2>1. \E j \in DOMAIN Starts(r) : Min(Remain(ta, op)) = Starts(r)[j]
    BY NextField
  <2> QED
    BY <1>2, <2>1
<1>4. Len(t) + Len(q) = Len(ta) + Len(rs)
  <2>1. PICK x, y \in Nat : x = Len(ta) /\ y = Len(rs)
    OBVIOUS
  <2>2. Len(t) = x + n /\ Len(q) = y - n /\ n <= y
    BY <1>2, <2>1
  <2>3. (x + n) + (y - n) = x + y
    OBVIOUS
  <2> QED
    BY <2>1, <2>2, <2>3
<1>5. Follows(r, t, q)
  BY <1>1, <1>2, <1>3, <1>4 DEF Follows
<1> QED
  BY <1>4, <1>5, <1>t, <1>q DEF StillFollows

\* A read that does not find its words came upon a part of a long field.
LEMMA ShortRead ==
  ASSUME EventInv, NEW r, NEW op, Fits(r, op, events),
         NEW ta \in Seq(Nat), NEW rs \in Seq(Nat), NEW ws, Follows(r, ta, rs),
         Rest(r, ws, Len(ta) + Len(rs)), rs # <<>>,
         Remain(ta, op) # {}, Len(ta) + Len(rs) < Min(Remain(ta, op))
  PROVE  ManyWords
<1> DEFINE w == Writes(r)
           s == Starts(r)
           a == Answer(r)
<1>1. /\ Len(w) \in 1 .. 4 /\ Len(s) = Len(w) + 1 /\ s \in Seq(Nat)
      /\ \A i, l \in 1 .. Len(w) + 1 : i <= l => s[i] <= s[l]
      /\ \A i \in 1 .. Len(w) : Lies(w[i], a, s[i], s[i + 1])
  BY LayoutOf DEF Layout
<1>2. DOMAIN s = 1 .. Len(s) /\ DOMAIN s = 1 .. Len(w) + 1 /\ \A j \in DOMAIN s : s[j] \in Nat
  BY <1>1
<1>3. PICK j \in DOMAIN s :
         /\ Min(Remain(ta, op)) = s[j]
         /\ \A k \in DOMAIN s : s[k] <= Len(ta) \/ s[j] <= s[k]
  BY NextField
<1>4. PICK N \in Nat : N = Len(ta) + Len(rs)
  OBVIOUS
<1>5. PICK i \in 1 .. Len(w) + 1 : RestFrom(r, ws, N, i)
  BY <1>4 DEF Rest
<1>6. /\ s[i] <= N
      /\ i = Len(w) + 1 => N = s[i]
      /\ i <= Len(w) /\ N > s[i] => Long(Len(w[i]))
  BY <1>5 DEF RestFrom
<1>7. Len(ta) < N /\ Len(ta) \in Nat
  <2>1. Len(rs) >= 1 /\ Len(rs) \in Nat /\ Len(ta) \in Nat
    OBVIOUS
  <2> QED
    BY <1>4, <2>1
<1> HIDE DEF w, s, a
<1>8. PICK x, y \in Nat : x = s[i] /\ y = s[j]
  BY <1>2, <1>5
<1>9. x <= N /\ N < y
  BY <1>3, <1>4, <1>6, <1>8
<1>10. x <= Len(ta)
  <2>1. i \in DOMAIN s
    BY <1>2, <1>5
  <2>2. s[i] <= Len(ta) \/ s[j] <= s[i]
    BY <1>3, <2>1
  <2>3. ~ (y <= x)
    BY <1>9
  <2> QED
    BY <1>8, <2>2, <2>3, Zenon
<1>11. N > x /\ N # x
  BY <1>7, <1>10
<1>12. i <= Len(w)
  <2>1. i # Len(w) + 1
    BY <1>6, <1>8, <1>11
  <2> QED
    BY <1>1, <1>5, <2>1
<1>13. Long(Len(w[i])) /\ Lies(w[i], a, s[i], s[i + 1])
  BY <1>1, <1>5, <1>6, <1>8, <1>11, <1>12
<1> QED
  BY <1>13 DEF Lies

\* When nothing remains to be read, nothing remains to be written.
LEMMA AllRead ==
  ASSUME EventInv, NEW r, NEW op, Fits(r, op, events),
         NEW ta \in Seq(Nat), NEW rs \in Seq(Nat), NEW ws \in Seq(Seq(Nat)),
         Follows(r, ta, rs), Rest(r, ws, Len(ta) + Len(rs)), Remain(ta, op) = {}
  PROVE  Len(ta) = Len(Answer(r)) /\ rs = <<>> /\ ws \in {<<>>, << <<>> >>}
<1> DEFINE w == Writes(r)
           s == Starts(r)
           a == Answer(r)
<1>1. /\ Len(w) \in 1 .. 4 /\ Len(s) = Len(w) + 1 /\ s \in Seq(Nat) /\ s[Len(w) + 1] = Len(a)
      /\ \A i, l \in 1 .. Len(w) + 1 : i <= l => s[i] <= s[l]
      /\ \A i, l \in 1 .. Len(w) : i < l => s[i] < s[l]
      /\ Len(a) \in Nat
  <2>1. Layout(r)
    BY LayoutOf
  <2>2. /\ Len(w) \in 1 .. 4 /\ Len(s) = Len(w) + 1 /\ s \in Seq(Nat) /\ s[Len(w) + 1] = Len(a)
        /\ \A i, l \in 1 .. Len(w) + 1 : i <= l => s[i] <= s[l]
        /\ \A i, l \in 1 .. Len(w) : i < l => s[i] < s[l]
        /\ a \in Seq(Nat)
    BY <2>1, Zenon DEF Layout
  <2> HIDE DEF a
  <2>3. Len(a) \in Nat
    BY <2>2
  <2> QED
    BY <2>2, <2>3
<1>s. \A i \in 1 .. Len(s) : s[i] \in Nat
  <2>1. s \in Seq(Nat)
    BY <1>1
  <2> QED
    BY <2>1
<1>2. Len(ta) = Len(a)
  BY NextField
<1>3. rs = <<>>
  <2>1. Len(ta) + Len(rs) <= Len(a)
    BY DEF Follows
  <2>2. Len(rs) = 0
    BY <1>1, <1>2, <2>1
  <2> QED
    BY <2>2
<1>4. Len(ta) + Len(rs) = Len(a)
  BY <1>1, <1>2, <1>3
<1>5. PICK i \in 1 .. Len(w) + 1 : RestFrom(r, ws, Len(a), i)
  BY <1>4 DEF Rest
<1>6. /\ Len(ws) = Len(w) + 1 - i
      /\ i <= Len(w) => Len(a) + Len(ws[1]) = s[i + 1]
      /\ i <= Len(w) /\ s[i] < Len(a) => ws[1] # <<>>
  <2>1. i <= Len(w) /\ Len(a) > s[i] => ws[1] # <<>>
    BY <1>5 DEF RestFrom
  <2>2. s[i] < Len(a) <=> Len(a) > s[i]
    OBVIOUS
  <2>3. /\ Len(ws) = Len(w) + 1 - i
        /\ i <= Len(w) => Len(a) + Len(ws[1]) = s[i + 1]
    BY <1>5 DEF RestFrom
  <2> QED
    BY <2>1, <2>2, <2>3
<1> HIDE DEF w, s, a
<1>7. CASE i = Len(w) + 1
  <2>1. Len(ws) = 0
    BY <1>1, <1>6, <1>7
  <2> QED
    BY <1>2, <1>3, <2>1 DEF a
<1>8. CASE i <= Len(w)
  <2>0. PICK m \in Nat : m = i + 1
    BY <1>5
  <2>1. m \in 1 .. Len(w) + 1 /\ Len(w) + 1 \in 1 .. Len(w) + 1
    BY <1>1, <1>5, <1>8, <2>0
  <2>2. s[m] \in Nat
    <3>1. m \in 1 .. Len(s)
      BY <1>1, <2>1
    <3> QED
      BY <1>s, <3>1
  <2>3. s[m] <= Len(a)
    BY <1>1, <2>1
  <2>4. Len(ws) >= 1
    BY <1>1, <1>5, <1>6, <1>8
  <2>5. ws[1] \in Seq(Nat) /\ Len(ws[1]) \in Nat
    BY <2>4
  <2>6. Len(ws[1]) = 0 /\ s[m] = Len(a)
    <3>1. Len(a) + Len(ws[1]) = s[m]
      BY <1>6, <1>8, <2>0
    <3>2. PICK x, y \in Nat : x = Len(a) /\ y = Len(ws[1])
      BY <1>1, <2>5
    <3>3. x + y <= x
      BY <2>3, <3>1, <3>2
    <3>4. y = 0
      BY <3>3
    <3> QED
      BY <3>1, <3>2, <3>4
  <2>7. ws[1] = <<>>
    BY <2>5, <2>6
  <2>8. i = Len(w)
    <3>1. CASE i < Len(w)
      <4>0. i \in Nat /\ i >= 1 /\ Len(w) \in Nat
        BY <1>1, <1>5
      <4>1. m \in 1 .. Len(w) /\ i \in 1 .. Len(w) /\ i < m
        BY <2>0, <3>1, <4>0
      <4>2. s[i] < s[m]
        BY <1>1, <4>1
      <4>3. s[i] < Len(a)
        BY <2>6, <4>2
      <4>4. ws[1] # <<>>
        BY <1>6, <1>8, <4>3
      <4> QED
        BY <2>7, <4>4
    <3> QED
      BY <1>1, <1>5, <1>8, <3>1
  <2>9. Len(ws) = 1
    BY <1>1, <1>6, <2>8
  <2>10. ws = << <<>> >>
    BY <2>7, <2>9
  <2> QED
    BY <1>2, <1>3, <2>10 DEF a
<1> QED
  BY <1>1, <1>5, <1>7, <1>8

-----------------------------------------------------------------------------
(* Facts about the state.                                                  *)

LEMMA Smallest ==
  ASSUME NEW S, S \subseteq Nat, S # {}
  PROVE  Min(S) \in S /\ \A y \in S : Min(S) <= y
<1> DEFINE R == {ss \in Nat \X Nat : ss[1] < ss[2]}
<1>0. IsWellFoundedOn(R, Nat)
  BY NatLessThanWellFounded DEF OpToRel
<1>1. PICK x \in S : \A y \in S : ~ (<<y, x>> \in R)
  BY <1>0, WFMin
<1>2. ASSUME NEW y \in S PROVE x <= y
  <2>1. x \in Nat /\ y \in Nat
    OBVIOUS
  <2>2. y < x => <<y, x>> \in R
    BY <2>1
  <2>3. QED  BY <1>1, <2>1, <2>2
<1>3. QED
  BY <1>2 DEF Min

\* A read asks for some words, whatever was read so far.
LEMMA ReadAsks ==
  ASSUME NEW ta \in Seq(Nat), NEW op, Remain(ta, op) # {}
  PROVE  Min(Remain(ta, op)) \in Nat /\ Min(Remain(ta, op)) > Len(ta)
<1>0. \A i \in 1 .. Len(ta) : ta[i] \in Nat
  OBVIOUS
<1>1. Ends(ta, op) \subseteq Nat
  <2>1. CASE ta = <<>> \/ op \in {"create", "reserve"} \/ ta[1] = 1
    BY <2>1 DEF Ends
  <2>2. CASE ~ (ta = <<>> \/ op \in {"create", "reserve"} \/ ta[1] = 1) /\ op = "show"
    <3>1. Len(ta) >= 5 => 5 + ta[2] * ta[4] \in Nat
      <4>1. SUFFICES ASSUME Len(ta) >= 5 PROVE 5 + ta[2] * ta[4] \in Nat
        OBVIOUS
      <4>2. 2 \in 1 .. Len(ta) /\ 4 \in 1 .. Len(ta)
        BY <4>1
      <4>3. PICK x, y \in Nat : x = ta[2] /\ y = ta[4]
        BY <1>0, <4>2
      <4>4. PICK z \in Nat : z = x * y
        OBVIOUS
      <4>5. 5 + z \in Nat
        OBVIOUS
      <4> QED
        BY <4>3, <4>4, <4>5
    <3>2. Len(ta) < 5 \/ Len(ta) >= 5
      OBVIOUS
    <3> QED
      BY <2>2, <3>1, <3>2 DEF Ends
  <2>3. CASE ~ (ta = <<>> \/ op \in {"create", "reserve"} \/ ta[1] = 1) /\ op # "show"
    <3>1. Len(ta) >= 3 => 3 + ta[2] \in Nat
      OBVIOUS
    <3>2. Len(ta) < 3 \/ Len(ta) >= 3
      OBVIOUS
    <3> QED
      BY <2>3, <3>1, <3>2 DEF Ends
  <2> QED
    BY <2>1, <2>2, <2>3
<1>2. Remain(ta, op) \subseteq Nat /\ \A n \in Remain(ta, op) : n > Len(ta)
  BY <1>1 DEF Remain
<1> QED
  BY <1>2, Smallest

\* Events are only added, and keep their identifiers and shapes.
Grows(ev, new) ==
  /\ Len(ev) \in Nat /\ Len(new) \in Nat /\ Len(ev) <= Len(new)
  /\ DOMAIN ev \subseteq DOMAIN new
  /\ \A p \in DOMAIN ev : /\ new[p].id = ev[p].id
                           /\ new[p].rows = ev[p].rows /\ new[p].cols = ev[p].cols

LEMMA FitsStill ==
  ASSUME NEW ev, NEW new, Grows(ev, new), NEW r, NEW op, Fits(r, op, ev)
  PROVE  Fits(r, op, new)
<1>1. Len(ev) \in Nat /\ Len(new) \in Nat /\ Len(ev) <= Len(new)
  BY DEF Grows
<1>2. \A n \in 1 .. Len(ev) : n \in 1 .. Len(new)
  BY <1>1
<1>3. CASE r = Store!Failure
  BY <1>3 DEF Fits
<1>4. CASE r = Store!Success /\ op \in {"create", "reserve"}
  BY <1>4 DEF Fits
<1>5. CASE /\ op = "show" /\ IsShow(r)
           /\ r = [err |-> "ok", rows |-> r.rows, cols |-> r.cols, seats |-> r.seats]
           /\ r.seats \in [Store!Cells(r.rows, r.cols) -> Nat]
           /\ \E p \in DOMAIN ev : r.rows = ev[p].rows /\ r.cols = ev[p].cols
  <2>1. \E p \in DOMAIN new : r.rows = new[p].rows /\ r.cols = new[p].cols
    BY <1>5 DEF Grows
  <2> QED
    BY <1>5, <2>1, Zenon DEF Fits
<1>6. CASE /\ op = "list" /\ IsList(r)
           /\ r = [err |-> "ok", num_events |-> r.num_events, ids |-> r.ids]
           /\ r.num_events \in 1 .. Len(ev)
           /\ r.ids \in [1 .. r.num_events -> Nat]
  BY <1>2, <1>6, Zenon DEF Fits
<1> QED
  BY <1>3, <1>4, <1>5, <1>6, Zenon DEF Fits

\* Before anything is written, everything is left to write.
LEMMA RestOfAll ==
  ASSUME NEW r, Layout(r)
  PROVE  /\ Writes(r) \in Seq(Seq(Nat))
         /\ Follows(r, <<>>, <<>>)
         /\ Rest(r, Writes(r), Len(<<>>) + Len(<<>>))
<1> DEFINE w == Writes(r)
           s == Starts(r)
           a == Answer(r)
<1>1. /\ Len(w) \in 1 .. 4 /\ Len(s) = Len(w) + 1 /\ s \in Seq(Nat) /\ w \in Seq(Seq(Nat))
      /\ s[1] = 0 /\ a \in Seq(Nat)
      /\ \A i \in 1 .. Len(w) : Lies(w[i], a, s[i], s[i + 1])
  BY DEF Layout
<1>2. 1 \in 1 .. Len(w) /\ 1 \in DOMAIN s /\ Len(a) \in Nat
  <2> HIDE DEF w, s, a
  <2>1. DOMAIN s = 1 .. Len(s) /\ Len(a) \in Nat
    BY <1>1
  <2>2. Len(w) \in 1 .. 4 /\ Len(s) = Len(w) + 1
    BY <1>1
  <2>3. 1 \in 1 .. Len(w) /\ 1 \in 1 .. Len(s)
    BY <2>2
  <2> QED
    BY <2>1, <2>3
<1>3. Len(<<>>) = 0 /\ Len(<<>>) + Len(<<>>) = 0
  OBVIOUS
<1> HIDE DEF w, s, a
<1>4. /\ w[1] \in Seq(Nat) /\ s[2] = s[1] + Len(w[1])
      /\ \A i \in 1 .. Len(w[1]) : w[1][i] = a[0 + i]
  <2>1. Lies(w[1], a, s[1], s[1 + 1])
    BY <1>1, <1>2
  <2> QED
    BY <1>1, <2>1 DEF Lies
<1>5. RestFrom(r, w, 0, 1)
  <2>1. Len(w) = Len(w) + 1 - 1 /\ 1 # Len(w) + 1
    BY <1>1
  <2>2. 0 + Len(w[1]) = s[1 + 1]
    BY <1>1, <1>4
  <2>3. \A k \in 2 .. Len(w) : w[k] = w[1 + k - 1]
    BY <1>1
  <2>4. s[1] <= 0 /\ ~ (0 > s[1])
    BY <1>1
  <2> QED
    BY <1>4, <2>1, <2>2, <2>3, <2>4 DEF RestFrom, w, s, a
<1>6. Follows(r, <<>>, <<>>)
  <2>1. Len(<<>>) = s[1] /\ 1 \in DOMAIN s
    BY <1>1, <1>2, <1>3
  <2>2. Len(<<>>) + Len(<<>>) <= Len(a)
    BY <1>2, <1>3
  <2>3. 1 .. Len(<<>>) = {}
    BY <1>3
  <2> QED
    BY <2>1, <2>2, <2>3 DEF Follows, s, a
<1> QED
  BY <1>1, <1>2, <1>3, <1>5, <1>6 DEF Rest, w

-----------------------------------------------------------------------------
(* The store.                                                              *)

Events ==
  [id : Nat, rows : Nat, cols : Nat, reservations : Nat,
   data : UNION {[0 .. n - 1 -> Nat] : n \in Nat}]

\* An event of the type, with a number for each of its seats.
IsEvent(e) == e \in Events /\ e.data \in [Store!Cells(e.rows, e.cols) -> Nat]

LEMMA EventsAre ==
  ASSUME EventInv
  PROVE  events \in Seq(Events) /\ \A p \in 1 .. Len(events) : IsEvent(events[p])
<1> DEFINE E == Events
<1>1. events \in Seq(E)
  BY DEF EventInv, Events
<1> HIDE DEF E
<1>2. DOMAIN events = 1 .. Len(events) /\ \A p \in 1 .. Len(events) : events[p] \in E
  BY <1>1
<1> QED
  BY <1>1, <1>2 DEF EventInv, IsEvent, E

LEMMA AreEvents ==
  ASSUME NEW ev, ev \in Seq(Events), \A p \in 1 .. Len(ev) : IsEvent(ev[p])
  PROVE  /\ ev \in Seq([id : Nat, rows : Nat, cols : Nat, reservations : Nat,
                        data : UNION {[0 .. n - 1 -> Nat] : n \in Nat}])
         /\ \A p \in DOMAIN ev :
              ev[p].data \in [Store!Cells(ev[p].rows, ev[p].cols) -> Nat]
<1> DEFINE E == Events
<1>1. ev \in Seq(E)
  OBVIOUS
<1> HIDE DEF E
<1>2. DOMAIN ev = 1 .. Len(ev)
  BY <1>1
<1> QED
  BY <1>2 DEF IsEvent, Events

LEMMA NewEvent ==
  ASSUME NEW id \in Nat, NEW rows \in Nat, NEW cols \in Nat
  PROVE  IsEvent([id |-> id, rows |-> rows, cols |-> cols, reservations |-> 0,
                  data |-> [i \in Store!Cells(rows, cols) |-> 0]])
<1>1. PICK n \in Nat : n = rows * cols
  OBVIOUS
<1>2. Store!Cells(rows, cols) = 0 .. n - 1
  BY <1>1 DEF Store!Cells
<1> DEFINE d == [i \in 0 .. n - 1 |-> 0]
<1>3. d \in [0 .. n - 1 -> Nat]
  OBVIOUS
<1>4. d \in UNION {[0 .. k - 1 -> Nat] : k \in Nat}
  BY <1>3
<1>5. [i \in Store!Cells(rows, cols) |-> 0] = d
  BY <1>2
<1> HIDE DEF d
<1> QED
  BY <1>2, <1>3, <1>4, <1>5 DEF IsEvent, Events

\* A reservation changes the numbers of seats.
LEMMA Reserved ==
  ASSUME NEW e, IsEvent(e), NEW d \in [DOMAIN e.data -> Nat]
  PROVE  /\ IsEvent([e EXCEPT !.reservations = @ + 1, !.data = d])
         /\ [e EXCEPT !.reservations = @ + 1, !.data = d].id = e.id
         /\ [e EXCEPT !.reservations = @ + 1, !.data = d].rows = e.rows
         /\ [e EXCEPT !.reservations = @ + 1, !.data = d].cols = e.cols
<1> DEFINE D == UNION {[0 .. n - 1 -> Nat] : n \in Nat}
<1>1. e \in [id : Nat, rows : Nat, cols : Nat, reservations : Nat, data : D]
  BY DEF IsEvent, Events
<1>2. PICK n \in Nat : e.data \in [0 .. n - 1 -> Nat]
  BY <1>1
<1>3. d \in [0 .. n - 1 -> Nat]
  BY <1>2
<1>4. d \in D
  BY <1>3
<1>5. d \in [Store!Cells(e.rows, e.cols) -> Nat]
  <2>1. DOMAIN e.data = Store!Cells(e.rows, e.cols)
    BY DEF IsEvent
  <2> QED
    BY <2>1
<1> HIDE DEF D
<1> DEFINE f == [e EXCEPT !.reservations = @ + 1, !.data = d]
<1>6. /\ f \in [id : Nat, rows : Nat, cols : Nat, reservations : Nat, data : D]
      /\ f.id = e.id /\ f.rows = e.rows /\ f.cols = e.cols /\ f.data = d
  <2> DEFINE R == [id : Nat, rows : Nat, cols : Nat, reservations : Nat, data : D]
             k == e.reservations + 1
             g == [e EXCEPT !.reservations = k]
             h == [g EXCEPT !.data = d]
  <2>1. k \in Nat /\ e \in R
    BY <1>1
  <2> HIDE DEF k
  <2>2. g \in R /\ g.id = e.id /\ g.rows = e.rows /\ g.cols = e.cols
    BY <2>1
  <2> HIDE DEF g
  <2>3. h \in R /\ h.id = g.id /\ h.rows = g.rows /\ h.cols = g.cols /\ h.data = d
    BY <1>4, <2>2
  <2>4. f = h
    BY Zenon DEF f, h, g, k
  <2> QED
    BY <2>2, <2>3, <2>4
<1> HIDE DEF f
<1>7. IsEvent(f)
  BY <1>5, <1>6 DEF IsEvent, Events, D
<1> QED
  BY <1>6, <1>7 DEF f

LEMMA ByReservation ==
  ASSUME EventInv, NEW p \in DOMAIN events, NEW d \in [DOMAIN events[p].data -> Nat],
         NEW new, new = [events EXCEPT ![p].reservations = @ + 1, ![p].data = d]
  PROVE  /\ new \in Seq(Events) /\ \A q \in 1 .. Len(new) : IsEvent(new[q])
         /\ Grows(events, new)
<1> DEFINE E == Events
           f == [events[p] EXCEPT !.reservations = @ + 1, !.data = d]
<1>1. events \in Seq(E) /\ \A q \in 1 .. Len(events) : IsEvent(events[q])
  BY EventsAre
<1>2. DOMAIN events = 1 .. Len(events) /\ Len(events) \in Nat
  BY <1>1
<1>3. /\ IsEvent(f)
      /\ f.id = events[p].id /\ f.rows = events[p].rows /\ f.cols = events[p].cols
  <2>1. IsEvent(events[p])
    BY <1>1, <1>2
  <2> QED
    BY <2>1, Reserved, Zenon
<1>4. f \in E
  BY <1>3 DEF IsEvent
<1>5. new = [events EXCEPT ![p] = f]
  OBVIOUS
<1> HIDE DEF E, f
<1>6. /\ new \in Seq(E) /\ Len(new) = Len(events) /\ DOMAIN new = 1 .. Len(events)
      /\ new[p] = f /\ \A q \in 1 .. Len(events) : q # p => new[q] = events[q]
  <2>1. p \in 1 .. Len(events) /\ events \in Seq(E)
    BY <1>1, <1>2
  <2>2. /\ [events EXCEPT ![p] = f] \in Seq(E)
        /\ Len([events EXCEPT ![p] = f]) = Len(events)
        /\ \A q \in 1 .. Len(events) :
             [events EXCEPT ![p] = f][q] = IF q = p THEN f ELSE events[q]
    BY <1>4, <2>1, ExceptSeq
  <2>3. /\ new \in Seq(E) /\ Len(new) = Len(events)
        /\ \A q \in 1 .. Len(events) : new[q] = IF q = p THEN f ELSE events[q]
    BY <1>5, <2>2, Zenon
  <2>4. DOMAIN new = 1 .. Len(events)
    BY <2>3
  <2> QED
    BY <2>1, <2>3, <2>4
<1>7. Grows(events, new)
  BY <1>2, <1>3, <1>6 DEF Grows
<1>8. \A q \in 1 .. Len(new) : IsEvent(new[q])
  BY <1>1, <1>3, <1>6
<1> QED
  BY <1>6, <1>7, <1>8 DEF E

LEMMA ByCreation ==
  ASSUME EventInv, NEW id \in Nat, NEW rows \in Nat, NEW cols \in Nat, NEW new,
         new = Append(events, [id |-> id, rows |-> rows, cols |-> cols, reservations |-> 0,
                               data |-> [i \in Store!Cells(rows, cols) |-> 0]])
  PROVE  /\ new \in Seq(Events) /\ \A q \in 1 .. Len(new) : IsEvent(new[q])
         /\ Grows(events, new)
<1>1. PICK e : e = [id |-> id, rows |-> rows, cols |-> cols, reservations |-> 0,
                    data |-> [i \in Store!Cells(rows, cols) |-> 0]]
  OBVIOUS
<1>2. IsEvent(e) /\ new = Append(events, e)
  BY <1>1, NewEvent
<1> DEFINE E == Events
<1>3. events \in Seq(E) /\ \A q \in 1 .. Len(events) : IsEvent(events[q])
  BY EventsAre
<1>4. e \in E
  BY <1>2 DEF IsEvent
<1> HIDE DEF E
<1>5. Len(events) \in Nat /\ DOMAIN events = 1 .. Len(events)
  BY <1>3
<1>6. /\ new \in Seq(E) /\ Len(new) = Len(events) + 1
      /\ \A q \in 1 .. Len(events) : new[q] = events[q]
      /\ new[Len(events) + 1] = e
  BY <1>2, <1>3, <1>4, AppendProperties
<1>7. PICK m \in Nat : m = Len(events) + 1
  BY <1>5
<1>8. \A q \in 1 .. Len(new) : q \in 1 .. Len(events) \/ q = m
  BY <1>5, <1>6, <1>7
<1>9. \A q \in 1 .. Len(new) : IsEvent(new[q])
  BY <1>2, <1>3, <1>6, <1>7, <1>8
<1>10. DOMAIN new = 1 .. Len(new) /\ Len(new) \in Nat
  BY <1>6
<1>11. Grows(events, new)
  <2>1. DOMAIN events \subseteq DOMAIN new /\ Len(events) <= Len(new)
    BY <1>5, <1>6, <1>10
  <2> QED
    BY <1>5, <1>6, <1>10, <2>1 DEF Grows
<1> QED
  BY <1>6, <1>9, <1>11 DEF E

\* What a call does to the events, and what it is answered.
Served(c, r) ==
  /\ reply' = [reply EXCEPT ![c] = r] /\ call' = call
  /\ Fits(r, call[c].op, events)
  /\ events' \in Seq(Events) /\ \A q \in 1 .. Len(events') : IsEvent(events'[q])
  /\ Grows(events, events')

LEMMA Unchanged ==
  ASSUME EventInv, events' = events
  PROVE  /\ events' \in Seq(Events) /\ \A q \in 1 .. Len(events') : IsEvent(events'[q])
         /\ Grows(events, events')
<1>1. Len(events) \in Nat
  BY EventFields
<1>2. Grows(events, events)
  BY <1>1 DEF Grows
<1> QED
  BY <1>2, EventsAre

LEMMA Creates ==
  ASSUME EventInv, NEW c \in Clients, call[c] \in Calls, ems_create(c)
  PROVE  \E r : Served(c, r)
<1>1. call[c].op = "create" /\ call[c].id \in Nat /\ call[c].shape \in Nat \X Nat
  BY CallCases DEF ems_create
<1>2. PICK rows, cols \in Nat : rows = call[c].shape[1] /\ cols = call[c].shape[2]
  BY <1>1
<1>3. \/ /\ events' = Append(events,
              [id |-> call[c].id, rows |-> rows, cols |-> cols, reservations |-> 0,
               data |-> [i \in Store!Cells(rows, cols) |-> 0]])
         /\ Store!Answer(c, Store!Success)
      \/ Store!Answer(c, Store!Failure) /\ UNCHANGED events
  BY <1>2 DEF ems_create, Store!Create
<1>4. CASE /\ events' = Append(events,
                [id |-> call[c].id, rows |-> rows, cols |-> cols, reservations |-> 0,
                 data |-> [i \in Store!Cells(rows, cols) |-> 0]])
           /\ Store!Answer(c, Store!Success)
  <2>1. /\ events' \in Seq(Events) /\ \A q \in 1 .. Len(events') : IsEvent(events'[q])
        /\ Grows(events, events')
    BY <1>1, <1>4, ByCreation, Zenon
  <2>2. Fits(Store!Success, call[c].op, events)
    BY <1>1 DEF Fits
  <2> QED
    BY <1>4, <2>1, <2>2 DEF Served, Store!Answer
<1>5. CASE Store!Answer(c, Store!Failure) /\ UNCHANGED events
  <2>1. Fits(Store!Failure, call[c].op, events)
    BY DEF Fits
  <2> QED
    BY <1>5, <2>1, Unchanged DEF Served, Store!Answer
<1> QED
  BY <1>3, <1>4, <1>5

LEMMA Reserves ==
  ASSUME EventInv, NEW c \in Clients, call[c] \in Calls, ems_reserve(c)
  PROVE  \E r : Served(c, r)
<1>1. call[c].op = "reserve"
  BY DEF ems_reserve
<1>2. CASE Store!Answer(c, Store!Failure) /\ UNCHANGED events
  <2>1. Fits(Store!Failure, call[c].op, events)
    BY DEF Fits
  <2> QED
    BY <1>2, <2>1, Unchanged DEF Served, Store!Answer
<1>3. ASSUME NEW p \in DOMAIN events, Store!Grant(c, p)
      PROVE  \E r : Served(c, r)
  <2> DEFINE A == Store!Asked(events[p], call[c].seats)
             d == [i \in DOMAIN events[p].data |->
                     IF i \in A THEN events[p].reservations + 1 ELSE events[p].data[i]]
  <2>1. /\ events' = [events EXCEPT ![p].reservations = @ + 1, ![p].data = d]
        /\ Store!Answer(c, Store!Success)
    <3>1. events' = [events EXCEPT ![p].reservations = @ + 1, ![p].data = d]
      BY <1>3, Zenon DEF Store!Grant
    <3>2. Store!Answer(c, Store!Success)
      BY <1>3, Zenon DEF Store!Grant
    <3> QED
      BY <3>1, <3>2
  <2>2. d \in [DOMAIN events[p].data -> Nat]
    <3>1. /\ events[p].reservations \in Nat
          /\ events[p].data \in [Store!Cells(events[p].rows, events[p].cols) -> Nat]
      BY EventFields
    <3> HIDE DEF A
    <3>2. events[p].reservations + 1 \in Nat
      BY <3>1
    <3> QED
      BY <3>1, <3>2
  <2> HIDE DEF d
  <2>3. /\ events' \in Seq(Events) /\ \A q \in 1 .. Len(events') : IsEvent(events'[q])
        /\ Grows(events, events')
    BY <2>1, <2>2, ByReservation, Zenon
  <2>4. Fits(Store!Success, call[c].op, events)
    BY <1>1 DEF Fits
  <2> QED
    BY <2>1, <2>3, <2>4 DEF Served, Store!Answer
<1>4. \/ Store!Answer(c, Store!Failure) /\ UNCHANGED events
      \/ \E p \in DOMAIN events : Store!Grant(c, p)
  BY Zenon DEF ems_reserve, Store!Reserve, Store!Refuse
<1> QED
  BY <1>2, <1>3, <1>4, Zenon

LEMMA Shows ==
  ASSUME EventInv, NEW c \in Clients, call[c] \in Calls, ems_show(c),
         c \in DOMAIN reply, reply'[c] # Store!Lost
  PROVE  \E r : Served(c, r)
<1>1. call[c].op = "show" /\ UNCHANGED events
  BY DEF ems_show, Store!Show
<1>2. CASE Store!Answer(c, Store!Failure)
  <2>1. Fits(Store!Failure, call[c].op, events)
    BY DEF Fits
  <2> QED
    BY <1>1, <1>2, <2>1, Unchanged DEF Served, Store!Answer
<1>3. ASSUME NEW p \in DOMAIN events,
             Store!Answer(c, [err |-> "ok", rows |-> events[p].rows,
                              cols |-> events[p].cols, seats |-> events[p].data])
      PROVE  \E r : Served(c, r)
  <2>1. PICK r : r = [err |-> "ok", rows |-> events[p].rows,
                      cols |-> events[p].cols, seats |-> events[p].data]
    OBVIOUS
  <2>2. /\ r.rows = events[p].rows /\ r.cols = events[p].cols /\ r.seats = events[p].data
        /\ IsShow(r) /\ r = [err |-> "ok", rows |-> r.rows, cols |-> r.cols, seats |-> r.seats]
    BY <2>1 DEF IsShow
  <2>3. r.seats \in [Store!Cells(r.rows, r.cols) -> Nat]
    BY <2>2, EventFields
  <2>4. Fits(r, call[c].op, events)
    BY <1>1, <2>2, <2>3, Zenon DEF Fits
  <2> QED
    BY <1>1, <1>3, <2>1, <2>4, Unchanged DEF Served, Store!Answer
<1>4. ~ Store!Answer(c, Store!Lost)
  BY DEF Store!Answer
<1> QED
  BY <1>2, <1>3, <1>4, Zenon DEF ems_show, Store!Show

LEMMA Lists ==
  ASSUME EventInv, NEW c \in Clients, call[c] \in Calls, Store!List(c),
         c \in DOMAIN reply, reply'[c] # Store!Lost
  PROVE  \E r : Served(c, r)
<1>1. call[c].op = "list" /\ UNCHANGED events
  BY DEF Store!List, Store!Pending
<1>2. CASE Store!Answer(c, Store!Failure)
  <2>1. Fits(Store!Failure, call[c].op, events)
    BY DEF Fits
  <2> QED
    BY <1>1, <1>2, <2>1, Unchanged DEF Served, Store!Answer
<1>3. CASE /\ events # <<>>
           /\ Store!Answer(c, [err |-> "ok", num_events |-> Len(events),
                               ids |-> [p \in DOMAIN events |-> events[p].id]])
  <2>1. PICK r : r = [err |-> "ok", num_events |-> Len(events),
                      ids |-> [p \in DOMAIN events |-> events[p].id]]
    OBVIOUS
  <2>2. /\ r.num_events = Len(events) /\ r.ids = [p \in DOMAIN events |-> events[p].id]
        /\ IsList(r) /\ r = [err |-> "ok", num_events |-> r.num_events, ids |-> r.ids]
    BY <2>1 DEF IsList
  <2>3. Len(events) >= 1 /\ Len(events) \in Nat
    <3>1. events \in Seq(Events)
      BY EventsAre
    <3> DEFINE E == Events
    <3> HIDE DEF E
    <3>2. events \in Seq(E)
      BY <3>1 DEF E
    <3> QED
      BY <1>3, <3>2
  <2>4. r.num_events \in 1 .. Len(events) /\ r.ids \in [1 .. r.num_events -> Nat]
    BY <2>2, <2>3, EventFields
  <2>5. Fits(r, call[c].op, events)
    BY <1>1, <2>2, <2>4, Zenon DEF Fits
  <2> QED
    BY <1>1, <1>3, <2>1, <2>5, Unchanged DEF Served, Store!Answer
<1>4. ~ Store!Answer(c, Store!Lost)
  BY DEF Store!Answer
<1> QED
  BY <1>2, <1>3, <1>4, Zenon DEF Store!List

-----------------------------------------------------------------------------
(* A step of one client or of its worker.                                  *)

\* g is f, or f with a new value of S for c.
Put(f, g, c, S) == g = f \/ \E x \in S : g = [f EXCEPT ![c] = x]

\* g is f, or f with a new value for c.
Set(f, g, c) == g = f \/ \E x : g = [f EXCEPT ![c] = x]

\* Only the state of c changes, and it has its types.
Moves(c) ==
  /\ Put(call, call', c, Calls \cup {NoCall})
  /\ Put(calling, calling', c, Calls \cup {NoCall})
  /\ Put(status, status', c, {"open", "failed", "quit", "dead"})
  /\ Put(worker, worker', c, {"read", "call", "mutex", "answer", "closed"})
  /\ Put(sending, sending', c, Seq(FieldValues))
  /\ Put(request, request', c, Seq(FieldValues))
  /\ Put(fields, fields', c, Seq(FieldValues))
  /\ Put(unserved, unserved', c, Seq(Calls))
  /\ Put(taken, taken', c, Seq(Nat))
  /\ Put(response, response', c, Seq(Nat))
  /\ Put(writes, writes', c, Seq(Seq(Nat)))
  /\ Put(cut, cut', c, BOOLEAN)
  /\ Set(reply, reply', c) /\ Set(given, given', c)
  /\ server' \in {"up", "down"}

\* Nothing of d changes.
Same(d) ==
  /\ call'[d] = call[d] /\ calling'[d] = calling[d] /\ status'[d] = status[d]
  /\ worker'[d] = worker[d] /\ sending'[d] = sending[d] /\ request'[d] = request[d]
  /\ fields'[d] = fields[d] /\ unserved'[d] = unserved[d] /\ taken'[d] = taken[d]
  /\ response'[d] = response[d] /\ writes'[d] = writes[d] /\ cut'[d] = cut[d]
  /\ given'[d] = given[d]

LEMMA MovesOne ==
  ASSUME DataInv, NEW c \in Clients, Moves(c)
  PROVE  DataInv' /\ \A d \in Clients : d # c => Same(d)
<1>1. /\ call' \in [Clients -> Calls \cup {NoCall}]
      /\ \A d \in Clients : d # c => call'[d] = call[d]
  <2>1. /\ Put(call, call', c, Calls \cup {NoCall})
        /\ call \in [Clients -> Calls \cup {NoCall}]
    BY Zenon DEF DataInv, Moves
  <2> QED
    BY <2>1 DEF Put
<1>2. /\ calling' \in [Clients -> Calls \cup {NoCall}]
      /\ \A d \in Clients : d # c => calling'[d] = calling[d]
  <2>1. /\ Put(calling, calling', c, Calls \cup {NoCall})
        /\ calling \in [Clients -> Calls \cup {NoCall}]
    BY Zenon DEF DataInv, Moves
  <2> QED
    BY <2>1 DEF Put
<1>3. /\ status' \in [Clients -> {"open", "failed", "quit", "dead"}]
      /\ \A d \in Clients : d # c => status'[d] = status[d]
  <2>1. /\ Put(status, status', c, {"open", "failed", "quit", "dead"})
        /\ status \in [Clients -> {"open", "failed", "quit", "dead"}]
    BY Zenon DEF DataInv, Moves
  <2> QED
    BY <2>1 DEF Put
<1>4. /\ worker' \in [Clients -> {"read", "call", "mutex", "answer", "closed"}]
      /\ \A d \in Clients : d # c => worker'[d] = worker[d]
  <2>1. /\ Put(worker, worker', c, {"read", "call", "mutex", "answer", "closed"})
        /\ worker \in [Clients -> {"read", "call", "mutex", "answer", "closed"}]
    BY Zenon DEF DataInv, Moves
  <2> QED
    BY <2>1 DEF Put
<1>5. /\ sending' \in [Clients -> Seq(FieldValues)]
      /\ \A d \in Clients : d # c => sending'[d] = sending[d]
  <2>1. Put(sending, sending', c, Seq(FieldValues)) /\ sending \in [Clients -> Seq(FieldValues)]
    BY Zenon DEF DataInv, Moves
  <2> QED
    BY <2>1 DEF Put
<1>6. /\ request' \in [Clients -> Seq(FieldValues)]
      /\ \A d \in Clients : d # c => request'[d] = request[d]
  <2>1. Put(request, request', c, Seq(FieldValues)) /\ request \in [Clients -> Seq(FieldValues)]
    BY Zenon DEF DataInv, Moves
  <2> QED
    BY <2>1 DEF Put
<1>7. /\ fields' \in [Clients -> Seq(FieldValues)]
      /\ \A d \in Clients : d # c => fields'[d] = fields[d]
  <2>1. Put(fields, fields', c, Seq(FieldValues)) /\ fields \in [Clients -> Seq(FieldValues)]
    BY Zenon DEF DataInv, Moves
  <2> QED
    BY <2>1 DEF Put
<1>8. /\ unserved' \in [Clients -> Seq(Calls)]
      /\ \A d \in Clients : d # c => unserved'[d] = unserved[d]
  <2>1. Put(unserved, unserved', c, Seq(Calls)) /\ unserved \in [Clients -> Seq(Calls)]
    BY Zenon DEF DataInv, Moves
  <2> QED
    BY <2>1 DEF Put
<1>9. /\ taken' \in [Clients -> Seq(Nat)]
      /\ \A d \in Clients : d # c => taken'[d] = taken[d]
  <2>1. Put(taken, taken', c, Seq(Nat)) /\ taken \in [Clients -> Seq(Nat)]
    BY Zenon DEF DataInv, Moves
  <2> QED
    BY <2>1 DEF Put
<1>10. /\ response' \in [Clients -> Seq(Nat)]
      /\ \A d \in Clients : d # c => response'[d] = response[d]
  <2>1. Put(response, response', c, Seq(Nat)) /\ response \in [Clients -> Seq(Nat)]
    BY Zenon DEF DataInv, Moves
  <2> QED
    BY <2>1 DEF Put
<1>11. /\ writes' \in [Clients -> Seq(Seq(Nat))]
      /\ \A d \in Clients : d # c => writes'[d] = writes[d]
  <2>1. Put(writes, writes', c, Seq(Seq(Nat))) /\ writes \in [Clients -> Seq(Seq(Nat))]
    BY Zenon DEF DataInv, Moves
  <2> QED
    BY <2>1 DEF Put
<1>12. /\ cut' \in [Clients -> BOOLEAN]
      /\ \A d \in Clients : d # c => cut'[d] = cut[d]
  <2>1. Put(cut, cut', c, BOOLEAN) /\ cut \in [Clients -> BOOLEAN]
    BY Zenon DEF DataInv, Moves
  <2> QED
    BY <2>1 DEF Put
<1>13. /\ DOMAIN reply' = Clients /\ reply' = [d \in Clients |-> reply'[d]]
       /\ DOMAIN given' = Clients /\ given' = [d \in Clients |-> given'[d]]
       /\ \A d \in Clients : d # c => given'[d] = given[d]
  <2>1. Set(reply, reply', c) /\ DOMAIN reply = Clients /\ reply = [d \in Clients |-> reply[d]]
    BY Zenon DEF DataInv, Moves
  <2>2. Set(given, given', c) /\ DOMAIN given = Clients /\ given = [d \in Clients |-> given[d]]
    BY Zenon DEF DataInv, Moves
  <2> QED
    BY <2>1, <2>2 DEF Set
<1>14. server' \in {"up", "down"}
  BY DEF Moves
<1>15. DataInv'
  BY <1>1, <1>2, <1>3, <1>4, <1>5, <1>6, <1>7, <1>8, <1>9, <1>10, <1>11, <1>12, <1>13, <1>14,
     Zenon DEF DataInv
<1> QED
  BY <1>1, <1>2, <1>3, <1>4, <1>5, <1>6, <1>7, <1>8, <1>9, <1>10, <1>11, <1>12, <1>13, <1>15,
     ZenonT(60) DEF Same

LEMMA TypesAt ==
  ASSUME DataInv, NEW c \in Clients
  PROVE  /\ call[c] \in Calls \cup {NoCall} /\ calling[c] \in Calls \cup {NoCall}
         /\ status[c] \in {"open", "failed", "quit", "dead"}
         /\ worker[c] \in {"read", "call", "mutex", "answer", "closed"}
         /\ sending[c] \in Seq(FieldValues) /\ request[c] \in Seq(FieldValues)
         /\ fields[c] \in Seq(FieldValues) /\ unserved[c] \in Seq(Calls)
         /\ taken[c] \in Seq(Nat) /\ response[c] \in Seq(Nat) /\ writes[c] \in Seq(Seq(Nat))
         /\ cut[c] \in BOOLEAN /\ server \in {"up", "down"}
BY Zenon DEF DataInv

\* What the steps of one client leave to the others.
Frame(c) ==
  /\ Moves(c)
  /\ events' \in Seq(Events) /\ \A q \in 1 .. Len(events') : IsEvent(events'[q])
  /\ Grows(events, events')
  /\ server' = server
       \/ (server' = "down" /\ (cut'[c] \/ status'[c] = "dead" \/ AsksTooMuch(c)'))
  /\ server = "down" => call' = call
  /\ cut[c] => cut'[c]
  /\ status[c] = "dead" => status'[c] = "dead"
  /\ cut'[c] => cut[c] \/ ManyWords

LEMMA ManyWordsStill ==
  ASSUME EventInv, Grows(events, events'), ManyWords
  PROVE  ManyWords'
<1>1. Len(events) \in Nat /\ Len(events') \in Nat /\ Len(events) <= Len(events') /\ Atomic \in Nat
  BY ClientServerAssumption DEF Grows
<1>2. CASE Len(events) > Atomic
  <2>1. Len(events') > Atomic
    BY <1>1, <1>2
  <2> QED
    BY <2>1 DEF ManyWords
<1>3. ASSUME NEW p \in DOMAIN events, TooLong(p) PROVE ManyWords'
  <2>1. /\ p \in DOMAIN events'
        /\ events'[p].rows = events[p].rows /\ events'[p].cols = events[p].cols
    BY DEF Grows
  <2>2. events'[p].rows * events'[p].cols = events[p].rows * events[p].cols
    BY <2>1
  <2>3. TooLong(p)'
    BY <1>3, <2>2 DEF TooLong
  <2> QED
    BY <2>1, <2>3 DEF ManyWords
<1> QED
  BY <1>2, <1>3 DEF ManyWords

LEMMA TooMuchStill ==
  ASSUME EventInv, Grows(events, events'), NEW c \in Clients, call'[c] = call[c],
         AsksTooMuch(c)
  PROVE  AsksTooMuch(c)'
<1>1. /\ Len(events) \in Nat /\ Len(events') \in Nat /\ Len(events) <= Len(events')
      /\ ServerStack \in Nat
  BY ClientServerAssumption DEF Grows
<1>2. CASE call[c].op = "list" /\ Len(events) > ServerStack
  <2>1. Len(events') > ServerStack
    BY <1>1, <1>2
  <2> QED
    BY <1>2, <2>1, Zenon DEF AsksTooMuch
<1>3. ASSUME call[c].op = "show", NEW p \in DOMAIN events, events[p].id = call[c].id,
             events[p].rows * events[p].cols > ServerStack
      PROVE  AsksTooMuch(c)'
  <2>1. /\ p \in DOMAIN events' /\ events'[p].id = events[p].id
        /\ events'[p].rows = events[p].rows /\ events'[p].cols = events[p].cols
    BY DEF Grows
  <2>2. events'[p].rows * events'[p].cols > ServerStack
    BY <1>3, <2>1
  <2> QED
    BY <1>3, <2>1, <2>2, Zenon DEF AsksTooMuch
<1> QED
  BY <1>2, <1>3, Zenon DEF AsksTooMuch

LEMMA Others ==
  ASSUME NEW d \in Clients, ClientInv(d), Same(d), Grows(events, events'),
         server' = server \/ server' = "down"
  PROVE  ClientInv(d)'
<1>1. SessionInv(d)'
  BY Zenon DEF ClientInv, SessionInv, Same, Busy
<1>2. RequestInv(d)'
  BY Zenon DEF ClientInv, RequestInv, Same
<1>3. SUFFICES ASSUME ~ cut'[d] PROVE AnswerInv(d)'
  BY <1>1, <1>2, Zenon DEF ClientInv
<1>4. AnswerInv(d)
  BY <1>3, Zenon DEF ClientInv, Same
<1>5. status'[d] = "failed" => server' = "down" /\ response'[d] = <<>>
  BY <1>4, Zenon DEF AnswerInv, Same
<1>6. ASSUME given'[d] = NoReply
      PROVE  Before(calling'[d], unserved'[d], worker'[d], taken'[d], response'[d], writes'[d],
                    server')
  <2>1. Before(calling[d], unserved[d], worker[d], taken[d], response[d], writes[d], server)
    BY <1>4, <1>6, Zenon DEF AnswerInv, Same
  <2>2. server' = "up" => server = "up"
    OBVIOUS
  <2> QED
    BY <2>1, <2>2, Zenon DEF Before, Same
<1>7. ASSUME given'[d] # NoReply
      PROVE  After(given'[d], events', calling'[d], sending'[d], unserved'[d], worker'[d],
                   taken'[d], response'[d], writes'[d])
  <2>1. After(given[d], events, calling[d], sending[d], unserved[d], worker[d],
              taken[d], response[d], writes[d])
    BY <1>4, <1>7, Zenon DEF AnswerInv, Same
  <2>2. Fits(given[d], calling[d].op, events)
    BY <2>1, Zenon DEF After
  <2>3. Fits(given[d], calling[d].op, events')
    BY <2>2, FitsStill, Zenon
  <2>4. After(given[d], events', calling[d], sending[d], unserved[d], worker[d],
              taken[d], response[d], writes[d])
    BY <2>1, <2>3, Zenon DEF After
  <2> QED
    BY <2>4, Zenon DEF Same
<1> QED
  BY <1>5, <1>6, <1>7, Zenon DEF AnswerInv, NoReply, Store!NoReply

LEMMA Framed ==
  ASSUME Inv, NEW c \in Clients, Frame(c), ClientInv(c)'
  PROVE  Inv'
<1>1. DataInv' /\ \A d \in Clients : d # c => Same(d)
  BY MovesOne, Zenon DEF Inv, Frame
<1>2. EventInv'
  BY AreEvents, Zenon DEF Frame, EventInv
<1>3. Grows(events, events') /\ (server' = server \/ server' = "down")
  BY DEF Frame
<1>4. \A d \in Clients : ClientInv(d)'
  <2>1. ASSUME NEW d \in Clients, d # c PROVE ClientInv(d)'
    <3>1. ClientInv(d) /\ Same(d)
      BY <1>1, <2>1, Zenon DEF Inv
    <3> QED
      BY <1>3, <3>1, Others, Zenon
  <2> QED
    BY <2>1, Zenon
<1>5. \A d \in Clients : /\ cut'[d] => cut[d] \/ ManyWords
                         /\ cut[d] => cut'[d]
                         /\ status[d] = "dead" => status'[d] = "dead"
  BY <1>1, Zenon DEF Same, Frame
<1>6. CutInv'
  <2>1. SUFFICES ASSUME NEW d \in Clients, cut'[d] PROVE ManyWords'
    BY Zenon DEF CutInv
  <2>2. ManyWords
    BY <1>5, <2>1, Zenon DEF Inv, CutInv
  <2> QED
    BY <1>3, <2>2, ManyWordsStill DEF Inv
<1>7. DownInv'
  <2>1. SUFFICES ASSUME server' = "down"
                 PROVE  \E d \in Clients : cut'[d] \/ status'[d] = "dead" \/ AsksTooMuch(d)'
    BY Zenon DEF DownInv
  <2>2. CASE server = "down"
    <3>1. call' = call
      BY <2>2, Zenon DEF Frame
    <3>2. \A d \in Clients : AsksTooMuch(d) => AsksTooMuch(d)'
      BY <1>3, <3>1, TooMuchStill DEF Inv
    <3> QED
      BY <1>5, <2>2, <3>2, Zenon DEF Inv, DownInv
  <2>3. CASE server # "down"
    BY <2>1, <2>3, Zenon DEF Frame
  <2> QED
    BY <2>2, <2>3
<1> QED
  BY <1>1, <1>2, <1>4, <1>6, <1>7, Zenon DEF Inv

-----------------------------------------------------------------------------
(* The steps of the client.                                                *)

\* What holds of c, and the types of its state.
LEMMA Here ==
  ASSUME Inv, NEW c \in Clients
  PROVE  /\ EventInv /\ DataInv /\ SessionInv(c) /\ RequestInv(c)
         /\ (~ cut[c] => AnswerInv(c))
BY Zenon DEF Inv, ClientInv

\* The frame of a step that leaves the events and the server alone.
LEMMA FrameOf ==
  ASSUME EventInv, DataInv, NEW c \in Clients, Moves(c), events' = events, server' = server,
         server = "down" => call' = call, cut[c] => cut'[c], cut'[c] => cut[c] \/ ManyWords,
         status[c] = "dead" => status'[c] = "dead"
  PROVE  Frame(c)
BY Unchanged, Zenon DEF Frame

LEMMA AskStep ==
  ASSUME Inv, NEW c \in Clients, Ask(c)
  PROVE  Inv'
<1>0. /\ EventInv /\ DataInv /\ SessionInv(c) /\ RequestInv(c)
      /\ (~ cut[c] => AnswerInv(c))
  BY Here
<1>1. PICK x \in Calls :
         /\ calling' = [calling EXCEPT ![c] = x]
         /\ unserved' = [unserved EXCEPT ![c] = Append(unserved[c], x)]
         /\ sending' = [sending EXCEPT ![c] = Fields(x)]
  BY DEF Ask, Calls
<1>2. /\ status[c] = "open" /\ calling[c] = NoCall /\ sending[c] = <<>> /\ taken[c] = <<>>
  BY <1>0 DEF Ask, Busy, NoCall, SessionInv
<1>3. /\ events' = events /\ call' = call /\ reply' = reply /\ status' = status
      /\ taken' = taken /\ cut' = cut /\ request' = request /\ response' = response
      /\ worker' = worker /\ fields' = fields /\ writes' = writes /\ given' = given
      /\ server' = server
  BY DEF Ask, store, pipes, thread
<1>4. /\ unserved[c] \in Seq(Calls) /\ fields[c] \in Seq(FieldValues)
      /\ request[c] \in Seq(FieldValues) /\ server \in {"up", "down"}
  BY <1>0, TypesAt
<1>5. Append(unserved[c], x) \in Seq(Calls) /\ Fields(x) \in Seq(FieldValues)
  BY <1>4, FieldsOf, AppendProperties
<1>6. /\ calling'[c] = x /\ unserved'[c] = Append(unserved[c], x) /\ sending'[c] = Fields(x)
  BY <1>0, <1>1 DEF DataInv
<1>7. Moves(c)
  BY <1>1, <1>3, <1>4, <1>5, Zenon DEF Moves, Put, Set
<1>8. Frame(c)
  BY <1>0, <1>3, <1>7, FrameOf, Zenon
<1>9. x # NoCall
  BY NoCallIsNone
<1>10. SessionInv(c)'
  BY <1>0, <1>2, <1>3, <1>6, <1>9, Zenon DEF SessionInv, Busy, NoCall
<1>11. RequestInv(c)'
  <2>1. Requests("open", unserved[c], <<>>, worker[c], call[c], fields[c], request[c])
    BY <1>0, <1>2 DEF RequestInv
  <2>2. Requests("open", Append(unserved[c], x), Fields(x), worker[c], call[c], fields[c],
                 request[c])
    BY <1>4, <2>1, AskRequests
  <2> QED
    BY <1>2, <1>3, <1>6, <2>2, Zenon DEF RequestInv
<1>12. ASSUME ~ cut'[c] PROVE AnswerInv(c)'
  <2>1. AnswerInv(c)
    BY <1>0, <1>3, <1>12, Zenon
  <2>2. given[c] = NoReply
    BY <1>2, <2>1, Zenon DEF AnswerInv, After
  <2>3. Before(NoCall, unserved[c], worker[c], taken[c], response[c], writes[c], server)
    BY <1>2, <2>1, <2>2, Zenon DEF AnswerInv
  <2>4. server = "up" => Append(unserved[c], x) = <<x>>
    <3>1. server = "up" => unserved[c] = <<>>
      BY <2>3 DEF Before
    <3>2. Append(<<>>, x) = <<x>>
      OBVIOUS
    <3> QED
      BY <3>1, <3>2, Zenon
  <2>5. Before(x, Append(unserved[c], x), worker[c], taken[c], response[c], writes[c], server)
    BY <1>9, <2>3, <2>4, Zenon DEF Before
  <2> QED
    BY <1>2, <1>3, <1>6, <2>1, <2>2, <2>5, Zenon DEF AnswerInv, NoReply, Store!NoReply
<1>13. ClientInv(c)'
  BY <1>10, <1>11, <1>12, Zenon DEF ClientInv
<1> QED
  BY <1>8, <1>13, Framed

LEMMA DeadStep ==
  ASSUME Inv, NEW c \in Clients, status[c] \in {"open", "failed"},
         status' = [status EXCEPT ![c] = "dead"],
         UNCHANGED <<store, calling, made, sending, taken, cut, pipes, thread, history, server>>
  PROVE  Inv'
<1>0. /\ EventInv /\ DataInv /\ SessionInv(c) /\ RequestInv(c)
      /\ (~ cut[c] => AnswerInv(c))
  BY Here
<1>3. /\ events' = events /\ call' = call /\ reply' = reply /\ calling' = calling
      /\ sending' = sending /\ unserved' = unserved
      /\ taken' = taken /\ cut' = cut /\ request' = request /\ response' = response
      /\ worker' = worker /\ fields' = fields /\ writes' = writes /\ given' = given
      /\ server' = server
  BY DEF store, pipes, thread, history
<1>4. server \in {"up", "down"}
  BY <1>0, TypesAt
<1>6. status'[c] = "dead"
  BY <1>0 DEF DataInv
<1>7. Moves(c)
  BY <1>3, <1>4, Zenon DEF Moves, Put, Set
<1>8. Frame(c)
  BY <1>0, <1>3, <1>6, <1>7, FrameOf, Zenon
<1>10. SessionInv(c)'
  BY <1>0, <1>3, <1>6, Zenon DEF SessionInv, Busy
<1>11. RequestInv(c)'
  <2>1. Requests(status[c], unserved[c], sending[c], worker[c], call[c], fields[c], request[c])
    BY <1>0 DEF RequestInv
  <2>2. status[c] # "quit" /\ "dead" # "quit"
    OBVIOUS
  <2>3. Requests("dead", unserved[c], sending[c], worker[c], call[c], fields[c], request[c])
    BY <2>1, <2>2, StatusRequests, Zenon
  <2> QED
    BY <1>3, <1>6, <2>3, Zenon DEF RequestInv
<1>12. ASSUME ~ cut'[c] PROVE AnswerInv(c)'
  <2>1. AnswerInv(c)
    BY <1>0, <1>3, <1>12, Zenon
  <2> QED
    BY <1>3, <1>6, <2>1, Zenon DEF AnswerInv, NoReply, Store!NoReply
<1>13. ClientInv(c)'
  BY <1>10, <1>11, <1>12, Zenon DEF ClientInv
<1> QED
  BY <1>8, <1>13, Framed

LEMMA SendStep ==
  ASSUME Inv, NEW c \in Clients, Send(c)
  PROVE  Inv'
<1>0. /\ EventInv /\ DataInv /\ SessionInv(c) /\ RequestInv(c)
      /\ (~ cut[c] => AnswerInv(c))
  BY Here
<1>1. status[c] = "open" /\ sending[c] # <<>>
  BY DEF Send
<1>2. CASE server # "up"
  <2>1. /\ status' = [status EXCEPT ![c] = "dead"]
        /\ UNCHANGED <<store, calling, made, sending, taken, cut, pipes, thread, history, server>>
    BY <1>2, Zenon DEF Send, pipes
  <2> QED
    BY <1>1, <2>1, DeadStep
<1>3. CASE server = "up"
  <2>1. /\ request' = [request EXCEPT ![c] = Append(request[c], Head(sending[c]))]
        /\ sending' = [sending EXCEPT ![c] = Tail(sending[c])]
        /\ status' = status
    BY <1>3, Zenon DEF Send
  <2>2. /\ events' = events /\ call' = call /\ reply' = reply /\ calling' = calling
        /\ unserved' = unserved /\ taken' = taken /\ cut' = cut /\ response' = response
        /\ worker' = worker /\ fields' = fields /\ writes' = writes /\ given' = given
        /\ server' = server
    BY DEF Send, store, thread, history
  <2>3. /\ server \in {"up", "down"} /\ sending[c] \in Seq(FieldValues)
        /\ request[c] \in Seq(FieldValues)
    BY <1>0, TypesAt
  <2>4. /\ Append(request[c], Head(sending[c])) \in Seq(FieldValues)
        /\ Tail(sending[c]) \in Seq(FieldValues)
    BY <1>1, <2>3, Shift
  <2>5. /\ request'[c] = Append(request[c], Head(sending[c]))
        /\ sending'[c] = Tail(sending[c])
    BY <1>0, <2>1 DEF DataInv
  <2>6. Moves(c)
    BY <2>1, <2>2, <2>3, <2>4, Zenon DEF Moves, Put, Set
  <2>7. Frame(c)
    BY <1>0, <2>1, <2>2, <2>6, FrameOf, Zenon
  <2>8. SessionInv(c)'
    <3>1. Busy(c)
      BY <1>0, <1>1, Zenon DEF SessionInv
    <3> QED
      BY <1>0, <1>1, <2>1, <2>2, <3>1, Zenon DEF SessionInv, Busy
  <2>9. RequestInv(c)'
    <3>1. Requests("open", unserved[c], sending[c], worker[c], call[c], fields[c], request[c])
      BY <1>0, <1>1 DEF RequestInv
    <3>2. Requests("open", unserved[c], Tail(sending[c]), worker[c], call[c], fields[c],
                   Append(request[c], Head(sending[c])))
      BY <1>1, <2>3, <3>1, SendRequests
    <3> QED
      BY <1>1, <2>1, <2>2, <2>5, <3>2, Zenon DEF RequestInv
  <2>10. ASSUME ~ cut'[c] PROVE AnswerInv(c)'
    <3>1. AnswerInv(c)
      BY <1>0, <2>2, <2>10, Zenon
    <3>2. given[c] = NoReply
      BY <1>1, <3>1, Zenon DEF AnswerInv, After
    <3> QED
      BY <1>1, <2>1, <2>2, <3>1, <3>2, Zenon DEF AnswerInv, NoReply, Store!NoReply
  <2>11. ClientInv(c)'
    BY <2>8, <2>9, <2>10, Zenon DEF ClientInv
  <2> QED
    BY <2>7, <2>11, Framed
<1> QED
  BY <1>2, <1>3

LEMMA QuitStep ==
  ASSUME Inv, NEW c \in Clients, Quit(c)
  PROVE  Inv'
<1>0. /\ EventInv /\ DataInv /\ SessionInv(c) /\ RequestInv(c)
      /\ (~ cut[c] => AnswerInv(c))
  BY Here
<1>1. status[c] = "open" /\ ~ Busy(c) /\ sending[c] = <<>> /\ taken[c] = <<>>
  BY <1>0 DEF Quit, SessionInv
<1>2. CASE server # "up"
  <2>1. /\ status' = [status EXCEPT ![c] = "dead"]
        /\ UNCHANGED <<store, calling, made, sending, taken, cut, pipes, thread, history, server>>
    BY <1>2, Zenon DEF Quit, pipes
  <2> QED
    BY <1>1, <2>1, DeadStep
<1>3. CASE server = "up"
  <2>1. /\ request' = [request EXCEPT ![c] = Append(request[c], "quit")]
        /\ status' = [status EXCEPT ![c] = "quit"]
    BY <1>3, Zenon DEF Quit
  <2>2. /\ events' = events /\ call' = call /\ reply' = reply /\ calling' = calling
        /\ unserved' = unserved /\ taken' = taken /\ cut' = cut /\ response' = response
        /\ worker' = worker /\ fields' = fields /\ writes' = writes /\ given' = given
        /\ server' = server /\ sending' = sending
    BY DEF Quit, store, thread, history
  <2>3. server \in {"up", "down"} /\ request[c] \in Seq(FieldValues)
    BY <1>0, TypesAt
  <2>4. Append(request[c], "quit") \in Seq(FieldValues)
    <3>1. "quit" \in FieldValues
      BY DEF FieldValues
    <3> QED
      BY <2>3, <3>1, AppendProperties
  <2>5. request'[c] = Append(request[c], "quit") /\ status'[c] = "quit"
    BY <1>0, <2>1 DEF DataInv
  <2>6. Moves(c)
    BY <2>1, <2>2, <2>3, <2>4, Zenon DEF Moves, Put, Set
  <2>7. Frame(c)
    BY <1>0, <1>1, <2>2, <2>6, FrameOf, Zenon
  <2>8. SessionInv(c)'
    BY <1>0, <1>1, <2>2, <2>5, Zenon DEF SessionInv, Busy
  <2>9. RequestInv(c)'
    <3>1. Requests("open", unserved[c], <<>>, worker[c], call[c], fields[c], request[c])
      BY <1>0, <1>1 DEF RequestInv
    <3>2. Requests("quit", unserved[c], <<>>, worker[c], call[c], fields[c],
                   Append(request[c], "quit"))
      BY <2>3, <3>1, QuitRequests
    <3> QED
      BY <1>1, <2>2, <2>5, <3>2, Zenon DEF RequestInv
  <2>10. ASSUME ~ cut'[c] PROVE AnswerInv(c)'
    <3>1. AnswerInv(c)
      BY <1>0, <2>2, <2>10, Zenon
    <3> QED
      BY <2>2, <2>5, <3>1, Zenon DEF AnswerInv, NoReply, Store!NoReply
  <2>11. ClientInv(c)'
    BY <2>8, <2>9, <2>10, Zenon DEF ClientInv
  <2> QED
    BY <2>7, <2>11, Framed
<1> QED
  BY <1>2, <1>3

LEMMA ReadEndStep ==
  ASSUME Inv, NEW c \in Clients, ReadEnd(c)
  PROVE  Inv'
<1>0. /\ EventInv /\ DataInv /\ SessionInv(c) /\ RequestInv(c)
      /\ (~ cut[c] => AnswerInv(c))
  BY Here
<1>1. /\ status[c] = "open" /\ Busy(c) /\ sending[c] = <<>> /\ response[c] = <<>>
      /\ server = "down" /\ status' = [status EXCEPT ![c] = "failed"]
  BY DEF ReadEnd, Reading
<1>3. /\ events' = events /\ call' = call /\ reply' = reply /\ calling' = calling
      /\ sending' = sending /\ unserved' = unserved
      /\ taken' = taken /\ cut' = cut /\ request' = request /\ response' = response
      /\ worker' = worker /\ fields' = fields /\ writes' = writes /\ given' = given
      /\ server' = server
  BY DEF ReadEnd, store, pipes, thread, history
<1>4. server \in {"up", "down"}
  BY <1>0, TypesAt
<1>6. status'[c] = "failed"
  BY <1>0, <1>1 DEF DataInv
<1>7. Moves(c)
  BY <1>1, <1>3, <1>4, Zenon DEF Moves, Put, Set
<1>8. Frame(c)
  BY <1>0, <1>1, <1>3, <1>7, FrameOf, Zenon
<1>10. SessionInv(c)'
  BY <1>0, <1>1, <1>3, <1>6, Zenon DEF SessionInv, Busy
<1>11. RequestInv(c)'
  <2>1. Requests("open", unserved[c], sending[c], worker[c], call[c], fields[c], request[c])
    BY <1>0, <1>1 DEF RequestInv
  <2>2. Requests("failed", unserved[c], sending[c], worker[c], call[c], fields[c], request[c])
    BY <2>1, StatusRequests
  <2> QED
    BY <1>3, <1>6, <2>2, Zenon DEF RequestInv
<1>12. ASSUME ~ cut'[c] PROVE AnswerInv(c)'
  <2>1. AnswerInv(c)
    BY <1>0, <1>3, <1>12, Zenon
  <2> QED
    BY <1>1, <1>3, <1>6, <2>1, Zenon DEF AnswerInv, NoReply, Store!NoReply
<1>13. ClientInv(c)'
  BY <1>10, <1>11, <1>12, Zenon DEF ClientInv
<1> QED
  BY <1>8, <1>13, Framed

\* A call that returns leaves nothing of its answer behind.
LEMMA NothingLeft ==
  ASSUME Inv, NEW c \in Clients, ~ cut[c], status[c] # "failed", Busy(c), Decided(c)
  PROVE  /\ sending[c] = <<>> /\ given[c] # NoReply /\ calling[c] \in Calls
         /\ After(given[c], events, calling[c], sending[c], unserved[c], worker[c],
                  taken[c], response[c], writes[c])
         /\ Len(taken[c]) = Len(Answer(given[c])) /\ response[c] = <<>>
         /\ writes[c] \in {<<>>, << <<>> >>}
<1>0. /\ EventInv /\ DataInv /\ SessionInv(c) /\ RequestInv(c) /\ AnswerInv(c)
  BY Here
<1>1. sending[c] = <<>> /\ Remain(taken[c], Op(c)) = {}
  BY DEF Decided, ToRead, Remain
<1>2. given[c] # NoReply
  <2>1. ASSUME taken[c] = <<>> PROVE Remain(taken[c], Op(c)) # {}
    <3>1. Ends(<<>>, Op(c)) = {1}
      BY DEF Ends
    <3>2. 1 > Len(<<>>)
      OBVIOUS
    <3>3. 1 \in Remain(<<>>, Op(c))
      BY <3>1, <3>2 DEF Remain
    <3> QED
      BY <2>1, <3>3
  <2> QED
    BY <1>0, <1>1, <2>1, Zenon DEF AnswerInv, Before
<1>3. After(given[c], events, calling[c], sending[c], unserved[c], worker[c],
            taken[c], response[c], writes[c])
  BY <1>0, <1>2, Zenon DEF AnswerInv
<1>4. taken[c] \in Seq(Nat) /\ response[c] \in Seq(Nat) /\ writes[c] \in Seq(Seq(Nat))
      /\ calling[c] \in Calls
  BY <1>0, TypesAt DEF Busy, NoCall
<1>5. /\ Fits(given[c], Op(c), events) /\ Follows(given[c], taken[c], response[c])
      /\ Rest(given[c], writes[c], Len(taken[c]) + Len(response[c]))
  BY <1>3, Zenon DEF After, Op
<1>6. Len(taken[c]) = Len(Answer(given[c])) /\ response[c] = <<>>
      /\ writes[c] \in {<<>>, << <<>> >>}
  BY <1>0, <1>1, <1>4, <1>5, AllRead
<1> QED
  BY <1>1, <1>2, <1>3, <1>4, <1>6

LEMMA ReturnStep ==
  ASSUME Inv, NEW c \in Clients, Return(c)
  PROVE  Inv'
<1>0. /\ EventInv /\ DataInv /\ SessionInv(c) /\ RequestInv(c)
      /\ (~ cut[c] => AnswerInv(c))
  BY Here
<1>1. /\ status[c] \in {"open", "failed"} /\ Busy(c) /\ Decided(c)
      /\ calling' = [calling EXCEPT ![c] = NoCall] /\ given' = [given EXCEPT ![c] = NoReply]
      /\ status' = [status EXCEPT ![c] = "open"] /\ taken' = [taken EXCEPT ![c] = <<>>]
  BY DEF Return, NoCall, NoReply
<1>2. sending[c] = <<>>
  BY <1>0, <1>1, Zenon DEF Decided, SessionInv
<1>3. /\ events' = events /\ call' = call /\ reply' = reply
      /\ sending' = sending /\ unserved' = unserved
      /\ cut' = cut /\ request' = request /\ response' = response
      /\ worker' = worker /\ fields' = fields /\ writes' = writes
      /\ server' = server
  BY DEF Return, store, pipes, thread
<1>4. server \in {"up", "down"} /\ <<>> \in Seq(Nat)
  BY <1>0, TypesAt
<1>6. calling'[c] = NoCall /\ given'[c] = NoReply /\ status'[c] = "open" /\ taken'[c] = <<>>
  BY <1>0, <1>1 DEF DataInv
<1>7. Moves(c)
  BY <1>1, <1>3, <1>4, Zenon DEF Moves, Put, Set
<1>8. Frame(c)
  BY <1>0, <1>1, <1>3, <1>7, FrameOf, Zenon
<1>10. SessionInv(c)'
  BY <1>0, <1>2, <1>3, <1>6, Zenon DEF SessionInv, Busy, NoCall
<1>11. RequestInv(c)'
  <2>1. Requests(status[c], unserved[c], sending[c], worker[c], call[c], fields[c], request[c])
    BY <1>0 DEF RequestInv
  <2>2. status[c] # "quit" /\ "open" # "quit"
    BY <1>1
  <2>3. Requests("open", unserved[c], sending[c], worker[c], call[c], fields[c], request[c])
    BY <2>1, <2>2, StatusRequests, Zenon
  <2> QED
    BY <1>3, <1>6, <2>3, Zenon DEF RequestInv
<1>12. ASSUME ~ cut'[c] PROVE AnswerInv(c)'
  <2>1. AnswerInv(c) /\ ~ cut[c]
    BY <1>0, <1>3, <1>12, Zenon
  <2>2. CASE status[c] = "failed"
    <3>1. server = "down" /\ response[c] = <<>>
      BY <2>1, <2>2, Zenon DEF AnswerInv
    <3> QED
      BY <1>3, <1>6, <3>1, Zenon DEF AnswerInv, Before, NoReply, Store!NoReply
  <2>3. CASE status[c] = "open"
    <3>1. /\ After(given[c], events, calling[c], sending[c], unserved[c], worker[c],
                   taken[c], response[c], writes[c])
          /\ response[c] = <<>> /\ writes[c] \in {<<>>, << <<>> >>}
      BY <1>1, <2>1, <2>3, NothingLeft
    <3>2. unserved[c] = <<>>
      BY <3>1, Zenon DEF After
    <3>3. Before(NoCall, unserved[c], worker[c], <<>>, response[c], writes[c], server)
      BY <3>1, <3>2, Zenon DEF Before
    <3> QED
      BY <1>3, <1>6, <3>3, Zenon DEF AnswerInv, NoReply, Store!NoReply
  <2> QED
    BY <1>1, <2>2, <2>3
<1>13. ClientInv(c)'
  BY <1>10, <1>11, <1>12, Zenon DEF ClientInv
<1> QED
  BY <1>8, <1>13, Framed

LEMMA ReadStep ==
  ASSUME Inv, NEW c \in Clients, Read(c)
  PROVE  Inv'
<1>0. /\ EventInv /\ DataInv /\ SessionInv(c) /\ RequestInv(c)
      /\ (~ cut[c] => AnswerInv(c))
  BY Here
<1> DEFINE ta == taken[c]
           rs == response[c]
           R == Remain(ta, Op(c))
<1>1. /\ status[c] = "open" /\ Busy(c) /\ sending[c] = <<>> /\ rs # <<>> /\ R # {}
      /\ ToRead(c) = R
  BY DEF Read, Reading, ToRead, Remain
<1>2. /\ ta \in Seq(Nat) /\ rs \in Seq(Nat) /\ server \in {"up", "down"}
      /\ Len(ta) \in Nat /\ Len(rs) \in Nat
  BY <1>0, TypesAt
<1>3. Min(R) \in Nat /\ Min(R) > Len(ta)
  BY <1>1, <1>2, ReadAsks
<1>4. PICK n \in Nat : n = Min(R) - Len(ta)
  BY <1>2, <1>3
<1>5. Min(R) = Len(ta) + n
  BY <1>2, <1>3, <1>4
<1>6. /\ events' = events /\ call' = call /\ reply' = reply /\ calling' = calling
      /\ sending' = sending /\ unserved' = unserved /\ request' = request
      /\ worker' = worker /\ fields' = fields /\ writes' = writes /\ given' = given
      /\ server' = server
  BY DEF Read, store, thread, history
<1>7. ASSUME ~ cut[c]
      PROVE  /\ given[c] # NoReply
             /\ After(given[c], events, calling[c], sending[c], unserved[c], worker[c],
                      ta, rs, writes[c])
             /\ Fits(given[c], Op(c), events) /\ Follows(given[c], ta, rs)
             /\ Rest(given[c], writes[c], Len(ta) + Len(rs))
  <2>1. given[c] # NoReply
    BY <1>0, <1>1, <1>7, Zenon DEF AnswerInv, Before
  <2>2. After(given[c], events, calling[c], sending[c], unserved[c], worker[c],
              ta, rs, writes[c])
    BY <1>0, <1>7, <2>1, Zenon DEF AnswerInv
  <2> QED
    BY <2>1, <2>2, Zenon DEF After, Op
<1>8. CASE n <= Len(rs)
  <2> DEFINE t == ta \o SubSeq(rs, 1, n)
             q == SubSeq(rs, n + 1, Len(rs))
  <2>1. /\ taken' = [taken EXCEPT ![c] = t] /\ response' = [response EXCEPT ![c] = q]
        /\ status' = status /\ cut' = cut
    BY <1>1, <1>4, <1>8, Zenon DEF Read
  <2>2. t \in Seq(Nat) /\ q \in Seq(Nat) /\ Len(q) = Len(rs) - n
    <3>1. /\ SubSeq(rs, 1, n) \in Seq(Nat)
          /\ q \in Seq(Nat) /\ Len(q) = Len(rs) - n
      BY <1>2, <1>8, Split, Zenon
    <3>2. t \in Seq(Nat)
      BY <1>2, <3>1, Chain, Zenon
    <3> QED
      BY <3>1, <3>2
  <2> HIDE DEF t, q
  <2>3. taken'[c] = t /\ response'[c] = q
    BY <1>0, <2>1 DEF DataInv
  <2>4. Moves(c)
    BY <1>2, <1>6, <2>1, <2>2, Zenon DEF Moves, Put, Set
  <2>5. Frame(c)
    BY <1>0, <1>6, <2>1, <2>4, FrameOf, Zenon
  <2>6. SessionInv(c)'
    <3>1. Len(rs) <= Capacity /\ Capacity \in Nat
      BY <1>0, ClientServerAssumption DEF SessionInv
    <3>2. Len(q) <= Capacity
      BY <1>2, <1>8, <2>2, <3>1
    <3> QED
      BY <1>0, <1>1, <1>6, <2>1, <2>3, <3>2, Zenon DEF SessionInv, Busy
  <2>7. RequestInv(c)'
    BY <1>0, <1>6, <2>1, Zenon DEF RequestInv
  <2>8. ASSUME ~ cut'[c] PROVE AnswerInv(c)'
    <3>1. /\ given[c] # NoReply
          /\ After(given[c], events, calling[c], sending[c], unserved[c], worker[c],
                   ta, rs, writes[c])
          /\ Fits(given[c], Op(c), events) /\ Follows(given[c], ta, rs)
          /\ Rest(given[c], writes[c], Len(ta) + Len(rs))
      BY <1>7, <2>1, <2>8, Zenon
    <3>2. Follows(given[c], t, q) /\ Len(t) + Len(q) = Len(ta) + Len(rs)
      <4>1. EventInv /\ ta \in Seq(Nat) /\ rs \in Seq(Nat) /\ R # {} /\ n \in Nat
            /\ Min(R) = Len(ta) + n /\ n <= Len(rs)
        BY <1>0, <1>1, <1>2, <1>5, <1>8
      <4>2. Fits(given[c], Op(c), events) /\ Follows(given[c], ta, rs)
        BY <3>1
      <4>3. StillFollows(given[c], ta \o SubSeq(rs, 1, n), SubSeq(rs, n + 1, Len(rs)),
                         Len(ta) + Len(rs))
        BY <4>1, <4>2, ReadAnswer, Zenon
      <4> QED
        BY <4>3, Zenon DEF StillFollows, t, q
    <3>3. After(given[c], events, calling[c], sending[c], unserved[c], worker[c],
                t, q, writes[c])
      BY <3>1, <3>2, Zenon DEF After
    <3> QED
      BY <1>1, <1>6, <2>1, <2>3, <3>1, <3>3, Zenon DEF AnswerInv, NoReply, Store!NoReply
  <2>9. ClientInv(c)'
    BY <2>6, <2>7, <2>8, Zenon DEF ClientInv
  <2> QED
    BY <2>5, <2>9, Framed
<1>9. CASE ~ (n <= Len(rs))
  <2>1. /\ response' = [response EXCEPT ![c] = <<>>]
        /\ status' = [status EXCEPT ![c] = "failed"]
        /\ cut' = [cut EXCEPT ![c] = TRUE] /\ taken' = taken
    BY <1>1, <1>4, <1>9, Zenon DEF Read
  <2>2. <<>> \in Seq(Nat) /\ Len(<<>>) = 0
    OBVIOUS
  <2>3. response'[c] = <<>> /\ status'[c] = "failed" /\ cut'[c] = TRUE
    BY <1>0, <2>1 DEF DataInv
  <2>4. Moves(c)
    BY <1>2, <1>6, <2>1, <2>2, Zenon DEF Moves, Put, Set
  <2>5. ~ cut[c] => ManyWords
    <3>1. SUFFICES ASSUME ~ cut[c] PROVE ManyWords
      OBVIOUS
    <3>2. Len(ta) + Len(rs) < Min(R)
      <4>1. PICK x, y \in Nat : x = Len(ta) /\ y = Len(rs)
        BY <1>2
      <4>2. y < n
        BY <1>9, <4>1
      <4>3. x + y < x + n
        BY <4>2
      <4> QED
        BY <1>5, <4>1, <4>3
    <3> QED
      BY <1>0, <1>1, <1>2, <1>7, <3>1, <3>2, ShortRead, Zenon
  <2>6. Frame(c)
    BY <1>0, <1>1, <1>6, <2>3, <2>4, <2>5, FrameOf, Zenon
  <2>7. SessionInv(c)'
    <3>1. Len(<<>>) <= Capacity
      BY <2>2, ClientServerAssumption
    <3> QED
      BY <1>0, <1>1, <1>6, <2>1, <2>3, <3>1, Zenon DEF SessionInv, Busy
  <2>8. RequestInv(c)'
    <3>1. Requests("open", unserved[c], sending[c], worker[c], call[c], fields[c], request[c])
      BY <1>0, <1>1 DEF RequestInv
    <3>2. Requests("failed", unserved[c], sending[c], worker[c], call[c], fields[c], request[c])
      BY <3>1, StatusRequests
    <3> QED
      BY <1>6, <2>3, <3>2, Zenon DEF RequestInv
  <2>9. ClientInv(c)'
    BY <2>3, <2>7, <2>8, Zenon DEF ClientInv
  <2> QED
    BY <2>6, <2>9, Framed
<1> QED
  BY <1>8, <1>9

-----------------------------------------------------------------------------
(* The steps of the worker.                                                *)

LEMMA ReadFieldStep ==
  ASSUME Inv, NEW c \in Clients, server = "up", ReadField(c)
  PROVE  Inv'
<1>0. /\ EventInv /\ DataInv /\ SessionInv(c) /\ RequestInv(c)
      /\ (~ cut[c] => AnswerInv(c))
  BY Here
<1>f. PICK f : f = Append(fields[c], Head(request[c]))
  OBVIOUS
<1>1. /\ worker[c] = "read" /\ request[c] # <<>>
      /\ (fields[c] = <<>> => Head(request[c]) # "quit")
      /\ request' = [request EXCEPT ![c] = Tail(request[c])]
  BY DEF ReadField
<1>2. /\ events' = events /\ reply' = reply /\ calling' = calling /\ status' = status
      /\ sending' = sending /\ unserved' = unserved /\ taken' = taken
      /\ cut' = cut /\ response' = response /\ writes' = writes /\ given' = given
      /\ server' = server
  BY DEF ReadField, client, history
<1>3. /\ sending[c] \in Seq(FieldValues) /\ request[c] \in Seq(FieldValues)
      /\ fields[c] \in Seq(FieldValues) /\ unserved[c] \in Seq(Calls)
      /\ server \in {"up", "down"} /\ <<>> \in Seq(FieldValues)
  BY <1>0, TypesAt
<1>4. Tail(request[c]) \in Seq(FieldValues)
  BY <1>1, <1>3, Shift
<1>5. request'[c] = Tail(request[c])
  BY <1>0, <1>1 DEF DataInv
<1>6. Requests(status[c], unserved[c], sending[c], "read", call[c], fields[c], request[c])
  BY <1>0, <1>1, Zenon DEF RequestInv
<1>7. status[c] = "quit" => sending[c] = <<>>
  BY <1>0, Zenon DEF SessionInv
<1>8. /\ f \in Seq(FieldValues) /\ unserved[c] # <<>> /\ Head(unserved[c]) \in Calls
      /\ Len(f) < Arity[f[1]] =>
           Requests(status[c], unserved[c], sending[c], "read", call[c], f, Tail(request[c]))
      /\ ~ (Len(f) < Arity[f[1]]) =>
           /\ Decoded(f) = Head(unserved[c])
           /\ Requests(status[c], unserved[c], sending[c], "call", Decoded(f), <<>>,
                       Tail(request[c]))
  <2>1. FieldRead(status[c], unserved[c], sending[c], call[c],
                  Append(fields[c], Head(request[c])), Tail(request[c]))
    BY <1>1, <1>3, <1>6, <1>7, ReadRequests, Zenon
  <2> QED
    BY <2>1, <1>f, Zenon DEF FieldRead
<1>9. CASE Len(f) < Arity[f[1]]
  <2>1. fields' = [fields EXCEPT ![c] = f] /\ call' = call /\ worker' = worker
    BY <1>9, <1>f, Zenon DEF ReadField
  <2>2. fields'[c] = f
    BY <1>0, <2>1 DEF DataInv
  <2>3. Moves(c)
    BY <1>1, <1>2, <1>3, <1>4, <1>8, <2>1, Zenon DEF Moves, Put, Set
  <2>4. Frame(c)
    BY <1>0, <1>2, <2>3, FrameOf, Zenon
  <2>5. SessionInv(c)'
    BY <1>0, <1>2, <2>1, Zenon DEF SessionInv, Busy
  <2>6. RequestInv(c)'
    BY <1>1, <1>2, <1>5, <1>8, <1>9, <2>1, <2>2, Zenon DEF RequestInv
  <2>7. ASSUME ~ cut'[c] PROVE AnswerInv(c)'
    <3>1. AnswerInv(c)
      BY <1>0, <1>2, <2>7, Zenon
    <3> QED
      BY <1>2, <2>1, <3>1, Zenon DEF AnswerInv, NoReply, Store!NoReply
  <2>8. ClientInv(c)'
    BY <2>5, <2>6, <2>7, Zenon DEF ClientInv
  <2> QED
    BY <2>4, <2>8, Framed
<1>10. CASE ~ (Len(f) < Arity[f[1]])
  <2>1. /\ fields' = [fields EXCEPT ![c] = <<>>]
        /\ call' = [call EXCEPT ![c] = Decoded(f)]
        /\ worker' = [worker EXCEPT ![c] = "call"]
    BY <1>10, <1>f, Zenon DEF ReadField
  <2>2. fields'[c] = <<>> /\ call'[c] = Decoded(f) /\ worker'[c] = "call"
    BY <1>0, <2>1 DEF DataInv
  <2>3. Decoded(f) \in Calls /\ Decoded(f) # NoCall
    BY <1>8, <1>10, NoCallIsNone
  <2>4. Moves(c)
    <3>1. Put(call, call', c, Calls \cup {NoCall})
      BY <2>1, <2>3 DEF Put
    <3> QED
      BY <1>1, <1>2, <1>3, <1>4, <2>1, <3>1, Zenon DEF Moves, Put, Set
  <2>5. Frame(c)
    BY <1>0, <1>2, <2>4, FrameOf, Zenon
  <2>6. SessionInv(c)'
    <3>1. writes[c] = <<>>
      BY <1>0, <1>1 DEF SessionInv
    <3>2. "call" \notin {"read", "closed"}
      OBVIOUS
    <3> QED
      BY <1>0, <1>2, <2>2, <2>3, <3>1, <3>2, Zenon DEF SessionInv, Busy
  <2>7. RequestInv(c)'
    BY <1>2, <1>5, <1>8, <1>10, <2>2, Zenon DEF RequestInv
  <2>8. ASSUME ~ cut'[c] PROVE AnswerInv(c)'
    <3>1. AnswerInv(c)
      BY <1>0, <1>2, <2>8, Zenon
    <3>2. given[c] = NoReply
      BY <1>8, <3>1, Zenon DEF AnswerInv, After
    <3>3. Before(calling[c], unserved[c], "call", taken[c], response[c], writes[c], server)
      BY <3>1, <3>2, Zenon DEF AnswerInv, Before
    <3> QED
      BY <1>2, <2>2, <3>1, <3>2, <3>3, Zenon DEF AnswerInv, NoReply, Store!NoReply
  <2>9. ClientInv(c)'
    BY <2>6, <2>7, <2>8, Zenon DEF ClientInv
  <2> QED
    BY <2>5, <2>9, Framed
<1> QED
  BY <1>9, <1>10

LEMMA ReadQuitStep ==
  ASSUME Inv, NEW c \in Clients, ReadQuit(c)
  PROVE  Inv'
<1>0. /\ EventInv /\ DataInv /\ SessionInv(c) /\ RequestInv(c)
      /\ (~ cut[c] => AnswerInv(c))
  BY Here
<1>1. /\ worker[c] = "read" /\ fields[c] = <<>> /\ request[c] # <<>>
      /\ Head(request[c]) = "quit"
      /\ request' = [request EXCEPT ![c] = <<>>] /\ response' = [response EXCEPT ![c] = <<>>]
      /\ worker' = [worker EXCEPT ![c] = "closed"]
  BY DEF ReadQuit
<1>2. /\ events' = events /\ call' = call /\ reply' = reply /\ calling' = calling
      /\ status' = status /\ sending' = sending /\ unserved' = unserved /\ taken' = taken
      /\ cut' = cut /\ fields' = fields /\ writes' = writes /\ given' = given
      /\ server' = server
  BY DEF ReadQuit, store, client, history
<1>3. /\ sending[c] \in Seq(FieldValues) /\ request[c] \in Seq(FieldValues)
      /\ unserved[c] \in Seq(Calls) /\ server \in {"up", "down"}
      /\ <<>> \in Seq(FieldValues) /\ <<>> \in Seq(Nat) /\ Len(<<>>) = 0
  BY <1>0, TypesAt
<1>4. request'[c] = <<>> /\ response'[c] = <<>> /\ worker'[c] = "closed"
  BY <1>0, <1>1 DEF DataInv
<1>5. /\ status[c] = "quit"
      /\ Requests(status[c], unserved[c], sending[c], "closed", call[c], <<>>, <<>>)
  <2>1. Requests(status[c], unserved[c], sending[c], "read", call[c], <<>>, request[c])
    BY <1>0, <1>1, Zenon DEF RequestInv
  <2>2. status[c] = "quit" => sending[c] = <<>>
    BY <1>0, Zenon DEF SessionInv
  <2> QED
    BY <1>1, <1>3, <2>1, <2>2, ReadQuitRequests, Zenon
<1>6. Moves(c)
  BY <1>1, <1>2, <1>3, Zenon DEF Moves, Put, Set
<1>7. Frame(c)
  BY <1>0, <1>2, <1>6, FrameOf, Zenon
<1>8. SessionInv(c)'
  <2>1. Len(<<>>) <= Capacity
    BY <1>3, ClientServerAssumption
  <2>2. call[c] = NoCall /\ writes[c] = <<>>
    BY <1>0, <1>1 DEF SessionInv
  <2>3. "closed" \in {"read", "closed"}
    OBVIOUS
  <2> QED
    BY <1>0, <1>2, <1>4, <2>1, <2>2, <2>3, Zenon DEF SessionInv, Busy
<1>9. RequestInv(c)'
  BY <1>1, <1>2, <1>4, <1>5, Zenon DEF RequestInv
<1>10. ASSUME ~ cut'[c] PROVE AnswerInv(c)'
  <2>1. AnswerInv(c)
    BY <1>0, <1>2, <1>10, Zenon
  <2>2. calling[c] = NoCall
    BY <1>0, <1>5, Zenon DEF SessionInv, Busy, NoCall
  <2>3. given[c] = NoReply
    BY <2>1, <2>2, Zenon DEF AnswerInv, After
  <2>4. Before(calling[c], unserved[c], "closed", taken[c], <<>>, writes[c], server)
    BY <2>1, <2>3, Zenon DEF AnswerInv, Before
  <2> QED
    BY <1>2, <1>4, <1>5, <2>1, <2>3, <2>4, Zenon DEF AnswerInv, NoReply, Store!NoReply
<1>11. ClientInv(c)'
  BY <1>8, <1>9, <1>10, Zenon DEF ClientInv
<1> QED
  BY <1>7, <1>11, Framed

\* The server ends, for the reason DownInv names.
LEMMA EndOfServer ==
  ASSUME Inv, NEW c \in Clients, cut[c] \/ status[c] = "dead" \/ AsksTooMuch(c),
         server' = "down", UNCHANGED <<store, client, pipes, thread, history>>
  PROVE  Inv'
<1>0. /\ EventInv /\ DataInv /\ ClientInv(c)
  BY Zenon DEF Inv
<1>1. /\ events' = events /\ call' = call /\ reply' = reply /\ calling' = calling
      /\ status' = status /\ sending' = sending /\ unserved' = unserved /\ taken' = taken
      /\ cut' = cut /\ fields' = fields /\ writes' = writes /\ given' = given
      /\ request' = request /\ response' = response /\ worker' = worker
  BY DEF store, client, pipes, thread, history
<1>2. Moves(c)
  <2>1. server' \in {"up", "down"}
    OBVIOUS
  <2> QED
    BY <1>1, <2>1, Zenon DEF Moves, Put, Set
<1>3. Frame(c)
  <2>1. Grows(events, events')
    BY <1>0, <1>1, Unchanged, Zenon
  <2>2. AsksTooMuch(c) => AsksTooMuch(c)'
    BY <1>0, <1>1, <2>1, TooMuchStill, Zenon
  <2> QED
    BY <1>0, <1>1, <1>2, <2>2, Unchanged, Zenon DEF Frame
<1>4. ClientInv(c)'
  <2>1. Same(c) /\ Grows(events, events')
    BY <1>1, <1>3, Zenon DEF Same, Frame
  <2> QED
    BY <1>0, <2>1, Others, Zenon
<1> QED
  BY <1>3, <1>4, Framed

LEMMA ReadEofStep ==
  ASSUME Inv, NEW c \in Clients, ReadEof(c)
  PROVE  Inv'
<1>1. /\ worker[c] = "read" /\ request[c] = <<>> /\ status[c] \in {"quit", "dead"}
      /\ server' = "down" /\ UNCHANGED <<store, client, pipes, thread, history>>
  BY DEF ReadEof, Gone
<1>2. status[c] # "quit"
  <2>1. RequestInv(c) /\ "read" # "closed"
    BY Here
  <2> QED
    BY <1>1, <2>1, Zenon DEF RequestInv, Requests, QuitSent
<1> QED
  BY <1>1, <1>2, EndOfServer

LEMMA WriteToNobodyStep ==
  ASSUME Inv, NEW c \in Clients, server = "up", WriteToNobody(c)
  PROVE  Inv'
<1>1. /\ worker[c] = "answer" /\ writes[c] # <<>> /\ status[c] \in {"quit", "dead"}
      /\ Head(writes[c]) # <<>>
      /\ server' = "down" /\ UNCHANGED <<store, client, pipes, thread, history>>
  BY DEF WriteToNobody, Gone
<1>2. cut[c] \/ status[c] # "quit"
  <2>1. SUFFICES ASSUME ~ cut[c], status[c] = "quit" PROVE FALSE
    OBVIOUS
  <2>2. SessionInv(c) /\ AnswerInv(c)
    BY <2>1, Here
  <2>3. calling[c] = NoCall
    BY <2>1, <2>2, Zenon DEF SessionInv, Busy, NoCall
  <2>4. given[c] = NoReply
    BY <2>2, <2>3, Zenon DEF AnswerInv, After
  <2>5. writes[c] \in {<<>>, << <<>> >>}
    BY <1>1, <2>2, <2>4, Zenon DEF AnswerInv, Before
  <2>6. Head(<< <<>> >>) = <<>>
    OBVIOUS
  <2> QED
    BY <1>1, <2>5, <2>6
<1> QED
  BY <1>1, <1>2, EndOfServer

LEMMA StackOverrunStep ==
  ASSUME Inv, StackInv, NEW c \in Clients, StackOverrun(c)
  PROVE  Inv'
<1>1. /\ writes[c] # <<>> /\ Len(Head(writes[c])) > ServerStack
      /\ server' = "down" /\ UNCHANGED <<store, client, pipes, thread, history>>
  BY DEF StackOverrun, TooLarge
<1>2. writes[c] \in Seq(Seq(Nat))
  BY TypesAt, Zenon DEF Inv
<1>3. 1 \in 1 .. Len(writes[c]) /\ Head(writes[c]) = writes[c][1]
  BY <1>1, <1>2
<1>4. AsksTooMuch(c)
  BY <1>1, <1>3, Zenon DEF StackInv
<1> QED
  BY <1>1, <1>4, EndOfServer, Zenon

LEMMA ShowLookupStep ==
  ASSUME Inv, NEW c \in Clients, ShowLookup(c)
  PROVE  Inv'
<1>0. /\ EventInv /\ DataInv /\ SessionInv(c) /\ RequestInv(c)
      /\ (~ cut[c] => AnswerInv(c))
  BY Here
<1>1. worker[c] = "call" /\ worker' = [worker EXCEPT ![c] = "mutex"]
  BY DEF ShowLookup
<1>2. /\ events' = events /\ call' = call /\ reply' = reply /\ calling' = calling
      /\ status' = status /\ sending' = sending /\ unserved' = unserved /\ taken' = taken
      /\ cut' = cut /\ fields' = fields /\ writes' = writes /\ given' = given
      /\ request' = request /\ response' = response /\ server' = server
  BY DEF ShowLookup, store, client, pipes, history
<1>3. server \in {"up", "down"}
  BY <1>0, TypesAt
<1>4. worker'[c] = "mutex"
  BY <1>0, <1>1 DEF DataInv
<1>5. Moves(c)
  BY <1>1, <1>2, <1>3, Zenon DEF Moves, Put, Set
<1>6. Frame(c)
  BY <1>0, <1>2, <1>5, FrameOf, Zenon
<1>7. SessionInv(c)'
  <2>1. call[c] # NoCall /\ writes[c] = <<>>
    BY <1>0, <1>1 DEF SessionInv
  <2>2. "mutex" \notin {"read", "closed"}
    OBVIOUS
  <2> QED
    BY <1>0, <1>2, <1>4, <2>1, <2>2, Zenon DEF SessionInv, Busy
<1>8. RequestInv(c)'
  <2>1. Requests(status[c], unserved[c], sending[c], "call", call[c], fields[c], request[c])
    BY <1>0, <1>1, Zenon DEF RequestInv
  <2>2. Requests(status[c], unserved[c], sending[c], "mutex", call[c], fields[c], request[c])
    BY <2>1, MutexRequests, Zenon
  <2> QED
    BY <1>2, <1>4, <2>2, Zenon DEF RequestInv
<1>9. ASSUME ~ cut'[c] PROVE AnswerInv(c)'
  <2>1. AnswerInv(c)
    BY <1>0, <1>2, <1>9, Zenon
  <2>2. given[c] = NoReply
    BY <1>1, <2>1 DEF AnswerInv, After
  <2>3. Before(calling[c], unserved[c], "mutex", taken[c], response[c], writes[c], server)
    BY <2>1, <2>2, Zenon DEF AnswerInv, Before
  <2> QED
    BY <1>2, <1>4, <2>1, <2>2, <2>3, Zenon DEF AnswerInv, NoReply, Store!NoReply
<1>10. ClientInv(c)'
  BY <1>7, <1>8, <1>9, Zenon DEF ClientInv
<1> QED
  BY <1>6, <1>10, Framed

LEMMA EndCallStep ==
  ASSUME Inv, NEW c \in Clients, server = "up", EndCall(c)
  PROVE  Inv'
<1>0. /\ EventInv /\ DataInv /\ SessionInv(c) /\ RequestInv(c)
      /\ (~ cut[c] => AnswerInv(c))
  BY Here
<1>1. /\ worker[c] = "answer" /\ writes[c] = <<>> /\ worker' = [worker EXCEPT ![c] = "read"]
      /\ call' = [call EXCEPT ![c] = NoCall] /\ reply' = [reply EXCEPT ![c] = NoReply]
  BY DEF EndCall, Store!Return, NoCall, NoReply
<1>2. /\ events' = events /\ calling' = calling
      /\ status' = status /\ sending' = sending /\ unserved' = unserved /\ taken' = taken
      /\ cut' = cut /\ fields' = fields /\ writes' = writes /\ given' = given
      /\ request' = request /\ response' = response /\ server' = server
  BY DEF EndCall, Store!Return, client, pipes, history
<1>3. server \in {"up", "down"}
  BY <1>0, TypesAt
<1>4. worker'[c] = "read" /\ call'[c] = NoCall
  BY <1>0, <1>1 DEF DataInv
<1>5. Moves(c)
  BY <1>1, <1>2, <1>3, Zenon DEF Moves, Put, Set
<1>6. Frame(c)
  BY <1>0, <1>2, <1>5, FrameOf, Zenon
<1>7. SessionInv(c)'
  <2>1. "read" \in {"read", "closed"}
    OBVIOUS
  <2> QED
    BY <1>0, <1>1, <1>2, <1>4, <2>1, Zenon DEF SessionInv, Busy
<1>8. RequestInv(c)'
  <2>1. Requests(status[c], unserved[c], sending[c], "answer", call[c], fields[c], request[c])
    BY <1>0, <1>1, Zenon DEF RequestInv
  <2>2. Requests(status[c], unserved[c], sending[c], "read", NoCall, fields[c], request[c])
    BY <2>1, EndRequests, Zenon
  <2> QED
    BY <1>2, <1>4, <2>2, Zenon DEF RequestInv
<1>9. ASSUME ~ cut'[c] PROVE AnswerInv(c)'
  <2>1. AnswerInv(c)
    BY <1>0, <1>2, <1>9, Zenon
  <2>2. given[c] = NoReply =>
          Before(calling[c], unserved[c], "read", taken[c], response[c], writes[c], server)
    BY <2>1 DEF AnswerInv, Before
  <2>3. given[c] # NoReply =>
          After(given[c], events, calling[c], sending[c], unserved[c], "read",
                taken[c], response[c], writes[c])
    BY <2>1, Zenon DEF AnswerInv, After
  <2> QED
    BY <1>2, <1>4, <2>1, <2>2, <2>3, Zenon DEF AnswerInv, NoReply, Store!NoReply
<1>10. ClientInv(c)'
  BY <1>7, <1>8, <1>9, Zenon DEF ClientInv
<1> QED
  BY <1>6, <1>10, Framed

LEMMA RepliesAre ==
  ASSUME NEW r, NEW op, NEW ev, Fits(r, op, ev)
  PROVE  r # NoReply
<1>1. CASE r.err = "ok" \/ r.err = "error"
  BY <1>1 DEF NoReply, Store!NoReply
<1>2. r.err = "ok" \/ r.err = "error"
  <2>1. r = Store!Failure => r.err = "error"
    BY DEF Store!Failure
  <2>2. r = Store!Success => r.err = "ok"
    BY DEF Store!Success
  <2>3. r = [err |-> "ok", rows |-> r.rows, cols |-> r.cols, seats |-> r.seats] => r.err = "ok"
    OBVIOUS
  <2>4. r = [err |-> "ok", num_events |-> r.num_events, ids |-> r.ids] => r.err = "ok"
    OBVIOUS
  <2> QED
    BY <2>1, <2>2, <2>3, <2>4, Zenon DEF Fits
<1> QED
  BY <1>1, <1>2

\* When no call is left, nothing is left to send.
LEMMA AllSent ==
  ASSUME NEW st, NEW se \in Seq(FieldValues), NEW wk \in {"answer", "read"}, NEW ca,
         NEW fi \in Seq(FieldValues), NEW rq \in Seq(FieldValues),
         Requests(st, <<>>, se, wk, ca, fi, rq)
  PROVE  se = <<>>
<1> DEFINE P == Plain(st, wk, rq)
           s == fi \o (P \o se)
<1>1. Ahead(<<>>, wk) = <<>> /\ Spells(s, Ahead(<<>>, wk))
  BY DEF Ahead, Requests
<1>2. P \in Seq(FieldValues)
  BY PlainSeq
<1> HIDE DEF P
<1>3. P \o se \in Seq(FieldValues) /\ Len(P \o se) = Len(P) + Len(se)
      /\ Len(P) \in Nat /\ Len(se) \in Nat
  BY <1>2, ConcatProperties
<1>4. s \in Seq(FieldValues) /\ Len(s) = Len(fi) + Len(P \o se) /\ Len(fi) \in Nat
  BY <1>3, ConcatProperties
<1>5. s = <<>>
  BY <1>1, <1>4, SpellsNothing
<1>6. Len(s) = 0
  BY <1>5
<1>7. Len(se) = 0
  BY <1>3, <1>4, <1>6
<1> QED
  BY <1>7

LEMMA ExecuteStep ==
  ASSUME Inv, NEW c \in Clients, server = "up", Execute(c)
  PROVE  Inv'
<1>0. /\ EventInv /\ DataInv /\ SessionInv(c) /\ RequestInv(c)
      /\ (~ cut[c] => AnswerInv(c))
  BY Here
<1>1. /\ worker[c] \in {"call", "mutex"} /\ worker' = [worker EXCEPT ![c] = "answer"]
      /\ writes' = [writes EXCEPT ![c] = Writes(reply'[c])]
      /\ unserved' = [unserved EXCEPT ![c] = Tail(unserved[c])]
      /\ given' = [given EXCEPT ![c] = reply'[c]]
      /\ reply'[c] # Store!Lost
  BY DEF Execute
<1>2. /\ calling' = calling /\ status' = status /\ sending' = sending /\ taken' = taken
      /\ cut' = cut /\ fields' = fields /\ request' = request /\ response' = response
      /\ server' = server
  BY DEF Execute, client, pipes
<1>3. /\ unserved[c] \in Seq(Calls) /\ sending[c] \in Seq(FieldValues)
      /\ fields[c] \in Seq(FieldValues) /\ request[c] \in Seq(FieldValues)
      /\ call[c] \in Calls \cup {NoCall} /\ server \in {"up", "down"}
  BY <1>0, TypesAt
<1>4. call[c] \in Calls
  BY <1>0, <1>1, <1>3 DEF SessionInv
<1>5. PICK r : Served(c, r)
  <2>1. c \in DOMAIN reply
    BY <1>0 DEF DataInv
  <2> QED
    BY <1>0, <1>1, <1>4, <2>1, Creates, Reserves, Shows, Lists, Zenon DEF Execute
<1>6. /\ reply' = [reply EXCEPT ![c] = r] /\ call' = call
      /\ Fits(r, call[c].op, events)
      /\ events' \in Seq(Events) /\ \A q \in 1 .. Len(events') : IsEvent(events'[q])
      /\ Grows(events, events')
  BY <1>5 DEF Served
<1>7. reply'[c] = r
  BY <1>0, <1>6 DEF DataInv
<1>8. Layout(r) /\ r # NoReply
  BY <1>0, <1>6, LayoutOf, RepliesAre
<1>9. Writes(r) \in Seq(Seq(Nat))
  BY <1>8, RestOfAll
<1>10. Requests(status[c], unserved[c], sending[c], worker[c], call[c], fields[c], request[c])
  BY <1>0 DEF RequestInv
<1>11. /\ Requests(status[c], Tail(unserved[c]), sending[c], "answer", call[c], fields[c],
                   request[c])
       /\ unserved[c] # <<>> /\ call[c] = Head(unserved[c])
  <2>1. worker[c] \in {"call", "mutex"}
    BY <1>1
  <2>2. unserved[c] # <<>> /\ call[c] = Head(unserved[c])
    BY <1>10, <2>1, Zenon DEF Requests
  <2>3. Requests(status[c], Tail(unserved[c]), sending[c], "answer", call[c], fields[c],
                 request[c])
    BY <1>10, <2>1, ExecuteRequests
  <2> QED
    BY <2>2, <2>3, Zenon
<1>12. Tail(unserved[c]) \in Seq(Calls)
  BY <1>3, <1>11
<1>13. /\ worker'[c] = "answer" /\ writes'[c] = Writes(r) /\ unserved'[c] = Tail(unserved[c])
       /\ given'[c] = r
  BY <1>0, <1>1, <1>7 DEF DataInv
<1>14. Moves(c)
  <2>1. writes' = [writes EXCEPT ![c] = Writes(r)]
    BY <1>1, <1>7
  <2> QED
    BY <1>1, <1>2, <1>3, <1>6, <1>9, <1>12, <2>1, Zenon DEF Moves, Put, Set
<1>15. Frame(c)
  BY <1>2, <1>6, <1>14, Zenon DEF Frame
<1>16. SessionInv(c)'
  <2>1. call[c] # NoCall /\ "answer" \notin {"read", "closed"}
    BY <1>4, NoCallIsNone
  <2> QED
    BY <1>0, <1>2, <1>6, <1>13, <2>1, Zenon DEF SessionInv, Busy
<1>17. RequestInv(c)'
  BY <1>2, <1>6, <1>11, <1>13, Zenon DEF RequestInv
<1>18. ASSUME ~ cut'[c] PROVE AnswerInv(c)'
  <2>1. AnswerInv(c)
    BY <1>0, <1>2, <1>18, Zenon
  <2>2. given[c] = NoReply
    BY <1>1, <2>1 DEF AnswerInv, After
  <2>3. Before(calling[c], unserved[c], worker[c], taken[c], response[c], writes[c], server)
    BY <2>1, <2>2, Zenon DEF AnswerInv
  <2>4. /\ taken[c] = <<>> /\ response[c] = <<>>
        /\ calling[c] # NoCall /\ unserved[c] = <<calling[c]>>
    BY <1>11, <2>3, Zenon DEF Before
  <2>5. Head(<<calling[c]>>) = calling[c] /\ Tail(<<calling[c]>>) = <<>>
    OBVIOUS
  <2>6. call[c] = calling[c] /\ Tail(unserved[c]) = <<>>
    BY <1>11, <2>4, <2>5, Zenon
  <2>7. sending[c] = <<>>
    <3>1. Requests(status[c], <<>>, sending[c], "answer", call[c], fields[c], request[c])
      BY <1>11, <2>6, Zenon
    <3> QED
      BY <1>3, <3>1, AllSent
  <2>8. Fits(r, calling[c].op, events')
    <3>1. Fits(r, call[c].op, events')
      BY <1>6, FitsStill, Zenon
    <3> QED
      BY <2>6, <3>1, Zenon
  <2>9. Follows(r, <<>>, <<>>) /\ Rest(r, Writes(r), Len(<<>>) + Len(<<>>))
    BY <1>8, RestOfAll
  <2>10. After(r, events', calling[c], <<>>, <<>>, "answer", <<>>, <<>>, Writes(r))
    <3>1. "answer" \in {"read", "answer"}
      OBVIOUS
    <3> QED
      BY <2>4, <2>8, <2>9, <3>1, Zenon DEF After
  <2>11. status'[c] = "failed" => server' = "down" /\ response'[c] = <<>>
    BY <1>2, <2>1, Zenon DEF AnswerInv
  <2>12. After(given'[c], events', calling'[c], sending'[c], unserved'[c], worker'[c],
               taken'[c], response'[c], writes'[c])
    BY <1>2, <1>13, <2>4, <2>6, <2>7, <2>10, Zenon
  <2> QED
    BY <1>8, <1>13, <2>11, <2>12, Zenon DEF AnswerInv, NoReply, Store!NoReply
<1>19. ClientInv(c)'
  BY <1>16, <1>17, <1>18, Zenon DEF ClientInv
<1> QED
  BY <1>15, <1>19, Framed

\* How much of the words a write puts into the pipe.
LEMMA WriteSize ==
  ASSUME NEW words \in Seq(Nat), NEW room \in Nat, NEW k,
         k = IF Len(words) <= Atomic THEN Len(words) ELSE Min({room, Len(words)})
  PROVE  /\ k \in Nat /\ k <= Len(words)
         /\ k # Len(words) => k = room /\ Len(words) > Atomic
<1>1. Len(words) \in Nat /\ Atomic \in Nat
  BY ClientServerAssumption
<1>2. CASE Len(words) <= Atomic
  BY <1>1, <1>2
<1>3. CASE ~ (Len(words) <= Atomic)
  <2>1. PICK y \in Nat : y = Len(words)
    BY <1>1
  <2>2. Min({room, y}) \in {room, y} /\ Min({room, y}) <= y
    BY Smallest
  <2>3. k = Min({room, y})
    BY <1>3, <2>1
  <2>4. k \in Nat /\ k <= y /\ (k = room \/ k = y)
    BY <2>2, <2>3
  <2>5. Len(words) > Atomic
    BY <1>1, <1>3
  <2> QED
    BY <2>1, <2>4, <2>5
<1> QED
  BY <1>2, <1>3

LEMMA WriteStep ==
  ASSUME Inv, NEW c \in Clients, server = "up", Write(c)
  PROVE  Inv'
<1>0. /\ EventInv /\ DataInv /\ SessionInv(c) /\ RequestInv(c)
      /\ (~ cut[c] => AnswerInv(c))
  BY Here
<1> DEFINE ws == writes[c]
           rs == response[c]
           ta == taken[c]
           words == Head(ws)
           room == Capacity - Len(rs)
<1>1. worker[c] = "answer" /\ ws # <<>>
  BY DEF Write
<1>2. /\ rs \in Seq(Nat) /\ ta \in Seq(Nat) /\ ws \in Seq(Seq(Nat)) /\ server \in {"up", "down"}
      /\ words \in Seq(Nat) /\ Tail(ws) \in Seq(Seq(Nat)) /\ Len(words) \in Nat
      /\ Len(rs) \in Nat /\ Len(ta) \in Nat
  <2>1. rs \in Seq(Nat) /\ ta \in Seq(Nat) /\ ws \in Seq(Seq(Nat)) /\ server \in {"up", "down"}
    BY <1>0, TypesAt
  <2> HIDE DEF ws, rs, ta
  <2>2. words \in Seq(Nat) /\ Tail(ws) \in Seq(Seq(Nat))
    BY <1>1, <2>1
  <2> HIDE DEF words
  <2> QED
    BY <2>1, <2>2
<1>3. Capacity \in Nat /\ Atomic \in Nat /\ room \in Nat
  <2>1. Len(rs) <= Capacity /\ Capacity \in Nat /\ Atomic \in Nat
    BY <1>0, ClientServerAssumption DEF SessionInv
  <2> QED
    BY <1>2, <2>1
<1>4. PICK k : /\ k = IF Len(words) <= Atomic THEN Len(words) ELSE Min({room, Len(words)})
               /\ k <= room /\ (words # <<>> => k > 0)
               /\ response' = [response EXCEPT ![c] = rs \o SubSeq(words, 1, k)]
               /\ writes' = [writes EXCEPT ![c] =
                    IF k = Len(words) THEN Tail(ws)
                    ELSE [ws EXCEPT ![1] = SubSeq(words, k + 1, Len(words))]]
  BY Zenon DEF Write
<1>5. /\ events' = events /\ call' = call /\ reply' = reply /\ calling' = calling
      /\ status' = status /\ sending' = sending /\ unserved' = unserved /\ taken' = taken
      /\ cut' = cut /\ fields' = fields /\ given' = given
      /\ request' = request /\ worker' = worker /\ server' = server
  BY DEF Write, store, client, history
<1>6. /\ k \in Nat /\ k <= Len(words)
      /\ k # Len(words) => k = room /\ Len(words) > Atomic
  <2>1. /\ words \in Seq(Nat) /\ room \in Nat
        /\ k = IF Len(words) <= Atomic THEN Len(words) ELSE Min({room, Len(words)})
    BY <1>2, <1>3, <1>4, Zenon
  <2> HIDE DEF words, room
  <2> QED
    BY <2>1, WriteSize, Zenon
<1> DEFINE part == SubSeq(words, 1, k)
           left == SubSeq(words, k + 1, Len(words))
           new == rs \o part
           rest == IF k = Len(words) THEN Tail(ws) ELSE [ws EXCEPT ![1] = left]
<1>7. /\ part \in Seq(Nat) /\ Len(part) = k /\ \A i \in 1 .. k : part[i] = words[i]
      /\ left \in Seq(Nat) /\ Len(left) = Len(words) - k
  BY <1>2, <1>6, Split, Zenon
<1>8. response' = [response EXCEPT ![c] = new] /\ writes' = [writes EXCEPT ![c] = rest]
  BY <1>4, Zenon
<1> HIDE DEF part, left, ws, rs, ta, words
<1>9. new \in Seq(Nat) /\ Len(new) = Len(rs) + k
  BY <1>2, <1>7, Chain
<1>10. rest \in Seq(Seq(Nat))
  <2>1. 1 \in 1 .. Len(ws)
    <3>1. Len(ws) >= 1 /\ Len(ws) \in Nat
      BY <1>1, <1>2
    <3> QED
      BY <3>1
  <2>2. [ws EXCEPT ![1] = left] \in Seq(Seq(Nat))
    BY <1>2, <1>7, <2>1, ExceptSeq
  <2> QED
    BY <1>2, <2>2
<1> HIDE DEF new, rest
<1>11. response'[c] = new /\ writes'[c] = rest
  BY <1>0, <1>8 DEF DataInv
<1>12. Moves(c)
  BY <1>2, <1>5, <1>8, <1>9, <1>10, Zenon DEF Moves, Put, Set
<1>13. Frame(c)
  BY <1>0, <1>5, <1>12, FrameOf, Zenon
<1>14. SessionInv(c)'
  <2>1. Len(new) <= Capacity
    BY <1>2, <1>3, <1>4, <1>6, <1>9
  <2> QED
    BY <1>0, <1>1, <1>5, <1>11, <2>1, Zenon DEF SessionInv, Busy
<1>15. RequestInv(c)'
  BY <1>0, <1>5, Zenon DEF RequestInv
<1>16. ASSUME ~ cut'[c] PROVE AnswerInv(c)'
  <2>1. AnswerInv(c)
    BY <1>0, <1>5, <1>16, Zenon
  <2>2. CASE given[c] = NoReply
    <3>1. Before(calling[c], unserved[c], worker[c], ta, rs, ws, server)
      BY <2>1, <2>2, Zenon DEF AnswerInv, ta, rs, ws
    <3>2. rs = <<>> /\ ws = << <<>> >>
      BY <1>1, <3>1, Zenon DEF Before
    <3>3. words = <<>> /\ Tail(ws) = <<>>
      BY <3>2 DEF words
    <3>4. k = Len(words) /\ Len(new) = 0
      BY <1>2, <1>6, <1>9, <3>2, <3>3
    <3>5. new = <<>> /\ rest = <<>>
      BY <1>9, <3>3, <3>4 DEF rest
    <3>6. Before(calling[c], unserved[c], worker[c], ta, new, rest, server)
      BY <3>1, <3>5 DEF Before
    <3> QED
      BY <1>5, <1>11, <2>1, <2>2, <3>5, <3>6, Zenon DEF AnswerInv, NoReply, Store!NoReply, ta
  <2>3. CASE given[c] # NoReply
    <3> DEFINE r == given[c]
    <3>1. After(r, events, calling[c], sending[c], unserved[c], worker[c], ta, rs, ws)
      BY <2>1, <2>3, Zenon DEF AnswerInv, ta, rs, ws
    <3>2. /\ Fits(r, calling[c].op, events) /\ Follows(r, ta, rs)
          /\ Rest(r, ws, Len(ta) + Len(rs))
      BY <3>1, Zenon DEF After
    <3>3. Layout(r)
      BY <1>0, <3>2, LayoutOf
    <3> HIDE DEF r
    <3>4. Follows(r, ta, new)
      BY <1>1, <1>2, <1>6, <1>7, <3>2, <3>3, WriteFollows DEF new, words
    <3>5. Rest(r, rest, Len(ta) + Len(new))
      <4>1. PICK n \in Nat : n = Len(ta) + Len(rs)
        BY <1>2
      <4>2. Len(ta) + Len(new) = n + k
        BY <1>2, <1>6, <1>9, <4>1
      <4>3. PICK j \in 1 .. Len(Writes(r)) + 1 : RestFrom(r, ws, n, j)
        BY <3>2, <4>1 DEF Rest
      <4>4. CASE k = Len(words)
        <5>1. Rest(r, Tail(ws), n + Len(Head(ws)))
          BY <1>1, <1>2, <3>3, <4>3, WholeWrite
        <5> QED
          BY <4>2, <4>4, <5>1, Zenon DEF rest, words
      <4>5. CASE k # Len(words)
        <5>1. k < Len(Head(ws)) /\ Len(Head(ws)) > Atomic
          BY <1>2, <1>6, <4>5 DEF words
        <5>2. k > 0 /\ Capacity <= k + n
          <6>1. Len(words) # 0
            BY <1>2, <1>6, <4>5
          <6>2. words # <<>>
            BY <6>1
          <6>3. k = Capacity - Len(rs)
            BY <1>6, <4>5
          <6>4. Capacity <= k + n
            BY <1>2, <1>3, <4>1, <6>3
          <6> QED
            BY <1>4, <6>2, <6>4 DEF words, ws
        <5>3. Rest(r, [ws EXCEPT ![1] = SubSeq(Head(ws), k + 1, Len(Head(ws)))], n + k)
          BY <1>1, <1>2, <1>6, <3>3, <4>3, <5>1, <5>2, PartWrite
        <5> QED
          BY <4>2, <4>5, <5>3, Zenon DEF rest, words, left
      <4> QED
        BY <4>4, <4>5
    <3>6. After(r, events, calling[c], sending[c], unserved[c], worker[c], ta, new, rest)
      BY <3>1, <3>4, <3>5, Zenon DEF After
    <3>7. status[c] # "failed"
      BY <2>1, Zenon DEF AnswerInv
    <3> QED
      BY <1>5, <1>11, <2>3, <3>6, <3>7, Zenon DEF AnswerInv, NoReply, Store!NoReply, ta, r
  <2> QED
    BY <2>2, <2>3
<1>17. ClientInv(c)'
  BY <1>14, <1>15, <1>16, Zenon DEF ClientInv
<1> QED
  BY <1>13, <1>17, Framed

-----------------------------------------------------------------------------
(* The invariant.                                                          *)

LEMMA InitInv ==
  ASSUME Init
  PROVE  Inv
<1>1. /\ events = <<>> /\ call = [c \in Clients |-> NoCall] /\ reply = [c \in Clients |-> NoReply]
      /\ calling = [c \in Clients |-> NoCall] /\ status = [c \in Clients |-> "open"]
      /\ sending = [c \in Clients |-> <<>>] /\ taken = [c \in Clients |-> <<>>]
      /\ request = [c \in Clients |-> <<>>] /\ response = [c \in Clients |-> <<>>]
      /\ worker = [c \in Clients |-> "read"]
      /\ fields = [c \in Clients |-> <<>>] /\ writes = [c \in Clients |-> <<>>]
      /\ unserved = [c \in Clients |-> <<>>] /\ given = [c \in Clients |-> NoReply]
      /\ cut = [c \in Clients |-> FALSE] /\ server = "up"
  BY Zenon DEF Init, Store!Init, NoCall, NoReply
<1>2. EventInv
  <2>1. events = <<>>
    BY <1>1
  <2>2. <<>> \in Seq([id : Nat, rows : Nat, cols : Nat, reservations : Nat,
                      data : UNION {[0 .. n - 1 -> Nat] : n \in Nat}])
    OBVIOUS
  <2>3. DOMAIN events = {}
    BY <2>1
  <2> QED
    BY <2>1, <2>2, <2>3, Zenon DEF EventInv
<1>3. DataInv
  <2>1. /\ <<>> \in Seq(FieldValues) /\ <<>> \in Seq(Calls) /\ <<>> \in Seq(Nat)
        /\ <<>> \in Seq(Seq(Nat))
    OBVIOUS
  <2>2. /\ sending \in [Clients -> Seq(FieldValues)] /\ request \in [Clients -> Seq(FieldValues)]
        /\ fields \in [Clients -> Seq(FieldValues)] /\ unserved \in [Clients -> Seq(Calls)]
        /\ taken \in [Clients -> Seq(Nat)] /\ response \in [Clients -> Seq(Nat)]
        /\ writes \in [Clients -> Seq(Seq(Nat))]
    BY <1>1, <2>1, Zenon
  <2>3. /\ call \in [Clients -> Calls \cup {NoCall}] /\ calling \in [Clients -> Calls \cup {NoCall}]
        /\ status \in [Clients -> {"open", "failed", "quit", "dead"}]
        /\ worker \in [Clients -> {"read", "call", "mutex", "answer", "closed"}]
        /\ cut \in [Clients -> BOOLEAN] /\ server \in {"up", "down"}
    BY <1>1
  <2>4. /\ DOMAIN reply = Clients /\ DOMAIN given = Clients
        /\ reply = [c \in Clients |-> reply[c]] /\ given = [c \in Clients |-> given[c]]
    BY <1>1
  <2> QED
    BY <2>2, <2>3, <2>4, Zenon DEF DataInv
<1>4. CutInv /\ DownInv
  BY <1>1 DEF CutInv, DownInv
<1>5. ASSUME NEW c \in Clients PROVE ClientInv(c)
  <2>1. /\ call[c] = NoCall /\ calling[c] = NoCall /\ status[c] = "open" /\ sending[c] = <<>>
        /\ taken[c] = <<>> /\ request[c] = <<>> /\ response[c] = <<>> /\ worker[c] = "read"
        /\ fields[c] = <<>> /\ writes[c] = <<>> /\ unserved[c] = <<>> /\ given[c] = NoReply
    BY <1>1
  <2>2. SessionInv(c)
    <3>1. Len(response[c]) <= Capacity
      BY <2>1, ClientServerAssumption
    <3> QED
      BY <2>1, <3>1 DEF SessionInv, Busy, NoCall
  <2>3. RequestInv(c)
    <3>1. <<>> \o (<<>> \o <<>>) = <<>>
      OBVIOUS
    <3>2. Plain("open", "read", <<>>) = <<>> /\ Ahead(<<>>, "read") = <<>>
          /\ ~ QuitSent("open", "read")
      BY DEF Plain, Ahead, QuitSent
    <3>3. Spells(<<>> \o (Plain("open", "read", <<>>) \o <<>>), Ahead(<<>>, "read"))
      BY <3>1, <3>2, SpellsNothing
    <3>4. Requests("open", <<>>, <<>>, "read", NoCall, <<>>, <<>>)
      BY <3>2, <3>3 DEF Requests
    <3> QED
      BY <2>1, <3>4 DEF RequestInv
  <2>4. AnswerInv(c)
    <3>1. Before(NoCall, <<>>, "read", <<>>, <<>>, <<>>, "up")
      BY DEF Before
    <3> QED
      BY <1>1, <2>1, <3>1 DEF AnswerInv
  <2> QED
    BY <2>2, <2>3, <2>4 DEF ClientInv
<1> QED
  BY <1>2, <1>3, <1>4, <1>5, Zenon DEF Inv

LEMMA NextInv ==
  ASSUME Inv, StackInv, [Next]_vars
  PROVE  Inv'
<1>1. CASE UNCHANGED vars
  <2>1. /\ events' = events /\ call' = call /\ reply' = reply /\ calling' = calling
        /\ status' = status /\ sending' = sending /\ unserved' = unserved /\ taken' = taken
        /\ cut' = cut /\ fields' = fields /\ writes' = writes /\ given' = given
        /\ request' = request /\ response' = response /\ worker' = worker /\ server' = server
    BY <1>1 DEF vars, store, client, pipes, thread, history
  <2>2. EventInv' /\ DataInv' /\ CutInv' /\ DownInv'
    BY <2>1, Zenon DEF Inv, EventInv, DataInv, CutInv, DownInv, ManyWords, TooLong, AsksTooMuch
  <2>3. ASSUME NEW c \in Clients PROVE ClientInv(c)'
    BY <2>1, Zenon DEF Inv, ClientInv, SessionInv, RequestInv, AnswerInv, Busy, NoReply,
                       Store!NoReply
  <2> QED
    BY <2>2, <2>3, Zenon DEF Inv
<1>2. ASSUME NEW c \in Clients, ClientStep(c)
      PROVE  Inv'
  <2>1. CASE Ask(c)
    BY <2>1, AskStep
  <2>2. CASE Send(c)
    BY <2>2, SendStep
  <2>3. CASE Read(c)
    BY <2>3, ReadStep
  <2>4. CASE ReadEnd(c)
    BY <2>4, ReadEndStep
  <2>5. CASE Crash(c)
    <3>1. /\ status[c] \in {"open", "failed"} /\ status' = [status EXCEPT ![c] = "dead"]
          /\ UNCHANGED <<store, calling, made, sending, taken, cut, pipes, thread, history, server>>
      BY <2>5 DEF Crash, Reading
    <3> QED
      BY <3>1, DeadStep
  <2>6. CASE Return(c)
    BY <2>6, ReturnStep
  <2>7. CASE Quit(c)
    BY <2>7, QuitStep
  <2> QED
    BY <1>2, <2>1, <2>2, <2>3, <2>4, <2>5, <2>6, <2>7 DEF ClientStep
<1>3. ASSUME NEW c \in Clients, Die(c)
      PROVE  Inv'
  <2>1. /\ status[c] \in {"open", "failed"} /\ status' = [status EXCEPT ![c] = "dead"]
        /\ UNCHANGED <<store, calling, made, sending, taken, cut, pipes, thread, history, server>>
    BY <1>3 DEF Die
  <2> QED
    BY <2>1, DeadStep
<1>4. ASSUME NEW c \in Clients, Work(c)
      PROVE  Inv'
  <2>0. server = "up"
    BY <1>4 DEF Work
  <2>1. CASE ReadField(c)
    BY <2>0, <2>1, ReadFieldStep
  <2>2. CASE ReadQuit(c)
    BY <2>0, <2>2, ReadQuitStep
  <2>3. CASE ReadEof(c)
    BY <2>3, ReadEofStep
  <2>4. CASE ShowLookup(c)
    BY <2>0, <2>4, ShowLookupStep
  <2>5. CASE Execute(c)
    BY <2>0, <2>5, ExecuteStep
  <2>6. CASE Write(c)
    BY <2>0, <2>6, WriteStep
  <2>7. CASE WriteToNobody(c)
    BY <2>0, <2>7, WriteToNobodyStep
  <2>8. CASE EndCall(c)
    BY <2>0, <2>8, EndCallStep
  <2>9. CASE StackOverrun(c)
    BY <2>9, StackOverrunStep
  <2> QED
    BY <1>4, <2>1, <2>2, <2>3, <2>4, <2>5, <2>6, <2>7, <2>8, <2>9 DEF Work
<1> QED
  BY <1>1, <1>2, <1>3, <1>4 DEF Next

\* What a worker writes for a call is longer than ServerStack only when the
\* call asks for that.
LEMMA LongWrite ==
  ASSUME EventInv, NEW c \in Clients, call[c] \in Calls, c \in DOMAIN reply,
         reply'[c] # Store!Lost,
         ems_create(c) \/ ems_reserve(c) \/ ems_show(c) \/ Store!List(c),
         NEW k \in 1 .. Len(Writes(reply'[c])),
         Len(Writes(reply'[c])[k]) > ServerStack
  PROVE  AsksTooMuch(c)
<1>0. ServerStack \in Nat /\ ServerStack >= 2
  BY ClientServerAssumption
<1>1. PICK r : Served(c, r)
  BY Creates, Reserves, Shows, Lists, Zenon
<1>2. Fits(r, call[c].op, events) /\ reply'[c] = r
  BY <1>1 DEF Served
<1>3. k \in 1 .. Len(Writes(r)) /\ Len(Writes(r)[k]) > ServerStack
  BY <1>2
<1>4. \A x : Writes(r) # << <<x>> >>
  <2>1. SUFFICES ASSUME NEW x, Writes(r) = << <<x>> >> PROVE FALSE
    OBVIOUS
  <2>2. Len(<< <<x>> >>) = 1 /\ << <<x>> >>[1] = <<x>> /\ Len(<<x>>) = 1
    OBVIOUS
  <2>3. Len(Writes(r)[k]) = 1
    BY <1>3, <2>1, <2>2
  <2> QED
    BY <1>0, <1>3, <2>3
<1>5. CASE \E rows, cols, n \in Nat : \E seats \in [0 .. n - 1 -> Nat] :
             call[c].op = "show" /\ Shown(r, rows, cols, n, seats)
  <2>1. PICK rows, cols, n \in Nat : \E seats \in [0 .. n - 1 -> Nat] :
          call[c].op = "show" /\ Shown(r, rows, cols, n, seats)
    BY <1>5
  <2>2. PICK seats \in [0 .. n - 1 -> Nat] :
          call[c].op = "show" /\ Shown(r, rows, cols, n, seats)
    BY <2>1
  <2> DEFINE w == [i \in 1 .. n |-> seats[i - 1]]
  <2>3. /\ n = rows * cols /\ r.rows = rows /\ r.cols = cols /\ "seats" \in DOMAIN r
        /\ Writes(r) = << <<0>>, <<rows, 0>>, <<cols, 0>>, w >>
    BY <2>2 DEF Shown
  <2>4. Len(w) = n
    <3>1. w \in [1 .. n -> Nat]
      OBVIOUS
    <3> HIDE DEF w
    <3> QED
      BY <3>1, FunSeq
  <2> HIDE DEF w
  <2>5. n > ServerStack
    <3>1. /\ Len(<<0>>) = 1 /\ Len(<<rows, 0>>) = 2 /\ Len(<<cols, 0>>) = 2
          /\ Len(<< <<0>>, <<rows, 0>>, <<cols, 0>>, w >>) = 4
      OBVIOUS
    <3>2. k \in 1 .. 4
      BY <1>3, <2>3, <3>1
    <3>3. Writes(r)[k] \in {<<0>>, <<rows, 0>>, <<cols, 0>>, w}
      BY <2>3, <3>2
    <3>4. ASSUME Writes(r)[k] # w PROVE FALSE
      <4>1. Len(Writes(r)[k]) \in {1, 2}
        BY <3>1, <3>3, <3>4
      <4>2. \A m \in {1, 2} : ~ (m > ServerStack)
        BY <1>0
      <4> QED
        BY <1>3, <4>1, <4>2, Zenon
    <3> QED
      BY <1>3, <2>4, <3>4, Zenon
  <2>6. PICK p \in DOMAIN events :
          /\ events[p].id = call[c].id
          /\ Store!Answer(c, [err |-> "ok", rows |-> events[p].rows,
                              cols |-> events[p].cols, seats |-> events[p].data])
    <3>1. ems_show(c)
      BY <2>2 DEF ems_create, ems_reserve, Store!List, Store!Pending
    <3>2. ~ Store!Answer(c, Store!Failure) /\ ~ Store!Answer(c, Store!Lost)
      <4>1. "seats" \notin DOMAIN Store!Failure
        BY DEF Store!Failure
      <4> QED
        BY <1>2, <2>3, <4>1 DEF Store!Answer
    <3> QED
      BY <3>1, <3>2, Zenon DEF ems_show, Store!Show
  <2>7. rows = events[p].rows /\ cols = events[p].cols
    BY <1>2, <2>3, <2>6 DEF Store!Answer
  <2>8. events[p].rows * events[p].cols > ServerStack
    BY <2>3, <2>5, <2>7
  <2> QED
    BY <2>2, <2>6, <2>8, Zenon DEF AsksTooMuch
<1>6. CASE \E n \in 1 .. Len(events) : \E ids \in [1 .. n -> Nat] :
             call[c].op = "list" /\ Listed(r, n, ids)
  <2>1. PICK n \in 1 .. Len(events) : \E ids \in [1 .. n -> Nat] :
          call[c].op = "list" /\ Listed(r, n, ids)
    BY <1>6
  <2>2. PICK ids \in [1 .. n -> Nat] : call[c].op = "list" /\ Listed(r, n, ids)
    BY <2>1
  <2>3. Writes(r) = << <<0>>, <<n, 0>>, ids >> /\ Len(ids) = n
    BY <2>2, FunSeq DEF Listed
  <2>4. n > ServerStack
    <3>1. /\ Len(<<0>>) = 1 /\ Len(<<n, 0>>) = 2 /\ Len(<< <<0>>, <<n, 0>>, ids >>) = 3
      OBVIOUS
    <3>2. k \in 1 .. 3
      BY <1>3, <2>3, <3>1
    <3>3. Writes(r)[k] \in {<<0>>, <<n, 0>>, ids}
      BY <2>3, <3>2
    <3>4. ASSUME Writes(r)[k] # ids PROVE FALSE
      <4>1. Len(Writes(r)[k]) \in {1, 2}
        BY <3>1, <3>3, <3>4
      <4>2. \A m \in {1, 2} : ~ (m > ServerStack)
        BY <1>0
      <4> QED
        BY <1>3, <4>1, <4>2, Zenon
    <3> QED
      BY <1>3, <2>3, <3>4, Zenon
  <2>5. Len(events) > ServerStack
    <3>1. Len(events) \in Nat
      BY EventFields
    <3> QED
      BY <1>0, <2>4, <3>1
  <2> QED
    BY <2>2, <2>5, Zenon DEF AsksTooMuch
<1> QED
  BY <1>2, <1>4, <1>5, <1>6, Shapes4

\* What a write leaves is no longer than what there was.
LEMMA ShorterWrites ==
  ASSUME NEW ws \in Seq(Seq(Nat)), ws # <<>>,
         NEW left \in Seq(Nat), Len(left) <= ServerStack,
         NEW rest, rest = Tail(ws) \/ rest = [ws EXCEPT ![1] = left],
         NEW j \in 1 .. Len(rest), Len(rest[j]) > ServerStack
  PROVE  \E i \in 1 .. Len(ws) : Len(ws[i]) > ServerStack
<1>0. Len(ws) \in Nat /\ 1 \in 1 .. Len(ws) /\ ServerStack \in Nat /\ Len(left) \in Nat
  BY ClientServerAssumption
<1>1. CASE rest = Tail(ws)
  <2>1. Len(Tail(ws)) = Len(ws) - 1 /\ \A i \in 1 .. Len(ws) - 1 : Tail(ws)[i] = ws[i + 1]
    OBVIOUS
  <2>2. j \in 1 .. Len(ws) - 1
    BY <1>1, <2>1, Zenon
  <2>3. \A m \in Nat : \A i \in 1 .. m - 1 : i + 1 \in 1 .. m
    OBVIOUS
  <2>4. j + 1 \in 1 .. Len(ws) /\ rest[j] = ws[j + 1]
    BY <1>0, <1>1, <2>1, <2>2, <2>3, Zenon
  <2> QED
    BY <2>4, Zenon
<1>2. CASE rest = [ws EXCEPT ![1] = left]
  <2> DEFINE S == Seq(Nat)
  <2>1. ws \in Seq(S) /\ left \in S
    OBVIOUS
  <2> HIDE DEF S
  <2>2. /\ Len(rest) = Len(ws)
        /\ \A i \in 1 .. Len(ws) : rest[i] = IF i = 1 THEN left ELSE ws[i]
    <3>1. /\ Len([ws EXCEPT ![1] = left]) = Len(ws)
          /\ \A i \in 1 .. Len(ws) :
               [ws EXCEPT ![1] = left][i] = IF i = 1 THEN left ELSE ws[i]
      BY <1>0, <2>1, ExceptSeq
    <3> QED
      BY <1>2, <3>1, Zenon
  <2>3. j # 1
    <3>1. SUFFICES ASSUME j = 1 PROVE FALSE
      OBVIOUS
    <3>2. Len(left) > ServerStack
      BY <1>0, <2>2, <3>1
    <3> QED
      BY <1>0, <3>2
  <2>4. j \in 1 .. Len(ws) /\ rest[j] = ws[j]
    BY <2>2, <2>3
  <2> QED
    BY <2>4
<1> QED
  BY <1>1, <1>2

\* Nothing comes to be written that was not asked for.
LEMMA StackStill ==
  ASSUME EventInv, StackInv, Grows(events, events'), NEW c \in Clients,
         \A d \in Clients \ {c} : call'[d] = call[d] /\ writes'[d] = writes[d],
         \A k \in 1 .. Len(writes'[c]) : Len(writes'[c][k]) > ServerStack => AsksTooMuch(c)'
  PROVE  StackInv'
<1>1. ASSUME NEW d \in Clients, d # c, NEW k \in 1 .. Len(writes'[d]),
             Len(writes'[d][k]) > ServerStack
      PROVE  AsksTooMuch(d)'
  <2>1. call'[d] = call[d] /\ writes'[d] = writes[d]
    BY <1>1
  <2>2. AsksTooMuch(d)
    BY <1>1, <2>1, Zenon DEF StackInv
  <2> QED
    BY <2>1, <2>2, TooMuchStill
<1> QED
  BY <1>1, Zenon DEF StackInv

LEMMA NextStack ==
  ASSUME Inv, StackInv, [Next]_vars
  PROVE  StackInv'
<1>0. EventInv /\ DataInv
  BY DEF Inv
<1>1. CASE events' = events /\ call' = call /\ writes' = writes
  BY <1>1, Zenon DEF StackInv, AsksTooMuch
<1>2. ASSUME NEW c \in Clients, ReadField(c)
      PROVE  StackInv'
  <2>1. /\ worker[c] = "read" /\ events' = events /\ writes' = writes
        /\ call' = call \/ \E x : call' = [call EXCEPT ![c] = x]
    BY <1>2, Zenon DEF ReadField
  <2>2. writes'[c] = <<>>
    BY <2>1, Here DEF SessionInv
  <2>3. Grows(events, events')
    BY <1>0, <2>1, Unchanged
  <2>4. \A d \in Clients \ {c} : call'[d] = call[d] /\ writes'[d] = writes[d]
    BY <1>0, <2>1 DEF DataInv
  <2>5. 1 .. Len(<<>>) = {}
    OBVIOUS
  <2> QED
    BY <1>0, <2>2, <2>3, <2>4, <2>5, StackStill, Zenon
<1>3. ASSUME NEW c \in Clients, EndCall(c)
      PROVE  StackInv'
  <2>1. /\ events' = events /\ writes' = writes /\ writes[c] = <<>>
        /\ call' = [call EXCEPT ![c] = NoCall]
    BY <1>3 DEF EndCall, Store!Return, NoCall
  <2>2. Grows(events, events')
    BY <1>0, <2>1, Unchanged
  <2>3. \A d \in Clients \ {c} : call'[d] = call[d] /\ writes'[d] = writes[d]
    BY <1>0, <2>1 DEF DataInv
  <2>4. writes'[c] = <<>> /\ 1 .. Len(<<>>) = {}
    BY <2>1
  <2> QED
    BY <1>0, <2>2, <2>3, <2>4, StackStill, Zenon
<1>4. ASSUME NEW c \in Clients, Execute(c)
      PROVE  StackInv'
  <2>1. /\ worker[c] \in {"call", "mutex"} /\ reply'[c] # Store!Lost
        /\ ems_create(c) \/ ems_reserve(c) \/ ems_show(c) \/ Store!List(c)
        /\ writes' = [writes EXCEPT ![c] = Writes(reply'[c])]
    BY <1>4, Zenon DEF Execute
  <2>2. c \in DOMAIN reply /\ call[c] \in Calls
    <3>1. SessionInv(c) /\ call[c] \in Calls \cup {NoCall}
      BY <1>0, Here, TypesAt
    <3> QED
      BY <1>0, <2>1, <3>1 DEF SessionInv, DataInv
  <2>3. PICK r : Served(c, r)
    BY <1>0, <2>1, <2>2, Creates, Reserves, Shows, Lists, Zenon
  <2>4. call' = call /\ Grows(events, events')
    BY <2>3 DEF Served
  <2>5. /\ writes'[c] = Writes(reply'[c])
        /\ \A d \in Clients \ {c} : call'[d] = call[d] /\ writes'[d] = writes[d]
    BY <1>0, <2>1, <2>4 DEF DataInv
  <2>6. ASSUME NEW k \in 1 .. Len(writes'[c]), Len(writes'[c][k]) > ServerStack
        PROVE  AsksTooMuch(c)'
    <3>1. k \in 1 .. Len(Writes(reply'[c])) /\ Len(Writes(reply'[c])[k]) > ServerStack
      BY <2>5, <2>6
    <3>2. AsksTooMuch(c)
      BY <1>0, <2>1, <2>2, <3>1, LongWrite
    <3> QED
      BY <1>0, <2>4, <3>2, TooMuchStill
  <2> QED
    BY <1>0, <2>4, <2>5, <2>6, StackStill, Zenon
<1>5. ASSUME NEW c \in Clients, Write(c)
      PROVE  StackInv'
  <2> DEFINE ws == writes[c]
             words == Head(ws)
             room == Capacity - Len(response[c])
  <2>1. /\ ws # <<>> /\ ~ (Len(words) > ServerStack) /\ events' = events /\ call' = call
    BY <1>5 DEF Write, TooLarge, store
  <2>2. ws \in Seq(Seq(Nat)) /\ response[c] \in Seq(Nat) /\ Len(response[c]) <= Capacity
    BY <1>0, Here, TypesAt DEF SessionInv
  <2>3. PICK k : /\ k = IF Len(words) <= Atomic THEN Len(words) ELSE Min({room, Len(words)})
                 /\ writes' = [writes EXCEPT ![c] =
                      IF k = Len(words) THEN Tail(ws)
                      ELSE [ws EXCEPT ![1] = SubSeq(words, k + 1, Len(words))]]
    BY <1>5, Zenon DEF Write
  <2> DEFINE rest == IF k = Len(words) THEN Tail(ws)
                     ELSE [ws EXCEPT ![1] = SubSeq(words, k + 1, Len(words))]
  <2> HIDE DEF ws
  <2>4. words \in Seq(Nat) /\ Len(words) \in Nat /\ Len(words) <= ServerStack
    <3>1. words \in Seq(Nat) /\ ServerStack \in Nat
      BY <2>1, <2>2, ClientServerAssumption
    <3> HIDE DEF words
    <3> QED
      BY <2>1, <3>1
  <2>5. k \in Nat /\ k <= Len(words)
    <3>1. room \in Nat
      BY <2>2, ClientServerAssumption
    <3> HIDE DEF room, words
    <3> QED
      BY <2>3, <2>4, <3>1, WriteSize
  <2>6. writes' = [writes EXCEPT ![c] = rest]
    BY <2>3
  <2> HIDE DEF rest
  <2>7. /\ writes'[c] = rest
        /\ \A d \in Clients \ {c} : call'[d] = call[d] /\ writes'[d] = writes[d]
    BY <1>0, <2>1, <2>6 DEF DataInv
  <2>8. Grows(events, events')
    BY <1>0, <2>1, Unchanged
  <2>9. ASSUME NEW j \in 1 .. Len(rest), Len(rest[j]) > ServerStack
        PROVE  AsksTooMuch(c)'
    <3>1. PICK i \in 1 .. Len(ws) : Len(ws[i]) > ServerStack
      <4> DEFINE left == SubSeq(words, k + 1, Len(words))
      <4> HIDE DEF words
      <4>1. left \in Seq(Nat) /\ Len(left) = Len(words) - k
        BY <2>4, <2>5, Split
      <4>2. rest = Tail(ws) \/ rest = [ws EXCEPT ![1] = left]
        BY Zenon DEF rest
      <4> HIDE DEF left
      <4>3. Len(left) <= ServerStack
        BY <2>4, <2>5, <4>1, ClientServerAssumption
      <4>4. ws \in Seq(Seq(Nat)) /\ ws # <<>>
        BY <2>1, <2>2
      <4> QED
        BY <2>9, <4>1, <4>2, <4>3, <4>4, ShorterWrites
    <3>2. AsksTooMuch(c)
      BY <3>1, Zenon DEF StackInv, ws
    <3> QED
      BY <1>0, <2>1, <2>8, <3>2, TooMuchStill
  <2> QED
    BY <1>0, <2>7, <2>8, <2>9, StackStill, Zenon
<1>6. ASSUME NEW c \in Clients, ClientStep(c) \/ Die(c)
      PROVE  events' = events /\ call' = call /\ writes' = writes
  BY <1>6, Zenon DEF ClientStep, Ask, Send, Read, ReadEnd, Crash, Return, Quit, Die, store, thread
<1>7. ASSUME NEW c \in Clients,
             \/ ReadQuit(c) \/ ReadEof(c) \/ ShowLookup(c) \/ StackOverrun(c)
             \/ WriteToNobody(c)
      PROVE  events' = events /\ call' = call /\ writes' = writes
  BY <1>7, Zenon DEF ReadQuit, ReadEof, ShowLookup, StackOverrun, WriteToNobody, store, thread
<1>8. CASE UNCHANGED vars
  BY <1>1, <1>8 DEF vars, store, thread
<1> QED
  BY <1>1, <1>2, <1>3, <1>4, <1>5, <1>6, <1>7, <1>8, Zenon DEF Next, Work

LEMMA Invariance == Spec => [](Inv /\ StackInv)
<1>1. Init => Inv /\ StackInv
  <2>1. ASSUME Init PROVE StackInv
    <3>1. \A c \in Clients : writes[c] = <<>>
      BY <2>1 DEF Init
    <3>2. 1 .. Len(<<>>) = {}
      OBVIOUS
    <3> QED
      BY <3>1, <3>2, Zenon DEF StackInv
  <2> QED
    BY <2>1, InitInv
<1>2. Inv /\ StackInv /\ [Next]_vars => (Inv /\ StackInv)'
  BY NextInv, NextStack
<1> QED
  BY <1>1, <1>2, PTL DEF Spec

-----------------------------------------------------------------------------
(* Theorems.                                                               *)

\* The variables of both ends have their types; as long as its answers were
\* whole, no call of the API (client/api.c) returns before its worker executed
\* it.
THEOREM TypesHold == Spec => []TypeOK
<1>1. Inv => TypeOK
  <2> SUFFICES ASSUME Inv PROVE TypeOK
    OBVIOUS
  <2>1. server \in {"up", "down"}
    BY Zenon DEF Inv, DataInv
  <2>2. ASSUME NEW c \in Clients
        PROVE  /\ call[c] \in Store!Calls \cup {Store!NoCall}
               /\ Len(response[c]) <= Capacity
               /\ worker[c] \in {"read", "call", "mutex", "answer", "closed"}
               /\ (call[c] = Store!NoCall) = (worker[c] \in {"read", "closed"})
               /\ status[c] \in {"open", "failed", "quit", "dead"}
               /\ calling[c] = Store!NoCall => sending[c] = <<>> /\ taken[c] = <<>>
               /\ server = "up" /\ ~ cut[c] /\ ~ Busy(c) => unserved[c] = <<>>
    <3>1. DataInv /\ SessionInv(c) /\ (~ cut[c] => AnswerInv(c))
      BY Here
    <3>2. /\ call[c] \in Store!Calls \cup {Store!NoCall}
          /\ worker[c] \in {"read", "call", "mutex", "answer", "closed"}
          /\ status[c] \in {"open", "failed", "quit", "dead"}
      BY <3>1, TypesAt, Zenon DEF Calls, NoCall
    <3>3. /\ (call[c] = Store!NoCall) <=> (worker[c] \in {"read", "closed"})
          /\ Len(response[c]) <= Capacity
          /\ calling[c] = Store!NoCall => sending[c] = <<>> /\ taken[c] = <<>>
      BY <3>1, Zenon DEF SessionInv, Busy, NoCall
    <3>4. ASSUME server = "up", ~ cut[c], ~ Busy(c) PROVE unserved[c] = <<>>
      BY <3>1, <3>4, Zenon DEF AnswerInv, After, Before, Busy, NoCall
    <3>5. (call[c] = Store!NoCall) = (worker[c] \in {"read", "closed"})
      BY <3>3
    <3> QED
      BY <3>2, <3>3, <3>4, <3>5, Zenon
  <2> QED
    BY <2>1, <2>2, Zenon DEF TypeOK
<1> QED
  BY <1>1, Invariance, PTL

\* The call a worker executes (the switch of server/main.c) is the first its
\* client made that is not executed yet, with the arguments it was made with.
THEOREM RequestsAreRight == Spec => []RequestsArriveWhole
<1>1. Inv => RequestsArriveWhole
  <2> SUFFICES ASSUME Inv, NEW c \in Clients, worker[c] \in {"call", "mutex"}
               PROVE  call[c] = Head(unserved[c])
    BY DEF RequestsArriveWhole
  <2>1. RequestInv(c)
    BY Here
  <2> QED
    BY <2>1, Zenon DEF RequestInv, Requests
<1> QED
  BY <1>1, Invariance, PTL

\* The server ends (exit in the threads of server/main.c, SIGPIPE, or an array
\* of server/operations.c that overruns the stack) only if a client died, read a
\* part of an answer or asked for more seats or events than the stack of a
\* worker has room for, and a part is read only of an answer longer than
\* PIPE_BUF and than the room in the pipe.
THEOREM OnlyLongAnswersHarm == Spec => []ServerSurvives
<1>1. Inv => ServerSurvives
  BY Zenon DEF Inv, CutInv, DownInv, ManyWords, ServerSurvives
<1> QED
  BY <1>1, Invariance, PTL

-----------------------------------------------------------------------------
(* The refinement of EventStoreAbs.                                        *)

InStep == server = "up" /\ \A c \in Clients : ~ cut[c]

\* What a client will be told is what its worker was answered.
AnsweredIsGiven == InStep => answered = given

LEMMA ToldWhatWasGiven ==
  ASSUME Inv, InStep
  PROVE  answered = given
<1>1. ASSUME NEW c \in Clients, Busy(c), Decided(c) PROVE Result(c) = given[c]
  <2>0. /\ EventInv /\ DataInv /\ AnswerInv(c) /\ ~ cut[c]
    BY Here, Zenon DEF InStep
  <2>1. status[c] # "failed"
    BY <2>0 DEF AnswerInv, InStep
  <2>2. /\ given[c] # NoReply /\ calling[c] \in Calls
        /\ After(given[c], events, calling[c], sending[c], unserved[c], worker[c],
                 taken[c], response[c], writes[c])
        /\ Len(taken[c]) = Len(Answer(given[c]))
    BY <1>1, <2>0, <2>1, NothingLeft, Zenon
  <2>3. Fits(given[c], Op(c), events) /\ Follows(given[c], taken[c], response[c])
    BY <2>2, Zenon DEF After, Op
  <2>4. \A k \in 1 .. Len(taken[c]) : taken[c][k] = Answer(given[c])[k]
    BY <2>3, Zenon DEF Follows
  <2>5. taken[c] \in Seq(Nat)
    BY <2>0, TypesAt
  <2> QED
    BY <2>0, <2>1, <2>2, <2>3, <2>4, <2>5, ResultIs
<1>2. given = [c \in Clients |-> given[c]]
  BY Zenon DEF Inv, DataInv
<1>3. \A c \in Clients : (IF Busy(c) /\ Decided(c) THEN Result(c) ELSE given[c]) = given[c]
  BY <1>1, Zenon
<1>4. answered = [c \in Clients |-> given[c]]
  BY <1>3, Zenon DEF answered
<1> QED
  BY <1>2, <1>4

LEMMA Mapped == Spec => []AnsweredIsGiven
<1>1. Inv => AnsweredIsGiven
  BY ToldWhatWasGiven DEF AnsweredIsGiven
<1> QED
  BY <1>1, Invariance, PTL

\* Nothing repairs a session that is out of step, or a server that ended.
LEMMA StillInStep ==
  ASSUME Inv, [Next]_vars, InStep'
  PROVE  InStep
<1>1. server' = server \/ server' = "down"
  BY ZenonT(60) DEF Next, ClientStep, Ask, Send, Read, ReadEnd, Crash, Return, Quit, Die, Work,
     ReadField, ReadQuit, ReadEof, ShowLookup, Execute, StackOverrun, Write, WriteToNobody,
     EndCall, vars
<1>2. cut' = cut \/ \E c \in Clients : cut' = [cut EXCEPT ![c] = TRUE]
  BY ZenonT(60) DEF Next, ClientStep, Ask, Send, Read, ReadEnd, Crash, Return, Quit, Die, Work,
     ReadField, ReadQuit, ReadEof, ShowLookup, Execute, StackOverrun, Write, WriteToNobody,
     EndCall, vars,
     client
<1>3. server = "up"
  BY <1>1 DEF InStep
<1>4. cut \in [Clients -> BOOLEAN]
  BY Zenon DEF Inv, DataInv
<1>5. ASSUME NEW d \in Clients, cut[d] PROVE cut'[d]
  BY <1>2, <1>4, <1>5
<1> QED
  BY <1>3, <1>5, Zenon DEF InStep

\* A worker that is about to execute a call has that of its client.
LEMMA SameCall ==
  ASSUME Inv, InStep, NEW c \in Clients, worker[c] \in {"call", "mutex"}
  PROVE  given[c] = NoReply /\ call[c] = calling[c]
<1>1. /\ DataInv /\ RequestInv(c) /\ AnswerInv(c)
  BY Here, Zenon DEF InStep
<1>2. given[c] = NoReply
  BY <1>1 DEF AnswerInv, After
<1>3. Before(calling[c], unserved[c], worker[c], taken[c], response[c], writes[c], server)
  BY <1>1, <1>2, Zenon DEF AnswerInv
<1>4. unserved[c] # <<>> /\ call[c] = Head(unserved[c])
  BY <1>1, Zenon DEF RequestInv, Requests
<1>5. unserved[c] = <<calling[c]>>
  BY <1>3, <1>4, Zenon DEF Before, InStep
<1>6. Head(<<calling[c]>>) = calling[c]
  OBVIOUS
<1> QED
  BY <1>2, <1>4, <1>5, <1>6, Zenon

\* The step in which a worker executes a call is the one in which the call of
\* its client takes effect.
LEMMA ExecuteMaps ==
  ASSUME Inv, InStep, answered = given, answered' = given', NEW c \in Clients, Execute(c)
  PROVE  Seen!Create(c) \/ Seen!Reserve(c) \/ Seen!Show(c) \/ Seen!List(c)
<1>1. /\ worker[c] \in {"call", "mutex"} /\ given' = [given EXCEPT ![c] = reply'[c]]
      /\ calling' = calling /\ reply'[c] # Store!Lost
      /\ ems_create(c) \/ ems_reserve(c) \/ ems_show(c) \/ Store!List(c)
  BY Zenon DEF Execute, client
<1>2. given[c] = NoReply /\ call[c] = calling[c]
  BY <1>1, SameCall
<1>3. answered[c] = Seen!NoReply
  BY <1>2 DEF NoReply, Store!NoReply, Seen!NoReply
<1>4. c \in DOMAIN reply
  BY DEF Inv, DataInv
<1>5. ASSUME NEW r, Store!Answer(c, r) PROVE Seen!Answer(c, r)
  <2>1. reply' = [reply EXCEPT ![c] = r]
    BY <1>5 DEF Store!Answer
  <2>2. reply'[c] = r
    BY <1>4, <2>1
  <2> QED
    BY <1>1, <2>2, Zenon DEF Seen!Answer
<1>6. ~ Store!Answer(c, Store!Lost)
  BY <1>1, <1>4 DEF Store!Answer
<1>7. Seen!Success = Store!Success /\ Seen!Failure = Store!Failure
  BY DEF Store!Success, Seen!Success, Store!Failure, Seen!Failure
<1>8. CASE ems_create(c)
  <2>1. Store!Create(c)
    BY <1>8 DEF ems_create
  <2>2. Store!Answer(c, Store!Success) => Seen!Answer(c, Seen!Success)
    BY <1>5, <1>7, Zenon
  <2>3. Store!Answer(c, Store!Failure) => Seen!Answer(c, Seen!Failure)
    BY <1>5, <1>7, Zenon
  <2> QED
    BY <1>2, <1>3, <2>1, <2>2, <2>3, Zenon
    DEF Store!Create, Seen!Create, Store!Pending, Seen!Pending, Store!Exists, Seen!Exists,
        Store!Cells, Seen!Cells
<1>9. CASE ems_reserve(c)
  <2>1. /\ Store!Pending(c, "reserve")
        /\ Store!Refuse(c) \/ \E p \in DOMAIN events : Store!Grant(c, p)
    BY <1>9, Zenon DEF ems_reserve, Store!Reserve
  <2>2. Seen!Pending(c, "reserve")
    BY <1>2, <1>3, <2>1, Zenon DEF Store!Pending, Seen!Pending
  <2>3. Store!Answer(c, Store!Success) => Seen!Answer(c, Seen!Success)
    BY <1>5, <1>7, Zenon
  <2>4. Store!Answer(c, Store!Failure) => Seen!Answer(c, Seen!Failure)
    BY <1>5, <1>7, Zenon
  <2>5. Store!Refuse(c) => Seen!Refuse(c)
    BY <1>2, <2>4, Zenon
    DEF Store!Refuse, Seen!Refuse, Store!InBounds, Seen!InBounds, Store!Index, Seen!Index
  <2>6. ASSUME NEW p \in DOMAIN events, Store!Grant(c, p) PROVE Seen!Grant(c, p)
    <3>1. \A e, s : Store!Asked(e, s) = Seen!Asked(e, s)
      BY DEF Store!Asked, Seen!Asked, Store!Index, Seen!Index
    <3>2. \A e, s : Store!InBounds(e, s) <=> Seen!InBounds(e, s)
      BY DEF Store!InBounds, Seen!InBounds
    <3> DEFINE e == events[p]
               A == Seen!Asked(e, calling[c].seats)
    <3>3. A = Store!Asked(e, call[c].seats)
      BY <1>2, <3>1, Zenon
    <3>4. /\ e.id = calling[c].id
          /\ \A k \in DOMAIN calling[c].seats : Seen!InBounds(e, calling[c].seats[k])
          /\ \A i \in A : e.data[i] = 0
          /\ Seen!Answer(c, Seen!Success)
      BY <1>2, <2>3, <2>6, <3>2, <3>3, Zenon DEF Store!Grant
    <3>5. events' = [events EXCEPT
             ![p].reservations = @ + 1,
             ![p].data = [i \in DOMAIN @ |-> IF i \in A THEN e.reservations + 1 ELSE @[i]]]
      BY <2>6, <3>3 DEF Store!Grant
    <3> QED
      BY <3>4, <3>5 DEF Seen!Grant
  <2> QED
    BY <2>1, <2>2, <2>5, <2>6, Zenon DEF Seen!Reserve
<1>10. CASE ems_show(c)
  <2>1. Store!Show(c)
    BY <1>10 DEF ems_show
  <2>2. Store!Answer(c, Store!Failure) => Seen!Answer(c, Seen!Failure)
    BY <1>5, <1>7, Zenon
  <2> QED
    BY <1>2, <1>3, <1>5, <1>6, <2>1, <2>2, Zenon
    DEF Store!Show, Seen!Show, Store!Pending, Seen!Pending, Store!Exists, Seen!Exists
<1>11. CASE Store!List(c)
  <2>1. Store!Answer(c, Store!Failure) => Seen!Answer(c, Seen!Failure)
    BY <1>5, <1>7, Zenon
  <2> QED
    BY <1>2, <1>3, <1>5, <1>6, <1>11, <2>1, Zenon
    DEF Store!List, Seen!List, Store!Pending, Seen!Pending
<1> QED
  BY <1>1, <1>8, <1>9, <1>10, <1>11, Zenon

LEMMA StepMaps ==
  ASSUME Inv, InStep, answered = given, answered' = given', Next
  PROVE  Seen!Next \/ UNCHANGED <<events, calling, answered>>
<1>1. PICK c \in Clients : ClientStep(c) \/ Die(c) \/ Work(c)
  BY DEF Next
<1>2. ASSUME events' = events, calling' = calling, given' = given
      PROVE  UNCHANGED <<events, calling, answered>>
  BY <1>2
<1>3. CASE Ask(c)
  <2>1. PICK x \in Store!Calls : calling' = [calling EXCEPT ![c] = x]
    BY <1>3 DEF Ask
  <2>2. /\ calling[c] = Seen!NoCall /\ events' = events /\ answered' = answered
    BY <1>3 DEF Ask, Busy, store, Store!NoCall, Seen!NoCall
  <2>3. x \in Seen!Calls
    BY DEF Store!Calls, Seen!Calls
  <2>4. Seen!Invoke(c)
    BY <2>1, <2>2, <2>3 DEF Seen!Invoke
  <2> QED
    BY <2>4 DEF Seen!Next
<1>4. CASE Return(c)
  <2>1. AnswerInv(c) /\ ~ cut[c] /\ server = "up"
    BY Here, Zenon DEF InStep
  <2>2. status[c] # "failed"
    BY <2>1 DEF AnswerInv
  <2>3. given[c] # NoReply
    BY <1>4, <2>1, <2>2, NothingLeft, Zenon DEF Return
  <2>4. /\ calling' = [calling EXCEPT ![c] = Seen!NoCall] /\ events' = events
        /\ given' = [given EXCEPT ![c] = Seen!NoReply] /\ NoReply = Seen!NoReply
    BY <1>4 DEF Return, store, Store!NoCall, Seen!NoCall, NoReply, Store!NoReply, Seen!NoReply
  <2>5. Seen!Return(c)
    BY <2>3, <2>4, Zenon DEF Seen!Return
  <2> QED
    BY <2>5 DEF Seen!Next
<1>5. CASE Execute(c)
  BY <1>5, ExecuteMaps, Zenon DEF Seen!Next
<1>6. CASE Send(c) \/ Read(c) \/ ReadEnd(c) \/ Crash(c) \/ Quit(c) \/ Die(c)
  <2>1. events' = events /\ calling' = calling /\ given' = given
    BY <1>6, Zenon DEF Send, Read, ReadEnd, Crash, Quit, Die, store, history
  <2> QED
    BY <1>2, <2>1
<1>7. CASE \/ ReadField(c) \/ ReadQuit(c) \/ ReadEof(c) \/ ShowLookup(c)
           \/ StackOverrun(c) \/ Write(c) \/ WriteToNobody(c) \/ EndCall(c)
  <2>1. events' = events /\ calling' = calling /\ given' = given
    BY <1>7, Zenon DEF ReadField, ReadQuit, ReadEof, ShowLookup, StackOverrun, Write,
       WriteToNobody, EndCall, Store!Return, store, client, history
  <2> QED
    BY <1>2, <2>1
<1> QED
  BY <1>1, <1>3, <1>4, <1>5, <1>6, <1>7, Zenon DEF ClientStep, Work

\* The calls of client/api.c, pipes and workers included, are those of the
\* abstract store: each takes effect in one step between its invocation and
\* its return, with the answer the client gets, until an answer is cut or the
\* server ends.
THEOREM ClientsSeeOneStore == Spec => ClientsSeeTheStore
<1> DEFINE Out == server' = "down" \/ \E c \in Clients : cut'[c]
<1>1. Init => Seen!Init
  <2> SUFFICES ASSUME Init PROVE Seen!Init
    OBVIOUS
  <2>1. /\ events = <<>> /\ calling = [c \in Clients |-> Seen!NoCall]
        /\ given = [c \in Clients |-> Seen!NoReply] /\ InStep
    BY DEF Init, Store!Init, InStep, Store!NoCall, Seen!NoCall, Store!NoReply, Seen!NoReply
  <2>2. answered = given
    BY <2>1, InitInv, ToldWhatWasGiven
  <2> QED
    BY <2>1, <2>2, Zenon DEF Seen!Init
<1>2. Inv /\ Inv' /\ AnsweredIsGiven /\ AnsweredIsGiven' /\ [Next]_vars
        => [Seen!Next \/ Out]_<<events, calling, answered>>
  <2> SUFFICES ASSUME Inv, Inv', AnsweredIsGiven, AnsweredIsGiven', [Next]_vars, ~ Out
               PROVE  Seen!Next \/ UNCHANGED <<events, calling, answered>>
    OBVIOUS
  <2>1. InStep'
    <3>1. server' \in {"up", "down"}
      BY Zenon DEF Inv, DataInv
    <3> QED
      BY <3>1, Zenon DEF InStep
  <2>2. InStep
    BY <2>1, StillInStep
  <2>3. answered = given /\ answered' = given'
    BY <2>1, <2>2, Zenon DEF AnsweredIsGiven
  <2>4. CASE Next
    BY <2>2, <2>3, <2>4, StepMaps
  <2>5. CASE UNCHANGED vars
    <3>1. events' = events /\ calling' = calling /\ given' = given
      BY <2>5 DEF vars, store, client, history
    <3> QED
      BY <2>3, <3>1
  <2> QED
    BY <2>4, <2>5
<1> QED
  BY <1>1, <1>2, Invariance, Mapped, PTL DEF Spec, ClientsSeeTheStore
=============================================================================
