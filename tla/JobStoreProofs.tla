--------------------------- MODULE JobStoreProofs ---------------------------
(***************************************************************************)
(* Facts about the events of Proj1 that the proofs about SeqJobs and       *)
(* JobThreads share: what get_event finds, what a change of one event      *)
(* leaves, and what the loop of ems_reserve over the seats computes.       *)
(***************************************************************************)
EXTENDS JobStore, SequenceTheorems, FiniteSetTheorems, WellFoundedInduction, TLAPS

Seats == Nat \X Nat

Data == UNION {[Cells(shape[1], shape[2]) -> Nat] : shape \in Nat \X Nat}

Events ==
  {e \in [id : Nat, rows : Nat, cols : Nat, reservations : Nat, data : Data] :
     DOMAIN e.data = Cells(e.rows, e.cols)}

-----------------------------------------------------------------------------
(* Lookup                                                                  *)

LEMMA Smallest ==
  ASSUME NEW S, S \subseteq Nat, S # {}
  PROVE  Min(S) \in S /\ \A y \in S : Min(S) <= y
<1>. DEFINE R == {ss \in Nat \X Nat : ss[1] < ss[2]}
<1>0. IsWellFoundedOn(R, Nat)
  BY NatLessThanWellFounded DEF OpToRel
<1>1. PICK x \in S : \A y \in S : ~ (<<y, x>> \in R)
  BY <1>0, WFMin
<1>2. ASSUME NEW y \in S PROVE x <= y
  <2>1. x \in Nat /\ y \in Nat
    OBVIOUS
  <2>2. y < x => <<y, x>> \in R
    BY <2>1
  <2>3. QED  BY <1>1, <2>1, <2>2
<1>3. QED
  BY <1>2 DEF Min

\* get_event returns an event with the identifier, or 0 if there is none.
LEMMA LookupEvent ==
  ASSUME NEW l \in Seq(Events), NEW i
  PROVE  \/ get_event(l, i) \in DOMAIN l /\ l[get_event(l, i)].id = i
         \/ get_event(l, i) = 0 /\ \A p \in DOMAIN l : l[p].id # i
<1>. DEFINE I == {p \in 1 .. Len(l) : l[p].id = i}
<1>1. get_event(l, i) = IF I # {} THEN Min(I) ELSE 0
  BY DEF get_event, SelectInSeq
<1>2. I \subseteq Nat /\ DOMAIN l = 1 .. Len(l)
  OBVIOUS
<1>3. CASE I # {}
  <2>1. Min(I) \in I
    BY <1>2, <1>3, Smallest
  <2>2. QED  BY <1>1, <1>2, <1>3, <2>1
<1>4. CASE I = {}
  BY <1>1, <1>2, <1>4
<1>5. QED
  BY <1>3, <1>4

-----------------------------------------------------------------------------
(* One event                                                               *)

LEMMA AllData ==
  ASSUME NEW r \in Nat, NEW c \in Nat, NEW d \in [Cells(r, c) -> Nat]
  PROVE  d \in Data
<1>1. /\ <<r, c>> \in Nat \X Nat
      /\ [Cells(<<r, c>>[1], <<r, c>>[2]) -> Nat]
           \in {[Cells(shape[1], shape[2]) -> Nat] : shape \in Nat \X Nat}
  OBVIOUS
<1>2. [Cells(r, c) -> Nat] \in {[Cells(shape[1], shape[2]) -> Nat] : shape \in Nat \X Nat}
  BY <1>1
<1>3. QED
  BY <1>2 DEF Data

LEMMA EventFields ==
  ASSUME NEW e \in Events
  PROVE  /\ e.id \in Nat /\ e.rows \in Nat /\ e.cols \in Nat /\ e.reservations \in Nat
         /\ e.data \in [Cells(e.rows, e.cols) -> Nat]
         /\ DOMAIN e = {"id", "rows", "cols", "reservations", "data"}
<1>1. /\ e.id \in Nat /\ e.rows \in Nat /\ e.cols \in Nat /\ e.reservations \in Nat
      /\ e.data \in Data /\ DOMAIN e.data = Cells(e.rows, e.cols)
      /\ DOMAIN e = {"id", "rows", "cols", "reservations", "data"}
  BY DEF Events
<1>2. PICK shape \in Nat \X Nat : e.data \in [Cells(shape[1], shape[2]) -> Nat]
  BY <1>1 DEF Data
<1>3. e.data \in [Cells(e.rows, e.cols) -> Nat]
  BY <1>1, <1>2
<1>4. QED
  BY <1>1, <1>3

\* An event with other seats and another count is an event.
LEMMA SameShape ==
  ASSUME NEW e \in Events, NEW n \in Nat, NEW data \in [DOMAIN e.data -> Nat],
         NEW x, DOMAIN x = DOMAIN e, x.id = e.id, x.rows = e.rows, x.cols = e.cols,
         x.reservations = n, x.data = data, x = [f \in DOMAIN x |-> x[f]]
  PROVE  x \in Events
<1>1. /\ e.id \in Nat /\ e.rows \in Nat /\ e.cols \in Nat
      /\ e.data \in [Cells(e.rows, e.cols) -> Nat]
      /\ DOMAIN e = {"id", "rows", "cols", "reservations", "data"}
  BY EventFields
<1>2. data \in [Cells(x.rows, x.cols) -> Nat]
  BY <1>1
<1>3. x.data \in Data
  BY <1>1, <1>2, AllData
<1>4. x \in [id : Nat, rows : Nat, cols : Nat, reservations : Nat, data : Data]
  BY <1>1, <1>3
<1>5. DOMAIN x.data = Cells(x.rows, x.cols)
  BY <1>2
<1>6. QED
  BY <1>4, <1>5 DEF Events

\* ems_create: no seat of a new event is taken.
LEMMA EmptyEvent ==
  ASSUME NEW i \in Nat, NEW r \in Nat, NEW c \in Nat
  PROVE  /\ NewEvent(i, r, c) \in Events /\ NewEvent(i, r, c).id = i
         /\ NewEvent(i, r, c).reservations = 0 /\ Numbers(NewEvent(i, r, c)) = {}
<1>. DEFINE e == NewEvent(i, r, c)
<1>1. /\ e.id = i /\ e.rows = r /\ e.cols = c /\ e.reservations = 0
      /\ e.data = [k \in Cells(r, c) |-> 0]
  BY DEF NewEvent
<1>2. e.data \in [Cells(r, c) -> Nat]
  BY <1>1
<1>3. e.data \in Data
  BY <1>2, AllData
<1>4. e \in [id : Nat, rows : Nat, cols : Nat, reservations : Nat, data : Data]
  BY <1>1, <1>3 DEF NewEvent
<1>5. e \in Events
  BY <1>1, <1>2, <1>4 DEF Events
<1>6. Numbers(e) = {}
  BY <1>1 DEF Numbers
<1>7. QED
  BY <1>1, <1>5, <1>6

\* The cell of a seat that exists.
LEMMA SeatHasACell ==
  ASSUME NEW e \in Events, NEW s \in Seats, InBounds(e, s)
  PROVE  seat_index(e, s) \in DOMAIN e.data
<1>1. /\ e.rows \in Nat /\ e.cols \in Nat /\ DOMAIN e.data = 0 .. (e.rows * e.cols - 1)
  BY EventFields DEF Cells
<1>2. s[1] \in 1 .. e.rows /\ s[2] \in 1 .. e.cols
  BY <1>1 DEF InBounds, Seats
<1>3. ASSUME NEW R \in Nat, NEW C \in Nat, NEW r \in 1 .. R, NEW c \in 1 .. C
      PROVE  (r - 1) * C + c - 1 \in 0 .. (R * C - 1)
  <2>1. (r - 1) * C >= 0 /\ (r - 1) * C <= (R - 1) * C
    BY <1>3
  <2>2. (R - 1) * C = R * C - C /\ (r - 1) * C \in Int /\ R * C \in Int
    BY <1>3
  <2>3. QED  BY <1>3, <2>1, <2>2
<1>4. QED
  BY <1>1, <1>2, <1>3 DEF seat_index

-----------------------------------------------------------------------------
(* The list                                                                *)

\* An event is replaced by one with the same identifier.
LEMMA ReplaceEvent ==
  ASSUME NEW l \in Seq(Events), NoDuplicates(l), NEW p \in DOMAIN l, NEW x \in Events,
         x.id = l[p].id, NEW r, r = [l EXCEPT ![p] = x]
  PROVE  /\ r \in Seq(Events) /\ NoDuplicates(r) /\ DOMAIN r = DOMAIN l /\ r[p] = x
         /\ \A q \in DOMAIN l \ {p} : r[q] = l[q]
<1>1. r \in Seq(Events) /\ DOMAIN r = DOMAIN l /\ r[p] = x
      /\ \A q \in DOMAIN l \ {p} : r[q] = l[q]
  OBVIOUS
<1>2. \A q \in DOMAIN l : r[q].id = l[q].id
  BY <1>1
<1>3. QED
  BY <1>1, <1>2 DEF NoDuplicates

-----------------------------------------------------------------------------
(* The loop over the seats of a reservation                                *)

\* Two events are the same when their fields are.
LEMMA SameEvent ==
  ASSUME NEW x \in Events, NEW y \in Events, x.id = y.id, x.rows = y.rows,
         x.cols = y.cols, x.reservations = y.reservations,
         \A c \in DOMAIN x.data : x.data[c] = y.data[c]
  PROVE  x = y
<1>1. DOMAIN x.data = DOMAIN y.data
  BY EventFields DEF Events
<1>2. x.data = y.data
  <2>1. x.data \in [DOMAIN x.data -> Nat] /\ y.data \in [DOMAIN x.data -> Nat]
    BY <1>1, EventFields
  <2>2. QED  BY <2>1
<1>3. QED
  BY <1>2 DEF Events

\* Different seats have different cells.
LEMMA SameCell ==
  ASSUME NEW e \in Events, NEW s \in Seats, NEW t \in Seats, InBounds(e, s), InBounds(e, t),
         seat_index(e, s) = seat_index(e, t)
  PROVE  s = t
<1>1. e.rows \in Nat /\ e.cols \in Nat
  BY EventFields
<1>2. /\ s[1] \in Nat /\ s[2] \in 1 .. e.cols /\ t[1] \in Nat /\ t[2] \in 1 .. e.cols
      /\ s = <<s[1], s[2]>> /\ t = <<t[1], t[2]>>
  BY <1>1 DEF InBounds, Seats
<1>3. ASSUME NEW C \in Nat, NEW a \in Nat, NEW b \in 1 .. C, NEW x \in Nat, NEW y \in 1 .. C,
             (a - 1) * C + b - 1 = (x - 1) * C + y - 1
      PROVE  ~ (a < x)
  <2>1. SUFFICES ASSUME a < x PROVE FALSE
    OBVIOUS
  <2>2. PICK d \in Nat : x = a + 1 + d
    BY <2>1
  <2>3. (x - 1) * C = (a - 1) * C + C + d * C
    BY <2>2
  <2>4. d * C \in Nat /\ (a - 1) * C \in Int
    OBVIOUS
  <2>5. QED  BY <1>3, <2>3, <2>4
<1>4. (s[1] - 1) * e.cols + s[2] - 1 = (t[1] - 1) * e.cols + t[2] - 1
  BY DEF seat_index
<1>5. s[1] = t[1] /\ s[2] = t[2]
  <2>1. ~ (s[1] < t[1]) /\ ~ (t[1] < s[1])
    BY <1>1, <1>2, <1>3, <1>4
  <2>2. PICK x \in Nat : x = s[1]
    BY <1>2
  <2>3. PICK y \in Nat : y = t[1]
    BY <1>2
  <2>4. x = y
    BY <2>1, <2>2, <2>3
  <2>5. (x - 1) * e.cols \in Int
    BY <1>1
  <2>6. s[2] = t[2]
    BY <1>1, <1>2, <1>4, <2>2, <2>3, <2>4, <2>5
  <2>7. QED  BY <2>2, <2>3, <2>4, <2>6
<1>6. QED
  BY <1>2, <1>5

\* The first n seats are free and different: the loop takes them.
CanTake(e, seats, n) ==
  \A j \in 1 .. n : Available(e, seats[j]) /\ \A k \in 1 .. j - 1 : seats[k] # seats[j]

IsCellOf(e, seats, n, c) == \E j \in 1 .. n : c = seat_index(e, seats[j])

\* The event once the first n seats carry its last number.
TakenFirst(e, seats, n) ==
  [e EXCEPT !.data = [c \in DOMAIN @ |-> IF IsCellOf(e, seats, n, c) THEN e.reservations
                                         ELSE @[c]]]

LEMMA TakenFirstFields ==
  ASSUME NEW e \in Events, NEW seats, NEW n
  PROVE  LET x == TakenFirst(e, seats, n)
         IN  /\ x \in Events /\ x.id = e.id /\ x.rows = e.rows /\ x.cols = e.cols
             /\ x.reservations = e.reservations /\ DOMAIN x.data = DOMAIN e.data
             /\ \A c \in DOMAIN e.data :
                  x.data[c] = IF IsCellOf(e, seats, n, c) THEN e.reservations ELSE e.data[c]
<1>. DEFINE x == TakenFirst(e, seats, n)
<1>1. /\ e.reservations \in Nat /\ e.data \in [DOMAIN e.data -> Nat]
      /\ DOMAIN e = {"id", "rows", "cols", "reservations", "data"}
  BY EventFields
<1>2. /\ x.id = e.id /\ x.reservations = e.reservations /\ x.rows = e.rows /\ x.cols = e.cols
      /\ x.data = [c \in DOMAIN e.data |-> IF IsCellOf(e, seats, n, c) THEN e.reservations
                                            ELSE e.data[c]]
      /\ DOMAIN x = DOMAIN e /\ x = [f \in DOMAIN x |-> x[f]]
  BY <1>1 DEF TakenFirst
<1>3. x.data \in [DOMAIN e.data -> Nat]
  BY <1>1, <1>2
<1>4. x \in Events
  BY <1>1, <1>2, <1>3, SameShape
<1>5. QED
  BY <1>2, <1>3, <1>4

LEMMA CanTakeFewer ==
  ASSUME NEW e, NEW seats, NEW n \in Nat, CanTake(e, seats, n), NEW m \in 0 .. n
  PROVE  CanTake(e, seats, m)
BY DEF CanTake

\* The event with n seats taken shows whether the next one can be taken too.
LEMMA NextSeat ==
  ASSUME NEW e \in Events, e.reservations >= 1, NEW seats \in Seq(Seats),
         NEW n \in 1 .. Len(seats), CanTake(e, seats, n - 1)
  PROVE  /\ Available(TakenFirst(e, seats, n - 1), seats[n]) <=> CanTake(e, seats, n)
         /\ CanTake(e, seats, n) =>
              Taken(TakenFirst(e, seats, n - 1), seats[n], e.reservations)
                = TakenFirst(e, seats, n)
<1>. DEFINE x == TakenFirst(e, seats, n - 1)
            c == seat_index(e, seats[n])
<1>1. /\ seats[n] \in Seats /\ \A j \in 1 .. n : seats[j] \in Seats
      /\ n \in Nat /\ 1 .. n = (1 .. n - 1) \cup {n} /\ n \notin 1 .. n - 1
  OBVIOUS
<1>2. /\ x \in Events /\ x.id = e.id /\ x.rows = e.rows /\ x.cols = e.cols
      /\ x.reservations = e.reservations /\ DOMAIN x.data = DOMAIN e.data
      /\ \A d \in DOMAIN e.data :
           x.data[d] = IF IsCellOf(e, seats, n - 1, d) THEN e.reservations ELSE e.data[d]
  BY TakenFirstFields
<1>3. InBounds(x, seats[n]) <=> InBounds(e, seats[n])
  BY <1>2 DEF InBounds
<1>4. seat_index(x, seats[n]) = c
  BY <1>2 DEF seat_index
<1>5. CanTake(e, seats, n) <=>
        Available(e, seats[n]) /\ \A k \in 1 .. n - 1 : seats[k] # seats[n]
  BY <1>1 DEF CanTake
<1>. HIDE DEF x, c
<1>6. ASSUME Available(x, seats[n]) PROVE CanTake(e, seats, n)
  <2>1. c \in DOMAIN e.data /\ x.data[c] = 0 /\ InBounds(e, seats[n])
    BY <1>1, <1>2, <1>3, <1>4, <1>6, SeatHasACell DEF Available
  <2>2. ~ IsCellOf(e, seats, n - 1, c)
    BY <1>2, <2>1
  <2>3. e.data[c] = 0
    BY <1>2, <2>1, <2>2
  <2>4. Available(e, seats[n])
    BY <2>1, <2>3 DEF Available, c
  <2>5. \A k \in 1 .. n - 1 : seats[k] # seats[n]
    BY <2>2 DEF IsCellOf, c
  <2>6. QED  BY <1>5, <2>4, <2>5
<1>7. ASSUME CanTake(e, seats, n)
      PROVE  /\ Available(x, seats[n])
             /\ Taken(x, seats[n], e.reservations) = TakenFirst(e, seats, n)
  <2>1. /\ Available(e, seats[n]) /\ InBounds(e, seats[n]) /\ e.data[c] = 0
        /\ \A k \in 1 .. n - 1 : seats[k] # seats[n]
    BY <1>5, <1>7 DEF Available, c
  <2>2. c \in DOMAIN e.data
    BY <1>1, <2>1, SeatHasACell DEF c
  <2>3. ~ IsCellOf(e, seats, n - 1, c)
    <3>1. SUFFICES ASSUME NEW k \in 1 .. n - 1, c = seat_index(e, seats[k])
                   PROVE  FALSE
      BY DEF IsCellOf
    <3>2. InBounds(e, seats[k])
      BY DEF CanTake, Available
    <3>3. k \in 1 .. n /\ seats[k] \in Seats
      BY <1>1
    <3>4. seats[k] = seats[n]
      BY <1>1, <2>1, <3>1, <3>2, <3>3, SameCell DEF c
    <3>5. QED  BY <2>1, <3>4
  <2>4. Available(x, seats[n])
    BY <1>2, <1>3, <1>4, <2>1, <2>2, <2>3 DEF Available
  <2>. DEFINE y == Taken(x, seats[n], e.reservations)
              z == TakenFirst(e, seats, n)
  <2>5. /\ x.reservations \in Nat /\ x.data \in [DOMAIN x.data -> Nat]
        /\ DOMAIN x = {"id", "rows", "cols", "reservations", "data"}
    BY <1>2, EventFields
  <2>6. /\ y.id = x.id /\ y.reservations = x.reservations /\ y.rows = x.rows
        /\ y.cols = x.cols /\ y.data = [x.data EXCEPT ![c] = e.reservations]
        /\ DOMAIN y = DOMAIN x /\ y = [f \in DOMAIN y |-> y[f]]
    BY <1>4, <2>5 DEF Taken
  <2>7. y.data \in [DOMAIN x.data -> Nat]
    BY <1>2, <2>5, <2>6
  <2>8. y \in Events
    BY <1>2, <2>5, <2>6, <2>7, SameShape
  <2>9. /\ z \in Events /\ z.id = e.id /\ z.rows = e.rows /\ z.cols = e.cols
        /\ z.reservations = e.reservations
        /\ \A d \in DOMAIN e.data :
             z.data[d] = IF IsCellOf(e, seats, n, d) THEN e.reservations ELSE e.data[d]
    BY TakenFirstFields
  <2>10. \A d : IsCellOf(e, seats, n, d) <=> IsCellOf(e, seats, n - 1, d) \/ d = c
    BY <1>1 DEF IsCellOf, c
  <2>. HIDE DEF y, z
  <2>11. DOMAIN y.data = DOMAIN e.data /\ \A d \in DOMAIN e.data : y.data[d] = z.data[d]
    BY <1>2, <2>2, <2>6, <2>9, <2>10
  <2>12. y = z
    BY <1>2, <2>6, <2>8, <2>9, <2>11, SameEvent
  <2>13. QED  BY <2>4, <2>12 DEF y, z
<1>8. QED
  BY <1>6, <1>7 DEF x

\* One iteration: it takes the seat, stops, or has stopped before.
LEMMA OneSeat ==
  ASSUME NEW i, NEW x, NEW s
  PROVE  /\ Available(x, s) =>
              TakeSeat([stopped |-> FALSE, i |-> i, event |-> x], s)
                = [stopped |-> FALSE, i |-> i + 1, event |-> Taken(x, s, x.reservations)]
         /\ ~ Available(x, s) =>
              TakeSeat([stopped |-> FALSE, i |-> i, event |-> x], s)
                = [stopped |-> TRUE, i |-> i, event |-> x]
         /\ TakeSeat([stopped |-> TRUE, i |-> i, event |-> x], s)
              = [stopped |-> TRUE, i |-> i, event |-> x]
BY DEF TakeSeat

\* The loop takes all the seats, or as many as it can.
LEMMA LoopEnds ==
  ASSUME NEW e \in Events, e.reservations >= 1, NEW seats \in Seq(Seats)
  PROVE  \E n \in 0 .. Len(seats) :
           /\ CanTake(e, seats, n)
           /\ n < Len(seats) => ~ CanTake(e, seats, Len(seats))
           /\ SeatLoop(e, seats).i = n
           /\ SeatLoop(e, seats).event = TakenFirst(e, seats, n)
<1>. DEFINE L == Len(seats)
            Refused == {n \in 1 .. L : ~ CanTake(e, seats, n)}
            last == IF Refused = {} THEN L ELSE Min(Refused) - 1
            At(n) == [stopped |-> ~ CanTake(e, seats, n),
                      i |-> IF CanTake(e, seats, n) THEN n ELSE last,
                      event |-> TakenFirst(e, seats, IF CanTake(e, seats, n) THEN n ELSE last)]
            IsLoop(f) == f = [n \in 0 .. L |->
              IF n = 0 THEN [stopped |-> FALSE, i |-> 0, event |-> e]
              ELSE TakeSeat(f[n - 1], seats[n])]
<1>1. L \in Nat
  OBVIOUS
<1>2. CanTake(e, seats, 0)
  BY DEF CanTake
<1>3. /\ last \in 0 .. L /\ CanTake(e, seats, last)
      /\ \A n \in 0 .. L : CanTake(e, seats, n) <=> n <= last
  <2>1. CASE Refused = {}
    BY <1>1, <1>2, <2>1
  <2>2. CASE Refused # {}
    <3>. DEFINE m == Min(Refused)
    <3>1. m \in Refused /\ \A y \in Refused : m <= y
      <4>1. Refused \subseteq Nat
        OBVIOUS
      <4>2. QED  BY <2>2, <4>1, Smallest
    <3>2. /\ m \in 1 .. L /\ ~ CanTake(e, seats, m)
      BY <3>1
    <3>. HIDE DEF m
    <3>3. \A n \in 0 .. L : n < m => CanTake(e, seats, n)
      BY <1>2, <3>1, <3>2
    <3>4. \A n \in 0 .. L : m <= n => ~ CanTake(e, seats, n)
      BY <3>2, CanTakeFewer
    <3>5. last = m - 1
      BY <2>2 DEF m
    <3>. HIDE DEF last
    <3>6. QED  BY <1>1, <3>2, <3>3, <3>4, <3>5
  <2>3. QED  BY <2>1, <2>2
<1>. HIDE DEF last
<1>4. At(0) = [stopped |-> FALSE, i |-> 0, event |-> e]
  <2>1. TakenFirst(e, seats, 0) = e
    <3>1. LET x == TakenFirst(e, seats, 0)
          IN  /\ x \in Events /\ x.id = e.id /\ x.rows = e.rows /\ x.cols = e.cols
              /\ x.reservations = e.reservations
              /\ \A d \in DOMAIN e.data : x.data[d] = e.data[d]
      BY TakenFirstFields DEF IsCellOf
    <3>2. DOMAIN TakenFirst(e, seats, 0).data = DOMAIN e.data
      BY TakenFirstFields
    <3>3. QED  BY <3>1, <3>2, SameEvent
  <2>2. QED  BY <1>2, <2>1
<1>5. ASSUME NEW n \in 1 .. L PROVE At(n) = TakeSeat(At(n - 1), seats[n])
  <2>1. CASE CanTake(e, seats, n - 1)
    <3>1. At(n - 1) = [stopped |-> FALSE, i |-> n - 1, event |-> TakenFirst(e, seats, n - 1)]
      BY <2>1
    <3>. TakenFirst(e, seats, n - 1).reservations = e.reservations
      BY TakenFirstFields
    <3>2. CASE CanTake(e, seats, n)
      <4>1. /\ Available(TakenFirst(e, seats, n - 1), seats[n])
            /\ Taken(TakenFirst(e, seats, n - 1), seats[n], e.reservations)
                 = TakenFirst(e, seats, n)
        BY <2>1, <3>2, NextSeat
      <4>2. At(n) = [stopped |-> FALSE, i |-> n, event |-> TakenFirst(e, seats, n)]
        BY <3>2
      <4>. HIDE DEF At
      <4>3. TakeSeat(At(n - 1), seats[n])
              = [stopped |-> FALSE, i |-> n - 1 + 1,
                 event |-> Taken(TakenFirst(e, seats, n - 1), seats[n], e.reservations)]
        BY ZenonT(60), <3>1, <4>1, OneSeat
      <4>4. n - 1 + 1 = n
        OBVIOUS
      <4>5. QED  BY <4>1, <4>2, <4>3, <4>4
    <3>3. CASE ~ CanTake(e, seats, n)
      <4>1. ~ Available(TakenFirst(e, seats, n - 1), seats[n])
        BY <2>1, <3>3, NextSeat
      <4>2. last = n - 1
        BY <1>1, <1>3, <2>1, <3>3
      <4>3. At(n) = [stopped |-> TRUE, i |-> n - 1, event |-> TakenFirst(e, seats, n - 1)]
        BY <3>3, <4>2
      <4>. HIDE DEF At
      <4>4. TakeSeat(At(n - 1), seats[n])
              = [stopped |-> TRUE, i |-> n - 1, event |-> TakenFirst(e, seats, n - 1)]
        BY <3>1, <4>1, OneSeat, Zenon
      <4>5. QED  BY <4>3, <4>4
    <3>4. QED  BY <3>2, <3>3
  <2>2. CASE ~ CanTake(e, seats, n - 1)
    <3>1. ~ CanTake(e, seats, n)
      BY <1>1, <1>3, <2>2
    <3>2. /\ At(n - 1) = [stopped |-> TRUE, i |-> last, event |-> TakenFirst(e, seats, last)]
          /\ At(n) = At(n - 1)
      BY <2>2, <3>1
    <3>. HIDE DEF At
    <3>3. QED  BY ZenonT(60), <3>2, OneSeat
  <2>3. QED  BY <2>1, <2>2
<1>. HIDE DEF At
<1>6. \E f : IsLoop(f)
  <2>. DEFINE w == [n \in 0 .. L |-> At(n)]
  <2>1. \A n \in 0 .. L : w[n] = IF n = 0 THEN [stopped |-> FALSE, i |-> 0, event |-> e]
                                ELSE TakeSeat(w[n - 1], seats[n])
    BY <1>1, <1>4, <1>5
  <2>2. w = [n \in 0 .. L |-> w[n]]
    OBVIOUS
  <2>. HIDE DEF w
  <2>3. IsLoop(w)
    BY <2>1, <2>2
  <2>4. QED  BY <2>3
<1>7. PICK f : IsLoop(f) /\ SeatLoop(e, seats) = f[L]
  <2>. DEFINE g == CHOOSE f : IsLoop(f)
  <2>1. IsLoop(g)
    BY <1>6
  <2>2. SeatLoop(e, seats) = g[L]
    BY DEF SeatLoop
  <2>3. QED  BY <2>1, <2>2
<1>8. f[L] = At(L)
  <2>. DEFINE Wrong == {n \in 0 .. L : f[n] # At(n)}
  <2>1. SUFFICES ASSUME Wrong # {} PROVE FALSE
    BY <1>1
  <2>2. PICK n \in Wrong : \A y \in Wrong : n <= y
    <3>1. Wrong \subseteq Nat
      BY <1>1
    <3>2. QED  BY <2>1, <3>1, Smallest
  <2>3. n # 0
    BY <1>1, <1>4, <1>7
  <2>4. n \in 1 .. L /\ n - 1 \in 0 .. L /\ n - 1 \notin Wrong
    BY <1>1, <2>2, <2>3
  <2>5. f[n] = TakeSeat(f[n - 1], seats[n])
    <3>1. n \in 0 .. L
      BY <1>1, <2>4
    <3>2. QED  BY <1>7, <2>3, <3>1
  <2>6. f[n - 1] = At(n - 1)
    BY <2>4
  <2>7. f[n] = At(n)
    BY <1>5, <2>4, <2>5, <2>6
  <2>8. QED  BY <2>2, <2>7
<1>9. QED
  <2>1. L \in 0 .. L
    BY <1>1
  <2>2. CASE CanTake(e, seats, L)
    <3>1. At(L).i = L /\ At(L).event = TakenFirst(e, seats, L)
      BY <2>2 DEF At
    <3>2. QED  BY <1>1, <1>7, <1>8, <2>1, <2>2, <3>1
  <2>3. CASE ~ CanTake(e, seats, L)
    <3>1. At(L).i = last /\ At(L).event = TakenFirst(e, seats, last)
      BY <2>3 DEF At
    <3>2. QED  BY <1>3, <1>7, <1>8, <2>3, <3>1
  <2>4. QED  BY <2>2, <2>3

-----------------------------------------------------------------------------
(* ems_reserve                                                             *)

\* The condition of the reference is that the loop can take every seat.
LEMMA Grantable ==
  ASSUME NEW e \in Events, NEW seats \in Seq(Seats)
  PROVE  CanTake(e, seats, Len(seats)) <=>
           IsInjective(seats) /\ \A k \in DOMAIN seats : Available(e, seats[k])
<1>. /\ Len(seats) \in Nat /\ DOMAIN seats = 1 .. Len(seats)
  OBVIOUS
<1>1. ASSUME CanTake(e, seats, Len(seats))
      PROVE  IsInjective(seats) /\ \A k \in DOMAIN seats : Available(e, seats[k])
  <2>1. ASSUME NEW a \in DOMAIN seats, NEW b \in DOMAIN seats, a < b
        PROVE  seats[a] # seats[b]
    <3>1. a \in 1 .. b - 1
      BY <2>1
    <3>2. QED  BY <1>1, <3>1 DEF CanTake
  <2>2. IsInjective(seats)
    <3>1. SUFFICES ASSUME NEW a \in DOMAIN seats, NEW b \in DOMAIN seats,
                          seats[a] = seats[b], a # b
                   PROVE  FALSE
      BY DEF IsInjective
    <3>2. a < b \/ b < a
      BY <3>1
    <3>3. QED  BY <2>1, <3>1, <3>2
  <2>3. QED  BY <1>1, <2>2 DEF CanTake
<1>2. ASSUME IsInjective(seats), \A k \in DOMAIN seats : Available(e, seats[k])
      PROVE  CanTake(e, seats, Len(seats))
  <2>1. SUFFICES ASSUME NEW j \in 1 .. Len(seats), NEW k \in 1 .. j - 1
                 PROVE  seats[k] # seats[j]
    BY <1>2 DEF CanTake
  <2>2. k \in DOMAIN seats /\ j \in DOMAIN seats /\ k # j
    OBVIOUS
  <2>3. QED  BY <1>2, <2>2 DEF IsInjective
<1>3. QED
  BY <1>1, <1>2

\* The reservation of all the seats, as the reference has it.
Granted(e, seats) ==
  [e EXCEPT !.reservations = @ + 1,
     !.data = [i \in DOMAIN @ |->
        IF i \in {seat_index(e, seats[k]) : k \in DOMAIN seats}
        THEN e.reservations + 1 ELSE @[i]]]

LEMMA GrantedFields ==
  ASSUME NEW e \in Events, NEW seats
  PROVE  LET x == Granted(e, seats)
         IN  /\ x \in Events /\ x.id = e.id /\ x.rows = e.rows /\ x.cols = e.cols
             /\ x.reservations = e.reservations + 1 /\ DOMAIN x.data = DOMAIN e.data
             /\ \A c \in DOMAIN e.data :
                  x.data[c] = IF \E k \in DOMAIN seats : c = seat_index(e, seats[k])
                              THEN e.reservations + 1 ELSE e.data[c]
<1>. DEFINE x == Granted(e, seats)
            cells == {seat_index(e, seats[k]) : k \in DOMAIN seats}
            y == [e EXCEPT !.reservations = @ + 1]
<1>1. /\ e.reservations \in Nat /\ e.data \in [DOMAIN e.data -> Nat]
      /\ DOMAIN e = {"id", "rows", "cols", "reservations", "data"}
  BY EventFields
<1>2. /\ x.id = e.id /\ x.reservations = e.reservations + 1 /\ x.rows = e.rows
      /\ x.cols = e.cols
      /\ x.data = [i \in DOMAIN e.data |-> IF i \in cells THEN e.reservations + 1
                                            ELSE e.data[i]]
      /\ DOMAIN x = DOMAIN e /\ x = [f \in DOMAIN x |-> x[f]]
  BY <1>1 DEF Granted
<1>3. x.data \in [DOMAIN e.data -> Nat]
  BY <1>1, <1>2
<1>4. x \in Events
  BY <1>1, <1>2, <1>3, SameShape
<1>5. QED
  BY <1>2, <1>3, <1>4

\* ++event->reservations
Counted(e) == [e EXCEPT !.reservations = @ + 1]

LEMMA CountedFields ==
  ASSUME NEW e \in Events
  PROVE  LET x == Counted(e)
         IN  /\ x \in Events /\ x.id = e.id /\ x.rows = e.rows /\ x.cols = e.cols
             /\ x.reservations = e.reservations + 1 /\ x.reservations >= 1
             /\ x.data = e.data
<1>. DEFINE x == Counted(e)
<1>1. /\ e.reservations \in Nat /\ e.data \in [DOMAIN e.data -> Nat]
      /\ DOMAIN e = {"id", "rows", "cols", "reservations", "data"}
  BY EventFields
<1>2. /\ x.id = e.id /\ x.reservations = e.reservations + 1 /\ x.rows = e.rows
      /\ x.cols = e.cols /\ x.data = e.data
      /\ DOMAIN x = DOMAIN e /\ x = [f \in DOMAIN x |-> x[f]]
  BY <1>1 DEF Counted
<1>3. x \in Events
  BY <1>1, <1>2, SameShape
<1>4. QED
  BY <1>1, <1>2, <1>3

\* The number of reservations has no part in what can be taken.
LEMMA CountedSeats ==
  ASSUME NEW e \in Events, NEW seats
  PROVE  /\ \A n : CanTake(Counted(e), seats, n) <=> CanTake(e, seats, n)
         /\ \A n, c : IsCellOf(Counted(e), seats, n, c) <=> IsCellOf(e, seats, n, c)
<1>. DEFINE x == Counted(e)
<1>1. x.rows = e.rows /\ x.cols = e.cols /\ x.data = e.data
  BY CountedFields
<1>. HIDE DEF x
<1>2. /\ \A s : seat_index(x, s) = seat_index(e, s)
      /\ \A s : Available(x, s) <=> Available(e, s)
  BY <1>1 DEF seat_index, Available, InBounds
<1>3. QED
  BY <1>2 DEF CanTake, IsCellOf, x

\* What the first n seats took is given back, and the number.
LEMMA RollbackFields ==
  ASSUME NEW e \in Events, e.reservations >= 1, NEW seats, NEW n
  PROVE  LET x == Rollback(e, seats, n)
         IN  /\ x \in Events /\ x.id = e.id /\ x.rows = e.rows /\ x.cols = e.cols
             /\ x.reservations = e.reservations - 1 /\ DOMAIN x.data = DOMAIN e.data
             /\ \A c \in DOMAIN e.data :
                  x.data[c] = IF IsCellOf(e, seats, n, c) THEN 0 ELSE e.data[c]
<1>. DEFINE back == {seat_index(e, seats[j]) : j \in 1 .. n}
            x == Rollback(e, seats, n)
<1>1. /\ e.reservations \in Nat /\ e.data \in [DOMAIN e.data -> Nat]
      /\ DOMAIN e = {"id", "rows", "cols", "reservations", "data"}
  BY EventFields
<1>2. /\ x.id = e.id /\ x.reservations = e.reservations - 1 /\ x.rows = e.rows
      /\ x.cols = e.cols
      /\ x.data = [i \in DOMAIN e.data |-> IF i \in back THEN 0 ELSE e.data[i]]
      /\ DOMAIN x = DOMAIN e /\ x = [f \in DOMAIN x |-> x[f]]
  BY <1>1 DEF Rollback
<1>3. x.data \in [DOMAIN e.data -> Nat]
  BY <1>1, <1>2
<1>4. x.reservations \in Nat
  BY <1>1, <1>2
<1>5. x \in Events
  BY <1>1, <1>2, <1>3, <1>4, SameShape
<1>6. \A c : c \in back <=> IsCellOf(e, seats, n, c)
  BY DEF IsCellOf
<1>7. QED
  BY <1>2, <1>3, <1>5, <1>6

\* The event in the middle of the loop.
LEMMA CountedTaken ==
  ASSUME NEW e \in Events, NEW seats, NEW n
  PROVE  LET t == TakenFirst(Counted(e), seats, n)
         IN  /\ t \in Events /\ t.id = e.id /\ t.rows = e.rows /\ t.cols = e.cols
             /\ t.reservations = e.reservations + 1 /\ t.reservations >= 1
             /\ DOMAIN t.data = DOMAIN e.data
             /\ \A c \in DOMAIN e.data :
                  t.data[c] = IF IsCellOf(e, seats, n, c) THEN e.reservations + 1 ELSE e.data[c]
BY CountedFields, CountedSeats, TakenFirstFields

\* What the loop took, the rollback gives back.
LEMMA UndoTaken ==
  ASSUME NEW e \in Events, NEW seats, NEW n, CanTake(Counted(e), seats, n)
  PROVE  Rollback(TakenFirst(Counted(e), seats, n), seats, n) = e
<1>. DEFINE t == TakenFirst(Counted(e), seats, n)
            y == Rollback(t, seats, n)
<1>1. /\ t \in Events /\ t.id = e.id /\ t.rows = e.rows /\ t.cols = e.cols
      /\ t.reservations = e.reservations + 1 /\ t.reservations >= 1
      /\ DOMAIN t.data = DOMAIN e.data
      /\ \A c \in DOMAIN e.data :
           t.data[c] = IF IsCellOf(e, seats, n, c) THEN e.reservations + 1 ELSE e.data[c]
  BY CountedTaken
<1>2. e.reservations \in Nat
  BY EventFields
<1>. HIDE DEF t
<1>3. /\ y \in Events /\ y.id = t.id /\ y.rows = t.rows /\ y.cols = t.cols
      /\ y.reservations = t.reservations - 1 /\ DOMAIN y.data = DOMAIN t.data
      /\ \A c \in DOMAIN t.data :
           y.data[c] = IF IsCellOf(t, seats, n, c) THEN 0 ELSE t.data[c]
  BY <1>1, RollbackFields
<1>4. \A c : IsCellOf(t, seats, n, c) <=> IsCellOf(e, seats, n, c)
  BY <1>1 DEF IsCellOf, seat_index
<1>5. \A c \in DOMAIN e.data : IsCellOf(e, seats, n, c) => e.data[c] = 0
  <2>1. \A j \in 1 .. n : Available(e, seats[j])
    BY CountedSeats DEF CanTake
  <2>2. QED  BY <2>1 DEF IsCellOf, Available
<1>. HIDE DEF y
<1>6. \A c \in DOMAIN y.data : y.data[c] = e.data[c]
  BY <1>1, <1>3, <1>4, <1>5
<1>7. y.reservations = e.reservations
  BY <1>1, <1>2, <1>3
<1>8. y = e
  BY <1>1, <1>3, <1>6, <1>7, SameEvent
<1>9. QED
  BY <1>8 DEF y, t

\* A loop that took every seat has granted the reservation.
LEMMA TookAll ==
  ASSUME NEW e \in Events, NEW seats \in Seq(Seats)
  PROVE  TakenFirst(Counted(e), seats, Len(seats)) = Granted(e, seats)
<1>. DEFINE t == TakenFirst(Counted(e), seats, Len(seats))
            y == Granted(e, seats)
<1>1. /\ t \in Events /\ t.id = e.id /\ t.rows = e.rows /\ t.cols = e.cols
      /\ t.reservations = e.reservations + 1 /\ DOMAIN t.data = DOMAIN e.data
      /\ \A c \in DOMAIN e.data :
           t.data[c] = IF IsCellOf(e, seats, Len(seats), c) THEN e.reservations + 1
                                                            ELSE e.data[c]
  BY CountedTaken
<1>2. /\ y \in Events /\ y.id = e.id /\ y.rows = e.rows /\ y.cols = e.cols
      /\ y.reservations = e.reservations + 1 /\ DOMAIN y.data = DOMAIN e.data
      /\ \A c \in DOMAIN e.data :
           y.data[c] = IF \E k \in DOMAIN seats : c = seat_index(e, seats[k])
                       THEN e.reservations + 1 ELSE e.data[c]
  BY GrantedFields
<1>3. \A c : IsCellOf(e, seats, Len(seats), c) <=>
               \E k \in DOMAIN seats : c = seat_index(e, seats[k])
  BY DEF IsCellOf
<1>. HIDE DEF y, t
<1>4. \A c \in DOMAIN t.data : t.data[c] = y.data[c]
  BY <1>1, <1>2, <1>3
<1>5. t = y
  BY <1>1, <1>2, <1>4, SameEvent
<1>6. QED
  BY <1>5 DEF t, y

LEMMA Reference ==
  ASSUME NEW e \in Events, NEW seats \in Seq(Seats)
  PROVE  AllOrNothing(e, seats) = IF CanTake(e, seats, Len(seats)) THEN Granted(e, seats) ELSE e
BY Grantable DEF AllOrNothing, Granted

\* The loop of ems_reserve with what follows it grants all the seats or
\* changes nothing.
LEMMA ReservedIsAllOrNothing ==
  ASSUME NEW e \in Events, NEW seats \in Seq(Seats)
  PROVE  Reserved(e, seats) = AllOrNothing(e, seats)
<1>. DEFINE x == Counted(e)
            L == Len(seats)
<1>1. x \in Events /\ x.reservations >= 1
  BY CountedFields
<1>2. Reserved(e, seats)
        = IF SeatLoop(x, seats).i < L
          THEN Rollback(SeatLoop(x, seats).event, seats, SeatLoop(x, seats).i)
          ELSE SeatLoop(x, seats).event
  BY DEF Reserved, Counted
<1>3. PICK n \in 0 .. L :
        /\ CanTake(x, seats, n)
        /\ n < L => ~ CanTake(x, seats, L)
        /\ SeatLoop(x, seats).i = n
        /\ SeatLoop(x, seats).event = TakenFirst(x, seats, n)
  BY <1>1, LoopEnds
<1>4. CASE n < L
  <2>1. AllOrNothing(e, seats) = e
    BY <1>3, <1>4, CountedSeats, Reference
  <2>2. Reserved(e, seats) = Rollback(TakenFirst(x, seats, n), seats, n)
    BY <1>2, <1>3, <1>4
  <2>3. QED  BY <1>3, <2>1, <2>2, UndoTaken
<1>5. CASE n = L
  <2>1. AllOrNothing(e, seats) = Granted(e, seats)
    BY <1>3, <1>5, CountedSeats, Reference
  <2>2. ~ (n < L)
    BY <1>5
  <2>3. Reserved(e, seats) = TakenFirst(x, seats, L)
    BY <1>2, <1>3, <1>5, <2>2
  <2>4. QED  BY <2>1, <2>3, TookAll
<1>6. n < L \/ n = L
  <2>1. n \in 0 .. L /\ L \in Nat
    OBVIOUS
  <2>. HIDE DEF L
  <2>2. QED  BY <2>1
<1>7. QED
  BY <1>4, <1>5, <1>6

\* A reservation of at least one seat leaves every number in a seat.
LEMMA AllOrNothingCounts ==
  ASSUME NEW e \in Events, CountsItsReservations(e), NEW seats \in Seq(Seats), seats # <<>>
  PROVE  LET x == AllOrNothing(e, seats)
         IN  x \in Events /\ x.id = e.id /\ CountsItsReservations(x)
<1>1. CASE ~ CanTake(e, seats, Len(seats))
  BY <1>1, Grantable DEF AllOrNothing
<1>2. CASE CanTake(e, seats, Len(seats))
  <2>. DEFINE x == Granted(e, seats)
              IsTaken(c) == \E k \in DOMAIN seats : c = seat_index(e, seats[k])
  <2>1. AllOrNothing(e, seats) = x
    BY <1>2, Grantable DEF AllOrNothing, Granted
  <2>2. /\ x \in Events /\ x.id = e.id /\ x.reservations = e.reservations + 1
        /\ DOMAIN x.data = DOMAIN e.data
        /\ \A c \in DOMAIN e.data :
             x.data[c] = IF IsTaken(c) THEN e.reservations + 1 ELSE e.data[c]
    BY GrantedFields
  <2>3. e.reservations \in Nat
    BY EventFields
  <2>4. \A k \in DOMAIN seats : /\ seat_index(e, seats[k]) \in DOMAIN e.data
                               /\ e.data[seat_index(e, seats[k])] = 0
    BY <1>2, Grantable, SeatHasACell DEF Available
  <2>5. PICK first \in DOMAIN e.data : IsTaken(first)
    <3>1. 1 \in DOMAIN seats
      BY EmptySeq
    <3>2. QED  BY <2>4, <3>1
  <2>. HIDE DEF x
  <2>6. \A c \in DOMAIN e.data : IsTaken(c) => e.data[c] = 0
    BY <2>4
  <2>7. Numbers(x) = Numbers(e) \cup {e.reservations + 1}
    <3>. HIDE DEF IsTaken
    <3>1. Numbers(x) \subseteq Numbers(e) \cup {e.reservations + 1}
      BY <2>2 DEF Numbers
    <3>2. ASSUME NEW v \in Numbers(e) PROVE v \in Numbers(x)
      <4>1. PICK c \in DOMAIN e.data : e.data[c] = v /\ v # 0
        BY DEF Numbers
      <4>2. ~ IsTaken(c)
        BY <2>6, <4>1
      <4>3. QED  BY <2>2, <4>1, <4>2 DEF Numbers
    <3>3. e.reservations + 1 \in Numbers(x)
      BY <2>2, <2>3, <2>5 DEF Numbers
    <3>4. QED  BY <3>1, <3>2, <3>3
  <2>8. CountsItsReservations(x)
    BY <2>2, <2>3, <2>7 DEF CountsItsReservations
  <2>9. QED  BY <2>1, <2>2, <2>8
<1>3. QED
  BY <1>1, <1>2

\* The order of the seats does not matter.
LEMMA AnyOrder ==
  ASSUME NEW e \in Events, NEW seats \in Seq(Seats), NEW sorted \in Seq(Seats),
         NEW f \in Bijection(DOMAIN sorted, DOMAIN seats),
         \A n \in DOMAIN sorted : sorted[n] = seats[f[n]]
  PROVE  AllOrNothing(e, sorted) = AllOrNothing(e, seats)
<1>1. /\ \A n \in DOMAIN sorted : f[n] \in DOMAIN seats
      /\ \A n, m \in DOMAIN sorted : f[n] = f[m] => n = m
      /\ \A k \in DOMAIN seats : \E n \in DOMAIN sorted : f[n] = k
  BY DEF Bijection, Injection, Surjection, IsInjective
<1>2. IsInjective(sorted) <=> IsInjective(seats)
  <2>1. ASSUME IsInjective(seats) PROVE IsInjective(sorted)
    <3>1. SUFFICES ASSUME NEW n \in DOMAIN sorted, NEW m \in DOMAIN sorted,
                          sorted[n] = sorted[m]
                   PROVE  n = m
      BY DEF IsInjective
    <3>2. /\ f[n] \in DOMAIN seats /\ f[m] \in DOMAIN seats
          /\ seats[f[n]] = seats[f[m]]
      BY <1>1, <3>1
    <3>3. f[n] = f[m]
      BY <2>1, <3>2 DEF IsInjective
    <3>4. QED  BY <1>1, <3>3
  <2>2. ASSUME IsInjective(sorted) PROVE IsInjective(seats)
    <3>1. SUFFICES ASSUME NEW a \in DOMAIN seats, NEW b \in DOMAIN seats, seats[a] = seats[b]
                   PROVE  a = b
      BY DEF IsInjective
    <3>2. PICK n \in DOMAIN sorted : f[n] = a
      BY <1>1
    <3>3. PICK m \in DOMAIN sorted : f[m] = b
      BY <1>1
    <3>4. sorted[n] = sorted[m]
      BY <3>1, <3>2, <3>3
    <3>5. QED  BY <2>2, <3>2, <3>3, <3>4 DEF IsInjective
  <2>3. QED  BY <2>1, <2>2
<1>3. \A k \in DOMAIN seats : \E n \in DOMAIN sorted : sorted[n] = seats[k]
  BY <1>1
<1>4. \A n \in DOMAIN sorted : \E k \in DOMAIN seats : seats[k] = sorted[n]
  BY <1>1
<1>5. (\A n \in DOMAIN sorted : Available(e, sorted[n])) <=>
        \A k \in DOMAIN seats : Available(e, seats[k])
  BY <1>3, <1>4, Zenon
<1>6. {seat_index(e, sorted[n]) : n \in DOMAIN sorted}
        = {seat_index(e, seats[k]) : k \in DOMAIN seats}
  <2>. DEFINE A == {seat_index(e, sorted[n]) : n \in DOMAIN sorted}
              B == {seat_index(e, seats[k]) : k \in DOMAIN seats}
  <2>1. ASSUME NEW c \in A PROVE c \in B
    <3>1. PICK n \in DOMAIN sorted : c = seat_index(e, sorted[n])
      OBVIOUS
    <3>2. PICK k \in DOMAIN seats : seats[k] = sorted[n]
      BY <1>4
    <3>3. QED  BY <3>1, <3>2
  <2>2. ASSUME NEW c \in B PROVE c \in A
    <3>1. PICK k \in DOMAIN seats : c = seat_index(e, seats[k])
      OBVIOUS
    <3>2. PICK n \in DOMAIN sorted : sorted[n] = seats[k]
      BY <1>3
    <3>3. QED  BY <3>1, <3>2
  <2>. HIDE DEF A, B
  <2>3. A = B
    BY <2>1, <2>2
  <2>4. QED  BY <2>3 DEF A, B
<1>7. QED
  BY <1>2, <1>5, <1>6 DEF AllOrNothing

\* get_event finds the only event with the identifier.
LEMMA LookupTheEvent ==
  ASSUME NEW l \in Seq(Events), NoDuplicates(l), NEW p \in DOMAIN l
  PROVE  get_event(l, l[p].id) = p
<1>1. p # 0
  OBVIOUS
<1>2. QED
  BY <1>1, LookupEvent DEF NoDuplicates
=============================================================================
