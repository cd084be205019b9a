----------------------------- MODULE MCEventStore -----------------------------
(* Instances of EventStore for TLC. *)
EXTENDS EventStore, TLC

Symmetry == Permutations(Workers)

\* Two seats side by side, and four in a square.
PairShapes   == {<<1, 2>>}
SquareShapes == {<<2, 2>>}

\* Both seats, one of them, a seat named twice, and two that do not exist.
PairSeatLists ==
  {<< <<1, 1>>, <<1, 2>> >>, << <<1, 2>> >>, << <<1, 1>>, <<1, 1>> >>,
   << <<1, 1>>, <<1, 3>> >>, << <<0, 1>> >>}

\* Seats of a 2 x 2 event that overlap pairwise, in both orders.
SquareSeatLists ==
  {<< <<1, 1>>, <<2, 2>> >>, << <<2, 2>>, <<2, 1>> >>, << <<2, 1>> >>,
   << <<1, 3>> >>}
=============================================================================
