---------------------------- MODULE MCClientServer ----------------------------
(* Instances of ClientServer for TLC. *)
EXTENDS ClientServer, TLC

\* The seats of the first fit in the pipe once the client has read what comes
\* before them; those of the second do not fit on the stack of a worker.
ThreeOrFour == {<<1, 3>>, <<1, 4>>}
SecondSeat == {<< <<1, 2>> >>}
=============================================================================
