------------------------------ MODULE MCSeqJobs ------------------------------
(* Every file that creates an event of two seats and has at most three     *)
(* more of these lines.                                                    *)
EXTENDS SeqJobs

SomeLines == {Create(1, 1, 2), Create(1, 2, 1), Create(2, 0, 1),
          Reserve(1, <<<<1, 1>>>>), Reserve(1, <<<<1, 2>>, <<1, 1>>>>),
          Reserve(1, <<<<1, 1>>, <<1, 1>>>>), Reserve(1, <<<<1, 1>>, <<1, 3>>>>),
          Reserve(2, <<<<0, 1>>>>), BadReserve(1), Show(1), List, Wait(1, 0),
          Barrier, Skip}

AllFiles == {<<Create(1, 1, 2)>> \o f : f \in BoundedSeq(SomeLines, 3)}
=============================================================================
