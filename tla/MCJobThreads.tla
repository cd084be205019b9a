----------------------------- MODULE MCJobThreads -----------------------------
(* Files for JobThreads: two events, rows of two seats.                    *)
EXTENDS JobThreads

\* Reservations that succeed, collide, name a seat twice or one that does
\* not exist; a show and a list in the middle of them.
Reservations == <<Create(1, 2, 1), Reserve(1, <<<<1, 1>>, <<2, 1>>>>),
                  Reserve(1, <<<<2, 1>>, <<1, 1>>>>), Show(1), List>>
Failures     == <<Create(1, 1, 2), Create(1, 2, 1),
                  Reserve(1, <<<<1, 2>>, <<1, 1>>, <<1, 2>>>>),
                  Reserve(1, <<<<1, 1>>, <<1, 3>>>>), Reserve(2, <<<<1, 1>>>>)>>
Barriers     == <<Create(1, 1, 1), Barrier, Skip, Reserve(1, <<<<1, 1>>>>), Barrier,
                  Show(1)>>
TwoBarriers  == <<Barrier, Barrier, Create(1, 2, 1), Show(1)>>
Waits        == <<Wait(1, 2), Wait(1, 0), Create(1, 2, 1), Wait(0, 0), Show(1)>>
Rejected     == <<BadCreate(1, 1), BadReserve(1), Create(2, 1, 1),
                  BadReserve(Unread), Show(2)>>

Waiting      == <<Create(1, 2, 1), Wait(1, 0), Create(2, 0, 1), List, Barrier,
                  Show(1), Show(2), Show(3), Wait(0, 0)>>

Shorter      == <<Create(1, 2, 1), Reserve(1, <<<<1, 1>>, <<2, 1>>>>),
                  Reserve(1, <<<<2, 1>>>>), Show(1)>>
ShortWaits   == <<Wait(1, 2), Create(1, 1, 1), Wait(1, 0)>>
BadLines     == <<BadReserve(1), BadCreate(1, 1), BadReserve(Unread), Show(1)>>

\* Three threads, two, one.
AllPrograms ==
  ({3} \X {Shorter, ShortWaits, BadLines, Barriers, TwoBarriers})
    \cup ({2} \X {Reservations, Failures, Waits, Rejected, Barriers})
    \cup ({1} \X {Reservations, Failures, Barriers, TwoBarriers, Waiting})

BarrierPrograms == {<<3, Barriers>>}

AnyGarbage == {<<1, 1, 1>>}
=============================================================================
