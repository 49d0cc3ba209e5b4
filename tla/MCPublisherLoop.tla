-------------------------- MODULE MCPublisherLoop --------------------------
EXTENDS PublisherLoop

\* The ids that positions give, and no others.
PositionIds == {SlotIdOf(a) : a \in Positions}

\* The publisher with heartbeats was set up with a shorter window than the
\* other: what it commits trims what the other has published.
WindowOfEach == [p \in Publishers |-> IF p \in Heartbeating THEN 1 ELSE 2]

\* The publisher with heartbeats plans anew when a step has failed, the other
\* tries it once more.
AttemptsOfEach == [p \in Publishers |-> IF p \in Heartbeating THEN 1 ELSE 2]
=============================================================================
