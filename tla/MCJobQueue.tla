----------------------------- MODULE MCJobQueue -----------------------------
(* Small instances of JobQueue for TLC.                                    *)
EXTENDS JobQueue, TLC

\* The workers and the handlers are interchangeable.
Symmetric == Permutations(Workers) \cup Permutations(Handlers)

\* The API leaves priority at its default.
EqualPriority == [j \in Jobs |-> 0]

\* The later row goes first, as in test_priority_ordering.
LaterFirst == [j \in Jobs |-> j]
=============================================================================
