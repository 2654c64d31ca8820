-------------------------- MODULE MCEmbeddedWorker --------------------------
(* Small instances of EmbeddedWorker for TLC: the workers are those of one *)
(* or two API processes.                                                   *)
EXTENDS EmbeddedWorker

EqualPriority == [j \in Jobs |-> 0]

\* The later row goes first, as in test_priority_ordering.
LaterFirst == [j \in Jobs |-> j]
=============================================================================
