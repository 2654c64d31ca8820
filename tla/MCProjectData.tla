--------------------------- MODULE MCProjectData ---------------------------
(* Model checking of ProjectData, and of ForcingFiles on top of it.        *)
EXTENDS ForcingFiles

Symmetric == Permutations(Handlers) \cup Permutations(Users)
=============================================================================
