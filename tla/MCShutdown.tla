----------------------------- MODULE MCShutdown -----------------------------
(* Instances of Shutdown for TLC. *)
EXTENDS Shutdown, TLC

CONSTANTS r1, j1, w1, c1, c2

\* Containers stand for each other as long as none is warm at the start.
Symmetry == Permutations(Containers)
=============================================================================
