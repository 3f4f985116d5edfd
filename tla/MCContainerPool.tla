--------------------------- MODULE MCContainerPool ---------------------------
(* Instances of ContainerPool for TLC. *)
EXTENDS PoolLeases, TLC

CONSTANTS r1, r2, w1, w2, c1, c2, c3

\* Requests and workers are interchangeable, and so are the containers that do
\* not exist yet.  Only runs that check safety use it.
Symmetry ==
    Permutations(Requests) \cup Permutations(Workers)
        \cup Permutations(Containers \ Warm)
==============================================================================
