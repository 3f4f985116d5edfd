------------------------------ MODULE MCScheduler ------------------------------
(* Instances of Scheduler for TLC. *)
EXTENDS Scheduler, TLC

CONSTANTS s1, s2, f1, f2, f3, e1, e2

\* Two versions of one function, and another function.
TwoNames == f1 :> "n1" @@ f2 :> "n1" @@ f3 :> "n2"
OneName  == f1 :> "n1" @@ f2 :> "n1"
==============================================================================
