----------------------------- MODULE PoolLeases -----------------------------
(***************************************************************************)
(* The container pool implements the leases: what a request has is its     *)
(* local variable, and a container can be handed out when the daemon has   *)
(* not made it yet or its row is free.                                     *)
(***************************************************************************)
EXTENDS ContainerPool

LeaseState ==
    [c \in Containers |->
        IF docker[c] = "unborn" THEN "new"
        ELSE IF status[c] = "free" THEN "free" ELSE "out"]

Lease == INSTANCE Leases WITH holds <- held, state <- LeaseState

\* Every step of the requests, the reapers and the crashes is a step of the
\* leases, or changes nothing they can see: a container whose row was deleted
\* under a request, whose call failed, or whose request died with the process
\* is never handed out again, by whatever order of statements and failures.
ImplementsLeases == Lease!Spec

=============================================================================
