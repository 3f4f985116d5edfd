------------------------------- MODULE Leases -------------------------------
(***************************************************************************)
(* What the container pool promises to its requests, without tables,       *)
(* daemon, reapers or failures: a request has at most one container, takes *)
(* it when it is new or has been given back, and a container that is lost  *)
(* while somebody has it, or is retired while it is free, is never handed  *)
(* out again.                                                              *)
(***************************************************************************)
CONSTANTS
    Requests,   \* who may have a container
    Containers, \* identifiers of containers
    None        \* no container

VARIABLES
    holds, \* the container each request has
    state  \* "new", "free", or "out": with a request, or gone for good

leaseVars == <<holds, state>>

Init ==
    /\ holds = [r \in Requests |-> None]
    /\ state \in [Containers -> {"new", "free"}]

Take(r, c) ==
    /\ holds[r] = None /\ state[c] # "out"
    /\ holds' = [holds EXCEPT ![r] = c]
    /\ state' = [state EXCEPT ![c] = "out"]

\* The request lets go of its container, which is free then or gone.
Release(r) ==
    /\ holds[r] # None
    /\ holds' = [holds EXCEPT ![r] = None]
    /\ \/ state' = [state EXCEPT ![holds[r]] = "free"]
       \/ UNCHANGED state

Retire(c) ==
    /\ state[c] = "free"
    /\ state' = [state EXCEPT ![c] = "out"]
    /\ UNCHANGED holds

\* Every request dies, and its container is lost.
LoseAll ==
    /\ holds' = [r \in Requests |-> None]
    /\ UNCHANGED state

Next ==
    \/ \E r \in Requests, c \in Containers : Take(r, c)
    \/ \E r \in Requests : Release(r)
    \/ \E c \in Containers : Retire(c)
    \/ LoseAll

Spec == Init /\ [][Next]_leaseVars

-----------------------------------------------------------------------------
\* No two requests have the same container, and nobody has one that could be
\* handed out: what exclusive use means for whoever implements this module.
Exclusive ==
    \A r \in Requests : holds[r] # None =>
        /\ state[holds[r]] = "out"
        /\ \A s \in Requests : s # r => holds[s] # holds[r]

=============================================================================
