------------------------------ MODULE Registry ------------------------------
(***************************************************************************)
(* What deployments, rollbacks and deletions of a function name promise,   *)
(* without rows, clocks, images, handlers or failures: requests go to one  *)
(* version that exists, or for a while to none; versions are numbered from *)
(* 1 without gaps, and a rollback goes to another one.  The numbers and    *)
(* the "another" are promised until something begins during something      *)
(* else; the rest always.                                                  *)
(***************************************************************************)
EXTENDS Naturals

VARIABLES
    versions, \* the versions that exist
    current,  \* the one that requests are sent to
    serial    \* no deployment or deletion has begun during another

registryVars == <<versions, current, serial>>

NoVersion == 0

Init ==
    /\ current \in Nat
    /\ versions = 1..current
    /\ serial = TRUE

Deploy ==
    /\ \E v \in versions' \ {NoVersion} :
          /\ versions' = versions \cup {v}
          /\ serial => v \notin versions /\ versions' = 1..v
          /\ current' = v
    /\ UNCHANGED serial

\* What a deployment does first: until it is done, requests are refused.
Withdraw ==
    /\ current' = NoVersion
    /\ UNCHANGED <<versions, serial>>

Rollback ==
    /\ current # NoVersion
    /\ current' \in versions
    /\ serial => current' # current
    /\ UNCHANGED <<versions, serial>>

Delete ==
    /\ versions' = {} /\ current' = NoVersion
    /\ UNCHANGED serial

Overlap ==
    /\ serial' = FALSE
    /\ UNCHANGED <<versions, current>>

Next == Deploy \/ Withdraw \/ Rollback \/ Delete \/ Overlap

Spec == Init /\ [][Next]_registryVars

=============================================================================
