---------------------------- MODULE LeasesProofs ----------------------------
(***************************************************************************)
(* What Leases promises, and so whatever implements it.                    *)
(***************************************************************************)
EXTENDS Leases, TLAPS

LeaseTypeOK ==
    /\ holds \in [Requests -> Containers \cup {None}]
    /\ state \in [Containers -> {"new", "free", "out"}]

\* A container is handed out only when nobody has it, and leaves "out" only
\* with the request that had it: no two requests ever have the same one.  With
\* PoolLeases, this is why two invocations never run in one container.
THEOREM LeasesAreExclusive ==
  ASSUME None \notin Containers
  PROVE  Spec => []Exclusive
<1> DEFINE Inv == LeaseTypeOK /\ Exclusive
<1>1. Init => Inv
  BY DEF Init, LeaseTypeOK, Exclusive
<1>2. Inv /\ [Next]_leaseVars => Inv'
  <2> SUFFICES ASSUME Inv, [Next]_leaseVars PROVE Inv'
    OBVIOUS
  <2> USE DEF LeaseTypeOK, Exclusive
  <2>1. CASE \E r \in Requests, c \in Containers : Take(r, c)
    BY <2>1 DEF Take
  <2>2. CASE \E r \in Requests : Release(r)
    BY <2>2 DEF Release
  <2>3. CASE \E c \in Containers : Retire(c)
    BY <2>3 DEF Retire
  <2>4. CASE LoseAll
    BY <2>4 DEF LoseAll
  <2>5. CASE UNCHANGED leaseVars
    BY <2>5 DEF leaseVars
  <2> QED
    BY <2>1, <2>2, <2>3, <2>4, <2>5 DEF Next
<1>3. Inv => Exclusive
  OBVIOUS
<1> QED
  BY <1>1, <1>2, <1>3, PTL DEF Spec

LEMMA LeaseTypeStep == LeaseTypeOK /\ [Next]_leaseVars => LeaseTypeOK'
<1> SUFFICES ASSUME LeaseTypeOK, [Next]_leaseVars PROVE LeaseTypeOK'
  OBVIOUS
<1> USE DEF LeaseTypeOK
<1>1. CASE \E r \in Requests, c \in Containers : Take(r, c)
  BY <1>1 DEF Take
<1>2. CASE \E r \in Requests : Release(r)
  BY <1>2 DEF Release
<1>3. CASE \E c \in Containers : Retire(c)
  BY <1>3 DEF Retire
<1>4. CASE LoseAll \/ UNCHANGED leaseVars
  BY <1>4 DEF LoseAll, leaseVars
<1> QED
  BY <1>1, <1>2, <1>3, <1>4 DEF Next

\* Nobody has it, and nobody can be given it.
Lost(c) == state[c] = "out" /\ \A r \in Requests : holds[r] # c

\* A container that is lost is never handed out again, whoever comes and whoever
\* dies.
THEOREM LostForGood ==
  ASSUME None \notin Containers
  PROVE  Spec => [][\A c \in Containers : Lost(c) => Lost(c)']_leaseVars
<1>1. Init => LeaseTypeOK
  BY DEF Init, LeaseTypeOK
<1>2. LeaseTypeOK /\ [Next]_leaseVars => [\A c \in Containers : Lost(c) => Lost(c)']_leaseVars
  <2> SUFFICES ASSUME LeaseTypeOK, Next, NEW c \in Containers, Lost(c) PROVE Lost(c)'
    OBVIOUS
  <2> USE DEF LeaseTypeOK, Lost
  <2>1. CASE \E r \in Requests, d \in Containers : Take(r, d)
    BY <2>1 DEF Take
  <2>2. CASE \E r \in Requests : Release(r)
    BY <2>2 DEF Release
  <2>3. CASE \E d \in Containers : Retire(d)
    BY <2>3 DEF Retire
  <2>4. CASE LoseAll
    BY <2>4 DEF LoseAll
  <2> QED
    BY <2>1, <2>2, <2>3, <2>4 DEF Next
<1> QED
  BY <1>1, <1>2, LeaseTypeStep, PTL DEF Spec

=============================================================================
