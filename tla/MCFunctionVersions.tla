-------------------------- MODULE MCFunctionVersions --------------------------
(* Instances of FunctionVersions for TLC. *)
EXTENDS FunctionVersions, TLC

CONSTANTS d1, d2, d3, d4

OnePast == <<d1>>
TwoPast == <<d1, d2>>

\* Deployments to come are interchangeable.
Symmetry == Permutations(Deploys \ PastDeploys)
==============================================================================
