---------------------------- MODULE MCLogStream ----------------------------
(* Instances of LogStream for TLC. *)
EXTENDS LogStream, TLC

CONSTANTS c1, s1, s2

ThreeLines == [c \in Containers |-> 3]
=============================================================================
