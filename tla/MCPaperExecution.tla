-------------------------- MODULE MCPaperExecution --------------------------
(* One account: a program of two slices and a program of one.              *)
EXTENDS PaperExecution, TLC

CONSTANTS p, q, s1, s2, s3, c1, c2

MCProg == [s \in Slices |-> IF s = s3 THEN q ELSE p]
MCSequence == [s \in Slices |-> IF s = s2 THEN 2 ELSE 1]
Symmetric == Permutations(Coordinators)
=============================================================================
