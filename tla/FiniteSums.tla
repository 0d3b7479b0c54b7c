----------------------------- MODULE FiniteSums -----------------------------
(***************************************************************************)
(* Sums of a function over a finite set, a first-order form of             *)
(* MapThenSumSet: quantities, losses, tokens and money are added up with   *)
(* it, and FiniteSumTheorems states what the proofs need to know of it.    *)
(***************************************************************************)
EXTENDS Integers, FiniteSets, FiniteSetsExt

SumOf(f, S) == MapThenSumSet(LAMBDA x : f[x], S)
=============================================================================
