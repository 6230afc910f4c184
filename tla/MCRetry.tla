------------------------------- MODULE MCRetry -------------------------------
(* Interchangeable goroutines, and texts with one and with two patterns.   *)
EXTENDS Retry, TLC

Symmetric == Permutations(Procs)

SomeTexts == {{"auth"}, {"timeout", "permanent"}}
=============================================================================
