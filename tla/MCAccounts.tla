----------------------------- MODULE MCAccounts -----------------------------
(* A small instance of Accounts; the logins and the numbers can be swapped. *)
EXTENDS Accounts, TLC

CONSTANTS x, y, d1, d2
MCSymmetry == Permutations({x, y}) \cup Permutations({d1, d2})
=============================================================================
