------------------------------ MODULE MCPoller ------------------------------
(* Poller for TLC: one number with a text in two segments and a picture.     *)
EXTENDS Poller, TLC

CONSTANTS d1, d2, s1, s2, p1

MCMsgs == {s1, s2, p1}
MCOneNumber == [m \in MCMsgs |-> d1]
MCDIDs == <<d1>>

\* Two numbers: a text of one, a picture of the other.
MCTwo == {s1, p1}
MCTwoNumbers == [m \in MCTwo |-> IF m = p1 THEN d2 ELSE d1]
MCBothDIDs == <<d1, d2>>

Segments == Permutations({s1, s2})
=============================================================================
