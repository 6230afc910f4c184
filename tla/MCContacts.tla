----------------------------- MODULE MCContacts -----------------------------
(* Contacts for TLC: two logins, a peer both write to, one login's number.   *)
EXTENDS Contacts, TLC

CONSTANTS c1, c2, r1, r2, p, own, j1, j2, j3

MCOwns == [c \in {c1, c2} |-> IF c = c1 THEN {own} ELSE {}]
MCLoginOf == [r \in {r1, r2} |-> IF r = r1 THEN c1 ELSE c2]
MCPeerOf == [r \in {r1, r2} |-> p]
Entry(n, name) == [number |-> n, name |-> name]
MCBooks == {[c \in {c1, c2} |-> IF c = c1 THEN <<>> ELSE <<Entry(p, "Ann")>>]}
MCAnyJob == Permutations(Jobs)
=============================================================================
