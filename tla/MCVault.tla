------------------------------ MODULE MCVault ------------------------------
(***************************************************************************)
(* Vault for TLC: two corpora that share a handle, two MCP sessions, one *)
(* identity a client keeps.                                                *)
(***************************************************************************)
EXTENDS Vault, TLC
CONSTANTS c1, c2, n1, m1, m2, h1, h2

MCCorpora == {c1, c2}
MCNames == {n1}
MCSessions == {m1, m2}
MCHandles == {h1, h2}
MCHolds == [c \in MCCorpora |-> IF c = c1 THEN {h1, h2} ELSE {h2}]
Symmetry == Permutations(MCSessions)
=============================================================================
