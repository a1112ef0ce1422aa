---------------------------- MODULE MCKeyWindow ----------------------------
(* One key with all three limits and two concurrent requests. *)
EXTENDS KeyWindow
CONSTANTS s1, s2
MCSlots == {s1, s2}
MCTokens == {1, 2}
Symmetry == {[r \in MCSlots |-> r], [r \in MCSlots |-> IF r = s1 THEN s2 ELSE s1]}
=============================================================================
