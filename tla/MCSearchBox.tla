---------------------------- MODULE MCSearchBox -----------------------------
(***************************************************************************)
(* The slots of list requests are interchangeable.                         *)
(***************************************************************************)
EXTENDS SearchBox, TLC

CONSTANTS l1, l2

Slots    == {l1, l2}
Symmetry == Permutations(Slots)

=============================================================================
