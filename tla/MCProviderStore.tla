--------------------------- MODULE MCProviderStore --------------------------
(* Calls and names are interchangeable: nothing orders them.               *)
EXTENDS ProviderStore, TLC

Symmetry == Permutations(Calls) \cup Permutations(Names)

=============================================================================
