---------------------------- MODULE MCCustomers ----------------------------
(* Instances of Customers for TLC.                                         *)
EXTENDS Customers, TLC

(* Nothing in the specification orders ids, identifiers or slots. *)
Symmetric == Permutations(CustomerIds) \cup Permutations(Cnpjs)
                \cup Permutations(Requests)
=============================================================================
