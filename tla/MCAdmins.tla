------------------------------ MODULE MCAdmins ------------------------------
(* Instances of Admins for TLC.                                            *)
EXTENDS Admins, TLC

(* Ids, addresses and request slots are interchangeable: nothing in the    *)
(* specification orders them.                                              *)
Symmetric == Permutations(AdminIds) \cup Permutations(Emails)
                \cup Permutations(Requests)
=============================================================================
