-------------------------- MODULE MCFakeOptimizer ---------------------------
(***************************************************************************)
(* Points of a line, 0 being the zero value; two of them are antipodal,    *)
(* and rounding leaves them without a distance.                            *)
(***************************************************************************)
EXTENDS FakeOptimizer

Line == {0, 1, 3}
Antipodal == {<<0, 3>>, <<3, 0>>}
LineDistance ==
    [pq \in Line \X Line |->
        IF pq \in Antipodal THEN NaN
        ELSE IF pq[1] < pq[2] THEN pq[2] - pq[1] ELSE pq[1] - pq[2]]

=============================================================================
