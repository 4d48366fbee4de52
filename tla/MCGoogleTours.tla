---------------------------- MODULE MCGoogleTours ---------------------------
(***************************************************************************)
(* Two places off the diagonal, which a delivery is reported on.           *)
(***************************************************************************)
EXTENDS GoogleTours

Corners == {<<1, 2>>, <<2, 1>>}

=============================================================================
