-------------------------------- MODULE Tour --------------------------------
(***************************************************************************)
(* What a caller of RouteOptimizationAPIClient.OptimizeSync may rely on    *)
(* when it gets a route: every shipment is picked up once and delivered    *)
(* once, a delivery comes after the pickup of the same shipment, and the   *)
(* route is handed over when nothing is left to do.  An error may come     *)
(* instead at any time.                                                    *)
(***************************************************************************)
EXTENDS Naturals

CONSTANT MaxShipments  \* bound: the longest list of shipments

VARIABLES
    todo,       \* visits that are still to be made
    outcome     \* "none" until the answer

vars == <<todo, outcome>>

-----------------------------------------------------------------------------
VisitsOf(n) == {"pickup", "delivery"} \X (1 .. n)

Init == /\ todo \in {VisitsOf(n) : n \in 0 .. MaxShipments}
        /\ outcome = "none"

Serve(kind, k) ==
    /\ outcome = "none"
    /\ <<kind, k>> \in todo
    /\ kind = "delivery" => <<"pickup", k>> \notin todo
    /\ todo' = todo \ {<<kind, k>>}
    /\ UNCHANGED outcome

HandOver == /\ outcome = "none"
            /\ todo = {}
            /\ outcome' = "done"
            /\ UNCHANGED todo

Refuse == /\ outcome = "none"
          /\ outcome' \in {"no vehicles", "deadlock"}
          /\ UNCHANGED todo

Next == \/ \E kind \in {"pickup", "delivery"}, k \in 1 .. MaxShipments : Serve(kind, k)
        \/ HandOver
        \/ Refuse

Spec == Init /\ [][Next]_vars

=============================================================================
