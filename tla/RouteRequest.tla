----------------------------- MODULE RouteRequest ---------------------------
(***************************************************************************)
(* apps/broker: what both clients of RouteOptimizationAPIClient are called *)
(* with.  Neither changes the list, and nothing looks at whether the ids   *)
(* of its shipments repeat.                                                *)
(***************************************************************************)
EXTENDS Integers, Sequences

CONSTANTS
    Ids,            \* ids of shipments, chosen by the caller
    Points,         \* coordinates
    MaxShipments,   \* bound: the longest list of shipments
    Null            \* the empty id

ASSUME ShipmentsAssumption == MaxShipments \in Nat

VARIABLE shipments  \* input.Shipments

Shipment   == [id : Ids, pickup : Points, delivery : Points]
UpTo(n, S) == UNION {[1 .. i -> S] : i \in 0 .. n}

DistinctIds == \A i, j \in DOMAIN shipments : shipments[i].id = shipments[j].id => i = j

=============================================================================
