----------------------------- MODULE GoogleTours ----------------------------
(***************************************************************************)
(* apps/broker: GoogleCloudClient.OptimizeSync.  A request is mapped to    *)
(* shipments and vehicles of Google's, its routes name them by their       *)
(* index, and the client maps the indices back.                            *)
(*                                                                         *)
(* The lists of the request are made with a length of one and appended to, *)
(* so a zero value precedes the caller's shipments, and another one the    *)
(* vehicles: Google counts from it and the client, counting input.         *)
(* Shipments, does not.  Positions are those of TLA+, from 1: a visit to   *)
(* row k of the request is read as input.Shipments[k].                     *)
(*                                                                         *)
(* Google is external: its routes visit rows of the request in any order   *)
(* that picks a shipment up before the same vehicle delivers it, each at   *)
(* most once, or it answers with an error.  Which of the alternative       *)
(* places of a row it chose is not in this model, for nothing reads it.    *)
(***************************************************************************)
EXTENDS RouteRequest

CONSTANTS
    VehicleIds,
    MaxVehicles     \* bound: the longest list of vehicles

ASSUME LabelsAssumption   == Null \notin Ids \cup VehicleIds
ASSUME VehiclesAssumption == MaxVehicles \in Nat

VARIABLES
    vehicles,   \* input.Vehicles
    request,    \* the labels of the rows that were sent
    routes,     \* Google's: for each row of a vehicle, its visits
    results,
    stage

googleVars == <<shipments, vehicles, request, routes, results, stage>>

-----------------------------------------------------------------------------
(* A point is a latitude and a longitude.  The longitude of a delivery is  *)
(* taken from its latitude.                                                *)
Zero      == <<0, 0>>
Turned(p) == <<p[1], p[1]>>
Places    == Points \cup {Turned(p) : p \in Points} \cup {Zero}

Kinds      == {"pickup", "delivery"}
RouteVisit == [row : Nat \ {0}, kind : Kinds]
RouteStep  == [id : Ids \cup {Null}, kind : Kinds, at : Places]
Output     == [vehicle : VehicleIds \cup {Null}, steps : Seq(RouteStep)]

GoogleInit == /\ shipments \in UpTo(MaxShipments, Shipment)
              /\ vehicles \in UpTo(MaxVehicles, VehicleIds)
              /\ request = [shipments |-> <<>>, vehicles |-> <<>>]
              /\ routes = <<>>
              /\ results = <<>>
              /\ stage = "called"

-----------------------------------------------------------------------------
(* NewClient fails, or the call does.                                      *)
Fails == /\ stage \in {"called", "sent"}
         /\ stage' = "failed"
         /\ UNCHANGED <<shipments, vehicles, request, routes, results>>

Rows(labels) == <<Null>> \o labels

(* mapInternalInputToGoogleInput.                                          *)
Send == /\ stage = "called"
        /\ request' = [shipments |-> Rows([i \in DOMAIN shipments |-> shipments[i].id]),
                       vehicles  |-> Rows(vehicles)]
        /\ routes' = [v \in DOMAIN request'.vehicles |-> <<>>]
        /\ stage' = "sent"
        /\ UNCHANGED <<shipments, vehicles, results>>

Made(v, row, kind) == \E i \in DOMAIN routes[v] : routes[v][i] = [row |-> row, kind |-> kind]

(* The zero value has no place to be visited at.                           *)
Serve(v, row, kind) ==
    /\ stage = "sent"
    /\ request.shipments[row] # Null
    /\ IF kind = "pickup" THEN \A w \in DOMAIN routes : ~Made(w, row, "pickup")
       ELSE Made(v, row, "pickup") /\ ~Made(v, row, "delivery")
    /\ routes' = [routes EXCEPT ![v] = Append(@, [row |-> row, kind |-> kind])]
    /\ UNCHANGED <<shipments, vehicles, request, results, stage>>

ShipmentIdOrLast(row) ==                    \* mutant: an index too high is cut down
    IF row \in DOMAIN shipments THEN shipments[row].id ELSE shipments[Len(shipments)].id

(* shipmentIndexToID and vehicleIndexToID: no entry is the empty id.       *)
ShipmentId(row) == IF row \in DOMAIN shipments THEN shipments[row].id ELSE Null

VehicleId(v) == IF v \in DOMAIN vehicles THEN vehicles[v] ELSE Null

(* shipmentToID keeps the last shipment of an id.                          *)
PlaceOf(row, kind) ==
    LET same == {j \in DOMAIN shipments : shipments[j].id = ShipmentId(row)}
        last == CHOOSE j \in same : \A i \in same : i <= j
    IN  IF same = {} THEN Zero
        ELSE IF kind = "pickup" THEN shipments[last].pickup
        ELSE Turned(shipments[last].delivery)

StepTurned(visit) ==                        \* mutant: if !visit.IsPickup
    [id |-> ShipmentId(visit.row), at |-> PlaceOf(visit.row, visit.kind),
     kind |-> IF visit.kind = "pickup" THEN "delivery" ELSE "pickup"]
ReportedStep(visit) ==
    [id |-> ShipmentId(visit.row), at |-> PlaceOf(visit.row, visit.kind), kind |-> visit.kind]

StepsOf(route) == [i \in DOMAIN route |-> ReportedStep(route[i])]

(* What was picked up is delivered: the answer, and                        *)
(* mapGoogleResponseToInternal.                                            *)
Answer ==
    /\ stage = "sent"
    /\ \A v \in DOMAIN routes, row \in DOMAIN request.shipments :
          Made(v, row, "pickup") => Made(v, row, "delivery")
    /\ results' = [v \in DOMAIN routes |-> [vehicle |-> VehicleId(v),
                                            steps |-> StepsOf(routes[v])]]
    /\ stage' = "done"
    /\ UNCHANGED <<shipments, vehicles, request, routes>>

GoogleNext ==
    \/ Fails
    \/ Send
    \/ \E v \in DOMAIN routes, row \in DOMAIN request.shipments, kind \in Kinds :
          Serve(v, row, kind)
    \/ Answer

GoogleSpec == GoogleInit /\ [][GoogleNext]_googleVars

-----------------------------------------------------------------------------
GoogleTypeOK ==
    /\ shipments \in Seq(Shipment)
    /\ vehicles \in Seq(VehicleIds)
    /\ request \in [shipments : Seq(Ids \cup {Null}), vehicles : Seq(VehicleIds \cup {Null})]
    /\ routes \in Seq(Seq(RouteVisit))
    /\ results \in Seq(Output)
    /\ stage \in {"called", "sent", "done", "failed"}

(* Who reads a result sees nothing delivered that the vehicle did not pick *)
(* up before, under the ids that are reported.                             *)
PrecedenceSurvives ==
    \A r \in DOMAIN results : LET steps == results[r].steps IN
        \A j \in DOMAIN steps : steps[j].kind = "delivery" =>
            \E i \in 1 .. j - 1 : steps[i].kind = "pickup" /\ steps[i].id = steps[j].id

(* When the ids of the request differ, the caller reads of no id that it   *)
(* was picked up twice or delivered twice, by one vehicle or by two; not   *)
(* even of the empty id, under which the last row comes back.              *)
NothingIsServedTwice ==
    DistinctIds =>
        \A r, q \in DOMAIN results :
            \A i \in DOMAIN results[r].steps, j \in DOMAIN results[q].steps :
                /\ results[r].steps[i].id = results[q].steps[j].id
                /\ results[r].steps[i].kind = results[q].steps[j].kind
                => r = q /\ i = j

(* What a caller expects, and does not get: a row comes back under the     *)
(* label it was sent with.  It comes back under that of the row behind it. *)
LabelsComeBack ==
    stage = "done" =>
        \A v \in DOMAIN results :
            /\ results[v].vehicle = request.vehicles[v]
            /\ \A i \in DOMAIN routes[v] :
                  results[v].steps[i].id = request.shipments[routes[v][i].row]

(* The inductive invariant: the rows are those of the request, a route     *)
(* picks a row up before it delivers it, no visit is made twice, and the   *)
(* results are the routes with every visit turned into a step.             *)
RowsAreLabelled ==
    stage \in {"sent", "done"} =>
        /\ request.shipments = Rows([i \in DOMAIN shipments |-> shipments[i].id])
        /\ request.vehicles = Rows(vehicles)
        /\ DOMAIN routes = DOMAIN request.vehicles

RoutesPickUpFirst ==
    \A v \in DOMAIN routes : \A j \in DOMAIN routes[v] :
        /\ routes[v][j].row \in DOMAIN request.shipments
        /\ routes[v][j].kind = "delivery" =>
              \E i \in 1 .. j - 1 :
                 routes[v][i].kind = "pickup" /\ routes[v][i].row = routes[v][j].row

VisitsAreMadeOnce ==
    \A v, w \in DOMAIN routes : \A i \in DOMAIN routes[v], j \in DOMAIN routes[w] :
        routes[v][i] = routes[w][j] => v = w /\ i = j

ResultsAreRoutes ==
    IF stage = "done"
    THEN results = [v \in DOMAIN routes |-> [vehicle |-> VehicleId(v),
                                             steps |-> StepsOf(routes[v])]]
    ELSE results = <<>>

GoogleIInv ==
    /\ GoogleTypeOK
    /\ RowsAreLabelled
    /\ RoutesPickUpFirst
    /\ VisitsAreMadeOnce
    /\ ResultsAreRoutes

=============================================================================
