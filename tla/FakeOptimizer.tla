---------------------------- MODULE FakeOptimizer ---------------------------
(***************************************************************************)
(* apps/broker: FakeRouteOptimizer.OptimizeSync, the greedy optimizer of   *)
(* one vehicle.  One action is one turn of its loop.                       *)
(*                                                                         *)
(* A stop is named by its kind and a number instead of its index in the    *)
(* slice; Position gives the index back, for ties are broken by it.  Both  *)
(* slices are made with a length and then appended to, so half of the      *)
(* stops and the first steps are zero values: blank stops at the point     *)
(* (0, 0), which the loop drives to like any other.                        *)
(*                                                                         *)
(* Distances are compared and added up, nothing else.  For two antipodal   *)
(* points rounding can push the argument of the haversine's square root    *)
(* below zero, and their distance is not a number: it compares as false    *)
(* with everything.                                                        *)
(***************************************************************************)
EXTENDS RouteRequest, FiniteSets

CONSTANTS
    Origin,         \* the point (0, 0) of a zero value
    Distance,       \* haversineDistance of two points
    NaN,            \* the float64 that is not a number
    SharedIds       \* may two shipments of a request carry one id?

ASSUME PointsAssumption    == Origin \in Points
ASSUME DistanceAssumption  == /\ Distance \in [Points \X Points -> Nat \cup {NaN}]
                              /\ NaN \notin Int
ASSUME SharedAssumption    == SharedIds \in BOOLEAN
ASSUME NullAssumption      == Null \notin Points \cup Ids

VARIABLES
    vehicle,        \* input.Vehicles[0], the only one that is read; Null: there is none
    visited,
    pickupsDone,    \* a set of ids, not of shipments
    steps,
    current,
    totalDistance,
    outcome         \* "none" while the loop runs

vars == <<shipments, vehicle, visited, pickupsDone, steps, current,
          totalDistance, outcome>>

-----------------------------------------------------------------------------
Vehicle  == [start : Points, end : Points \cup {Null}]
Step     == [id : Ids \cup {Null, "END"}, kind : {"blank", "pickup", "delivery", "end"},
             at : Points]
Outcomes == {"none", "done", "no vehicles", "deadlock"}

Count  == Len(shipments)
Blanks == {"blank"} \X (1 .. 2 * Count)
Visits == {"pickup", "delivery"} \X (1 .. Count)
Stops  == Blanks \cup Visits

(* The index of a stop in the slice.                                       *)
Position(s) == CASE s[1] = "blank"    -> s[2] - 1
                 [] s[1] = "pickup"   -> 2 * Count + 2 * (s[2] - 1)
                 [] s[1] = "delivery" -> 2 * Count + 2 * (s[2] - 1) + 1

IdOf(s)    == IF s[1] = "blank" THEN Null ELSE shipments[s[2]].id
PointOf(s) == CASE s[1] = "blank"    -> Origin
                [] s[1] = "pickup"   -> shipments[s[2]].pickup
                [] s[1] = "delivery" -> shipments[s[2]].delivery

StepOf(s) == [id |-> IdOf(s), kind |-> s[1], at |-> PointOf(s)]
BlankStep == [id |-> Null, kind |-> "blank", at |-> Origin]

Plus(d, e) == IF NaN \in {d, e} THEN NaN ELSE d + e
To(s)      == Distance[<<current, PointOf(s)>>]

AnyStop    == Stops \ visited               \* mutant: no check of pickupsDone
(* A delivery waits until a pickup of its id is done.                      *)
Admissible == {s \in Stops \ visited : s[1] = "delivery" => IdOf(s) \in pickupsDone}

(* Only a distance that is a number is ever less than the best one so far. *)
Candidates == {s \in Admissible : To(s) # NaN}

(* The scan takes the first of the nearest candidates.                     *)
Nearest(s) == \A t \in Candidates : \/ To(s) < To(t)
                                    \/ To(s) = To(t) /\ Position(s) <= Position(t)

-----------------------------------------------------------------------------
(* Requests carry any shipments.                                           *)
Init == /\ shipments \in UpTo(MaxShipments, Shipment)
        /\ vehicle \in Vehicle \cup {Null}
        /\ SharedIds \/ DistinctIds
        /\ visited = {}
        /\ pickupsDone = {}
        /\ steps = [i \in 1 .. 4 * Count |-> BlankStep]
        /\ current = IF vehicle = Null THEN Null ELSE vehicle.start
        /\ totalDistance = 0
        /\ outcome = "none"

Running == outcome = "none" /\ vehicle # Null

NoVehicles == /\ outcome = "none"
              /\ vehicle = Null
              /\ outcome' = "no vehicles"
              /\ UNCHANGED <<shipments, vehicle, visited, pickupsDone, steps, current,
                             totalDistance>>

VisitInPlace(s) ==                          \* mutant: current is not moved
    /\ Running
    /\ s \in Candidates
    /\ Nearest(s)
    /\ visited' = visited \cup {s}
    /\ pickupsDone' = IF s[1] = "pickup" THEN pickupsDone \cup {IdOf(s)} ELSE pickupsDone
    /\ totalDistance' = Plus(totalDistance, To(s))
    /\ steps' = Append(steps, StepOf(s))
    /\ UNCHANGED <<shipments, vehicle, current, outcome>>

VisitUnnoted(s) ==                          \* mutant: pickupsDone is not set
    /\ Running
    /\ s \in Candidates
    /\ Nearest(s)
    /\ visited' = visited \cup {s}
    /\ totalDistance' = Plus(totalDistance, To(s))
    /\ steps' = Append(steps, StepOf(s))
    /\ current' = PointOf(s)
    /\ UNCHANGED <<shipments, vehicle, pickupsDone, outcome>>

VisitByTurn(s) ==                           \* mutant: visited[len(visited)] is set
    /\ Running
    /\ s \in Candidates
    /\ Nearest(s)
    /\ visited' = visited \cup {t \in Stops : Position(t) = Cardinality(visited)}
    /\ pickupsDone' = IF s[1] = "pickup" THEN pickupsDone \cup {IdOf(s)} ELSE pickupsDone
    /\ totalDistance' = Plus(totalDistance, To(s))
    /\ steps' = Append(steps, StepOf(s))
    /\ current' = PointOf(s)
    /\ UNCHANGED <<shipments, vehicle, outcome>>

Visit(s) ==
    /\ Running
    /\ s \in Candidates
    /\ Nearest(s)
    /\ visited' = visited \cup {s}
    /\ pickupsDone' = IF s[1] = "pickup" THEN pickupsDone \cup {IdOf(s)} ELSE pickupsDone
    /\ totalDistance' = Plus(totalDistance, To(s))
    /\ steps' = Append(steps, StepOf(s))
    /\ current' = PointOf(s)
    /\ UNCHANGED <<shipments, vehicle, outcome>>

NoAdmissibleStop ==                         \* mutant: the scan is not looked at
    /\ Running
    /\ visited # Stops
    /\ Admissible = {}
    /\ outcome' = "deadlock"
    /\ UNCHANGED <<shipments, vehicle, visited, pickupsDone, steps, current, totalDistance>>

(* "no valid next stop found": bestIdx is still -1 after the scan.         *)
NoValidStop == /\ Running
               /\ visited # Stops
               /\ Candidates = {}
               /\ outcome' = "deadlock"
               /\ UNCHANGED <<shipments, vehicle, visited, pickupsDone, steps, current,
                              totalDistance>>

EndStep == [id |-> "END", kind |-> "end", at |-> vehicle.end]

HandOver ==
    /\ Running
    /\ visited = Stops
    /\ outcome' = "done"
    /\ IF vehicle.end = Null
       THEN UNCHANGED <<steps, totalDistance>>
       ELSE /\ steps' = Append(steps, EndStep)
            /\ totalDistance' = Plus(totalDistance, Distance[<<current, vehicle.end>>])
    /\ UNCHANGED <<shipments, vehicle, visited, pickupsDone, current>>

Next == \/ NoVehicles
        \/ \E s \in Stops : Visit(s)
        \/ NoValidStop
        \/ HandOver

Spec     == Init /\ [][Next]_vars
FairSpec == Spec /\ WF_vars(Next)

-----------------------------------------------------------------------------
TypeOK == /\ shipments \in Seq(Shipment)
          /\ vehicle \in Vehicle \cup {Null}
          /\ visited \subseteq Stops
          /\ pickupsDone \subseteq Ids
          /\ steps \in Seq(Step)
          /\ current \in Points \cup {Null}
          /\ vehicle # Null => current \in Points
          /\ totalDistance \in Nat \cup {NaN}
          /\ outcome \in Outcomes

(* Nothing is delivered before something of the same id was picked up, in  *)
(* the order of the steps that are handed over.                            *)
PickupsFirst ==
    \A j \in DOMAIN steps : steps[j].kind = "delivery" =>
        \E i \in 1 .. j - 1 : steps[i].kind = "pickup" /\ steps[i].id = steps[j].id

(* The constraint alone never stops the loop: among the stops that are     *)
(* left one is always admissible, and the error that speaks of a deadlock  *)
(* means that none of the admissible ones has a distance.                  *)
NoConstraintDeadlock ==
    outcome = "deadlock" => Admissible # {} /\ \A s \in Admissible : To(s) = NaN

(* The steps that were driven, behind the blank ones the slice began with. *)
DrivenAs(step)     == {i \in DOMAIN steps : i > 4 * Count /\ steps[i] = step}
StopsAs(step, set) == {t \in set : StepOf(t) = step}

(* A route that is handed over was driven to every stop, and as often as   *)
(* there are stops that look like it: nothing is left out, nothing comes   *)
(* twice and nothing else is there, the blank stops counted like the       *)
(* others.                                                                 *)
EveryStopOnce ==
    outcome = "done" =>
        /\ \A s \in Stops : Cardinality(DrivenAs(StepOf(s))) =
                              Cardinality(StopsAs(StepOf(s), Stops))
        /\ Len(steps) = 4 * Count + 4 * Count + (IF vehicle.end = Null THEN 0 ELSE 1)

(* The distance that is reported is the length of the way through the      *)
(* steps that were driven, in their order, from the start to the end.  It  *)
(* is a number, unless the way to the end of the vehicle has none.         *)
Driven == SubSeq(steps, 4 * Count + 1, Len(steps))

Leg(start, path, i) == Distance[<<IF i = 1 THEN start ELSE path[i - 1].at, path[i].at>>]

Length(start, path) ==
    LET sum[i \in 0 .. Len(path)] ==
            IF i = 0 THEN 0 ELSE Plus(sum[i - 1], Leg(start, path, i))
    IN  sum[Len(path)]

DistanceIsDriven ==
    outcome = "done" =>
        /\ totalDistance = Length(vehicle.start, Driven)
        /\ totalDistance = NaN =>
              vehicle.end # Null /\ Distance[<<current, vehicle.end>>] = NaN

(* "Flatten pickups and deliveries into stops": only these are visited.    *)
OnlyShipmentsVisited == visited \subseteq Visits

(* "Can only visit a delivery if pickup is done": its own pickup.          *)
OwnPickupFirst ==
    \A k \in 1 .. Count : <<"delivery", k>> \in visited => <<"pickup", k>> \in visited

(* The greedy loop makes a tour when the ids of the shipments differ.      *)
T == INSTANCE Tour WITH todo <- Visits \ visited
ImplementsTour == T!Spec

(* The inductive invariant: pickupsDone and steps tell what was visited.   *)
Ended       == IF outcome = "done" /\ vehicle.end # Null THEN 1 ELSE 0
StepsTell   == /\ \A s \in Stops : Cardinality(DrivenAs(StepOf(s))) =
                                     Cardinality(StopsAs(StepOf(s), visited))
               /\ \A id \in pickupsDone :
                     \E i \in DOMAIN steps : steps[i].kind = "pickup" /\ steps[i].id = id
               /\ Len(steps) = 4 * Count + Cardinality(visited) + Ended
PickupsTell == pickupsDone = {IdOf(s) : s \in {t \in visited : t[1] = "pickup"}}

IInv == /\ TypeOK
        /\ Count \in 0 .. MaxShipments
        /\ SharedIds \/ DistinctIds
        /\ outcome = "done" => vehicle # Null /\ visited = Stops
        /\ StepsTell
        /\ PickupsTell
        /\ PickupsFirst
        /\ NoConstraintDeadlock

(* And at every turn of the loop the distance is that of the way so far,   *)
(* which ends where the vehicle is.                                        *)
Reached(start, path) == IF path = <<>> THEN start ELSE path[Len(path)].at
DistanceTells ==
    vehicle # Null =>
        /\ totalDistance = Length(vehicle.start, Driven)
        /\ outcome = "none" => current = Reached(vehicle.start, Driven)
        /\ totalDistance = NaN =>
              /\ outcome = "done" /\ vehicle.end # Null
              /\ Distance[<<current, vehicle.end>>] = NaN

(* The scan of a turn that finds candidates finds exactly one stop: the    *)
(* loop is deterministic and is never without a next step.                 *)
ScanDecides ==
    outcome = "none" /\ vehicle # Null /\ Candidates # {} =>
        \E s \in Candidates : /\ Nearest(s)
                              /\ \A t \in Candidates : Nearest(t) => t = s

(* And every turn that does not end the loop uses up a stop: the loop      *)
(* turns at most once for each of them.                                    *)
StopsLeft  == Stops \ visited
TurnsUseUp == [][outcome = "none" /\ outcome' = "none" =>
                    StopsLeft' \subseteq StopsLeft /\ StopsLeft' # StopsLeft]_vars

(* Every call of the optimizer returns.                                    *)
EveryCallReturns == <>(outcome # "none")

=============================================================================
