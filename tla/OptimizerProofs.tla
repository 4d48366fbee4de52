--------------------------- MODULE OptimizerProofs --------------------------
(***************************************************************************)
(* Theorems about the two clients of RouteOptimizationAPIClient, for any   *)
(* request and any number of shipments: FakeOptimizer, for any distances,  *)
(* and GoogleTours, for any routes that Google may answer with.            *)
(***************************************************************************)
EXTENDS FakeOptimizer, GoogleTours, FiniteSetTheorems, WellFoundedInduction, TLAPS

-----------------------------------------------------------------------------
(* Induction over the natural numbers, for sets instead of predicates, so  *)
(* that it can be cited: a set of numbers has a least element.             *)
LEMMA LessIsWellFounded ==
    \E R : IsWellFoundedOn(R, Nat) /\ \A m, n \in Nat : m < n => <<m, n>> \in R
<1>1. \A m, n \in Nat : m < n => <<m, n>> \in OpToRel(<, Nat)
  BY DEF OpToRel
<1> QED BY <1>1, NatLessThanWellFounded

LEMMA LeastElement ==
    ASSUME NEW M, M \subseteq Nat, M # {}
    PROVE  \E x \in M : \A y \in M : ~(y < x)
<1>1. PICK R : IsWellFoundedOn(R, Nat) /\ \A m, n \in Nat : m < n => <<m, n>> \in R
  BY LessIsWellFounded
<1>2. PICK x \in M : \A y \in M : ~(<<y, x>> \in R)
  BY <1>1, WFMin, ZenonT(30)
<1> QED BY <1>1, <1>2

LEMMA NatSetInduction ==
    ASSUME NEW S, 0 \in S, \A n \in Nat : n \in S => n + 1 \in S
    PROVE  Nat \subseteq S
<1> DEFINE M == Nat \ S
<1> SUFFICES ASSUME M # {} PROVE FALSE
  OBVIOUS
<1>1. PICK x \in M : \A y \in M : ~(y < x)
  <2> HIDE DEF M
  <2>1. M \subseteq Nat
    BY DEF M
  <2> QED BY <2>1, LeastElement
<1>2. x \in Nat /\ x \notin S
  OBVIOUS
<1>3. x # 0 /\ x - 1 \in Nat /\ x - 1 < x /\ x = (x - 1) + 1
  BY <1>2
<1>4. x - 1 \in M
  BY <1>2, <1>3
<1> QED BY <1>1, <1>3, <1>4

-----------------------------------------------------------------------------
(* A running sum over the legs of a path, up to its n-th step.             *)
SumsTo(f, n, start, path) ==
    f = [i \in 0 .. n |-> IF i = 0 THEN 0 ELSE Plus(f[i - 1], Leg(start, path, i))]

LEMMA SumExists ==
    ASSUME NEW start, NEW path, NEW n \in Nat
    PROVE  \E f : SumsTo(f, n, start, path)
<1> DEFINE S == {m \in Nat : \E f : SumsTo(f, m, start, path)}
<1>1. 0 \in S
  <2> DEFINE f == [i \in 0 .. 0 |-> 0]
  <2>1. SumsTo(f, 0, start, path)
    BY DEF SumsTo
  <2> QED BY <2>1
<1>2. ASSUME NEW m \in Nat, m \in S
      PROVE  m + 1 \in S
  <2>1. PICK f : SumsTo(f, m, start, path)
    BY <1>2
  <2> DEFINE g == [i \in 0 .. m + 1 |->
                      IF i <= m THEN f[i] ELSE Plus(f[m], Leg(start, path, m + 1))]
             h == [i \in 0 .. m + 1 |->
                      IF i = 0 THEN 0 ELSE Plus(g[i - 1], Leg(start, path, i))]
  <2>2. \A i \in 0 .. m : f[i] = IF i = 0 THEN 0 ELSE Plus(f[i - 1], Leg(start, path, i))
    BY <2>1 DEF SumsTo
  <2>3. ASSUME NEW i \in 0 .. m + 1 PROVE g[i] = h[i]
    <3>1. CASE i = 0
      BY <2>2, <3>1
    <3>2. CASE i \in 1 .. m
      <4>1. i - 1 \in 0 .. m + 1 /\ i - 1 <= m /\ i # 0 /\ i <= m /\ i \in 0 .. m
        BY <3>2
      <4>2. g[i] = f[i] /\ g[i - 1] = f[i - 1]
        BY <4>1
      <4>3. h[i] = Plus(g[i - 1], Leg(start, path, i))
        BY <4>1
      <4> QED BY <2>2, <4>1, <4>2, <4>3
    <3>3. CASE i = m + 1
      <4>1. g[i] = Plus(f[m], Leg(start, path, m + 1))
        BY <3>3
      <4>2. g[m] = f[m] /\ i - 1 = m /\ i # 0
        BY <3>3
      <4>3. h[i] = Plus(g[m], Leg(start, path, i))
        <5> HIDE DEF g
        <5> QED BY <4>2
      <4> QED BY <3>3, <4>1, <4>2, <4>3
    <3> QED BY <3>1, <3>2, <3>3
  <2>4. g = h
    BY <2>3
  <2>5. SumsTo(g, m + 1, start, path)
    <3> HIDE DEF g
    <3> QED BY <2>4 DEF SumsTo
  <2> QED BY <2>5
<1>3. n \in S
  <2> HIDE DEF S
  <2> QED BY <1>1, <1>2, NatSetInduction
<1> QED BY <1>3

(* Two running sums agree as far as both go and the paths are the same.    *)
LEMMA SumsAgree ==
    ASSUME NEW start, NEW path, NEW longer, NEW n \in Nat, NEW m \in Nat, n <= m,
           NEW f, SumsTo(f, n, start, path), NEW g, SumsTo(g, m, start, longer),
           \A i \in 1 .. n : Leg(start, longer, i) = Leg(start, path, i)
    PROVE  f[n] = g[n]
<1> DEFINE S == {k \in Nat : k <= n => f[k] = g[k]}
<1>1. /\ \A i \in 0 .. n : f[i] = IF i = 0 THEN 0 ELSE Plus(f[i - 1], Leg(start, path, i))
      /\ \A i \in 0 .. m : g[i] = IF i = 0 THEN 0 ELSE Plus(g[i - 1], Leg(start, longer, i))
  BY DEF SumsTo
<1>2. 0 \in S
  BY <1>1
<1>3. ASSUME NEW k \in Nat, k \in S
      PROVE  k + 1 \in S
  <2> SUFFICES ASSUME k + 1 <= n PROVE f[k + 1] = g[k + 1]
    OBVIOUS
  <2>1. /\ k + 1 \in 0 .. n /\ k + 1 \in 0 .. m /\ k + 1 \in 1 .. n
        /\ k + 1 # 0 /\ (k + 1) - 1 = k /\ f[k] = g[k]
    BY <1>3
  <2>2. f[k + 1] = Plus(f[k], Leg(start, path, k + 1))
    BY <1>1, <2>1
  <2>3. g[k + 1] = Plus(g[k], Leg(start, longer, k + 1))
    BY <1>1, <2>1
  <2> QED BY <2>1, <2>2, <2>3
<1>4. n \in S
  <2> HIDE DEF S
  <2> QED BY <1>2, <1>3, NatSetInduction
<1> QED BY <1>4

(* Length is the last value of such a sum.                                 *)
LEMMA LengthIsSum ==
    ASSUME NEW start, NEW path \in Seq(Step)
    PROVE  \E f : SumsTo(f, Len(path), start, path) /\ Length(start, path) = f[Len(path)]
<1> DEFINE f == CHOOSE f : SumsTo(f, Len(path), start, path)
<1>1. Len(path) \in Nat
  OBVIOUS
<1>2. SumsTo(f, Len(path), start, path)
  BY <1>1, SumExists
<1>3. Length(start, path) = f[Len(path)]
  BY DEF Length, SumsTo
<1> QED BY <1>2, <1>3

LEMMA LengthOfNothing ==
    ASSUME NEW start
    PROVE  Length(start, <<>>) = 0
<1>1. <<>> \in Seq(Step) /\ Len(<<>>) = 0
  OBVIOUS
<1>2. PICK f : SumsTo(f, 0, start, <<>>) /\ Length(start, <<>>) = f[0]
  BY <1>1, LengthIsSum
<1> QED BY <1>2 DEF SumsTo

(* A step more adds the distance from where the path has led so far.       *)
LEMMA LengthOfAppend ==
    ASSUME NEW start, NEW path \in Seq(Step), NEW step \in Step
    PROVE  Length(start, Append(path, step)) =
              Plus(Length(start, path), Distance[<<Reached(start, path), step.at>>])
<1> DEFINE n == Len(path)
           longer == Append(path, step)
<1>1. /\ n \in Nat /\ longer \in Seq(Step) /\ Len(longer) = n + 1
      /\ longer[n + 1] = step /\ \A i \in 1 .. n : longer[i] = path[i]
      /\ path = <<>> <=> n = 0
  OBVIOUS
<1> HIDE DEF n, longer
<1>2. PICK f : SumsTo(f, n, start, path) /\ Length(start, path) = f[n]
  BY LengthIsSum DEF n
<1>3. PICK g : SumsTo(g, n + 1, start, longer) /\ Length(start, longer) = g[n + 1]
  BY <1>1, LengthIsSum
<1>4. \A i \in 1 .. n : Leg(start, longer, i) = Leg(start, path, i)
  <2> SUFFICES ASSUME NEW i \in 1 .. n
               PROVE  Leg(start, longer, i) = Leg(start, path, i)
    OBVIOUS
  <2>1. longer[i] = path[i] /\ (i # 1 => longer[i - 1] = path[i - 1])
    BY <1>1
  <2> QED BY <2>1 DEF Leg
<1>5. f[n] = g[n]
  BY <1>1, <1>2, <1>3, <1>4, SumsAgree
<1>6. g[n + 1] = Plus(g[n], Leg(start, longer, n + 1))
  <2>1. n + 1 \in 0 .. n + 1 /\ n + 1 # 0 /\ (n + 1) - 1 = n
    BY <1>1
  <2> QED BY <1>3, <2>1 DEF SumsTo
<1>7. Leg(start, longer, n + 1) = Distance[<<Reached(start, path), step.at>>]
  <2>1. CASE n = 0
    BY <1>1, <2>1 DEF Leg, Reached
  <2>2. CASE n # 0
    <3>1. n \in 1 .. n /\ (n + 1) - 1 = n /\ n + 1 # 1 /\ longer[n] = path[n]
      BY <1>1, <2>2
    <3>2. Leg(start, longer, n + 1) = Distance[<<path[n].at, step.at>>]
      BY <1>1, <3>1 DEF Leg
    <3>3. Reached(start, path) = path[n].at
      BY <1>1, <2>2 DEF Reached, n
    <3> QED BY <3>2, <3>3
  <2> QED BY <2>1, <2>2
<1> QED BY <1>2, <1>3, <1>5, <1>6, <1>7 DEF longer

-----------------------------------------------------------------------------
(* There are four stops per shipment, the blank ones counted.              *)
LEMMA StopsCounted ==
    ASSUME Count \in Nat
    PROVE  IsFiniteSet(Stops) /\ Cardinality(Stops) = 4 * Count
<1> DEFINE Ks == {"pickup", "delivery"}
<1>1. IsFiniteSet(1 .. Count) /\ Cardinality(1 .. Count) = Count
  BY FS_Interval
<1>2. IsFiniteSet(1 .. 2 * Count) /\ Cardinality(1 .. 2 * Count) = 2 * Count
  BY FS_Interval
<1>3. IsFiniteSet({"blank"}) /\ Cardinality({"blank"}) = 1
  BY FS_Singleton
<1>4. IsFiniteSet(Ks) /\ Cardinality(Ks) = 2
  <2>1. IsFiniteSet({"pickup"}) /\ Cardinality({"pickup"}) = 1
    BY FS_Singleton
  <2>2. Ks = {"pickup"} \cup {"delivery"} /\ "delivery" \notin {"pickup"}
    OBVIOUS
  <2> QED BY <2>1, <2>2, FS_AddElement
<1>5. IsFiniteSet(Blanks) /\ Cardinality(Blanks) = 2 * Count
  <2>1. /\ IsFiniteSet({"blank"} \X (1 .. 2 * Count))
        /\ Cardinality({"blank"} \X (1 .. 2 * Count)) =
              Cardinality({"blank"}) * Cardinality(1 .. 2 * Count)
    BY <1>2, <1>3, FS_Product, Zenon
  <2> QED BY <2>1, <1>2, <1>3 DEF Blanks
<1>6. IsFiniteSet(Visits) /\ Cardinality(Visits) = 2 * Count
  <2>1. /\ IsFiniteSet(Ks \X (1 .. Count))
        /\ Cardinality(Ks \X (1 .. Count)) = Cardinality(Ks) * Cardinality(1 .. Count)
    BY <1>1, <1>4, FS_Product, Zenon
  <2> QED BY <2>1, <1>1, <1>4 DEF Visits
<1>7. Blanks \cap Visits = {}
  BY DEF Blanks, Visits
<1>8. Cardinality(Blanks \cap Visits) = 0
  BY <1>7, FS_EmptySet
<1>9. /\ IsFiniteSet(Blanks \cup Visits)
      /\ Cardinality(Blanks \cup Visits) =
            Cardinality(Blanks) + Cardinality(Visits) - Cardinality(Blanks \cap Visits)
  BY <1>5, <1>6, FS_Union, Zenon
<1> QED BY <1>5, <1>6, <1>8, <1>9 DEF Stops

(* A stop has an id and a point of the request, or those of a zero value.  *)
LEMMA StopsTyped ==
    ASSUME TypeOK, NEW s \in Stops
    PROVE  /\ IdOf(s) \in Ids \cup {Null}
           /\ s[1] \in {"pickup", "delivery"} => s \in Visits /\ IdOf(s) \in Ids
           /\ PointOf(s) \in Points
           /\ s[1] \in {"blank", "pickup", "delivery"}
           /\ StepOf(s) \in Step
           /\ StepOf(s).kind = s[1] /\ StepOf(s).id = IdOf(s)
<1>1. /\ s[1] \in {"blank", "pickup", "delivery"}
      /\ s[1] \in {"pickup", "delivery"} => s \in Visits /\ s[2] \in 1 .. Count
  BY DEF Stops, Blanks, Visits
<1>2. s[1] \in {"pickup", "delivery"} => shipments[s[2]] \in Shipment
  BY <1>1 DEF TypeOK, Count
<1>3. /\ IdOf(s) \in Ids \cup {Null}
      /\ s[1] \in {"pickup", "delivery"} => s \in Visits /\ IdOf(s) \in Ids
  BY <1>1, <1>2 DEF IdOf, Shipment
<1>4. PointOf(s) \in Points
  BY <1>1, <1>2, PointsAssumption DEF PointOf, Shipment
<1>5. StepOf(s) \in Step
  BY <1>1, <1>3, <1>4 DEF StepOf, Step
<1> QED BY <1>1, <1>3, <1>4, <1>5 DEF StepOf

LEMMA PlusTyped ==
    ASSUME NEW d \in Nat \cup {NaN}, NEW e \in Nat \cup {NaN}
    PROVE  Plus(d, e) \in Nat \cup {NaN}
BY DEF Plus

LEMMA DistancesTyped ==
    ASSUME NEW p \in Points, NEW q \in Points
    PROVE  Distance[<<p, q>>] \in Nat \cup {NaN}
BY DistanceAssumption

(* Tallies of steps and of stops: they are finite, do not change with what *)
(* they do not read, and stay equal when both grow by one.                 *)
LEMMA TalliesFinite ==
    ASSUME TypeOK, NEW step
    PROVE  IsFiniteSet(DrivenAs(step)) /\ IsFiniteSet(StopsAs(step, visited))
<1>1. Len(steps) \in Nat /\ Count \in Nat /\ DOMAIN steps = 1 .. Len(steps)
  BY DEF TypeOK, Count
<1>2. IsFiniteSet(1 .. Len(steps)) /\ IsFiniteSet(Stops)
  BY <1>1, FS_Interval, StopsCounted
<1>3. DrivenAs(step) \in SUBSET (1 .. Len(steps)) /\ StopsAs(step, visited) \in SUBSET Stops
  BY <1>1 DEF DrivenAs, StopsAs, TypeOK
<1> QED BY <1>2, <1>3, FS_Subset

LEMMA TalliesGrow ==
    ASSUME NEW A, NEW B, NEW x, NEW y, IsFiniteSet(A), IsFiniteSet(B),
           Cardinality(A) = Cardinality(B), x \notin A, y \notin B
    PROVE  Cardinality(A \cup {x}) = Cardinality(B \cup {y})
BY FS_AddElement

LEMMA InitInv == Init => IInv
<1> SUFFICES ASSUME Init PROVE IInv
  OBVIOUS
<1>1. PICK n \in 0 .. MaxShipments : shipments \in [1 .. n -> Shipment]
  BY DEF Init, UpTo
<1>2. Count = n /\ shipments \in Seq(Shipment)
  BY <1>1, ShipmentsAssumption DEF Count
<1>3. BlankStep \in Step
  BY PointsAssumption DEF BlankStep, Step
<1>4. steps \in Seq(Step) /\ Len(steps) = 4 * Count
      /\ \A i \in DOMAIN steps : steps[i] = BlankStep
  <2>1. steps = [i \in 1 .. 4 * Count |-> BlankStep] /\ 4 * Count \in Nat
    BY <1>2, ShipmentsAssumption DEF Init
  <2> QED BY <2>1, <1>3
<1>5. TypeOK
  BY <1>2, <1>4 DEF Init, TypeOK, Vehicle, Outcomes
<1>6. Cardinality(visited) = 0
  BY FS_EmptySet DEF Init
<1>7. StepsTell
  <2>1. \A step : DrivenAs(step) = {} /\ StopsAs(step, visited) = {}
    BY <1>2, <1>4, ShipmentsAssumption DEF Init, DrivenAs, StopsAs
  <2>2. \A s \in Stops : Cardinality(DrivenAs(StepOf(s))) =
                          Cardinality(StopsAs(StepOf(s), visited))
    BY <2>1
  <2>3. pickupsDone = {} /\ outcome = "none"
    BY DEF Init
  <2>4. Len(steps) = 4 * Count + Cardinality(visited) + Ended
    BY <1>2, <1>4, <1>6, <2>3, ShipmentsAssumption DEF Ended
  <2> QED BY <2>2, <2>3, <2>4 DEF StepsTell
<1>8. PickupsTell
  BY DEF Init, PickupsTell
<1>9. PickupsFirst
  BY <1>4 DEF PickupsFirst, BlankStep
<1> QED BY <1>1, <1>2, <1>5, <1>7, <1>8, <1>9, ShipmentsAssumption
        DEF IInv, Init, NoConstraintDeadlock

(* The request does not change, and with it the meaning of its stops.      *)
LEMMA SameRequest ==
    ASSUME shipments' = shipments
    PROVE  /\ Count' = Count /\ Stops' = Stops /\ Visits' = Visits
           /\ \A s : StepOf(s)' = StepOf(s) /\ IdOf(s)' = IdOf(s)
           /\ DistinctIds' = DistinctIds
<1>1. Count' = Count
  BY DEF Count
<1>2. \A s : IdOf(s)' = IdOf(s)
  BY DEF IdOf
<1>3. \A s : PointOf(s)' = PointOf(s)
  BY DEF PointOf
<1>4. \A s : StepOf(s)' = StepOf(s)
  BY <1>2, <1>3 DEF StepOf
<1> QED BY <1>1, <1>2, <1>4 DEF Stops, Visits, Blanks, DistinctIds

LEMMA SameTallies ==
    ASSUME shipments' = shipments, visited' = visited, steps' = steps
    PROVE  \A s : /\ DrivenAs(StepOf(s))' = DrivenAs(StepOf(s))
                  /\ StopsAs(StepOf(s), visited)' = StopsAs(StepOf(s), visited)
<1>1. Count' = Count /\ \A s : StepOf(s)' = StepOf(s)
  BY SameRequest
<1> QED BY <1>1 DEF DrivenAs, StopsAs

LEMMA VisitStep ==
    ASSUME IInv, NEW s \in Stops, Visit(s)
    PROVE  IInv'
<1> USE DEF IInv
<1>1. /\ shipments' = shipments /\ vehicle' = vehicle /\ outcome' = outcome
      /\ outcome = "none" /\ vehicle # Null /\ s \in Candidates
      /\ visited' = visited \cup {s} /\ current' = PointOf(s)
      /\ pickupsDone' = IF s[1] = "pickup" THEN pickupsDone \cup {IdOf(s)} ELSE pickupsDone
      /\ totalDistance' = Plus(totalDistance, To(s))
      /\ steps' = Append(steps, StepOf(s))
  BY DEF Visit, Running
<1>2. s \notin visited /\ (s[1] = "delivery" => IdOf(s) \in pickupsDone)
  BY <1>1 DEF Candidates, Admissible
<1>3. /\ PointOf(s) \in Points /\ StepOf(s) \in Step
      /\ s[1] \in {"blank", "pickup", "delivery"}
      /\ s[1] \in {"pickup", "delivery"} => s \in Visits /\ IdOf(s) \in Ids
      /\ StepOf(s).kind = s[1] /\ StepOf(s).id = IdOf(s)
  BY StopsTyped
<1>4. /\ Count' = Count /\ Stops' = Stops /\ Visits' = Visits
      /\ \A t : StepOf(t)' = StepOf(t) /\ IdOf(t)' = IdOf(t)
      /\ DistinctIds' = DistinctIds
  BY <1>1, SameRequest
<1>5. To(s) \in Nat \cup {NaN}
  BY <1>1, <1>3, DistancesTyped DEF To, TypeOK
<1>6. totalDistance' \in Nat \cup {NaN}
  BY <1>1, <1>5, PlusTyped DEF TypeOK
<1>7. /\ steps' \in Seq(Step) /\ Len(steps') = Len(steps) + 1
      /\ \A i \in DOMAIN steps : i \in DOMAIN steps' /\ steps'[i] = steps[i]
      /\ Len(steps') \in DOMAIN steps' /\ steps'[Len(steps')] = StepOf(s)
      /\ DOMAIN steps' = 1 .. Len(steps) + 1 /\ DOMAIN steps = 1 .. Len(steps)
      /\ Len(steps) \in Nat
  BY <1>1, <1>3 DEF TypeOK
<1>8. TypeOK'
  <2>1. visited' \subseteq Stops'
    BY <1>1, <1>4 DEF TypeOK
  <2>2. pickupsDone' \subseteq Ids
    BY <1>1, <1>3 DEF TypeOK
  <2> QED BY <1>1, <1>3, <1>6, <1>7, <2>1, <2>2 DEF TypeOK
<1>9. StepsTell'
  <2> DEFINE next == Len(steps) + 1
  <2>5. next > 4 * Count
    <3>1. Cardinality(visited) \in Nat
      BY StopsCounted, ShipmentsAssumption, FS_Subset, FS_CardinalityType DEF TypeOK
    <3> QED BY <3>1, <1>1, ShipmentsAssumption DEF StepsTell, Ended
  <2>1. ASSUME NEW t \in Stops'
        PROVE  Cardinality(DrivenAs(StepOf(t)))' = Cardinality(StopsAs(StepOf(t), visited))'
    <3> DEFINE step == StepOf(t)
               A == DrivenAs(step)
               B == StopsAs(step, visited)
    <3>1. /\ Cardinality(A) = Cardinality(B) /\ IsFiniteSet(A) /\ IsFiniteSet(B)
          /\ next \notin A /\ s \notin B
      <4>1. next \notin A /\ s \notin B
        BY <1>2, <1>7 DEF DrivenAs, StopsAs
      <4> QED BY <4>1, <1>4, TalliesFinite DEF StepsTell
    <3>2. StepOf(t)' = step /\ \A u : StepOf(u)' = StepOf(u)
      BY <1>4
    <3>3. CASE step = StepOf(s)
      <4>1. DrivenAs(StepOf(t))' = A \cup {next}
        BY <3>2, <3>3, <2>5, <1>4, <1>7 DEF DrivenAs
      <4>2. StopsAs(StepOf(t), visited)' = B \cup {s}
        BY <3>2, <3>3, <1>1 DEF StopsAs
      <4> HIDE DEF A, B, next
      <4> QED BY <3>1, <4>1, <4>2, TalliesGrow
    <3>4. CASE step # StepOf(s)
      <4>1. DrivenAs(StepOf(t))' = A
        BY <3>2, <3>4, <1>4, <1>7 DEF DrivenAs
      <4>2. StopsAs(StepOf(t), visited)' = B
        BY <3>2, <3>4, <1>1 DEF StopsAs
      <4> QED BY <3>1, <4>1, <4>2
    <3> QED BY <3>3, <3>4
  <2>2. ASSUME NEW id \in pickupsDone'
        PROVE  \E i \in DOMAIN steps' : steps'[i].kind = "pickup" /\ steps'[i].id = id
    <3>1. CASE id \in pickupsDone
      BY <3>1, <1>7 DEF StepsTell
    <3>2. CASE id \notin pickupsDone
      BY <3>2, <1>1, <1>3, <1>7
    <3> QED BY <3>1, <3>2
  <2>3. Cardinality(visited') = Cardinality(visited) + 1 /\ Cardinality(visited) \in Nat
    <3>1. IsFiniteSet(Stops)
      BY <1>7, StopsCounted, ShipmentsAssumption
    <3>2. IsFiniteSet(visited)
      BY <3>1, FS_Subset DEF TypeOK
    <3> QED BY <3>2, <1>1, <1>2, FS_AddElement, FS_CardinalityType
  <2>4. Len(steps') = 4 * Count' + Cardinality(visited') + Ended'
    BY <1>1, <1>4, <1>7, <2>3, ShipmentsAssumption DEF StepsTell, Ended
  <2> QED BY <2>1, <2>2, <2>4 DEF StepsTell
<1>10. PickupsTell'
  <2>1. visited' = visited \cup {s} /\ \A t : IdOf(t)' = IdOf(t)
    BY <1>1, <1>4
  <2>2. CASE s[1] = "pickup"
    BY <2>1, <2>2, <1>1 DEF PickupsTell
  <2>3. CASE s[1] # "pickup"
    BY <2>1, <2>3, <1>1 DEF PickupsTell
  <2> QED BY <2>2, <2>3
<1>11. PickupsFirst'
  <2> SUFFICES ASSUME NEW j \in DOMAIN steps', steps'[j].kind = "delivery"
               PROVE  \E i \in 1 .. j - 1 : steps'[i].kind = "pickup"
                                          /\ steps'[i].id = steps'[j].id
    BY DEF PickupsFirst
  <2>1. CASE j \in DOMAIN steps
    <3>1. PICK i \in 1 .. j - 1 : steps[i].kind = "pickup" /\ steps[i].id = steps[j].id
      BY <2>1, <1>7 DEF PickupsFirst
    <3>2. i \in DOMAIN steps
      BY <2>1, <1>7
    <3> QED BY <2>1, <3>1, <3>2, <1>7
  <2>2. CASE j = Len(steps) + 1
    <3>1. s[1] = "delivery" /\ steps'[j].id = IdOf(s)
      BY <2>2, <1>3, <1>7
    <3>2. PICK i \in DOMAIN steps : steps[i].kind = "pickup" /\ steps[i].id = IdOf(s)
      BY <3>1, <1>2 DEF StepsTell
    <3> QED BY <2>2, <3>1, <3>2, <1>7
  <2> QED BY <2>1, <2>2, <1>7
<1> QED BY <1>1, <1>4, <1>8, <1>9, <1>10, <1>11 DEF NoConstraintDeadlock

(* Among the stops that are left one is always admissible.                 *)
LEMMA SomethingIsAdmissible ==
    ASSUME TypeOK, PickupsTell, visited # Stops
    PROVE  Admissible # {}
<1>1. PICK s \in Stops : s \notin visited
  BY DEF TypeOK
<1>2. CASE s[1] # "delivery" \/ IdOf(s) \in pickupsDone
  BY <1>1, <1>2 DEF Admissible
<1>3. CASE s[1] = "delivery" /\ IdOf(s) \notin pickupsDone
  <2> DEFINE p == <<"pickup", s[2]>>
  <2>1. p \in Stops /\ p[1] = "pickup" /\ IdOf(p) = IdOf(s)
    BY <1>3 DEF Stops, Blanks, Visits, IdOf
  <2>2. p \notin visited
    BY <1>3, <2>1 DEF PickupsTell
  <2> QED BY <2>1, <2>2 DEF Admissible
<1> QED BY <1>2, <1>3

LEMMA NoValidStopStep ==
    ASSUME IInv, NoValidStop
    PROVE  IInv'
<1> USE DEF IInv
<1>1. /\ shipments' = shipments /\ vehicle' = vehicle /\ visited' = visited
      /\ pickupsDone' = pickupsDone /\ steps' = steps /\ current' = current
      /\ totalDistance' = totalDistance /\ outcome' = "deadlock" /\ outcome = "none"
      /\ visited # Stops /\ Candidates = {}
  BY DEF NoValidStop, Running
<1>2. /\ Count' = Count /\ Stops' = Stops /\ Visits' = Visits
      /\ \A t : StepOf(t)' = StepOf(t) /\ IdOf(t)' = IdOf(t)
      /\ DistinctIds' = DistinctIds
  BY <1>1, SameRequest
<1>3. TypeOK' /\ PickupsFirst'
  BY <1>1, <1>2 DEF TypeOK, Outcomes, PickupsFirst
<1>4. StepsTell' /\ PickupsTell'
  BY <1>1, <1>2, SameTallies DEF StepsTell, PickupsTell, Ended
<1>5. Admissible # {} /\ \A s \in Admissible : To(s) = NaN
  BY <1>1, SomethingIsAdmissible DEF Candidates
<1>6. Admissible' = Admissible /\ \A s : To(s)' = To(s)
  BY <1>1, <1>2 DEF Admissible, To, PointOf
<1> QED BY <1>1, <1>2, <1>3, <1>4, <1>5, <1>6 DEF NoConstraintDeadlock

LEMMA HandOverStep ==
    ASSUME IInv, HandOver
    PROVE  IInv'
<1> USE DEF IInv
<1>1. /\ shipments' = shipments /\ vehicle' = vehicle /\ visited' = visited
      /\ pickupsDone' = pickupsDone /\ current' = current
      /\ outcome' = "done" /\ outcome = "none" /\ vehicle # Null /\ visited = Stops
  BY DEF HandOver, Running
<1>2. /\ Count' = Count /\ Stops' = Stops /\ Visits' = Visits
      /\ \A t : StepOf(t)' = StepOf(t) /\ IdOf(t)' = IdOf(t)
      /\ DistinctIds' = DistinctIds
  BY <1>1, SameRequest
<1>3. CASE vehicle.end = Null
  <2>1. steps' = steps /\ totalDistance' = totalDistance
    BY <1>3 DEF HandOver
  <2>2. TypeOK' /\ PickupsFirst'
    BY <1>1, <1>2, <2>1 DEF TypeOK, Outcomes, PickupsFirst
  <2>3. StepsTell' /\ PickupsTell'
    BY <1>1, <1>2, <1>3, <2>1, SameTallies DEF StepsTell, PickupsTell, Ended
  <2> QED BY <1>1, <1>2, <2>2, <2>3 DEF NoConstraintDeadlock
<1>4. CASE vehicle.end # Null
  <2>1. steps' = Append(steps, EndStep)
        /\ totalDistance' = Plus(totalDistance, Distance[<<current, vehicle.end>>])
    BY <1>4 DEF HandOver
  <2>2. vehicle.end \in Points /\ current \in Points
    BY <1>1, <1>4 DEF TypeOK, Vehicle
  <2>3. EndStep \in Step /\ EndStep.kind = "end"
    BY <2>2 DEF EndStep, Step
  <2>4. totalDistance' \in Nat \cup {NaN}
    BY <2>1, <2>2, DistancesTyped, PlusTyped DEF TypeOK
  <2>5. /\ steps' \in Seq(Step) /\ Len(steps') = Len(steps) + 1
        /\ \A i \in DOMAIN steps : i \in DOMAIN steps' /\ steps'[i] = steps[i]
        /\ \A i \in DOMAIN steps' : i \in DOMAIN steps \/ steps'[i] = EndStep
        /\ DOMAIN steps = 1 .. Len(steps) /\ Len(steps) \in Nat
    BY <2>1, <2>3 DEF TypeOK
  <2>6. TypeOK'
    BY <1>1, <1>2, <2>4, <2>5 DEF TypeOK, Outcomes
  <2>7. PickupsFirst'
    <3> SUFFICES ASSUME NEW j \in DOMAIN steps', steps'[j].kind = "delivery"
                 PROVE  \E i \in 1 .. j - 1 : steps'[i].kind = "pickup"
                                            /\ steps'[i].id = steps'[j].id
      BY DEF PickupsFirst
    <3>1. j \in DOMAIN steps
      BY <2>3, <2>5
    <3>2. PICK i \in 1 .. j - 1 : steps[i].kind = "pickup" /\ steps[i].id = steps[j].id
      BY <3>1, <2>5 DEF PickupsFirst
    <3> QED BY <3>1, <3>2, <2>5
  <2>8. ASSUME NEW s \in Stops'
        PROVE  Cardinality(DrivenAs(StepOf(s)))' = Cardinality(StopsAs(StepOf(s), visited))'
    <3>1. StepOf(s)' = StepOf(s) /\ StepOf(s) # EndStep /\ s \in Stops
      BY <1>2, <2>3, StopsTyped
    <3>2. DrivenAs(StepOf(s))' = DrivenAs(StepOf(s))
      BY <1>2, <2>5, <3>1 DEF DrivenAs
    <3>3. StopsAs(StepOf(s), visited)' = StopsAs(StepOf(s), visited)
      BY <1>1, <1>2, <3>1 DEF StopsAs
    <3> QED BY <3>1, <3>2, <3>3 DEF StepsTell
  <2>9. \A id \in pickupsDone' :
           \E i \in DOMAIN steps' : steps'[i].kind = "pickup" /\ steps'[i].id = id
    BY <1>1, <2>5 DEF StepsTell
  <2>10. Cardinality(visited) \in Nat
    BY <1>1, StopsCounted, ShipmentsAssumption, FS_CardinalityType
  <2>11. Len(steps') = 4 * Count' + Cardinality(visited') + Ended'
    <3>1. Ended = 0 /\ Ended' = 1
      BY <1>1, <1>4 DEF Ended
    <3>2. Len(steps) = 4 * Count + Cardinality(visited) + 0
      BY <3>1 DEF StepsTell
    <3> QED BY <1>1, <1>2, <2>5, <2>10, <3>1, <3>2, ShipmentsAssumption
  <2>12. StepsTell'
    BY <2>8, <2>9, <2>11 DEF StepsTell
  <2>13. PickupsTell'
    BY <1>1, <1>2 DEF PickupsTell
  <2> QED BY <1>1, <1>2, <2>6, <2>7, <2>12, <2>13 DEF NoConstraintDeadlock
<1> QED BY <1>3, <1>4

LEMMA QuietStep ==
    ASSUME IInv, NoVehicles \/ UNCHANGED vars
    PROVE  IInv'
<1> USE DEF IInv
<1>1. /\ shipments' = shipments /\ vehicle' = vehicle /\ visited' = visited
      /\ pickupsDone' = pickupsDone /\ steps' = steps /\ current' = current
      /\ totalDistance' = totalDistance
      /\ outcome' = outcome \/ (outcome = "none" /\ outcome' = "no vehicles")
  BY DEF NoVehicles, vars
<1>2. /\ Count' = Count /\ Stops' = Stops /\ Visits' = Visits
      /\ \A t : StepOf(t)' = StepOf(t) /\ IdOf(t)' = IdOf(t)
      /\ DistinctIds' = DistinctIds
  BY <1>1, SameRequest
<1>3. TypeOK' /\ PickupsFirst'
  BY <1>1, <1>2 DEF TypeOK, Outcomes, PickupsFirst
<1>4. StepsTell' /\ PickupsTell'
  <2>1. Ended' = Ended
    BY <1>1 DEF Ended
  <2>2. StepsTell'
    BY <1>1, <1>2, <2>1, SameTallies DEF StepsTell
  <2>3. PickupsTell'
    BY <1>1, <1>2 DEF PickupsTell
  <2> QED BY <2>2, <2>3
<1>5. Admissible' = Admissible /\ \A s : To(s)' = To(s)
  BY <1>1, <1>2 DEF Admissible, To, PointOf
<1> QED BY <1>1, <1>2, <1>3, <1>4, <1>5 DEF NoConstraintDeadlock

LEMMA NextInv == IInv /\ [Next]_vars => IInv'
BY VisitStep, NoValidStopStep, HandOverStep, QuietStep DEF Next

-----------------------------------------------------------------------------
(* A step more of the slice is a step more of what was driven.             *)
LEMMA DrivenGrows ==
    ASSUME TypeOK, Len(steps) >= 4 * Count, Count \in Nat, Count' = Count,
           NEW step \in Step, steps' = Append(steps, step)
    PROVE  /\ Driven \in Seq(Step)
           /\ Driven' = Append(Driven, step)
           /\ Reached(vehicle.start, Driven') = step.at
<1> DEFINE c == 4 * Count
           n == Len(steps) - c
           d == [i \in 1 .. n |-> steps[i + c]]
           e == [i \in 1 .. n + 1 |-> steps'[i + c]]
<1>1. c \in Nat /\ n \in Nat /\ Len(steps) = n + c /\ steps \in Seq(Step)
  BY DEF TypeOK
<1>2. /\ Len(steps') = (n + 1) + c /\ steps'[(n + 1) + c] = step
      /\ \A i \in 1 .. n : i + c \in 1 .. Len(steps) /\ steps'[i + c] = steps[i + c]
  BY <1>1
<1>3. Driven = d
  BY <1>1 DEF Driven
<1>4. Driven' = e
  <2>1. Driven' = SubSeq(steps', c + 1, (n + 1) + c)
    BY <1>2 DEF Driven
  <2>2. steps' \in Seq(Step)
    BY <1>1
  <2> HIDE DEF n, c
  <2>3. \A t \in Seq(Step) : Len(t) = (n + 1) + c =>
           SubSeq(t, c + 1, (n + 1) + c) = [i \in 1 .. n + 1 |-> t[i + c]]
    BY <1>1
  <2> QED BY <1>2, <2>1, <2>2, <2>3
<1>5. d \in Seq(Step) /\ Len(d) = n
  BY <1>1
<1>6. e = Append(d, step)
  <2>1. Append(d, step) = [i \in 1 .. n + 1 |-> IF i = n + 1 THEN step ELSE d[i]]
    BY <1>1, <1>5
  <2>2. \A i \in 1 .. n + 1 : e[i] = IF i = n + 1 THEN step ELSE d[i]
    BY <1>1, <1>2
  <2> QED BY <2>1, <2>2
<1>7. e # <<>> /\ Len(e) = n + 1 /\ e[n + 1] = step
  BY <1>5, <1>6, <1>1
<1>8. Reached(vehicle.start, e) = step.at
  BY <1>7 DEF Reached
<1> QED BY <1>3, <1>4, <1>5, <1>6, <1>8

LEMMA DistanceInit == Init => DistanceTells
<1> SUFFICES ASSUME Init, vehicle # Null
             PROVE  DistanceTells
  BY DEF DistanceTells
<1>1. IInv
  BY InitInv
<1>2. Count \in Nat /\ Len(steps) = 4 * Count
  BY <1>1, ShipmentsAssumption, FS_EmptySet DEF IInv, StepsTell, Ended, Init
<1>3. Driven = <<>>
  BY <1>2 DEF Driven
<1>4. totalDistance # NaN
  BY DistanceAssumption DEF Init
<1> QED BY <1>3, <1>4, LengthOfNothing DEF Init, DistanceTells, Reached

LEMMA DistanceStep == IInv /\ IInv' /\ DistanceTells /\ [Next]_vars => DistanceTells'
<1> SUFFICES ASSUME IInv, IInv', DistanceTells, [Next]_vars
             PROVE  DistanceTells'
  OBVIOUS
<1>1. TypeOK /\ Count \in Nat /\ Len(steps) >= 4 * Count
  <2>1. IsFiniteSet(Stops)
    BY StopsCounted, ShipmentsAssumption DEF IInv
  <2>2. Cardinality(visited) \in Nat
    BY <2>1, FS_Subset, FS_CardinalityType DEF IInv, TypeOK
  <2> QED BY <2>2, ShipmentsAssumption DEF IInv, StepsTell, Ended
<1>2. ASSUME NEW s \in Stops, Visit(s)
      PROVE  DistanceTells'
  <2>1. /\ shipments' = shipments /\ vehicle' = vehicle /\ outcome = "none"
        /\ vehicle # Null /\ current' = PointOf(s)
        /\ totalDistance' = Plus(totalDistance, To(s))
        /\ steps' = Append(steps, StepOf(s))
    BY <1>2 DEF Visit, Running
  <2>2. StepOf(s) \in Step /\ StepOf(s).at = PointOf(s) /\ Count' = Count
    BY <1>1, <2>1, StopsTyped, SameRequest DEF StepOf
  <2>3. /\ Driven \in Seq(Step) /\ Driven' = Append(Driven, StepOf(s))
        /\ Reached(vehicle.start, Driven') = PointOf(s)
    BY <1>1, <2>1, <2>2, DrivenGrows
  <2>4. To(s) = Distance[<<Reached(vehicle.start, Driven), StepOf(s).at>>]
    BY <2>1, <2>2 DEF DistanceTells, To
  <2>5. totalDistance' = Length(vehicle.start, Driven')
    BY <2>1, <2>2, <2>3, <2>4, LengthOfAppend DEF DistanceTells
  <2>6. totalDistance' # NaN
    <3>1. To(s) # NaN /\ totalDistance # NaN
      BY <1>2, <2>1 DEF Visit, Candidates, DistanceTells
    <3>2. To(s) \in Nat /\ totalDistance \in Nat
      BY <1>1, <2>1, <3>1, StopsTyped, DistancesTyped DEF To, TypeOK
    <3> QED BY <2>1, <3>1, <3>2, DistanceAssumption DEF Plus
  <2> QED BY <2>1, <2>3, <2>5, <2>6 DEF DistanceTells
<1>3. CASE HandOver
  <2>1. /\ shipments' = shipments /\ vehicle' = vehicle /\ outcome = "none"
        /\ vehicle # Null /\ outcome' = "done" /\ current' = current
        /\ totalDistance \in Nat
    BY <1>1, <1>3 DEF HandOver, Running, DistanceTells, TypeOK
  <2>2. CASE vehicle.end = Null
    <3>1. steps' = steps /\ totalDistance' = totalDistance
      BY <1>3, <2>2 DEF HandOver
    <3> QED BY <2>1, <3>1, SameRequest, DistanceAssumption DEF DistanceTells, Driven
  <2>3. CASE vehicle.end # Null
    <3>1. /\ steps' = Append(steps, EndStep)
          /\ totalDistance' = Plus(totalDistance, Distance[<<current, vehicle.end>>])
      BY <1>3, <2>3 DEF HandOver
    <3>2. EndStep \in Step /\ EndStep.at = vehicle.end /\ Count' = Count
      BY <1>1, <2>1, <2>3, SameRequest DEF EndStep, Step, TypeOK, Vehicle
    <3>3. Driven \in Seq(Step) /\ Driven' = Append(Driven, EndStep)
      BY <1>1, <3>1, <3>2, DrivenGrows
    <3>4. totalDistance' = Length(vehicle.start, Driven')
      BY <2>1, <3>1, <3>2, <3>3, LengthOfAppend DEF DistanceTells
    <3>5. totalDistance' = NaN => Distance[<<current, vehicle.end>>] = NaN
      <4>1. Distance[<<current, vehicle.end>>] \in Nat \cup {NaN}
        BY <1>1, <2>1, <2>3, DistancesTyped DEF TypeOK, Vehicle
      <4> QED BY <2>1, <3>1, <4>1, DistanceAssumption DEF Plus
    <3> QED BY <2>1, <2>3, <3>4, <3>5 DEF DistanceTells
  <2> QED BY <2>2, <2>3
<1>4. CASE NoValidStop \/ NoVehicles \/ UNCHANGED vars
  <2>1. /\ shipments' = shipments /\ vehicle' = vehicle /\ steps' = steps
        /\ current' = current /\ totalDistance' = totalDistance
        /\ outcome' = "none" => outcome = "none"
        /\ vehicle # Null => outcome = "none" \/ outcome' = outcome
    BY <1>4 DEF NoValidStop, NoVehicles, Running, vars
  <2> QED BY <2>1, SameRequest DEF DistanceTells, Driven
<1> QED BY <1>2, <1>3, <1>4 DEF Next

-----------------------------------------------------------------------------
(* The loop's invariant holds in every behaviour (OptimizeSync).           *)
THEOREM Invariance == Spec => []IInv
BY InitInv, NextInv, PTL DEF Spec

(* Every reachable state of the optimizer is well typed.                   *)
THEOREM TypeCorrectness == Spec => []TypeOK
<1>1. IInv => TypeOK
  BY DEF IInv
<1> QED BY <1>1, Invariance, PTL

(* In the steps handed over nothing is delivered before a pickup of its    *)
(* id, also when ids repeat.                                               *)
THEOREM PickupsComeFirst == Spec => []PickupsFirst
<1>1. IInv => PickupsFirst
  BY DEF IInv
<1> QED BY <1>1, Invariance, PTL

(* The error "constraint deadlock" needs distances that are not numbers:   *)
(* the pickup-before-delivery constraint alone never stops the loop.       *)
THEOREM ConstraintsNeverDeadlock == Spec => []NoConstraintDeadlock
<1>1. IInv => NoConstraintDeadlock
  BY DEF IInv
<1> QED BY <1>1, Invariance, PTL

(* A route handed over was driven to every stop of the request, the blank  *)
(* ones counted, just as often as there are stops that look like it.       *)
THEOREM StopsAreDrivenOnce == Spec => []EveryStopOnce
<1>1. ASSUME IInv PROVE EveryStopOnce
  <2> SUFFICES ASSUME outcome = "done" PROVE
        /\ \A s \in Stops : Cardinality(DrivenAs(StepOf(s))) =
                              Cardinality(StopsAs(StepOf(s), Stops))
        /\ Len(steps) = 4 * Count + 4 * Count + (IF vehicle.end = Null THEN 0 ELSE 1)
    BY DEF EveryStopOnce
  <2>1. visited = Stops /\ StepsTell /\ Count \in Nat
    BY <1>1, ShipmentsAssumption DEF IInv
  <2>2. Cardinality(visited) = 4 * Count
    BY <2>1, StopsCounted
  <2>3. Ended = IF vehicle.end = Null THEN 0 ELSE 1
    BY DEF Ended
  <2>4. \A s \in Stops : Cardinality(DrivenAs(StepOf(s))) =
                          Cardinality(StopsAs(StepOf(s), Stops))
    BY <2>1 DEF StepsTell
  <2> QED BY <2>1, <2>2, <2>3, <2>4 DEF StepsTell
<1> QED BY <1>1, Invariance, PTL

(* With distinct ids the greedy loop implements Tour: a step of the loop   *)
(* serves one visit whose turn has come, or is a stutter at a blank stop.  *)
THEOREM TourImplemented ==
    ASSUME SharedIds = FALSE
    PROVE  Spec => ImplementsTour
<1>1. Init => T!Init
  <2> SUFFICES ASSUME Init PROVE T!Init
    OBVIOUS
  <2>1. IInv
    BY InitInv
  <2>2. Visits \ visited = T!VisitsOf(Count) /\ Count \in 0 .. MaxShipments
    BY <2>1 DEF IInv, Init, Visits, T!VisitsOf
  <2> QED BY <2>2 DEF T!Init, Init
<1>2. IInv /\ [Next]_vars => [T!Next]_T!vars
  <2> SUFFICES ASSUME IInv, [Next]_vars PROVE [T!Next]_T!vars
    OBVIOUS
  <2>1. ASSUME NEW s \in Stops, Visit(s) PROVE [T!Next]_T!vars
    <3>1. /\ shipments' = shipments /\ visited' = visited \cup {s} /\ outcome' = outcome
          /\ outcome = "none" /\ s \in Stops \ visited
          /\ s[1] = "delivery" => IdOf(s) \in pickupsDone
      BY <2>1 DEF Visit, Running, Candidates, Admissible
    <3>2. Visits' = Visits /\ Count \in 0 .. MaxShipments
      BY <3>1, SameRequest DEF IInv
    <3>3. CASE s \in Blanks
      <4>1. s \notin Visits
        BY <3>3 DEF Blanks, Visits
      <4> QED BY <3>1, <3>2, <4>1 DEF T!vars
    <3>4. CASE s \in Visits
      <4>1. /\ s = <<s[1], s[2]>> /\ s[1] \in {"pickup", "delivery"}
            /\ s[2] \in 1 .. Count /\ s[2] \in 1 .. MaxShipments
        BY <3>2, <3>4, ShipmentsAssumption DEF Visits
      <4>2. s[1] = "delivery" => <<"pickup", s[2]>> \in visited
        <5> SUFFICES ASSUME s[1] = "delivery" PROVE <<"pickup", s[2]>> \in visited
          OBVIOUS
        <5>1. PICK p \in visited : p[1] = "pickup" /\ IdOf(p) = IdOf(s)
          BY <3>1 DEF IInv, PickupsTell
        <5>2. p = <<"pickup", p[2]>> /\ p[2] \in 1 .. Count
          BY <5>1 DEF IInv, TypeOK, Stops, Blanks, Visits
        <5>3. shipments[p[2]].id = shipments[s[2]].id
          BY <5>1, <4>1 DEF IdOf
        <5>4. DOMAIN shipments = 1 .. Count
          BY <2>1 DEF IInv, TypeOK, Count
        <5>5. p[2] = s[2]
          BY <2>1, <5>2, <5>3, <5>4, <4>1 DEF IInv, DistinctIds
        <5> QED BY <5>1, <5>2, <5>5
      <4>3. Visits' \ visited' = (Visits \ visited) \ {<<s[1], s[2]>>}
        BY <3>1, <3>2, <4>1
      <4>4. T!Serve(s[1], s[2])
        BY <3>1, <3>4, <4>1, <4>2, <4>3 DEF T!Serve
      <4> QED BY <4>1, <4>4 DEF T!Next
    <3> QED BY <3>3, <3>4 DEF Stops
  <2>2. ASSUME HandOver PROVE [T!Next]_T!vars
    <3>1. /\ shipments' = shipments /\ visited' = visited /\ visited = Stops
          /\ outcome = "none" /\ outcome' = "done"
      BY <2>2 DEF HandOver, Running
    <3>2. Visits' = Visits /\ Visits \ visited = {}
      BY <3>1, SameRequest DEF Stops
    <3> QED BY <3>1, <3>2 DEF T!HandOver, T!Next
  <2>3. ASSUME NoValidStop \/ NoVehicles PROVE [T!Next]_T!vars
    <3>1. /\ shipments' = shipments /\ visited' = visited
          /\ outcome = "none" /\ outcome' \in {"no vehicles", "deadlock"}
      BY <2>3 DEF NoValidStop, NoVehicles, Running
    <3>2. Visits' = Visits
      BY <3>1, SameRequest
    <3> QED BY <3>1, <3>2 DEF T!Refuse, T!Next
  <2>4. ASSUME UNCHANGED vars PROVE [T!Next]_T!vars
    <3>1. shipments' = shipments /\ visited' = visited /\ outcome' = outcome
      BY <2>4 DEF vars
    <3> QED BY <3>1, SameRequest DEF T!vars
  <2> QED BY <2>1, <2>2, <2>3, <2>4 DEF Next
<1> QED BY <1>1, <1>2, Invariance, PTL DEF Spec, ImplementsTour, T!Spec

(* The distance reported is the length of the way through the steps that   *)
(* were driven, in their order; it is a number unless the way to the end   *)
(* of the vehicle has none.                                                *)
THEOREM DistanceIsAlwaysDriven == Spec => []DistanceIsDriven
<1>1. IInv /\ DistanceTells => DistanceIsDriven
  BY DEF IInv, DistanceTells, DistanceIsDriven
<1> QED BY <1>1, DistanceInit, DistanceStep, Invariance, PTL DEF Spec

-----------------------------------------------------------------------------
(* Stops have different indices in the slice.                              *)
LEMMA PositionsDiffer ==
    ASSUME Count \in Nat, NEW s \in Stops, NEW t \in Stops
    PROVE  /\ Position(s) \in Nat
           /\ Position(s) = Position(t) => s = t
<1>1. \A u \in Stops : /\ u = <<u[1], u[2]>>
                       /\ \/ u[1] = "blank" /\ u[2] \in 1 .. 2 * Count
                          \/ u[1] \in {"pickup", "delivery"} /\ u[2] \in 1 .. Count
  BY DEF Stops, Blanks, Visits
<1>2. \A u \in Stops :
         /\ u[1] = "blank" => Position(u) = u[2] - 1 /\ Position(u) \in 0 .. 2 * Count - 1
         /\ u[1] = "pickup" => Position(u) = 2 * Count + 2 * (u[2] - 1)
         /\ u[1] = "delivery" => Position(u) = 2 * Count + 2 * (u[2] - 1) + 1
  BY <1>1 DEF Position
<1>3. Position(s) \in Nat
  BY <1>1, <1>2
<1>4. Position(s) = Position(t) => s[1] = t[1] /\ s[2] = t[2]
  <2>1. /\ s[1] \in {"blank", "pickup", "delivery"} /\ s[2] \in Nat \ {0}
        /\ t[1] \in {"blank", "pickup", "delivery"} /\ t[2] \in Nat \ {0}
    BY <1>1
  <2> QED BY <1>2, <2>1
<1> QED BY <1>1, <1>3, <1>4

(* The greedy scan always decides: of the candidates exactly one is the    *)
(* first of the nearest.  So the loop has a next step until it returns.    *)
THEOREM ScansAlwaysDecide == Spec => []ScanDecides
<1>1. ASSUME IInv, outcome = "none", vehicle # Null, Candidates # {}
      PROVE  \E s \in Candidates : /\ Nearest(s)
                                   /\ \A t \in Candidates : Nearest(t) => t = s
  <2>1. Count \in Nat /\ Candidates \subseteq Stops
    BY <1>1, ShipmentsAssumption DEF IInv, Candidates, Admissible
  <2>2. \A s \in Candidates : To(s) \in Nat /\ Position(s) \in Nat
    <3>1. \A s \in Candidates : To(s) \in Nat \cup {NaN} /\ To(s) # NaN
      BY <1>1, <2>1, StopsTyped, DistancesTyped DEF To, IInv, TypeOK, Candidates
    <3> QED BY <2>1, <3>1, PositionsDiffer
  <2> DEFINE D == {To(s) : s \in Candidates}
  <2>3. PICK d \in D : \A e \in D : ~(e < d)
    <3>1. D \subseteq Nat /\ D # {}
      BY <1>1, <2>2
    <3> HIDE DEF D
    <3> QED BY <3>1, LeastElement
  <2> DEFINE P == {Position(s) : s \in {t \in Candidates : To(t) = d}}
  <2>4. PICK p \in P : \A q \in P : ~(q < p)
    <3>1. P \subseteq Nat /\ P # {}
      BY <2>2, <2>3
    <3> HIDE DEF P
    <3> QED BY <3>1, LeastElement
  <2>5. PICK s \in Candidates : To(s) = d /\ Position(s) = p
    BY <2>4
  <2>6. Nearest(s)
    <3> SUFFICES ASSUME NEW t \in Candidates
                 PROVE  \/ To(s) < To(t)
                        \/ To(s) = To(t) /\ Position(s) <= Position(t)
      BY DEF Nearest
    <3>1. To(t) \in D /\ ~(To(t) < To(s))
      BY <2>3, <2>5
    <3>2. To(t) = To(s) => ~(Position(t) < Position(s))
      BY <2>4, <2>5
    <3> QED BY <2>2, <3>1, <3>2
  <2>7. ASSUME NEW t \in Candidates, Nearest(t) PROVE t = s
    <3>1. Position(t) = Position(s)
      BY <2>2, <2>6, <2>7 DEF Nearest
    <3> QED BY <2>1, <3>1, PositionsDiffer
  <2> QED BY <2>6, <2>7
<1>2. IInv => ScanDecides
  BY <1>1 DEF ScanDecides
<1> QED BY <1>2, Invariance, PTL

(* Every turn that does not end the loop uses up one of the finitely many  *)
(* stops, blank ones included: with ScansAlwaysDecide, all that            *)
(* EveryCallReturns needs besides fairness.                                *)
THEOREM EveryTurnUsesUp == Spec => TurnsUseUp
<1>1. ASSUME IInv, [Next]_vars
      PROVE  [outcome = "none" /\ outcome' = "none" =>
                 StopsLeft' \subseteq StopsLeft /\ StopsLeft' # StopsLeft]_vars
  <2> SUFFICES ASSUME Next, outcome = "none", outcome' = "none"
               PROVE  StopsLeft' \subseteq StopsLeft /\ StopsLeft' # StopsLeft
    BY <1>1
  <2>1. PICK s \in Stops : Visit(s)
    BY DEF Next, NoVehicles, NoValidStop, HandOver
  <2>2. Stops' = Stops
    BY <2>1 DEF Visit, Stops, Blanks, Visits, Count
  <2>3. s \notin visited /\ visited' = visited \cup {s}
    BY <2>1 DEF Visit, Candidates, Admissible
  <2> QED
    BY <2>1, <2>2, <2>3 DEF StopsLeft
<1> QED
  BY <1>1, Invariance, PTL DEF Spec, TurnsUseUp

-----------------------------------------------------------------------------
(* The other client, GoogleCloudClient, takes the same shipments.          *)

(* Its routes start empty, one for each row of a vehicle.                  *)
LEMMA RowsTyped ==
    ASSUME NEW S, NEW labels \in Seq(S)
    PROVE  /\ Rows(labels) \in Seq(S \cup {Null})
           /\ Len(Rows(labels)) = Len(labels) + 1
           /\ DOMAIN Rows(labels) = 1 .. Len(labels) + 1
           /\ Rows(labels)[1] = Null
           /\ \A i \in 1 .. Len(labels) : Rows(labels)[i + 1] = labels[i]
<1>1. labels \in Seq(S \cup {Null}) /\ <<Null>> \in Seq(S \cup {Null})
  OBVIOUS
<1>2. <<Null>> \o labels \in Seq(S \cup {Null})
  BY <1>1
<1>3. Len(<<Null>> \o labels) = Len(labels) + 1
  BY <1>1
<1>4. (<<Null>> \o labels)[1] = Null
  BY <1>1
<1>5. \A i \in 1 .. Len(labels) : (<<Null>> \o labels)[i + 1] = labels[i]
  BY <1>1
<1> QED BY <1>2, <1>3, <1>4, <1>5 DEF Rows

LEMMA LabelsTyped ==
    ASSUME shipments \in Seq(Shipment)
    PROVE  [i \in DOMAIN shipments |-> shipments[i].id] \in Seq(Ids)
<1>1. /\ Len(shipments) \in Nat /\ DOMAIN shipments = 1 .. Len(shipments)
      /\ \A i \in 1 .. Len(shipments) : shipments[i] \in Shipment
  OBVIOUS
<1>2. \A i \in 1 .. Len(shipments) : shipments[i].id \in Ids
  BY <1>1 DEF Shipment
<1> QED BY <1>1, <1>2

LEMMA GoogleInitInv ==
    ASSUME GoogleInit
    PROVE  GoogleIInv
<1>1. shipments \in Seq(Shipment)
  BY DEF GoogleInit, UpTo
<1>2. vehicles \in Seq(VehicleIds)
  BY DEF GoogleInit, UpTo
<1>3. routes = <<>> /\ results = <<>> /\ stage = "called"
      /\ request = [shipments |-> <<>>, vehicles |-> <<>>]
  BY DEF GoogleInit
<1>4. GoogleTypeOK
  BY <1>1, <1>2, <1>3 DEF GoogleTypeOK
<1> QED BY <1>3, <1>4 DEF GoogleIInv, RowsAreLabelled, RoutesPickUpFirst,
                          VisitsAreMadeOnce, ResultsAreRoutes

LEMMA GoogleSendInv ==
    ASSUME GoogleIInv, Send
    PROVE  GoogleIInv'
<1> DEFINE ids == [i \in DOMAIN shipments |-> shipments[i].id]
<1>1. /\ shipments' = shipments /\ vehicles' = vehicles /\ results' = results
      /\ stage = "called" /\ stage' = "sent"
      /\ request' = [shipments |-> Rows(ids), vehicles |-> Rows(vehicles)]
      /\ routes' = [v \in DOMAIN request'.vehicles |-> <<>>]
  BY DEF Send
<1>2. ids \in Seq(Ids) /\ vehicles \in Seq(VehicleIds)
  BY LabelsTyped DEF GoogleIInv, GoogleTypeOK
<1>3. /\ request'.shipments \in Seq(Ids \cup {Null})
      /\ request'.vehicles \in Seq(VehicleIds \cup {Null})
      /\ DOMAIN request'.vehicles = 1 .. Len(vehicles) + 1
  <2> HIDE DEF ids
  <2> QED BY <1>1, <1>2, RowsTyped
<1>4. routes' \in Seq(Seq(RouteVisit)) /\ DOMAIN routes' = DOMAIN request'.vehicles
  <2>1. Len(vehicles) + 1 \in Nat /\ <<>> \in Seq(RouteVisit)
    BY <1>2
  <2> QED BY <1>1, <1>3, <2>1
<1>5. GoogleTypeOK'
  BY <1>1, <1>3, <1>4 DEF GoogleIInv, GoogleTypeOK
<1>6. RowsAreLabelled'
  BY <1>1, <1>4 DEF RowsAreLabelled
<1>7. RoutesPickUpFirst'
  BY <1>1 DEF RoutesPickUpFirst
<1>8. VisitsAreMadeOnce'
  BY <1>1 DEF VisitsAreMadeOnce
<1> QED BY <1>1, <1>5, <1>6, <1>7, <1>8 DEF GoogleIInv, ResultsAreRoutes

(* A visit more at the end of one route.                                   *)
LEMMA GoogleServeInv ==
    ASSUME GoogleIInv, NEW v \in DOMAIN routes, NEW row \in DOMAIN request.shipments,
           NEW kind \in Kinds, Serve(v, row, kind)
    PROVE  GoogleIInv'
<1> DEFINE visit == [row |-> row, kind |-> kind]
<1>1. /\ stage = "sent" /\ UNCHANGED <<shipments, vehicles, request, results, stage>>
      /\ kind = "pickup" => \A w \in DOMAIN routes : ~Made(w, row, "pickup")
      /\ kind = "delivery" => Made(v, row, "pickup") /\ ~Made(v, row, "delivery")
      /\ routes' = [routes EXCEPT ![v] = Append(@, visit)]
  BY DEF Serve, Kinds
<1>2. /\ routes \in Seq(Seq(RouteVisit)) /\ routes[v] \in Seq(RouteVisit)
      /\ request.shipments \in Seq(Ids \cup {Null})
  BY DEF GoogleIInv, GoogleTypeOK
<1>3. visit \in RouteVisit
  BY <1>2 DEF RouteVisit
<1>4. /\ DOMAIN routes' = DOMAIN routes
      /\ \A w \in DOMAIN routes : w # v => routes'[w] = routes[w]
      /\ routes'[v] = Append(routes[v], visit)
      /\ routes' \in Seq(Seq(RouteVisit))
  <2>1. Append(routes[v], visit) \in Seq(RouteVisit)
    BY <1>2, <1>3
  <2> HIDE DEF visit
  <2> QED BY <1>1, <1>2, <2>1
<1>5. /\ DOMAIN routes[v] = 1 .. Len(routes[v]) /\ Len(routes[v]) \in Nat
      /\ DOMAIN routes'[v] = 1 .. Len(routes[v]) + 1
      /\ \A i \in DOMAIN routes[v] : routes'[v][i] = routes[v][i]
      /\ routes'[v][Len(routes[v]) + 1] = visit
  BY <1>2, <1>3, <1>4
<1>6. GoogleTypeOK' /\ RowsAreLabelled' /\ ResultsAreRoutes'
  BY <1>1, <1>4 DEF GoogleIInv, GoogleTypeOK, RowsAreLabelled, ResultsAreRoutes
<1>7. ASSUME NEW w \in DOMAIN routes', NEW j \in DOMAIN routes'[w]
      PROVE  /\ routes'[w][j].row \in DOMAIN request'.shipments
             /\ routes'[w][j].kind = "delivery" =>
                   \E i \in 1 .. j - 1 : /\ routes'[w][i].kind = "pickup"
                                         /\ routes'[w][i].row = routes'[w][j].row
  <2>1. CASE w # v
    BY <1>1, <1>4, <1>7, <2>1 DEF GoogleIInv, RoutesPickUpFirst
  <2>2. CASE w = v /\ j \in DOMAIN routes[v]
    <3>1. \A i \in 1 .. j - 1 : i \in DOMAIN routes[v]
      BY <1>5, <2>2
    <3> QED BY <1>1, <1>5, <2>2, <3>1 DEF GoogleIInv, RoutesPickUpFirst
  <2>3. CASE w = v /\ j = Len(routes[v]) + 1
    <3>1. routes'[w][j].row = row /\ routes'[w][j].kind = kind
      BY <1>5, <2>3
    <3>2. row \in DOMAIN request'.shipments
      BY <1>1
    <3>3. ASSUME kind = "delivery"
          PROVE  \E i \in 1 .. j - 1 : /\ routes'[w][i].kind = "pickup"
                                       /\ routes'[w][i].row = row
      <4>1. PICK i \in DOMAIN routes[v] : routes[v][i] = [row |-> row, kind |-> "pickup"]
        BY <1>1, <3>3 DEF Made
      <4>2. i \in 1 .. j - 1 /\ routes'[w][i] = [row |-> row, kind |-> "pickup"]
        BY <1>5, <2>3, <4>1
      <4> QED BY <4>2
    <3> HIDE DEF visit
    <3> QED BY <3>1, <3>2, <3>3
  <2>4. w = v => j \in DOMAIN routes[v] \/ j = Len(routes[v]) + 1
    BY <1>5
  <2> QED BY <2>1, <2>2, <2>3, <2>4
<1>8. ASSUME NEW w \in DOMAIN routes, NEW j \in DOMAIN routes[w] PROVE routes[w][j] # visit
  <2> SUFFICES ASSUME routes[w][j] = visit PROVE FALSE
    OBVIOUS
  <2>1. Made(w, row, kind)
    BY DEF Made
  <2>2. kind = "delivery" /\ w # v
    BY <1>1, <2>1 DEF Kinds
  <2>3. PICK i \in DOMAIN routes[v] : routes[v][i] = [row |-> row, kind |-> "pickup"]
    BY <1>1, <2>2 DEF Made
  <2>4. PICK k \in 1 .. j - 1 : routes[w][k].kind = "pickup" /\ routes[w][k].row = row
    BY <2>2 DEF GoogleIInv, RoutesPickUpFirst
  <2>5. routes[w] \in Seq(RouteVisit)
    BY DEF GoogleIInv, GoogleTypeOK
  <2>6. k \in DOMAIN routes[w] /\ routes[w][k] \in RouteVisit
    BY <2>4, <2>5
  <2>7. routes[w][k] = [row |-> row, kind |-> "pickup"]
    BY <2>4, <2>6 DEF RouteVisit
  <2> QED BY <2>2, <2>3, <2>6, <2>7 DEF GoogleIInv, VisitsAreMadeOnce
<1>9. VisitsAreMadeOnce'
  <2> SUFFICES ASSUME NEW u \in DOMAIN routes', NEW w \in DOMAIN routes',
                      NEW i \in DOMAIN routes'[u], NEW j \in DOMAIN routes'[w],
                      routes'[u][i] = routes'[w][j]
               PROVE  u = w /\ i = j
    BY DEF VisitsAreMadeOnce
  <2> HIDE DEF visit
  <2>1. \A k \in DOMAIN routes'[v] : k \in DOMAIN routes[v] \/ k = Len(routes[v]) + 1
    BY <1>5
  <2>2. \A x \in DOMAIN routes : \A k \in DOMAIN routes'[x] :
           \/ k \in DOMAIN routes[x] /\ routes'[x][k] = routes[x][k]
           \/ x = v /\ k = Len(routes[v]) + 1 /\ routes'[x][k] = visit
    <3> SUFFICES ASSUME NEW x \in DOMAIN routes, NEW k \in DOMAIN routes'[x]
                 PROVE  \/ k \in DOMAIN routes[x] /\ routes'[x][k] = routes[x][k]
                        \/ x = v /\ k = Len(routes[v]) + 1 /\ routes'[x][k] = visit
      OBVIOUS
    <3>1. CASE x = v
      BY <1>5, <2>1, <3>1
    <3>2. CASE x # v
      BY <1>4, <3>2
    <3> QED BY <3>1, <3>2
  <2>3. u \in DOMAIN routes /\ w \in DOMAIN routes
    BY <1>4
  <2>4. CASE i \in DOMAIN routes[u] /\ j \in DOMAIN routes[w]
    <3>1. routes'[u][i] = routes[u][i] /\ routes'[w][j] = routes[w][j]
      BY <1>4, <1>5, <2>3, <2>4
    <3>2. routes[u][i] = routes[w][j]
      BY <3>1
    <3>3. VisitsAreMadeOnce
      BY DEF GoogleIInv
    <3> QED BY <2>3, <2>4, <3>2, <3>3 DEF VisitsAreMadeOnce
  <2>5. CASE i \notin DOMAIN routes[u] \/ j \notin DOMAIN routes[w]
    <3>1. CASE i \notin DOMAIN routes[u]
      <4>1. u = v /\ i = Len(routes[v]) + 1 /\ routes'[w][j] = visit
        BY <2>2, <2>3, <3>1
      <4> QED BY <1>8, <2>2, <2>3, <4>1
    <3>2. CASE j \notin DOMAIN routes[w]
      <4>1. w = v /\ j = Len(routes[v]) + 1 /\ routes'[u][i] = visit
        BY <2>2, <2>3, <3>2
      <4> QED BY <1>8, <2>2, <2>3, <4>1
    <3> QED BY <2>5, <3>1, <3>2
  <2> QED BY <2>4, <2>5
<1> QED BY <1>6, <1>7, <1>9 DEF GoogleIInv, RoutesPickUpFirst

(* A bounded set of numbers that is not empty has a greatest element.      *)
LEMMA GreatestElement ==
    ASSUME NEW n \in Nat, NEW M, M \subseteq 1 .. n, M # {}
    PROVE  \E x \in M : \A y \in M : y <= x
<1> DEFINE U == {n - y : y \in M}
<1>1. U \subseteq Nat /\ U # {}
  <2>1. \A y \in M : n - y \in Nat
    OBVIOUS
  <2>2. PICK y \in M : TRUE
    OBVIOUS
  <2>3. n - y \in U
    OBVIOUS
  <2> QED BY <2>1, <2>3
<1>2. PICK u \in U : \A w \in U : ~(w < u)
  <2> HIDE DEF U
  <2> QED BY <1>1, LeastElement
<1>3. PICK x \in M : u = n - x
  OBVIOUS
<1>4. \A y \in M : n - y \in U
  OBVIOUS
<1>5. \A y \in M : y \in 1 .. n
  OBVIOUS
<1> HIDE DEF U
<1> QED BY <1>2, <1>3, <1>4, <1>5

(* A step has an id and a place of the request, or none.                   *)
LEMMA StepTyped ==
    ASSUME GoogleTypeOK, NEW visit \in RouteVisit
    PROVE  ReportedStep(visit) \in RouteStep
<1> DEFINE id == ShipmentId(visit.row)
           same == {j \in DOMAIN shipments : shipments[j].id = id}
           last == CHOOSE j \in same : \A i \in same : i <= j
<1>1. \A j \in DOMAIN shipments : /\ shipments[j].id \in Ids
                                  /\ shipments[j].pickup \in Points
                                  /\ shipments[j].delivery \in Points
  <2>1. \A x \in Shipment : x.id \in Ids /\ x.pickup \in Points /\ x.delivery \in Points
    BY DEF Shipment
  <2>2. \A j \in DOMAIN shipments : shipments[j] \in Shipment
    BY DEF GoogleTypeOK
  <2> QED BY <2>1, <2>2
<1>2. id \in Ids \cup {Null}
  BY <1>1 DEF ShipmentId
<1>3. same # {} => last \in DOMAIN shipments
  <2> SUFFICES ASSUME same # {} PROVE last \in same
    OBVIOUS
  <2>1. Len(shipments) \in Nat /\ same \subseteq 1 .. Len(shipments)
    BY DEF GoogleTypeOK
  <2> HIDE DEF same
  <2>2. \E j \in same : \A i \in same : i <= j
    BY <2>1, GreatestElement
  <2> QED BY <2>2
<1>4. visit.kind \in {"pickup", "delivery"}
  BY DEF RouteVisit, Kinds
<1>5. PlaceOf(visit.row, visit.kind) =
         IF same = {} THEN Zero
         ELSE IF visit.kind = "pickup" THEN shipments[last].pickup
         ELSE Turned(shipments[last].delivery)
  BY DEF PlaceOf
<1> HIDE DEF same, last, id
<1>6. PlaceOf(visit.row, visit.kind) \in Places
  <2>1. CASE same = {}
    BY <1>5, <2>1 DEF Places
  <2>2. CASE same # {}
    BY <1>1, <1>3, <1>5, <2>2 DEF Places
  <2> QED BY <2>1, <2>2
<1> QED BY <1>2, <1>4, <1>6 DEF ReportedStep, RouteStep, Kinds, id

LEMMA StepsTyped ==
    ASSUME GoogleTypeOK, NEW route \in Seq(RouteVisit)
    PROVE  StepsOf(route) \in Seq(RouteStep)
<1>1. /\ Len(route) \in Nat /\ DOMAIN route = 1 .. Len(route)
      /\ \A i \in 1 .. Len(route) : route[i] \in RouteVisit
  OBVIOUS
<1>2. \A i \in 1 .. Len(route) : ReportedStep(route[i]) \in RouteStep
  BY <1>1, StepTyped
<1> QED BY <1>1, <1>2 DEF StepsOf

LEMMA GoogleAnswerInv ==
    ASSUME GoogleIInv, Answer
    PROVE  GoogleIInv'
<1> DEFINE out(v) == [vehicle |-> VehicleId(v), steps |-> StepsOf(routes[v])]
<1>1. /\ stage = "sent" /\ stage' = "done"
      /\ UNCHANGED <<shipments, vehicles, request, routes>>
      /\ results' = [v \in DOMAIN routes |-> out(v)]
  BY DEF Answer
<1>2. /\ DOMAIN routes = 1 .. Len(routes) /\ Len(routes) \in Nat
      /\ \A v \in DOMAIN routes : routes[v] \in Seq(RouteVisit)
  BY DEF GoogleIInv, GoogleTypeOK
<1>3. \A v \in DOMAIN routes : out(v) \in Output
  <2> SUFFICES ASSUME NEW v \in DOMAIN routes PROVE out(v) \in Output
    OBVIOUS
  <2>1. VehicleId(v) \in VehicleIds \cup {Null}
    BY DEF VehicleId, GoogleIInv, GoogleTypeOK
  <2>2. StepsOf(routes[v]) \in Seq(RouteStep)
    BY <1>2, StepsTyped DEF GoogleIInv
  <2> QED BY <2>1, <2>2 DEF Output
<1>4. results' \in Seq(Output)
  <2> HIDE DEF out
  <2> QED BY <1>1, <1>2, <1>3
<1>5. GoogleTypeOK' /\ RowsAreLabelled' /\ RoutesPickUpFirst'
  BY <1>1, <1>4 DEF GoogleIInv, GoogleTypeOK, RowsAreLabelled, RoutesPickUpFirst
<1>6. VisitsAreMadeOnce'
  BY <1>1 DEF GoogleIInv, VisitsAreMadeOnce
<1>7. \A v : VehicleId(v)' = VehicleId(v)
  BY <1>1 DEF VehicleId
<1>8. \A visit : ReportedStep(visit)' = ReportedStep(visit)
  BY <1>1 DEF ReportedStep, ShipmentId, PlaceOf
<1>9. \A v : StepsOf(routes[v])' = StepsOf(routes[v])
  BY <1>1, <1>8 DEF StepsOf
<1>10. ResultsAreRoutes'
  BY <1>1, <1>7, <1>9 DEF ResultsAreRoutes
<1> QED BY <1>5, <1>6, <1>10 DEF GoogleIInv

LEMMA GoogleNextInv ==
    GoogleIInv /\ [GoogleNext]_googleVars => GoogleIInv'
<1> SUFFICES ASSUME GoogleIInv, [GoogleNext]_googleVars
             PROVE  GoogleIInv'
  OBVIOUS
<1>1. CASE Fails \/ UNCHANGED googleVars
  <2>1. /\ UNCHANGED <<shipments, vehicles, request, routes, results>>
        /\ stage' = stage \/ (stage \in {"called", "sent"} /\ stage' = "failed")
    BY <1>1 DEF Fails, googleVars
  <2>2. GoogleTypeOK' /\ RowsAreLabelled'
    BY <2>1 DEF GoogleIInv, GoogleTypeOK, RowsAreLabelled
  <2>3. RoutesPickUpFirst'
    BY <2>1 DEF GoogleIInv, RoutesPickUpFirst
  <2>4. VisitsAreMadeOnce'
    BY <2>1 DEF GoogleIInv, VisitsAreMadeOnce
  <2>5. ResultsAreRoutes'
    <3>1. CASE stage' = "failed"
      BY <2>1, <3>1 DEF GoogleIInv, ResultsAreRoutes
    <3>2. CASE stage' = stage
      <4>1. \A v : VehicleId(v)' = VehicleId(v)
        BY <2>1 DEF VehicleId
      <4>2. \A v : StepsOf(routes[v])' = StepsOf(routes[v])
        BY <2>1 DEF StepsOf, ReportedStep, ShipmentId, PlaceOf
      <4> QED BY <2>1, <3>2, <4>1, <4>2 DEF GoogleIInv, ResultsAreRoutes
    <3> QED BY <2>1, <3>1, <3>2
  <2> QED BY <2>2, <2>3, <2>4, <2>5 DEF GoogleIInv
<1> QED BY <1>1, GoogleSendInv, GoogleServeInv, GoogleAnswerInv DEF GoogleNext

-----------------------------------------------------------------------------
(* The call's invariant holds in every behaviour (GoogleCloudClient).      *)
THEOREM GoogleInvariance ==
    GoogleSpec => []GoogleIInv
BY GoogleInitInv, GoogleNextInv, PTL DEF GoogleSpec

(* Every reachable state of a call to Google is well typed.                *)
THEOREM GoogleTypeCorrectness ==
    GoogleSpec => []GoogleTypeOK
<1>1. GoogleIInv => GoogleTypeOK
  BY DEF GoogleIInv
<1> QED BY <1>1, GoogleInvariance, PTL

(* However the ids were shifted, and also when they repeat: under the ids  *)
(* that are reported nothing is delivered before it was picked up.         *)
THEOREM PrecedenceAlwaysSurvives ==
    GoogleSpec => []PrecedenceSurvives
<1>1. ASSUME GoogleIInv PROVE PrecedenceSurvives
  <2> SUFFICES ASSUME NEW r \in DOMAIN results, NEW j \in DOMAIN results[r].steps,
                      results[r].steps[j].kind = "delivery"
               PROVE  \E i \in 1 .. j - 1 : /\ results[r].steps[i].kind = "pickup"
                                            /\ results[r].steps[i].id = results[r].steps[j].id
    BY DEF PrecedenceSurvives
  <2>1. results = [v \in DOMAIN routes |-> [vehicle |-> VehicleId(v),
                                            steps |-> StepsOf(routes[v])]]
    BY <1>1 DEF GoogleIInv, ResultsAreRoutes
  <2>2. r \in DOMAIN routes /\ results[r].steps = StepsOf(routes[r])
    BY <2>1
  <2>3. /\ DOMAIN results[r].steps = DOMAIN routes[r]
        /\ \A i \in DOMAIN routes[r] :
              /\ results[r].steps[i].kind = routes[r][i].kind
              /\ results[r].steps[i].id = ShipmentId(routes[r][i].row)
    BY <2>2 DEF StepsOf, ReportedStep
  <2>4. routes[r] \in Seq(RouteVisit)
    BY <1>1, <2>2 DEF GoogleIInv, GoogleTypeOK
  <2>5. PICK i \in 1 .. j - 1 : /\ routes[r][i].kind = "pickup"
                                /\ routes[r][i].row = routes[r][j].row
    BY <1>1, <2>2, <2>3 DEF GoogleIInv, RoutesPickUpFirst
  <2>6. i \in DOMAIN routes[r]
    BY <2>3, <2>4, <2>5
  <2> QED BY <2>3, <2>5, <2>6
<1> QED BY <1>1, GoogleInvariance, PTL

(* Two rows of the request never come back under one id: those of the      *)
(* caller's shipments differ, and only the last row has the empty one.     *)
LEMMA RowsKeepApart ==
    ASSUME GoogleIInv, DistinctIds, stage = "done",
           NEW m \in DOMAIN request.shipments, NEW n \in DOMAIN request.shipments,
           ShipmentId(m) = ShipmentId(n)
    PROVE  m = n
<1> DEFINE ids == [i \in DOMAIN shipments |-> shipments[i].id]
<1>1. /\ Len(shipments) \in Nat /\ DOMAIN shipments = 1 .. Len(shipments)
      /\ \A i \in DOMAIN shipments : shipments[i] \in Shipment
  BY DEF GoogleIInv, GoogleTypeOK
<1>2. \A i \in DOMAIN shipments : shipments[i].id # Null
  BY <1>1, LabelsAssumption DEF Shipment
<1>3. DOMAIN request.shipments = 1 .. Len(shipments) + 1
  <2>1. ids \in Seq(Ids) /\ Len(ids) = Len(shipments)
    BY <1>1, LabelsTyped DEF GoogleIInv, GoogleTypeOK
  <2>2. request.shipments = Rows(ids)
    BY DEF GoogleIInv, RowsAreLabelled
  <2> HIDE DEF ids
  <2> QED BY <2>1, <2>2, RowsTyped
<1>4. m \in DOMAIN shipments <=> n \in DOMAIN shipments
  BY <1>2 DEF ShipmentId
<1>5. CASE m \in DOMAIN shipments
  BY <1>4, <1>5 DEF ShipmentId, DistinctIds
<1>6. CASE m \notin DOMAIN shipments
  BY <1>1, <1>3, <1>4, <1>6
<1> QED BY <1>5, <1>6

(* When the ids of the request differ, no id is reported as picked up or   *)
(* delivered twice, whatever routes Google answers with: the shift of the  *)
(* ids by one row does not make two rows one.                              *)
THEOREM NothingIsEverServedTwice ==
    GoogleSpec => []NothingIsServedTwice
<1>1. ASSUME GoogleIInv PROVE NothingIsServedTwice
  <2> SUFFICES ASSUME DistinctIds,
                      NEW r \in DOMAIN results, NEW q \in DOMAIN results,
                      NEW i \in DOMAIN results[r].steps, NEW j \in DOMAIN results[q].steps,
                      results[r].steps[i].id = results[q].steps[j].id,
                      results[r].steps[i].kind = results[q].steps[j].kind
               PROVE  r = q /\ i = j
    BY DEF NothingIsServedTwice
  <2>1. stage = "done"
    BY <1>1 DEF GoogleIInv, ResultsAreRoutes
  <2>2. results = [v \in DOMAIN routes |-> [vehicle |-> VehicleId(v),
                                            steps |-> StepsOf(routes[v])]]
    BY <1>1, <2>1 DEF GoogleIInv, ResultsAreRoutes
  <2>3. \A v \in DOMAIN results :
           /\ v \in DOMAIN routes /\ DOMAIN results[v].steps = DOMAIN routes[v]
           /\ \A k \in DOMAIN routes[v] :
                 /\ results[v].steps[k].kind = routes[v][k].kind
                 /\ results[v].steps[k].id = ShipmentId(routes[v][k].row)
    BY <2>2 DEF StepsOf, ReportedStep
  <2>4. /\ routes[r][i].row \in DOMAIN request.shipments
        /\ routes[q][j].row \in DOMAIN request.shipments
    BY <1>1, <2>3 DEF GoogleIInv, RoutesPickUpFirst
  <2>5. ShipmentId(routes[r][i].row) = ShipmentId(routes[q][j].row)
    BY <2>3
  <2>6. routes[r][i].row = routes[q][j].row /\ routes[r][i].kind = routes[q][j].kind
    BY <1>1, <2>1, <2>3, <2>4, <2>5, RowsKeepApart
  <2>7. routes[r][i] \in RouteVisit /\ routes[q][j] \in RouteVisit
    BY <1>1, <2>3 DEF GoogleIInv, GoogleTypeOK
  <2>8. routes[r][i] = routes[q][j]
    BY <2>6, <2>7 DEF RouteVisit
  <2> QED BY <1>1, <2>3, <2>8 DEF GoogleIInv, VisitsAreMadeOnce
<1> QED BY <1>1, GoogleInvariance, PTL

=============================================================================
