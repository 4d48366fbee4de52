---------------------------- MODULE ProviderStore ---------------------------
(***************************************************************************)
(* apps/broker: the four tables of a provider, the store that fills them   *)
(* and the generated statements on them.                                   *)
(*                                                                         *)
(* Create writes three rows in the transaction it finds in its context:    *)
(* a row is seen by others when the transaction commits, so the stage of a *)
(* call says which rows it holds back.  Updates and deletes are single     *)
(* statements that commit by themselves; those whose WHERE finds no row,   *)
(* and those that fail, change nothing and are no steps here.              *)
(*                                                                         *)
(* Ids are UUIDs of version 7, drawn in increasing order and never twice,  *)
(* for all tables from one generator.                                      *)
(***************************************************************************)
EXTENDS Integers, FiniteSets

CONSTANTS
    Calls,      \* calls of Create
    MaxIds,     \* bound: how many ids are drawn
    Names,
    MaxAsked,   \* bound: the largest limit asked for, an int of 64 bits
    Half,       \* half the range of an int32, 2^31 in the code
    Null

ASSUME MaxIdsAssumption == MaxIds \in Nat
ASSUME AskedAssumption  == MaxAsked \in Nat
ASSUME HalfAssumption   == Half \in Nat \ {0}

VARIABLES
    drawn,      \* number of ids drawn
    providers,
    limits,     \* provider_constraints
    features,   \* provider_features
    methods,    \* provider_access_methods
    call        \* Create, per call

vars   == <<drawn, providers, limits, features, methods, call>>
tables == <<providers, limits, features, methods>>

-----------------------------------------------------------------------------
Ids    == 1 .. MaxIds
States == {"active", "deleted"}             \* deleted_at IS NULL, or set
Modes  == {"sync", "async"}
Kinds  == {"http", "protocol_buffers"}
Int32s == -Half .. Half - 1

Provider == [name : Names, state : States]
Limit    == [provider : Ids, max : Int32s]
Feature  == [provider : Ids, mode : Modes]
Method   == [provider : Ids, kind : Kinds, state : States]

ASSUME NullAssumption ==
    Null \notin Int \cup Provider \cup Limit \cup Feature \cup Method
                 \cup [name : Names, state : States, max : Int32s, mode : Modes]

Table(R)   == [Ids -> R \cup {Null}]
Empty      == [i \in Ids |-> Null]
IdsIn(t)   == {i \in Ids : t[i] # Null}

(* A call of Create: its next statement and the ids it drew.  Its input    *)
(* is read by nobody else and chosen where it becomes visible.             *)
Stages == {"ready", "provider", "limit", "feature", "commit", "created", "failed"}
Open   == {"provider", "limit", "feature", "commit"}
Call   == [stage : Stages, base : 0 .. MaxIds]

Row(c)       == call[c].base + 1            \* the ids NewProvider,
LimitId(c)   == call[c].base + 2            \* NewProviderConstraint
FeatureId(c) == call[c].base + 3            \* and NewProviderFeature drew

(* The conversion int32(n) keeps the low bits.                             *)
AsInt32(n) == ((n + Half) % (2 * Half)) - Half

-----------------------------------------------------------------------------
(* Statements that read.                                                   *)
GetAllProviders    == IdsIn(providers)
GetActiveProviders == {p \in GetAllProviders : providers[p].state = "active"}

(* The rows a LIMIT 1 without an order may return.                         *)
GetProviderConstraintByProviderID(p) == {i \in IdsIn(limits) : limits[i].provider = p}
FeaturesOf(p) == {i \in IdsIn(features) : features[i].provider = p}

(* A LEFT JOIN keeps a provider without rows on the right, as NULLs.       *)
OrNull(S) == IF S = {} THEN {Null} ELSE S
Joined(p) == OrNull(GetProviderConstraintByProviderID(p)) \X OrNull(FeaturesOf(p))

(* The columns are scanned into an int32 and a bool, which refuse a NULL.  *)
Scans(j) == Null \notin {j[1], j[2]}

Details(p, j) == [name |-> providers[p].name, state |-> providers[p].state,
                  max |-> limits[j[1]].max, mode |-> features[j[2]].mode]
GetProviderDetailsByProviderID(p) ==
    LET j == CHOOSE x \in Joined(p) : TRUE
    IN  IF providers[p] # Null /\ Scans(j) THEN Details(p, j) ELSE Null

(* Comparing with NULL is never true in SQL, also inside a row.            *)
SqlEqual(a, b) == a # Null /\ b # Null /\ a = b
DeletedAt(m)   == IF methods[m].state = "active" THEN Null ELSE "a time"
GetActiveProviderAccessMethodsByProviderID(p) ==
    {m \in IdsIn(methods) : SqlEqual(methods[m].provider, p)
                         /\ SqlEqual(DeletedAt(m), Null)}

-----------------------------------------------------------------------------
Init == /\ drawn = 0
        /\ providers = Empty /\ limits = Empty /\ features = Empty /\ methods = Empty
        /\ call = [c \in Calls |-> [stage |-> "ready", base |-> 0]]

Goto(c, stage) == call' = [call EXCEPT ![c].stage = stage]

(* The body is validated and the entities are made.                        *)
NewProvider(c) ==
    /\ call[c].stage = "ready"
    /\ drawn + 3 <= MaxIds
    /\ drawn' = drawn + 3
    /\ call' = [call EXCEPT ![c] = [stage |-> "provider", base |-> drawn]]
    /\ UNCHANGED tables

InsertProvider(c) == /\ call[c].stage = "provider"
                     /\ Goto(c, "limit")
                     /\ UNCHANGED <<drawn, tables>>

CreateConstraint(c) == /\ call[c].stage = "limit"
                       /\ Goto(c, "feature")
                       /\ UNCHANGED <<drawn, tables>>

CreateFeatures(c) == /\ call[c].stage = "feature"
                     /\ Goto(c, "commit")
                     /\ UNCHANGED <<drawn, tables>>

OwnLimitRow(c, n) == [provider |-> LimitId(c), max |-> AsInt32(n)]  \* mutant: input.ID
LimitRow(c, n) == [provider |-> Row(c), max |-> AsInt32(n)]

(* `required` on a bool refuses false: only asynchronous providers come in. *)
FeatureRow(c) == [provider |-> Row(c), mode |-> "async"]

(* The three rows become visible together.                                 *)
Store(c) ==
    /\ \E n \in Names :
          providers' = [providers EXCEPT ![Row(c)] = [name |-> n, state |-> "active"]]
    /\ \E n \in 1 .. MaxAsked : limits' = [limits EXCEPT ![LimitId(c)] = LimitRow(c, n)]
    /\ features' = [features EXCEPT ![FeatureId(c)] = FeatureRow(c)]

Commit(c) == /\ call[c].stage = "commit"
             /\ Store(c)
             /\ Goto(c, "created")
             /\ UNCHANGED <<drawn, methods>>

(* The commit worked and the answer to it was lost.                        *)
CommitUnseen(c) == /\ call[c].stage = "commit"
                   /\ Store(c)
                   /\ Goto(c, "failed")
                   /\ UNCHANGED <<drawn, methods>>

FailsAsCreated(c) ==                        \* mutant: the error of COMMIT is dropped
    /\ call[c].stage \in Open
    /\ Goto(c, IF call[c].stage = "commit" THEN "created" ELSE "failed")
    /\ UNCHANGED <<drawn, tables>>

(* A statement fails, the handler panics or the process ends: rollback.    *)
Fails(c) == /\ call[c].stage \in Open
            /\ Goto(c, "failed")
            /\ UNCHANGED <<drawn, tables>>

-----------------------------------------------------------------------------
(* Single statements, by id, also on rows that are deleted.                *)
UpdateProvider(p) ==
    /\ providers[p] # Null
    /\ \E n \in Names : providers' = [providers EXCEPT ![p].name = n]
    /\ UNCHANGED <<drawn, limits, features, methods, call>>

DeleteProvider(p) ==
    /\ providers[p] # Null
    /\ providers' = [providers EXCEPT ![p].state = "deleted"]
    /\ UNCHANGED <<drawn, limits, features, methods, call>>

UpdateEveryConstraint(i) ==                 \* mutant: no WHERE
    /\ limits[i] # Null
    /\ \E n \in Int32s :
          limits' = [k \in Ids |-> IF limits[k] = Null THEN Null
                                  ELSE [limits[k] EXCEPT !.max = n]]
    /\ UNCHANGED <<drawn, providers, features, methods, call>>

UpdateProviderConstraint(i) ==
    /\ limits[i] # Null
    /\ \E n \in Int32s : limits' = [limits EXCEPT ![i].max = n]
    /\ UNCHANGED <<drawn, providers, features, methods, call>>

UpdateProviderFeature(i) ==
    /\ features[i] # Null
    /\ \E m \in Modes : features' = [features EXCEPT ![i].mode = m]
    /\ UNCHANGED <<drawn, providers, limits, methods, call>>

(* The foreign key wants a provider that is stored, deleted or not.        *)
CreateProviderAccessMethod(p) ==
    /\ providers[p] # Null
    /\ drawn < MaxIds
    /\ drawn' = drawn + 1
    /\ \E k \in Kinds :
          methods' = [methods EXCEPT ![drawn + 1] =
                         [provider |-> p, kind |-> k, state |-> "active"]]
    /\ UNCHANGED <<providers, limits, features, call>>

UpdateProviderAccessMethod(m) ==
    /\ methods[m] # Null
    /\ \E k \in Kinds : methods' = [methods EXCEPT ![m].kind = k]
    /\ UNCHANGED <<drawn, providers, limits, features, call>>

DeleteProviderAccessMethod(m) ==
    /\ methods[m] # Null
    /\ methods' = [methods EXCEPT ![m].state = "deleted"]
    /\ UNCHANGED <<drawn, providers, limits, features, call>>

-----------------------------------------------------------------------------
Create(c) == \/ NewProvider(c)
             \/ InsertProvider(c)
             \/ CreateConstraint(c)
             \/ CreateFeatures(c)
             \/ Commit(c)
             \/ CommitUnseen(c)
             \/ Fails(c)

Next == \/ \E c \in Calls : Create(c)
        \/ \E i \in Ids : \/ UpdateProvider(i)
                          \/ DeleteProvider(i)
                          \/ UpdateProviderConstraint(i)
                          \/ UpdateProviderFeature(i)
                          \/ CreateProviderAccessMethod(i)
                          \/ UpdateProviderAccessMethod(i)
                          \/ DeleteProviderAccessMethod(i)

Spec == Init /\ [][Next]_vars

-----------------------------------------------------------------------------
(* Tables and calls are well typed; what is stored fits an int32.          *)
TypeOK == /\ drawn \in 0 .. MaxIds
          /\ providers \in Table(Provider)
          /\ limits \in Table(Limit)
          /\ features \in Table(Feature)
          /\ methods \in Table(Method)
          /\ call \in [Calls -> Call]

(* The inductive invariant: calls own their ids until they commit, and     *)
(* every row belongs to a stored provider, the foreign keys of the schema. *)
StoredIds == IdsIn(providers) \cup IdsIn(limits) \cup IdsIn(features) \cup IdsIn(methods)
OwnsIds   == /\ StoredIds \subseteq 1 .. drawn
             /\ \A c \in Calls : call[c].stage \in Open =>
                   /\ call[c].base + 3 <= drawn
                   /\ \A i \in Row(c) .. FeatureId(c) : i \notin StoredIds
Disjoint  == \A c, d \in Calls :
                 c # d /\ call[c].stage \in Open /\ call[d].stage \in Open
                     => call[c].base + 3 <= call[d].base \/ call[d].base + 3 <= call[c].base
OneEach   == \A p \in IdsIn(providers) :
                 /\ \E i \in Ids : GetProviderConstraintByProviderID(p) = {i}
                 /\ \E i \in Ids : FeaturesOf(p) = {i}
Referred  == /\ \A i \in IdsIn(limits) : limits[i].provider \in IdsIn(providers)
             /\ \A i \in IdsIn(features) : features[i].provider \in IdsIn(providers)
             /\ \A i \in IdsIn(methods) : methods[i].provider \in IdsIn(providers)

(* Whoever is told that a provider was created finds it.                   *)
CreatedIsStored == \A c \in Calls :
    call[c].stage = "created" => /\ Row(c) \in IdsIn(providers)
                                 /\ LimitId(c) \in GetProviderConstraintByProviderID(Row(c))
                                 /\ FeatureId(c) \in FeaturesOf(Row(c))

IInv == /\ TypeOK
        /\ OwnsIds
        /\ Disjoint
        /\ OneEach
        /\ Referred
        /\ CreatedIsStored

(* The details of every listed provider can be read: its joins find one    *)
(* row each, so that no NULL meets the scan and LIMIT 1 drops nothing.     *)
DetailsScan == \A p \in GetAllProviders :
    /\ \A j \in Joined(p) : Scans(j)
    /\ \A j, k \in Joined(p) : j = k

(* Seen through the details query the tables are one catalogue, in which   *)
(* a provider appears whole and changes field by field.                    *)
Catalogue == [p \in Ids |-> GetProviderDetailsByProviderID(p)]
C == INSTANCE ProviderCatalogue WITH
        Limits <- Int32s, NoEntry <- Null, catalogue <- Catalogue
ImplementsCatalogue == C!Spec

(* binding:"required,min=1" on max_waypoints_per_request: what a create    *)
(* stores admits at least one waypoint.                                    *)
CreatedLimitIsPositive ==
    [][\A c \in Calls : Commit(c) => limits'[LimitId(c)].max >= 1]_vars

(* "-- name: GetActiveProviderAccessMethodsByProviderID :many": the query  *)
(* returns the access methods of a provider that are active.               *)
ActiveMethodsAreFound == \A p \in GetActiveProviders :
    GetActiveProviderAccessMethodsByProviderID(p)
        = {m \in IdsIn(methods) : methods[m].provider = p /\ methods[m].state = "active"}

=============================================================================
