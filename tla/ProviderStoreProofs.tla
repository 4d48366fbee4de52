-------------------------- MODULE ProviderStoreProofs -----------------------
(***************************************************************************)
(* The provider tables for any number of calls, ids and names and any      *)
(* width of an int32.                                                      *)
(***************************************************************************)
EXTENDS ProviderStore, TLAPS

(* Ids of an open call are ids no row has yet.                             *)
LEMMA FreshIds ==
    ASSUME IInv, NEW c \in Calls, call[c].stage \in Open
    PROVE  /\ Row(c) \in Ids /\ LimitId(c) \in Ids /\ FeatureId(c) \in Ids
           /\ Row(c) \notin StoredIds
           /\ LimitId(c) \notin StoredIds
           /\ FeatureId(c) \notin StoredIds
           /\ providers[Row(c)] = Null
           /\ limits[LimitId(c)] = Null
           /\ features[FeatureId(c)] = Null
<1>1. /\ call[c].base \in Nat /\ call[c].base + 3 <= drawn /\ drawn \in 0 .. MaxIds
      /\ \A i \in Row(c) .. FeatureId(c) : i \notin StoredIds
  BY MaxIdsAssumption DEF IInv, TypeOK, Call, OwnsIds
<1>2. /\ Row(c) \in Ids /\ LimitId(c) \in Ids /\ FeatureId(c) \in Ids
      /\ {Row(c), LimitId(c), FeatureId(c)} \subseteq Row(c) .. FeatureId(c)
  BY <1>1, MaxIdsAssumption DEF Row, LimitId, FeatureId, Ids
<1>3. /\ Row(c) \notin StoredIds /\ LimitId(c) \notin StoredIds
      /\ FeatureId(c) \notin StoredIds
  BY <1>1, <1>2
<1> QED BY <1>2, <1>3 DEF StoredIds, IdsIn

(* Statements that touch no table that has a key: what calls see.          *)
LEMMA SameTables ==
    ASSUME UNCHANGED tables
    PROVE  /\ StoredIds' = StoredIds
           /\ IdsIn(providers)' = IdsIn(providers) /\ IdsIn(limits)' = IdsIn(limits)
           /\ IdsIn(features)' = IdsIn(features) /\ IdsIn(methods)' = IdsIn(methods)
           /\ \A p : /\ GetProviderConstraintByProviderID(p)' = GetProviderConstraintByProviderID(p)
                     /\ FeaturesOf(p)' = FeaturesOf(p)
           /\ Referred' <=> Referred
           /\ OneEach' <=> OneEach
BY DEF tables, StoredIds, IdsIn, GetProviderConstraintByProviderID, FeaturesOf, Referred,
       OneEach

-----------------------------------------------------------------------------
LEMMA InitInv == Init => IInv
<1> SUFFICES ASSUME Init PROVE IInv
  OBVIOUS
<1>1. /\ \A i \in Ids : /\ providers[i] = Null /\ limits[i] = Null
                        /\ features[i] = Null /\ methods[i] = Null
      /\ \A c \in Calls : call[c].stage = "ready"
  BY DEF Init, Empty
<1>2. TypeOK
  BY MaxIdsAssumption DEF Init, Empty, TypeOK, Table, Call, Stages
<1>3. StoredIds = {}
  BY <1>1 DEF StoredIds, IdsIn
<1>4. OwnsIds /\ Disjoint /\ CreatedIsStored
  BY <1>1, <1>3 DEF OwnsIds, Disjoint, CreatedIsStored, Open
<1>5. OneEach /\ Referred
  BY <1>1 DEF OneEach, Referred, IdsIn
<1> QED BY <1>2, <1>4, <1>5 DEF IInv

LEMMA NewProviderStep ==
    ASSUME IInv, NEW c \in Calls, NewProvider(c)
    PROVE  IInv'
<1> USE DEF IInv
<1>1. /\ drawn \in Nat /\ MaxIds \in Nat /\ drawn' = drawn + 3 /\ drawn + 3 <= MaxIds
      /\ UNCHANGED tables /\ providers' = providers /\ limits' = limits
      /\ features' = features /\ methods' = methods /\ call[c].stage = "ready"
  BY MaxIdsAssumption DEF TypeOK, NewProvider, tables
<1>2. /\ call' \in [Calls -> Call]
      /\ call'[c].stage = "provider" /\ call'[c].base = drawn
      /\ \A d \in Calls : d # c => call'[d] = call[d]
  BY <1>1 DEF NewProvider, TypeOK, Call, Stages
<1>3. TypeOK'
  BY <1>1, <1>2 DEF TypeOK
<1>4. \A d \in Calls : call[d].base \in Nat
  BY MaxIdsAssumption DEF TypeOK, Call
<1>5. OwnsIds'
  <2>1. StoredIds' \subseteq 1 .. drawn /\ 1 .. drawn \subseteq 1 .. drawn'
    BY <1>1, SameTables DEF OwnsIds
  <2>2. ASSUME NEW d \in Calls, call'[d].stage \in Open
        PROVE  /\ call'[d].base + 3 <= drawn'
               /\ \A i \in Row(d)' .. FeatureId(d)' : i \notin StoredIds'
    <3>1. CASE d = c
      BY <3>1, <1>1, <1>2, <2>1 DEF Row, FeatureId
    <3>2. CASE d # c
      BY <3>2, <1>1, <1>2, <1>4, <2>2, SameTables DEF OwnsIds, Row, FeatureId
    <3> QED BY <3>1, <3>2
  <2> QED BY <2>1, <2>2 DEF OwnsIds
<1>6. Disjoint'
  BY <1>1, <1>2, <1>4 DEF Disjoint, OwnsIds
<1>7. CreatedIsStored'
  BY <1>1, <1>2, SameTables DEF CreatedIsStored, Row, LimitId, FeatureId
<1> QED BY <1>1, <1>3, <1>5, <1>6, <1>7, SameTables

(* A call that goes on inside its transaction, or is rolled back.          *)
LEMMA GotoStep ==
    ASSUME IInv, NEW c \in Calls, NEW s \in Stages \ {"created"},
           call[c].stage \in Open, Goto(c, s), UNCHANGED <<drawn, tables>>
    PROVE  IInv'
<1> USE DEF IInv
<1>1. /\ drawn' = drawn /\ UNCHANGED tables /\ providers' = providers /\ limits' = limits
      /\ features' = features /\ methods' = methods
  BY DEF tables
<1>2. /\ call' \in [Calls -> Call]
      /\ call'[c].stage = s
      /\ \A d \in Calls : call'[d].base = call[d].base
      /\ \A d \in Calls : d # c => call'[d] = call[d]
  BY DEF Goto, TypeOK, Call
<1>3. TypeOK'
  BY <1>1, <1>2 DEF TypeOK
<1>4. \A d \in Calls : /\ call'[d].stage \in Open => call[d].stage \in Open
                       /\ call'[d].stage = "created" => call[d].stage = "created"
                       /\ Row(d)' = Row(d) /\ LimitId(d)' = LimitId(d)
                       /\ FeatureId(d)' = FeatureId(d)
  BY <1>2 DEF Row, LimitId, FeatureId
<1>5. OwnsIds'
  BY <1>1, <1>2, <1>4, SameTables DEF OwnsIds
<1>6. Disjoint'
  BY <1>2, <1>4 DEF Disjoint
<1>7. CreatedIsStored'
  BY <1>4, SameTables, <1>1 DEF CreatedIsStored
<1> QED BY <1>1, <1>3, <1>5, <1>6, <1>7, SameTables

-----------------------------------------------------------------------------
(* The three tables after Store, key by key.                               *)
LEMMA Stored ==
    ASSUME IInv, NEW c \in Calls, call[c].stage = "commit", Store(c), methods' = methods
    PROVE  \E P \in Provider, L \in Limit, F \in Feature :
              /\ P.state = "active" /\ L.provider = Row(c) /\ F.provider = Row(c)
              /\ providers' = [providers EXCEPT ![Row(c)] = P]
              /\ limits' = [limits EXCEPT ![LimitId(c)] = L]
              /\ features' = [features EXCEPT ![FeatureId(c)] = F]
<1>1. Row(c) \in Ids
  BY FreshIds DEF Open
<1>2. PICK n \in Names :
         providers' = [providers EXCEPT ![Row(c)] = [name |-> n, state |-> "active"]]
  BY DEF Store
<1>3. PICK m \in 1 .. MaxAsked : limits' = [limits EXCEPT ![LimitId(c)] = LimitRow(c, m)]
  BY DEF Store
<1>4. [name |-> n, state |-> "active"] \in Provider
  BY DEF Provider, States
<1>5. AsInt32(m) \in Int32s
  <2>1. (m + Half) % (2 * Half) \in 0 .. (2 * Half - 1)
    BY HalfAssumption, AskedAssumption
  <2> QED BY <2>1, HalfAssumption DEF AsInt32, Int32s
<1>6. LimitRow(c, m) \in Limit /\ LimitRow(c, m).provider = Row(c)
  BY <1>1, <1>5 DEF LimitRow, Limit
<1>7. FeatureRow(c) \in Feature /\ FeatureRow(c).provider = Row(c)
  BY <1>1 DEF FeatureRow, Feature, Modes
<1>8. features' = [features EXCEPT ![FeatureId(c)] = FeatureRow(c)]
  BY DEF Store
<1> QED BY <1>2, <1>3, <1>4, <1>6, <1>7, <1>8

(* The joins after Store: one row each for the new provider, and the same  *)
(* rows as before for all others.                                          *)
LEMMA StoredRows ==
    ASSUME IInv, NEW c \in Calls, call[c].stage = "commit", Store(c), methods' = methods
    PROVE  /\ providers' \in Table(Provider) /\ limits' \in Table(Limit)
           /\ features' \in Table(Feature)
           /\ IdsIn(providers)' = IdsIn(providers) \cup {Row(c)}
           /\ IdsIn(limits)' = IdsIn(limits) \cup {LimitId(c)}
           /\ IdsIn(features)' = IdsIn(features) \cup {FeatureId(c)}
           /\ \A p \in Ids \ {Row(c)} : /\ providers'[p] = providers[p]
                                        /\ GetProviderConstraintByProviderID(p)'
                                              = GetProviderConstraintByProviderID(p)
                                        /\ FeaturesOf(p)' = FeaturesOf(p)
           /\ \A p : p = Row(c) =>
                 /\ GetProviderConstraintByProviderID(p)' = {LimitId(c)}
                 /\ FeaturesOf(p)' = {FeatureId(c)}
           /\ \A i \in IdsIn(limits) : limits'[i] = limits[i]
           /\ \A i \in IdsIn(features) : features'[i] = features[i]
           /\ limits'[LimitId(c)].provider = Row(c)
           /\ features'[FeatureId(c)].provider = Row(c)
           /\ providers'[Row(c)].state = "active"
<1>1. PICK P \in Provider, L \in Limit, F \in Feature :
              /\ P.state = "active" /\ L.provider = Row(c) /\ F.provider = Row(c)
              /\ providers' = [providers EXCEPT ![Row(c)] = P]
              /\ limits' = [limits EXCEPT ![LimitId(c)] = L]
              /\ features' = [features EXCEPT ![FeatureId(c)] = F]
  BY Stored
<1>2. /\ Row(c) \in Ids /\ LimitId(c) \in Ids /\ FeatureId(c) \in Ids
      /\ providers[Row(c)] = Null /\ limits[LimitId(c)] = Null
      /\ features[FeatureId(c)] = Null
  BY FreshIds DEF Open
<1>3. P # Null /\ L # Null /\ F # Null
  BY NullAssumption
<1>4. /\ providers \in Table(Provider) /\ limits \in Table(Limit)
      /\ features \in Table(Feature)
  BY DEF IInv, TypeOK
<1>5. /\ \A i \in Ids : providers'[i] = IF i = Row(c) THEN P ELSE providers[i]
      /\ \A i \in Ids : limits'[i] = IF i = LimitId(c) THEN L ELSE limits[i]
      /\ \A i \in Ids : features'[i] = IF i = FeatureId(c) THEN F ELSE features[i]
  BY <1>1, <1>2, <1>4 DEF Table
<1>6. /\ providers' \in Table(Provider) /\ limits' \in Table(Limit)
      /\ features' \in Table(Feature)
  BY <1>1, <1>2, <1>4 DEF Table
<1>7. /\ IdsIn(providers)' = IdsIn(providers) \cup {Row(c)}
      /\ IdsIn(limits)' = IdsIn(limits) \cup {LimitId(c)}
      /\ IdsIn(features)' = IdsIn(features) \cup {FeatureId(c)}
  BY <1>2, <1>3, <1>5 DEF IdsIn
<1>8. /\ \A i \in IdsIn(limits) : limits'[i] = limits[i]
      /\ \A i \in IdsIn(features) : features'[i] = features[i]
      /\ limits'[LimitId(c)].provider = Row(c) /\ features'[FeatureId(c)].provider = Row(c)
      /\ providers'[Row(c)].state = "active"
  BY <1>1, <1>2, <1>5 DEF IdsIn
<1>9. /\ \A i \in IdsIn(limits) : limits[i].provider # Row(c)
      /\ \A i \in IdsIn(features) : features[i].provider # Row(c)
  BY <1>2 DEF IInv, Referred, IdsIn
<1>10. \A p : p # Row(c) =>
          /\ GetProviderConstraintByProviderID(p)' = GetProviderConstraintByProviderID(p)
          /\ FeaturesOf(p)' = FeaturesOf(p)
  BY <1>7, <1>8 DEF GetProviderConstraintByProviderID, FeaturesOf
<1>11. \A p : p = Row(c) => /\ GetProviderConstraintByProviderID(p)' = {LimitId(c)}
                            /\ FeaturesOf(p)' = {FeatureId(c)}
  BY <1>7, <1>8, <1>9 DEF GetProviderConstraintByProviderID, FeaturesOf
<1> QED BY <1>5, <1>6, <1>7, <1>8, <1>10, <1>11

LEMMA StoreStep ==
    ASSUME IInv, NEW c \in Calls, NEW s \in {"created", "failed"},
           call[c].stage = "commit", Store(c), Goto(c, s), UNCHANGED <<drawn, methods>>
    PROVE  IInv'
<1> USE DEF IInv
<1>1. /\ call' \in [Calls -> Call]
      /\ call'[c].stage = s
      /\ \A d \in Calls : call'[d].base = call[d].base /\ call[d].base \in Nat
      /\ \A d \in Calls : d # c => call'[d] = call[d]
  BY MaxIdsAssumption DEF Goto, TypeOK, Call, Stages
<1>2. \A d \in Calls : /\ call'[d].stage \in Open => d # c /\ call[d].stage \in Open
                       /\ Row(d)' = Row(d) /\ LimitId(d)' = LimitId(d)
                       /\ FeatureId(d)' = FeatureId(d)
  BY <1>1 DEF Row, LimitId, FeatureId, Open
<1>3. /\ Row(c) \in Ids /\ LimitId(c) \in Ids /\ FeatureId(c) \in Ids
      /\ Row(c) \notin StoredIds /\ LimitId(c) \notin StoredIds
      /\ FeatureId(c) \notin StoredIds /\ call[c].stage \in Open
  BY FreshIds DEF Open
<1>4. TypeOK'
  BY <1>1, StoredRows DEF TypeOK
<1>5. StoredIds' = StoredIds \cup {Row(c), LimitId(c), FeatureId(c)}
  BY StoredRows DEF StoredIds, IdsIn
<1>6. OwnsIds'
  <2>1. StoredIds' \subseteq 1 .. drawn'
    <3>1. call[c].base + 3 <= drawn /\ drawn' = drawn /\ drawn \in Nat
          /\ call[c].base \in Nat /\ StoredIds \subseteq 1 .. drawn
      BY <1>1, <1>3, MaxIdsAssumption DEF OwnsIds, TypeOK
    <3>2. {Row(c), LimitId(c), FeatureId(c)} \subseteq 1 .. drawn
      BY <3>1 DEF Row, LimitId, FeatureId
    <3> QED BY <1>5, <3>1, <3>2
  <2>2. ASSUME NEW d \in Calls, call'[d].stage \in Open
        PROVE  /\ call'[d].base + 3 <= drawn'
               /\ \A i \in Row(d)' .. FeatureId(d)' : i \notin StoredIds'
    <3>1. d # c /\ call[d].stage \in Open
      BY <1>2, <2>2
    <3>2. /\ call[d].base + 3 <= drawn
          /\ \A i \in Row(d) .. FeatureId(d) : i \notin StoredIds
          /\ call[c].base + 3 <= call[d].base \/ call[d].base + 3 <= call[c].base
      BY <1>3, <3>1 DEF OwnsIds, Disjoint
    <3>3. \A i \in Row(d) .. FeatureId(d) : i \notin {Row(c), LimitId(c), FeatureId(c)}
      BY <1>1, <3>2 DEF Row, LimitId, FeatureId
    <3> QED BY <1>1, <1>2, <1>5, <3>2, <3>3
  <2> QED BY <2>1, <2>2 DEF OwnsIds
<1>7. Disjoint'
  BY <1>1, <1>2 DEF Disjoint
<1>8. OneEach'
  <2> SUFFICES ASSUME NEW p \in IdsIn(providers)'
               PROVE  /\ \E i \in Ids : GetProviderConstraintByProviderID(p)' = {i}
                      /\ \E i \in Ids : FeaturesOf(p)' = {i}
    BY DEF OneEach
  <2>1. CASE p = Row(c)
    BY <1>3, <2>1, StoredRows
  <2>2. CASE p # Row(c)
    <3>1. p \in IdsIn(providers) /\ p \in Ids
      BY <2>2, StoredRows DEF IdsIn
    <3> QED BY <2>2, <3>1, StoredRows DEF OneEach
  <2> QED BY <2>1, <2>2
<1>9. Referred'
  <2>1. /\ \A i \in IdsIn(limits)' : limits'[i].provider \in IdsIn(providers)'
        /\ \A i \in IdsIn(features)' : features'[i].provider \in IdsIn(providers)'
    BY StoredRows DEF Referred
  <2>2. \A i \in IdsIn(methods)' : methods'[i].provider \in IdsIn(providers)'
    BY StoredRows DEF Referred, IdsIn
  <2> QED BY <2>1, <2>2 DEF Referred
<1>10. CreatedIsStored'
  <2> SUFFICES ASSUME NEW d \in Calls, call'[d].stage = "created"
               PROVE  /\ Row(d)' \in IdsIn(providers)'
                      /\ LimitId(d)' \in GetProviderConstraintByProviderID(Row(d))'
                      /\ FeatureId(d)' \in FeaturesOf(Row(d))'
    BY DEF CreatedIsStored
  <2>1. CASE d = c
    <3>1. \A p : p = Row(c) => LimitId(c) \in GetProviderConstraintByProviderID(p)'
                            /\ FeatureId(c) \in FeaturesOf(p)'
      BY StoredRows
    <3>2. Row(c) \in IdsIn(providers)'
      BY StoredRows
    <3> QED BY <1>2, <2>1, <3>1, <3>2 DEF GetProviderConstraintByProviderID, FeaturesOf
  <2>2. CASE d # c
    <3>1. /\ Row(d) \in IdsIn(providers)
          /\ LimitId(d) \in GetProviderConstraintByProviderID(Row(d))
          /\ FeatureId(d) \in FeaturesOf(Row(d))
      BY <1>1, <2>2 DEF CreatedIsStored
    <3>2. Row(d) \in IdsIn(providers)' /\ Row(d) # Row(c) /\ Row(d) \in Ids
      BY <1>3, <3>1, StoredRows DEF StoredIds, IdsIn
    <3>3. \A p \in Ids \ {Row(c)} :
             /\ GetProviderConstraintByProviderID(p)' = GetProviderConstraintByProviderID(p)
             /\ FeaturesOf(p)' = FeaturesOf(p)
      BY StoredRows
    <3> QED BY <1>2, <3>1, <3>2, <3>3 DEF GetProviderConstraintByProviderID, FeaturesOf
  <2> QED BY <2>1, <2>2
<1> QED BY <1>4, <1>6, <1>7, <1>8, <1>9, <1>10

-----------------------------------------------------------------------------
(* A statement that keeps the ids of all rows and what they refer to.      *)
LEMMA RowsKept ==
    ASSUME IInv, UNCHANGED <<drawn, call>>,
           providers' \in Table(Provider), limits' \in Table(Limit),
           features' \in Table(Feature), methods' \in Table(Method),
           IdsIn(providers)' = IdsIn(providers), IdsIn(limits)' = IdsIn(limits),
           IdsIn(features)' = IdsIn(features), IdsIn(methods)' = IdsIn(methods),
           \A i \in IdsIn(limits) : limits'[i].provider = limits[i].provider,
           \A i \in IdsIn(features) : features'[i].provider = features[i].provider,
           \A i \in IdsIn(methods) : methods'[i].provider = methods[i].provider
    PROVE  /\ IInv'
           /\ \A p : /\ GetProviderConstraintByProviderID(p)' = GetProviderConstraintByProviderID(p)
                     /\ FeaturesOf(p)' = FeaturesOf(p)
<1> USE DEF IInv
<1>1. \A p : /\ GetProviderConstraintByProviderID(p)' = GetProviderConstraintByProviderID(p)
             /\ FeaturesOf(p)' = FeaturesOf(p)
  BY DEF GetProviderConstraintByProviderID, FeaturesOf
<1>2. StoredIds' = StoredIds
  BY DEF StoredIds
<1>3. \A d : Row(d)' = Row(d) /\ LimitId(d)' = LimitId(d) /\ FeatureId(d)' = FeatureId(d)
  BY DEF Row, LimitId, FeatureId
<1>4. TypeOK'
  BY DEF TypeOK
<1>5. OwnsIds' /\ Disjoint'
  BY <1>2, <1>3 DEF OwnsIds, Disjoint
<1>6. OneEach' /\ Referred'
  BY <1>1 DEF OneEach, Referred
<1>7. CreatedIsStored'
  BY <1>1, <1>3 DEF CreatedIsStored
<1> QED BY <1>1, <1>4, <1>5, <1>6, <1>7

LEMMA UpdateProviderStep ==
    ASSUME IInv, NEW p \in Ids, NEW P \in Provider, providers[p] # Null,
           providers' = [providers EXCEPT ![p] = P],
           UNCHANGED <<drawn, limits, features, methods, call>>
    PROVE  /\ IInv'
           /\ \A q : /\ GetProviderConstraintByProviderID(q)' = GetProviderConstraintByProviderID(q)
                     /\ FeaturesOf(q)' = FeaturesOf(q)
           /\ providers'[p] = P /\ \A q \in Ids : q # p => providers'[q] = providers[q]
<1>1. p \in IdsIn(providers) /\ providers \in Table(Provider) /\ Null \notin Provider
  BY NullAssumption DEF IInv, TypeOK, IdsIn
<1>2. /\ providers' \in Table(Provider) /\ IdsIn(providers') = IdsIn(providers)
      /\ providers'[p] = P /\ \A q \in Ids : q # p => providers'[q] = providers[q]
  BY <1>1 DEF Table, IdsIn
<1>3. /\ limits' \in Table(Limit) /\ features' \in Table(Feature)
      /\ methods' \in Table(Method)
      /\ IdsIn(limits)' = IdsIn(limits) /\ IdsIn(features)' = IdsIn(features)
      /\ IdsIn(methods)' = IdsIn(methods) /\ IdsIn(providers)' = IdsIn(providers)
  BY <1>2 DEF IInv, TypeOK, IdsIn
<1>4. /\ \A i \in IdsIn(limits) : limits'[i].provider = limits[i].provider
      /\ \A i \in IdsIn(features) : features'[i].provider = features[i].provider
      /\ \A i \in IdsIn(methods) : methods'[i].provider = methods[i].provider
  OBVIOUS
<1> QED BY <1>2, <1>3, <1>4, RowsKept

LEMMA UpdateLimitStep ==
    ASSUME IInv, NEW i \in Ids, NEW L \in Limit, limits[i] # Null,
           L.provider = limits[i].provider, limits' = [limits EXCEPT ![i] = L],
           UNCHANGED <<drawn, providers, features, methods, call>>
    PROVE  /\ IInv'
           /\ \A q : /\ GetProviderConstraintByProviderID(q)' = GetProviderConstraintByProviderID(q)
                     /\ FeaturesOf(q)' = FeaturesOf(q)
           /\ limits'[i] = L /\ \A k \in Ids : k # i => limits'[k] = limits[k]
<1>1. i \in IdsIn(limits) /\ limits \in Table(Limit) /\ Null \notin Limit
  BY NullAssumption DEF IInv, TypeOK, IdsIn
<1>2. /\ limits' \in Table(Limit) /\ IdsIn(limits') = IdsIn(limits)
      /\ limits'[i] = L /\ \A k \in Ids : k # i => limits'[k] = limits[k]
      /\ \A k \in IdsIn(limits) : k \in Ids
  BY <1>1 DEF Table, IdsIn
<1>3. /\ providers' \in Table(Provider) /\ features' \in Table(Feature)
      /\ methods' \in Table(Method)
      /\ IdsIn(limits)' = IdsIn(limits) /\ IdsIn(features)' = IdsIn(features)
      /\ IdsIn(methods)' = IdsIn(methods) /\ IdsIn(providers)' = IdsIn(providers)
  BY <1>2 DEF IInv, TypeOK, IdsIn
<1>4. /\ \A k \in IdsIn(limits) : limits'[k].provider = limits[k].provider
      /\ \A k \in IdsIn(features) : features'[k].provider = features[k].provider
      /\ \A k \in IdsIn(methods) : methods'[k].provider = methods[k].provider
  BY <1>2
<1> QED BY <1>2, <1>3, <1>4, RowsKept

LEMMA UpdateFeatureStep ==
    ASSUME IInv, NEW i \in Ids, NEW F \in Feature, features[i] # Null,
           F.provider = features[i].provider, features' = [features EXCEPT ![i] = F],
           UNCHANGED <<drawn, providers, limits, methods, call>>
    PROVE  /\ IInv'
           /\ \A q : /\ GetProviderConstraintByProviderID(q)' = GetProviderConstraintByProviderID(q)
                     /\ FeaturesOf(q)' = FeaturesOf(q)
           /\ features'[i] = F /\ \A k \in Ids : k # i => features'[k] = features[k]
<1>1. i \in IdsIn(features) /\ features \in Table(Feature) /\ Null \notin Feature
  BY NullAssumption DEF IInv, TypeOK, IdsIn
<1>2. /\ features' \in Table(Feature) /\ IdsIn(features') = IdsIn(features)
      /\ features'[i] = F /\ \A k \in Ids : k # i => features'[k] = features[k]
      /\ \A k \in IdsIn(features) : k \in Ids
  BY <1>1 DEF Table, IdsIn
<1>3. /\ providers' \in Table(Provider) /\ limits' \in Table(Limit)
      /\ methods' \in Table(Method)
      /\ IdsIn(limits)' = IdsIn(limits) /\ IdsIn(features)' = IdsIn(features)
      /\ IdsIn(methods)' = IdsIn(methods) /\ IdsIn(providers)' = IdsIn(providers)
  BY <1>2 DEF IInv, TypeOK, IdsIn
<1>4. /\ \A k \in IdsIn(limits) : limits'[k].provider = limits[k].provider
      /\ \A k \in IdsIn(features) : features'[k].provider = features[k].provider
      /\ \A k \in IdsIn(methods) : methods'[k].provider = methods[k].provider
  BY <1>2
<1> QED BY <1>2, <1>3, <1>4, RowsKept

LEMMA UpdateMethodStep ==
    ASSUME IInv, NEW i \in Ids, NEW M \in Method, methods[i] # Null,
           M.provider = methods[i].provider, methods' = [methods EXCEPT ![i] = M],
           UNCHANGED <<drawn, providers, limits, features, call>>
    PROVE  IInv'
<1>1. i \in IdsIn(methods) /\ methods \in Table(Method) /\ Null \notin Method
  BY NullAssumption DEF IInv, TypeOK, IdsIn
<1>2. /\ methods' \in Table(Method) /\ IdsIn(methods') = IdsIn(methods)
      /\ methods'[i] = M /\ \A k \in Ids : k # i => methods'[k] = methods[k]
      /\ \A k \in IdsIn(methods) : k \in Ids
  BY <1>1 DEF Table, IdsIn
<1>3. /\ providers' \in Table(Provider) /\ limits' \in Table(Limit)
      /\ features' \in Table(Feature)
      /\ IdsIn(limits)' = IdsIn(limits) /\ IdsIn(features)' = IdsIn(features)
      /\ IdsIn(methods)' = IdsIn(methods) /\ IdsIn(providers)' = IdsIn(providers)
  BY <1>2 DEF IInv, TypeOK, IdsIn
<1>4. /\ \A k \in IdsIn(limits) : limits'[k].provider = limits[k].provider
      /\ \A k \in IdsIn(features) : features'[k].provider = features[k].provider
      /\ \A k \in IdsIn(methods) : methods'[k].provider = methods[k].provider
  BY <1>2
<1> QED BY <1>2, <1>3, <1>4, RowsKept

(* A new access method takes a fresh id, which no call has drawn.          *)
LEMMA CreateMethodStep ==
    ASSUME IInv, NEW p \in Ids, CreateProviderAccessMethod(p)
    PROVE  IInv'
<1> USE DEF IInv
<1>1. /\ drawn \in Nat /\ MaxIds \in Nat /\ drawn' = drawn + 1 /\ drawn + 1 <= MaxIds
      /\ providers' = providers /\ limits' = limits /\ features' = features /\ call' = call
      /\ p \in IdsIn(providers) /\ drawn + 1 \in Ids /\ StoredIds \subseteq 1 .. drawn
  BY MaxIdsAssumption DEF TypeOK, CreateProviderAccessMethod, IdsIn, OwnsIds, Ids
<1>2. PICK k \in Kinds : methods' = [methods EXCEPT ![drawn + 1] =
                                        [provider |-> p, kind |-> k, state |-> "active"]]
  BY DEF CreateProviderAccessMethod
<1>3. [provider |-> p, kind |-> k, state |-> "active"] \in Method
  BY DEF Method, States
<1>4. /\ methods' \in Table(Method)
      /\ \A i \in Ids : i # drawn + 1 => methods'[i] = methods[i]
      /\ methods'[drawn + 1].provider = p
      /\ methods'[drawn + 1] \in Method
  BY <1>1, <1>2, <1>3 DEF TypeOK, Table
<1>5. TypeOK'
  BY <1>1, <1>4 DEF TypeOK
<1>6. /\ IdsIn(methods)' \subseteq IdsIn(methods) \cup {drawn + 1}
      /\ StoredIds' \subseteq StoredIds \cup {drawn + 1}
  BY <1>1, <1>4 DEF StoredIds, IdsIn
<1>7. \A d : Row(d)' = Row(d) /\ LimitId(d)' = LimitId(d) /\ FeatureId(d)' = FeatureId(d)
  BY <1>1 DEF Row, LimitId, FeatureId
<1>8. OwnsIds'
  <2>1. StoredIds' \subseteq 1 .. drawn'
    BY <1>1, <1>6
  <2>2. ASSUME NEW d \in Calls, call[d].stage \in Open
        PROVE  /\ call[d].base + 3 <= drawn'
               /\ \A i \in Row(d) .. FeatureId(d) : i \notin StoredIds'
    <3>1. /\ call[d].base \in Nat /\ call[d].base + 3 <= drawn
          /\ \A i \in Row(d) .. FeatureId(d) : i \notin StoredIds
      BY <2>2, MaxIdsAssumption DEF OwnsIds, TypeOK, Call
    <3>2. \A i \in Row(d) .. FeatureId(d) : i # drawn + 1
      BY <1>1, <3>1 DEF Row, FeatureId
    <3> QED BY <1>1, <1>6, <3>1, <3>2
  <2> QED BY <1>1, <1>7, <2>1, <2>2 DEF OwnsIds
<1>9. Disjoint'
  BY <1>1 DEF Disjoint
<1>10. \A q : /\ GetProviderConstraintByProviderID(q)' = GetProviderConstraintByProviderID(q)
              /\ FeaturesOf(q)' = FeaturesOf(q)
  BY <1>1 DEF GetProviderConstraintByProviderID, FeaturesOf, IdsIn
<1>11. OneEach' /\ CreatedIsStored'
  BY <1>1, <1>7, <1>10 DEF OneEach, CreatedIsStored, IdsIn
<1>12. Referred'
  <2>1. \A i \in IdsIn(methods)' : methods'[i].provider \in IdsIn(providers)'
    BY <1>1, <1>4, <1>6 DEF Referred, IdsIn
  <2> QED BY <1>1, <2>1 DEF Referred, IdsIn
<1> QED BY <1>5, <1>8, <1>9, <1>11, <1>12

LEMMA StatementStep ==
    ASSUME IInv, NEW i \in Ids,
           \/ UpdateProvider(i) \/ DeleteProvider(i) \/ UpdateProviderConstraint(i)
           \/ UpdateProviderFeature(i) \/ CreateProviderAccessMethod(i)
           \/ UpdateProviderAccessMethod(i) \/ DeleteProviderAccessMethod(i)
    PROVE  IInv'
<1>1. /\ providers[i] # Null => providers[i] \in Provider
      /\ limits[i] # Null => limits[i] \in Limit
      /\ features[i] # Null => features[i] \in Feature
      /\ methods[i] # Null => methods[i] \in Method
  BY DEF IInv, TypeOK, Table
<1>2. CASE UpdateProvider(i)
  <2>1. PICK n \in Names : providers' = [providers EXCEPT ![i].name = n]
    BY <1>2 DEF UpdateProvider
  <2>2. [providers[i] EXCEPT !.name = n] \in Provider
    BY <1>1, <1>2 DEF UpdateProvider, Provider
  <2> QED BY <1>2, <2>1, <2>2, UpdateProviderStep DEF UpdateProvider
<1>3. CASE DeleteProvider(i)
  <2>1. [providers[i] EXCEPT !.state = "deleted"] \in Provider
    BY <1>1, <1>3 DEF DeleteProvider, Provider, States
  <2> QED BY <1>3, <2>1, UpdateProviderStep DEF DeleteProvider
<1>4. CASE UpdateProviderConstraint(i)
  <2>1. PICK n \in Int32s : limits' = [limits EXCEPT ![i].max = n]
    BY <1>4 DEF UpdateProviderConstraint
  <2>2. /\ [limits[i] EXCEPT !.max = n] \in Limit
        /\ [limits[i] EXCEPT !.max = n].provider = limits[i].provider
    BY <1>1, <1>4 DEF UpdateProviderConstraint, Limit
  <2> QED BY <1>4, <2>1, <2>2, UpdateLimitStep DEF UpdateProviderConstraint
<1>5. CASE UpdateProviderFeature(i)
  <2>1. PICK m \in Modes : features' = [features EXCEPT ![i].mode = m]
    BY <1>5 DEF UpdateProviderFeature
  <2>2. /\ [features[i] EXCEPT !.mode = m] \in Feature
        /\ [features[i] EXCEPT !.mode = m].provider = features[i].provider
    BY <1>1, <1>5 DEF UpdateProviderFeature, Feature
  <2> QED BY <1>5, <2>1, <2>2, UpdateFeatureStep DEF UpdateProviderFeature
<1>6. CASE CreateProviderAccessMethod(i)
  BY <1>6, CreateMethodStep
<1>7. CASE UpdateProviderAccessMethod(i)
  <2>1. PICK k \in Kinds : methods' = [methods EXCEPT ![i].kind = k]
    BY <1>7 DEF UpdateProviderAccessMethod
  <2>2. /\ [methods[i] EXCEPT !.kind = k] \in Method
        /\ [methods[i] EXCEPT !.kind = k].provider = methods[i].provider
    BY <1>1, <1>7 DEF UpdateProviderAccessMethod, Method
  <2> QED BY <1>7, <2>1, <2>2, UpdateMethodStep DEF UpdateProviderAccessMethod
<1>8. CASE DeleteProviderAccessMethod(i)
  <2>1. /\ [methods[i] EXCEPT !.state = "deleted"] \in Method
        /\ [methods[i] EXCEPT !.state = "deleted"].provider = methods[i].provider
    BY <1>1, <1>8 DEF DeleteProviderAccessMethod, Method, States
  <2> QED BY <1>8, <2>1, UpdateMethodStep DEF DeleteProviderAccessMethod
<1> QED BY <1>2, <1>3, <1>4, <1>5, <1>6, <1>7, <1>8

LEMMA CreateStep ==
    ASSUME IInv, NEW c \in Calls, Create(c)
    PROVE  IInv'
<1>1. CASE NewProvider(c)
  BY <1>1, NewProviderStep
<1>2. CASE InsertProvider(c)
  BY <1>2, GotoStep DEF InsertProvider, Open, Stages
<1>3. CASE CreateConstraint(c)
  BY <1>3, GotoStep DEF CreateConstraint, Open, Stages
<1>4. CASE CreateFeatures(c)
  BY <1>4, GotoStep DEF CreateFeatures, Open, Stages
<1>5. CASE Commit(c)
  BY <1>5, StoreStep DEF Commit
<1>6. CASE CommitUnseen(c)
  BY <1>6, StoreStep DEF CommitUnseen
<1>7. CASE Fails(c)
  BY <1>7, GotoStep DEF Fails, Stages
<1> QED BY <1>1, <1>2, <1>3, <1>4, <1>5, <1>6, <1>7 DEF Create

LEMMA NextInv == IInv /\ [Next]_vars => IInv'
<1> SUFFICES ASSUME IInv, [Next]_vars PROVE IInv'
  OBVIOUS
<1>1. ASSUME NEW c \in Calls, Create(c) PROVE IInv'
  BY <1>1, CreateStep
<1>2. ASSUME NEW i \in Ids,
             \/ UpdateProvider(i) \/ DeleteProvider(i) \/ UpdateProviderConstraint(i)
             \/ UpdateProviderFeature(i) \/ CreateProviderAccessMethod(i)
             \/ UpdateProviderAccessMethod(i) \/ DeleteProviderAccessMethod(i)
      PROVE  IInv'
  BY <1>2, StatementStep
<1>3. CASE UNCHANGED vars
  <2>1. /\ UNCHANGED <<drawn, call>> /\ providers' = providers /\ limits' = limits
        /\ features' = features /\ methods' = methods
    BY <1>3 DEF vars
  <2>2. /\ IdsIn(providers)' = IdsIn(providers) /\ IdsIn(limits)' = IdsIn(limits)
        /\ IdsIn(features)' = IdsIn(features) /\ IdsIn(methods)' = IdsIn(methods)
    BY <2>1 DEF IdsIn
  <2> QED BY <2>1, <2>2, RowsKept DEF IInv, TypeOK
<1> QED BY <1>1, <1>2, <1>3 DEF Next

-----------------------------------------------------------------------------
(* What the calls own and how the rows refer to each other holds in every  *)
(* behaviour (Create and the generated statements).                        *)
THEOREM Invariance == Spec => []IInv
BY InitInv, NextInv, PTL DEF Spec

(* Every reachable state of the tables is well typed; in particular no     *)
(* limit is stored that an int32 cannot hold.                              *)
THEOREM TypeCorrectness == Spec => []TypeOK
<1>1. IInv => TypeOK
  BY DEF IInv
<1> QED BY <1>1, Invariance, PTL

(* A provider whose creation was reported is stored with both its rows.    *)
THEOREM CreatedStayStored == Spec => []CreatedIsStored
<1>1. IInv => CreatedIsStored
  BY DEF IInv
<1> QED BY <1>1, Invariance, PTL

(* The join of a stored provider has exactly one row.                      *)
LEMMA OneRow ==
    ASSUME NEW p, NEW i \in Ids, NEW j \in Ids,
           GetProviderConstraintByProviderID(p) = {i}, FeaturesOf(p) = {j}
    PROVE  Joined(p) = {<<i, j>>} /\ Scans(<<i, j>>)
<1>1. i # Null /\ j # Null
  BY NullAssumption, MaxIdsAssumption DEF Ids
<1> QED BY <1>1 DEF Joined, OrNull, Scans

(* GetProviderDetailsByProviderID never fails to scan a stored provider    *)
(* and never has a choice.                                                 *)
THEOREM DetailsAlwaysScan == Spec => []DetailsScan
<1>1. ASSUME IInv PROVE DetailsScan
  <2> SUFFICES ASSUME NEW p \in GetAllProviders
               PROVE  /\ \A j \in Joined(p) : Scans(j)
                      /\ \A j, k \in Joined(p) : j = k
    BY DEF DetailsScan
  <2>1. PICK i \in Ids, j \in Ids :
           GetProviderConstraintByProviderID(p) = {i} /\ FeaturesOf(p) = {j}
    BY <1>1 DEF IInv, OneEach, GetAllProviders
  <2>2. Joined(p) = {<<i, j>>} /\ Scans(<<i, j>>)
    BY <2>1, OneRow
  <2> QED BY <2>2
<1> QED BY <1>1, Invariance, PTL

-----------------------------------------------------------------------------
(* The details query, for stored providers and for others.                 *)
LEMMA EntryOf ==
    \A p \in Ids, i \in Ids, j \in Ids :
        providers[p] # Null /\ GetProviderConstraintByProviderID(p) = {i} /\ FeaturesOf(p) = {j}
            => GetProviderDetailsByProviderID(p) = Details(p, <<i, j>>)
<1> SUFFICES ASSUME NEW p \in Ids, NEW i \in Ids, NEW j \in Ids, providers[p] # Null,
                    GetProviderConstraintByProviderID(p) = {i}, FeaturesOf(p) = {j}
             PROVE  GetProviderDetailsByProviderID(p) = Details(p, <<i, j>>)
  OBVIOUS
<1>1. Joined(p) = {<<i, j>>} /\ Scans(<<i, j>>)
  BY OneRow
<1>2. (CHOOSE x \in Joined(p) : TRUE) = <<i, j>>
  BY <1>1
<1> QED BY <1>1, <1>2 DEF GetProviderDetailsByProviderID

LEMMA EntryOfNext == EntryOf!:'
BY EntryOf, PTL
(* A provider whose row and joined rows stay the same keeps its entry.     *)
LEMMA SameEntry ==
    ASSUME IInv, IInv', NEW p \in Ids, providers'[p] = providers[p],
           GetProviderConstraintByProviderID(p)' = GetProviderConstraintByProviderID(p),
           FeaturesOf(p)' = FeaturesOf(p),
           \A i \in GetProviderConstraintByProviderID(p) : limits'[i].max = limits[i].max,
           \A i \in FeaturesOf(p) : features'[i].mode = features[i].mode
    PROVE  GetProviderDetailsByProviderID(p)' = GetProviderDetailsByProviderID(p)
<1>1. CASE providers[p] = Null
  BY <1>1 DEF GetProviderDetailsByProviderID
<1>2. CASE providers[p] # Null
  <2>1. PICK i \in Ids, j \in Ids :
           GetProviderConstraintByProviderID(p) = {i} /\ FeaturesOf(p) = {j}
    BY <1>2 DEF IInv, OneEach, IdsIn
  <2>2. GetProviderDetailsByProviderID(p) = Details(p, <<i, j>>)
    BY <1>2, <2>1, EntryOf
  <2>3. GetProviderDetailsByProviderID(p)' = Details(p, <<i, j>>)'
    BY <1>2, <2>1, EntryOfNext
  <2>4. Details(p, <<i, j>>)' = Details(p, <<i, j>>)
    BY <2>1 DEF Details
  <2> QED BY <2>2, <2>3, <2>4
<1> QED BY <1>1, <1>2

(* The step of the catalogue in which the entry of p alone changes.        *)
LEMMA OneEntry ==
    ASSUME NEW p \in Ids, NEW e, GetProviderDetailsByProviderID(p)' = e,
           \A q \in Ids \ {p} :
              GetProviderDetailsByProviderID(q)' = GetProviderDetailsByProviderID(q)
    PROVE  C!With(p, e) /\ Catalogue[p] = GetProviderDetailsByProviderID(p)
BY DEF C!With, Catalogue

LEMMA EntryNotNull ==
    ASSUME IInv, NEW p \in Ids, NEW i \in Ids, NEW j \in Ids, providers[p] # Null,
           GetProviderConstraintByProviderID(p) = {i}, FeaturesOf(p) = {j}
    PROVE  /\ Details(p, <<i, j>>) # Null
           /\ limits[i] \in Limit /\ features[j] \in Feature /\ providers[p] \in Provider
<1>1. /\ limits[i] \in Limit /\ features[j] \in Feature /\ providers[p] \in Provider
  BY DEF IInv, TypeOK, Table, GetProviderConstraintByProviderID, FeaturesOf, IdsIn
<1>2. Details(p, <<i, j>>) \in [name : Names, state : States, max : Int32s, mode : Modes]
  BY <1>1 DEF Details, Limit, Feature, Provider
<1> QED BY <1>1, <1>2, NullAssumption

LEMMA RegisterStep ==
    ASSUME IInv, IInv', NEW c \in Calls, call[c].stage = "commit", Store(c),
           methods' = methods
    PROVE  C!Next
<1>1. /\ Row(c) \in Ids /\ LimitId(c) \in Ids /\ FeatureId(c) \in Ids
      /\ providers[Row(c)] = Null
  BY FreshIds DEF Open
<1>2. PICK p \in Ids : p = Row(c)
  BY <1>1
<1>3. PICK P \in Provider, L \in Limit, F \in Feature :
              /\ P.state = "active" /\ L.provider = Row(c) /\ F.provider = Row(c)
              /\ providers' = [providers EXCEPT ![Row(c)] = P]
              /\ limits' = [limits EXCEPT ![LimitId(c)] = L]
              /\ features' = [features EXCEPT ![FeatureId(c)] = F]
  BY Stored
<1>4. /\ providers'[p] = P /\ limits'[LimitId(c)] = L /\ features'[FeatureId(c)] = F
      /\ P # Null
  BY <1>1, <1>2, <1>3, NullAssumption DEF IInv, TypeOK, Table
<1>5. PICK i \in Ids, j \in Ids : i = LimitId(c) /\ j = FeatureId(c)
  BY <1>1
<1>6. GetProviderConstraintByProviderID(p)' = {i} /\ FeaturesOf(p)' = {j}
  BY <1>2, <1>5, StoredRows
<1>7. GetProviderDetailsByProviderID(p)' = Details(p, <<i, j>>)'
  BY <1>4, <1>6, EntryOfNext
<1>8. Details(p, <<i, j>>)' = [name |-> P.name, state |-> P.state, max |-> L.max,
                               mode |-> F.mode]
  BY <1>4, <1>5 DEF Details
<1>9. [name |-> P.name, state |-> P.state, max |-> L.max, mode |-> F.mode] \in C!Entry
  BY DEF C!Entry, Provider, Limit, Feature, States, Modes
<1>10. \A q \in Ids \ {p} :
          GetProviderDetailsByProviderID(q)' = GetProviderDetailsByProviderID(q)
  <2> SUFFICES ASSUME NEW q \in Ids \ {p}
               PROVE  GetProviderDetailsByProviderID(q)' = GetProviderDetailsByProviderID(q)
    OBVIOUS
  <2>1. /\ providers'[q] = providers[q]
        /\ GetProviderConstraintByProviderID(q)' = GetProviderConstraintByProviderID(q)
        /\ FeaturesOf(q)' = FeaturesOf(q)
    BY <1>2, StoredRows
  <2>2. /\ \A k \in GetProviderConstraintByProviderID(q) : limits'[k].max = limits[k].max
        /\ \A k \in FeaturesOf(q) : features'[k].mode = features[k].mode
    BY StoredRows DEF GetProviderConstraintByProviderID, FeaturesOf
  <2> QED BY <2>1, <2>2, SameEntry
<1>11. GetProviderDetailsByProviderID(p) = Null
  BY <1>1, <1>2 DEF GetProviderDetailsByProviderID
<1>12. C!Register(p)
  BY <1>3, <1>7, <1>8, <1>9, <1>10, <1>11, OneEntry DEF C!Register
<1> QED BY <1>12 DEF C!Next

(* A statement that changes one field of one entry.                        *)
FieldChanged(d, e) == \/ \E n \in Names : e = [d EXCEPT !.name = n]
                      \/ \E l \in Int32s : e = [d EXCEPT !.max = l]
                      \/ \E m \in Modes : e = [d EXCEPT !.mode = m]
                      \/ e = [d EXCEPT !.state = "deleted"]

LEMMA ChangeStep ==
    ASSUME IInv, NEW p \in Ids, NEW i \in Ids, NEW j \in Ids, providers[p] # Null,
           GetProviderConstraintByProviderID(p) = {i}, FeaturesOf(p) = {j},
           NEW e, GetProviderDetailsByProviderID(p)' = e,
           FieldChanged(Details(p, <<i, j>>), e),
           \A q \in Ids \ {p} :
              GetProviderDetailsByProviderID(q)' = GetProviderDetailsByProviderID(q)
    PROVE  C!Next
<1>1. Catalogue[p] = Details(p, <<i, j>>)
  BY EntryOf DEF Catalogue
<1>2. Catalogue[p] # Null
  BY <1>1, EntryNotNull
<1>3. C!With(p, e)
  BY OneEntry
<1>4. C!Change(p)
  BY <1>1, <1>2, <1>3 DEF C!Change, FieldChanged
<1> QED BY <1>4 DEF C!Next

LEMMA ProviderChanges ==
    ASSUME IInv, IInv', NEW p \in Ids, NEW P \in Provider, providers[p] # Null,
           providers' = [providers EXCEPT ![p] = P],
           UNCHANGED <<drawn, limits, features, methods, call>>,
           \/ \E n \in Names : P = [providers[p] EXCEPT !.name = n]
           \/ P = [providers[p] EXCEPT !.state = "deleted"]
    PROVE  C!Next
<1>1. PICK i \in Ids, j \in Ids :
         GetProviderConstraintByProviderID(p) = {i} /\ FeaturesOf(p) = {j}
  BY DEF IInv, OneEach, IdsIn
<1>2. /\ \A q : /\ GetProviderConstraintByProviderID(q)' = GetProviderConstraintByProviderID(q)
                /\ FeaturesOf(q)' = FeaturesOf(q)
      /\ providers'[p] = P /\ \A q \in Ids : q # p => providers'[q] = providers[q]
      /\ limits' = limits /\ features' = features /\ P # Null
  BY UpdateProviderStep, NullAssumption
<1>3. \A q \in Ids \ {p} :
         GetProviderDetailsByProviderID(q)' = GetProviderDetailsByProviderID(q)
  BY <1>2, SameEntry
<1>4. GetProviderDetailsByProviderID(p)' = Details(p, <<i, j>>)'
  BY <1>1, <1>2, EntryOfNext
<1>5. providers[p] \in Provider
  BY <1>1, EntryNotNull
<1>6. Details(p, <<i, j>>)' = [name |-> P.name, state |-> P.state, max |-> limits[i].max,
                               mode |-> features[j].mode]
  BY <1>2 DEF Details
<1>7. FieldChanged(Details(p, <<i, j>>), Details(p, <<i, j>>)')
  <2>1. CASE \E n \in Names : P = [providers[p] EXCEPT !.name = n]
    BY <1>5, <1>6, <2>1 DEF Details, Provider, FieldChanged
  <2>2. CASE P = [providers[p] EXCEPT !.state = "deleted"]
    BY <1>5, <1>6, <2>2 DEF Details, Provider, FieldChanged
  <2> QED BY <2>1, <2>2
<1> QED BY <1>1, <1>3, <1>4, <1>7, ChangeStep

LEMMA LimitChanges ==
    ASSUME IInv, IInv', NEW i \in Ids, UpdateProviderConstraint(i)
    PROVE  C!Next
<1>1. PICK n \in Int32s : limits' = [limits EXCEPT ![i].max = n]
  BY DEF UpdateProviderConstraint
<1>2. limits[i] # Null /\ limits[i] \in Limit /\ i \in IdsIn(limits)
  BY DEF UpdateProviderConstraint, IInv, TypeOK, Table, IdsIn
<1>3. PICK p \in Ids : p = limits[i].provider /\ providers[p] # Null
  BY <1>2 DEF IInv, Referred, IdsIn
<1>4. PICK j \in Ids : GetProviderConstraintByProviderID(p) = {i} /\ FeaturesOf(p) = {j}
  BY <1>2, <1>3 DEF IInv, OneEach, IdsIn, GetProviderConstraintByProviderID
<1>5. /\ [limits[i] EXCEPT !.max = n] \in Limit
      /\ [limits[i] EXCEPT !.max = n].provider = limits[i].provider
      /\ [limits[i] EXCEPT !.max = n].max = n
  BY <1>2 DEF Limit
<1>6. /\ \A q : /\ GetProviderConstraintByProviderID(q)' = GetProviderConstraintByProviderID(q)
                /\ FeaturesOf(q)' = FeaturesOf(q)
      /\ limits'[i] = [limits[i] EXCEPT !.max = n]
      /\ \A k \in Ids : k # i => limits'[k] = limits[k]
      /\ providers' = providers /\ features' = features
  BY <1>1, <1>2, <1>5, UpdateLimitStep DEF UpdateProviderConstraint
<1>7. \A q \in Ids \ {p} :
         GetProviderDetailsByProviderID(q)' = GetProviderDetailsByProviderID(q)
  <2> SUFFICES ASSUME NEW q \in Ids \ {p}
               PROVE  GetProviderDetailsByProviderID(q)' = GetProviderDetailsByProviderID(q)
    OBVIOUS
  <2>1. \A k \in GetProviderConstraintByProviderID(q) : k \in Ids /\ k # i
    BY <1>3 DEF GetProviderConstraintByProviderID, IdsIn
  <2> QED BY <1>6, <2>1, SameEntry
<1>8. GetProviderDetailsByProviderID(p)' = Details(p, <<i, j>>)'
  BY <1>3, <1>4, <1>6, EntryOfNext
<1>9. Details(p, <<i, j>>)' =
         [name |-> providers[p].name, state |-> providers[p].state,
          max |-> n, mode |-> features[j].mode]
  BY <1>5, <1>6 DEF Details
<1>10. FieldChanged(Details(p, <<i, j>>), Details(p, <<i, j>>)')
  BY <1>9 DEF Details, FieldChanged
<1> QED BY <1>3, <1>4, <1>7, <1>8, <1>10, ChangeStep

LEMMA FeatureChanges ==
    ASSUME IInv, IInv', NEW j \in Ids, UpdateProviderFeature(j)
    PROVE  C!Next
<1>1. PICK m \in Modes : features' = [features EXCEPT ![j].mode = m]
  BY DEF UpdateProviderFeature
<1>2. features[j] # Null /\ features[j] \in Feature /\ j \in IdsIn(features)
  BY DEF UpdateProviderFeature, IInv, TypeOK, Table, IdsIn
<1>3. PICK p \in Ids : p = features[j].provider /\ providers[p] # Null
  BY <1>2 DEF IInv, Referred, IdsIn
<1>4. PICK i \in Ids : GetProviderConstraintByProviderID(p) = {i} /\ FeaturesOf(p) = {j}
  BY <1>2, <1>3 DEF IInv, OneEach, IdsIn, FeaturesOf
<1>5. /\ [features[j] EXCEPT !.mode = m] \in Feature
      /\ [features[j] EXCEPT !.mode = m].provider = features[j].provider
      /\ [features[j] EXCEPT !.mode = m].mode = m
  BY <1>2 DEF Feature
<1>6. /\ \A q : /\ GetProviderConstraintByProviderID(q)' = GetProviderConstraintByProviderID(q)
                /\ FeaturesOf(q)' = FeaturesOf(q)
      /\ features'[j] = [features[j] EXCEPT !.mode = m]
      /\ \A k \in Ids : k # j => features'[k] = features[k]
      /\ providers' = providers /\ limits' = limits
  BY <1>1, <1>2, <1>5, UpdateFeatureStep DEF UpdateProviderFeature
<1>7. \A q \in Ids \ {p} :
         GetProviderDetailsByProviderID(q)' = GetProviderDetailsByProviderID(q)
  <2> SUFFICES ASSUME NEW q \in Ids \ {p}
               PROVE  GetProviderDetailsByProviderID(q)' = GetProviderDetailsByProviderID(q)
    OBVIOUS
  <2>1. \A k \in FeaturesOf(q) : k \in Ids /\ k # j
    BY <1>3 DEF FeaturesOf, IdsIn
  <2> QED BY <1>6, <2>1, SameEntry
<1>8. GetProviderDetailsByProviderID(p)' = Details(p, <<i, j>>)'
  BY <1>3, <1>4, <1>6, EntryOfNext
<1>9. Details(p, <<i, j>>)' =
         [name |-> providers[p].name, state |-> providers[p].state,
          max |-> limits[i].max, mode |-> m]
  BY <1>5, <1>6 DEF Details
<1>10. FieldChanged(Details(p, <<i, j>>), Details(p, <<i, j>>)')
  BY <1>9 DEF Details, FieldChanged
<1> QED BY <1>3, <1>4, <1>7, <1>8, <1>10, ChangeStep

(* A step that touches none of the three joined tables.                    *)
LEMMA CatalogueKept ==
    ASSUME UNCHANGED <<providers, limits, features>>
    PROVE  Catalogue' = Catalogue
BY DEF Catalogue, GetProviderDetailsByProviderID, Joined, OrNull, Scans, Details,
       GetProviderConstraintByProviderID, FeaturesOf, IdsIn

(* Seen through the details query, the tables implement the catalogue: a   *)
(* provider appears whole, and every statement changes one field of it.    *)
THEOREM CatalogueImplemented == Spec => ImplementsCatalogue
<1>1. Init => C!Init
  <2> SUFFICES ASSUME Init PROVE \A p \in Ids : GetProviderDetailsByProviderID(p) = Null
    BY DEF C!Init, Catalogue
  <2> QED BY DEF Init, Empty, GetProviderDetailsByProviderID
<1>2. IInv /\ IInv' /\ [Next]_vars => [C!Next]_Catalogue
  <2> SUFFICES ASSUME IInv, IInv', [Next]_vars PROVE [C!Next]_Catalogue
    OBVIOUS
  <2>1. ASSUME NEW c \in Calls, Create(c) PROVE [C!Next]_Catalogue
    <3>1. CASE Commit(c) \/ CommitUnseen(c)
      BY <3>1, RegisterStep DEF Commit, CommitUnseen
    <3>2. CASE NewProvider(c) \/ InsertProvider(c) \/ CreateConstraint(c)
               \/ CreateFeatures(c) \/ Fails(c)
      BY <3>2, CatalogueKept
      DEF NewProvider, InsertProvider, CreateConstraint, CreateFeatures, Fails, tables
    <3> QED BY <2>1, <3>1, <3>2 DEF Create
  <2>2. ASSUME NEW i \in Ids, UpdateProvider(i) PROVE C!Next
    <3>1. PICK n \in Names : providers' = [providers EXCEPT ![i].name = n]
      BY <2>2 DEF UpdateProvider
    <3>2. [providers[i] EXCEPT !.name = n] \in Provider
      BY <2>2 DEF UpdateProvider, IInv, TypeOK, Table, Provider
    <3> QED BY <2>2, <3>1, <3>2, ProviderChanges DEF UpdateProvider
  <2>3. ASSUME NEW i \in Ids, DeleteProvider(i) PROVE C!Next
    <3>1. [providers[i] EXCEPT !.state = "deleted"] \in Provider
      BY <2>3 DEF DeleteProvider, IInv, TypeOK, Table, Provider, States
    <3> QED BY <2>3, <3>1, ProviderChanges DEF DeleteProvider
  <2>4. ASSUME NEW i \in Ids, \/ CreateProviderAccessMethod(i)
                              \/ UpdateProviderAccessMethod(i)
                              \/ DeleteProviderAccessMethod(i)
        PROVE  [C!Next]_Catalogue
    BY <2>4, CatalogueKept
    DEF CreateProviderAccessMethod, UpdateProviderAccessMethod, DeleteProviderAccessMethod
  <2>5. CASE UNCHANGED vars
    BY <2>5, CatalogueKept DEF vars
  <2> QED BY <2>1, <2>2, <2>3, <2>4, <2>5, LimitChanges, FeatureChanges DEF Next
<1> QED BY <1>1, <1>2, Invariance, PTL DEF Spec, ImplementsCatalogue, C!Spec

=============================================================================
