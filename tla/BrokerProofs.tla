---------------------------- MODULE BrokerProofs ----------------------------
(***************************************************************************)
(* Theorems about Broker, for any customers and keys, any finite number of *)
(* overlapping requests and any size of the pool.                          *)
(***************************************************************************)
EXTENDS Broker, FiniteSetTheorems, TLAPS

USE PoolAssumption, RequestsAssumption, NullAssumption

-----------------------------------------------------------------------------
(* What the three row operators return.                                    *)
LEMMA OpenedRow ==
    ASSUME NEW stage \in Stages \cup {"idle"}, NEW op \in Ops \cup {Null},
           NEW id \in Customers \cup {Null}
    PROVE  /\ Opened(stage, op, id) \in Request
           /\ Opened(stage, op, id).at = stage
           /\ Opened(stage, op, id).op = op
           /\ Opened(stage, op, id).id = id
           /\ Opened(stage, op, id).answer = "none"
BY DEF Opened, Request, Answers

LEMMA MovedRow ==
    ASSUME NEW q \in Request, NEW stage \in Stages
    PROVE  /\ Moved(q, stage) \in Request
           /\ Moved(q, stage).at = stage
           /\ Moved(q, stage).op = q.op
           /\ Moved(q, stage).id = q.id
           /\ Moved(q, stage).answer = q.answer
BY DEF Moved, Request

LEMMA ClosedRow ==
    ASSUME NEW q \in Request, NEW answer \in Answers
    PROVE  /\ Closed(q, answer) \in Request
           /\ Closed(q, answer).at = "idle"
           /\ Closed(q, answer).op = Null
           /\ Closed(q, answer).id = IF answer \in {"204", "404"} THEN q.id ELSE Null
           /\ Closed(q, answer).answer = answer
BY DEF Closed, Request

-----------------------------------------------------------------------------
(* The connections in use, and what the kinds of step do to them.          *)
LEMMA HoldersFinite ==
    IsFiniteSet(Holders) /\ Cardinality(Holders) \in Nat
<1>1. Holders \subseteq Requests
  BY DEF Holders
<1>2. IsFiniteSet(Holders)
  BY <1>1, FS_Subset
<1> QED
  BY <1>2, FS_CardinalityType

LEMMA HoldersAfter ==
    ASSUME req \in [Requests -> Request], NEW r \in Requests, NEW q,
           req' = [req EXCEPT ![r] = q]
    PROVE  Holders' = IF q.at \in InTx THEN Holders \cup {r} ELSE Holders \ {r}
BY DEF Holders

(* Whatever ends a handler gives back what it held, and no more.           *)
LEMMA FinishReleases ==
    ASSUME IInv, NEW r \in Requests, NEW answer \in Answers, Finish(r, answer)
    PROVE  NoConnectionLeaks' /\ acquired' \in 0 .. PoolSize
<1>1. /\ acquired = Cardinality(Holders)
      /\ acquired \in 0 .. PoolSize
      /\ req \in [Requests -> Request]
      /\ req[r] \in Request
  BY DEF IInv, TypeOK, NoConnectionLeaks
<1>2. Holders' = Holders \ {r}
  BY <1>1, ClosedRow, HoldersAfter DEF Finish, InTx
<1>3. CASE r \in Holders
  <2>1. /\ IsFiniteSet(Holders \ {r})
        /\ Cardinality(Holders \ {r}) = Cardinality(Holders) - 1
    BY <1>3, HoldersFinite, FS_RemoveElement
  <2>2. Cardinality(Holders \ {r}) \in Nat
    BY <2>1, FS_CardinalityType
  <2>3. acquired' = acquired - 1
    BY <1>3 DEF Finish
  <2> QED
    BY <1>1, <1>2, <2>1, <2>2, <2>3 DEF NoConnectionLeaks
<1>4. CASE r \notin Holders
  <2>1. Holders \ {r} = Holders
    BY <1>4
  <2>2. acquired' = acquired
    BY <1>4 DEF Finish
  <2> QED
    BY <1>1, <1>2, <2>1, <2>2 DEF NoConnectionLeaks
<1> QED
  BY <1>3, <1>4

(* A step that stays in its transaction, or outside, takes no connection.  *)
LEMMA HoldersKept ==
    ASSUME IInv, NEW r \in Requests, NEW q, req' = [req EXCEPT ![r] = q],
           q.at \in InTx <=> req[r].at \in InTx, UNCHANGED acquired
    PROVE  NoConnectionLeaks' /\ acquired' \in 0 .. PoolSize
<1>1. req \in [Requests -> Request]
  BY DEF IInv, TypeOK
<1>2. Holders' = Holders
  BY <1>1, HoldersAfter DEF Holders
<1> QED
  BY <1>2 DEF IInv, TypeOK, NoConnectionLeaks

-----------------------------------------------------------------------------
(* A step of one handler that leaves the tables alone keeps everything the *)
(* invariant says of rows, if its new row makes sense and takes no lock    *)
(* that another one has.                                                   *)
LEMMA RowStep ==
    ASSUME IInv, NEW r \in Requests, NEW q \in Request,
           req' = [req EXCEPT ![r] = q], UNCHANGED <<customer, live>>,
           MakesSense(q), TrueAnswer(q),
           q.at \in {"revoke", "commit", "acknowledge"} =>
               \A s \in Requests : Locks(s, q.id) => s = r
    PROVE  /\ req' \in [Requests -> Request]
           /\ AllOrNothing'
           /\ LocksExclude'
           /\ HandlersMakeSense'
           /\ AnswersAreTrue'
<1>1. /\ req \in [Requests -> Request]
      /\ AllOrNothing
      /\ LocksExclude
      /\ HandlersMakeSense
      /\ AnswersAreTrue
  BY DEF IInv, TypeOK
<1>2. /\ req' \in [Requests -> Request]
      /\ req'[r] = q
      /\ \A s \in Requests : s # r => req'[s] = req[s]
  BY <1>1
<1>3. AllOrNothing'
  BY <1>1 DEF AllOrNothing, KeysOf
<1>4. LocksExclude'
  BY <1>1, <1>2 DEF LocksExclude, Locks
<1>5. HandlersMakeSense'
  BY <1>1, <1>2 DEF HandlersMakeSense, MakesSense
<1>6. AnswersAreTrue'
  BY <1>1, <1>2 DEF AnswersAreTrue, TrueAnswer
<1> QED
  BY <1>2, <1>3, <1>4, <1>5, <1>6

(* A handler that is answered keeps the invariant if the answer is true.   *)
LEMMA FinishStep ==
    ASSUME IInv, NEW r \in Requests, NEW answer \in Answers,
           Finish(r, answer), UNCHANGED <<customer, live>>, r \in InFlight,
           answer \in {"204", "404"} => req[r].id \in Customers,
           answer = "204" => customer[req[r].id] = "deleted",
           answer = "404" => customer[req[r].id] = "absent"
    PROVE  IInv'
<1> DEFINE q == Closed(req[r], answer)
<1>1. /\ req \in [Requests -> Request]
      /\ req[r] \in Request
      /\ server \in {"serving", "draining", "down"}
      /\ customer \in [Customers -> {"absent", "present", "deleted"}]
      /\ live \subseteq Customers \X Names
      /\ server # "down"
  BY DEF IInv, TypeOK
<1>2. /\ q \in Request
      /\ q.at = "idle"
      /\ answer \in {"204", "404"} => q.id = req[r].id
      /\ q.answer = answer
  BY <1>1, ClosedRow
<1>3. MakesSense(q) /\ TrueAnswer(q)
  BY <1>2 DEF MakesSense, TrueAnswer, Stages, InTx
<1>4. req' = [req EXCEPT ![r] = q]
  BY DEF Finish
<1> HIDE DEF q
<1>5. /\ req' \in [Requests -> Request]
      /\ AllOrNothing'
      /\ LocksExclude'
      /\ HandlersMakeSense'
      /\ AnswersAreTrue'
  BY <1>2, <1>3, <1>4, RowStep
<1>6. NoConnectionLeaks' /\ acquired' \in 0 .. PoolSize
  BY FinishReleases
<1>7. server' = server
  BY DEF Finish
<1>8. TypeOK'
  BY <1>1, <1>5, <1>6, <1>7 DEF TypeOK
<1> QED
  BY <1>1, <1>5, <1>6, <1>7, <1>8 DEF IInv

(* A handler that goes on keeps the invariant if its row makes sense, it   *)
(* locks nothing that is locked, and its connection is accounted for.      *)
LEMMA GoingStep ==
    ASSUME IInv, NEW r \in Requests, NEW q \in Request,
           req' = [req EXCEPT ![r] = q], UNCHANGED <<server, customer, live>>,
           server # "down", MakesSense(q), TrueAnswer(q),
           q.at \in {"revoke", "commit", "acknowledge"} =>
               \A s \in Requests : Locks(s, q.id) => s = r,
           NoConnectionLeaks', acquired' \in 0 .. PoolSize
    PROVE  IInv'
<1>1. /\ server \in {"serving", "draining", "down"}
      /\ customer \in [Customers -> {"absent", "present", "deleted"}]
      /\ live \subseteq Customers \X Names
  BY DEF IInv, TypeOK
<1>2. /\ req' \in [Requests -> Request]
      /\ AllOrNothing'
      /\ LocksExclude'
      /\ HandlersMakeSense'
      /\ AnswersAreTrue'
  BY RowStep
<1>3. TypeOK'
  BY <1>1, <1>2 DEF TypeOK
<1> QED
  BY <1>2, <1>3 DEF IInv

-----------------------------------------------------------------------------
(* What the invariant says of the slot a step is about.                    *)
LEMMA Slot ==
    ASSUME IInv, NEW r \in Requests
    PROVE  /\ req \in [Requests -> Request]
           /\ req[r] \in Request
           /\ req[r].at # "idle" => r \in InFlight
           /\ r \in InFlight => server # "down"
           /\ MakesSense(req[r])
           /\ TrueAnswer(req[r])
BY DEF IInv, TypeOK, InFlight, At, HandlersMakeSense, AnswersAreTrue

LEMMA ReceiveStep ==
    ASSUME IInv, NEW r \in Requests, NEW op \in Ops, NEW id \in Customers \cup {Null},
           Receive(r, op, id)
    PROVE  IInv'
<1> DEFINE stage == IF op = "provider" THEN "extract" ELSE "lookup"
           q == Opened(stage, op, id)
<1>1. /\ stage \in Stages
      /\ stage \notin InTx
      /\ stage = "extract" => op = "provider"
      /\ stage \in Stages \ {"extract"} =>
            stage = "lookup" /\ op \in {"create", "disable"} /\ id \in Customers
  BY DEF Stages, InTx, Receive, Ops
<1> HIDE DEF stage
<1>2. /\ q \in Request
      /\ q.at = stage
      /\ q.op = op
      /\ q.id = id
      /\ q.answer = "none"
  BY <1>1, OpenedRow
<1>3. /\ req' = [req EXCEPT ![r] = q]
      /\ server # "down"
      /\ UNCHANGED <<server, acquired, customer, live>>
  BY DEF Receive, stage
<1>4. At(r, "idle")
  BY DEF Receive
<1> HIDE DEF q
<1>5. MakesSense(q) /\ TrueAnswer(q)
  BY <1>1, <1>2 DEF MakesSense, TrueAnswer, Stages, InTx
<1>6. q.at \notin InTx /\ req[r].at \notin InTx
  BY <1>1, <1>2, <1>4 DEF At, InTx
<1>7. NoConnectionLeaks' /\ acquired' \in 0 .. PoolSize
  BY <1>2, <1>3, <1>6, HoldersKept
<1> QED
  BY <1>2, <1>3, <1>5, <1>6, <1>7, GoingStep DEF InTx

LEMMA MalformedStep ==
    ASSUME IInv, NEW r \in Requests, Malformed(r)
    PROVE  IInv'
<1> DEFINE q == Closed(Opened("idle", Null, Null), "400")
<1>1. /\ q \in Request
      /\ q.at = "idle"
      /\ q.answer = "400"
  BY OpenedRow, ClosedRow DEF Answers
<1>2. /\ req' = [req EXCEPT ![r] = q]
      /\ server # "down"
      /\ UNCHANGED <<server, acquired, customer, live>>
      /\ req[r].at = "idle"
  BY DEF Malformed, At
<1> HIDE DEF q
<1>3. MakesSense(q) /\ TrueAnswer(q)
  BY <1>1 DEF MakesSense, TrueAnswer, Stages, InTx
<1>4. NoConnectionLeaks' /\ acquired' \in 0 .. PoolSize
  BY <1>1, <1>2, HoldersKept DEF InTx
<1> QED
  BY <1>1, <1>2, <1>3, <1>4, GoingStep

(* The steps that move a handler from one statement to the next.           *)
LEMMA MoveStep ==
    ASSUME IInv, NEW r \in Requests, NEW stage \in Stages, Goto(r, stage),
           UNCHANGED <<server, acquired, customer, live>>, r \in InFlight,
           stage \in InTx <=> req[r].at \in InTx,
           MakesSense(Moved(req[r], stage)),
           stage \in {"revoke", "commit", "acknowledge"} =>
               \A s \in Requests : Locks(s, req[r].id) => s = r
    PROVE  IInv'
<1> DEFINE q == Moved(req[r], stage)
<1>1. /\ q \in Request
      /\ q.at = stage
      /\ q.id = req[r].id
      /\ q.answer = req[r].answer
  BY Slot, MovedRow
<1>2. TrueAnswer(q)
  BY <1>1, Slot DEF TrueAnswer
<1>3. req' = [req EXCEPT ![r] = q]
  BY DEF Goto
<1> HIDE DEF q
<1>4. NoConnectionLeaks' /\ acquired' \in 0 .. PoolSize
  BY <1>1, <1>3, HoldersKept
<1> QED
  BY <1>1, <1>2, <1>3, <1>4, Slot, GoingStep DEF q

LEMMA LookupStep ==
    ASSUME IInv, NEW r \in Requests, Lookup(r)
    PROVE  IInv'
<1>1. /\ req[r].at = "lookup"
      /\ r \in InFlight
      /\ req[r].id \in Customers
      /\ req[r].op \in {"create", "disable"}
      /\ req[r].answer = "none"
  BY Slot DEF Lookup, At, MakesSense, Stages, InTx
<1>2. CASE customer[req[r].id] # "absent"
  <2>1. /\ Goto(r, "begin")
        /\ UNCHANGED <<server, acquired, customer, live>>
    BY <1>2 DEF Lookup
  <2>2. /\ Moved(req[r], "begin").at = "begin"
        /\ Moved(req[r], "begin").op = req[r].op
        /\ Moved(req[r], "begin").id = req[r].id
        /\ Moved(req[r], "begin").answer = req[r].answer
    BY Slot, MovedRow DEF Stages
  <2>3. MakesSense(Moved(req[r], "begin"))
    BY <1>1, <1>2, <2>2 DEF MakesSense, InTx
  <2> QED
    BY <1>1, <2>1, <2>3, MoveStep DEF Stages, InTx
<1>3. CASE customer[req[r].id] = "absent"
  <2> DEFINE answer == IF req[r].op = "disable" THEN "404" ELSE "500"
  <2>1. answer \in {"404", "500"}
    OBVIOUS
  <2>2. Finish(r, answer) /\ UNCHANGED <<customer, live>>
    BY <1>3 DEF Lookup
  <2> HIDE DEF answer
  <2> QED
    BY <1>1, <1>3, <2>1, <2>2, FinishStep DEF Answers
<1> QED
  BY <1>2, <1>3

LEMMA BeginStep ==
    ASSUME IInv, NEW r \in Requests, Begin(r)
    PROVE  IInv'
<1> DEFINE q == Moved(req[r], "write")
<1>1. /\ req[r].at = "begin"
      /\ server # "down"
      /\ req[r].id \in Customers
      /\ req[r].op \in {"create", "disable"}
      /\ customer[req[r].id] # "absent"
      /\ req[r].answer = "none"
      /\ req \in [Requests -> Request]
  BY Slot DEF Begin, At, MakesSense, Stages, InTx
<1>2. /\ q \in Request
      /\ q.at = "write"
      /\ q.op = req[r].op
      /\ q.id = req[r].id
      /\ q.answer = "none"
  BY <1>1, Slot, MovedRow DEF Stages, InTx
<1>3. /\ req' = [req EXCEPT ![r] = q]
      /\ acquired' = acquired + 1
      /\ UNCHANGED <<server, customer, live>>
      /\ acquired < PoolSize
  BY <1>1 DEF Begin, Goto, Blocked, NeedsConnection, FreeConnection
<1> HIDE DEF q
<1>4. MakesSense(q) /\ TrueAnswer(q)
  BY <1>1, <1>2 DEF MakesSense, TrueAnswer
<1>5. Holders' = Holders \cup {r} /\ r \notin Holders
  BY <1>1, <1>2, <1>3, HoldersAfter DEF Holders, InTx
<1>6. Cardinality(Holders \cup {r}) = Cardinality(Holders) + 1
  BY <1>5, HoldersFinite, FS_AddElement
<1>7. NoConnectionLeaks' /\ acquired' \in 0 .. PoolSize
  BY <1>3, <1>5, <1>6 DEF IInv, TypeOK, NoConnectionLeaks
<1> QED
  BY <1>1, <1>2, <1>3, <1>4, <1>7, GoingStep

(* The row lock of the UPDATE: nobody else holds it, or the step waits.    *)
LEMMA DeleteCustomerStep ==
    ASSUME IInv, NEW r \in Requests, DeleteCustomer(r)
    PROVE  IInv'
<1>1. /\ req[r].at = "write"
      /\ req[r].op = "disable"
      /\ r \in InFlight
      /\ ~RowIsLocked(r)
      /\ Goto(r, "revoke")
      /\ UNCHANGED <<server, acquired, customer, live>>
  BY Slot DEF DeleteCustomer, At, Blocked
<1>2. \A s \in Requests : ~Locks(s, req[r].id)
  BY <1>1 DEF RowIsLocked, At
<1>3. /\ Moved(req[r], "revoke").at = "revoke"
      /\ Moved(req[r], "revoke").op = req[r].op
      /\ Moved(req[r], "revoke").id = req[r].id
      /\ Moved(req[r], "revoke").answer = req[r].answer
  BY Slot, MovedRow DEF Stages, InTx
<1>4. MakesSense(Moved(req[r], "revoke"))
  BY <1>1, <1>3, Slot DEF MakesSense, Stages, InTx
<1> QED
  BY <1>1, <1>2, <1>4, MoveStep DEF Stages, InTx

LEMMA RevokeStep ==
    ASSUME IInv, NEW r \in Requests, RevokeAllAPIKeys(r)
    PROVE  IInv'
<1>1. /\ req[r].at = "revoke"
      /\ r \in InFlight
      /\ Goto(r, "commit")
      /\ UNCHANGED <<server, acquired, customer, live>>
  BY Slot DEF RevokeAllAPIKeys, At
<1>2. req[r].id \in Customers /\ Locks(r, req[r].id)
  BY <1>1, Slot DEF MakesSense, Stages, InTx, Locks
<1>3. \A s \in Requests : Locks(s, req[r].id) => s = r
  BY <1>2 DEF IInv, LocksExclude
<1>4. /\ Moved(req[r], "commit").at = "commit"
      /\ Moved(req[r], "commit").op = req[r].op
      /\ Moved(req[r], "commit").id = req[r].id
      /\ Moved(req[r], "commit").answer = req[r].answer
  BY Slot, MovedRow DEF Stages, InTx
<1>5. MakesSense(Moved(req[r], "commit"))
  BY <1>1, <1>4, Slot DEF MakesSense, Stages, InTx
<1> QED
  BY <1>1, <1>3, <1>5, MoveStep DEF Stages, InTx

-----------------------------------------------------------------------------
(* Members of the set of keys that AllOrNothing speaks of.                 *)
LEMMA LiveKeys ==
    AllOrNothing <=>
        \A k : k \in live <=> \E c \in Customers : customer[c] = "present" /\ k \in KeysOf(c)
BY DEF AllOrNothing

(* The commit makes both effects visible in one step, to every handler.    *)
LEMMA CommitStep ==
    ASSUME IInv, NEW r \in Requests, Commit(r)
    PROVE  IInv'
<1> DEFINE q == Moved(req[r], "acknowledge")
           id == req[r].id
<1>1. /\ req[r].at = "commit"
      /\ r \in InFlight
      /\ server # "down"
      /\ id \in Customers
      /\ customer[id] # "absent"
      /\ req[r].op = "disable"
      /\ req[r].answer = "none"
      /\ req \in [Requests -> Request]
  BY Slot DEF Commit, At, MakesSense, Stages, InTx
<1>2. /\ q \in Request
      /\ q.at = "acknowledge"
      /\ q.op = "disable"
      /\ q.id = id
      /\ q.answer = "none"
  BY <1>1, Slot, MovedRow DEF Stages, InTx
<1>3. /\ req' = [req EXCEPT ![r] = q]
      /\ customer' = [customer EXCEPT ![id] = "deleted"]
      /\ live' = live \ KeysOf(id)
      /\ UNCHANGED <<server, acquired>>
  BY <1>1 DEF Commit, Goto
<1> HIDE DEF q, id
<1>4. /\ customer \in [Customers -> {"absent", "present", "deleted"}]
      /\ live \subseteq Customers \X Names
      /\ server \in {"serving", "draining", "down"}
      /\ AllOrNothing
      /\ LocksExclude
      /\ HandlersMakeSense
      /\ AnswersAreTrue
  BY DEF IInv, TypeOK
<1>5. /\ req' \in [Requests -> Request]
      /\ req'[r] = q
      /\ \A s \in Requests : s # r => req'[s] = req[s]
  BY <1>1, <1>2, <1>3
<1>6. /\ customer' \in [Customers -> {"absent", "present", "deleted"}]
      /\ customer'[id] = "deleted"
      /\ \A c \in Customers : c # id => customer'[c] = customer[c]
  BY <1>1, <1>3, <1>4
<1>7. AllOrNothing'
  <2>1. \A c \in Customers : customer'[c] = "present" <=> customer[c] = "present" /\ c # id
    BY <1>6
  <2>2. \A c : \A k \in KeysOf(c) : k \in KeysOf(id) <=> c = id
    BY DEF KeysOf
  <2>3. \A k : k \in live <=> \E c \in Customers : customer[c] = "present" /\ k \in KeysOf(c)
    BY <1>4, LiveKeys
  <2>4. \A k : k \in live' <=> \E c \in Customers : customer'[c] = "present" /\ k \in KeysOf(c)
    BY <1>3, <2>1, <2>2, <2>3
  <2>5. live' = UNION {KeysOf(c) : c \in {d \in Customers : customer'[d] = "present"}}
    BY <2>4
  <2> QED
    BY <2>5 DEF AllOrNothing, KeysOf
<1>8. LocksExclude'
  <2>1. \A s \in Requests, c \in Customers : Locks(s, c)' => Locks(s, c)
    BY <1>1, <1>2, <1>5 DEF Locks, id
  <2> QED
    BY <1>4, <2>1 DEF LocksExclude
<1>9. HandlersMakeSense'
  <2>1. MakesSense(req[r])'
    BY <1>1, <1>2, <1>5, <1>6 DEF MakesSense, Stages, InTx
  <2>2. \A s \in Requests : s # r => MakesSense(req[s])'
    <3> SUFFICES ASSUME NEW s \in Requests, s # r
                 PROVE  MakesSense(req[s])'
      OBVIOUS
    <3>1. MakesSense(req[s]) /\ req'[s] = req[s]
      BY <1>4, <1>5 DEF HandlersMakeSense
    <3>2. req[s].id \in Customers =>
             /\ customer[req[s].id] # "absent" => customer'[req[s].id] # "absent"
             /\ customer[req[s].id] = "deleted" => customer'[req[s].id] = "deleted"
      BY <1>6
    <3> QED
      BY <3>1, <3>2 DEF MakesSense, Stages, InTx
  <2> QED
    BY <2>1, <2>2 DEF HandlersMakeSense
<1>10. AnswersAreTrue'
  <2>1. \A s \in Requests : s # r => TrueAnswer(req[s])'
    <3> SUFFICES ASSUME NEW s \in Requests, s # r
                 PROVE  TrueAnswer(req[s])'
      OBVIOUS
    <3>1. /\ TrueAnswer(req[s])
          /\ req'[s] = req[s]
          /\ req[s].answer \in {"204", "404"} => req[s].id \in Customers
      BY <1>4, <1>5, Slot DEF AnswersAreTrue, MakesSense
    <3> QED
      BY <1>1, <1>6, <3>1 DEF TrueAnswer, id
  <2> QED
    BY <1>2, <1>5, <2>1 DEF AnswersAreTrue, TrueAnswer
<1>11. NoConnectionLeaks' /\ acquired' \in 0 .. PoolSize
  BY <1>1, <1>2, <1>3, HoldersKept DEF InTx
<1>12. live' \subseteq Customers \X Names
  BY <1>3, <1>4
<1>13. TypeOK'
  BY <1>3, <1>4, <1>5, <1>6, <1>11, <1>12 DEF TypeOK
<1> QED
  BY <1>1, <1>3, <1>7, <1>8, <1>9, <1>10, <1>11, <1>13 DEF IInv

(* The steps that answer.                                                  *)
LEMMA AnsweringStep ==
    ASSUME IInv, NEW r \in Requests,
           \/ CreateProvider(r)
           \/ InsertCustomer(r)
           \/ Acknowledge(r)
           \/ StatementFails(r)
           \/ Panics(r)
    PROVE  IInv'
<1>1. CASE CreateProvider(r) \/ InsertCustomer(r) \/ StatementFails(r)
  <2>1. /\ req[r].at # "idle"
        /\ Finish(r, "500")
        /\ UNCHANGED <<customer, live>>
    BY <1>1 DEF CreateProvider, InsertCustomer, StatementFails, At
  <2> QED
    BY <2>1, Slot, FinishStep DEF Answers
<1>2. CASE Panics(r)
  <2>1. /\ req[r].at # "idle"
        /\ Finish(r, "aborted")
        /\ UNCHANGED <<customer, live>>
    BY <1>2 DEF Panics, At
  <2> QED
    BY <2>1, Slot, FinishStep DEF Answers
<1>3. CASE Acknowledge(r)
  <2>1. PICK answer \in {"204", "500"} : Finish(r, answer)
    BY <1>3 DEF Acknowledge
  <2>2. /\ req[r].at = "acknowledge"
        /\ UNCHANGED <<customer, live>>
    BY <1>3 DEF Acknowledge, At
  <2>3. req[r].id \in Customers /\ customer[req[r].id] = "deleted"
    BY <2>2, Slot DEF MakesSense, Stages, InTx
  <2> QED
    BY <2>1, <2>2, <2>3, Slot, FinishStep DEF Answers
<1> QED
  BY <1>1, <1>2, <1>3

-----------------------------------------------------------------------------
(* The end of the process, at whatever statement its handlers are.         *)
LEMMA ExitStep ==
    ASSUME IInv, Exit
    PROVE  IInv'
<1>1. /\ TypeOK
      /\ AllOrNothing
      /\ HandlersMakeSense
      /\ AnswersAreTrue
  BY DEF IInv
<1>2. \A r \in Requests :
        /\ req'[r] \in Request
        /\ req'[r].at = "idle"
        /\ MakesSense(req'[r])
        /\ TrueAnswer(req'[r])
  <2> SUFFICES ASSUME NEW r \in Requests
               PROVE  /\ req'[r] \in Request
                      /\ req'[r].at = "idle"
                      /\ MakesSense(req'[r])
                      /\ TrueAnswer(req'[r])
    OBVIOUS
  <2>1. CASE r \in InFlight
    <3>1. req'[r] = Closed(req[r], "aborted")
      BY <2>1 DEF Exit
    <3>2. /\ Closed(req[r], "aborted") \in Request
          /\ Closed(req[r], "aborted").at = "idle"
          /\ Closed(req[r], "aborted").answer = "aborted"
      BY Slot, ClosedRow DEF Answers
    <3> QED
      BY <3>1, <3>2 DEF MakesSense, TrueAnswer, Stages, InTx
  <2>2. CASE r \notin InFlight
    <3>1. req'[r] = req[r]
      BY <2>2 DEF Exit
    <3> QED
      BY <2>2, <3>1, Slot
  <2> QED
    BY <2>1, <2>2
<1>3. /\ server' = "down"
      /\ acquired' = 0
      /\ UNCHANGED <<customer, live>>
      /\ req' \in [Requests -> Request]
  BY <1>2 DEF Exit
<1>4. TypeOK'
  BY <1>1, <1>3 DEF TypeOK
<1>5. Holders' = {}
  BY <1>2 DEF Holders, InTx
<1>6. NoConnectionLeaks'
  BY <1>3, <1>5, FS_EmptySet DEF NoConnectionLeaks
<1>7. AllOrNothing'
  BY <1>1, <1>3 DEF AllOrNothing, KeysOf
<1>8. LocksExclude'
  BY <1>2 DEF LocksExclude, Locks
<1>9. HandlersMakeSense' /\ AnswersAreTrue'
  BY <1>2, <1>3 DEF HandlersMakeSense, AnswersAreTrue, MakesSense, TrueAnswer
<1>10. InFlight' = {}
  BY <1>2 DEF InFlight, At
<1> QED
  BY <1>4, <1>6, <1>7, <1>8, <1>9, <1>10 DEF IInv

(* Steps that touch neither handlers nor tables.                           *)
LEMMA QuietStep ==
    ASSUME IInv, UNCHANGED <<req, acquired, customer, live>>,
           server' \in {"serving", "draining", "down"},
           server' = "down" => server = "down"
    PROVE  IInv'
BY DEF IInv, TypeOK, NoConnectionLeaks, Holders, AllOrNothing, KeysOf, LocksExclude,
       Locks, HandlersMakeSense, MakesSense, AnswersAreTrue, TrueAnswer, InFlight, At

-----------------------------------------------------------------------------
LEMMA InitInv == Init => IInv
<1> SUFFICES ASSUME Init
             PROVE  IInv
  OBVIOUS
<1>1. /\ Opened("idle", Null, Null) \in Request
      /\ Opened("idle", Null, Null).at = "idle"
      /\ Opened("idle", Null, Null).answer = "none"
  BY OpenedRow
<1>2. \A r \in Requests : /\ req[r] \in Request
                          /\ req[r].at = "idle"
                          /\ req[r].answer = "none"
  BY <1>1 DEF Init
<1>3. AllOrNothing
  BY DEF Init, AllOrNothing
<1>4. live \subseteq Customers \X Names
  BY DEF Init, KeysOf
<1>5. TypeOK
  <2>1. req \in [Requests -> Request]
    BY <1>2 DEF Init
  <2>2. customer \in [Customers -> {"absent", "present", "deleted"}]
    BY DEF Init
  <2> QED
    BY <1>4, <2>1, <2>2 DEF Init, TypeOK
<1>6. Holders = {} /\ InFlight = {}
  BY <1>2 DEF Holders, InFlight, At, InTx
<1>7. NoConnectionLeaks
  BY <1>6, FS_EmptySet DEF NoConnectionLeaks, Init
<1>8. LocksExclude /\ HandlersMakeSense /\ AnswersAreTrue
  BY <1>2 DEF LocksExclude, Locks, HandlersMakeSense, MakesSense, AnswersAreTrue,
              TrueAnswer, Stages, InTx
<1> QED
  BY <1>3, <1>5, <1>6, <1>7, <1>8 DEF IInv

LEMMA NextInv == IInv /\ [Next]_vars => IInv'
<1> SUFFICES ASSUME IInv, [Next]_vars
             PROVE  IInv'
  OBVIOUS
<1>1. ASSUME NEW r \in Requests, Handle(r)
      PROVE  IInv'
  <2>1. ASSUME NEW op \in Ops, NEW id \in Customers \cup {Null}, Receive(r, op, id)
        PROVE  IInv'
    BY <2>1, ReceiveStep
  <2> QED
    BY <1>1, <2>1, MalformedStep, LookupStep, BeginStep, DeleteCustomerStep,
       RevokeStep, CommitStep, AnsweringStep DEF Handle
<1>2. CASE Signal
  BY <1>2, QuietStep DEF Signal
<1>3. CASE Shutdown
  BY <1>3, ExitStep DEF Shutdown, Drained, ShutdownExpires
<1>4. CASE HealthCheckFails
  BY <1>4, ExitStep DEF HealthCheckFails
<1>5. CASE Restart
  BY <1>5, QuietStep DEF Restart
<1>6. CASE UNCHANGED vars
  BY <1>6, QuietStep DEF vars, IInv, TypeOK
<1> QED
  BY <1>1, <1>2, <1>3, <1>4, <1>5, <1>6 DEF Next

-----------------------------------------------------------------------------
(* The inductive invariant: connections, locks, handlers and both tables   *)
(* agree in every reachable state of the broker.                           *)
THEOREM Invariance == Spec => []IInv
BY InitInv, NextInv, PTL DEF Spec

(* Every reachable state of the broker is well typed; in particular no     *)
(* more transactions are open than the pool has connections.               *)
THEOREM TypeCorrectness == Spec => []TypeOK
<1>1. IInv => TypeOK
  BY DEF IInv
<1> QED
  BY <1>1, Invariance, PTL

(* No path out of WithinTransaction keeps a connection: the pool counts as *)
(* taken exactly those of the transactions that are running.               *)
THEOREM ConnectionsComeBack == Spec => []NoConnectionLeaks
<1>1. IInv => NoConnectionLeaks
  BY DEF IInv
<1> QED
  BY <1>1, Invariance, PTL

(* DisableCustomer deletes the customer and revokes its keys, or does      *)
(* neither, whatever fails and wherever the process ends.                  *)
THEOREM DisablesAreAtomic == Spec => []AllOrNothing
<1>1. IInv => AllOrNothing
  BY DEF IInv
<1> QED
  BY <1>1, Invariance, PTL

(* A 204 and a 404 of DisableCustomer tell the truth, now and later.       *)
THEOREM AnswersStayTrue == Spec => []AnswersAreTrue
<1>1. IInv => AnswersAreTrue
  BY DEF IInv
<1> QED
  BY <1>1, Invariance, PTL

(* A pool that is used up, and rows that are locked, belong to handlers    *)
(* that can go on: no number of requests makes them wait in a circle.      *)
THEOREM NeverStuck == Spec => []NoCircularWait
<1>1. IInv => NoCircularWait
  <2> SUFFICES ASSUME IInv, NEW r \in InFlight
               PROVE  \E s \in InFlight : ~Blocked(s)
    BY DEF NoCircularWait
  <2>1. r \in Requests
    BY DEF InFlight
  <2>2. CASE \E s \in Requests : req[s].at \in {"revoke", "commit", "acknowledge"}
    <3>1. PICK s \in Requests : req[s].at \in {"revoke", "commit", "acknowledge"}
      BY <2>2
    <3>2. s \in InFlight
      BY <3>1 DEF InFlight, At
    <3>3. ~Blocked(s)
      BY <3>1 DEF Blocked, NeedsConnection, RowIsLocked, At
    <3> QED
      BY <3>2, <3>3
  <2>3. CASE ~ \E s \in Requests : req[s].at \in {"revoke", "commit", "acknowledge"}
    <3>1. \A s \in Requests : ~RowIsLocked(s)
      BY <2>3 DEF RowIsLocked, Locks
    <3>2. CASE FreeConnection \/ ~NeedsConnection(r)
      BY <2>1, <3>1, <3>2 DEF Blocked
    <3>3. CASE ~FreeConnection
      <4>1. acquired # 0 /\ acquired = Cardinality(Holders)
        BY <3>3 DEF IInv, TypeOK, NoConnectionLeaks, FreeConnection
      <4>2. PICK h \in Holders : TRUE
        BY <4>1, FS_EmptySet
      <4>3. h \in Requests /\ req[h].at \in InTx
        BY <4>2 DEF Holders
      <4>4. h \in InFlight /\ ~NeedsConnection(h)
        BY <4>3 DEF InFlight, At, NeedsConnection, InTx
      <4> QED
        BY <3>1, <4>3, <4>4 DEF Blocked
    <3> QED
      BY <3>2, <3>3
  <2> QED
    BY <2>2, <2>3
<1> QED
  BY <1>1, Invariance, PTL

-----------------------------------------------------------------------------
(* What a client sees of a slot, and what a step of its handler changes    *)
(* in that.                                                                *)
Calls == [r \in Requests |-> CallOf(r)]

View(q) == [phase  |-> IF q.at = "idle" THEN "closed"
                       ELSE IF q.at = "acknowledge" THEN "settled" ELSE "open",
            about  |-> IF q.at = "idle" \/ q.op = "disable" THEN q.id ELSE Null,
            answer |-> q.answer]

LEMMA CallsSeen ==
    \A r \in Requests : Calls[r] = View(req[r])
BY DEF Calls, CallOf, View, At

LEMMA CallsAfter ==
    ASSUME req \in [Requests -> Request], NEW r \in Requests, NEW q,
           req' = [req EXCEPT ![r] = q]
    PROVE  Calls' = [Calls EXCEPT ![r] = View(q)]
<1>1. \A s \in Requests : CallOf(s)' = View(req'[s])
  BY DEF CallOf, View, At
<1>2. \A s \in Requests : CallOf(s) = View(req[s])
  BY DEF CallOf, View, At
<1>3. \A s \in Requests : req'[s] = IF s = r THEN q ELSE req[s]
  OBVIOUS
<1> QED
  BY <1>1, <1>2, <1>3 DEF Calls

(* A step of a handler on its way to the commit is hidden.                 *)
LEMMA GoingOnIsHidden ==
    ASSUME IInv, NEW r \in Requests, NEW stage \in Stages \ {"acknowledge"},
           Goto(r, stage), req[r].at \notin {"idle", "acknowledge"}
    PROVE  Calls' = Calls
<1>1. req \in [Requests -> Request] /\ req[r] \in Request
  BY Slot
<1>2. View(Moved(req[r], stage)) = View(req[r])
  BY <1>1, MovedRow DEF View, Stages, InTx
<1>3. Calls' = [Calls EXCEPT ![r] = View(req[r])]
  BY <1>1, <1>2, CallsAfter DEF Goto
<1> QED
  BY <1>3, CallsSeen DEF Calls

(* An answer is one that BackOffice gives.                                 *)
LEMMA AnswersArePromised ==
    ASSUME IInv, NEW r \in Requests, NEW answer \in {"204", "404", "500", "aborted"},
           Finish(r, answer), UNCHANGED <<customer, live>>, req[r].at # "idle",
           answer = "204" => req[r].at = "acknowledge",
           answer = "404" => /\ req[r].at = "lookup"
                             /\ req[r].op = "disable"
                             /\ customer[req[r].id] = "absent"
    PROVE  Office!Next
<1> DEFINE q == Closed(req[r], answer)
<1>1. req \in [Requests -> Request] /\ req[r] \in Request /\ MakesSense(req[r])
  BY Slot
<1>2. View(q) = Office!Closed(q.id, answer)
  BY <1>1, ClosedRow DEF View, Office!Closed, Answers, Ops
<1>3. q.id = IF answer \in {"204", "404"} THEN req[r].id ELSE Null
  BY <1>1, ClosedRow DEF Answers
<1>4. Calls' = [Calls EXCEPT ![r] = Office!Closed(q.id, answer)]
  BY <1>1, <1>2, CallsAfter DEF Finish
<1> HIDE DEF q
<1>5. Calls[r] = View(req[r])
  BY CallsSeen
<1>6. CASE answer = "204"
  <2>1. Calls[r].phase = "settled" /\ Calls[r].about = req[r].id
    BY <1>1, <1>5, <1>6 DEF View, MakesSense
  <2>2. Office!Confirm(r)
    BY <1>3, <1>4, <1>6, <2>1 DEF Office!Confirm, Office!Phase, Calls
  <2> QED
    BY <2>2 DEF Office!Next
<1>7. CASE answer = "404"
  <2>1. /\ Calls[r].phase = "open"
        /\ Calls[r].about = req[r].id
        /\ req[r].id \in Customers
    BY <1>1, <1>5, <1>7 DEF View, MakesSense, Stages
  <2>2. Office!Deny(r)
    BY <1>3, <1>4, <1>7, <2>1 DEF Office!Deny, Office!Phase, Calls
  <2> QED
    BY <2>2 DEF Office!Next
<1>8. CASE answer \in {"500", "aborted"}
  <2>1. Calls[r].phase # "closed"
    BY <1>5 DEF View
  <2>2. Office!GiveUp(r, answer)
    BY <1>3, <1>4, <1>8, <2>1 DEF Office!GiveUp, Office!Phase, Calls
  <2> QED
    BY <1>8, <2>2 DEF Office!Next
<1> QED
  BY <1>6, <1>7, <1>8

(* What arrives is a call, or is rejected.                                 *)
LEMMA ArrivalsAreAsked ==
    ASSUME IInv, NEW r \in Requests, NEW op \in Ops, NEW id \in Customers \cup {Null},
           Receive(r, op, id)
    PROVE  Office!Next
<1> DEFINE stage == IF op = "provider" THEN "extract" ELSE "lookup"
           q == Opened(stage, op, id)
           about == IF op = "disable" THEN id ELSE Null
<1>1. req \in [Requests -> Request] /\ req[r].at = "idle"
  BY Slot DEF Receive, At
<1>2. View(q) = [phase |-> "open", about |-> about, answer |-> "none"]
  BY DEF View, Opened
<1>3. Calls' = [Calls EXCEPT ![r] = View(q)]
  BY <1>1, CallsAfter DEF Receive
<1>4. Calls[r].phase = "closed"
  <2>1. Calls[r] = View(req[r])
    BY CallsSeen
  <2> QED
    BY <1>1, <2>1 DEF View
<1>5. about \in Customers \cup {Null}
  OBVIOUS
<1>6. UNCHANGED <<customer, live>>
  BY DEF Receive
<1> HIDE DEF q, about
<1>7. Office!Ask(r)
  BY <1>2, <1>3, <1>4, <1>5, <1>6 DEF Office!Ask, Office!Phase, Calls
<1> QED
  BY <1>7 DEF Office!Next

LEMMA MalformedIsRejected ==
    ASSUME IInv, NEW r \in Requests, Malformed(r)
    PROVE  Office!Next
<1> DEFINE q == Closed(Opened("idle", Null, Null), "400")
<1>1. req \in [Requests -> Request] /\ req[r].at = "idle"
  BY Slot DEF Malformed, At
<1>2. View(q) = Office!Closed(Null, "400")
  BY DEF View, Closed, Office!Closed
<1>3. Calls' = [Calls EXCEPT ![r] = View(q)]
  BY <1>1, CallsAfter DEF Malformed
<1>4. Calls[r].phase = "closed"
  <2>1. Calls[r] = View(req[r])
    BY CallsSeen
  <2> QED
    BY <1>1, <2>1 DEF View
<1>5. UNCHANGED <<customer, live>>
  BY DEF Malformed
<1> HIDE DEF q
<1>6. Office!Reject(r)
  BY <1>2, <1>3, <1>4, <1>5 DEF Office!Reject, Office!Phase, Calls
<1> QED
  BY <1>6 DEF Office!Next

(* The commit is the moment a disable takes effect, on both tables.        *)
LEMMA CommitDisables ==
    ASSUME IInv, NEW r \in Requests, Commit(r)
    PROVE  Office!Next
<1> DEFINE q == Moved(req[r], "acknowledge")
           id == req[r].id
<1>1. /\ req \in [Requests -> Request]
      /\ req[r] \in Request
      /\ req[r].at = "commit"
      /\ req[r].op = "disable"
      /\ id \in Customers
      /\ customer[id] # "absent"
      /\ customer \in [Customers -> {"absent", "present", "deleted"}]
  BY Slot DEF Commit, At, MakesSense, Stages, InTx, IInv, TypeOK
<1>2. View(q) = [View(req[r]) EXCEPT !.phase = "settled"]
  BY <1>1, MovedRow DEF View, Stages, InTx
<1>3. Calls' = [Calls EXCEPT ![r] = View(q)]
  BY <1>1, CallsAfter DEF Commit, Goto
<1>4. Calls' = [Calls EXCEPT ![r].phase = "settled"]
  BY <1>2, <1>3, CallsSeen DEF Calls
<1>5. Calls[r].phase = "open" /\ Calls[r].about = id
  <2>1. Calls[r] = View(req[r])
    BY CallsSeen
  <2> QED
    BY <1>1, <2>1 DEF View
<1>6. /\ customer' = [customer EXCEPT ![id] = "deleted"]
      /\ live' = live \ Office!Keys(id)
  BY <1>1 DEF Commit, KeysOf, Office!Keys
<1>7. Office!Disable(r)
  BY <1>1, <1>4, <1>5, <1>6 DEF Office!Disable, Office!Phase, Calls
<1> QED
  BY <1>7 DEF Office!Next

(* The end of the process is the end of every call that is not answered.   *)
LEMMA ExitVanishes ==
    ASSUME IInv, Exit
    PROVE  Office!Next
<1>1. \A r \in Requests :
        CallOf(r)' = IF CallOf(r).phase = "closed" THEN CallOf(r)
                     ELSE Office!Closed(Null, "aborted")
  <2> SUFFICES ASSUME NEW r \in Requests
               PROVE  CallOf(r)' = IF CallOf(r).phase = "closed" THEN CallOf(r)
                                   ELSE Office!Closed(Null, "aborted")
    OBVIOUS
  <2>1. CallOf(r)' = View(req'[r]) /\ CallOf(r) = View(req[r])
    BY DEF CallOf, View, At
  <2>2. req'[r] = IF req[r].at = "idle" THEN req[r] ELSE Closed(req[r], "aborted")
    BY DEF Exit, InFlight, At
  <2>3. View(Closed(req[r], "aborted")) = Office!Closed(Null, "aborted")
    BY DEF View, Closed, Office!Closed
  <2> QED
    BY <2>1, <2>2, <2>3 DEF View
<1>2. UNCHANGED <<customer, live>>
  BY DEF Exit
<1>3. Office!Vanish
  BY <1>1, <1>2 DEF Office!Vanish, Office!Phase
<1> QED
  BY <1>3 DEF Office!Next

LEMMA StepsRefine ==
    IInv /\ [Next]_vars => [Office!Next]_<<customer, live, Calls>>
<1> SUFFICES ASSUME IInv, [Next]_vars
             PROVE  Office!Next \/ UNCHANGED <<customer, live, Calls>>
  OBVIOUS
<1>1. ASSUME NEW r \in Requests, Handle(r)
      PROVE  Office!Next \/ UNCHANGED <<customer, live, Calls>>
  <2>1. CASE \E op \in Ops, id \in Customers \cup {Null} : Receive(r, op, id)
    BY <2>1, ArrivalsAreAsked
  <2>2. CASE Malformed(r)
    BY <2>2, MalformedIsRejected
  <2>3. CASE CreateProvider(r) \/ InsertCustomer(r) \/ Panics(r) \/ StatementFails(r)
    <3>1. PICK answer \in {"500", "aborted"} :
            Finish(r, answer) /\ UNCHANGED <<customer, live>> /\ req[r].at # "idle"
      BY <2>3 DEF CreateProvider, InsertCustomer, Panics, StatementFails, At
    <3> QED
      BY <3>1, AnswersArePromised
  <2>4. CASE Lookup(r)
    <3>1. req[r].at = "lookup" /\ UNCHANGED <<customer, live>>
      BY <2>4 DEF Lookup, At
    <3>2. CASE customer[req[r].id] # "absent"
      <4>1. Goto(r, "begin")
        BY <2>4, <3>2 DEF Lookup
      <4> QED
        BY <3>1, <4>1, GoingOnIsHidden DEF Stages, InTx
    <3>3. CASE customer[req[r].id] = "absent"
      <4> DEFINE answer == IF req[r].op = "disable" THEN "404" ELSE "500"
      <4>1. Finish(r, answer)
        BY <2>4, <3>3 DEF Lookup
      <4> QED
        BY <3>1, <3>3, <4>1, AnswersArePromised
    <3> QED
      BY <3>2, <3>3
  <2>5. CASE Begin(r) \/ DeleteCustomer(r) \/ RevokeAllAPIKeys(r)
    <3>1. PICK stage \in {"write", "revoke", "commit"} :
            /\ Goto(r, stage)
            /\ UNCHANGED <<customer, live>>
            /\ req[r].at \in {"begin", "write", "revoke"}
      BY <2>5 DEF Begin, DeleteCustomer, RevokeAllAPIKeys, At
    <3> QED
      BY <3>1, GoingOnIsHidden DEF Stages, InTx
  <2>6. CASE Commit(r)
    BY <2>6, CommitDisables
  <2>7. CASE Acknowledge(r)
    <3>1. PICK answer \in {"204", "500"} : Finish(r, answer)
      BY <2>7 DEF Acknowledge
    <3>2. req[r].at = "acknowledge" /\ UNCHANGED <<customer, live>>
      BY <2>7 DEF Acknowledge, At
    <3> QED
      BY <3>1, <3>2, AnswersArePromised
  <2> QED
    BY <1>1, <2>1, <2>2, <2>3, <2>4, <2>5, <2>6, <2>7 DEF Handle
<1>2. CASE Shutdown \/ HealthCheckFails
  BY <1>2, ExitVanishes DEF Shutdown, Drained, ShutdownExpires, HealthCheckFails
<1>3. CASE Signal \/ Restart \/ UNCHANGED vars
  BY <1>3 DEF Signal, Restart, vars, Calls, CallOf, At
<1> QED
  BY <1>1, <1>2, <1>3 DEF Next

(* The broker keeps the promise of BackOffice: between the two statements  *)
(* of DisableCustomer, the commit and the answer nobody sees half of it,   *)
(* and what the client is told fits what happened.                         *)
THEOREM BackOfficeImplemented == Spec => ImplementsBackOffice
<1>1. Init => Office!Init
  <2> SUFFICES ASSUME Init PROVE Office!Init
    OBVIOUS
  <2>1. \A r \in Requests : CallOf(r) = Office!Closed(Null, "none")
    BY DEF Init, Opened, CallOf, At, Office!Closed
  <2>2. live = UNION {Office!Keys(c) : c \in {d \in Customers : customer[d] = "present"}}
    BY DEF Init, KeysOf, Office!Keys
  <2>3. customer \in [Customers -> {"absent", "present"}]
    BY DEF Init
  <2> QED
    BY <2>1, <2>2, <2>3 DEF Office!Init
<1> QED
  BY <1>1, StepsRefine, Invariance, PTL DEF Spec, ImplementsBackOffice, Office!Spec, Calls

=============================================================================
