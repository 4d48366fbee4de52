-------------------------- MODULE CustomersProofs --------------------------
(***************************************************************************)
(* Proofs about Customers for any sets of ids, business identifiers and    *)
(* requests and any combination of faults.                                 *)
(***************************************************************************)
EXTENDS Customers, TLAPS

-----------------------------------------------------------------------------
(* The steps, seen from the table.                                         *)
TableStep(r) ==
    /\ req[r].stage = "write"
    /\ \/ req[r].op = "create" /\ InsertRow(r)
       \/ req[r].op = "update" /\ UpdateRow(r)
       \/ req[r].op = "delete" /\ SoftDeleteRow(r)

LEMMA TableSteps ==
    ASSUME [Next]_vars
    PROVE  \/ UNCHANGED customers
           \/ \E r \in Requests : TableStep(r)
<1>1. CASE UNCHANGED vars
  BY <1>1 DEF vars
<1>2. CASE \E r \in Requests, op \in Operations, c \in CustomerIds, x \in Cnpjs :
              Submit(r, op, c, x)
  BY <1>2 DEF Submit
<1>3. ASSUME NEW r \in Requests, Handle(r)
      PROVE  UNCHANGED customers \/ TableStep(r)
  BY <1>3 DEF Handle, CreateLookup, CreateWrite, UpdateLookup, UpdateOwner,
              UpdateWrite, DeleteLookup, DeleteWrite, RefusedWrite, At, TableStep
<1>4. ASSUME NEW r \in Requests, StatementFails(r) \/ AcknowledgementLost(r)
      PROVE  UNCHANGED customers \/ TableStep(r)
  BY <1>4 DEF StatementFails, AcknowledgementLost, TableStep
<1>5. CASE Restart
  BY <1>5 DEF Restart
<1>6. QED
  BY <1>1, <1>2, <1>3, <1>4, <1>5 DEF Next

(* The steps, seen from the requests.                                      *)
Fit == \A r \in Requests : ArgumentsFit(req[r])

LEMMA IdleFits ==
    \A answer \in Codes \cup {"none", "lost"} :
       Idle(answer) \in Request /\ ArgumentsFit(Idle(answer))
<1>1. Null # "create" /\ Null \notin {"create", "update"}
  BY NullAssumption DEF Operations
<1>2. QED
  BY <1>1 DEF Idle, Request, ArgumentsFit

LEMMA RequestSteps ==
    ASSUME [Next]_vars, TypeOK, Fit
    PROVE  req' \in [Requests -> Request] /\ Fit'
<1> USE DEF TypeOK, Fit, ArgumentsFit, Request, Stages, Codes, Operations
<1> DEFINE Sound == req' \in [Requests -> Request] /\ Fit'
<1>a. ASSUME NEW r \in Requests, NEW code \in Codes \cup {"lost"}, Answer(r, code)
      PROVE  Sound
  <2>1. /\ req' = [req EXCEPT ![r] = Idle(code)]
        /\ Idle(code) \in Request /\ ArgumentsFit(Idle(code))
    BY <1>a, IdleFits DEF Answer
  <2>2. QED
    BY <2>1
<1>b. ASSUME NEW r \in Requests, NEW s \in Stages, Goto(r, s)
      PROVE  Sound
  BY <1>b DEF Goto
<1>1. CASE UNCHANGED vars
  BY <1>1 DEF vars
<1>2. ASSUME NEW r \in Requests, NEW op \in Operations, NEW c \in CustomerIds,
             NEW x \in Cnpjs, Submit(r, op, c, x)
      PROVE  Sound
  BY <1>2 DEF Submit
<1>3. ASSUME NEW r \in Requests, Handle(r)
      PROVE  Sound
  BY <1>3, <1>a, <1>b
     DEF Handle, CreateLookup, CreateWrite, UpdateLookup, UpdateOwner,
         UpdateWrite, DeleteLookup, DeleteWrite, RefusedWrite
<1>4. ASSUME NEW r \in Requests, StatementFails(r) \/ AcknowledgementLost(r)
      PROVE  Sound
  BY <1>4, <1>a DEF StatementFails, AcknowledgementLost
<1>5. CASE Restart
  <2>1. Idle("lost") \in Request /\ ArgumentsFit(Idle("lost"))
    BY IdleFits
  <2>2. QED
    BY <1>5, <2>1 DEF Restart
<1>6. QED
  BY <1>1, <1>2, <1>3, <1>4, <1>5 DEF Next

-----------------------------------------------------------------------------
(* What the statements do to a row.                                        *)
LEMMA RowFunctions ==
    ASSUME NEW row \in Row, NEW x \in Cnpjs
    PROVE  /\ EditedRow(row, x) \in Row
           /\ EditedRow(row, x).cnpj = x
           /\ EditedRow(row, x).deleted = row.deleted
           /\ Deleted(row) \in Row
           /\ Deleted(row).deleted
BY DEF EditedRow, Deleted, Row

(* A row is put under an id.  The index has to allow it only if the row is *)
(* a living one.                                                           *)
LEMMA PutRow ==
    ASSUME TypeOK, UniqueLiveCnpj, NEW c \in CustomerIds, NEW row \in Row,
           customers' = [customers EXCEPT ![c] = row],
           ~ row.deleted => LiveHolders(row.cnpj) \subseteq {c}
    PROVE  customers' \in [CustomerIds -> Row \cup {Null}] /\ UniqueLiveCnpj'
<1>1. row # Null
  BY NullAssumption
<1>2. /\ customers' \in [CustomerIds -> Row \cup {Null}]
      /\ customers'[c] = row
      /\ \A d \in CustomerIds \ {c} : customers'[d] = customers[d]
  BY DEF TypeOK
<1>3. Live' \subseteq Live \cup {c} /\ (c \in Live' => ~ row.deleted)
  BY <1>1, <1>2 DEF Live, Stored
<1>4. ASSUME c \in Live', NEW d \in Live' \ {c}
      PROVE  customers[d].cnpj # row.cnpj
  BY <1>3, <1>4 DEF LiveHolders
<1>5. ASSUME NEW d \in Live', NEW e \in Live', customers'[d].cnpj = customers'[e].cnpj
      PROVE  d = e
  <2>1. CASE d # c /\ e # c
    BY <1>2, <1>3, <1>5, <2>1 DEF UniqueLiveCnpj, Live, Stored
  <2>2. CASE d = c \/ e = c
    BY <1>2, <1>3, <1>4, <1>5, <2>2 DEF Live, Stored
  <2>3. QED
    BY <2>1, <2>2
<1>6. QED
  BY <1>2, <1>5 DEF UniqueLiveCnpj

LEMMA TableInvStep ==
    ASSUME TypeOK, UniqueLiveCnpj, Fit, [Next]_vars
    PROVE  customers' \in [CustomerIds -> Row \cup {Null}] /\ UniqueLiveCnpj'
<1>1. CASE UNCHANGED customers
  BY <1>1 DEF TypeOK, UniqueLiveCnpj, Live, Stored
<1>2. ASSUME NEW r \in Requests, TableStep(r)
      PROVE  customers' \in [CustomerIds -> Row \cup {Null}] /\ UniqueLiveCnpj'
  <2> DEFINE x == req[r].cnpj
             c == req[r].id
  <2>1. CASE req[r].op = "create" /\ InsertRow(r)
    <3> DEFINE row == [cnpj |-> x, deleted |-> FALSE]
    <3>1. PICK d \in CustomerIds \ Stored : customers' = [customers EXCEPT ![d] = row]
      BY <2>1 DEF InsertRow
    <3>2. LiveHolders(x) = {} /\ x \in Cnpjs
      BY <2>1 DEF InsertRow, IndexAllows, Fit, ArgumentsFit
    <3>3. row \in Row /\ row.cnpj = x
      BY <3>2 DEF Row
    <3> HIDE DEF row
    <3>4. QED
      BY <3>1, <3>2, <3>3, PutRow
  <2>2. CASE req[r].op = "update" /\ UpdateRow(r)
    <3> DEFINE row == EditedRow(customers[c], x)
    <3>1. /\ c \in Stored
          /\ c \in Live => LiveHolders(x) \subseteq {c}
          /\ customers' = [customers EXCEPT ![c] = row]
          /\ x \in Cnpjs
      BY <2>2 DEF UpdateRow, IndexAllows, Fit, ArgumentsFit
    <3>2. c \in CustomerIds /\ customers[c] \in Row
      BY <3>1 DEF Stored, TypeOK
    <3>3. row \in Row /\ row.cnpj = x /\ row.deleted = customers[c].deleted
      BY <3>1, <3>2, RowFunctions
    <3> HIDE DEF row
    <3>4. ~ row.deleted => LiveHolders(row.cnpj) \subseteq {c}
      BY <3>1, <3>3 DEF Live
    <3>5. QED
      BY <3>1, <3>2, <3>3, <3>4, PutRow
  <2>3. CASE req[r].op = "delete" /\ SoftDeleteRow(r)
    <3> DEFINE row == Deleted(customers[c])
    <3>1. c \in Stored /\ customers' = [customers EXCEPT ![c] = row]
      BY <2>3 DEF SoftDeleteRow
    <3>2. c \in CustomerIds /\ customers[c] \in Row
      BY <3>1 DEF Stored, TypeOK
    <3>3. row \in Row /\ row.deleted
      BY <3>2, RowFunctions DEF Row
    <3> HIDE DEF row
    <3>4. QED
      BY <3>1, <3>2, <3>3, PutRow
  <2>4. QED
    BY <1>2, <2>1, <2>2, <2>3 DEF TableStep
<1>3. QED
  BY <1>1, <1>2, TableSteps

-----------------------------------------------------------------------------
LEMMA IInvInit == Init => IInv
<1> SUFFICES ASSUME Init
             PROVE  IInv
  OBVIOUS
<1>1. Idle("none") \in Request /\ ArgumentsFit(Idle("none"))
  BY IdleFits
<1>2. TypeOK /\ UniqueLiveCnpj
  BY <1>1 DEF Init, TypeOK, UniqueLiveCnpj, Live, Stored
<1>3. QED
  BY <1>1, <1>2 DEF Init, IInv

LEMMA IInvStep == IInv /\ [Next]_vars => IInv'
<1> SUFFICES ASSUME IInv, [Next]_vars
             PROVE  IInv'
  OBVIOUS
<1>1. TypeOK /\ UniqueLiveCnpj /\ Fit
  BY DEF IInv, Fit
<1>2. customers' \in [CustomerIds -> Row \cup {Null}] /\ UniqueLiveCnpj'
  BY <1>1, TableInvStep
<1>3. req' \in [Requests -> Request] /\ Fit'
  BY <1>1, RequestSteps
<1>4. QED
  BY <1>2, <1>3 DEF IInv, TypeOK, Fit

(* The strengthened invariant holds of every behaviour. *)
THEOREM Invariance == Spec => []IInv
BY IInvInit, IInvStep, PTL DEF Spec

(* Every reachable state is well typed. *)
THEOREM TypeCorrectness == Spec => []TypeOK
<1>1. IInv => TypeOK
  BY DEF IInv
<1>2. QED
  BY <1>1, Invariance, PTL

(* At most one living customer has a business identifier, although late    *)
(* edits reach deleted rows, which the index does not guard.               *)
THEOREM LiveCnpjsUnique == Spec => []UniqueLiveCnpj
<1>1. IInv => UniqueLiveCnpj
  BY DEF IInv
<1>2. QED
  BY <1>1, Invariance, PTL

(* A customer is never removed from the table and, once deleted, is never  *)
(* brought back by a handler that looked it up before.                     *)
THEOREM DeletionsAreFinal == Spec => DeletionIsFinal
<1>1. ASSUME IInv, [Next]_vars, NEW c \in Stored
      PROVE  c \in Stored' /\ (customers[c].deleted => customers'[c].deleted)
  <2>1. c \in CustomerIds /\ customers[c] \in Row
    BY <1>1 DEF Stored, IInv, TypeOK
  <2>2. CASE UNCHANGED customers
    BY <1>1, <2>2 DEF Stored
  <2>3. ASSUME NEW r \in Requests, TableStep(r)
        PROVE  c \in Stored' /\ (customers[c].deleted => customers'[c].deleted)
    <3>1. CASE customers'[c] = customers[c]
      BY <1>1, <2>1, <3>1 DEF Stored
    <3>2. CASE /\ req[r].op = "update" /\ UpdateRow(r)
               /\ customers'[c] = EditedRow(customers[c], req[r].cnpj)
      <4>1. req[r].cnpj \in Cnpjs
        BY <1>1, <3>2 DEF IInv, ArgumentsFit
      <4> DEFINE row == customers[c]
                 new == EditedRow(row, req[r].cnpj)
      <4> HIDE DEF row
      <4>2. new \in Row /\ new.deleted = row.deleted
        BY <2>1, <4>1, RowFunctions DEF row
      <4> HIDE DEF new
      <4>3. customers'[c] \in Row /\ customers'[c].deleted = customers[c].deleted
        BY <3>2, <4>2 DEF new, row
      <4>4. QED
        BY <2>1, <4>3, NullAssumption DEF Stored
    <3>3. CASE customers'[c] = Deleted(customers[c])
      <4>1. customers'[c] \in Row /\ customers'[c].deleted
        BY <2>1, <3>3 DEF Deleted, Row
      <4>2. QED
        BY <2>1, <4>1, NullAssumption DEF Stored
    <3>4. CASE req[r].op = "create" /\ InsertRow(r)
      <4>1. customers'[c] = customers[c]
        BY <1>1, <2>1, <3>4 DEF InsertRow, IInv, TypeOK
      <4>2. QED
        BY <3>1, <4>1
    <3>5. CASE req[r].op = "update" /\ UpdateRow(r)
      <4>1. customers'[c] = IF c = req[r].id
                            THEN EditedRow(customers[c], req[r].cnpj)
                            ELSE customers[c]
        BY <1>1, <2>1, <3>5 DEF UpdateRow, IInv, TypeOK
      <4>2. QED
        BY <3>1, <3>2, <3>5, <4>1
    <3>6. CASE req[r].op = "delete" /\ SoftDeleteRow(r)
      <4>1. customers'[c] = IF c = req[r].id THEN Deleted(customers[c])
                                             ELSE customers[c]
        BY <1>1, <2>1, <3>6 DEF SoftDeleteRow, IInv, TypeOK
      <4>2. QED
        BY <3>1, <3>3, <4>1
    <3>7. QED
      BY <2>3, <3>4, <3>5, <3>6 DEF TableStep
  <2>4. QED
    BY <1>1, <2>2, <2>3, TableSteps
<1>2. IInv /\ [Next]_vars => HistoryKept
  BY <1>1 DEF HistoryKept
<1>3. QED
  BY <1>2, Invariance, PTL DEF Spec, DeletionIsFinal

-----------------------------------------------------------------------------
(* The refinement: which step of CustomerDirectory each step is.           *)
Calls == [r \in Requests |-> CallOf(r)]

Seen == [c \in CustomerIds |-> IF c \in Live THEN customers[c].cnpj ELSE Null]

LEMMA AnswerCloses ==
    ASSUME TypeOK, NEW r \in Requests, req[r].stage \in Stages,
           NEW code \in Codes \cup {"lost"}, Answer(r, code)
    PROVE  Directory!Close(r, code)
<1>1. Calls[r].answer = "pending"
  BY DEF Calls, CallOf, Stages
<1>2. CallOf(r)' = Directory!Closed(code)
  BY DEF Answer, TypeOK, CallOf, Idle, Directory!Closed
<1>3. \A q \in Requests \ {r} : CallOf(q)' = CallOf(q)
  BY DEF Answer, TypeOK, CallOf
<1>4. Calls' = [Calls EXCEPT ![r] = Directory!Closed(code)]
  BY <1>2, <1>3 DEF Calls
<1>5. QED
  BY <1>1, <1>4 DEF Directory!Close, Directory!Open, Calls

LEMMA MovingOnIsHidden ==
    ASSUME TypeOK, NEW r \in Requests, req[r].stage \in Stages, NEW s \in Stages,
           Goto(r, s)
    PROVE  Calls' = Calls
<1>1. \A q \in Requests : CallOf(q)' = CallOf(q)
  BY DEF Goto, TypeOK, CallOf, Request, Stages
<1>2. QED
  BY <1>1 DEF Calls

(* A living row is a visible customer and nothing else is.                 *)
LEMMA VisibleIsLive ==
    ASSUME TypeOK
    PROVE  /\ Directory!Visible = Live
           /\ \A c \in Live : c \in CustomerIds /\ Seen[c] = customers[c].cnpj
           /\ \A x, id : Directory!Taken(x, id) <=> LiveHolders(x) \ {id} # {}
<1>1. ASSUME NEW c \in Live
      PROVE  c \in CustomerIds /\ customers[c].cnpj # Null
  BY NullAssumption DEF Live, Stored, TypeOK, Row
<1>2. Directory!Visible = Live
  BY <1>1 DEF Directory!Visible, Live, Stored
<1>3. ASSUME NEW x, NEW id
      PROVE  Directory!Taken(x, id) <=> LiveHolders(x) \ {id} # {}
  BY <1>1, <1>2 DEF Directory!Taken, LiveHolders
<1>4. QED
  BY <1>1, <1>2, <1>3 DEF Seen

(* A row put under an id changes what is seen of that id only.             *)
LEMMA PutIsSeen ==
    ASSUME TypeOK, NEW c \in CustomerIds, NEW row \in Row,
           customers' = [customers EXCEPT ![c] = row]
    PROVE  /\ row.deleted => Seen' = [Seen EXCEPT ![c] = Null]
           /\ ~ row.deleted => Seen' = [Seen EXCEPT ![c] = row.cnpj]
<1>1. /\ customers'[c] = row /\ row # Null
      /\ \A d \in CustomerIds \ {c} : customers'[d] = customers[d]
  BY NullAssumption DEF TypeOK
<1>2. /\ c \in Live' <=> ~ row.deleted
      /\ \A d \in CustomerIds \ {c} : d \in Live' <=> d \in Live
  BY <1>1 DEF Live, Stored
<1>3. \A d \in CustomerIds \ {c} : Seen'[d] = Seen[d]
  BY <1>1, <1>2 DEF Seen
<1>4. Seen'[c] = IF c \in Live' THEN row.cnpj ELSE Null
  BY <1>1 DEF Seen
<1>5. Seen \in [CustomerIds -> {Seen[d] : d \in CustomerIds}]
  BY DEF Seen
<1>6. Seen' = [d \in CustomerIds |-> Seen'[d]]
  BY DEF Seen
<1>7. QED
  BY <1>2, <1>3, <1>4, <1>5, <1>6

LEMMA StatementsAreEffects ==
    ASSUME IInv, NEW r \in Requests, TableStep(r), NEW code \in Codes \cup {"lost"}, Answer(r, code)
    PROVE  /\ req[r].op = "create" => Directory!Create(r, code)
           /\ req[r].op = "update" => Directory!Update(r, code)
           /\ req[r].op = "delete" => Directory!Delete(r, code)
<1> DEFINE x == req[r].cnpj
           c == req[r].id
<1>1. /\ Directory!Close(r, code)
      /\ Calls[r].op = req[r].op
      /\ Calls[r].id = c
      /\ Calls[r].cnpj = x
      /\ TypeOK
  BY AnswerCloses DEF TableStep, Stages, IInv, Calls, CallOf
<1>2. ASSUME req[r].op = "create"
      PROVE  Directory!Create(r, code)
  <2> DEFINE row == [cnpj |-> x, deleted |-> FALSE]
  <2>1. PICK d \in CustomerIds \ Stored : customers' = [customers EXCEPT ![d] = row]
    BY <1>2 DEF TableStep, InsertRow
  <2>2. LiveHolders(x) = {} /\ x \in Cnpjs
    BY <1>2 DEF TableStep, InsertRow, IndexAllows, IInv, ArgumentsFit
  <2>3. row \in Row /\ row.cnpj = x /\ ~ row.deleted
    BY <2>2 DEF Row
  <2> HIDE DEF row
  <2>4. Seen' = [Seen EXCEPT ![d] = x]
    <3>1. Seen' = [Seen EXCEPT ![d] = row.cnpj]
      BY <1>1, <2>1, <2>3, PutIsSeen
    <3>2. QED
      BY <2>3, <3>1
  <2>5. d \in CustomerIds \ Directory!Visible
    BY <1>1, VisibleIsLive DEF Live
  <2>6. ~ Directory!Taken(x, Null)
    BY <1>1, <2>2, VisibleIsLive
  <2>7. QED
    BY <1>1, <1>2, <2>4, <2>5, <2>6 DEF Directory!Create, Calls, Seen
<1>3. ASSUME req[r].op = "update"
      PROVE  Directory!Update(r, code)
  <2> DEFINE row == EditedRow(customers[c], x)
  <2>1. /\ c \in Stored
        /\ c \in Live => LiveHolders(x) \subseteq {c}
        /\ customers' = [customers EXCEPT ![c] = row]
        /\ x \in Cnpjs
    BY <1>3 DEF TableStep, UpdateRow, IndexAllows, IInv, ArgumentsFit
  <2>2. c \in CustomerIds /\ customers[c] \in Row
    BY <1>1, <2>1 DEF Stored, TypeOK
  <2>3. row \in Row /\ row.cnpj = x /\ row.deleted = customers[c].deleted
    BY <2>1, <2>2, RowFunctions
  <2> HIDE DEF row
  <2>4. row.deleted <=> c \notin Live
    BY <2>1, <2>3 DEF Live
  <2>5. CASE c \in Live
    <3>1. Seen' = [Seen EXCEPT ![c] = x]
      BY <1>1, <2>1, <2>2, <2>3, <2>4, <2>5, PutIsSeen
    <3>2. ~ Directory!Taken(x, c) /\ c \in Directory!Visible
      BY <1>1, <2>1, <2>5, VisibleIsLive
    <3>3. QED
      BY <1>1, <1>3, <3>1, <3>2 DEF Directory!Update, Calls, Seen
  <2>6. CASE c \notin Live
    <3>1. Seen' = [Seen EXCEPT ![c] = Null]
      BY <1>1, <2>1, <2>2, <2>3, <2>4, <2>6, PutIsSeen
    <3>2. Seen[c] = Null
      BY <2>2, <2>6 DEF Seen
    <3>3. Seen' = Seen
      BY <3>1, <3>2 DEF Seen
    <3>4. c \notin Directory!Visible
      BY <1>1, <2>6, VisibleIsLive
    <3>5. QED
      BY <1>1, <1>3, <3>3, <3>4 DEF Directory!Update, Calls, Seen
  <2>7. QED
    BY <2>5, <2>6
<1>4. ASSUME req[r].op = "delete"
      PROVE  Directory!Delete(r, code)
  <2> DEFINE row == Deleted(customers[c])
  <2>1. c \in Stored /\ customers' = [customers EXCEPT ![c] = row]
    BY <1>4 DEF TableStep, SoftDeleteRow
  <2>2. c \in CustomerIds /\ row \in Row /\ row.deleted
    BY <1>1, <2>1 DEF Stored, TypeOK, Deleted, Row
  <2> HIDE DEF row
  <2>3. Seen' = [Seen EXCEPT ![c] = Null]
    BY <1>1, <2>1, <2>2, PutIsSeen
  <2>4. QED
    BY <1>1, <1>4, <2>3 DEF Directory!Delete, Calls, Seen
<1>5. QED
  BY <1>2, <1>3, <1>4

LEMMA RefusalsAreTrue ==
    ASSUME IInv, NEW r \in Requests, req[r].stage \in Stages, UNCHANGED customers,
           \/ Answer(r, "500")
           \/ /\ Answer(r, "404")
              /\ req[r].op \in {"update", "delete"}
              /\ req[r].id \notin Live
           \/ /\ Answer(r, "409")
              /\ \/ req[r].op = "create" /\ LiveHolders(req[r].cnpj) # {}
                 \/ req[r].op = "update" /\ LiveHolders(req[r].cnpj) \ {req[r].id} # {}
    PROVE  Directory!Refuse(r)
<1>1. /\ TypeOK
      /\ Calls[r].op = req[r].op
      /\ Calls[r].id = req[r].id
      /\ Calls[r].cnpj = req[r].cnpj
  BY DEF IInv, Calls, CallOf
<1>2. \A code \in {"404", "409", "500"} : Answer(r, code) => Directory!Close(r, code)
  BY <1>1, AnswerCloses DEF Codes
<1>3. Seen' = Seen
  BY DEF Seen, Live, Stored
<1>4. CASE Answer(r, "500")
  BY <1>2, <1>3, <1>4 DEF Directory!Refuse, Seen
<1>5. CASE /\ Answer(r, "404")
           /\ req[r].op \in {"update", "delete"}
           /\ req[r].id \notin Live
  BY <1>1, <1>2, <1>3, <1>5, VisibleIsLive DEF Directory!Refuse, Calls, Seen
<1>6. CASE /\ Answer(r, "409")
           /\ \/ req[r].op = "create" /\ LiveHolders(req[r].cnpj) # {}
              \/ req[r].op = "update" /\ LiveHolders(req[r].cnpj) \ {req[r].id} # {}
  <2>1. req[r].op = "create" => req[r].id \notin Live
    BY NullAssumption DEF IInv, ArgumentsFit, Live, Stored
  <2>2. Directory!Taken(Calls[r].cnpj, Calls[r].id)
    BY <1>1, <1>6, <2>1, VisibleIsLive DEF LiveHolders
  <2>3. QED
    BY <1>1, <1>2, <1>3, <1>6, <2>2 DEF Directory!Refuse, Calls, Seen
<1>7. QED
  BY <1>4, <1>5, <1>6

(* Every step of the handlers is a step of the directory or hidden from it.*)
LEMMA StepsRefine ==
    ASSUME IInv, [Next]_vars
    PROVE  [Directory!Next]_<<Seen, Calls>>
<1> USE DEF Stages
<1>1. CASE UNCHANGED vars
  BY <1>1 DEF vars, Calls, CallOf, Seen, Live, Stored
<1>2. ASSUME NEW r \in Requests, NEW op \in Operations, NEW c \in CustomerIds,
             NEW x \in Cnpjs, Submit(r, op, c, x)
      PROVE  Directory!Ask(r)
  <2> DEFINE i == IF op = "create" THEN Null ELSE c
             m == IF op = "delete" THEN Null ELSE x
  <2>1. ~ Directory!Open(r)
    BY <1>2 DEF Submit, Directory!Open, CallOf, IInv, TypeOK, Request, Codes
  <2>2. Calls' = [Calls EXCEPT ![r] =
                     [op |-> op, id |-> i, cnpj |-> m, answer |-> "pending"]]
    BY <1>2 DEF Submit, Calls, CallOf, IInv, TypeOK
  <2>3. i \in CustomerIds \cup {Null} /\ m \in Cnpjs \cup {Null} /\ Seen' = Seen
    BY <1>2 DEF Submit, Seen, Live, Stored
  <2>4. QED
    BY <2>1, <2>2, <2>3 DEF Directory!Ask, Operations, Calls, Seen
<1>3. ASSUME NEW r \in Requests, Handle(r)
      PROVE  Directory!Next \/ UNCHANGED <<Seen, Calls>>
  <2>1. UNCHANGED customers => Seen' = Seen
    BY DEF Seen, Live, Stored
  <2>2. CASE CreateLookup(r)
    BY <2>1, <2>2, RefusalsAreTrue, MovingOnIsHidden
       DEF CreateLookup, At, IInv, Directory!Next
  <2>3. CASE CreateWrite(r)
    <3>1. TableStep(r)
      BY <2>3 DEF CreateWrite, At, TableStep
    <3>2. Directory!Create(r, "201")
      BY <2>3, <3>1, StatementsAreEffects DEF CreateWrite, At, Codes
    <3>3. QED
      BY <3>2 DEF Directory!Next
  <2>4. CASE UpdateLookup(r)
    BY <2>1, <2>4, RefusalsAreTrue, MovingOnIsHidden
       DEF UpdateLookup, At, IInv, Directory!Next
  <2>5. CASE UpdateOwner(r)
    BY <2>1, <2>5, RefusalsAreTrue, MovingOnIsHidden
       DEF UpdateOwner, At, IInv, Directory!Next
  <2>6. CASE UpdateWrite(r)
    <3>1. TableStep(r)
      BY <2>6 DEF UpdateWrite, At, TableStep
    <3>2. Directory!Update(r, "200")
      BY <2>6, <3>1, StatementsAreEffects DEF UpdateWrite, At, Codes
    <3>3. QED
      BY <3>2 DEF Directory!Next
  <2>7. CASE DeleteLookup(r)
    BY <2>1, <2>7, RefusalsAreTrue, MovingOnIsHidden
       DEF DeleteLookup, At, IInv, Directory!Next
  <2>8. CASE DeleteWrite(r)
    <3>1. TableStep(r)
      BY <2>8 DEF DeleteWrite, At, TableStep
    <3>2. Directory!Delete(r, "204")
      BY <2>8, <3>1, StatementsAreEffects DEF DeleteWrite, At, Codes
    <3>3. QED
      BY <3>2 DEF Directory!Next
  <2>9. CASE RefusedWrite(r)
    BY <2>9, RefusalsAreTrue DEF RefusedWrite, Directory!Next
  <2>10. QED
    BY <1>3, <2>2, <2>3, <2>4, <2>5, <2>6, <2>7, <2>8, <2>9 DEF Handle
<1>4. ASSUME NEW r \in Requests, StatementFails(r)
      PROVE  Directory!Next
  BY <1>4, RefusalsAreTrue DEF StatementFails, Directory!Next
<1>5. ASSUME NEW r \in Requests, AcknowledgementLost(r)
      PROVE  Directory!Next
  <2>1. TableStep(r) /\ \E code \in {"500", "lost"} : Answer(r, code)
    BY <1>5 DEF AcknowledgementLost, TableStep
  <2>2. PICK code \in {"500", "lost"} : Answer(r, code)
    BY <2>1
  <2>3. \/ Directory!Create(r, code)
        \/ Directory!Update(r, code)
        \/ Directory!Delete(r, code)
    BY <2>1, <2>2, StatementsAreEffects DEF TableStep, Codes
  <2>4. QED
    BY <2>2, <2>3 DEF Directory!Next
<1>6. CASE Restart
  <2>1. \A r \in Requests : Directory!Open(r) <=> req[r].stage # "idle"
    BY DEF Directory!Open, CallOf, IInv, TypeOK, Request, Codes
  <2>2. \A r \in Requests :
           CallOf(r)' = IF Directory!Open(r) THEN Directory!Closed("lost") ELSE CallOf(r)
    BY <1>6, <2>1 DEF Restart, CallOf, Idle, Directory!Closed
  <2>3. Seen' = Seen
    BY <1>6 DEF Restart, Seen, Live, Stored
  <2>4. Directory!Vanish
    BY <2>2, <2>3 DEF Directory!Vanish, Seen
  <2>5. QED
    BY <2>4 DEF Directory!Next
<1>7. QED
  BY <1>1, <1>2, <1>3, <1>4, <1>5, <1>6 DEF Next, Directory!Next

(* Seen through the API the soft delete is a delete: the handlers          *)
(* implement the directory, whatever interleaves or fails.                 *)
THEOREM DirectoryImplemented == Spec => ImplementsDirectory
<1>1. Init => Directory!Init
  BY DEF Init, Idle, CallOf, Directory!Init, Directory!Closed, Live, Stored
<1>2. IInv /\ [Next]_vars => [Directory!Next]_<<Seen, Calls>>
  BY StepsRefine
<1>3. QED
  BY <1>1, <1>2, Invariance, PTL
     DEF Spec, ImplementsDirectory, Directory!Spec, Calls, Seen
=============================================================================
