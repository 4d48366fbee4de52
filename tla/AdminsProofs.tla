---------------------------- MODULE AdminsProofs ----------------------------
(***************************************************************************)
(* Proofs about Admins for any sets of ids, addresses and requests and any *)
(* combination of faults.                                                  *)
(***************************************************************************)
EXTENDS Admins, TLAPS

-----------------------------------------------------------------------------
(* The steps, seen from the table: a step leaves it alone, or it is one of *)
(* the four statements, executed by a request at its write stage, or the   *)
(* owner creates a password.                                               *)
TableStep(r) ==
    /\ req[r].stage = "write"
    /\ \/ req[r].op = "create" /\ InsertRow(r)
       \/ req[r].op = "update" /\ UpdateRow(r)
       \/ req[r].op \in {"block", "unblock"} /\ SetStatusRow(r)
       \/ req[r].op = "delete" /\ DeleteRow(r)

LEMMA TableSteps ==
    ASSUME [Next]_vars
    PROVE  \/ UNCHANGED <<admins, issued>>
           \/ \E r \in Requests : TableStep(r)
           \/ \E a \in AdminIds : CreatePassword(a)
<1>1. CASE UNCHANGED vars
  BY <1>1 DEF vars
<1>2. CASE \E r \in Requests, op \in Operations, a \in AdminIds, e \in Emails :
              Submit(r, op, a, e)
  BY <1>2 DEF Submit
<1>3. ASSUME NEW r \in Requests, Handle(r)
      PROVE  UNCHANGED <<admins, issued>> \/ TableStep(r)
  BY <1>3 DEF Handle, CreateLookup, CreateWrite, UpdateLookup, UpdateOwner,
              UpdateWrite, TargetLookup, SetStatusWrite, DeleteWrite,
              RefusedWrite, At, TableStep
<1>4. ASSUME NEW r \in Requests, StatementFails(r) \/ AcknowledgementLost(r)
      PROVE  UNCHANGED <<admins, issued>> \/ TableStep(r)
  BY <1>4 DEF StatementFails, AcknowledgementLost, TableStep
<1>5. CASE Restart
  BY <1>5 DEF Restart
<1>6. QED
  BY <1>1, <1>2, <1>3, <1>4, <1>5 DEF Next

(* The steps, seen from the requests: handlers come and go, and a request  *)
(* that is not answered or submitted only moves to another stage.          *)
Fit == \A r \in Requests : ArgumentsFit(req[r])

LEMMA IdleFits ==
    \A answer \in Codes \cup {"none", "lost"} :
       Idle(answer) \in Request /\ ArgumentsFit(Idle(answer))
<1>1. Null # "create" /\ Null \notin {"create", "update"}
  BY NullAssumption DEF Operations
<1>2. QED
  BY <1>1 DEF Idle, Request, ArgumentsFit

LEMMA RequestSteps ==
    ASSUME [Next]_vars, TypeOK
    PROVE  /\ req' \in [Requests -> Request]
           /\ Fit => Fit'
<1> USE DEF TypeOK, Fit, ArgumentsFit, Request, Stages, Codes, Operations
<1> DEFINE Good(q) == q \in Request /\ ArgumentsFit(q)
<1>a. ASSUME NEW answer \in Codes \cup {"none", "lost"}
      PROVE  Good(Idle(answer))
  BY IdleFits
<1>b. ASSUME NEW r \in Requests, NEW code \in Codes \cup {"lost"}, Answer(r, code)
      PROVE  req' \in [Requests -> Request] /\ (Fit => Fit')
  <2>1. req' = [req EXCEPT ![r] = Idle(code)] /\ Good(Idle(code))
    BY <1>b, <1>a DEF Answer
  <2>2. QED
    BY <2>1
<1>c. ASSUME NEW r \in Requests, NEW s \in Stages, Goto(r, s)
      PROVE  req' \in [Requests -> Request] /\ (Fit => Fit')
  BY <1>c DEF Goto
<1>1. CASE UNCHANGED vars
  BY <1>1 DEF vars
<1>2. ASSUME NEW r \in Requests, NEW op \in Operations, NEW a \in AdminIds,
             NEW e \in Emails, Submit(r, op, a, e)
      PROVE  req' \in [Requests -> Request] /\ (Fit => Fit')
  BY <1>2 DEF Submit
<1>3. ASSUME NEW r \in Requests, Handle(r)
      PROVE  req' \in [Requests -> Request] /\ (Fit => Fit')
  <2>1. CASE CreateLookup(r)
    BY <2>1, <1>b, <1>c DEF CreateLookup
  <2>2. CASE CreateWrite(r)
    BY <2>2, <1>b DEF CreateWrite
  <2>3. CASE UpdateLookup(r)
    <3>1. ASSUME req' = [req EXCEPT ![r].emailChanged = TRUE, ![r].stage = "owner"]
          PROVE  req' \in [Requests -> Request] /\ (Fit => Fit')
      <4> DEFINE moved == [req[r] EXCEPT !.emailChanged = TRUE, !.stage = "owner"]
      <4>1. /\ moved \in Request /\ moved.op = req[r].op /\ moved.id = req[r].id
            /\ moved.email = req[r].email
        OBVIOUS
      <4>2. req' = [req EXCEPT ![r] = moved]
        BY <3>1
      <4> HIDE DEF moved
      <4>3. QED
        BY <4>1, <4>2
    <3>2. QED
      BY <2>3, <3>1, <1>b, <1>c DEF UpdateLookup
  <2>4. CASE UpdateOwner(r)
    BY <2>4, <1>b, <1>c DEF UpdateOwner
  <2>5. CASE UpdateWrite(r)
    BY <2>5, <1>b DEF UpdateWrite
  <2>6. CASE TargetLookup(r)
    BY <2>6, <1>b, <1>c DEF TargetLookup
  <2>7. CASE SetStatusWrite(r)
    BY <2>7, <1>b DEF SetStatusWrite
  <2>8. CASE DeleteWrite(r)
    BY <2>8, <1>b DEF DeleteWrite
  <2>9. CASE RefusedWrite(r)
    BY <2>9, <1>b DEF RefusedWrite
  <2>10. QED
    BY <1>3, <2>1, <2>2, <2>3, <2>4, <2>5, <2>6, <2>7, <2>8, <2>9 DEF Handle
<1>4. ASSUME NEW r \in Requests, StatementFails(r) \/ AcknowledgementLost(r)
      PROVE  req' \in [Requests -> Request] /\ (Fit => Fit')
  BY <1>4, <1>b DEF StatementFails, AcknowledgementLost
<1>5. CASE Restart
  <2>1. Good(Idle("lost"))
    BY <1>a
  <2>2. QED
    BY <1>5, <2>1 DEF Restart
<1>6. ASSUME NEW a \in AdminIds, CreatePassword(a)
      PROVE  req' \in [Requests -> Request] /\ (Fit => Fit')
  BY <1>6 DEF CreatePassword
<1>7. QED
  BY <1>1, <1>2, <1>3, <1>4, <1>5, <1>6 DEF Next

-----------------------------------------------------------------------------
(* The part of the inductive invariant that is about the table, and the    *)
(* only two ways the code ever changes a row: it puts a row under an id,   *)
(* or it removes one.                                                      *)
TableInv ==
    /\ admins \in [AdminIds -> Row \cup {Null}]
    /\ issued \subseteq AdminIds
    /\ UniqueEmails
    /\ CredentialFlag
    /\ LiveIssued

Sound(row) == row \in Row /\ (row.pending <=> row.password = Null)

LEMMA PutRow ==
    ASSUME TableInv, NEW a \in AdminIds, NEW row, Sound(row),
           admins' = [admins EXCEPT ![a] = row],
           Holders(row.email) \subseteq {a},
           issued \subseteq issued', issued' \subseteq AdminIds, a \in issued'
    PROVE  TableInv'
<1>1. row \in Row /\ row # Null
  BY NullAssumption DEF Sound
<1>2. admins' \in [AdminIds -> Row \cup {Null}]
  BY <1>1 DEF TableInv
<1>3. /\ admins'[a] = row
      /\ \A b \in AdminIds \ {a} : admins'[b] = admins[b]
  BY DEF TableInv
<1>4. Live' = Live \cup {a}
  BY <1>1, <1>3 DEF Live
<1>5. UniqueEmails'
  <2>1. \A b \in Live \ {a} : admins[b].email # row.email
    BY DEF Holders
  <2>2. QED
    BY <1>3, <1>4, <2>1 DEF UniqueEmails, TableInv, Live
<1>6. CredentialFlag'
  BY <1>3, <1>4 DEF CredentialFlag, TableInv, Live, Sound
<1>7. LiveIssued'
  BY <1>4 DEF LiveIssued, TableInv
<1>8. QED
  BY <1>2, <1>5, <1>6, <1>7 DEF TableInv

LEMMA DropRow ==
    ASSUME TableInv, NEW a, admins' = [admins EXCEPT ![a] = Null],
           UNCHANGED issued
    PROVE  TableInv'
<1>1. /\ admins' \in [AdminIds -> Row \cup {Null}]
      /\ Live' = Live \ {a}
      /\ \A b \in Live' : admins'[b] = admins[b]
  BY DEF TableInv, Live
<1>2. QED
  BY <1>1 DEF TableInv, UniqueEmails, CredentialFlag, LiveIssued

(* What the statements put is a sound row, whatever the row was before. *)
LEMMA SoundRows ==
    /\ \A e \in Emails : Sound(NewRow(e)) /\ NewRow(e).email = e
    /\ \A row : Sound(row) =>
          /\ Sound(WithPassword(row)) /\ WithPassword(row).email = row.email
          /\ \A op \in Operations : /\ Sound(WithStatus(row, op))
                                    /\ WithStatus(row, op).email = row.email
<1> USE DEF Sound, Row
<1>1. \A e \in Emails : Sound(NewRow(e)) /\ NewRow(e).email = e
  BY DEF NewRow
<1>2. ASSUME NEW row, Sound(row), NEW op \in Operations
      PROVE  Sound(WithStatus(row, op)) /\ WithStatus(row, op).email = row.email
  BY <1>2 DEF WithStatus, StatusOf
<1>3. ASSUME NEW row, Sound(row)
      PROVE  Sound(WithPassword(row)) /\ WithPassword(row).email = row.email
  BY <1>3, NullAssumption DEF WithPassword
<1>4. QED
  BY <1>1, <1>2, <1>3

LEMMA EditedRowSound ==
    ASSUME NEW row, Sound(row), NEW e \in Emails, NEW reset
    PROVE  /\ Sound(EditedRow(row, e, reset))
           /\ EditedRow(row, e, reset).email = e
           /\ EditedRow(row, e, reset).status = row.status
<1> USE DEF Sound, Row
<1>1. CASE reset
  BY <1>1 DEF EditedRow, Reset
<1>2. CASE ~ reset
  BY <1>2 DEF EditedRow
<1>3. QED
  BY <1>1, <1>2

LEMMA LiveRowsSound ==
    ASSUME TableInv, NEW a \in Live
    PROVE  a \in AdminIds /\ Sound(admins[a]) /\ Holders(admins[a].email) \subseteq {a}
BY DEF TableInv, Live, Sound, CredentialFlag, UniqueEmails, Holders

-----------------------------------------------------------------------------
(* The inductive step.                                                     *)
LEMMA TableInvStep ==
    ASSUME TableInv, TypeOK, Fit, [Next]_vars
    PROVE  TableInv'
<1>1. CASE UNCHANGED <<admins, issued>>
  BY <1>1 DEF TableInv, UniqueEmails, CredentialFlag, LiveIssued, Live
<1>2. ASSUME NEW r \in Requests, TableStep(r)
      PROVE  TableInv'
  <2> DEFINE e == req[r].email
             a == req[r].id
  <2>0. /\ req[r] \in Request
        /\ req[r].op \in {"create", "update"} => e \in Emails
    BY DEF TypeOK, Request, Fit, ArgumentsFit
  <2>1. CASE req[r].op = "create" /\ InsertRow(r)
    <3>1. PICK b \in AdminIds \ issued :
             /\ admins' = [admins EXCEPT ![b] = NewRow(e)]
             /\ issued' = issued \cup {b}
      BY <2>1 DEF InsertRow
    <3>2. Sound(NewRow(e)) /\ NewRow(e).email = e
      BY <2>0, <2>1, SoundRows
    <3>3. Holders(e) \subseteq {b}
      BY <2>1 DEF InsertRow, EmailFree
    <3>4. QED
      BY <3>1, <3>2, <3>3, PutRow DEF TableInv
  <2>2. CASE req[r].op = "update" /\ UpdateRow(r)
    <3> DEFINE row == EditedRow(admins[a], e, req[r].emailChanged)
    <3>1. a \in Live /\ Holders(e) \subseteq {a} /\ UNCHANGED issued
          /\ admins' = [admins EXCEPT ![a] = row]
      BY <2>2 DEF UpdateRow, EmailFree
    <3>2. Sound(row) /\ row.email = e
      <4>1. Sound(admins[a]) /\ e \in Emails
        BY <2>0, <2>2, <3>1, LiveRowsSound
      <4>2. QED
        BY <4>1, EditedRowSound
    <3> HIDE DEF row
    <3>3. QED
      BY <3>1, <3>2, LiveRowsSound, PutRow DEF LiveIssued, TableInv
  <2>3. CASE req[r].op \in {"block", "unblock"} /\ SetStatusRow(r)
    <3> DEFINE row == WithStatus(admins[a], req[r].op)
    <3>1. a \in Live /\ UNCHANGED issued /\ admins' = [admins EXCEPT ![a] = row]
      BY <2>3 DEF SetStatusRow
    <3>2. Sound(row) /\ row.email = admins[a].email
      BY <2>3, <3>1, SoundRows, LiveRowsSound DEF Operations
    <3> HIDE DEF row
    <3>3. QED
      BY <3>1, <3>2, LiveRowsSound, PutRow DEF LiveIssued, TableInv
  <2>4. CASE req[r].op = "delete" /\ DeleteRow(r)
    BY <2>4, DropRow DEF DeleteRow
  <2>5. QED
    BY <1>2, <2>1, <2>2, <2>3, <2>4 DEF TableStep
<1>3. ASSUME NEW a \in AdminIds, CreatePassword(a)
      PROVE  TableInv'
  <2> DEFINE row == WithPassword(admins[a])
  <2>1. admins' = [admins EXCEPT ![a] = row] /\ UNCHANGED issued /\ a \in Live
    BY <1>3 DEF CreatePassword
  <2>2. Sound(row) /\ row.email = admins[a].email
    BY <2>1, SoundRows, LiveRowsSound
  <2> HIDE DEF row
  <2>3. QED
    BY <2>1, <2>2, LiveRowsSound, PutRow DEF LiveIssued, TableInv
<1>4. QED
  BY <1>1, <1>2, <1>3, TableSteps

(* The conjunction of the parts is inductive. *)
LEMMA IInvInit == Init => IInv
<1> SUFFICES ASSUME Init PROVE IInv
  OBVIOUS
<1>1. Live = {}
  BY DEF Init, Live
<1>2. Idle("none") \in Request /\ ArgumentsFit(Idle("none"))
  BY IdleFits
<1>3. TypeOK
  BY <1>2 DEF Init, TypeOK
<1>4. QED
  BY <1>1, <1>2, <1>3
     DEF Init, IInv, UniqueEmails, CredentialFlag, LiveIssued

LEMMA IInvStep == IInv /\ [Next]_vars => IInv'
<1> SUFFICES ASSUME IInv, [Next]_vars PROVE IInv'
  OBVIOUS
<1>1. TypeOK /\ TableInv /\ Fit
  BY DEF IInv, TableInv, TypeOK, Fit
<1>2. TableInv'
  BY <1>1, TableInvStep
<1>3. req' \in [Requests -> Request] /\ Fit'
  BY <1>1, RequestSteps
<1>4. QED
  BY <1>2, <1>3 DEF IInv, TableInv, TypeOK, Fit

(* The strengthened invariant holds of every behaviour. *)
THEOREM Invariance == Spec => []IInv
BY IInvInit, IInvStep, PTL DEF Spec

(* Every reachable state is well typed. *)
THEOREM TypeCorrectness == Spec => []TypeOK
<1>1. IInv => TypeOK
  BY DEF IInv
<1>2. QED
  BY <1>1, Invariance, PTL

(* Two administrators never share an address, although the handlers check  *)
(* first and write later without a transaction: the unique index decides.  *)
THEOREM EmailsStayUnique == Spec => []UniqueEmails
<1>1. IInv => UniqueEmails
  BY DEF IInv
<1>2. QED
  BY <1>1, Invariance, PTL

(* password_hash and is_password_creation_pending never contradict one     *)
(* another.                                                                *)
THEOREM CredentialFlagHolds == Spec => []CredentialFlag
<1>1. IInv => CredentialFlag
  BY DEF IInv
<1>2. QED
  BY <1>1, Invariance, PTL

-----------------------------------------------------------------------------
(* What a step can do to one living row. *)
LEMMA RowSteps ==
    ASSUME IInv, [Next]_vars, NEW a \in Live
    PROVE  \/ admins'[a] = admins[a]
           \/ admins'[a] = WithPassword(admins[a])
           \/ \E r \in Requests :
                 /\ req[r].id = a
                 /\ req[r].stage = "write"
                 /\ \/ /\ req[r].op = "update"
                       /\ admins'[a] = EditedRow(admins[a], req[r].email,
                                                 req[r].emailChanged)
                    \/ /\ req[r].op \in {"block", "unblock"}
                       /\ admins'[a] = WithStatus(admins[a], req[r].op)
                    \/ /\ req[r].op = "delete"
                       /\ admins'[a] = Null
<1> USE DEF IInv, TypeOK, Live
<1>1. CASE UNCHANGED <<admins, issued>>
  BY <1>1
<1>2. ASSUME NEW r \in Requests, TableStep(r)
      PROVE  \/ admins'[a] = admins[a]
             \/ /\ req[r].id = a
                /\ req[r].stage = "write"
                /\ \/ /\ req[r].op = "update"
                      /\ admins'[a] = EditedRow(admins[a], req[r].email,
                                                req[r].emailChanged)
                   \/ /\ req[r].op \in {"block", "unblock"}
                      /\ admins'[a] = WithStatus(admins[a], req[r].op)
                   \/ /\ req[r].op = "delete"
                      /\ admins'[a] = Null
  <2>1. CASE req[r].op = "create" /\ InsertRow(r)
    BY <2>1 DEF InsertRow, LiveIssued
  <2>2. CASE req[r].op = "update" /\ UpdateRow(r)
    BY <1>2, <2>2 DEF UpdateRow, TableStep
  <2>3. CASE req[r].op \in {"block", "unblock"} /\ SetStatusRow(r)
    BY <1>2, <2>3 DEF SetStatusRow, TableStep
  <2>4. CASE req[r].op = "delete" /\ DeleteRow(r)
    BY <1>2, <2>4 DEF DeleteRow, TableStep
  <2>5. QED
    BY <1>2, <2>1, <2>2, <2>3, <2>4 DEF TableStep
<1>3. ASSUME NEW b \in AdminIds, CreatePassword(b)
      PROVE  admins'[a] = admins[a] \/ admins'[a] = WithPassword(admins[a])
  BY <1>3 DEF CreatePassword
<1>4. QED
  BY <1>1, <1>2, <1>3, TableSteps

(* A deleted administrator is never brought back by a handler that looked  *)
(* it up before the deletion.                                              *)
THEOREM DeletedStayDeleted == Spec => NoResurrection
<1>1. ASSUME IInv, [Next]_vars, NEW a \in issued, admins[a] = Null
      PROVE  admins'[a] = Null
  <2> USE DEF IInv, TypeOK, Live
  <2>1. CASE UNCHANGED <<admins, issued>>
    BY <1>1, <2>1
  <2>2. ASSUME NEW r \in Requests, TableStep(r)
        PROVE  admins'[a] = Null
    BY <1>1, <2>2 DEF TableStep, InsertRow, UpdateRow, SetStatusRow, DeleteRow
  <2>3. ASSUME NEW b \in AdminIds, CreatePassword(b)
        PROVE  admins'[a] = Null
    BY <1>1, <2>3 DEF CreatePassword
  <2>4. QED
    BY <1>1, <2>1, <2>2, <2>3, TableSteps
<1>2. IInv /\ [Next]_vars => DeletedStaysDeleted
  BY <1>1 DEF DeletedStaysDeleted
<1>3. QED
  BY <1>2, Invariance, PTL DEF Spec, NoResurrection

(* Only a block or unblock request changes a status: an edit that races it *)
(* cannot undo it.                                                         *)
THEOREM StatusIsRequested == Spec => StatusFollowsRequests
<1>1. ASSUME IInv, [Next]_vars, NEW a \in Live,
             admins'[a] # Null, admins'[a].status # admins[a].status
      PROVE  \E r \in Requests :
                /\ req[r].op = (IF admins'[a].status = "BLOCKED"
                                THEN "block" ELSE "unblock")
                /\ req[r].id = a
                /\ req[r].stage = "write"
  <2>1. Sound(admins[a])
    BY <1>1, LiveRowsSound DEF IInv, TableInv, TypeOK
  <2>2. WithPassword(admins[a]).status = admins[a].status
    BY <2>1 DEF WithPassword, Sound, Row
  <2>3. ASSUME NEW r \in Requests, req[r].op = "update"
        PROVE  EditedRow(admins[a], req[r].email, req[r].emailChanged).status
                  = admins[a].status
    BY <1>1, <2>1, <2>3, EditedRowSound DEF IInv, ArgumentsFit
  <2>4. \A op : WithStatus(admins[a], op).status = StatusOf(op)
    BY <2>1 DEF WithStatus, Sound, Row
  <2>5. PICK r \in Requests : /\ req[r].op \in {"block", "unblock"}
                              /\ req[r].id = a
                              /\ req[r].stage = "write"
                              /\ admins'[a].status = StatusOf(req[r].op)
    BY <1>1, <2>2, <2>3, <2>4, RowSteps
  <2>6. QED
    BY <2>5 DEF StatusOf
<1>2. IInv /\ [Next]_vars => StatusChangeIsRequested
  BY <1>1 DEF StatusChangeIsRequested
<1>3. QED
  BY <1>2, Invariance, PTL DEF Spec, StatusFollowsRequests

(* A password is lost only to an edit that saw the address change.         *)
THEOREM PasswordsLostByEdits == Spec => PasswordLostByEditOnly
<1>1. ASSUME IInv, [Next]_vars, NEW a \in Live, admins'[a] # Null,
             admins[a].password # Null, admins'[a].password = Null
      PROVE  /\ admins'[a].pending
             /\ \E r \in Requests : /\ At(r, "update", "write")
                                    /\ req[r].id = a
                                    /\ req[r].emailChanged
  <2>1. Sound(admins[a])
    BY <1>1, LiveRowsSound DEF IInv, TableInv, TypeOK
  <2>2. WithPassword(admins[a]).password # Null
    BY <2>1, NullAssumption DEF WithPassword, Sound, Row
  <2>3. \A op : WithStatus(admins[a], op).password = admins[a].password
    BY <2>1 DEF WithStatus, Sound, Row
  <2>4. PICK r \in Requests :
           /\ At(r, "update", "write") /\ req[r].id = a
           /\ admins'[a] = EditedRow(admins[a], req[r].email, req[r].emailChanged)
    BY <1>1, <2>2, <2>3, RowSteps DEF At
  <2>5. CASE req[r].emailChanged
    <3>1. admins'[a].pending
      BY <2>1, <2>4, <2>5 DEF EditedRow, Reset, Sound, Row
    <3>2. QED
      BY <2>4, <2>5, <3>1
  <2>6. CASE ~ req[r].emailChanged
    BY <1>1, <2>1, <2>4, <2>6 DEF EditedRow, Sound, Row
  <2>7. QED
    BY <2>5, <2>6
<1>2. IInv /\ [Next]_vars => PasswordLossIsEdit
  BY <1>1 DEF PasswordLossIsEdit
<1>3. QED
  BY <1>2, Invariance, PTL DEF Spec, PasswordLostByEditOnly

-----------------------------------------------------------------------------
(* The refinement: which step of AdminRegistry each step is.               *)
Calls == [r \in Requests |-> CallOf(r)]

LEMMA AnswerCloses ==
    ASSUME TypeOK, NEW r \in Requests, req[r].stage \in Stages,
           NEW code \in Codes \cup {"lost"}, Answer(r, code)
    PROVE  Registry!Close(r, code)
<1>1. Calls[r].answer = "pending"
  BY DEF Calls, CallOf, Stages
<1>2. CallOf(r)' = Registry!Closed(code)
  BY DEF Answer, TypeOK, CallOf, Idle, Registry!Closed
<1>3. \A q \in Requests \ {r} : CallOf(q)' = CallOf(q)
  BY DEF Answer, TypeOK, CallOf
<1>4. Calls' = [Calls EXCEPT ![r] = Registry!Closed(code)]
  BY <1>2, <1>3 DEF Calls
<1>5. QED
  BY <1>1, <1>4 DEF Registry!Close, Registry!Open, Calls

LEMMA MovingOnIsHidden ==
    ASSUME TypeOK, NEW r \in Requests, req[r].stage \in Stages, NEW s \in Stages,
           \/ Goto(r, s)
           \/ req' = [req EXCEPT ![r].emailChanged = TRUE, ![r].stage = s]
    PROVE  Calls' = Calls
<1>1. \A q \in Requests : CallOf(q)' = CallOf(q)
  BY DEF Goto, TypeOK, CallOf, Request, Stages
<1>2. QED
  BY <1>1 DEF Calls

(* The four statements, with the answer that follows them, are the four    *)
(* effects of the registry.                                                *)
LEMMA StatementsAreEffects ==
    ASSUME IInv, NEW r \in Requests, TableStep(r), NEW code \in Codes \cup {"lost"}, Answer(r, code)
    PROVE  /\ req[r].op = "create" => Registry!Enrol(r, code)
           /\ req[r].op = "update" => Registry!Edit(r, code)
           /\ req[r].op \in {"block", "unblock"} => Registry!SetStatus(r, code)
           /\ req[r].op = "delete" => Registry!Remove(r, code)
<1>1. /\ Registry!Close(r, code)
      /\ Calls[r].op = req[r].op
      /\ Calls[r].id = req[r].id
      /\ Calls[r].email = req[r].email
  BY AnswerCloses DEF TableStep, Stages, IInv, Calls, CallOf
<1>2. Registry!Live = Live
  BY DEF Registry!Live, Live
<1>3. ASSUME req[r].op = "create"
      PROVE  Registry!Enrol(r, code)
  <2>1. InsertRow(r)
    BY <1>3 DEF TableStep
  <2>2. ~ Registry!HeldByOther(Calls[r].email, Null)
    BY <1>1, <1>2, <2>1 DEF InsertRow, EmailFree, Holders, Registry!HeldByOther
  <2>3. QED
    BY <1>1, <1>3, <2>1, <2>2 DEF InsertRow, NewRow, Registry!Enrol, Calls
<1>4. ASSUME req[r].op = "update"
      PROVE  Registry!Edit(r, code)
  <2> DEFINE a == req[r].id
             e == req[r].email
             moved == [admins[a] EXCEPT !.email = e]
             withdrawn == [moved EXCEPT !.password = Null, !.pending = TRUE]
  <2>1. UpdateRow(r) /\ a \in Live
    BY <1>4 DEF TableStep, UpdateRow
  <2>2. Sound(admins[a])
    BY <2>1, LiveRowsSound DEF IInv, TableInv, TypeOK
  <2>3. EditedRow(admins[a], e, req[r].emailChanged) \in {moved, withdrawn}
    <3>1. CASE req[r].emailChanged
      BY <2>2, <3>1 DEF EditedRow, Reset, Sound, Row
    <3>2. CASE ~ req[r].emailChanged
      BY <3>2 DEF EditedRow
    <3>3. QED
      BY <3>1, <3>2
  <2>4. \/ admins' = [admins EXCEPT ![a] = moved]
        \/ admins' = [admins EXCEPT ![a] = withdrawn]
    BY <2>1, <2>3 DEF UpdateRow
  <2>5. ~ Registry!HeldByOther(e, a)
    BY <1>2, <2>1 DEF UpdateRow, EmailFree, Holders, Registry!HeldByOther
  <2>6. UNCHANGED issued
    BY <2>1 DEF UpdateRow
  <2>7. QED
    BY <1>1, <1>2, <1>4, <2>1, <2>4, <2>5, <2>6 DEF Registry!Edit, Calls
<1>5. ASSUME req[r].op \in {"block", "unblock"}
      PROVE  Registry!SetStatus(r, code)
  <2>1. SetStatusRow(r)
    BY <1>5 DEF TableStep
  <2>2. QED
    BY <1>1, <1>2, <1>5, <2>1
       DEF SetStatusRow, WithStatus, StatusOf, Registry!SetStatus, Calls
<1>6. ASSUME req[r].op = "delete"
      PROVE  Registry!Remove(r, code)
  <2>1. DeleteRow(r)
    BY <1>6 DEF TableStep
  <2>2. QED
    BY <1>1, <1>6, <2>1 DEF DeleteRow, Registry!Remove, Calls
<1>7. QED
  BY <1>3, <1>4, <1>5, <1>6

LEMMA RefusalsAreTrue ==
    ASSUME IInv, NEW r \in Requests, req[r].stage \in Stages,
           UNCHANGED <<admins, issued>>,
           \/ Answer(r, "500")
           \/ Answer(r, "404") /\ req[r].op # "create" /\ req[r].id \notin Live
           \/ /\ Answer(r, "409")
              /\ \/ req[r].op = "create" /\ Holders(req[r].email) # {}
                 \/ req[r].op = "update" /\ Holders(req[r].email) \ {req[r].id} # {}
    PROVE  Registry!Refuse(r)
<1>1. /\ Calls[r].op = req[r].op
      /\ Calls[r].id = req[r].id
      /\ Calls[r].email = req[r].email
      /\ Registry!Live = Live
  BY DEF Calls, CallOf, Registry!Live, Live
<1>2. \A code \in {"404", "409", "500"} : Answer(r, code) => Registry!Close(r, code)
  BY AnswerCloses DEF IInv, Codes
<1>3. CASE Answer(r, "500")
  BY <1>2, <1>3 DEF Registry!Refuse
<1>4. CASE Answer(r, "404") /\ req[r].op # "create" /\ req[r].id \notin Live
  BY <1>1, <1>2, <1>4 DEF Registry!Refuse, Calls
<1>5. CASE /\ Answer(r, "409")
           /\ \/ req[r].op = "create" /\ Holders(req[r].email) # {}
              \/ req[r].op = "update" /\ Holders(req[r].email) \ {req[r].id} # {}
  <2>1. req[r].op = "create" => req[r].id \notin Live
    BY NullAssumption DEF IInv, ArgumentsFit, Live
  <2>2. Registry!HeldByOther(Calls[r].email, Calls[r].id)
    BY <1>1, <1>5, <2>1 DEF Holders, Registry!HeldByOther
  <2>3. QED
    BY <1>1, <1>2, <1>5, <2>2 DEF Registry!Refuse, Calls
<1>6. QED
  BY <1>3, <1>4, <1>5

(* Every step of the handlers is a step of the registry or hidden from it. *)
LEMMA StepsRefine ==
    ASSUME IInv, [Next]_vars
    PROVE  [Registry!Next]_<<admins, issued, Calls>>
<1> USE DEF Stages
<1>1. CASE UNCHANGED vars
  BY <1>1 DEF vars, Calls, CallOf
<1>2. ASSUME NEW r \in Requests, NEW op \in Operations, NEW a \in AdminIds,
             NEW e \in Emails, Submit(r, op, a, e)
      PROVE  Registry!Ask(r)
  <2> DEFINE i == IF op = "create" THEN Null ELSE a
             m == IF op \in {"create", "update"} THEN e ELSE Null
  <2>1. ~ Registry!Open(r)
    BY <1>2 DEF Submit, Registry!Open, CallOf, IInv, TypeOK, Request, Codes
  <2>2. Calls' = [Calls EXCEPT ![r] =
                     [op |-> op, id |-> i, email |-> m, answer |-> "pending"]]
    BY <1>2 DEF Submit, Calls, CallOf, IInv, TypeOK
  <2>3. i \in AdminIds \cup {Null} /\ m \in Emails \cup {Null} /\ UNCHANGED <<admins, issued>>
    BY <1>2 DEF Submit
  <2>4. QED
    BY <2>1, <2>2, <2>3 DEF Registry!Ask, Operations, Calls
<1>3. ASSUME NEW r \in Requests, Handle(r)
      PROVE  Registry!Next \/ UNCHANGED <<admins, issued, Calls>>
  <2>1. CASE CreateLookup(r)
    BY <2>1, RefusalsAreTrue, MovingOnIsHidden
       DEF CreateLookup, At, IInv, Registry!Next
  <2>2. CASE CreateWrite(r)
    <3>1. TableStep(r)
      BY <2>2 DEF CreateWrite, At, TableStep
    <3>2. Registry!Enrol(r, "201")
      BY <2>2, <3>1, StatementsAreEffects DEF CreateWrite, At, Codes
    <3>3. QED
      BY <3>2 DEF Registry!Next
  <2>3. CASE UpdateLookup(r)
    BY <2>3, RefusalsAreTrue, MovingOnIsHidden
       DEF UpdateLookup, At, IInv, Registry!Next
  <2>4. CASE UpdateOwner(r)
    BY <2>4, RefusalsAreTrue, MovingOnIsHidden
       DEF UpdateOwner, At, IInv, Registry!Next
  <2>5. CASE UpdateWrite(r)
    <3>1. TableStep(r)
      BY <2>5 DEF UpdateWrite, At, TableStep
    <3>2. Registry!Edit(r, "200")
      BY <2>5, <3>1, StatementsAreEffects DEF UpdateWrite, At, Codes
    <3>3. QED
      BY <3>2 DEF Registry!Next
  <2>6. CASE TargetLookup(r)
    BY <2>6, RefusalsAreTrue, MovingOnIsHidden
       DEF TargetLookup, IInv, Registry!Next
  <2>7. CASE SetStatusWrite(r)
    <3>1. TableStep(r)
      BY <2>7 DEF SetStatusWrite, TableStep
    <3>2. Registry!SetStatus(r, "200")
      BY <2>7, <3>1, StatementsAreEffects DEF SetStatusWrite, Codes
    <3>3. QED
      BY <3>2 DEF Registry!Next
  <2>8. CASE DeleteWrite(r)
    <3>1. TableStep(r)
      BY <2>8 DEF DeleteWrite, At, TableStep
    <3>2. Registry!Remove(r, "204")
      BY <2>8, <3>1, StatementsAreEffects DEF DeleteWrite, At, Codes
    <3>3. QED
      BY <3>2 DEF Registry!Next
  <2>9. CASE RefusedWrite(r)
    BY <2>9, RefusalsAreTrue DEF RefusedWrite, Registry!Next
  <2>10. QED
    BY <1>3, <2>1, <2>2, <2>3, <2>4, <2>5, <2>6, <2>7, <2>8, <2>9 DEF Handle
<1>4. ASSUME NEW r \in Requests, StatementFails(r)
      PROVE  Registry!Next
  BY <1>4, RefusalsAreTrue DEF StatementFails, Registry!Next
<1>5. ASSUME NEW r \in Requests, AcknowledgementLost(r)
      PROVE  Registry!Next
  <2>1. TableStep(r) /\ \E code \in {"500", "lost"} : Answer(r, code)
    BY <1>5 DEF AcknowledgementLost, TableStep
  <2>2. PICK code \in {"500", "lost"} : Answer(r, code)
    BY <2>1
  <2>3. \/ Registry!Enrol(r, code)
        \/ Registry!Edit(r, code)
        \/ Registry!SetStatus(r, code)
        \/ Registry!Remove(r, code)
    BY <2>1, <2>2, StatementsAreEffects DEF TableStep, Codes
  <2>4. QED
    BY <2>2, <2>3 DEF Registry!Next
<1>6. CASE Restart
  <2>1. \A r \in Requests : Registry!Open(r) <=> req[r].stage # "idle"
    BY DEF Registry!Open, CallOf, IInv, TypeOK, Request, Codes
  <2>2. \A r \in Requests :
           CallOf(r)' = IF Registry!Open(r) THEN Registry!Closed("lost") ELSE CallOf(r)
    BY <1>6, <2>1 DEF Restart, CallOf, Idle, Registry!Closed
  <2>3. Registry!Vanish
    BY <1>6, <2>2 DEF Restart, Registry!Vanish
  <2>4. QED
    BY <2>3 DEF Registry!Next
<1>7. ASSUME NEW a \in AdminIds, CreatePassword(a)
      PROVE  Registry!CreatePassword(a)
  BY <1>7 DEF CreatePassword, WithPassword, Live, CallOf,
              Registry!CreatePassword, Registry!Live
<1>8. QED
  BY <1>1, <1>2, <1>3, <1>4, <1>5, <1>6, <1>7 DEF Next, Registry!Next

(* The handlers implement the registry: whatever interleaves or fails, a   *)
(* success answer is given in the step that did what was asked, and a 404  *)
(* or 409 was true when it was given and came with no effect.              *)
THEOREM RegistryImplemented == Spec => ImplementsRegistry
<1>1. Init => Registry!Init
  BY DEF Init, Idle, CallOf, Registry!Init
<1>2. IInv /\ [Next]_vars => [Registry!Next]_<<admins, issued, Calls>>
  BY StepsRefine
<1>3. QED
  BY <1>1, <1>2, Invariance, PTL DEF Spec, ImplementsRegistry, Registry!Spec, Calls
=============================================================================
