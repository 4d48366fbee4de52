------------------------------- MODULE Admins -------------------------------
(***************************************************************************)
(* The administrators' write API of apps/admin-api: controller, service    *)
(* and Drizzle repository above one PostgreSQL table.                      *)
(*                                                                         *)
(* A handler is a chain of awaited SQL statements.  There is no            *)
(* transaction: each statement commits on its own, and between two         *)
(* statements of one handler the event loop and the connection pool let    *)
(* any other request run.  So one action here is one statement together    *)
(* with the code up to the next await, and what a handler read before an   *)
(* await is kept in its request record and may be stale when it is used.   *)
(***************************************************************************)
EXTENDS Naturals, FiniteSets

CONSTANTS
    AdminIds,   \* the UUIDs the database can still hand out (bounds the inserts)
    Emails,     \* e-mail addresses
    Requests,   \* slots for requests that are in flight at the same time
    Faults,     \* the environment faults that may happen
    Null        \* no row, no password, no argument

FaultKinds == {"statement", "answer", "restart"}

ASSUME FaultsAssumption == Faults \subseteq FaultKinds

VARIABLES
    admins,     \* the table: a row, or Null, for every id
    issued,     \* ids a row was ever inserted with (history)
    req         \* the handler running in each slot, or the last answer given

vars == <<admins, issued, req>>

-----------------------------------------------------------------------------
(* A row.  password abstracts password_hash to the address the account had *)
(* when the password was created, Null standing for SQL NULL.  The name,   *)
(* the birth date and the timestamps decide nothing and are left out.      *)
Row == [email    : Emails,
        status   : {"ACTIVE", "BLOCKED"},
        password : Emails \cup {Null},
        pending  : BOOLEAN]

Operations == {"create", "update", "block", "unblock", "delete"}
Codes      == {"200", "201", "204", "404", "409", "500"}
Stages     == {"lookup", "owner", "write"}

Request == [stage        : Stages \cup {"idle"},
            op           : Operations \cup {Null},
            id           : AdminIds \cup {Null},
            email        : Emails \cup {Null},
            emailChanged : BOOLEAN,
            answer       : Codes \cup {"none", "lost"}]

ASSUME NullAssumption == Null \notin Row \cup AdminIds \cup Emails \cup Operations

Idle(answer) == [stage |-> "idle", op |-> Null, id |-> Null, email |-> Null,
                 emailChanged |-> FALSE, answer |-> answer]

Live         == {a \in AdminIds : admins[a] # Null}
Holders(e)   == {a \in Live : admins[a].email = e}
Creating     == {r \in Requests : req[r].op = "create"}

Init ==
    /\ admins = [a \in AdminIds |-> Null]
    /\ issued = {}
    /\ req = [r \in Requests |-> Idle("none")]

-----------------------------------------------------------------------------
(* Control flow of a handler.                                              *)

At(r, op, stage) == req[r].op = op /\ req[r].stage = stage

Goto(r, stage)   == req' = [req EXCEPT ![r].stage = stage]

Answer(r, code)  == req' = [req EXCEPT ![r] = Idle(code)]

(* A request whose body and path parameter passed validation.  Enough ids  *)
(* remain for every create in flight: the database never runs out of them. *)
Submit(r, op, a, e) ==
    /\ req[r].stage = "idle"
    /\ op = "create" =>
          Cardinality(AdminIds \ issued) > Cardinality(Creating)
    /\ req' = [req EXCEPT ![r] =
                  [stage        |-> "lookup",
                   op           |-> op,
                   id           |-> IF op = "create" THEN Null ELSE a,
                   email        |-> IF op \in {"create", "update"} THEN e ELSE Null,
                   emailChanged |-> FALSE,
                   answer       |-> "none"]]
    /\ UNCHANGED <<admins, issued>>

-----------------------------------------------------------------------------
(* The four writing statements.  Each is atomic in PostgreSQL; the unique  *)
(* index on email is what a statement is refused by.                       *)

NoUniqueIndex(e, but) == TRUE                      \* mutant: index dropped

EmailFree(e, but) == Holders(e) \subseteq but

NewRow(e) == [email |-> e, status |-> "ACTIVE", password |-> Null, pending |-> TRUE]

InsertRow(r) ==
    /\ EmailFree(req[r].email, {})
    /\ \E a \in AdminIds \ issued :
          /\ admins' = [admins EXCEPT ![a] = NewRow(req[r].email)]
          /\ issued' = issued \cup {a}

ResetHashOnly(row) == [row EXCEPT !.password = Null]  \* mutant: flag forgotten

Reset(row) == [row EXCEPT !.password = Null, !.pending = TRUE]

EditedRowReactivated(row, e, reset) ==             \* mutant: edit writes status
    [(IF reset THEN Reset(row) ELSE row) EXCEPT !.email = e, !.status = "ACTIVE"]

EditedRowAlwaysReset(row, e, reset) ==             \* mutant: condition ignored
    [Reset(row) EXCEPT !.email = e]

EditedRow(row, e, reset) ==
    [(IF reset THEN Reset(row) ELSE row) EXCEPT !.email = e]

UpsertRow(r) ==                                    \* mutant: insert if missing
    LET a == req[r].id IN
    /\ EmailFree(req[r].email, {a})
    /\ admins' = [admins EXCEPT ![a] =
                     IF a \in Live
                     THEN EditedRow(@, req[r].email, req[r].emailChanged)
                     ELSE NewRow(req[r].email)]
    /\ UNCHANGED issued

UpdateRow(r) ==
    LET a == req[r].id IN
    /\ a \in Live
    /\ EmailFree(req[r].email, {a})
    /\ admins' = [admins EXCEPT ![a] =
                     EditedRow(@, req[r].email, req[r].emailChanged)]
    /\ UNCHANGED issued

StatusOf(op) == IF op = "block" THEN "BLOCKED" ELSE "ACTIVE"

WithStatus(row, op) == [row EXCEPT !.status = StatusOf(op)]

SetStatusRow(r) ==
    /\ req[r].id \in Live
    /\ admins' = [admins EXCEPT ![req[r].id] = WithStatus(@, req[r].op)]
    /\ UNCHANGED issued

DeleteRow(r) ==
    /\ admins' = [admins EXCEPT ![req[r].id] = Null]
    /\ UNCHANGED issued

WriteRefusedByIndexOnly(r) ==                      \* mutant: empty UPDATE hangs
    \/ req[r].op = "create" /\ ~ EmailFree(req[r].email, {})
    \/ req[r].op = "update" /\ ~ EmailFree(req[r].email, {req[r].id})

(* An UPDATE that matches no row returns no row: toOutput(undefined)       *)
(* throws and the framework answers 500.  So does a unique violation.      *)
WriteRefused(r) ==
    \/ req[r].op = "create" /\ ~ EmailFree(req[r].email, {})
    \/ req[r].op \in {"update", "block", "unblock"} /\ req[r].id \notin Live
    \/ req[r].op = "update" /\ ~ EmailFree(req[r].email, {req[r].id})

-----------------------------------------------------------------------------
(* POST /admins                                                            *)
CreateLookup(r) ==
    /\ At(r, "create", "lookup")
    /\ \/ Holders(req[r].email) # {} /\ Answer(r, "409")
       \/ Holders(req[r].email) = {} /\ Goto(r, "write")
    /\ UNCHANGED <<admins, issued>>

CreateWrite(r) ==
    /\ At(r, "create", "write")
    /\ InsertRow(r)
    /\ Answer(r, "201")

(* PUT /admins/:id                                                         *)
UpdateLookup(r) ==
    LET a == req[r].id IN
    /\ At(r, "update", "lookup")
    /\ \/ a \notin Live /\ Answer(r, "404")
       \/ a \in Live /\ admins[a].email = req[r].email /\ Goto(r, "write")
       \/ /\ a \in Live
          /\ admins[a].email # req[r].email
          /\ req' = [req EXCEPT ![r].emailChanged = TRUE, ![r].stage = "owner"]
    /\ UNCHANGED <<admins, issued>>

UpdateOwnerAnyHolder(r) ==                         \* mutant: own row conflicts
    /\ At(r, "update", "owner")
    /\ \/ Holders(req[r].email) # {} /\ Answer(r, "409")
       \/ Holders(req[r].email) = {} /\ Goto(r, "write")
    /\ UNCHANGED <<admins, issued>>

UpdateOwner(r) ==
    LET others == Holders(req[r].email) \ {req[r].id} IN
    /\ At(r, "update", "owner")
    /\ \/ others # {} /\ Answer(r, "409")
       \/ others = {} /\ Goto(r, "write")
    /\ UNCHANGED <<admins, issued>>

UpdateWrite(r) ==
    /\ At(r, "update", "write")
    /\ UpdateRow(r)
    /\ Answer(r, "200")

(* PATCH /admins/:id/block and /unblock, and DELETE /admins/:id, begin     *)
(* with the same lookup.                                                   *)
TargetLookup(r) ==
    /\ req[r].op \in {"block", "unblock", "delete"}
    /\ req[r].stage = "lookup"
    /\ \/ req[r].id \notin Live /\ Answer(r, "404")
       \/ req[r].id \in Live /\ Goto(r, "write")
    /\ UNCHANGED <<admins, issued>>

SetStatusWrite(r) ==
    /\ req[r].op \in {"block", "unblock"}
    /\ req[r].stage = "write"
    /\ SetStatusRow(r)
    /\ Answer(r, "200")

(* The DELETE statement does not look at how many rows it removed.         *)
DeleteWrite(r) ==
    /\ At(r, "delete", "write")
    /\ DeleteRow(r)
    /\ Answer(r, "204")

RefusedWrite(r) ==
    /\ req[r].stage = "write"
    /\ WriteRefused(r)
    /\ Answer(r, "500")
    /\ UNCHANGED <<admins, issued>>

-----------------------------------------------------------------------------
(* The environment.                                                        *)

(* A statement fails (connection, pool, database): the rejected promise    *)
(* is answered with 500 and nothing was written.                           *)
StatementFails(r) ==
    /\ "statement" \in Faults
    /\ req[r].stage \in Stages
    /\ Answer(r, "500")
    /\ UNCHANGED <<admins, issued>>

(* The statement committed but its acknowledgement never reached the API,  *)
(* or the API died before it could answer.                                 *)
AcknowledgementLost(r) ==
    /\ "answer" \in Faults
    /\ req[r].stage = "write"
    /\ \/ req[r].op = "create" /\ InsertRow(r)
       \/ req[r].op = "update" /\ UpdateRow(r)
       \/ req[r].op \in {"block", "unblock"} /\ SetStatusRow(r)
       \/ req[r].op = "delete" /\ DeleteRow(r)
    /\ \/ Answer(r, "500")
       \/ "restart" \in Faults /\ Answer(r, "lost")

(* The API process dies: every handler in flight is gone, the table stays. *)
Restart ==
    /\ "restart" \in Faults
    /\ \E r \in Requests : req[r].stage # "idle"
    /\ req' = [r \in Requests |->
                  IF req[r].stage = "idle" THEN req[r] ELSE Idle("lost")]
    /\ UNCHANGED <<admins, issued>>

(* Someone outside this API creates the password a pending account waits   *)
(* for: password_hash is written and the pending flag cleared.             *)
WithPassword(row) == [row EXCEPT !.password = row.email, !.pending = FALSE]

CreatePassword(a) ==
    /\ a \in Live
    /\ admins[a].pending
    /\ admins' = [admins EXCEPT ![a] = WithPassword(@)]
    /\ UNCHANGED <<issued, req>>

-----------------------------------------------------------------------------
Handle(r) ==
    \/ CreateLookup(r)
    \/ CreateWrite(r)
    \/ UpdateLookup(r)
    \/ UpdateOwner(r)
    \/ UpdateWrite(r)
    \/ TargetLookup(r)
    \/ SetStatusWrite(r)
    \/ DeleteWrite(r)
    \/ RefusedWrite(r)

Next ==
    \/ \E r \in Requests, op \in Operations, a \in AdminIds, e \in Emails :
          Submit(r, op, a, e)
    \/ \E r \in Requests : Handle(r)
    \/ \E r \in Requests : StatementFails(r) \/ AcknowledgementLost(r)
    \/ Restart
    \/ \E a \in AdminIds : CreatePassword(a)

Spec == Init /\ [][Next]_vars

(* Every awaited statement settles, so a handler that started is run on.   *)
(* Clients, faults and password creation owe nothing.                      *)
FairSpec == Spec /\ \A r \in Requests : WF_vars(Handle(r))

-----------------------------------------------------------------------------
(* Type invariant. *)
TypeOK ==
    /\ admins \in [AdminIds -> Row \cup {Null}]
    /\ issued \subseteq AdminIds
    /\ req \in [Requests -> Request]

(* No two administrators hold the same address, however the lookups and    *)
(* the writes of concurrent creates, edits and deletes interleave.         *)
UniqueEmails ==
    \A a, b \in Live : admins[a].email = admins[b].email => a = b

(* password_hash and is_password_creation_pending are two columns that     *)
(* several statements write: an account waits for its password exactly     *)
(* when it has none.                                                       *)
CredentialFlag ==
    \A a \in Live : admins[a].pending <=> admins[a].password = Null

DeletedStaysDeleted ==
    \A a \in issued : admins[a] = Null => admins'[a] = Null

(* A deleted administrator stays deleted: the late UPDATE of a handler     *)
(* that looked the row up before the DELETE must not bring it back.        *)
NoResurrection == [][DeletedStaysDeleted]_vars

StatusChangeIsRequested ==
    \A a \in Live :
        admins'[a] # Null /\ admins'[a].status # admins[a].status =>
           \E r \in Requests :
              /\ req[r].op = (IF admins'[a].status = "BLOCKED"
                              THEN "block" ELSE "unblock")
              /\ req[r].id = a
              /\ req[r].stage = "write"

(* The status of a living administrator changes only by the block or       *)
(* unblock request that asks for it.  An edit that read the row before a   *)
(* concurrent block writes after it without undoing the block.             *)
StatusFollowsRequests == [][StatusChangeIsRequested]_vars

PasswordLossIsEdit ==
    \A a \in Live :
        admins'[a] # Null /\ admins[a].password # Null
           /\ admins'[a].password = Null =>
              /\ admins'[a].pending
              /\ \E r \in Requests : /\ At(r, "update", "write")
                                     /\ req[r].id = a
                                     /\ req[r].emailChanged

(* A password is taken away only by an edit that saw the address change,   *)
(* and the account goes back to waiting for a password in the same step.   *)
PasswordLostByEditOnly == [][PasswordLossIsEdit]_vars

(* The inductive invariant: what the invariants above rest on is that only *)
(* issued ids have rows and that a handler holds the arguments it needs.   *)
LiveIssued == Live \subseteq issued

ArgumentsFit(q) == /\ q.op = "create" => q.id = Null
                   /\ q.op \in {"create", "update"} => q.email \in Emails

IInv ==
    /\ TypeOK
    /\ UniqueEmails
    /\ CredentialFlag
    /\ LiveIssued
    /\ \A r \in Requests : ArgumentsFit(req[r])

(* Every handler ends with an answer.                                      *)
EveryRequestAnswered ==
    \A r \in Requests : req[r].stage # "idle" ~> req[r].stage = "idle"

-----------------------------------------------------------------------------
(* What the design document says and the interleavings above refute.       *)

(* "If the e-mail changed, password_hash = NULL": a step that changes an   *)
(* address leaves no password behind.                                      *)
EmailChangeResetsPassword ==
    [][\A a \in Live :
          admins'[a] # Null /\ admins'[a].email # admins[a].email =>
             admins'[a].password = Null]_vars

(* "409 if the e-mail already exists": a handler that ends because another *)
(* row holds its address answers 409.                                      *)
DuplicateAnswers409 ==
    [][\A r \in Requests :
          (/\ req[r].op \in {"create", "update"}
           /\ ~ EmailFree(req[r].email, {req[r].id})
           /\ req'[r].stage = "idle") =>
              req'[r].answer \in {"409", "404"}]_vars

-----------------------------------------------------------------------------
(* A client sees of a handler what it asked and the answer, nothing of the *)
(* stages between.                                                         *)
CallOf(r) == [op     |-> req[r].op,
              id     |-> req[r].id,
              email  |-> req[r].email,
              answer |-> IF req[r].stage = "idle" THEN req[r].answer
                                                  ELSE "pending"]

Registry == INSTANCE AdminRegistry
               WITH Clients <- Requests,
                    accounts <- admins,
                    call <- [r \in Requests |-> CallOf(r)]

(* Through all interleavings and faults, the handlers keep the promise of  *)
(* AdminRegistry: an answered success happened in that step and once, a    *)
(* 404 or 409 was true and harmless.                                       *)
ImplementsRegistry == Registry!Spec
=============================================================================
