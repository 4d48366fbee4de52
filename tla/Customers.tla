----------------------------- MODULE Customers -----------------------------
(***************************************************************************)
(* The customers' write API of apps/admin-api.  Handlers run as in Admins: *)
(* one action is one auto-committed SQL statement and the code up to the   *)
(* next await.  What is different is the deletion, which only stamps       *)
(* deleted_at: the lookups filter on it and the unique index is partial,   *)
(* but the UPDATE and the soft delete address the row by id alone.         *)
(***************************************************************************)
EXTENDS Naturals, FiniteSets

CONSTANTS
    CustomerIds,    \* the UUIDs the database can still hand out
    Cnpjs,          \* business identifiers
    Requests,       \* slots for requests in flight at the same time
    Faults,         \* the environment faults that may happen
    Null            \* no row, no argument

FaultKinds == {"statement", "answer", "restart"}

ASSUME FaultsAssumption == Faults \subseteq FaultKinds

VARIABLES
    customers,      \* the table: a row, or Null, for every id
    req             \* the handler in each slot, or the last answer given

vars == <<customers, req>>

-----------------------------------------------------------------------------
(* Rows are never removed; deleted stands for deleted_at IS NOT NULL.      *)
Row == [cnpj : Cnpjs, deleted : BOOLEAN]

Operations == {"create", "update", "delete"}
Stages     == {"lookup", "owner", "write"}
Codes      == {"200", "201", "204", "404", "409", "500"}

Request == [stage  : Stages \cup {"idle"},
            op     : Operations \cup {Null},
            id     : CustomerIds \cup {Null},
            cnpj   : Cnpjs \cup {Null},
            answer : Codes \cup {"none", "lost"}]

ASSUME NullAssumption ==
    Null \notin Row \cup CustomerIds \cup Cnpjs \cup Operations

Idle(answer) == [stage |-> "idle", op |-> Null, id |-> Null, cnpj |-> Null,
                 answer |-> answer]

Stored  == {c \in CustomerIds : customers[c] # Null}
Live    == {c \in Stored : ~ customers[c].deleted}

LiveHoldersAnyRow(x) == {c \in Stored : customers[c].cnpj = x}  \* mutant: filter lost

(* getByBusinessIdentifier, and what the partial unique index covers.      *)
LiveHolders(x) == {c \in Live : customers[c].cnpj = x}

Creating == {r \in Requests : req[r].op = "create"}

Init ==
    /\ customers = [c \in CustomerIds |-> Null]
    /\ req = [r \in Requests |-> Idle("none")]

-----------------------------------------------------------------------------
At(r, op, stage) == req[r].op = op /\ req[r].stage = stage

Goto(r, stage)   == req' = [req EXCEPT ![r].stage = stage]

Answer(r, code)  == req' = [req EXCEPT ![r] = Idle(code)]

(* A request that passed validation.  Enough ids remain for every create   *)
(* in flight: the database never runs out of them.                         *)
Submit(r, op, c, x) ==
    /\ req[r].stage = "idle"
    /\ op = "create" =>
          Cardinality(CustomerIds \ Stored) > Cardinality(Creating)
    /\ req' = [req EXCEPT ![r] =
                  [stage  |-> "lookup",
                   op     |-> op,
                   id     |-> IF op = "create" THEN Null ELSE c,
                   cnpj   |-> IF op = "delete" THEN Null ELSE x,
                   answer |-> "none"]]
    /\ UNCHANGED customers

-----------------------------------------------------------------------------
(* The statements that write.                                              *)

IndexAllowsAlways(x, but) == TRUE                       \* mutant: index dropped

IndexAllows(x, but) == LiveHolders(x) \subseteq but

InsertRow(r) ==
    /\ IndexAllows(req[r].cnpj, {})
    /\ \E c \in CustomerIds \ Stored :
          customers' = [customers EXCEPT ![c] =
                           [cnpj |-> req[r].cnpj, deleted |-> FALSE]]

EditedRowUndeleted(row, x) == [cnpj |-> x, deleted |-> FALSE]  \* mutant: whole row written

EditedRow(row, x) == [row EXCEPT !.cnpj = x]

(* WHERE id = ...: a row that was deleted meanwhile is edited all the      *)
(* same, and is outside the partial index.                                 *)
UpdateRow(r) ==
    LET c == req[r].id IN
    /\ c \in Stored
    /\ c \in Live => IndexAllows(req[r].cnpj, {c})
    /\ customers' = [customers EXCEPT ![c] = EditedRow(@, req[r].cnpj)]

Deleted(row) == [row EXCEPT !.deleted = TRUE]

(* WHERE id = ... here too. *)
SoftDeleteRow(r) ==
    /\ req[r].id \in Stored
    /\ customers' = [customers EXCEPT ![req[r].id] = Deleted(@)]

WriteRefused(r) ==
    \/ req[r].op = "create" /\ ~ IndexAllows(req[r].cnpj, {})
    \/ /\ req[r].op = "update"
       /\ req[r].id \in Live
       /\ ~ IndexAllows(req[r].cnpj, {req[r].id})

-----------------------------------------------------------------------------
(* POST /customers                                                         *)
CreateLookup(r) ==
    /\ At(r, "create", "lookup")
    /\ \/ LiveHolders(req[r].cnpj) # {} /\ Answer(r, "409")
       \/ LiveHolders(req[r].cnpj) = {} /\ Goto(r, "write")
    /\ UNCHANGED customers

CreateWrite(r) ==
    /\ At(r, "create", "write")
    /\ InsertRow(r)
    /\ Answer(r, "201")

(* PUT /customers/:id                                                      *)
UpdateLookup(r) ==
    LET c == req[r].id IN
    /\ At(r, "update", "lookup")
    /\ \/ c \notin Live /\ Answer(r, "404")
       \/ c \in Live /\ customers[c].cnpj = req[r].cnpj /\ Goto(r, "write")
       \/ c \in Live /\ customers[c].cnpj # req[r].cnpj /\ Goto(r, "owner")
    /\ UNCHANGED customers

UpdateOwner(r) ==
    LET others == LiveHolders(req[r].cnpj) \ {req[r].id} IN
    /\ At(r, "update", "owner")
    /\ \/ others # {} /\ Answer(r, "409")
       \/ others = {} /\ Goto(r, "write")
    /\ UNCHANGED customers

UpdateWrite(r) ==
    /\ At(r, "update", "write")
    /\ UpdateRow(r)
    /\ Answer(r, "200")

(* DELETE /customers/:id                                                   *)
DeleteLookup(r) ==
    /\ At(r, "delete", "lookup")
    /\ \/ req[r].id \notin Live /\ Answer(r, "404")
       \/ req[r].id \in Live /\ Goto(r, "write")
    /\ UNCHANGED customers

DeleteWrite(r) ==
    /\ At(r, "delete", "write")
    /\ SoftDeleteRow(r)
    /\ Answer(r, "204")

(* A unique violation is no HttpException: the framework answers 500.      *)
RefusedWrite(r) ==
    /\ req[r].stage = "write"
    /\ WriteRefused(r)
    /\ Answer(r, "500")
    /\ UNCHANGED customers

-----------------------------------------------------------------------------
(* The environment: as in Admins.                                          *)
StatementFails(r) ==
    /\ "statement" \in Faults
    /\ req[r].stage \in Stages
    /\ Answer(r, "500")
    /\ UNCHANGED customers

AcknowledgementLost(r) ==
    /\ "answer" \in Faults
    /\ req[r].stage = "write"
    /\ \/ req[r].op = "create" /\ InsertRow(r)
       \/ req[r].op = "update" /\ UpdateRow(r)
       \/ req[r].op = "delete" /\ SoftDeleteRow(r)
    /\ \/ Answer(r, "500")
       \/ "restart" \in Faults /\ Answer(r, "lost")

Restart ==
    /\ "restart" \in Faults
    /\ \E r \in Requests : req[r].stage # "idle"
    /\ req' = [r \in Requests |->
                  IF req[r].stage = "idle" THEN req[r] ELSE Idle("lost")]
    /\ UNCHANGED customers

-----------------------------------------------------------------------------
Handle(r) ==
    \/ CreateLookup(r)
    \/ CreateWrite(r)
    \/ UpdateLookup(r)
    \/ UpdateOwner(r)
    \/ UpdateWrite(r)
    \/ DeleteLookup(r)
    \/ DeleteWrite(r)
    \/ RefusedWrite(r)

Next ==
    \/ \E r \in Requests, op \in Operations, c \in CustomerIds, x \in Cnpjs :
          Submit(r, op, c, x)
    \/ \E r \in Requests : Handle(r)
    \/ \E r \in Requests : StatementFails(r) \/ AcknowledgementLost(r)
    \/ Restart

Spec == Init /\ [][Next]_vars

-----------------------------------------------------------------------------
(* Type invariant. *)
TypeOK ==
    /\ customers \in [CustomerIds -> Row \cup {Null}]
    /\ req \in [Requests -> Request]

(* A business identifier has at most one living customer, while any number *)
(* of deleted ones may carry it: the partial index must hold against every *)
(* interleaving of creates, edits (also of deleted rows) and deletes.      *)
UniqueLiveCnpj ==
    \A c, d \in Live : customers[c].cnpj = customers[d].cnpj => c = d

(* The inductive invariant: a handler holds the arguments it will write.   *)
ArgumentsFit(q) == /\ q.op = "create" => q.id = Null
                   /\ q.op \in {"create", "update"} => q.cnpj \in Cnpjs

IInv ==
    /\ TypeOK
    /\ UniqueLiveCnpj
    /\ \A r \in Requests : ArgumentsFit(req[r])

HistoryKept ==
    /\ Stored \subseteq Stored'
    /\ \A c \in Stored : customers[c].deleted => customers'[c].deleted

(* Soft delete: no row ever leaves the table and no late write of another  *)
(* handler brings a deleted customer back.                                 *)
DeletionIsFinal == [][HistoryKept]_vars

CallOf(r) == [op     |-> req[r].op,
              id     |-> req[r].id,
              cnpj   |-> req[r].cnpj,
              answer |-> IF req[r].stage = "idle" THEN req[r].answer
                                                  ELSE "pending"]

Directory == INSTANCE CustomerDirectory
    WITH Clients <- Requests,
         directory <- [c \in CustomerIds |->
                          IF c \in Live THEN customers[c].cnpj ELSE Null],
         call <- [r \in Requests |-> CallOf(r)]

(* Seen through the API, a soft delete is a delete: calls behave as on a   *)
(* directory from which customers are really removed, their business       *)
(* identifier is free again, and 404 and 409 are given only when true.     *)
ImplementsDirectory == Directory!Spec

-----------------------------------------------------------------------------
(* "DELETE: soft-delete, 404 if missing/already deleted", "PUT 404": a     *)
(* handler that ends on a deleted customer answers 404.                    *)
DeletedAnswers404 ==
    [][\A r \in Requests :
          (/\ req[r].op \in {"update", "delete"}
           /\ req[r].id \notin Live
           /\ req'[r].stage = "idle") =>
              req'[r].answer = "404"]_vars
=============================================================================
