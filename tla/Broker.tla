------------------------------- MODULE Broker -------------------------------
(***************************************************************************)
(* apps/broker: the back-office handlers, the transaction manager and the  *)
(* connection pool under them, and the life of the process.                *)
(*                                                                         *)
(* One action is one call to the database with the code up to the next     *)
(* one.  A service runs its lookup on any free connection of the pool, and *)
(* then keeps one connection from Begin to Commit or Rollback.             *)
(*                                                                         *)
(* Two operations never reach their effect in the code as it is, and so    *)
(* they do not here.  A create is refused by the NOT NULL of created_at,   *)
(* which the store leaves unset; a provider's store finds no transaction   *)
(* in its context.  DisableCustomer is modelled from its call on: the      *)
(* route of today names its parameter customerId and the handler reads id, *)
(* so over HTTP every DELETE ends in Malformed.                            *)
(***************************************************************************)
EXTENDS Naturals, FiniteSets

CONSTANTS
    Customers,  \* customer ids, each with its own business identifier
    Names,      \* the API keys of one customer are told apart by a name
    Requests,   \* slots for requests that are in flight at the same time
    PoolSize,   \* MaxConns of the pgx pool
    Null        \* no operation, no customer

ASSUME PoolAssumption     == PoolSize \in Nat \ {0}
ASSUME RequestsAssumption == IsFiniteSet(Requests)
ASSUME NullAssumption     == Null \notin Customers

VARIABLES
    server,     \* the process
    req,        \* the handler running in each slot, or the last answer given
    acquired,   \* connections out of the pool for a transaction
    customer,   \* committed rows of customers
    live        \* committed api_keys rows without revoked_at: <<customer, name>>

vars == <<server, req, acquired, customer, live>>

-----------------------------------------------------------------------------
Ops     == {"create", "disable", "provider"}
InTx    == {"write", "revoke", "commit", "acknowledge"}
Stages  == {"extract", "lookup", "begin"} \cup InTx
Answers == {"none", "204", "400", "404", "500", "aborted"}

Request == [at : Stages \cup {"idle"}, op : Ops \cup {Null},
            id : Customers \cup {Null}, answer : Answers]

At(r, stage) == req[r].at = stage
InFlight     == {r \in Requests : ~At(r, "idle")}
Holders      == {r \in Requests : req[r].at \in InTx}

KeysOf(c)      == {c} \X Names
FreeConnection == acquired < PoolSize

(* What a handler has to wait for: a connection it does not hold yet, and  *)
(* the lock of the row another transaction has updated.                    *)
NeedsSecondConnection(r) ==                 \* mutant: Delete on the pool, not on the tx
    req[r].at \in {"lookup", "begin", "write"}

NeedsConnection(r) == req[r].at \in {"lookup", "begin"}
Locks(s, c) == req[s].at \in {"revoke", "commit"} /\ req[s].id = c
RowIsLocked(r) == /\ At(r, "write")
                  /\ req[r].op = "disable"
                  /\ \E s \in Requests : Locks(s, req[r].id)
Blocked(r) == (NeedsConnection(r) /\ ~FreeConnection) \/ RowIsLocked(r)

Opened(stage, op, id) == [at |-> stage, op |-> op, id |-> id, answer |-> "none"]
Moved(q, stage)       == [q EXCEPT !.at = stage]

(* A slot remembers whom an answer that says something is about.           *)
Closed(q, answer) == [at |-> "idle", op |-> Null, answer |-> answer,
                      id |-> IF answer \in {"204", "404"} THEN q.id ELSE Null]

(* Rows come from outside: the broker never succeeds in inserting one.     *)
Init == /\ server = "serving"
        /\ req = [r \in Requests |-> Opened("idle", Null, Null)]
        /\ acquired = 0
        /\ customer \in [Customers -> {"absent", "present"}]
        /\ live = UNION {KeysOf(c) : c \in {d \in Customers : customer[d] = "present"}}

-----------------------------------------------------------------------------
Goto(r, stage) == req' = [req EXCEPT ![r] = Moved(req[r], stage)]

(* An answer, or the end of the connection, closes the slot; what the      *)
(* handler held goes back to the pool on every path out of a transaction.  *)
Finish(r, answer) ==
    /\ req' = [req EXCEPT ![r] = Closed(req[r], answer)]
    /\ acquired' = IF r \in Holders THEN acquired - 1 ELSE acquired
    /\ UNCHANGED server

Receive(r, op, id) ==
    /\ server = "serving"
    /\ At(r, "idle")
    /\ id = Null <=> op = "provider"
    /\ req' = [req EXCEPT ![r] =
                  Opened(IF op = "provider" THEN "extract" ELSE "lookup", op, id)]
    /\ UNCHANGED <<server, acquired, customer, live>>

(* A body that does not bind or an id that does not parse is answered      *)
(* before any service is called.                                           *)
Malformed(r) ==
    /\ server = "serving"
    /\ At(r, "idle")
    /\ req' = [req EXCEPT ![r] = Closed(Opened("idle", Null, Null), "400")]
    /\ UNCHANGED <<server, acquired, customer, live>>

(* The provider's store needs the transaction that no caller opens.        *)
CreateProvider(r) ==
    /\ At(r, "extract")
    /\ Finish(r, "500")
    /\ UNCHANGED <<customer, live>>

LookupOfLive(r) ==                          \* mutant: the query skips deleted rows
    /\ At(r, "lookup")
    /\ ~Blocked(r)
    /\ IF customer[req[r].id] = "present"
       THEN Goto(r, "begin") /\ UNCHANGED <<server, acquired>>
       ELSE Finish(r, IF req[r].op = "disable" THEN "404" ELSE "500")
    /\ UNCHANGED <<customer, live>>

(* Both lookups read deleted rows, too.  A missing row is a 404 for a      *)
(* disable; for a create it is an error like any other, and only a taken   *)
(* identifier goes on to the transaction.                                  *)
Lookup(r) ==
    /\ At(r, "lookup")
    /\ ~Blocked(r)
    /\ IF customer[req[r].id] # "absent"
       THEN Goto(r, "begin") /\ UNCHANGED <<server, acquired>>
       ELSE Finish(r, IF req[r].op = "disable" THEN "404" ELSE "500")
    /\ UNCHANGED <<customer, live>>

Begin(r) ==
    /\ At(r, "begin")
    /\ ~Blocked(r)
    /\ Goto(r, "write")
    /\ acquired' = acquired + 1
    /\ UNCHANGED <<server, customer, live>>

(* INSERT INTO customers, refused; the transaction is rolled back.         *)
InsertCustomer(r) ==
    /\ At(r, "write")
    /\ req[r].op = "create"
    /\ Finish(r, "500")
    /\ UNCHANGED <<customer, live>>

DeleteCustomerAtOnce(r) ==                  \* mutant: the UPDATE outside the transaction
    /\ At(r, "write")
    /\ req[r].op = "disable"
    /\ ~Blocked(r)
    /\ Goto(r, "revoke")
    /\ customer' = [customer EXCEPT ![req[r].id] = "deleted"]
    /\ UNCHANGED <<server, acquired, live>>

(* UPDATE customers SET deleted_at, seen by the others after the commit.   *)
DeleteCustomer(r) ==
    /\ At(r, "write")
    /\ req[r].op = "disable"
    /\ ~Blocked(r)
    /\ Goto(r, "revoke")
    /\ UNCHANGED <<server, acquired, customer, live>>

RevokeAllAPIKeys(r) ==
    /\ At(r, "revoke")
    /\ Goto(r, "commit")
    /\ UNCHANGED <<server, acquired, customer, live>>

Commit(r) ==
    /\ At(r, "commit")
    /\ Goto(r, "acknowledge")
    /\ customer' = [customer EXCEPT ![req[r].id] = IF @ = "absent" THEN @ ELSE "deleted"]
    /\ live' = live \ KeysOf(req[r].id)
    /\ UNCHANGED <<server, acquired>>

(* The answer to COMMIT reaches the handler, or is lost with the           *)
(* connection: then a disable that happened is answered 500.               *)
Acknowledge(r) ==
    /\ At(r, "acknowledge")
    /\ \E answer \in {"204", "500"} : Finish(r, answer)
    /\ UNCHANGED <<customer, live>>

StatementFailsUnseen(r) ==                  \* mutant: the error of Commit is ignored
    /\ req[r].at \in {"lookup", "begin", "write", "revoke", "commit"}
    /\ Finish(r, IF At(r, "commit") THEN "204" ELSE "500")
    /\ UNCHANGED <<customer, live>>

(* Any call to the database can fail, also because the client has left and *)
(* the request's context is cancelled.  Rollback gives the connection back *)
(* whether or not it can still be used.                                    *)
StatementFails(r) ==
    /\ req[r].at \in {"lookup", "begin", "write", "revoke", "commit"}
    /\ Finish(r, "500")
    /\ UNCHANGED <<customer, live>>

PanicsOpen(r) ==                            \* mutant: no rollback after a panic
    /\ \/ At(r, "write") /\ req[r].op = "create"
       \/ At(r, "extract")
    /\ req' = [req EXCEPT ![r] = Closed(req[r], "aborted")]
    /\ UNCHANGED <<server, acquired, customer, live>>

(* The constructors of the entities panic when no UUID can be drawn.  The  *)
(* transaction manager rolls back and panics again; the router has no      *)
(* recovery, so net/http drops the connection without an answer.           *)
Panics(r) ==
    /\ \/ At(r, "write") /\ req[r].op = "create"
       \/ At(r, "extract")
    /\ Finish(r, "aborted")
    /\ UNCHANGED <<customer, live>>

-----------------------------------------------------------------------------
(* SIGINT or SIGTERM.  A second signal is swallowed: the handler that      *)
(* announces "press Ctrl+C again to force" still has the signals.          *)
Signal == /\ server = "serving"
          /\ server' = "draining"
          /\ UNCHANGED <<req, acquired, customer, live>>

(* The end of the process drops every handler; PostgreSQL rolls back what  *)
(* was not committed.                                                      *)
Exit == /\ server' = "down"
        /\ req' = [r \in Requests |->
                      IF r \in InFlight
                      THEN Closed(req[r], "aborted")
                      ELSE req[r]]
        /\ acquired' = 0
        /\ UNCHANGED <<customer, live>>

(* Shutdown returns when no handler runs, or after its five seconds.       *)
ShutdownWaits   ==                          \* mutant: Shutdown without a deadline
    server = "draining" /\ InFlight = {} /\ Exit

Drained         == server = "draining" /\ InFlight = {} /\ Exit
ShutdownExpires == server = "draining" /\ InFlight # {} /\ Exit

(* GET /health ends the process when its ping gets no answer in a second,  *)
(* from the database or from a pool whose connections are all taken.       *)
HealthCheckFails == server \in {"serving", "draining"} /\ Exit

Restart == /\ server = "down"
           /\ server' = "serving"
           /\ UNCHANGED <<req, acquired, customer, live>>

-----------------------------------------------------------------------------
Handle(r) == \/ \E op \in Ops, id \in Customers \cup {Null} : Receive(r, op, id)
             \/ Malformed(r)
             \/ CreateProvider(r)
             \/ Lookup(r)
             \/ Begin(r)
             \/ InsertCustomer(r)
             \/ DeleteCustomer(r)
             \/ RevokeAllAPIKeys(r)
             \/ Commit(r)
             \/ Acknowledge(r)
             \/ StatementFails(r)
             \/ Panics(r)

Shutdown == Drained \/ ShutdownExpires

Next == \/ \E r \in Requests : Handle(r)
        \/ Signal
        \/ Shutdown
        \/ HealthCheckFails
        \/ Restart

Spec     == Init /\ [][Next]_vars
FairSpec == Spec /\ WF_vars(Shutdown)

-----------------------------------------------------------------------------
TypeOK == /\ server \in {"serving", "draining", "down"}
          /\ req \in [Requests -> Request]
          /\ acquired \in 0 .. PoolSize
          /\ customer \in [Customers -> {"absent", "present", "deleted"}]
          /\ live \subseteq Customers \X Names

(* Every connection counted as taken has a transaction that will give it   *)
(* back: no path out of one (an error, a panic, an exit) leaks it.         *)
NoConnectionLeaks == acquired = Cardinality(Holders)

(* A disable has both its effects or none, seen from other transactions,   *)
(* whatever fails and wherever the process ends: an active customer keeps  *)
(* its keys, and no key outlives the customer.                             *)
AllOrNothing ==
    live = UNION {KeysOf(c) : c \in {d \in Customers : customer[d] = "present"}}

(* What a client was told stays true after failures and restarts: 204, the *)
(* customer is deleted; 404, there is none.                                *)
TrueAnswer(q) == /\ q.answer = "204" => customer[q.id] = "deleted"
                 /\ q.answer = "404" => customer[q.id] = "absent"

AnswersAreTrue == \A r \in Requests : TrueAnswer(req[r])

(* Requests never wait for each other in a circle, through the pool and    *)
(* the row locks: among those in flight one can go on without a failure.   *)
NoCircularWait == InFlight # {} => \E r \in InFlight : ~Blocked(r)

(* Seen by its clients, a call is open until its commit, settled until its *)
(* answer, and closed then.                                                *)
CallOf(r) == [phase  |-> IF At(r, "idle") THEN "closed"
                         ELSE IF At(r, "acknowledge") THEN "settled" ELSE "open",
              about  |-> IF At(r, "idle") \/ req[r].op = "disable" THEN req[r].id ELSE Null,
              answer |-> req[r].answer]

Office == INSTANCE BackOffice
            WITH Clients <- Requests,
                 usable <- live,
                 call <- [r \in Requests |-> CallOf(r)]

(* Through all interleavings, failures and ends of the process, the broker *)
(* keeps the promise of BackOffice: the two updates of a disable are one   *)
(* effect, that precedes its 204 and follows no other answer.              *)
ImplementsBackOffice == Office!Spec

(* At most one transaction has updated a customer's row.                   *)
LocksExclude ==
    \A c \in Customers, r, s \in Requests : Locks(r, c) /\ Locks(s, c) => r = s

(* A running handler acts on a customer if it is one of the customers',    *)
(* and on one that exists once its lookup is done.                         *)
MakesSense(q) ==
    /\ q.at = "extract" => q.op = "provider"
    /\ q.at \in Stages \ {"extract"} => q.op \in {"create", "disable"} /\ q.id \in Customers
    /\ q.at \in {"begin"} \cup InTx => customer[q.id] # "absent"
    /\ q.at \in {"revoke", "commit", "acknowledge"} => q.op = "disable"
    /\ q.at = "acknowledge" => customer[q.id] = "deleted"
    /\ q.answer \in {"204", "404"} => q.id \in Customers
    /\ q.at # "idle" => q.answer = "none"

HandlersMakeSense == \A r \in Requests : MakesSense(req[r])

(* The inductive invariant; a process that is down runs no handler.        *)
IInv == /\ TypeOK
        /\ NoConnectionLeaks
        /\ AllOrNothing
        /\ LocksExclude
        /\ HandlersMakeSense
        /\ AnswersAreTrue
        /\ server = "down" => InFlight = {}

(* A signalled broker ends, whatever its handlers and the database do.     *)
ShutdownEnds == server = "draining" ~> server = "down"

=============================================================================
