--------------------------- MODULE AdminRegistry ---------------------------
(***************************************************************************)
(* What the administrators' API promises a client, with no lookups and no  *)
(* statements: a call takes effect in one step, together with its answer.  *)
(*  - A success answer (201, 200, 204) is given in the very step that does *)
(*    what the call asked for, and nothing else.                           *)
(*  - 404 and 409 are given only while what they claim is true, and a call *)
(*    answered so had no effect.                                           *)
(*  - 500 and a lost connection promise nothing: the call took effect at   *)
(*    most once, or never.                                                 *)
(***************************************************************************)
EXTENDS Naturals, FiniteSets

CONSTANTS AdminIds, Emails, Clients, Null

VARIABLES accounts, issued, call

Live == {a \in AdminIds : accounts[a] # Null}

Init ==
    /\ accounts = [a \in AdminIds |-> Null]
    /\ issued = {}
    /\ call = [c \in Clients |->
                  [op |-> Null, id |-> Null, email |-> Null, answer |-> "none"]]

Open(c) == call[c].answer = "pending"

Closed(answer) == [op |-> Null, id |-> Null, email |-> Null, answer |-> answer]

Close(c, answer) == Open(c) /\ call' = [call EXCEPT ![c] = Closed(answer)]

HeldByOther(e, id) == \E b \in Live \ {id} : accounts[b].email = e

Ask(c) ==
    /\ ~ Open(c)
    /\ \E op \in {"create", "update", "block", "unblock", "delete"},
          a \in AdminIds \cup {Null}, e \in Emails \cup {Null} :
          call' = [call EXCEPT ![c] =
                      [op |-> op, id |-> a, email |-> e, answer |-> "pending"]]
    /\ UNCHANGED <<accounts, issued>>

Enrol(c, answer) ==
    /\ call[c].op = "create"
    /\ ~ HeldByOther(call[c].email, Null)
    /\ \E a \in AdminIds \ issued :
          /\ accounts' = [accounts EXCEPT ![a] =
                             [email |-> call[c].email, status |-> "ACTIVE",
                              password |-> Null, pending |-> TRUE]]
          /\ issued' = issued \cup {a}
    /\ Close(c, answer)

(* An edit changes the address, keeps the status, and either keeps the     *)
(* credential or withdraws it altogether.                                  *)
Edit(c, answer) ==
    LET a == call[c].id
        moved == [accounts[a] EXCEPT !.email = call[c].email] IN
    /\ call[c].op = "update"
    /\ a \in Live
    /\ ~ HeldByOther(call[c].email, a)
    /\ \/ accounts' = [accounts EXCEPT ![a] = moved]
       \/ accounts' = [accounts EXCEPT ![a] =
                          [moved EXCEPT !.password = Null, !.pending = TRUE]]
    /\ Close(c, answer)
    /\ UNCHANGED issued

SetStatus(c, answer) ==
    LET status == IF call[c].op = "block" THEN "BLOCKED" ELSE "ACTIVE" IN
    /\ call[c].op \in {"block", "unblock"}
    /\ call[c].id \in Live
    /\ accounts' = [accounts EXCEPT ![call[c].id].status = status]
    /\ Close(c, answer)
    /\ UNCHANGED issued

Remove(c, answer) ==
    /\ call[c].op = "delete"
    /\ accounts' = [accounts EXCEPT ![call[c].id] = Null]
    /\ Close(c, answer)
    /\ UNCHANGED issued

Refuse(c) ==
    /\ \/ /\ call[c].op # "create"
          /\ call[c].id \notin Live
          /\ Close(c, "404")
       \/ /\ call[c].op \in {"create", "update"}
          /\ HeldByOther(call[c].email, call[c].id)
          /\ Close(c, "409")
       \/ Close(c, "500")
    /\ UNCHANGED <<accounts, issued>>

(* The server goes away and takes every open call with it. *)
Vanish ==
    /\ call' = [c \in Clients |-> IF Open(c) THEN Closed("lost") ELSE call[c]]
    /\ UNCHANGED <<accounts, issued>>

(* The owner of a pending account creates its password. *)
CreatePassword(a) ==
    /\ a \in Live
    /\ accounts[a].pending
    /\ accounts' = [accounts EXCEPT ![a].password = accounts[a].email,
                                    ![a].pending = FALSE]
    /\ UNCHANGED <<issued, call>>

Next ==
    \/ \E c \in Clients :
          \/ Ask(c)
          \/ \E answer \in {"201", "500", "lost"} : Enrol(c, answer)
          \/ \E answer \in {"200", "500", "lost"} : Edit(c, answer) \/ SetStatus(c, answer)
          \/ \E answer \in {"204", "500", "lost"} : Remove(c, answer)
          \/ Refuse(c)
    \/ Vanish
    \/ \E a \in AdminIds : CreatePassword(a)

Spec == Init /\ [][Next]_<<accounts, issued, call>>
=============================================================================
