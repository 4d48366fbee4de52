------------------------- MODULE CustomerDirectory -------------------------
(***************************************************************************)
(* What the customers' API promises, as if deletion were physical: a       *)
(* directory of the customers one can see, and calls that take effect in   *)
(* one step.  The soft delete of the code is an implementation of it.      *)
(*                                                                         *)
(* The one weak promise is 200: an edit changed the customer, or the       *)
(* customer had been deleted meanwhile and nothing visible happened.       *)
(***************************************************************************)
EXTENDS FiniteSets

CONSTANTS CustomerIds, Cnpjs, Clients, Null

VARIABLES
    directory,  \* the CNPJ of every customer one can see, or Null
    call        \* per client: an open call, or the answer to the last one

Visible == {c \in CustomerIds : directory[c] # Null}

Closed(answer) == [op |-> Null, id |-> Null, cnpj |-> Null, answer |-> answer]

Init ==
    /\ directory = [c \in CustomerIds |-> Null]
    /\ call = [k \in Clients |-> Closed("none")]

Open(k) == call[k].answer = "pending"

Close(k, answer) == Open(k) /\ call' = [call EXCEPT ![k] = Closed(answer)]

Taken(cnpj, id) == \E c \in Visible \ {id} : directory[c] = cnpj

Ask(k) ==
    /\ ~ Open(k)
    /\ \E op \in {"create", "update", "delete"}, c \in CustomerIds \cup {Null},
          x \in Cnpjs \cup {Null} :
          call' = [call EXCEPT ![k] =
                      [op |-> op, id |-> c, cnpj |-> x, answer |-> "pending"]]
    /\ UNCHANGED directory

Create(k, answer) ==
    /\ call[k].op = "create"
    /\ ~ Taken(call[k].cnpj, Null)
    /\ \E c \in CustomerIds \ Visible :
          directory' = [directory EXCEPT ![c] = call[k].cnpj]
    /\ Close(k, answer)

Update(k, answer) ==
    /\ call[k].op = "update"
    /\ \/ /\ call[k].id \in Visible
          /\ ~ Taken(call[k].cnpj, call[k].id)
          /\ directory' = [directory EXCEPT ![call[k].id] = call[k].cnpj]
       \/ call[k].id \notin Visible /\ UNCHANGED directory
    /\ Close(k, answer)

Delete(k, answer) ==
    /\ call[k].op = "delete"
    /\ directory' = [directory EXCEPT ![call[k].id] = Null]
    /\ Close(k, answer)

Refuse(k) ==
    /\ \/ /\ call[k].op \in {"update", "delete"}
          /\ call[k].id \notin Visible
          /\ Close(k, "404")
       \/ /\ call[k].op \in {"create", "update"}
          /\ Taken(call[k].cnpj, call[k].id)
          /\ Close(k, "409")
       \/ Close(k, "500")
    /\ UNCHANGED directory

(* The server goes away and takes every open call with it. *)
Vanish ==
    /\ call' = [k \in Clients |-> IF Open(k) THEN Closed("lost") ELSE call[k]]
    /\ UNCHANGED directory

Next ==
    \/ \E k \in Clients :
          \/ Ask(k)
          \/ \E answer \in {"201", "500", "lost"} : Create(k, answer)
          \/ \E answer \in {"200", "500", "lost"} : Update(k, answer)
          \/ \E answer \in {"204", "500", "lost"} : Delete(k, answer)
          \/ Refuse(k)
    \/ Vanish

Spec == Init /\ [][Next]_<<directory, call>>
=============================================================================
