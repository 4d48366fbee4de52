----------------------------- MODULE BackOffice -----------------------------
(***************************************************************************)
(* What the broker's back office promises its clients, with no connections *)
(* and no transactions.                                                    *)
(*  - A disable takes effect in one step: the customer is deleted and none *)
(*    of its keys is usable, both at once.                                 *)
(*  - 204 is given only to a call that took effect, 404 only to one that   *)
(*    asks for a customer that is not there.                               *)
(*  - Any other answer promises nothing, but what was answered has no      *)
(*    effect any more.                                                     *)
(* Other calls than disables have no effect at all.                        *)
(***************************************************************************)
CONSTANTS Customers, Names, Clients, Null

VARIABLES customer, usable, call

Keys(c) == {c} \X Names

Phase(c, phase) == call[c].phase = phase

Closed(about, answer) == [phase |-> "closed", about |-> about, answer |-> answer]

Init == /\ customer \in [Customers -> {"absent", "present"}]
        /\ usable = UNION {Keys(c) : c \in {d \in Customers : customer[d] = "present"}}
        /\ call = [c \in Clients |-> Closed(Null, "none")]

(* A call is about the customer it disables, others are about Null.        *)
Ask(c) ==
    /\ Phase(c, "closed")
    /\ \E id \in Customers \cup {Null} :
          call' = [call EXCEPT ![c] = [phase |-> "open", about |-> id, answer |-> "none"]]
    /\ UNCHANGED <<customer, usable>>

(* What does not parse is answered at once.                                *)
Reject(c) ==
    /\ Phase(c, "closed")
    /\ call' = [call EXCEPT ![c] = Closed(Null, "400")]
    /\ UNCHANGED <<customer, usable>>

Disable(c) ==
    /\ Phase(c, "open")
    /\ call[c].about \in Customers
    /\ customer[call[c].about] # "absent"
    /\ customer' = [customer EXCEPT ![call[c].about] = "deleted"]
    /\ usable' = usable \ Keys(call[c].about)
    /\ call' = [call EXCEPT ![c].phase = "settled"]

Confirm(c) ==
    /\ Phase(c, "settled")
    /\ call' = [call EXCEPT ![c] = Closed(call[c].about, "204")]
    /\ UNCHANGED <<customer, usable>>

Deny(c) ==
    /\ Phase(c, "open")
    /\ call[c].about \in Customers
    /\ customer[call[c].about] = "absent"
    /\ call' = [call EXCEPT ![c] = Closed(call[c].about, "404")]
    /\ UNCHANGED <<customer, usable>>

GiveUp(c, answer) ==
    /\ ~Phase(c, "closed")
    /\ call' = [call EXCEPT ![c] = Closed(Null, answer)]
    /\ UNCHANGED <<customer, usable>>

(* The process ends and takes every open call with it.                     *)
Vanish ==
    /\ call' = [c \in Clients |-> IF Phase(c, "closed") THEN call[c]
                                  ELSE Closed(Null, "aborted")]
    /\ UNCHANGED <<customer, usable>>

Next == \/ \E c \in Clients : \/ Ask(c) \/ Reject(c)
                              \/ Disable(c)
                              \/ Confirm(c) \/ Deny(c)
                              \/ GiveUp(c, "500") \/ GiveUp(c, "aborted")
        \/ Vanish

Spec == Init /\ [][Next]_<<customer, usable, call>>
=============================================================================
