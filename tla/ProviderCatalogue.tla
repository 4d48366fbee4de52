-------------------------- MODULE ProviderCatalogue -------------------------
(***************************************************************************)
(* What the provider tables promise together: one catalogue of complete    *)
(* entries.  A provider appears with its limit and its mode at once, every *)
(* later change touches one field of one entry, and nothing disappears.    *)
(***************************************************************************)
EXTENDS Naturals

CONSTANTS
    Ids,        \* ids of providers
    Names,
    Limits,     \* values of max_waypoints_per_request
    Modes,      \* values of supports_async_operations
    NoEntry

VARIABLE catalogue

Entry == [name : Names, state : {"active", "deleted"}, max : Limits, mode : Modes]

With(p, e) == catalogue' = [catalogue EXCEPT ![p] = e]

Init == catalogue = [p \in Ids |-> NoEntry]

Register(p) == /\ catalogue[p] = NoEntry
               /\ \E e \in Entry : e.state = "active" /\ With(p, e)

Change(p) == /\ catalogue[p] # NoEntry
             /\ \/ \E n \in Names  : With(p, [catalogue[p] EXCEPT !.name = n])
                \/ \E l \in Limits : With(p, [catalogue[p] EXCEPT !.max = l])
                \/ \E m \in Modes  : With(p, [catalogue[p] EXCEPT !.mode = m])
                \/ With(p, [catalogue[p] EXCEPT !.state = "deleted"])

Next == \E p \in Ids : Register(p) \/ Change(p)

Spec == Init /\ [][Next]_catalogue

=============================================================================
