----------------------------- MODULE ListStore -----------------------------
(***************************************************************************)
(* The Pinia store behind the administrators' table of apps/admin-ui (the  *)
(* customers' store has the same code).  A store function runs without     *)
(* interruption up to its await and so issues its request in the same      *)
(* step; what follows the await runs when that answer arrives.  Nothing    *)
(* cancels or numbers the requests: they are answered in any order.        *)
(***************************************************************************)
EXTENDS Naturals, Sequences, SequencesExt

CONSTANTS
    Terms,          \* search terms, trimmed
    NoSearch,       \* the empty term
    LastPage,       \* bound: no page beyond this one
    Loads,          \* slots for list requests in flight
    Mutations,      \* slots for create, update, block, unblock, remove calls
    MaxVersion,     \* bound: the table changes at most so often
    MaxStack,       \* bound: the cursors kept for going back
    Null            \* nothing loaded, no next page, a free slot

ASSUME ListStoreAssumption ==
    /\ NoSearch \in Terms
    /\ LastPage \in Nat \ {0}
    /\ MaxVersion \in Nat
    /\ MaxStack \in Nat \ {0}

VARIABLES
    search, items, cursorStack, nextCursor, loading, error,  \* the store
    load,       \* per slot: a list request and the server's answer to it
    mutation,   \* per slot: "none", "sent" or "applied"
    version,    \* how often the table on the server has changed
    known,      \* the version the last successful mutation led to (history)
    newest,     \* the slot of the last list request (history)
    inOrder     \* the last answer was the one to that request (history)

store == <<search, items, cursorStack, nextCursor, loading, error>>
vars  == <<store, load, mutation, version, known, newest, inOrder>>

-----------------------------------------------------------------------------
(* A cursor is the number of the page it leads to, First being undefined.  *)
First    == 1
Pages    == First .. LastPage
Versions == 0 .. MaxVersion

(* What the table shows stands for the request it answers and the state of *)
(* the server's table when it was answered.                                *)
Shown  == [search : Terms, page : Pages, version : Versions]

Reply  == [version : Versions, next : Pages \cup {Null}]

Loading == [search : Terms, cursor : Pages, reply : Reply \cup {Null}]

ASSUME NullAssumption == Null \notin Shown \cup Pages \cup Reply \cup Loading

Pending == {l \in Loads : load[l] # Null}

Init ==
    /\ search = NoSearch
    /\ items = Null
    /\ cursorStack = <<First>>
    /\ nextCursor = Null
    /\ loading = FALSE
    /\ error = FALSE
    /\ load = [l \in Loads |-> Null]
    /\ mutation = [m \in Mutations |-> "none"]
    /\ version = 0
    /\ known = 0
    /\ newest = Null
    /\ inOrder = TRUE

-----------------------------------------------------------------------------
(* load(cursor) up to its await.                                           *)
IssueLoad(cursor, term) ==
    /\ \E l \in Loads \ Pending :
          /\ load' = [load EXCEPT ![l] =
                         [search |-> term, cursor |-> cursor, reply |-> Null]]
          /\ newest' = l
    /\ loading' = TRUE
    /\ error' = FALSE

RefetchInPlace(term) ==                     \* mutant: stack reset forgotten
    /\ UNCHANGED cursorStack
    /\ IssueLoad(First, term)
    /\ UNCHANGED <<items, nextCursor, inOrder>>

Refetch(term) ==
    /\ cursorStack' = <<First>>
    /\ IssueLoad(First, term)
    /\ UNCHANGED <<items, nextCursor, inOrder>>

(* The view is mounted; the store outlives it and may be in any state.     *)
FetchFirstPage ==
    /\ Refetch(search)
    /\ UNCHANGED <<search, mutation, version, known>>

FetchNext ==
    /\ nextCursor # Null
    /\ Len(cursorStack) < MaxStack
    /\ cursorStack' = Append(cursorStack, nextCursor)
    /\ IssueLoad(nextCursor, search)
    /\ UNCHANGED <<search, items, nextCursor, mutation, version, known, inOrder>>

FetchPrev ==
    /\ Len(cursorStack) > 1
    /\ cursorStack' = Front(cursorStack)
    /\ IssueLoad(Last(Front(cursorStack)), search)
    /\ UNCHANGED <<search, items, nextCursor, mutation, version, known, inOrder>>

SetSearch(term) ==
    /\ search' = term
    /\ Refetch(term)
    /\ UNCHANGED <<mutation, version, known>>

-----------------------------------------------------------------------------
(* load(cursor) after its await: try, catch and finally.                   *)
LoadSucceeds(l) ==
    /\ load[l] # Null
    /\ load[l].reply # Null
    /\ items' = [search  |-> load[l].search,
                 page    |-> load[l].cursor,
                 version |-> load[l].reply.version]
    /\ nextCursor' = load[l].reply.next
    /\ loading' = FALSE
    /\ load' = [load EXCEPT ![l] = Null]
    /\ inOrder' = (l = newest)
    /\ UNCHANGED <<search, cursorStack, error, mutation, version, known, newest>>

LoadFailsStillLoading(l) ==                 \* mutant: no finally
    /\ load[l] # Null
    /\ items' = Null
    /\ nextCursor' = Null
    /\ error' = TRUE
    /\ load' = [load EXCEPT ![l] = Null]
    /\ inOrder' = (l = newest)
    /\ UNCHANGED <<search, cursorStack, loading, mutation, version, known, newest>>

(* The server refuses, or the client gives up after its timeout.           *)
LoadFails(l) ==
    /\ load[l] # Null
    /\ items' = Null
    /\ nextCursor' = Null
    /\ error' = TRUE
    /\ loading' = FALSE
    /\ load' = [load EXCEPT ![l] = Null]
    /\ inOrder' = (l = newest)
    /\ UNCHANGED <<search, cursorStack, mutation, version, known, newest>>

-----------------------------------------------------------------------------
(* create, update, block, unblock and remove are the same for the store:   *)
(* one call of the service, and if it succeeds a refetch.                  *)
Mutate(m) ==
    /\ mutation[m] = "none"
    /\ mutation' = [mutation EXCEPT ![m] = "sent"]
    /\ UNCHANGED <<store, load, version, known, newest, inOrder>>

MutationSucceedsQuietly(m) ==               \* mutant: no refetch
    /\ mutation[m] = "applied"
    /\ mutation' = [mutation EXCEPT ![m] = "none"]
    /\ known' = version
    /\ UNCHANGED <<store, load, version, newest, inOrder>>

MutationSucceeds(m) ==
    /\ mutation[m] = "applied"
    /\ mutation' = [mutation EXCEPT ![m] = "none"]
    /\ known' = version
    /\ Refetch(search)
    /\ UNCHANGED <<search, version>>

(* A refusal, or an answer that was lost after the server acted on it.     *)
MutationFails(m) ==
    /\ mutation[m] # "none"
    /\ mutation' = [mutation EXCEPT ![m] = "none"]
    /\ UNCHANGED <<store, load, version, known, newest, inOrder>>

-----------------------------------------------------------------------------
(* The server.  A GET that ky repeats is answered again.                   *)
Answer(l) ==
    /\ load[l] # Null
    /\ \E next \in {Null} \cup ({load[l].cursor + 1} \cap Pages) :
          load' = [load EXCEPT ![l] =
                      [search |-> load[l].search,
                       cursor |-> load[l].cursor,
                       reply  |-> [version |-> version, next |-> next]]]
    /\ UNCHANGED <<store, mutation, version, known, newest, inOrder>>

Apply(m) ==
    /\ mutation[m] = "sent"
    /\ version < MaxVersion
    /\ version' = version + 1
    /\ mutation' = [mutation EXCEPT ![m] = "applied"]
    /\ UNCHANGED <<store, load, known, newest, inOrder>>

(* Another administrator works on the same table. *)
OthersChangeTable ==
    /\ version < MaxVersion
    /\ version' = version + 1
    /\ UNCHANGED <<store, load, mutation, known, newest, inOrder>>

-----------------------------------------------------------------------------
User ==
    \/ FetchFirstPage
    \/ FetchNext
    \/ FetchPrev
    \/ \E term \in Terms : SetSearch(term)
    \/ \E m \in Mutations : Mutate(m)

Settle(l) == LoadSucceeds(l) \/ LoadFails(l)

Next ==
    \/ User
    \/ \E l \in Loads : Settle(l) \/ Answer(l)
    \/ \E m \in Mutations : MutationSucceeds(m) \/ MutationFails(m) \/ Apply(m)
    \/ OthersChangeTable

Spec == Init /\ [][Next]_vars

(* ky gives up on a request after its timeout, so each one settles.        *)
FairSpec == Spec /\ \A l \in Loads : WF_vars(Settle(l))

-----------------------------------------------------------------------------
(* Type invariant. *)
TypeOK ==
    /\ search \in Terms
    /\ items \in Shown \cup {Null}
    /\ cursorStack \in Seq(Pages)
    /\ nextCursor \in Pages \cup {Null}
    /\ loading \in BOOLEAN
    /\ error \in BOOLEAN
    /\ load \in [Loads -> Loading \cup {Null}]
    /\ mutation \in [Mutations -> {"none", "sent", "applied"}]
    /\ version \in Versions
    /\ known \in Versions
    /\ newest \in Loads \cup {Null}
    /\ inOrder \in BOOLEAN

(* Whatever overlaps, the stack is never emptied and the first page, which *)
(* has no cursor, is at its bottom and only there: "previous" always has a *)
(* page to go to and stops at the first.                                   *)
StackRooted ==
    /\ cursorStack # <<>>
    /\ \A i \in 1 .. Len(cursorStack) : cursorStack[i] = First <=> i = 1

(* The spinner turns only while an answer is awaited: no path of a failed  *)
(* or overtaken load leaves it behind.                                     *)
LoadingMeansPending == loading => Pending # {}

AtRest == Pending = {} /\ items # Null

(* When nothing is awaited and the answer that came last is the one to the *)
(* last request, however the other requests overlapped, the table shows    *)
(* the page on top of the stack under the active search term.              *)
ShowsWhatIsAsked ==
    AtRest /\ inOrder =>
       /\ items.search = search
       /\ items.page = Last(cursorStack)

(* Then it also shows the effect of every mutation that was acknowledged.  *)
ShowsMutations ==
    AtRest /\ inOrder => items.version >= known

(* The inductive invariant: the newest request asks for what the store     *)
(* wants, so long as it is awaited, and what came back to it is shown.     *)
NewestMatches ==
    newest \in Pending =>
       /\ load[newest].search = search
       /\ load[newest].cursor = Last(cursorStack)
       /\ load[newest].reply # Null => load[newest].reply.version >= known

ShownMatches ==
    newest \notin Pending /\ inOrder /\ items # Null =>
       /\ items.search = search
       /\ items.page = Last(cursorStack)
       /\ items.version >= known

NextIsNotFirst ==
    /\ nextCursor # First
    /\ \A l \in Pending : load[l].reply # Null => load[l].reply.next # First

IInv ==
    /\ TypeOK
    /\ StackRooted
    /\ LoadingMeansPending
    /\ NewestMatches
    /\ ShownMatches
    /\ NextIsNotFirst
    /\ known <= version

(* A spinner that is on is switched off. *)
LoadingEnds == loading ~> ~ loading

(* "Every mutation that succeeds reloads the list, back to the first page  *)
(* and with the active term": with nothing awaited and nothing failed the  *)
(* table shows it.                                                         *)
MutationIsShown == AtRest /\ ~ error => items.version >= known
=============================================================================
