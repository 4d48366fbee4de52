-------------------------- MODULE ListStoreProofs --------------------------
(***************************************************************************)
(* Proofs about ListStore for any number of overlapping requests, pages    *)
(* and terms: what the table shows depends on the order of the answers     *)
(* only in that the newest request must be answered last.  Then about      *)
(* SearchBox, the view on top of it.                                       *)
(***************************************************************************)
EXTENDS SearchBox, TLAPS

USE ListStoreAssumption

-----------------------------------------------------------------------------
(* The two ways the stack changes.                                         *)
Rooted(stack) ==
    /\ stack # <<>>
    /\ \A i \in 1 .. Len(stack) : stack[i] = First <=> i = 1

LEMMA FirstIsPage == First \in Pages
BY DEF First, Pages

LEMMA PushKeepsRoot ==
    ASSUME NEW stack \in Seq(Pages), Rooted(stack), NEW p \in Pages, p # First
    PROVE  /\ Append(stack, p) \in Seq(Pages)
           /\ Rooted(Append(stack, p))
           /\ Last(Append(stack, p)) = p
BY DEF Rooted, Last

LEMMA PopKeepsRoot ==
    ASSUME NEW stack \in Seq(Pages), Rooted(stack), Len(stack) > 1
    PROVE  /\ Front(stack) \in Seq(Pages)
           /\ Rooted(Front(stack))
           /\ Last(Front(stack)) \in Pages
<1> DEFINE n == Len(stack) - 1
<1>1. n \in Nat /\ n > 0
  <2>1. Len(stack) \in Nat
    OBVIOUS
  <2>2. QED
    BY <2>1
<1>2. /\ Front(stack) \in Seq(Pages)
      /\ Len(Front(stack)) = n
      /\ \A i \in 1 .. n : Front(stack)[i] = stack[i]
  BY <1>1 DEF Front
<1>3. Rooted(Front(stack))
  BY <1>1, <1>2 DEF Rooted
<1>4. QED
  BY <1>1, <1>2, <1>3 DEF Last

LEMMA FirstIsRooted ==
    /\ <<First>> \in Seq(Pages)
    /\ Rooted(<<First>>)
    /\ Last(<<First>>) = First
BY FirstIsPage DEF Rooted, Last

-----------------------------------------------------------------------------
(* A request that asks for the top of the stack under the active term is   *)
(* issued; everything in the store that changes, changes with it.          *)
LEMMA IssueSound ==
    ASSUME IInv, NEW cursor \in Pages, IssueLoad(cursor, search'),
           search' \in Terms, cursorStack' \in Seq(Pages), Rooted(cursorStack'),
           Last(cursorStack') = cursor,
           mutation' \in [Mutations -> {"none", "sent", "applied"}],
           known' \in Versions, known' <= version,
           UNCHANGED <<items, nextCursor, inOrder, version>>
    PROVE  IInv'
<1> DEFINE new == [search |-> search', cursor |-> cursor, reply |-> Null]
<1>1. PICK l \in Loads \ Pending :
         load' = [load EXCEPT ![l] = new] /\ newest' = l
  BY DEF IssueLoad
<1>2. new \in Loading /\ new # Null
  BY NullAssumption DEF Loading
<1>3. load' \in [Loads -> Loading \cup {Null}] /\ load'[l] = new
  BY <1>1, <1>2 DEF IInv, TypeOK
<1>4. Pending' = Pending \cup {l}
  BY <1>1, <1>2 DEF IInv, TypeOK, Pending
<1>5. TypeOK'
  BY <1>1, <1>3 DEF IInv, TypeOK, IssueLoad
<1>6. StackRooted' /\ LoadingMeansPending'
  BY <1>4 DEF Rooted, StackRooted, LoadingMeansPending
<1>7. NewestMatches' /\ ShownMatches'
  BY <1>1, <1>3, <1>4 DEF NewestMatches, ShownMatches
<1>8. NextIsNotFirst'
  BY <1>1, <1>3, <1>4 DEF IInv, TypeOK, NextIsNotFirst, Pending
<1>9. QED
  BY <1>5, <1>6, <1>7, <1>8 DEF IInv

(* A refetch, with or without a mutation before it.                        *)
LEMMA RefetchSound ==
    ASSUME IInv, Refetch(search'), search' \in Terms,
           mutation' \in [Mutations -> {"none", "sent", "applied"}],
           known' \in Versions, known' <= version, UNCHANGED version
    PROVE  IInv'
<1>1. /\ cursorStack' = <<First>>
      /\ IssueLoad(First, search')
      /\ UNCHANGED <<items, nextCursor, inOrder>>
  BY DEF Refetch
<1>2. cursorStack' \in Seq(Pages) /\ Rooted(cursorStack') /\ Last(cursorStack') = First
  BY <1>1, FirstIsRooted
<1>3. QED
  BY <1>1, <1>2, IssueSound, FirstIsPage

(* An answer is processed: shown, or turned into an error.                 *)
LEMMA SettleSound ==
    ASSUME IInv, NEW l \in Loads, Settle(l)
    PROVE  IInv'
<1>1. /\ load[l] \in Loading
      /\ load' = [load EXCEPT ![l] = Null]
      /\ inOrder' = (l = newest)
      /\ loading' = FALSE
      /\ UNCHANGED <<search, cursorStack, mutation, version, known, newest>>
  BY DEF Settle, LoadSucceeds, LoadFails, IInv, TypeOK
<1>2. Pending' = Pending \ {l}
  BY <1>1 DEF IInv, TypeOK, Pending
<1>3. /\ items' \in Shown \cup {Null}
      /\ nextCursor' \in Pages \cup {Null}
      /\ nextCursor' # First
      /\ error' \in BOOLEAN
      /\ l = newest /\ items' # Null =>
            /\ items'.search = search
            /\ items'.page = Last(cursorStack)
            /\ items'.version >= known
  <2>1. CASE LoadSucceeds(l)
    <3>1. load[l].reply \in Reply /\ l \in Pending
      BY <1>1, <2>1 DEF LoadSucceeds, Loading, Pending
    <3>2. QED
      BY <1>1, <2>1, <3>1 DEF LoadSucceeds, IInv, TypeOK, Shown, Reply, Loading,
                              NewestMatches, NextIsNotFirst
  <2>2. CASE LoadFails(l)
    BY <2>2, NullAssumption, FirstIsPage DEF LoadFails
  <2>3. QED
    BY <2>1, <2>2 DEF Settle
<1>4. TypeOK'
  BY <1>1, <1>3 DEF IInv, TypeOK
<1>5. StackRooted' /\ LoadingMeansPending'
  BY <1>1 DEF IInv, StackRooted, LoadingMeansPending
<1>6. NewestMatches' /\ NextIsNotFirst'
  BY <1>1, <1>2, <1>3 DEF IInv, TypeOK, NewestMatches, NextIsNotFirst
<1>7. ShownMatches'
  BY <1>1, <1>3 DEF ShownMatches
<1>8. QED
  BY <1>1, <1>4, <1>5, <1>6, <1>7 DEF IInv

(* The server answers what it knows now.                                   *)
LEMMA AnswerSound ==
    ASSUME IInv, NEW l \in Loads, Answer(l)
    PROVE  IInv'
<1>1. PICK next \in {Null} \cup ({load[l].cursor + 1} \cap Pages) :
         load' = [load EXCEPT ![l] =
                     [search |-> load[l].search,
                      cursor |-> load[l].cursor,
                      reply  |-> [version |-> version, next |-> next]]]
  BY DEF Answer
<1> DEFINE reply == [version |-> version, next |-> next]
           answered == [search |-> load[l].search, cursor |-> load[l].cursor,
                        reply |-> reply]
<1>2. load[l] \in Loading /\ l \in Pending
  BY DEF Answer, IInv, TypeOK, Pending
<1>3. reply \in Reply /\ next # First
  <2>1. load[l].cursor \in Pages
    BY <1>2 DEF Loading
  <2>2. load[l].cursor + 1 # First
    BY <2>1 DEF Pages, First
  <2>3. QED
    BY <1>1, <2>2, NullAssumption, FirstIsPage DEF Reply, IInv, TypeOK
<1>4. answered \in Loading /\ answered # Null
  BY <1>2, <1>3, NullAssumption DEF Loading
<1>5. /\ load' = [load EXCEPT ![l] = answered]
      /\ load' \in [Loads -> Loading \cup {Null}]
  BY <1>1, <1>4 DEF IInv, TypeOK
<1>6. Pending' = Pending
  BY <1>2, <1>4, <1>5 DEF IInv, TypeOK, Pending
<1>7. UNCHANGED <<store, mutation, version, known, newest, inOrder>>
  BY DEF Answer
<1>8. TypeOK' /\ StackRooted' /\ LoadingMeansPending' /\ ShownMatches'
  BY <1>5, <1>6, <1>7
     DEF IInv, TypeOK, StackRooted, LoadingMeansPending, ShownMatches, store
<1>9. NewestMatches'
  BY <1>2, <1>5, <1>6, <1>7 DEF IInv, TypeOK, NewestMatches, Versions, store
<1>10. NextIsNotFirst'
  BY <1>3, <1>5, <1>6, <1>7 DEF IInv, TypeOK, NextIsNotFirst, Pending, store
<1>11. QED
  BY <1>7, <1>8, <1>9, <1>10 DEF IInv

-----------------------------------------------------------------------------
LEMMA IInvInit == Init => IInv
<1> SUFFICES ASSUME Init
             PROVE  IInv
  OBVIOUS
<1>1. TypeOK
  <2>1. cursorStack \in Seq(Pages)
    BY FirstIsRooted DEF Init
  <2>2. version \in Versions /\ known \in Versions /\ search \in Terms
    BY DEF Init, Versions
  <2>3. /\ load \in [Loads -> Loading \cup {Null}]
        /\ mutation \in [Mutations -> {"none", "sent", "applied"}]
    BY DEF Init
  <2>4. QED
    BY <2>1, <2>2, <2>3 DEF Init, TypeOK
<1>2. StackRooted
  BY FirstIsRooted DEF Init, StackRooted, Rooted
<1>3. Pending = {}
  BY DEF Init, Pending
<1>4. NextIsNotFirst
  BY <1>3, NullAssumption, FirstIsPage DEF Init, NextIsNotFirst
<1>5. QED
  BY <1>1, <1>2, <1>3, <1>4
     DEF Init, IInv, LoadingMeansPending, NewestMatches, ShownMatches

LEMMA IInvStep == IInv /\ [Next]_vars => IInv'
<1> SUFFICES ASSUME IInv, [Next]_vars
             PROVE  IInv'
  OBVIOUS
<1>1. /\ search \in Terms
      /\ nextCursor \in Pages \cup {Null}
      /\ nextCursor # First
      /\ cursorStack \in Seq(Pages)
      /\ Rooted(cursorStack)
      /\ mutation \in [Mutations -> {"none", "sent", "applied"}]
      /\ version \in Versions /\ known \in Versions /\ known <= version
  BY DEF IInv, TypeOK, StackRooted, Rooted, NextIsNotFirst
<1>2. CASE UNCHANGED vars
  BY <1>2 DEF vars, store, IInv, TypeOK, StackRooted, LoadingMeansPending,
              NewestMatches, ShownMatches, NextIsNotFirst, Pending
<1>3. CASE FetchFirstPage
  BY <1>1, <1>3, RefetchSound DEF FetchFirstPage
<1>4. CASE FetchNext
  <2>1. /\ cursorStack' \in Seq(Pages)
        /\ Rooted(cursorStack')
        /\ Last(cursorStack') = nextCursor
        /\ nextCursor \in Pages
    BY <1>1, <1>4, PushKeepsRoot DEF FetchNext
  <2>2. QED
    BY <1>1, <1>4, <2>1, IssueSound DEF FetchNext
<1>5. CASE FetchPrev
  <2>1. /\ cursorStack' \in Seq(Pages)
        /\ Rooted(cursorStack')
        /\ Last(cursorStack') \in Pages
    BY <1>1, <1>5, PopKeepsRoot DEF FetchPrev
  <2>2. IssueLoad(Last(cursorStack'), search')
    BY <1>5 DEF FetchPrev
  <2>3. QED
    BY <1>1, <1>5, <2>1, <2>2, IssueSound DEF FetchPrev
<1>6. ASSUME NEW term \in Terms, SetSearch(term)
      PROVE  IInv'
  BY <1>1, <1>6, RefetchSound DEF SetSearch
<1>7. ASSUME NEW m \in Mutations, Mutate(m) \/ MutationFails(m) \/ Apply(m)
      PROVE  IInv'
  <2>1. /\ UNCHANGED <<store, load, known, newest, inOrder>>
        /\ mutation' \in [Mutations -> {"none", "sent", "applied"}]
        /\ version' \in Versions /\ version' >= version
    BY <1>1, <1>7 DEF Mutate, MutationFails, Apply, Versions
  <2>2. QED
    BY <1>1, <2>1 DEF store, IInv, TypeOK, StackRooted, LoadingMeansPending,
                      NewestMatches, ShownMatches, NextIsNotFirst, Pending, Versions
<1>8. ASSUME NEW m \in Mutations, MutationSucceeds(m)
      PROVE  IInv'
  <2>1. /\ mutation' \in [Mutations -> {"none", "sent", "applied"}]
        /\ known' = version /\ version \in Int
        /\ Refetch(search')
        /\ UNCHANGED <<search, version>>
    BY <1>1, <1>8 DEF MutationSucceeds, Versions
  <2>2. QED
    BY <1>1, <2>1, RefetchSound
<1>9. ASSUME NEW l \in Loads, Settle(l) \/ Answer(l)
      PROVE  IInv'
  BY <1>9, SettleSound, AnswerSound
<1>10. CASE OthersChangeTable
  <2>1. version' \in Versions /\ version' >= version
    BY <1>1, <1>10 DEF OthersChangeTable, Versions
  <2>2. QED
    BY <1>1, <1>10, <2>1
       DEF OthersChangeTable, store, IInv, TypeOK, StackRooted, LoadingMeansPending,
           NewestMatches, ShownMatches, NextIsNotFirst, Pending, Versions
<1>11. QED
  BY <1>2, <1>3, <1>4, <1>5, <1>6, <1>7, <1>8, <1>9, <1>10 DEF Next, User

THEOREM Invariance == Spec => []IInv
BY IInvInit, IInvStep, PTL DEF Spec

(* Every reachable state is well typed. *)
THEOREM TypeCorrectness == Spec => []TypeOK
<1>1. IInv => TypeOK
  BY DEF IInv
<1>2. QED
  BY <1>1, Invariance, PTL

(* "Previous" always finds a page and stops at the first.                  *)
THEOREM StackStaysRooted == Spec => []StackRooted
<1>1. IInv => StackRooted
  BY DEF IInv
<1>2. QED
  BY <1>1, Invariance, PTL

(* No spinner is left behind without a request that will end it.           *)
THEOREM SpinnersAreAwaited == Spec => []LoadingMeansPending
<1>1. IInv => LoadingMeansPending
  BY DEF IInv
<1>2. QED
  BY <1>1, Invariance, PTL

(* At rest, an answer to the newest request that came last is the page and *)
(* the search the user asked for.                                          *)
THEOREM ShownIsAsked == Spec => []ShowsWhatIsAsked
<1>1. IInv => ShowsWhatIsAsked
  BY DEF IInv, ShownMatches, ShowsWhatIsAsked, AtRest
<1>2. QED
  BY <1>1, Invariance, PTL

(* ... and it contains every mutation the user was told had succeeded.     *)
THEOREM MutationsAreShown == Spec => []ShowsMutations
<1>1. IInv => ShowsMutations
  BY DEF IInv, ShownMatches, ShowsMutations, AtRest
<1>2. QED
  BY <1>1, Invariance, PTL

-----------------------------------------------------------------------------
(* The store's invariant holds under the view: the steps of the view are   *)
(* written as steps of the store, or leave it alone.                       *)
LEMMA ViewStepIsStoreStep == ViewIInv /\ [ViewNext]_all => [Next]_vars
<1> SUFFICES ASSUME ViewIInv, [ViewNext]_all
             PROVE  [Next]_vars
  OBVIOUS
<1>1. CASE UNCHANGED all
  BY <1>1 DEF all
<1>2. CASE Mount
  BY <1>2 DEF Mount, Next, User
<1>3. CASE Leave
  BY <1>3 DEF Leave
<1>4. ASSUME NEW term \in Terms, Type(term) \/ OrphanSearches(term)
      PROVE  [Next]_vars
  BY <1>4 DEF Type, OrphanSearches, Next, User
<1>5. CASE OnSearch
  <2>1. box \in Terms
    BY DEF ViewIInv, ViewTypeOK
  <2>2. QED
    BY <1>5, <2>1 DEF OnSearch, Next, User
<1>6. CASE UseView
  BY <1>6 DEF UseView, Next, User
<1>7. CASE Background
  BY <1>7 DEF Background, Next
<1>8. QED
  BY <1>1, <1>2, <1>3, <1>4, <1>5, <1>6, <1>7 DEF ViewNext

(* No answer, no request of the server and no paging sets the term.        *)
LEMMA SearchStands ==
    ASSUME UseView \/ Background
    PROVE  UNCHANGED <<search, view>>
<1>1. CASE UseView
  <2>1. ASSUME FetchNext \/ FetchPrev
        PROVE  UNCHANGED search
    BY <2>1 DEF FetchNext, FetchPrev
  <2>2. ASSUME NEW m \in Mutations, Mutate(m)
        PROVE  UNCHANGED search
    BY <2>2 DEF Mutate, store
  <2>3. QED
    BY <1>1, <2>1, <2>2 DEF UseView
<1>2. CASE Background
  <2>1. ASSUME NEW l \in Loads, Settle(l) \/ Answer(l)
        PROVE  UNCHANGED search
    BY <2>1 DEF Settle, LoadSucceeds, LoadFails, Answer, store
  <2>2. ASSUME NEW m \in Mutations,
               MutationSucceeds(m) \/ MutationFails(m) \/ Apply(m)
        PROVE  UNCHANGED search
    BY <2>2 DEF MutationSucceeds, MutationFails, Apply, store
  <2>3. ASSUME OthersChangeTable
        PROVE  UNCHANGED search
    BY <2>3 DEF OthersChangeTable, store
  <2>4. QED
    BY <1>2, <2>1, <2>2, <2>3 DEF Background
<1>3. QED
  BY <1>1, <1>2

LEMMA ViewIInvInit == ViewInit => ViewIInv
<1> SUFFICES ASSUME ViewInit
             PROVE  ViewIInv
  OBVIOUS
<1>1. IInv /\ TypeOK
  BY IInvInit DEF ViewInit, IInv
<1>2. QED
  BY <1>1 DEF ViewInit, ViewIInv, ViewTypeOK, BoxIsTerm

LEMMA ViewIInvStep == ViewIInv /\ [ViewNext]_all => ViewIInv'
<1> SUFFICES ASSUME ViewIInv, [ViewNext]_all
             PROVE  ViewIInv'
  OBVIOUS
<1>1. IInv' /\ TypeOK'
  BY ViewStepIsStoreStep, IInvStep DEF ViewIInv, IInv
<1> SUFFICES ViewTypeOK' /\ BoxIsTerm'
  BY <1>1 DEF ViewIInv
<1>2. ViewTypeOK /\ BoxIsTerm
  BY DEF ViewIInv
<1>3. CASE UNCHANGED all
  BY <1>1, <1>2, <1>3 DEF all, vars, store, view, ViewTypeOK, BoxIsTerm
<1>4. CASE Mount
  BY <1>1, <1>2, <1>4 DEF Mount, ViewTypeOK, BoxIsTerm
<1>5. CASE Leave
  BY <1>1, <1>2, <1>5 DEF Leave, ViewTypeOK, BoxIsTerm
<1>6. ASSUME NEW term \in Terms, Type(term)
      PROVE  ViewTypeOK' /\ BoxIsTerm'
  BY <1>1, <1>2, <1>6 DEF Type, ViewTypeOK, BoxIsTerm
<1>7. ASSUME NEW term \in Terms, OrphanSearches(term)
      PROVE  ViewTypeOK' /\ BoxIsTerm'
  BY <1>1, <1>2, <1>7 DEF OrphanSearches, ViewTypeOK, BoxIsTerm
<1>8. CASE OnSearch
  BY <1>1, <1>2, <1>8 DEF OnSearch, SetSearch, ViewTypeOK, BoxIsTerm
<1>9. CASE UseView \/ Background
  BY <1>1, <1>2, <1>9, SearchStands DEF view, ViewTypeOK, BoxIsTerm
<1>10. QED
  BY <1>3, <1>4, <1>5, <1>6, <1>7, <1>8, <1>9 DEF ViewNext

THEOREM ViewInvariance == ViewSpec => []ViewIInv
BY ViewIInvInit, ViewIInvStep, PTL DEF ViewSpec

(* Every reachable state of view and store is well typed; in particular a  *)
(* timer that runs belongs to a view that is mounted.                      *)
THEOREM ViewTypeCorrectness == ViewSpec => []ViewTypeOK
<1>1. ViewIInv => ViewTypeOK
  BY DEF ViewIInv
<1>2. QED
  BY <1>1, ViewInvariance, PTL

(* What the user typed last into the box of this view is what the table is *)
(* a search for, once the answers are in.                                  *)
THEOREM BoxIsAlwaysShown == ViewSpec => []BoxIsShown
<1>1. ViewIInv => BoxIsShown
  <2>1. IInv => ShowsWhatIsAsked
    BY DEF IInv, ShownMatches, ShowsWhatIsAsked, AtRest
  <2>2. QED
    BY <2>1 DEF ViewIInv, BoxIsTerm, BoxIsShown, ShowsWhatIsAsked
<1>2. QED
  BY <1>1, ViewInvariance, PTL
=============================================================================
