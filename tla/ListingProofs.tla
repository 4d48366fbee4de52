--------------------------- MODULE ListingProofs ---------------------------
(***************************************************************************)
(* Proofs about Listing for every page size, clock resolution, table and   *)
(* commit delay.                                                           *)
(***************************************************************************)
EXTENDS Listing, TLAPS

USE ListingAssumption

(* Cutting off what is below a millisecond never moves an instant forward. *)
LEMMA FloorIsBelow == \A t \in Times : Floor(t) \in Int /\ Floor(t) <= t
<1> SUFFICES ASSUME NEW t \in Nat
             PROVE  Floor(t) \in Int /\ Floor(t) <= t
  BY DEF Times
<1>1. t = Milli * (t \div Milli) + (t % Milli) /\ t % Milli \in Nat /\ t \div Milli \in Int
  OBVIOUS
<1>2. QED
  BY <1>1 DEF Floor

(* An instant before u that the cut does not map to the same millisecond   *)
(* is before that millisecond.                                             *)
LEMMA FloorSeparates ==
    ASSUME NEW t \in Nat, NEW u \in Nat, t <= u, Floor(t) # Floor(u)
    PROVE  t < Floor(u)
<1> DEFINE q == t \div Milli
           p == u \div Milli
<1>1. /\ q \in Int /\ p \in Int
      /\ Milli * q <= t /\ t < Milli * q + Milli
      /\ Milli * p <= u /\ u < Milli * p + Milli
  <2>1. t = Milli * q + (t % Milli) /\ t % Milli \in 0 .. Milli - 1 /\ q \in Int
    OBVIOUS
  <2>2. u = Milli * p + (u % Milli) /\ u % Milli \in 0 .. Milli - 1 /\ p \in Int
    OBVIOUS
  <2> HIDE DEF q, p
  <2>3. Milli * q \in Int /\ Milli * p \in Int
    BY <2>1, <2>2
  <2>4. QED
    BY <2>1, <2>2, <2>3
<1>2. Floor(t) = q * Milli /\ Floor(u) = p * Milli
  BY DEF Floor
<1> HIDE DEF q, p
<1>3. q # p
  BY <1>2
<1>4. CASE q < p
  <2>1. Milli * (q + 1) <= Milli * p
    BY <1>1, <1>4
  <2>2. QED
    BY <1>1, <1>2, <2>1
<1>5. CASE p < q
  <2>1. Milli * (p + 1) <= Milli * q
    BY <1>1, <1>5
  <2>2. QED
    BY <1>1, <2>1
<1>6. QED
  BY <1>1, <1>3, <1>4, <1>5

(* Instants and ids of rows are numbers. *)
LEMMA RowsTyped == \A r \in Row : r.at \in Int /\ r.id \in Int
<1>1. \A r \in Row : r.at \in Times /\ r.id \in Ids
  BY DEF Row
<1>2. Times \subseteq Int /\ Ids \subseteq Int
  BY DEF Times
<1>3. QED
  BY <1>1, <1>2

(* The order of the listing is transitive. *)
LEMMA NewerTransitive ==
    ASSUME NEW x \in Row, NEW y \in Row, NEW z \in Row, Newer(x, y), Newer(y, z)
    PROVE  Newer(x, z)
BY RowsTyped DEF Newer

(* Whatever the cursor made of a row reaches is older than the row. *)
LEMMA CursorReachesOlder ==
    ASSUME NEW y \in Row, NEW z \in Row, Before(CursorOf(y), z)
    PROVE  Newer(y, z)
<1>1. Floor(y.at) \in Int /\ Floor(y.at) <= y.at
  BY FloorIsBelow DEF Row
<1>2. QED
  BY <1>1 DEF Before, CursorOf, Newer, Row, Times

(* The converse but for the cut: a row that is older than y is reached by  *)
(* the cursor made of y, unless it has the millisecond of y.               *)
LEMMA CursorReachesAllBelow ==
    ASSUME NEW y \in Row, NEW z \in Row, Newer(y, z), Floor(z.at) # Floor(y.at)
    PROVE  Before(CursorOf(y), z)
<1>1. y.at \in Nat /\ z.at \in Nat /\ z.at <= y.at
  BY DEF Newer, Row, Times
<1>2. z.at < Floor(y.at)
  BY <1>1, FloorSeparates
<1>3. QED
  BY <1>2 DEF Before, CursorOf

(* A page more is what is returned more. *)
LEMMA PageIsReturned ==
    ASSUME NEW page, pages \in Seq(SUBSET Row), page \in SUBSET Row,
           pages' = Append(pages, page)
    PROVE  /\ pages' \in Seq(SUBSET Row)
           /\ Returned' = Returned \cup page
           /\ DOMAIN pages' = DOMAIN pages \cup {Len(pages) + 1}
           /\ pages'[Len(pages) + 1] = page
           /\ \A i \in DOMAIN pages : pages'[i] = pages[i] /\ i < Len(pages) + 1
<1>1. /\ Len(pages) \in Nat /\ DOMAIN pages = 1 .. Len(pages)
      /\ pages' \in Seq(SUBSET Row) /\ Len(pages') = Len(pages) + 1
      /\ DOMAIN pages' = 1 .. Len(pages) + 1
      /\ pages'[Len(pages) + 1] = page
      /\ \A i \in 1 .. Len(pages) : pages'[i] = pages[i]
  OBVIOUS
<1>2. DOMAIN pages' = DOMAIN pages \cup {Len(pages) + 1}
  BY <1>1
<1>3. Returned' = Returned \cup page
  BY <1>1, <1>2 DEF Returned
<1> QED BY <1>1, <1>2, <1>3

(* Rows are returned on pages. *)
LEMMA ReturnedTyped ==
    ASSUME TypeOK
    PROVE  Returned \subseteq Row
BY DEF TypeOK, Returned

(* Which pages a page may follow. *)
LEMMA PageDescends ==
    ASSUME NEW page, pages \in Seq(SUBSET Row), page \in SUBSET Row,
           pages' = Append(pages, page), NewestFirst,
           \A x \in Returned, y \in page : Newer(x, y)
    PROVE  NewestFirst'
<1> SUFFICES ASSUME NEW i \in DOMAIN pages', NEW j \in DOMAIN pages', i < j,
                    NEW x \in pages'[i], NEW y \in pages'[j]
             PROVE  Newer(x, y)
  BY DEF NewestFirst
<1>1. i \in DOMAIN pages /\ pages'[i] = pages[i]
  BY PageIsReturned
<1>2. x \in Returned
  BY <1>1 DEF Returned
<1>3. CASE j \in DOMAIN pages
  BY <1>1, <1>3, PageIsReturned DEF NewestFirst
<1>4. CASE j = Len(pages) + 1
  BY <1>2, <1>4, PageIsReturned
<1> QED BY <1>3, <1>4, PageIsReturned

LEMMA IInvInit == Init => IInv
BY DEF Init, IInv, TypeOK, PagesDescend, NewestFirst, NothingElseIsMissed, Returned, Start, Times

LEMMA IInvStep == IInv /\ [Next]_vars => IInv'
<1> SUFFICES ASSUME IInv, [Next]_vars
             PROVE  IInv'
  OBVIOUS
<1> USE DEF IInv
<1>1. CASE UNCHANGED vars
  BY <1>1 DEF vars, TypeOK, PagesDescend, NewestFirst, NothingElseIsMissed, Returned
<1>2. CASE Tick
  BY <1>2 DEF Tick, TypeOK, PagesDescend, NewestFirst, NothingElseIsMissed, Returned, Times
<1>3. ASSUME NEW id \in Ids, NEW at \in Times, Insert(id, at)
      PROVE  IInv'
  BY <1>3 DEF Insert, TypeOK, PagesDescend, NewestFirst, NothingElseIsMissed, Returned, Row
<1>4. ASSUME NEW y \in rows, Remove(y)
      PROVE  IInv'
  BY <1>4 DEF Remove, TypeOK, PagesDescend, NewestFirst, NothingElseIsMissed, Returned
<1>5. CASE Begin
  <2>1. TypeOK' /\ PagesDescend' /\ NewestFirst'
    BY <1>5 DEF Begin, TypeOK, PagesDescend, NewestFirst, Returned
  <2>2. \A y \in rows : Before(Start, y)
    BY DEF TypeOK, Before, Start, Row, Times
  <2>3. NothingElseIsMissed'
    BY <1>5, <2>2 DEF Begin, NothingElseIsMissed
  <2>4. QED
    BY <2>1, <2>3
<1>6. CASE FetchPage
  <2>1. PICK page \in SUBSET Matching(cursor) :
           /\ IsPage(page, Matching(cursor))
           /\ pages' = Append(pages, page)
           /\ \/ page = Matching(cursor) /\ walk' = "done" /\ UNCHANGED cursor
              \/ \E y \in page : IsLast(y, page) /\ cursor' = CursorOf(y) /\ UNCHANGED walk
    BY <1>6 DEF FetchPage
  <2>2. walk = "walking" /\ UNCHANGED <<rows, clock, standing>>
    BY <1>6 DEF FetchPage
  <2>3. page \subseteq Row /\ \A y \in page : Before(cursor, y)
    BY DEF Matching, TypeOK
  <2>4. /\ pages' \in Seq(SUBSET Row) /\ Returned \subseteq Row
        /\ Returned' = Returned \cup page
    BY <2>1, <2>3, PageIsReturned, ReturnedTyped DEF TypeOK
  <2>5. NewestFirst'
    <3>1. \A x \in Returned, y \in page : Newer(x, y)
      BY <2>2, <2>3 DEF PagesDescend
    <3>2. page \in SUBSET Row /\ pages' = Append(pages, page)
      BY <2>1, <2>3
    <3> QED BY <3>1, <3>2, PageDescends DEF TypeOK
  <2>6. ASSUME NEW z \in standing' \ Returned'
        PROVE  \/ z \in Row /\ z \in Matching(cursor) \ page
               \/ \E x \in Returned' : Floor(x.at) = Floor(z.at)
    <3>1. z \in standing \ Returned /\ z \notin page /\ z \in rows /\ z \in Row
      BY <2>1, <2>2, <2>4 DEF TypeOK
    <3>2. CASE Before(cursor, z)
      BY <3>1, <3>2 DEF Matching
    <3>3. CASE \E x \in Returned : Floor(x.at) = Floor(z.at)
      BY <2>4, <3>3
    <3>4. QED
      BY <2>2, <3>1, <3>2, <3>3 DEF NothingElseIsMissed
  <2>7. CASE page = Matching(cursor) /\ walk' = "done" /\ UNCHANGED cursor
    <3>1. TypeOK' /\ PagesDescend'
      BY <2>2, <2>7, <2>4 DEF TypeOK, PagesDescend
    <3>2. NothingElseIsMissed'
      BY <2>6, <2>7 DEF NothingElseIsMissed
    <3>3. QED
      BY <2>5, <3>1, <3>2
  <2>8. ASSUME NEW y \in page, IsLast(y, page), cursor' = CursorOf(y), UNCHANGED walk
        PROVE  IInv'
    <3>1. y \in Row /\ y.at \in Times /\ y.id \in Ids
      BY <2>3 DEF Row
    <3>2. TypeOK'
      BY <2>2, <2>8, <2>4, <3>1 DEF TypeOK, CursorOf
    <3>3. ASSUME NEW x \in Returned', NEW z \in Row, Before(cursor', z)
          PROVE  Newer(x, z)
      <4>1. Newer(y, z)
        BY <2>8, <3>1, <3>3, CursorReachesOlder
      <4>2. CASE x \in page
        BY <2>3, <2>8, <3>1, <4>1, <4>2, NewerTransitive DEF IsLast
      <4>3. CASE x \in Returned
        <5>1. x \in Row /\ Newer(x, y)
          BY <2>2, <2>3, <2>4, <3>1, <4>3 DEF PagesDescend
        <5>2. QED
          BY <3>1, <4>1, <5>1, NewerTransitive
      <4>4. QED
        BY <2>4, <3>3, <4>2, <4>3
    <3>4. ASSUME NEW z \in standing' \ Returned'
          PROVE  \/ Before(cursor', z)
                 \/ \E x \in Returned' : Floor(x.at) = Floor(z.at)
      <4>1. CASE z \in Row /\ z \in Matching(cursor) \ page
        <5>1. Newer(y, z)
          BY <2>1, <4>1 DEF IsPage
        <5>2. y \in Returned'
          BY <2>4
        <5>3. CASE Floor(z.at) = Floor(y.at)
          BY <5>2, <5>3
        <5>4. CASE Floor(z.at) # Floor(y.at)
          BY <2>8, <3>1, <4>1, <5>1, <5>4, CursorReachesAllBelow
        <5>5. QED
          BY <5>3, <5>4
      <4>2. QED
        BY <2>6, <4>1
    <3>5. NothingElseIsMissed'
      BY <2>2, <2>8, <3>4 DEF NothingElseIsMissed
    <3>6. QED
      BY <2>5, <3>2, <3>3, <3>5 DEF PagesDescend
  <2>9. QED
    BY <2>1, <2>7, <2>8
<1>7. QED
  BY <1>1, <1>2, <1>3, <1>4, <1>5, <1>6 DEF Next

(* Every reachable state is well typed. *)
THEOREM TypeCorrectness == Spec => []TypeOK
<1>1. IInv => TypeOK
  BY DEF IInv
<1>2. QED
  BY <1>1, IInvInit, IInvStep, PTL DEF Spec

(* No later page can reach a row that is not older than all rows returned. *)
THEOREM PagesAlwaysDescend == Spec => []PagesDescend
<1>1. IInv => PagesDescend
  BY DEF IInv
<1>2. QED
  BY <1>1, IInvInit, IInvStep, PTL DEF Spec

(* All pages of a walk are one sequence, strictly newest-first, under any  *)
(* inserts and deletes between the requests: no row comes twice.           *)
THEOREM WalksAreNewestFirst == Spec => []NewestFirst
<1>1. IInv => NewestFirst
  BY DEF IInv
<1>2. QED
  BY <1>1, IInvInit, IInvStep, PTL DEF Spec

(* A finished walk has seen every row that stood in the table all along,   *)
(* but for rows that share the millisecond of a row it has seen.           *)
THEOREM WalksMissNothingBeyondAMillisecond == Spec => []CompleteBeyondAMillisecond
<1>1. IInv => CompleteBeyondAMillisecond
  BY DEF IInv, NothingElseIsMissed, CompleteBeyondAMillisecond
<1>2. QED
  BY <1>1, IInvInit, IInvStep, PTL DEF Spec

-----------------------------------------------------------------------------
LEMMA NewerAsymmetric ==
    ASSUME NEW x \in Row, NEW y \in Row, Newer(x, y)
    PROVE  x # y /\ ~Newer(y, x)
BY RowsTyped DEF Newer

(* The rows that a cursor reaches are closed under older.                  *)
LEMMA ReachIsClosed ==
    ASSUME TypeOK, NEW y \in Row, NEW z \in Row, Before(cursor, y), Newer(y, z)
    PROVE  Before(cursor, z)
<1>1. /\ y.at \in Int /\ y.id \in Int
      /\ z.at \in Int /\ z.id \in Int
  BY RowsTyped
<1>2. cursor.at \in Int /\ cursor.id \in Int
  <2>1. CASE cursor = Start
    BY <2>1 DEF Start
  <2>2. CASE cursor # Start
    <3>1. PICK t \in Times : cursor.at = Floor(t) /\ cursor.id \in Ids
      BY <2>2 DEF TypeOK
    <3>2. QED
      BY <3>1, FloorIsBelow
  <2>3. QED
    BY <2>1, <2>2
<1>3. QED
  BY <1>1, <1>2 DEF Before, Newer

(* Every page but the last leaves strictly less to return: a walk has at   *)
(* most as many pages as there can be rows.                                *)
THEOREM EveryPageUsesUp == Spec => PagesUseUp
<1>1. ASSUME IInv, [Next]_vars, walk = "walking", walk' = "walking",
             ~ UNCHANGED <<cursor, pages>>
      PROVE  Reach' \subseteq Reach /\ Reach' # Reach
  <2>1. FetchPage
    BY <1>1 DEF Next, vars, Tick, Insert, Remove, Begin
  <2>2. PICK y \in Matching(cursor) : cursor' = CursorOf(y)
    BY <1>1, <2>1 DEF FetchPage
  <2>3. y \in Row /\ Before(cursor, y)
    BY <1>1 DEF Matching, IInv, TypeOK
  <2>4. \A z \in Row : Before(cursor', z) => Newer(y, z)
    BY <2>2, <2>3, CursorReachesOlder
  <2>5. \A z \in Row : Before(cursor', z) => Before(cursor, z)
    BY <1>1, <2>3, <2>4, ReachIsClosed DEF IInv
  <2>6. ~ Before(cursor', y)
    BY <2>3, <2>4, NewerAsymmetric
  <2>7. QED
    BY <2>3, <2>5, <2>6 DEF Reach
<1>2. IInv /\ [Next]_vars =>
         (walk = "walking" /\ walk' = "walking" =>
             \/ UNCHANGED <<cursor, pages>>
             \/ Reach' \subseteq Reach /\ Reach' # Reach)
  BY <1>1
<1>3. QED
  BY <1>2, IInvInit, IInvStep, PTL DEF Spec, PagesUseUp

-----------------------------------------------------------------------------
LEMMA ExactInit == Init => NothingIsMissed
BY DEF Init, NothingIsMissed, Returned

LEMMA ExactStep ==
    ASSUME Milli = 1
    PROVE  IInv /\ NothingIsMissed /\ [Next]_vars => NothingIsMissed'
<1> SUFFICES ASSUME IInv, NothingIsMissed, [Next]_vars
             PROVE  NothingIsMissed'
  OBVIOUS
<1>1. CASE UNCHANGED vars
  BY <1>1 DEF vars, NothingIsMissed, Returned
<1>2. CASE Tick
  BY <1>2 DEF Tick, NothingIsMissed, Returned
<1>3. ASSUME NEW id \in Ids, NEW at \in Times, Insert(id, at)
      PROVE  NothingIsMissed'
  BY <1>3 DEF Insert, NothingIsMissed, Returned
<1>4. ASSUME NEW y \in rows, Remove(y)
      PROVE  NothingIsMissed'
  BY <1>4 DEF Remove, NothingIsMissed, Returned
<1>5. CASE Begin
  <2>1. \A y \in rows : Before(Start, y)
    BY DEF IInv, TypeOK, Before, Start, Row, Times
  <2>2. QED
    BY <1>5, <2>1 DEF Begin, NothingIsMissed, Returned
<1>6. CASE FetchPage
  <2>1. PICK page \in SUBSET Matching(cursor) :
           /\ IsPage(page, Matching(cursor))
           /\ pages' = Append(pages, page)
           /\ \/ page = Matching(cursor) /\ walk' = "done" /\ UNCHANGED cursor
              \/ \E y \in page : IsLast(y, page) /\ cursor' = CursorOf(y) /\ UNCHANGED walk
    BY <1>6 DEF FetchPage
  <2>2. walk = "walking" /\ UNCHANGED <<rows, clock, standing>>
    BY <1>6 DEF FetchPage
  <2>3. ASSUME NEW z \in standing' \ Returned'
        PROVE  z \in Row /\ z \in Matching(cursor) \ page
    <3>1. Returned' = Returned \cup page
      BY <2>1, PageIsReturned DEF IInv, TypeOK, Matching
    <3>2. QED
      BY <2>1, <2>2, <3>1 DEF IInv, TypeOK, NothingIsMissed, Matching
  <2>4. CASE page = Matching(cursor)
    BY <2>3, <2>4 DEF NothingIsMissed
  <2>5. ASSUME NEW y \in page, IsLast(y, page), cursor' = CursorOf(y), UNCHANGED walk
        PROVE  NothingIsMissed'
    <3>1. y \in Row
      BY DEF Matching, IInv, TypeOK
    <3>2. ASSUME NEW z \in standing' \ Returned'
          PROVE  Before(cursor', z)
      <4>1. z \in Row /\ Newer(y, z)
        BY <2>1, <2>3 DEF IsPage
      <4>2. Floor(y.at) = y.at
        BY <3>1 DEF Floor, Row, Times
      <4>3. QED
        BY <2>5, <4>1, <4>2 DEF CursorOf, Before, Newer
    <3>3. QED
      BY <2>2, <2>5, <3>2 DEF NothingIsMissed
  <2>6. QED
    BY <2>1, <2>4, <2>5
<1>7. QED
  BY <1>1, <1>2, <1>3, <1>4, <1>5, <1>6 DEF Next

(* The cut to the millisecond is the only reason why a walk may miss rows: *)
(* if a Date were as exact as created_at, every walk would be complete,    *)
(* whatever is inserted late and deleted meanwhile.                        *)
THEOREM ExactCursorsMissNothing ==
    ASSUME Milli = 1
    PROVE  Spec => []WalkIsComplete
<1>1. NothingIsMissed => WalkIsComplete
  BY DEF NothingIsMissed, WalkIsComplete
<1>2. QED
  BY <1>1, IInvInit, IInvStep, ExactInit, ExactStep, PTL DEF Spec
=============================================================================
