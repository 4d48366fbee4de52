------------------------------ MODULE Listing ------------------------------
(***************************************************************************)
(* Cursor pagination of GET /admins (GET /customers has the same code): a  *)
(* client walks from the newest row to the oldest, page after page, while  *)
(* rows are inserted and deleted.                                          *)
(*                                                                         *)
(* A page is one SELECT ... WHERE (created_at, id) before the cursor       *)
(* ORDER BY created_at DESC, id DESC LIMIT limit + 1.  The cursor names    *)
(* the last row of the page before, but not exactly: created_at has        *)
(* microseconds in PostgreSQL and milliseconds in the JavaScript Date the  *)
(* cursor is built from.                                                   *)
(***************************************************************************)
EXTENDS Integers, Sequences, FiniteSets

CONSTANTS
    Ids,        \* row ids, ordered; uuidv7() of two sessions in either order
    Limit,      \* rows of a page
    Milli,      \* clock units of created_at in one unit of a Date
    MaxTime,    \* bound: the last instant of created_at
    Lag         \* bound: how late an insert commits after its created_at

ASSUME ListingAssumption ==
    /\ Ids \subseteq Int
    /\ Limit \in Nat \ {0}
    /\ Milli \in Nat \ {0}
    /\ MaxTime \in Nat
    /\ Lag \in Nat

VARIABLES
    rows,       \* the table
    clock,      \* now(), in units of created_at
    walk,       \* "idle", "walking" or "done"
    cursor,     \* the cursor of the next request
    pages,      \* the pages the walk was given so far, the last one at the end
    standing    \* the rows that are in the table since the walk began (history)

vars == <<rows, clock, walk, cursor, pages, standing>>

-----------------------------------------------------------------------------
Times  == 0 .. MaxTime
Row    == [at : Times, id : Ids]

(* No cursor: the first page has no condition. *)
Start  == [at |-> MaxTime + 1, id |-> 0]

(* ORDER BY created_at DESC, id DESC: x comes before y. *)
Newer(x, y) == x.at > y.at \/ (x.at = y.at /\ x.id > y.id)

BeforeOrAt(c, y) == y.at < c.at \/ (y.at = c.at /\ y.id <= c.id)   \* mutant: lte(id)

(* The WHERE clause: lt(created_at), or eq(created_at) and lt(id). *)
Before(c, y) == y.at < c.at \/ (y.at = c.at /\ y.id < c.id)

Matching(c) == {y \in rows : Before(c, y)}

(* Everything the walk was given; what a page shows twice is in it once.   *)
Returned == UNION {pages[i] : i \in DOMAIN pages}

Rounded(t) == ((t + Milli - 1) \div Milli) * Milli        \* mutant: rounds up

(* toISOString() of a Date: what is below a millisecond is cut off. *)
Floor(t) == (t \div Milli) * Milli

CursorOf(y) == [at |-> Floor(y.at), id |-> y.id]

IsFirst(y, page) == \A x \in page : x = y \/ Newer(y, x)      \* mutant: items.at(0)

IsLast(y, page) == \A x \in page : x = y \/ Newer(x, y)

IsPageUnordered(page, candidates) ==                      \* mutant: no ORDER BY
    /\ page \subseteq candidates
    /\ \/ page = candidates /\ Cardinality(page) <= Limit
       \/ page # candidates /\ Cardinality(page) = Limit

(* The LIMIT newest of the matching rows. *)
IsPage(page, candidates) ==
    /\ page \subseteq candidates
    /\ \A x \in page, y \in candidates \ page : Newer(x, y)
    /\ \/ page = candidates /\ Cardinality(page) <= Limit
       \/ page # candidates /\ Cardinality(page) = Limit

-----------------------------------------------------------------------------
Init ==
    /\ rows = {}
    /\ clock = 0
    /\ walk = "idle"
    /\ cursor = Start
    /\ pages = <<>>
    /\ standing = {}

Tick ==
    /\ clock < MaxTime
    /\ clock' = clock + 1
    /\ UNCHANGED <<rows, walk, cursor, pages, standing>>

(* created_at is the now() of a transaction that commits a little later.   *)
Insert(id, at) ==
    /\ \A y \in rows \cup standing \cup Returned : y.id # id
    /\ at <= clock /\ clock <= at + Lag
    /\ rows' = rows \cup {[at |-> at, id |-> id]}
    /\ UNCHANGED <<clock, walk, cursor, pages, standing>>

Remove(y) ==
    /\ rows' = rows \ {y}
    /\ standing' = standing \ {y}
    /\ UNCHANGED <<clock, walk, cursor, pages>>

(* The client asks for the first page and means to see everything. *)
Begin ==
    /\ walk # "walking"
    /\ walk' = "walking"
    /\ cursor' = Start
    /\ pages' = <<>>
    /\ standing' = rows
    /\ UNCHANGED <<rows, clock>>

FetchPageUnconditional ==                                 \* mutant: no hasMore
    /\ walk = "walking"
    /\ \E page \in SUBSET Matching(cursor) :
          /\ IsPage(page, Matching(cursor))
          /\ \/ page = {} /\ UNCHANGED <<pages, cursor>>
             \/ /\ pages' = Append(pages, page)
                /\ \E y \in page : IsLast(y, page) /\ cursor' = CursorOf(y)
          /\ UNCHANGED walk
    /\ UNCHANGED <<rows, clock, standing>>

(* One request: the page, and a cursor only if one more row was found.     *)
FetchPage ==
    /\ walk = "walking"
    /\ \E page \in SUBSET Matching(cursor) :
          /\ IsPage(page, Matching(cursor))
          /\ pages' = Append(pages, page)
          /\ \/ page = Matching(cursor) /\ walk' = "done" /\ UNCHANGED cursor
             \/ /\ page # Matching(cursor)
                /\ \E y \in page : IsLast(y, page) /\ cursor' = CursorOf(y)
                /\ UNCHANGED walk
    /\ UNCHANGED <<rows, clock, standing>>

Next ==
    \/ Tick
    \/ \E id \in Ids, at \in Times : Insert(id, at)
    \/ \E y \in rows : Remove(y)
    \/ Begin
    \/ FetchPage

Spec == Init /\ [][Next]_vars

(* A client that walks asks for the next page. *)
FairSpec == Spec /\ WF_vars(FetchPage)

-----------------------------------------------------------------------------
(* Type invariant; a cursor other than the first is on the millisecond.    *)
TypeOK ==
    /\ rows \subseteq Row
    /\ clock \in Times
    /\ walk \in {"idle", "walking", "done"}
    /\ cursor \in [at : {Floor(t) : t \in Times}, id : Ids] \cup {Start}
    /\ pages \in Seq(SUBSET Row)
    /\ standing \subseteq rows

(* What the cursor can still reach is older than all that was returned:    *)
(* also for rows that are not inserted yet, or commit late.                *)
PagesDescend ==
    walk = "walking" =>
       \A x \in Returned, y \in Row : Before(cursor, y) => Newer(x, y)

(* All pages of a walk are strictly newest-first as one sequence, whatever *)
(* is inserted, committed late and deleted between two requests: each row  *)
(* of a page is older than each row of every page before it, so that none  *)
(* is shown again.  Within a page the order is that of the query.          *)
NewestFirst ==
    \A i, j \in DOMAIN pages :
       i < j => \A x \in pages[i], y \in pages[j] : Newer(x, y)

(* Every walk ends, although rows keep arriving. *)
EveryWalkEnds == walk = "walking" ~> walk # "walking"

(* nextCursor is null only "when there is no next page": a finished walk   *)
(* has seen every row that was in the table throughout.                    *)
WalkIsComplete == walk = "done" => standing \subseteq Returned

(* What the cut does not touch: a finished walk has seen every standing    *)
(* row that shares its millisecond with no returned row.                   *)
CompleteBeyondAMillisecond ==
    walk = "done" =>
       \A y \in standing \ Returned :
          \E x \in Returned : Floor(x.at) = Floor(y.at)

(* The inductive invariant: a row that stood in the table from the start   *)
(* was returned, or can still be reached, or shares its millisecond with a *)
(* row that was returned.                                                  *)
NothingElseIsMissed ==
    walk # "idle" =>
       \A y \in standing \ Returned :
          \/ walk = "walking" /\ Before(cursor, y)
          \/ \E x \in Returned : Floor(x.at) = Floor(y.at)

IInv == TypeOK /\ PagesDescend /\ NewestFirst /\ NothingElseIsMissed

(* With a cursor as exact as the column nothing would be missed.           *)
NothingIsMissed ==
    walk # "idle" =>
       \A y \in standing \ Returned : walk = "walking" /\ Before(cursor, y)

(* Why a walk ends: each page but the last uses up rows that could still   *)
(* be returned, those included that are not inserted yet, and in the       *)
(* meantime nothing adds to them.                                          *)
Reach == {y \in Row : Before(cursor, y)}

PagesUseUp ==
    [][walk = "walking" /\ walk' = "walking" =>
          \/ UNCHANGED <<cursor, pages>>
          \/ Reach' \subseteq Reach /\ Reach' # Reach]_vars
=============================================================================
