------------------------------- MODULE Paging -------------------------------
(***************************************************************************)
(* How the station answers a query for a whole table that does not fit     *)
(* into one answer: page by page, from the row a cursor names              *)
(* (db_cached_traverse_row, the callbacks in up_packet.c and               *)
(* down_packet.c), while commands and expiry add and remove rows.          *)
(*                                                                         *)
(* The list of rows is modelled by ranks: a new row goes behind all        *)
(* others, a removed row leaves the order of the others as it is.          *)
(***************************************************************************)
EXTENDS Naturals, FiniteSets

CONSTANTS
  Tags,      \* keys of rows
  None,      \* EDID 0
  Queries,   \* the queries that page through the table
  Eager,     \* those that keep the row that did not fit (query_task); the
             \* others keep the last row shown
  Size,      \* Size[q]: rows on a page (MAX_NUM_OF_TASK, MAX_NUM_OF_JQ,
             \* PER_TIMES_MAX_NUM + 1)
  Counted,   \* Counted[q]: the rows q shows; it passes over the others
  MaxRank    \* bound: rows that can be added behind one another

ASSUME TagsAssumption == IsFiniteSet(Tags) /\ None \notin Tags
ASSUME SizeAssumption == Size \in [Queries -> Nat \ {0}] /\ Eager \subseteq Queries
ASSUME CountedAssumption == Counted \in [Queries -> SUBSET Tags]
ASSUME MaxRankAssumption == MaxRank \in Nat

VARIABLES
  rank,      \* place of each tag's row in the list, 0 if it has none
  cursor,    \* cursor[q]: PageControl.last_edid, TcpContext.last_edid
  kept,      \* kept[q]: rows to show that were there all through q's scan
  seen,      \* seen[q]: rows shown in it
  astray     \* astray[q]: the row q's cursor names was removed in this scan,
             \* and came back at the tail

vars == <<rank, cursor, kept, seen, astray>>

Rows == {t \in Tags : rank[t] > 0}

Init ==
  /\ rank = [t \in Tags |-> 0]
  /\ cursor = [q \in Queries |-> None]
  /\ kept = [q \in Queries |-> {}]
  /\ seen = [q \in Queries |-> {}]
  /\ astray = [q \in Queries |-> FALSE]

\* Mutant: a row is put beside the last one.
AddBeside(t) ==
  /\ t \notin Rows
  /\ \E r \in 1 .. MaxRank :
        /\ \A u \in Tags : rank[u] <= r
        /\ r = 1 \/ \E u \in Tags : rank[u] = r
        /\ rank' = [rank EXCEPT ![t] = r]
  /\ astray' = [q \in Queries |-> astray[q] \/ cursor[q] = t]
  /\ UNCHANGED <<cursor, kept, seen>>

\* A new row goes to the tail of the list, one that was removed and comes back
\* while a cursor names it (an expired tag reports again), too.
Add(t) ==
  /\ t \notin Rows
  /\ \E r \in 1 .. MaxRank :
        /\ \A u \in Tags : rank[u] < r
        /\ r = 1 \/ \E u \in Tags : rank[u] = r - 1
        /\ rank' = [rank EXCEPT ![t] = r]
  /\ astray' = [q \in Queries |-> astray[q] \/ cursor[q] = t]
  /\ UNCHANGED <<cursor, kept, seen>>

\* A row is removed, the one a cursor names too.
Remove(t) ==
  /\ t \in Rows
  /\ rank' = [rank EXCEPT ![t] = 0]
  /\ kept' = [q \in Queries |-> kept[q] \ {t}]
  /\ UNCHANGED <<cursor, seen, astray>>

----------------------------------------------------------------------------
\* Mutant: a cursor whose row is gone ends the traversal.
FromOrNothing(q) ==
  {t \in Rows : cursor[q] \in Tags => cursor[q] \in Rows /\ rank[t] >= rank[cursor[q]]}

\* The rows from the cursor on; all of them if it names none (any more).
From(q) ==
  {t \in Rows : cursor[q] \in Rows => rank[t] >= rank[cursor[q]]}

\* The rows of a page: the callback stops the traversal at the first row after
\* Size[q] rows that count.
Page(q, from) ==
  {t \in from : Cardinality({u \in from \cap Counted[q] : rank[u] < rank[t]}) < Size[q]}

IsLast(t, S)  == t \in S /\ \A u \in S : rank[u] <= rank[t]
IsFirst(t, S) == t \in S /\ \A u \in S : rank[t] <= rank[u]

\* Mutant: the cursor is not cleared at the end of the list.
NeverCleared(q, c, from, page) ==
  IF from = {} THEN c = None ELSE IsLast(c, page)

\* Mutant: the first row shown is kept, not the last.
FirstKept(q, c, from, page) ==
  IF page = from THEN c = None ELSE IsFirst(c, page)

\* Where the next page of q begins. The traversal clears the cursor at the end
\* of the list; query_task keeps its own copy, which is cleared when the page
\* is not full.
NextCursor(q, c, from, page) ==
  LET atEnd == page = from
      full  == Cardinality(page \cap Counted[q]) = Size[q]
  IN  \/ q \notin Eager /\ atEnd /\ c = None
      \/ q \notin Eager /\ ~atEnd /\ IsLast(c, page)
      \/ q \in Eager /\ ~full /\ c = None
      \/ q \in Eager /\ full /\ atEnd /\ IsLast(c, page)
      \/ q \in Eager /\ full /\ ~atEnd /\ IsFirst(c, from \ page)

\* One page is asked for and shown, under the read lock.
Query(q) ==
  LET from == From(q)
      page == Page(q, from)
  IN  /\ \E c \in Tags \cup {None} :
            NextCursor(q, c, from, page) /\ cursor' = [cursor EXCEPT ![q] = c]
      /\ kept' = [kept EXCEPT ![q] = IF cursor[q] = None THEN Rows \cap Counted[q] ELSE @]
      /\ seen' = [seen EXCEPT ![q] = (IF cursor[q] = None THEN {} ELSE @)
                                       \cup (page \cap Counted[q])]
      /\ astray' = [astray EXCEPT ![q] = cursor[q] # None /\ @]
      /\ UNCHANGED rank

Next ==
  \/ \E t \in Tags : Add(t) \/ Remove(t)
  \/ \E q \in Queries : Query(q)

Spec == Init /\ [][Next]_vars

\* Whoever began to ask asks on.
FairSpec == Spec /\ \A q \in Queries : WF_vars(Query(q))

----------------------------------------------------------------------------
TypeOK ==
  /\ rank \in [Tags -> 0 .. MaxRank]
  /\ cursor \in [Queries -> Tags \cup {None}]
  /\ kept \in [Queries -> SUBSET Tags]
  /\ seen \in [Queries -> SUBSET Tags]
  /\ astray \in [Queries -> BOOLEAN]
  /\ \A t, u \in Rows : rank[t] = rank[u] => t = u

\* When a scan has come to the end of the table, every row that was there all
\* the time has been shown, whichever rows (the one the cursor names, too) were
\* added or removed between its pages. The exception is a scan gone astray: a
\* row that is removed and comes back while the cursor names it takes the cursor
\* to the tail with it, and the rows between are not shown.
ScanComplete ==
  \A q \in Queries : cursor[q] = None /\ ~astray[q] => kept[q] \subseteq seen[q]

\* A page that leaves its scan open moves the cursor towards the tail, unless
\* the row it named is gone: no page is shown for ever, and a scan has no more
\* pages than there are rows. A cursor on the last row shown makes each page
\* begin with a row of the one before; that is what the one more of
\* PER_TIMES_MAX_NUM + 1 is for.
PagesMoveOn ==
  [][\A q \in Queries :
       Query(q) /\ cursor[q] \in Rows /\ cursor'[q] # None
         => rank[cursor[q]] < rank[cursor'[q]]]_vars

\* Once the rows no longer change, a scan comes to its end.
ScanEnds ==
  <>[][UNCHANGED rank]_vars => \A q \in Queries : []<>(cursor[q] = None)
=============================================================================
