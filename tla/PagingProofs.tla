---------------------------- MODULE PagingProofs ----------------------------
(***************************************************************************)
(* A scan is complete for every table, page size and order of changes.     *)
(***************************************************************************)
EXTENDS Paging, FiniteSetTheorems, WellFoundedInduction, TLAPS

----------------------------------------------------------------------------
(* The order of rows.                                                      *)

\* A finite set that is not empty has an element where f is least: strict
\* inclusion of the sets of elements below is well-founded.
LEMMA LeastElement ==
  ASSUME NEW S, IsFiniteSet(S), S # {}, NEW f \in [S -> Nat]
  PROVE  \E x \in S : \A y \in S : f[x] <= f[y]
<1> DEFINE Below(x) == {y \in S : f[y] < f[x]}
           T == {Below(x) : x \in S}
<1>1. IsWellFoundedOn(StrictSubsetOrdering(S), SUBSET S)
  BY FS_StrictSubsetOrderingWellFounded, FS_FiniteSubsetsOfFinite
<1>2. T \subseteq SUBSET S /\ T # {}
  <2>1. PICK x \in S : TRUE
    OBVIOUS
  <2>2. Below(x) \in T
    OBVIOUS
  <2>3. \A x1 \in S : Below(x1) \in SUBSET S
    OBVIOUS
  <2> HIDE DEF Below
  <2>4. T \subseteq SUBSET S
    BY <2>3
  <2> QED
    BY <2>2, <2>4
<1>3. PICK B \in T : \A C \in T : <<C, B>> \notin StrictSubsetOrdering(S)
  <2> HIDE DEF T
  <2> QED
    BY <1>1, <1>2, WFMin
<1>4. PICK x \in S : B = Below(x)
  OBVIOUS
<1>5. ASSUME NEW y \in S, f[y] < f[x]
      PROVE  FALSE
  <2>1. Below(y) \subseteq Below(x) /\ y \in Below(x) /\ y \notin Below(y)
    BY <1>5
  <2>2. <<Below(y), B>> \in StrictSubsetOrdering(S)
    BY <1>4, <2>1 DEF StrictSubsetOrdering
  <2> QED
    BY <1>3, <2>2
<1>6. \A y \in S : f[y] \in Nat /\ f[x] \in Nat
  OBVIOUS
<1> QED
  BY <1>5, <1>6

LEMMA RowsFinite ==
  ASSUME NEW S \in SUBSET Tags
  PROVE  IsFiniteSet(S) /\ Cardinality(S) \in Nat
BY FS_Subset, FS_CardinalityType, TagsAssumption

\* The counted rows of from before t.
Before(q, from, t) == {u \in from \cap Counted[q] : rank[u] < rank[t]}

\* A page is the first part of what the cursor leaves.
LEMMA PageIsFirstPart ==
  ASSUME TypeOK, NEW q \in Queries, NEW from \in SUBSET Rows,
         NEW u \in Page(q, from), NEW t \in from \ Page(q, from)
  PROVE  rank[u] < rank[t]
<1> SUFFICES ASSUME ~(rank[u] < rank[t])
             PROVE  FALSE
  OBVIOUS
<1>1. u \in from /\ u \in Tags /\ t \in Tags
  BY DEF Page, Rows
<1>2. rank[t] <= rank[u] /\ rank[t] \in Nat /\ rank[u] \in Nat
  BY <1>1, MaxRankAssumption DEF TypeOK
<1>3. Before(q, from, t) \subseteq Before(q, from, u)
  BY <1>1, <1>2, MaxRankAssumption DEF Before, TypeOK, Rows
<1>4. Before(q, from, u) \in SUBSET Tags /\ Before(q, from, t) \in SUBSET Tags
  BY DEF Before, Rows
<1>5. Cardinality(Before(q, from, t)) <= Cardinality(Before(q, from, u))
  BY <1>3, <1>4, RowsFinite, FS_Subset
<1>6. Cardinality(Before(q, from, u)) < Size[q]
  BY DEF Page, Before
<1>7. Cardinality(Before(q, from, t)) < Size[q]
  BY <1>4, <1>5, <1>6, RowsFinite, SizeAssumption
<1> QED
  BY <1>7 DEF Page, Before

\* A page that leaves rows behind is full: it shows exactly Size[q] rows.
LEMMA PageFull ==
  ASSUME TypeOK, NEW q \in Queries, NEW from \in SUBSET Rows,
         Page(q, from) # from
  PROVE  Cardinality(Page(q, from) \cap Counted[q]) = Size[q]
<1> DEFINE page == Page(q, from)
           P == page \cap Counted[q]
           rest == from \ page
<1>1. page \subseteq from /\ rest # {} /\ from \subseteq Tags
  BY DEF Page, Rows
<1>2. Cardinality(P) \in Nat /\ IsFiniteSet(P) /\ Size[q] \in Nat \ {0}
  BY <1>1, RowsFinite, SizeAssumption
<1>3. \A t \in Tags : rank[t] \in Nat
  BY MaxRankAssumption DEF TypeOK
<1>4. Size[q] <= Cardinality(P)
  <2> DEFINE f == [x \in rest |-> rank[x]]
  <2>1. f \in [rest -> Nat]
    BY <1>1, <1>3
  <2>2. PICK t \in rest : \A y \in rest : f[t] <= f[y]
    BY <1>1, <2>1, RowsFinite, LeastElement
  <2>3. Before(q, from, t) \subseteq P
    BY <1>1, <1>3, <2>2 DEF Before
  <2>4. Cardinality(Before(q, from, t)) <= Cardinality(P) /\ Cardinality(Before(q, from, t)) \in Nat
    BY <1>2, <2>3, FS_Subset, FS_CardinalityType
  <2>5. ~(Cardinality(Before(q, from, t)) < Size[q])
    BY <2>2 DEF Page, Before
  <2> QED
    BY <1>2, <2>4, <2>5
<1>5. Cardinality(P) <= Size[q]
  <2>1. CASE P = {}
    BY <1>2, <2>1, FS_EmptySet
  <2>2. CASE P # {}
    <3> DEFINE g == [x \in P |-> MaxRank - rank[x]]
    <3>1. g \in [P -> Nat]
      BY <1>1, MaxRankAssumption DEF TypeOK
    <3>2. PICK c \in P : \A y \in P : g[c] <= g[y]
      BY <1>2, <2>2, <3>1, LeastElement
    <3>3. ASSUME NEW y \in P, y # c
          PROVE  rank[y] < rank[c]
      <4>1. g[c] <= g[y] /\ g[c] = MaxRank - rank[c] /\ g[y] = MaxRank - rank[y]
        BY <3>2
      <4>2. y \in Rows /\ c \in Rows
        BY <1>1, <3>2
      <4>3. rank[y] # rank[c] /\ rank[y] \in Nat /\ rank[c] \in Nat
        BY <1>3, <3>3, <4>2 DEF TypeOK, Rows
      <4> QED
        BY <4>1, <4>3, MaxRankAssumption
    <3>4. P \ {c} \subseteq Before(q, from, c)
      BY <1>1, <3>3 DEF Before
    <3>5. Before(q, from, c) \subseteq Tags
      BY <1>1 DEF Before
    <3>6. Cardinality(P \ {c}) = Cardinality(P) - 1
      BY <1>2, <3>2, FS_RemoveElement
    <3>7. Cardinality(P) - 1 <= Cardinality(Before(q, from, c))
          /\ Cardinality(Before(q, from, c)) \in Nat
      BY <3>4, <3>5, <3>6, RowsFinite, FS_Subset
    <3>8. Cardinality(Before(q, from, c)) < Size[q]
      BY <3>2 DEF Page, Before
    <3> QED
      BY <1>2, <3>7, <3>8
  <2> QED
    BY <2>1, <2>2
<1> QED
  BY <1>2, <1>4, <1>5

----------------------------------------------------------------------------
(* Types, and the order of the list.                                       *)

LEMMA NextType == TypeOK /\ [Next]_vars => TypeOK'
<1> SUFFICES ASSUME TypeOK, [Next]_vars
             PROVE  TypeOK'
  OBVIOUS
<1>1. ASSUME NEW t \in Tags, Add(t)
      PROVE  TypeOK'
  <2>1. PICK r \in 1 .. MaxRank : (\A u \in Tags : rank[u] < r) /\ rank' = [rank EXCEPT ![t] = r]
    BY <1>1 DEF Add
  <2>2. rank' \in [Tags -> 0 .. MaxRank]
    BY <2>1, MaxRankAssumption DEF TypeOK
  <2>3. ASSUME NEW u \in Rows', NEW v \in Rows', rank'[u] = rank'[v]
        PROVE  u = v
    BY <2>1, <2>3, MaxRankAssumption DEF TypeOK, Rows
  <2> QED
    BY <1>1, <2>2, <2>3 DEF Add, TypeOK
<1>2. ASSUME NEW t \in Tags, Remove(t)
      PROVE  TypeOK'
  <2>1. rank' \in [Tags -> 0 .. MaxRank] /\ kept' \in [Queries -> SUBSET Tags]
    BY <1>2, MaxRankAssumption DEF TypeOK, Remove
  <2>2. \A u, v \in Rows' : rank'[u] = rank'[v] => u = v
    BY <1>2 DEF TypeOK, Remove, Rows
  <2> QED
    BY <1>2, <2>1, <2>2 DEF Remove, TypeOK
<1>3. ASSUME NEW q \in Queries, Query(q)
      PROVE  TypeOK'
  <2>1. cursor' \in [Queries -> Tags \cup {None}]
    BY <1>3 DEF Query, TypeOK
  <2>2. kept' \in [Queries -> SUBSET Tags]
    BY <1>3 DEF Query, TypeOK, Rows
  <2>3. seen' \in [Queries -> SUBSET Tags]
    BY <1>3 DEF Query, TypeOK, Page, From, Rows
  <2>4. rank' = rank /\ Rows' = Rows
    BY <1>3 DEF Query, Rows
  <2>5. astray' \in [Queries -> BOOLEAN]
    BY <1>3 DEF Query, TypeOK
  <2> QED
    BY <2>1, <2>2, <2>3, <2>4, <2>5 DEF TypeOK
<1>4. CASE UNCHANGED vars
  BY <1>4 DEF vars, TypeOK, Rows
<1> QED
  BY <1>1, <1>2, <1>3, <1>4 DEF Next

LEMMA InitType == Init => TypeOK
BY MaxRankAssumption DEF Init, TypeOK, Rows

\* Types, and no two rows at one place of the list.
THEOREM TypeCorrect == Spec => []TypeOK
BY InitType, NextType, PTL DEF Spec

----------------------------------------------------------------------------
(* Completeness: what a scan has still to show lies behind its cursor.     *)

Remaining(q) ==
  /\ kept[q] \subseteq Rows \cap Counted[q]
  /\ cursor[q] = None /\ ~astray[q] => kept[q] \subseteq seen[q]
  /\ cursor[q] \in Rows /\ ~astray[q] => \A t \in kept[q] \ seen[q] : rank[cursor[q]] <= rank[t]

Scanning == \A q \in Queries : Remaining(q)

LEMMA QueryScans ==
  ASSUME TypeOK, Scanning, NEW q \in Queries, Query(q)
  PROVE  Scanning'
<1> DEFINE from == From(q)
           page == Page(q, from)
           k == IF cursor[q] = None THEN Rows \cap Counted[q] ELSE kept[q]
<1>1. from \in SUBSET Rows /\ page \subseteq from
  BY DEF From, Page
<1>2. PICK c \in Tags \cup {None} :
        NextCursor(q, c, from, page) /\ cursor' = [cursor EXCEPT ![q] = c]
  BY DEF Query
<1>3. /\ cursor'[q] = c /\ kept'[q] = k
      /\ seen'[q] = (IF cursor[q] = None THEN {} ELSE seen[q]) \cup (page \cap Counted[q])
      /\ rank' = rank /\ Rows' = Rows
      /\ ~astray'[q] => cursor[q] = None \/ ~astray[q]
  BY <1>2 DEF Query, TypeOK, Rows
<1>4. k \subseteq Rows \cap Counted[q]
  BY DEF Scanning, Remaining
<1>5. ~astray'[q] => \A t \in k \ seen'[q] : t \in from \ page
  <2> SUFFICES ASSUME ~astray'[q], NEW t \in k \ seen'[q]
               PROVE  t \in from \ page
    OBVIOUS
  <2>1. t \in Rows /\ t \in Counted[q] /\ t \notin page
    BY <1>3, <1>4
  <2>2. t \in from
    <3>1. CASE cursor[q] \notin Rows
      BY <2>1, <3>1 DEF From
    <3>2. CASE cursor[q] \in Rows
      <4>1. cursor[q] # None /\ ~astray[q]
        BY <1>3, <3>2, TagsAssumption DEF Rows
      <4>2. t \in kept[q] \ seen[q]
        BY <1>3, <4>1
      <4>3. rank[cursor[q]] <= rank[t]
        BY <3>2, <4>1, <4>2 DEF Scanning, Remaining
      <4>4. rank[cursor[q]] \in Nat /\ rank[t] \in Nat
        BY <2>1, <3>2, MaxRankAssumption DEF TypeOK, Rows
      <4> QED
        BY <2>1, <4>3, <4>4 DEF From
    <3> QED
      BY <3>1, <3>2
  <2> QED
    BY <2>1, <2>2
<1>6. c = None /\ ~astray'[q] => k \subseteq seen'[q]
  <2>1. CASE page = from
    BY <1>5, <2>1
  <2>2. CASE page # from /\ c = None
    <3>1. Cardinality(page \cap Counted[q]) = Size[q]
      BY <1>1, <2>2, PageFull
    <3>2. c \in from
      BY <1>1, <1>2, <2>2, <3>1 DEF NextCursor, IsLast, IsFirst
    <3> QED
      BY <1>1, <2>2, <3>2, TagsAssumption DEF Rows
  <2> QED
    BY <2>1, <2>2
<1>7. c \in Rows /\ ~astray'[q] => \A t \in k \ seen'[q] : rank[c] <= rank[t]
  <2> SUFFICES ASSUME c \in Rows, ~astray'[q], NEW t \in k \ seen'[q]
               PROVE  rank[c] <= rank[t]
    OBVIOUS
  <2>1. t \in from \ page /\ page # from
    BY <1>5
  <2>2. c # None
    BY TagsAssumption DEF Rows
  <2>3. CASE IsLast(c, page)
    <3>1. rank[c] < rank[t]
      BY <1>1, <2>1, <2>3, PageIsFirstPart DEF IsLast
    <3> QED
      BY <1>1, <2>1, <3>1, MaxRankAssumption DEF TypeOK, Rows
  <2>4. CASE IsFirst(c, from \ page)
    BY <2>1, <2>4 DEF IsFirst
  <2> QED
    BY <1>2, <2>1, <2>2, <2>3, <2>4 DEF NextCursor
<1>8. Remaining(q)'
  BY <1>3, <1>4, <1>6, <1>7 DEF Remaining
<1>9. ASSUME NEW p \in Queries, p # q
      PROVE  Remaining(p)'
  <2>1. cursor'[p] = cursor[p] /\ kept'[p] = kept[p] /\ seen'[p] = seen[p] /\ astray'[p] = astray[p]
    BY <1>2, <1>9 DEF Query, TypeOK
  <2> QED
    BY <1>3, <2>1 DEF Scanning, Remaining
<1> QED
  BY <1>8, <1>9 DEF Scanning

LEMMA ScanningStep ==
  ASSUME TypeOK, Scanning, [Next]_vars
  PROVE  Scanning'
<1>1. ASSUME NEW t \in Tags, Add(t)
      PROVE  Scanning'
  <2>1. PICK r \in 1 .. MaxRank : rank' = [rank EXCEPT ![t] = r]
    BY <1>1 DEF Add
  <2>2. /\ Rows' = Rows \cup {t} /\ t \notin Rows
        /\ \A u \in Rows : rank'[u] = rank[u]
    BY <1>1, <2>1 DEF Add, Rows, TypeOK
  <2>3. cursor' = cursor /\ kept' = kept /\ seen' = seen
        /\ \A q \in Queries : astray'[q] = (astray[q] \/ cursor[q] = t)
    BY <1>1 DEF Add
  <2> QED
    BY <2>2, <2>3 DEF Scanning, Remaining
<1>2. ASSUME NEW t \in Tags, Remove(t)
      PROVE  Scanning'
  <2>1. Rows' = Rows \ {t} /\ \A u \in Rows' : rank'[u] = rank[u]
    BY <1>2, MaxRankAssumption DEF Remove, Rows, TypeOK
  <2>2. cursor' = cursor /\ seen' = seen /\ astray' = astray /\ \A q \in Queries : kept'[q] = kept[q] \ {t}
    BY <1>2 DEF Remove
  <2> QED
    BY <2>1, <2>2 DEF Scanning, Remaining
<1>3. CASE UNCHANGED vars
  BY <1>3 DEF vars, Scanning, Remaining, Rows
<1> QED
  BY <1>1, <1>2, <1>3, QueryScans DEF Next

\* A scan that has come to its end, and did not lose its way to a row that came
\* back, has shown every row that was there all the time, for both ways to keep
\* the cursor, every page size and every sequence of additions and removals.
THEOREM ScansAreComplete == Spec => []ScanComplete
<1>1. Init => TypeOK /\ Scanning
  BY InitType DEF Init, Scanning, Remaining
<1>2. TypeOK /\ Scanning /\ [Next]_vars => TypeOK' /\ Scanning'
  BY NextType, ScanningStep
<1>3. Scanning => ScanComplete
  BY DEF Scanning, Remaining, ScanComplete
<1> QED
  BY <1>1, <1>2, <1>3, PTL DEF Spec

----------------------------------------------------------------------------
(* Progress.                                                               *)

\* Two rows on a page: one more than the row that a page begins with again.
LongPages == \A q \in Queries : Size[q] > 1

LEMMA QueryMovesOn ==
  ASSUME TypeOK, LongPages, NEW q \in Queries, Query(q), cursor[q] \in Rows, cursor'[q] # None
  PROVE  rank[cursor[q]] < rank[cursor'[q]]
<1> DEFINE from == From(q)
           page == Page(q, from)
           a    == cursor[q]
<1>1. PICK c \in Tags \cup {None} :
        NextCursor(q, c, from, page) /\ cursor' = [cursor EXCEPT ![q] = c]
  BY DEF Query
<1>2. cursor'[q] = c /\ c # None
  BY <1>1 DEF TypeOK
<1>3. \A t \in Tags : rank[t] \in Nat
  BY MaxRankAssumption DEF TypeOK
<1>4. /\ from \subseteq Rows /\ page \subseteq from /\ Rows \subseteq Tags
      /\ \A t \in from : rank[a] <= rank[t]
  BY DEF From, Page, Rows
<1>5. a \in from
  BY <1>3 DEF From, Rows
<1>6. Size[q] \in Nat /\ Size[q] > 1
  BY SizeAssumption DEF LongPages
<1>7. a \in page
  <2>1. Before(q, from, a) = {}
    BY <1>3, <1>4 DEF Before
  <2>2. Cardinality(Before(q, from, a)) = 0
    BY <2>1, FS_EmptySet
  <2>3. QED
    BY <1>5, <1>6, <2>2 DEF Page, Before
<1> HIDE DEF from, page
<1>8. ASSUME NEW t \in from, t # a
      PROVE  rank[a] < rank[t]
  <2>1. rank[a] # rank[t]
    BY <1>4, <1>5, <1>8 DEF TypeOK
  <2>2. QED
    BY <1>3, <1>4, <1>5, <2>1
<1>9. ASSUME IsLast(c, page), Cardinality(page \cap Counted[q]) = Size[q]
      PROVE  rank[a] < rank[c]
  <2>1. c \in page /\ \A u \in page : rank[u] <= rank[c]
    BY <1>9 DEF IsLast
  <2>2. \E u \in page : u # a
    <3>1. SUFFICES ASSUME page \cap Counted[q] \subseteq {a} PROVE FALSE
      OBVIOUS
    <3>2. IsFiniteSet({a}) /\ Cardinality({a}) = 1
      BY FS_Singleton
    <3>3. Cardinality(page \cap Counted[q]) <= 1
      BY <3>1, <3>2, FS_Subset
    <3>4. QED
      BY <1>6, <1>9, <3>3
  <2>3. c # a
    <3>1. PICK u \in page : u # a
      BY <2>2
    <3>2. rank[a] < rank[u] /\ rank[u] <= rank[c]
      BY <1>4, <1>8, <2>1, <3>1
    <3>3. rank[a] \in Nat /\ rank[u] \in Nat /\ rank[c] \in Nat
      BY <1>3, <1>4, <1>5, <2>1
    <3>4. rank[a] < rank[c]
      BY <3>2, <3>3
    <3>5. QED
      BY <3>3, <3>4
  <2>4. QED
    BY <1>4, <1>8, <2>1, <2>3
<1>10. ASSUME IsFirst(c, from \ page)
       PROVE  rank[a] < rank[c]
  BY <1>7, <1>8, <1>10 DEF IsFirst
<1>11. page # from => Cardinality(page \cap Counted[q]) = Size[q]
  BY <1>4, PageFull DEF page
<1>12. rank[a] < rank[c]
  BY <1>1, <1>2, <1>9, <1>10, <1>11 DEF NextCursor
<1>13. QED
  BY <1>2, <1>12

\* For tables of any length and any pages of two rows or more, whichever rows
\* come and go: a page that does not end its scan is a step towards the tail.
THEOREM ScansMoveOn ==
  ASSUME LongPages
  PROVE  Spec => PagesMoveOn
<1>1. TypeOK /\ [Next]_vars
        => [\A q \in Queries :
              Query(q) /\ cursor[q] \in Rows /\ cursor'[q] # None
                => rank[cursor[q]] < rank[cursor'[q]]]_vars
  BY QueryMovesOn
<1>2. QED
  BY <1>1, TypeCorrect, PTL DEF Spec, PagesMoveOn
=============================================================================
