---------------------------- MODULE DbCacheProofs ----------------------------
(***************************************************************************)
(* Theorems about DbCache, for every set of keys and contents.             *)
(*                                                                         *)
(* Whatever statements fail, the cached table stays a table (no key has    *)
(* two rows) and a synchronisation that returns 0 has written all of it.   *)
(* If no statement fails once the recycle bin is emptied, and none while   *)
(* the table is restored, DbCache implements DurableTable.                 *)
(***************************************************************************)
EXTENDS DbCache, SequenceTheorems, FunctionTheorems, FiniteSetTheorems, TLAPS

Unique(list) == \A i, j \in DOMAIN list : list[i].key = list[j].key => i = j

\* A key a list has is the key of one of its rows.
LEMMA KeyHasRow ==
  ASSUME NEW list \in Seq(Row), NEW k
  PROVE  k \in KeysOf(list) <=> \E i \in 1..Len(list) : list[i].key = k
BY DEF KeysOf

\* In a list without double keys, a row is what its key stands for.
LEMMA ContentsOfRow ==
  ASSUME NEW list \in Seq(Row), Unique(list), NEW i \in DOMAIN list
  PROVE  /\ IsFirst(list, list[i].key, i)
         /\ Contents(list)[list[i].key] = list[i].val
<1>1. /\ DOMAIN list = 1..Len(list)
      /\ Len(list) \in Nat
      /\ list[i] \in Row
  BY LenProperties, ElementOfSeq
<1> list[i].key \in Keys
  BY <1>1 DEF Row
<1>2. IsFirst(list, list[i].key, i)
  BY <1>1 DEF IsFirst, Unique
<1>3. \A j \in DOMAIN list : IsFirst(list, list[i].key, j) => j = i
  BY <1>1 DEF IsFirst, Unique
<1>4. (CHOOSE j \in DOMAIN list : IsFirst(list, list[i].key, j)) = i
  BY <1>2, <1>3
<1>5. list[i].key \in KeysOf(list)
  BY DEF KeysOf
<1> QED
  BY <1>1, <1>2, <1>4, <1>5 DEF Contents

\* A key without a row stands for nothing.
LEMMA ContentsOfNone ==
  ASSUME NEW list, NEW k \in Keys, k \notin KeysOf(list)
  PROVE  Contents(list)[k] = Absent
BY DEF Contents

\* A list without double keys stands for a table.
LEMMA ContentsType ==
  ASSUME NEW list \in Seq(Row), Unique(list)
  PROVE  Contents(list) \in Table
<1>1. SUFFICES ASSUME NEW k \in Keys
               PROVE  Contents(list)[k] \in Vals \cup {Absent}
  BY DEF Contents, Table
<1>2. CASE k \in KeysOf(list)
  <2>1. PICK i \in DOMAIN list : list[i].key = k
    BY <1>2 DEF KeysOf
  <2>2. list[i] \in Row
    BY <2>1
  <2> QED
    BY <2>1, <2>2, ContentsOfRow DEF Row
<1>3. CASE k \notin KeysOf(list)
  BY <1>3, ContentsOfNone
<1> QED
  BY <1>2, <1>3

\* What a list stands for is settled by its rows.
LEMMA ContentsByRows ==
  ASSUME NEW list \in Seq(Row), Unique(list), NEW table \in Table,
         \A k \in Keys \ KeysOf(list) : table[k] = Absent,
         \A i \in DOMAIN list : table[list[i].key] = list[i].val
  PROVE  Contents(list) = table
<1>1. ASSUME NEW k \in Keys
      PROVE  Contents(list)[k] = table[k]
  <2>1. CASE k \in KeysOf(list)
    <3>1. PICK i \in DOMAIN list : list[i].key = k
      BY <2>1 DEF KeysOf
    <3> QED
      BY <3>1, ContentsOfRow
  <2>2. CASE k \notin KeysOf(list)
    BY <2>2, ContentsOfNone
  <2> QED
    BY <2>1, <2>2
<1> QED
  BY <1>1 DEF Contents, Table

\* The rows of a table are finitely many.
LEMMA RowsOfFinite ==
  ASSUME NEW table \in Table
  PROVE  /\ IsFiniteSet(RowsOf(table))
         /\ RowsOf(table) \subseteq Row
<1> DEFINE present == {x \in Keys : table[x] # Absent}
           rowOf   == [k \in present |-> [key |-> k, val |-> table[k]]]
<1>1. IsFiniteSet(present)
  BY DbCacheAssumption, FS_Subset
<1>2. rowOf \in Surjection(present, RowsOf(table))
  BY DEF Surjection, RowsOf
<1>3. RowsOf(table) \subseteq Row
  BY DEF RowsOf, Row, Table
<1> QED
  BY <1>1, <1>2, <1>3, FS_Surjection

\* A listing of some rows of a table is a list of rows without double keys,
\* and it has the keys of these rows.
LEMMA ListingProperties ==
  ASSUME NEW table \in Table, NEW set \in SUBSET RowsOf(table),
         NEW list \in Listings(set)
  PROVE  /\ list \in Seq(Row)
         /\ Unique(list)
         /\ \A i \in DOMAIN list : /\ list[i] \in set
                                   /\ list[i].val = table[list[i].key]
         /\ \A r \in set : \E i \in DOMAIN list : list[i] = r
<1>1. IsFiniteSet(set) /\ set \subseteq Row
  BY RowsOfFinite, FS_Subset
<1>2. Cardinality(set) \in Nat
  BY <1>1, FS_CardinalityType
<1>3. /\ list \in [1..Cardinality(set) -> set]
      /\ \A i, j \in 1..Cardinality(set) : list[i] = list[j] => i = j
      /\ \A r \in set : \E i \in 1..Cardinality(set) : list[i] = r
  BY DEF Listings, Bijection, Injection, Surjection, IsInjective
<1>4. list \in Seq(Row)
  BY <1>1, <1>2, <1>3
<1>5. \A r \in set : r = [key |-> r.key, val |-> table[r.key]]
  BY DEF RowsOf
<1>6. Unique(list)
  BY <1>3, <1>5 DEF Unique
<1>7. ASSUME NEW i \in DOMAIN list
      PROVE  list[i] \in set /\ list[i].val = table[list[i].key]
  <2>1. list[i] \in set
    BY <1>3
  <2> QED
    BY <2>1, <1>5
<1> QED
  BY <1>3, <1>4, <1>6, <1>7

\* A listing of all rows of a table stands for that table.
LEMMA ContentsOfListing ==
  ASSUME NEW table \in Table, NEW list \in Listings(RowsOf(table))
  PROVE  Contents(list) = table
<1>1. /\ list \in Seq(Row)
      /\ Unique(list)
      /\ \A i \in DOMAIN list : list[i].val = table[list[i].key]
      /\ \A r \in RowsOf(table) : \E i \in DOMAIN list : list[i] = r
  BY ListingProperties
<1>2. ASSUME NEW k \in Keys, k \notin KeysOf(list)
      PROVE  table[k] = Absent
  <2>1. SUFFICES ASSUME table[k] # Absent PROVE FALSE
    OBVIOUS
  <2>2. [key |-> k, val |-> table[k]] \in RowsOf(table)
    BY <2>1 DEF RowsOf
  <2>3. PICK i \in DOMAIN list : list[i] = [key |-> k, val |-> table[k]]
    BY <1>1, <2>2
  <2> QED
    BY <1>2, <2>3 DEF KeysOf
<1> QED
  BY <1>1, <1>2, ContentsByRows

\* RemoveAt takes one element out of a sequence and keeps the order of the others.
LEMMA RemoveAtRows ==
  ASSUME NEW S, NEW list \in Seq(S), NEW n \in DOMAIN list
  PROVE  /\ RemoveAt(list, n) \in Seq(S)
         /\ Len(RemoveAt(list, n)) = Len(list) - 1
         /\ \A i \in 1..(Len(list) - 1) :
               RemoveAt(list, n)[i] = IF i < n THEN list[i] ELSE list[i + 1]
<1> DEFINE front == SubSeq(list, 1, n - 1)
           back  == SubSeq(list, n + 1, Len(list))
<1>1. Len(list) \in Nat /\ n \in 1..Len(list) /\ \A i \in 1..Len(list) : list[i] \in S
  OBVIOUS
<1>2. /\ front \in Seq(S)
      /\ Len(front) = n - 1
      /\ \A i \in 1..(n - 1) : front[i] = list[i]
  BY <1>1, SubSeqProperties
<1>3. /\ back \in Seq(S)
      /\ Len(back) = Len(list) - n
      /\ \A i \in 1..(Len(list) - n) : back[i] = list[n + i]
  BY <1>1, SubSeqProperties
<1>4. RemoveAt(list, n) = front \o back
  BY DEF RemoveAt
<1> HIDE DEF front, back
<1>5. /\ front \o back \in Seq(S)
      /\ Len(front \o back) = Len(front) + Len(back)
      /\ \A i \in 1..(Len(front) + Len(back)) :
            (front \o back)[i] = IF i <= Len(front) THEN front[i] ELSE back[i - Len(front)]
  BY <1>2, <1>3, ConcatProperties
<1>6. Len(front) + Len(back) = Len(list) - 1
  BY <1>1, <1>2, <1>3
<1>7. ASSUME NEW i \in 1..(Len(list) - 1)
      PROVE  (front \o back)[i] = IF i < n THEN list[i] ELSE list[i + 1]
  <2>1. CASE i < n
    BY <1>1, <1>2, <1>5, <1>6, <2>1
  <2>2. CASE ~(i < n)
    <3>1. /\ i - (n - 1) \in 1..(Len(list) - n)
          /\ n + (i - (n - 1)) = i + 1
      BY <1>1, <2>2
    <3>2. (front \o back)[i] = back[i - (n - 1)]
      BY <1>1, <1>2, <1>5, <1>6, <2>2
    <3> QED
      BY <1>3, <2>2, <3>1, <3>2
  <2> QED
    BY <2>1, <2>2
<1> QED
  BY <1>4, <1>5, <1>6, <1>7

-----------------------------------------------------------------------------
(***************************************************************************)
(* The table, whatever statement fails                                     *)
(***************************************************************************)

\* How far the two loops of _cached_sync have come: the rows before node are
\* in the transaction as the table has them.
Progress == /\ phase = "delete" => node <= Len(recycle) + 1
            /\ phase = "update" =>
                 /\ node <= Len(rows) + 1
                 /\ \A i \in 1..(node - 1) : txn[rows[i].key] = rows[i].val

TableInv == TypeOK /\ UniqueKeys /\ Progress

LEMMA UniqueKeysIsUnique == UniqueKeys <=> Unique(rows)
BY DEF UniqueKeys, Unique

\* What the four operations on the table do to its lists.
LEMMA InsertRows ==
  ASSUME TypeOK, UniqueKeys, NEW k \in Keys, NEW v \in Vals, Insert(k, v)
  PROVE  /\ rows' \in Seq(Row)
         /\ Unique(rows')
         /\ Len(rows') = Len(rows) + 1
         /\ \A i \in 1..Len(rows) : rows'[i] = rows[i]
         /\ rows'[Len(rows) + 1] = [key |-> k, val |-> v]
         /\ KeysOf(rows') = KeysOf(rows) \cup {k}
<1>1. /\ rows \in Seq(Row)
      /\ [key |-> k, val |-> v] \in Row
      /\ rows' = Append(rows, [key |-> k, val |-> v])
      /\ \A i \in 1..Len(rows) : rows[i].key # k
  BY DEF TypeOK, Insert, Row, KeysOf
<1>2. /\ rows' \in Seq(Row)
      /\ Len(rows') = Len(rows) + 1
      /\ \A i \in 1..Len(rows) : rows'[i] = rows[i]
      /\ rows'[Len(rows) + 1] = [key |-> k, val |-> v]
  BY <1>1, AppendProperties
<1>3. Unique(rows')
  BY <1>1, <1>2 DEF Unique, UniqueKeys
<1>4. ASSUME NEW x
      PROVE  x \in KeysOf(rows') <=> x \in KeysOf(rows) \cup {k}
  <2>1. x \in KeysOf(rows) <=> \E i \in 1..Len(rows) : rows[i].key = x
    BY <1>1, KeyHasRow
  <2>2. x \in KeysOf(rows') <=> \E i \in 1..Len(rows') : rows'[i].key = x
    BY <1>2, KeyHasRow
  <2>3. Len(rows) \in Nat
    BY <1>1
  <2> QED
    BY <1>2, <2>1, <2>2, <2>3
<1> QED
  BY <1>2, <1>3, <1>4

LEMMA WriteRows ==
  ASSUME TypeOK, UniqueKeys, NEW k \in Keys, NEW v \in Vals, Write(k, v)
  PROVE  /\ rows' \in Seq(Row)
         /\ Unique(rows')
         /\ Len(rows') = Len(rows)
         /\ k \in KeysOf(rows)
         /\ KeysOf(rows') = KeysOf(rows)
         /\ \A i \in 1..Len(rows) :
               rows'[i] = IF rows[i].key = k THEN [key |-> k, val |-> v] ELSE rows[i]
<1>1. PICK n \in DOMAIN rows : /\ rows[n].key = k
                               /\ rows' = [rows EXCEPT ![n].val = v]
  BY DEF Write, IsFirst
<1>2. /\ rows \in Seq(Row)
      /\ n \in 1..Len(rows)
      /\ \A i \in 1..Len(rows) : rows[i] \in Row
  BY <1>1 DEF TypeOK
<1>3. [rows[n] EXCEPT !.val = v] = [key |-> k, val |-> v]
  BY <1>1, <1>2 DEF Row
<1>4. [key |-> k, val |-> v] \in Row
  BY DEF Row
<1>5. rows' = [rows EXCEPT ![n] = [key |-> k, val |-> v]]
  BY <1>1, <1>3
<1>6. /\ rows' \in Seq(Row)
      /\ Len(rows') = Len(rows)
      /\ \A i \in 1..Len(rows) : rows'[i] = IF i = n THEN [key |-> k, val |-> v] ELSE rows[i]
  BY <1>2, <1>4, <1>5, ExceptSeq
<1>7. \A i \in 1..Len(rows) : rows[i].key = k => i = n
  BY <1>1, <1>2 DEF UniqueKeys
<1>8. \A i \in 1..Len(rows) :
        rows'[i] = IF rows[i].key = k THEN [key |-> k, val |-> v] ELSE rows[i]
  BY <1>1, <1>6, <1>7
<1>9. \A i \in 1..Len(rows) : rows'[i].key = rows[i].key
  BY <1>8
<1>10. Unique(rows')
  BY <1>2, <1>6, <1>9 DEF Unique, UniqueKeys
<1>11. k \in KeysOf(rows)
  BY <1>1 DEF KeysOf
<1>12. ASSUME NEW x
       PROVE  x \in KeysOf(rows') <=> x \in KeysOf(rows)
  BY <1>2, <1>6, <1>9, KeyHasRow
<1> QED
  BY <1>6, <1>8, <1>10, <1>11, <1>12

LEMMA DeleteRows ==
  ASSUME TypeOK, UniqueKeys, NEW k \in Keys, Delete(k)
  PROVE  /\ rows' \in Seq(Row)
         /\ Unique(rows')
         /\ \A i \in DOMAIN rows' : /\ rows'[i].key # k
                                    /\ \E j \in DOMAIN rows : rows'[i] = rows[j]
         /\ \A j \in DOMAIN rows : rows[j].key # k => \E i \in DOMAIN rows' : rows'[i] = rows[j]
         /\ KeysOf(rows') = KeysOf(rows) \ {k}
         /\ \E r \in Row : r.key = k /\ recycle' = Append(recycle, r)
<1>1. PICK n \in DOMAIN rows : /\ rows[n].key = k
                               /\ rows' = RemoveAt(rows, n)
                               /\ recycle' = Append(recycle, rows[n])
  BY DEF Delete, IsFirst
<1>2. /\ rows \in Seq(Row)
      /\ n \in 1..Len(rows)
      /\ \A i \in 1..Len(rows) : rows[i] \in Row
      /\ Len(rows) \in Nat
  BY <1>1 DEF TypeOK
<1>3. /\ rows' \in Seq(Row)
      /\ Len(rows') = Len(rows) - 1
      /\ \A i \in 1..(Len(rows) - 1) : rows'[i] = IF i < n THEN rows[i] ELSE rows[i + 1]
  BY <1>1, <1>2, RemoveAtRows
<1>4. \A i \in 1..Len(rows) : rows[i].key = k => i = n
  BY <1>1, <1>2 DEF UniqueKeys
<1>5. Unique(rows')
  <2> SUFFICES ASSUME NEW i \in 1..(Len(rows) - 1), NEW j \in 1..(Len(rows) - 1),
                      rows'[i].key = rows'[j].key
               PROVE  i = j
    BY <1>3 DEF Unique
  <2> DEFINE old(m) == IF m < n THEN m ELSE m + 1
  <2>1. old(i) \in DOMAIN rows /\ old(j) \in DOMAIN rows
    BY <1>2
  <2>2. rows[old(i)].key = rows[old(j)].key
    BY <1>3
  <2>3. old(i) = old(j)
    BY <2>1, <2>2 DEF UniqueKeys
  <2> QED
    BY <1>2, <2>3
<1>6. ASSUME NEW i \in DOMAIN rows'
      PROVE  rows'[i].key # k /\ \E j \in DOMAIN rows : rows'[i] = rows[j]
  <2> DEFINE old == IF i < n THEN i ELSE i + 1
  <2>1. old \in 1..Len(rows) /\ old # n /\ rows'[i] = rows[old]
    BY <1>2, <1>3
  <2> QED
    BY <1>2, <1>4, <2>1
<1>7. ASSUME NEW j \in DOMAIN rows, rows[j].key # k
      PROVE  \E i \in DOMAIN rows' : rows'[i] = rows[j]
  <2> DEFINE new == IF j < n THEN j ELSE j - 1
  <2>1. new \in 1..(Len(rows) - 1) /\ rows'[new] = rows[j]
    BY <1>1, <1>2, <1>3, <1>7
  <2> QED
    BY <1>3, <2>1
<1>8. KeysOf(rows') = KeysOf(rows) \ {k}
  BY <1>6, <1>7 DEF KeysOf
<1> QED
  BY <1>1, <1>2, <1>3, <1>5, <1>6, <1>7, <1>8

LEMMA RestartRows ==
  ASSUME TypeOK, Restart
  PROVE  /\ rows' \in Seq(Row)
         /\ Unique(rows')
<1>1. PICK set \in SUBSET RowsOf(disk) : rows' \in Listings(set)
  BY DEF Restart
<1>2. disk \in Table
  BY DEF TypeOK
<1> QED
  BY <1>1, <1>2, ListingProperties

LEMMA InitTableInv == Init => TableInv
<1> SUFFICES ASSUME Init PROVE TableInv
  OBVIOUS
<1>1. disk \in Table
  BY DbCacheAssumption DEF Init, Table
<1>2. rows \in Seq(Row) /\ Unique(rows)
  BY <1>1, ListingProperties DEF Init
<1> QED
  BY <1>1, <1>2 DEF Init, TableInv, TypeOK, Progress, UniqueKeys, Unique

LEMMA RollbackTableInv == TableInv /\ Rollback => TableInv'
BY DEF TableInv, TypeOK, UniqueKeys, Progress, Rollback

LEMMA NextTableInv == TableInv /\ [Next]_vars => TableInv'
<1> SUFFICES ASSUME TableInv, [Next]_vars PROVE TableInv'
  OBVIOUS
<1> USE DEF TableInv
<1>1. ASSUME NEW k \in Keys, NEW v \in Vals, Insert(k, v) PROVE TableInv'
  <2>1. rows' \in Seq(Row) /\ Unique(rows')
    BY <1>1, InsertRows
  <2> QED
    BY <1>1, <2>1 DEF Insert, syncVars, TypeOK, Progress, UniqueKeys, Unique
<1>2. ASSUME NEW k \in Keys, NEW v \in Vals, Write(k, v) PROVE TableInv'
  <2>1. rows' \in Seq(Row) /\ Unique(rows')
    BY <1>2, WriteRows
  <2> QED
    BY <1>2, <2>1 DEF Write, syncVars, TypeOK, Progress, UniqueKeys, Unique
<1>3. ASSUME NEW k \in Keys, Delete(k) PROVE TableInv'
  <2>1. /\ rows' \in Seq(Row)
        /\ Unique(rows')
        /\ \E r \in Row : recycle' = Append(recycle, r)
    BY <1>3, DeleteRows
  <2>2. recycle' \in Seq(Row)
    BY <2>1, AppendProperties DEF TypeOK
  <2> QED
    BY <1>3, <2>1, <2>2 DEF Delete, syncVars, TypeOK, Progress, UniqueKeys, Unique
<1>4. CASE Clear
  <2>1. recycle' \in Seq(Row) /\ rows' \in Seq(Row)
    BY <1>4, ConcatProperties DEF Clear, TypeOK
  <2> QED
    BY <1>4, <2>1 DEF Clear, syncVars, TypeOK, Progress, UniqueKeys
<1>5. CASE Begin
  BY <1>5 DEF Begin, TypeOK, Progress, UniqueKeys
<1>6. CASE BeginFails
  BY <1>6 DEF BeginFails, TypeOK, Progress, UniqueKeys
<1>7. CASE DeleteRow
  <2>1. txn' \in Table
    BY <1>7 DEF DeleteRow, TypeOK, Table
  <2>2. node' \in Nat \ {0} /\ node' <= Len(recycle) + 1
    BY <1>7 DEF DeleteRow, TypeOK
  <2> QED
    BY <1>7, <2>1, <2>2 DEF DeleteRow, TypeOK, Progress, UniqueKeys
<1>8. CASE EmptyRecycle
  BY <1>8 DEF EmptyRecycle, TypeOK, Progress, UniqueKeys
<1>9. CASE UpdateRow
  <2>1. /\ node \in 1..Len(rows)
        /\ rows[node] \in Row
        /\ \A i \in 1..(node - 1) : i \in DOMAIN rows /\ rows[i] \in Row
    BY <1>9 DEF UpdateRow, TypeOK
  <2>2. txn' = [txn EXCEPT ![rows[node].key] = rows[node].val]
    BY <1>9 DEF UpdateRow
  <2>3. txn' \in Table
    BY <2>1, <2>2 DEF TypeOK, Table, Row
  <2>4. ASSUME NEW i \in 1..node
        PROVE  txn'[rows[i].key] = rows[i].val
    <3>1. CASE i = node
      BY <2>1, <2>2, <3>1 DEF TypeOK, Table, Row
    <3>2. CASE i # node
      <4>1. i \in 1..(node - 1) /\ i \in DOMAIN rows /\ node \in DOMAIN rows
        BY <2>1, <3>2
      <4>2. rows[i].key # rows[node].key
        BY <3>2, <4>1 DEF UniqueKeys
      <4>3. txn[rows[i].key] = rows[i].val
        BY <1>9, <4>1 DEF UpdateRow, Progress
      <4> QED
        BY <2>1, <2>2, <4>1, <4>2, <4>3 DEF TypeOK, Table, Row
    <3> QED
      BY <3>1, <3>2
  <2>5. node' = node + 1 /\ node' <= Len(rows) + 1
    BY <1>9, <2>1 DEF UpdateRow, TypeOK
  <2> QED
    BY <1>9, <2>3, <2>4, <2>5 DEF UpdateRow, TypeOK, Progress, UniqueKeys
<1>10. CASE Commit
  BY <1>10 DEF Commit, TypeOK, Progress, UniqueKeys
<1>11. ASSUME NEW statement \in Statements, StatementFails(statement) PROVE TableInv'
  BY <1>11, RollbackTableInv DEF StatementFails
<1>12. CASE Restart
  <2>1. rows' \in Seq(Row) /\ Unique(rows')
    BY <1>12, RestartRows
  <2> QED
    BY <1>12, <2>1 DEF Restart, TypeOK, Progress, UniqueKeys, Unique
<1>13. CASE UNCHANGED vars
  BY <1>13 DEF vars, TypeOK, Progress, UniqueKeys
<1> QED
  BY <1>1, <1>2, <1>3, <1>4, <1>5, <1>6, <1>7, <1>8, <1>9, <1>10, <1>11, <1>12, <1>13
     DEF Next

LEMMA TableInvariant == Spec => []TableInv
BY InitTableInv, NextTableInv, PTL DEF Spec

\* The lists are lists of rows, the disk and the transaction are tables.
THEOREM TypeCorrect == Spec => []TypeOK
BY TableInvariant, PTL DEF TableInv

\* The cached table has one row per key after any sequence of operations,
\* failures and restarts.
THEOREM KeysAreUnique == Spec => []UniqueKeys
BY TableInvariant, PTL DEF TableInv

\* A synchronisation that returns 0 has written every row, whatever failed
\* before: at COMMIT the second loop has passed all rows.
THEOREM SyncSavesEveryRow == Spec => SavesEveryRow
<1>1. TableInv /\ [Next]_vars
        => [Commit => \A k \in KeysOf(rows) : disk'[k] = Contents(rows)[k]]_vars
  <2> SUFFICES ASSUME TableInv, Commit, NEW k \in KeysOf(rows)
               PROVE  disk'[k] = Contents(rows)[k]
    OBVIOUS
  <2>1. PICK i \in DOMAIN rows : rows[i].key = k
    BY DEF KeysOf
  <2>2. Contents(rows)[k] = rows[i].val
    BY <2>1, ContentsOfRow, UniqueKeysIsUnique DEF TableInv, TypeOK
  <2>3. i \in 1..(node - 1)
    BY <2>1 DEF TableInv, TypeOK, Commit
  <2> QED
    BY <2>1, <2>2, <2>3 DEF TableInv, Progress, Commit
<1> QED
  BY <1>1, TableInvariant, PTL DEF Spec, SavesEveryRow

-----------------------------------------------------------------------------
(***************************************************************************)
(* The disk, if nothing fails after the recycle bin is emptied             *)
(***************************************************************************)
EarlyFaultsOnly == Poison = {} /\ Faults \subseteq {"begin", "delete"}

\* What the disk, or the transaction, has and the table has not, is yet to be
\* deleted; once the bin is empty the transaction has no such row.
Remembered ==
  /\ phase = "idle" => \A k \in Keys :
       disk[k] # Absent => k \in KeysOf(rows) \cup KeysOf(recycle)
  /\ phase = "delete" => \A k \in Keys :
       /\ disk[k] # Absent => k \in KeysOf(rows) \cup KeysOf(recycle)
       /\ txn[k] # Absent => \/ k \in KeysOf(rows)
                             \/ \E i \in node..Len(recycle) : recycle[i].key = k
  /\ phase = "update" => \A k \in Keys : txn[k] # Absent => k \in KeysOf(rows)

DiskInv == TableInv /\ Remembered

LEMMA InitRemembered == Init => Remembered
<1> SUFFICES ASSUME Init, NEW k \in Keys, disk[k] # Absent
             PROVE  k \in KeysOf(rows)
  BY DEF Init, Remembered
<1>1. disk \in Table /\ rows \in Listings(RowsOf(disk))
  BY DbCacheAssumption DEF Init, Table
<1>2. [key |-> k, val |-> disk[k]] \in RowsOf(disk)
  BY DEF RowsOf
<1>3. \E i \in DOMAIN rows : rows[i] = [key |-> k, val |-> disk[k]]
  BY <1>1, <1>2, ListingProperties
<1> QED
  BY <1>3 DEF KeysOf

LEMMA NextRemembered ==
  ASSUME EarlyFaultsOnly
  PROVE  DiskInv /\ [Next]_vars => Remembered'
<1> SUFFICES ASSUME DiskInv, [Next]_vars PROVE Remembered'
  OBVIOUS
<1> USE DEF DiskInv, TableInv
<1>0. ~MayFail("update") /\ ~MayFail("commit") /\ ~MayFail("restore")
  BY DEF EarlyFaultsOnly, MayFail
<1>1. ASSUME NEW k \in Keys, NEW v \in Vals, Insert(k, v) PROVE Remembered'
  <2>1. KeysOf(rows') = KeysOf(rows) \cup {k}
    BY <1>1, InsertRows
  <2> QED
    BY <1>1, <2>1 DEF Insert, syncVars, Remembered
<1>2. ASSUME NEW k \in Keys, NEW v \in Vals, Write(k, v) PROVE Remembered'
  <2>1. KeysOf(rows') = KeysOf(rows)
    BY <1>2, WriteRows
  <2> QED
    BY <1>2, <2>1 DEF Write, syncVars, Remembered
<1>3. ASSUME NEW k \in Keys, Delete(k) PROVE Remembered'
  <2>1. KeysOf(rows') = KeysOf(rows) \ {k}
    BY <1>3, DeleteRows
  <2>2. PICK r \in Row : r.key = k /\ recycle' = Append(recycle, r)
    BY <1>3, DeleteRows
  <2>3. KeysOf(recycle') = KeysOf(recycle) \cup {k}
    BY <2>2, AppendProperties DEF KeysOf, TypeOK
  <2> QED
    BY <1>3, <2>1, <2>3 DEF Delete, syncVars, Remembered
<1>4. CASE Clear
  <2>1. KeysOf(recycle') = KeysOf(recycle) \cup KeysOf(rows)
    <3>1. recycle' = recycle \o rows /\ recycle \in Seq(Row) /\ rows \in Seq(Row)
      BY <1>4 DEF Clear, TypeOK
    <3>2. /\ Len(recycle') = Len(recycle) + Len(rows)
          /\ \A i \in 1..(Len(recycle) + Len(rows)) :
                recycle'[i] = IF i <= Len(recycle) THEN recycle[i] ELSE rows[i - Len(recycle)]
      BY <3>1, ConcatProperties
    <3>3. recycle' \in Seq(Row)
      BY <3>1, ConcatProperties
    <3>4. ASSUME NEW i \in DOMAIN rows PROVE rows[i].key \in KeysOf(recycle')
      <4>1. /\ i + Len(recycle) \in DOMAIN recycle'
            /\ recycle'[i + Len(recycle)] = rows[i]
        BY <3>1, <3>2, <3>3
      <4> QED
        BY <4>1 DEF KeysOf
    <3>5. ASSUME NEW i \in DOMAIN recycle PROVE recycle[i].key \in KeysOf(recycle')
      <4>1. i \in DOMAIN recycle' /\ recycle'[i] = recycle[i]
        BY <3>1, <3>2, <3>3
      <4> QED
        BY <4>1 DEF KeysOf
    <3>6. ASSUME NEW i \in DOMAIN recycle'
          PROVE  recycle'[i].key \in KeysOf(recycle) \cup KeysOf(rows)
      <4>1. CASE i <= Len(recycle)
        BY <3>1, <3>2, <3>3, <4>1 DEF KeysOf
      <4>2. CASE ~(i <= Len(recycle))
        <5>1. i - Len(recycle) \in DOMAIN rows /\ recycle'[i] = rows[i - Len(recycle)]
          BY <3>1, <3>2, <3>3, <4>2
        <5> QED
          BY <5>1 DEF KeysOf
      <4> QED
        BY <4>1, <4>2
    <3> QED
      BY <3>4, <3>5, <3>6 DEF KeysOf
  <2> QED
    BY <1>4, <2>1 DEF Clear, syncVars, Remembered
<1>5. CASE Begin
  BY <1>5, KeyHasRow DEF Begin, Remembered, TypeOK
<1>6. CASE BeginFails
  BY <1>6 DEF BeginFails, Remembered
<1>7. CASE DeleteRow
  <2>1. /\ node \in 1..Len(recycle)
        /\ recycle[node] \in Row
        /\ txn' = [txn EXCEPT ![recycle[node].key] = Absent]
        /\ node' = node + 1
        /\ phase = "delete" /\ phase' = "delete"
        /\ UNCHANGED <<rows, recycle, disk>>
    BY <1>7 DEF DeleteRow, TypeOK
  <2>2. ASSUME NEW k \in Keys, txn'[k] # Absent, k \notin KeysOf(rows)
        PROVE  \E i \in (node + 1)..Len(recycle) : recycle[i].key = k
    <3>1. k # recycle[node].key /\ txn[k] # Absent
      BY <2>1, <2>2 DEF TypeOK, Table, Row
    <3>2. PICK i \in node..Len(recycle) : recycle[i].key = k
      BY <2>1, <2>2, <3>1 DEF Remembered
    <3> QED
      BY <2>1, <3>1, <3>2
  <2> QED
    BY <2>1, <2>2 DEF Remembered
<1>8. CASE EmptyRecycle
  BY <1>8 DEF EmptyRecycle, Remembered, TypeOK
<1>9. CASE UpdateRow
  BY <1>9 DEF UpdateRow, Remembered, TypeOK, Table, KeysOf
<1>10. CASE Commit
  BY <1>10 DEF Commit, Remembered
<1>11. ASSUME NEW statement \in Statements, StatementFails(statement) PROVE Remembered'
  <2>1. statement = "delete" /\ phase = "delete"
    BY <1>0, <1>11 DEF StatementFails, Comes, EarlyFaultsOnly
  <2> QED
    BY <1>11, <2>1 DEF StatementFails, Rollback, Remembered
<1>12. CASE Restart
  <2>1. /\ rows' \in Listings(RowsOf(disk))
        /\ phase' = "idle" /\ disk' = disk
    BY <1>0, <1>12 DEF Restart
  <2>2. ASSUME NEW k \in Keys, disk[k] # Absent PROVE k \in KeysOf(rows')
    <3>1. [key |-> k, val |-> disk[k]] \in RowsOf(disk)
      BY <2>2 DEF RowsOf
    <3>2. \E i \in DOMAIN rows' : rows'[i] = [key |-> k, val |-> disk[k]]
      BY <2>1, <3>1, ListingProperties DEF TypeOK
    <3> QED
      BY <3>2 DEF KeysOf
  <2> QED
    BY <2>1, <2>2 DEF Remembered
<1>13. CASE UNCHANGED vars
  BY <1>13 DEF vars, Remembered
<1> QED
  BY <1>1, <1>2, <1>3, <1>4, <1>5, <1>6, <1>7, <1>8, <1>9, <1>10, <1>11, <1>12, <1>13
     DEF Next

LEMMA DiskInvariant ==
  ASSUME EarlyFaultsOnly
  PROVE  Spec => []DiskInv
<1>1. Init => DiskInv
  BY InitTableInv, InitRemembered DEF DiskInv
<1>2. DiskInv /\ [Next]_vars => DiskInv'
  BY NextTableInv, NextRemembered DEF DiskInv
<1> QED
  BY <1>1, <1>2, PTL DEF Spec

\* While nothing fails late, a row the disk still has and the table has lost
\* waits in the recycle bin.
THEOREM DeletionsAreRemembered ==
  ASSUME EarlyFaultsOnly
  PROVE  Spec => []DeletionsRemembered
<1>1. DiskInv => DeletionsRemembered
  BY DEF DiskInv, TableInv, TypeOK, Remembered, DeletionsRemembered
<1> QED
  BY <1>1, DiskInvariant, PTL

\* At COMMIT, the transaction is the table.
LEMMA CommittedTable ==
  ASSUME DiskInv, Commit
  PROVE  txn = Contents(rows)
<1>1. /\ rows \in Seq(Row) /\ Unique(rows)
      /\ txn \in Table
  BY UniqueKeysIsUnique DEF DiskInv, TableInv, TypeOK
<1>2. \A k \in Keys \ KeysOf(rows) : txn[k] = Absent
  BY DEF DiskInv, Remembered, Commit
<1>3. \A i \in DOMAIN rows : txn[rows[i].key] = rows[i].val
  BY DEF DiskInv, TableInv, TypeOK, Progress, Commit
<1> QED
  BY <1>1, <1>2, <1>3, ContentsByRows

\* While nothing fails late, a synchronisation that returns 0 leaves the disk
\* equal to the cache.
THEOREM SyncIsExact ==
  ASSUME EarlyFaultsOnly
  PROVE  Spec => SyncMakesDiskEqualCache
<1>1. DiskInv /\ [Next]_vars => [Commit => disk' = Contents(rows)]_vars
  BY CommittedTable DEF Commit
<1> QED
  BY <1>1, DiskInvariant, PTL DEF Spec, SyncMakesDiskEqualCache

LEMMA InitRefines == Init => Durable!Init
<1> SUFFICES ASSUME Init PROVE Durable!Init
  OBVIOUS
<1>1. disk \in Table
  BY DbCacheAssumption DEF Init, Table
<1> QED
  BY <1>1, ContentsOfListing DEF Init, Durable!Init, Durable!Table, Table

\* One row of the table changes: so does the table it stands for.
LEMMA ChangeRefines ==
  ASSUME rows' \in Seq(Row), Unique(rows'), rows \in Seq(Row), Unique(rows),
         UNCHANGED disk,
         NEW k \in Keys, NEW v \in Vals \cup {Absent},
         Contents(rows')[k] = v,
         \A x \in Keys \ {k} : Contents(rows')[x] = Contents(rows)[x]
  PROVE  Durable!Change
<1>1. Contents(rows') = [Contents(rows) EXCEPT ![k] = v]
  BY ContentsType DEF Table
<1> QED
  BY <1>1 DEF Durable!Change

\* Every step on the list of rows is a step on the table it stands for, a
\* COMMIT saves it, and all else stutters.
LEMMA NextRefines ==
  ASSUME EarlyFaultsOnly
  PROVE  DiskInv /\ [Next]_vars => [Durable!Next]_<<Contents(rows), disk>>
<1> SUFFICES ASSUME DiskInv, [Next]_vars
             PROVE  [Durable!Next]_<<Contents(rows), disk>>
  OBVIOUS
<1>1. /\ TypeOK /\ UniqueKeys
      /\ rows \in Seq(Row) /\ Unique(rows) /\ disk \in Table
  BY UniqueKeysIsUnique DEF DiskInv, TableInv, TypeOK
<1>2. ASSUME NEW k \in Keys, NEW v \in Vals, Insert(k, v) PROVE Durable!Change
  <2>1. /\ rows' \in Seq(Row) /\ Unique(rows')
        /\ Len(rows') = Len(rows) + 1 /\ Len(rows) \in Nat
        /\ \A i \in 1..Len(rows) : rows'[i] = rows[i]
        /\ rows'[Len(rows) + 1] = [key |-> k, val |-> v]
        /\ KeysOf(rows') = KeysOf(rows) \cup {k}
    BY <1>1, <1>2, InsertRows
  <2>2. Contents(rows')[k] = v
    <3>1. Len(rows) + 1 \in DOMAIN rows'
      BY <2>1
    <3> QED
      BY <2>1, <3>1, ContentsOfRow
  <2>3. ASSUME NEW x \in Keys \ {k} PROVE Contents(rows')[x] = Contents(rows)[x]
    <3>1. CASE x \in KeysOf(rows)
      <4>1. PICK i \in DOMAIN rows : rows[i].key = x
        BY <3>1 DEF KeysOf
      <4>2. i \in DOMAIN rows' /\ rows'[i] = rows[i]
        BY <1>1, <2>1
      <4> QED
        BY <1>1, <2>1, <4>1, <4>2, ContentsOfRow
    <3>2. CASE x \notin KeysOf(rows)
      BY <2>1, <3>2, ContentsOfNone
    <3> QED
      BY <3>1, <3>2
  <2> QED
    BY <1>1, <1>2, <2>1, <2>2, <2>3, ChangeRefines DEF Insert, syncVars
<1>3. ASSUME NEW k \in Keys, NEW v \in Vals, Write(k, v) PROVE Durable!Change
  <2>1. /\ rows' \in Seq(Row) /\ Unique(rows')
        /\ Len(rows') = Len(rows) /\ Len(rows) \in Nat
        /\ k \in KeysOf(rows)
        /\ KeysOf(rows') = KeysOf(rows)
        /\ \A i \in 1..Len(rows) :
              rows'[i] = IF rows[i].key = k THEN [key |-> k, val |-> v] ELSE rows[i]
    BY <1>1, <1>3, WriteRows
  <2>2. Contents(rows')[k] = v
    <3>1. PICK i \in DOMAIN rows : rows[i].key = k
      BY <2>1 DEF KeysOf
    <3>2. i \in DOMAIN rows' /\ rows'[i] = [key |-> k, val |-> v]
      BY <1>1, <2>1, <3>1
    <3> QED
      BY <2>1, <3>2, ContentsOfRow
  <2>3. ASSUME NEW x \in Keys \ {k} PROVE Contents(rows')[x] = Contents(rows)[x]
    <3>1. CASE x \in KeysOf(rows)
      <4>1. PICK i \in DOMAIN rows : rows[i].key = x
        BY <3>1 DEF KeysOf
      <4>2. i \in DOMAIN rows' /\ rows'[i] = rows[i]
        BY <1>1, <2>1, <2>3, <4>1
      <4> QED
        BY <1>1, <2>1, <4>1, <4>2, ContentsOfRow
    <3>2. CASE x \notin KeysOf(rows)
      BY <2>1, <3>2, ContentsOfNone
    <3> QED
      BY <3>1, <3>2
  <2> QED
    BY <1>1, <1>3, <2>1, <2>2, <2>3, ChangeRefines DEF Write, syncVars
<1>4. ASSUME NEW k \in Keys, Delete(k) PROVE Durable!Change
  <2>1. /\ rows' \in Seq(Row) /\ Unique(rows')
        /\ KeysOf(rows') = KeysOf(rows) \ {k}
        /\ \A i \in DOMAIN rows' : \E j \in DOMAIN rows : rows'[i] = rows[j]
    BY <1>1, <1>4, DeleteRows
  <2>2. Contents(rows')[k] = Absent
    BY <2>1, ContentsOfNone
  <2>3. ASSUME NEW x \in Keys \ {k} PROVE Contents(rows')[x] = Contents(rows)[x]
    <3>1. CASE x \in KeysOf(rows)
      <4>1. PICK i \in DOMAIN rows' : rows'[i].key = x
        BY <2>1, <3>1 DEF KeysOf
      <4>2. PICK j \in DOMAIN rows : rows'[i] = rows[j]
        BY <2>1
      <4> QED
        BY <1>1, <2>1, <4>1, <4>2, ContentsOfRow
    <3>2. CASE x \notin KeysOf(rows)
      BY <2>1, <3>2, ContentsOfNone
    <3> QED
      BY <3>1, <3>2
  <2> QED
    BY <1>1, <1>4, <2>1, <2>2, <2>3, ChangeRefines DEF Delete, syncVars
<1>5. CASE Clear
  <2>1. rows' = <<>> /\ disk' = disk
    BY <1>5 DEF Clear, syncVars
  <2>2. Contents(rows') = [k \in Keys |-> Absent]
    BY <2>1 DEF Contents, KeysOf
  <2> QED
    BY <2>1, <2>2 DEF Durable!Next, Durable!Clear
<1>6. CASE Commit
  <2>1. disk' = Contents(rows) /\ rows' = rows
    BY <1>6, CommittedTable DEF Commit
  <2> QED
    BY <2>1 DEF Durable!Next, Durable!Save
<1>7. CASE Restart
  <2>1. rows' \in Listings(RowsOf(disk)) /\ disk' = disk
    BY <1>7 DEF Restart, EarlyFaultsOnly, MayFail
  <2>2. Contents(rows') = disk
    BY <1>1, <2>1, ContentsOfListing
  <2> QED
    BY <2>1, <2>2 DEF Durable!Next, Durable!Restart
<1>8. CASE \/ Begin \/ BeginFails \/ DeleteRow \/ EmptyRecycle \/ UpdateRow
           \/ \E statement \in Statements : StatementFails(statement)
  <2>1. rows' = rows /\ disk' = disk
    BY <1>8 DEF Begin, BeginFails, DeleteRow, EmptyRecycle, UpdateRow, StatementFails, Rollback
  <2> QED
    BY <2>1
<1>9. CASE UNCHANGED vars
  BY <1>9 DEF vars
<1> QED
  BY <1>2, <1>3, <1>4, <1>5, <1>6, <1>7, <1>8, <1>9 DEF Next, Durable!Next

\* While nothing fails late, the list of rows, the recycle bin and the
\* transaction together implement the table with a saved copy.
THEOREM CacheIsDurable ==
  ASSUME EarlyFaultsOnly
  PROVE  Spec => ImplementsDurableTable
BY InitRefines, NextRefines, DiskInvariant, PTL
   DEF Spec, ImplementsDurableTable, Durable!Spec
=============================================================================
