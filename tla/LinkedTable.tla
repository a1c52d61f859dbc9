---------------------------- MODULE LinkedTable ----------------------------
(***************************************************************************)
(* The rows and the recycle bin of a cached table as they lie in memory:   *)
(* two doubly linked lists (utils/list.c).                                 *)
(*                                                                         *)
(* Each step of DbCache goes together with what it does to the lists.  An  *)
(* operation on a list has no guard: it looks at links and lengths only,   *)
(* and ListsAreRows says that they are always those of DbCache's           *)
(* sequences.  The contents of a row lie outside its node and stay in rows.*)
(***************************************************************************)
EXTENDS DbCache

CONSTANTS
  Addrs,     (* addresses of list nodes                                    *)
  NULL,
  Freed      (* what is at an address without a node                       *)

Pointer == Addrs \cup {NULL}
Node    == [prev : Pointer, next : Pointer, key : Keys]
List    == [head : Pointer, tail : Pointer, len : Nat]

\* There is memory for a row of every key and for a full recycle bin.
ASSUME LinkedTableAssumption ==
  /\ IsFiniteSet(Addrs)
  /\ NULL \notin Addrs
  /\ Freed \notin Node
  /\ Cardinality(Keys) + MaxRecycle <= Cardinality(Addrs)

VARIABLES
  mem,       (* the node at each address: prev, next and the key of its row*)
  rowList,   (* struct list of DbCacheTable.rows: head, tail and len       *)
  binList,   (* struct list of DbCacheTable.recycle                        *)
  iter       (* node, the loop variable of _cached_sync                    *)

listVars == <<mem, rowList, binList, iter>>

-----------------------------------------------------------------------------
(***************************************************************************)
(* utils/list.c: h is the memory, l a list                                 *)
(***************************************************************************)
Create == [head |-> NULL, tail |-> NULL, len |-> 0]

\* malloc gives some free address; which one makes no difference.
Malloc(h) == CHOOSE a \in Addrs : h[a] = Freed

After(h)  == [a \in Pointer |-> IF a = NULL \/ h[a] = Freed THEN NULL ELSE h[a].next]
Before(h) == [a \in Pointer |-> IF a = NULL \/ h[a] = Freed THEN NULL ELSE h[a].prev]

\* The nodes met from a pointer on, following the links of one direction: the
\* last one is followed by NULL, and NULL by NULL.
Follow(a, link) ==
  LET at[i \in 1..(Cardinality(Addrs) + 1)] == IF i = 1 THEN a ELSE link[at[i - 1]]
  IN  [i \in {j \in 1..(Cardinality(Addrs) + 1) : at[j] # NULL} |-> at[i]]

Forward(h, l)  == Follow(l.head, After(h))
Backward(h, l) == Follow(l.tail, Before(h))

\* Mutant: the old tail is not linked to the new one.
AddNodeTailUnlinked(h, l, a, k) ==
  [mem  |-> [h EXCEPT ![a] = [prev |-> l.tail, next |-> NULL, key |-> k]],
   list |-> [head |-> IF l.len = 0 THEN a ELSE l.head, tail |-> a, len |-> l.len + 1]]

AddNodeTail(h, l, a, k) ==
  LET fresh == [prev |-> IF l.len = 0 THEN NULL ELSE l.tail, next |-> NULL, key |-> k]
      h2    == [h EXCEPT ![a] = fresh]
  IN  [mem  |-> IF l.len = 0 THEN h2 ELSE [h2 EXCEPT ![l.tail].next = a],
       list |-> [head |-> IF l.len = 0 THEN a ELSE l.head,
                 tail |-> a,
                 len  |-> l.len + 1]]

SearchKey(h, l, k) ==
  LET walk == Forward(h, l)
      hits == {i \in DOMAIN walk : h[walk[i]].key = k}
  IN  IF hits = {} THEN NULL ELSE walk[Min(hits)]

RemoveNode(h, l, a) ==
  LET p  == h[a].prev
      n  == h[a].next
      h2 == IF p = NULL THEN h ELSE [h EXCEPT ![p].next = n]
      h3 == IF n = NULL THEN h2 ELSE [h2 EXCEPT ![n].prev = p]
  IN  [mem  |-> [h3 EXCEPT ![a] = Freed],
       list |-> [head |-> IF p = NULL THEN n ELSE l.head,
                 tail |-> IF n = NULL THEN p ELSE l.tail,
                 len  |-> l.len - 1]]

\* len nodes are freed from the head on.
Empty(h, l) ==
  LET gone == Range(SubSeq(Forward(h, l), 1, l.len))
  IN  [mem  |-> [a \in Addrs |-> IF a \in gone THEN Freed ELSE h[a]],
       list |-> Create]

\* listJoin(l, o): the nodes of o are appended to l.
Join(h, l, o) ==
  LET h2 == IF o.head = NULL THEN h ELSE [h EXCEPT ![o.head].prev = l.tail]
  IN  [mem  |-> IF l.tail = NULL THEN h2 ELSE [h2 EXCEPT ![l.tail].next = o.head],
       list |-> [head |-> IF l.tail = NULL THEN o.head ELSE l.head,
                 tail |-> IF o.tail = NULL THEN l.tail ELSE o.tail,
                 len  |-> l.len + o.len],
       rest |-> Create]

\* The list made by appending the rows of a sequence, one by one.
Load(seq) ==
  LET after[i \in 0..Len(seq)] ==
        IF i = 0 THEN [mem |-> [a \in Addrs |-> Freed], list |-> Create]
        ELSE LET m == after[i - 1]
             IN  AddNodeTail(m.mem, m.list, Malloc(m.mem), seq[i].key)
  IN  after[Len(seq)]

-----------------------------------------------------------------------------
(***************************************************************************)
(* The operations of a cached table                                        *)
(***************************************************************************)
LinkedInit == /\ Init
         /\ mem = Load(rows).mem
         /\ rowList = Load(rows).list
         /\ binList = Create
         /\ iter = NULL

LinkedInsert(k, v) ==
  /\ Insert(k, v)
  /\ LET added == AddNodeTail(mem, rowList, Malloc(mem), k)
     IN  mem' = added.mem /\ rowList' = added.list
  /\ UNCHANGED <<binList, iter>>

LinkedDelete(k) ==
  /\ Delete(k)
  /\ LET a       == SearchKey(mem, rowList, k)
         removed == RemoveNode(mem, rowList, a)
         added   == AddNodeTail(removed.mem, binList, Malloc(removed.mem), k)
     IN  IF a = NULL THEN UNCHANGED <<mem, rowList, binList>>
         ELSE mem' = added.mem /\ rowList' = removed.list /\ binList' = added.list
  /\ UNCHANGED iter

LinkedClear ==
  /\ Clear
  /\ LET joined == Join(mem, binList, rowList)
     IN  mem' = joined.mem /\ binList' = joined.list /\ rowList' = joined.rest
  /\ UNCHANGED iter

LinkedBegin     == Begin /\ iter' = binList.head /\ UNCHANGED <<mem, rowList, binList>>
LinkedDeleteRow == DeleteRow /\ iter' = After(mem)[iter] /\ UNCHANGED <<mem, rowList, binList>>
LinkedUpdateRow == UpdateRow /\ iter' = After(mem)[iter] /\ UNCHANGED <<mem, rowList, binList>>

LinkedEmptyRecycle ==
  /\ EmptyRecycle
  /\ mem' = Empty(mem, binList).mem
  /\ binList' = Empty(mem, binList).list
  /\ iter' = rowList.head
  /\ UNCHANGED rowList

\* The steps that end a synchronisation leave the loop it is in.
LinkedEndSync == /\ Commit \/ \E statement \in Statements : StatementFails(statement)
                 /\ iter' = NULL
                 /\ UNCHANGED <<mem, rowList, binList>>
LinkedBeginFails  == BeginFails /\ UNCHANGED listVars
LinkedWrite(k, v) == Write(k, v) /\ UNCHANGED listVars

LinkedRestart == /\ Restart
                 /\ mem' = Load(rows').mem
                 /\ rowList' = Load(rows').list
                 /\ binList' = Create
                 /\ iter' = NULL

LinkedNext == \/ \E k \in Keys, v \in Vals : LinkedInsert(k, v) \/ LinkedWrite(k, v)
              \/ \E k \in Keys : LinkedDelete(k)
              \/ LinkedClear
              \/ LinkedBegin \/ LinkedDeleteRow \/ LinkedEmptyRecycle \/ LinkedUpdateRow
              \/ LinkedBeginFails \/ LinkedEndSync \/ LinkedRestart

LinkedSpec == LinkedInit /\ [][LinkedNext]_<<vars, listVars>>

-----------------------------------------------------------------------------
(***************************************************************************)
(* Properties                                                              *)
(***************************************************************************)
KeysAt(walk) == [i \in DOMAIN walk |-> mem[walk[i]].key]

\* l holds the rows of seq: read forward from head, backward from tail, and
\* counted in len, the three agree.
Holds(l, seq) == /\ KeysAt(Forward(mem, l)) = [i \in DOMAIN seq |-> seq[i].key]
                 /\ Backward(mem, l) = Reverse(Forward(mem, l))
                 /\ l.len = Len(seq)

\* The two lists are the sequences of DbCache, share no node, no node is lost
\* (listJoin and listRemoveNode relink every neighbour), and the loops of
\* _cached_sync stand at the row that DbCache counts.
ListsAreRows ==
  /\ Holds(rowList, rows)
  /\ Holds(binList, recycle)
  /\ {a \in Addrs : mem[a] # Freed} = Range(Forward(mem, rowList)) \cup Range(Forward(mem, binList))
  /\ Cardinality({a \in Addrs : mem[a] # Freed}) = rowList.len + binList.len
  /\ phase = "delete" => iter = IF node > Len(recycle) THEN NULL ELSE Forward(mem, binList)[node]
  /\ phase = "update" => iter = IF node > Len(rows) THEN NULL ELSE Forward(mem, rowList)[node]
=============================================================================
