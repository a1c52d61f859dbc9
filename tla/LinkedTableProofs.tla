-------------------------- MODULE LinkedTableProofs --------------------------
(***************************************************************************)
(* The linked lists of a cached table are its rows and its recycle bin,    *)
(* for any keys and any memory with room for them; so are those of the     *)
(* white list.                                                             *)
(*                                                                         *)
(* The links are described by the sequence w of the addresses of the nodes *)
(* (Linked).  One lemma per operation of utils/list.c says how it changes  *)
(* w; the invariant (ListInv) says that there is such a sequence for each  *)
(* of the two lists, and that they share no node and leave none out.       *)
(***************************************************************************)
EXTENDS WhiteList, DbCacheProofs

-----------------------------------------------------------------------------
(***************************************************************************)
(* Counting                                                                *)
(***************************************************************************)
\* Some number of a set of natural numbers is the least one: what an argument
\* by induction over a list needs.
LEMMA LeastNumber ==
  ASSUME NEW S \in SUBSET Nat, S # {}
  PROVE  \E m \in S : \A n \in S : m <= n
<1> DEFINE Below == {pair \in Nat \X Nat : pair[1] < pair[2]}
<1>1. IsWellFoundedOn(Below, Nat)
  BY NatLessThanWellFounded DEF OpToRel
<1> HIDE DEF Below
<1>2. PICK m \in S : \A n \in S : <<n, m>> \notin Below
  BY <1>1, WFMin
<1>3. \A n \in S : ~ (n < m)
  BY <1>2 DEF Below
<1>4. QED
  BY <1>3

\* Counting from one number on, a set that has each number after one that it has
\* has them all.
LEMMA Counted ==
  ASSUME NEW m \in Nat, NEW n \in Nat, NEW S,
         \A i \in m..n : (i = m \/ i - 1 \in S) => i \in S
  PROVE  m..n \subseteq S
<1> DEFINE Out == (m..n) \ S
<1>1. SUFFICES ASSUME Out # {} PROVE FALSE
  OBVIOUS
<1>2. Out \in SUBSET Nat
  OBVIOUS
<1>3. PICK i \in Out : \A j \in Out : i <= j
  BY <1>1, <1>2, LeastNumber
<1>4. i \in m..n /\ i # m
  BY <1>3
<1>5. i - 1 \in m..n /\ ~ (i <= i - 1)
  BY <1>4
<1>6. i - 1 \in S
  BY <1>3, <1>5
<1>7. QED
  BY <1>3, <1>4, <1>6

-----------------------------------------------------------------------------
(***************************************************************************)
(* A list and its nodes                                                    *)
(***************************************************************************)
Memory   == [Addrs -> Node \cup {Freed}]
Used(h)  == {a \in Addrs : h[a] # Freed}
Nodes(w) == {w[i] : i \in 1..Len(w)}

Distinct(w) == \A i, j \in 1..Len(w) : w[i] = w[j] => i = j

\* The node of the ith row, where the nodes lie at the addresses w.
NodeAt(w, seq, i) == [prev |-> IF i = 1 THEN NULL ELSE w[i - 1],
                      next |-> IF i = Len(w) THEN NULL ELSE w[i + 1],
                      key  |-> seq[i].key]

\* l is the list of the rows of seq, with its nodes at w.
Linked(h, l, w, seq) ==
  /\ w \in Seq(Addrs) /\ seq \in Seq(Row) /\ Len(seq) = Len(w)
  /\ Distinct(w)
  /\ \A i \in 1..Len(w) : h[w[i]] = NodeAt(w, seq, i)
  /\ l = [head |-> IF Len(w) = 0 THEN NULL ELSE w[1],
          tail |-> IF Len(w) = 0 THEN NULL ELSE w[Len(w)],
          len  |-> Len(w)]

LEMMA RowKey ==
  ASSUME NEW seq \in Seq(Row), NEW i \in 1..Len(seq) PROVE seq[i].key \in Keys
<1>1. seq[i] \in Row
  BY ElementOfSeq
<1>2. QED
  BY <1>1 DEF Row

\* There are as many nodes as rows, and all of them are in use.
LEMMA NodesOf ==
  ASSUME NEW w \in Seq(Addrs), Distinct(w)
  PROVE  /\ Nodes(w) \subseteq Addrs
         /\ IsFiniteSet(Nodes(w)) /\ Cardinality(Nodes(w)) = Len(w)
         /\ Len(w) \in Nat /\ Len(w) <= Cardinality(Addrs)
<1>1. Len(w) \in Nat /\ w \in [1..Len(w) -> Addrs]
  BY LenProperties
<1>2. Nodes(w) \subseteq Addrs
  BY <1>1 DEF Nodes
<1>3. w \in Bijection(1..Len(w), Nodes(w))
  <2>1. w \in [1..Len(w) -> Nodes(w)]
    BY <1>1 DEF Nodes
  <2>2. QED
    BY <2>1 DEF Nodes, Distinct, Bijection, Injection, Surjection, IsInjective
<1>4. IsFiniteSet(1..Len(w)) /\ Cardinality(1..Len(w)) = Len(w)
  BY <1>1, FS_Interval
<1>5. IsFiniteSet(Nodes(w)) /\ Cardinality(Nodes(w)) = Len(w)
  BY <1>3, <1>4, FS_Bijection DEF ExistsBijection
<1>6. Cardinality(Nodes(w)) <= Cardinality(Addrs)
  BY <1>2, FS_Subset, LinkedTableAssumption
<1>7. QED
  BY <1>1, <1>2, <1>5, <1>6

LEMMA NodeIsNode ==
  ASSUME NEW w \in Seq(Addrs), NEW seq \in Seq(Row), Len(seq) = Len(w), NEW i \in 1..Len(w)
  PROVE  NodeAt(w, seq, i) \in Node /\ NodeAt(w, seq, i) # Freed
<1>1. seq[i].key \in Keys
  BY RowKey
<1>2. (IF i = 1 THEN NULL ELSE w[i - 1]) \in Pointer
  BY DEF Pointer
<1>3. (IF i = Len(w) THEN NULL ELSE w[i + 1]) \in Pointer
  BY DEF Pointer
<1>4. NodeAt(w, seq, i) \in Node
  BY <1>1, <1>2, <1>3 DEF NodeAt, Node
<1>5. QED
  BY <1>4, LinkedTableAssumption

LEMMA LinkedUsed ==
  ASSUME NEW h, NEW l, NEW w, NEW seq, Linked(h, l, w, seq) PROVE Nodes(w) \subseteq Used(h)
<1> SUFFICES ASSUME NEW i \in 1..Len(w) PROVE w[i] \in Addrs /\ h[w[i]] # Freed
  BY DEF Nodes, Used
<1>1. QED
  BY NodeIsNode, ElementOfSeq DEF Linked

\* Nodes outside the list may change, and so may the contents of the rows.
LEMMA LinkedStays ==
  ASSUME NEW h, NEW h2, NEW l, NEW w, NEW seq, NEW seq2 \in Seq(Row),
         Linked(h, l, w, seq),
         \A a \in Nodes(w) : h2[a] = h[a],
         Len(seq2) = Len(seq), \A i \in 1..Len(seq) : seq2[i].key = seq[i].key
  PROVE  Linked(h2, l, w, seq2)
<1>1. ASSUME NEW i \in 1..Len(w) PROVE h2[w[i]] = NodeAt(w, seq2, i)
  BY <1>1 DEF Linked, Nodes, NodeAt
<1>2. QED
  BY <1>1 DEF Linked

-----------------------------------------------------------------------------
(***************************************************************************)
(* What is met by following the links                                      *)
(***************************************************************************)
\* The recursion of Follow has one solution.
Follows(f, far, a, link) == f = [i \in 1..far |-> IF i = 1 THEN a ELSE link[f[i - 1]]]

LEMMA OneWalk ==
  ASSUME NEW far \in Nat, NEW a, NEW link, NEW f, NEW g,
         Follows(f, far, a, link), Follows(g, far, a, link)
  PROVE  f = g
<1> USE DEF Follows
<1> DEFINE S == {i \in 1..far : f[i] = g[i]}
<1>1. ASSUME NEW i \in 1..far, i = 1 \/ i - 1 \in S PROVE i \in S
  <2>1. /\ f[i] = IF i = 1 THEN a ELSE link[f[i - 1]]
        /\ g[i] = IF i = 1 THEN a ELSE link[g[i - 1]]
    OBVIOUS
  <2>2. QED
    BY <1>1, <2>1
<1> HIDE DEF S
<1>2. 1..far \subseteq S
  BY <1>1, Counted
<1>3. \A i \in 1..far : f[i] = g[i]
  BY <1>2 DEF S
<1>4. f = [i \in 1..far |-> f[i]] /\ g = [i \in 1..far |-> g[i]]
  OBVIOUS
<1>5. QED
  BY <1>3, <1>4

LEMMA FollowChain ==
  ASSUME NEW a, NEW link, NEW w \in Seq(Addrs), Distinct(w),
         a = IF Len(w) = 0 THEN NULL ELSE w[1],
         link[NULL] = NULL,
         \A i \in 1..Len(w) : link[w[i]] = IF i = Len(w) THEN NULL ELSE w[i + 1]
  PROVE  Follow(a, link) = w
<1> DEFINE far == Cardinality(Addrs) + 1
           at  == CHOOSE at : at = [i \in 1..far |-> IF i = 1 THEN a ELSE link[at[i - 1]]]
           g   == [i \in 1..far |-> IF i <= Len(w) THEN w[i] ELSE NULL]
<1>1. Len(w) \in Nat /\ far \in Nat /\ Len(w) < far
  BY NodesOf, FS_CardinalityType, LinkedTableAssumption
<1>2. w = [i \in 1..Len(w) |-> w[i]] /\ \A i \in 1..Len(w) : w[i] # NULL
  BY LenProperties, LinkedTableAssumption
<1>3. Follow(a, link) = [i \in {j \in 1..far : at[j] # NULL} |-> at[i]]
  BY Zenon DEF Follow
<1> HIDE DEF far
<1>4. \A i \in 1..far : g[i] = IF i = 1 THEN a ELSE link[g[i - 1]]
  <2> SUFFICES ASSUME NEW i \in 1..far PROVE g[i] = IF i = 1 THEN a ELSE link[g[i - 1]]
    OBVIOUS
  <2>1. CASE i = 1
    BY <1>1, <2>1
  <2>2. CASE i # 1
    <3>1. i - 1 \in 1..far /\ g[i - 1] = IF i - 1 <= Len(w) THEN w[i - 1] ELSE NULL
      BY <1>1, <2>2
    <3>2. CASE i - 1 <= Len(w)
      <4>1. i - 1 \in 1..Len(w)
        BY <1>1, <3>1, <3>2
      <4>2. link[w[i - 1]] = IF i - 1 = Len(w) THEN NULL ELSE w[i - 1 + 1]
        BY <4>1
      <4>3. QED
        BY <1>1, <2>2, <3>1, <3>2, <4>2
    <3>3. CASE ~ (i - 1 <= Len(w))
      BY <1>1, <2>2, <3>1, <3>3
    <3>4. QED
      BY <3>2, <3>3
  <2>3. QED
    BY <2>1, <2>2
<1>5. Follows(g, far, a, link)
  BY <1>4 DEF Follows
<1>6. Follows(at, far, a, link)
  BY <1>5 DEF Follows
<1>7. at = g
  <2> HIDE DEF at, g
  <2>1. QED
    BY <1>1, <1>5, <1>6, OneWalk
<1>8. {j \in 1..far : at[j] # NULL} = 1..Len(w) /\ \A i \in 1..Len(w) : at[i] = w[i]
  <2> HIDE DEF at
  <2>1. \A j \in 1..far : at[j] = IF j <= Len(w) THEN w[j] ELSE NULL
    BY <1>7
  <2>2. QED
    BY <1>1, <1>2, <2>1
<1> HIDE DEF at, g
<1>9. QED
  BY <1>2, <1>3, <1>8

LEMMA ReverseOf ==
  ASSUME NEW w \in Seq(Addrs), Distinct(w)
  PROVE  /\ Reverse(w) \in Seq(Addrs) /\ Distinct(Reverse(w)) /\ Len(Reverse(w)) = Len(w)
         /\ \A i \in 1..Len(w) : Reverse(w)[i] = w[Len(w) - i + 1]
<1>1. Len(w) \in Nat
  BY LenProperties
<1>2. /\ Len(Reverse(w)) = Len(w) /\ Reverse(w) \in Seq(Addrs)
      /\ \A i \in 1..Len(w) : Reverse(w)[i] = w[Len(w) - i + 1]
  BY <1>1 DEF Reverse
<1>3. ASSUME NEW i \in 1..Len(w), NEW j \in 1..Len(w), Reverse(w)[i] = Reverse(w)[j]
      PROVE  i = j
  <2>1. Len(w) - i + 1 \in 1..Len(w) /\ Len(w) - j + 1 \in 1..Len(w)
    BY <1>1
  <2>2. Len(w) - i + 1 = Len(w) - j + 1
    BY <1>2, <1>3, <2>1 DEF Distinct
  <2>3. QED
    BY <1>1, <2>2
<1>4. QED
  BY <1>2, <1>3 DEF Distinct

\* Read forward from head a list gives its nodes, backward from tail too.
LEMMA WalkOf ==
  ASSUME NEW h \in Memory, NEW l, NEW w, NEW seq, Linked(h, l, w, seq)
  PROVE  Forward(h, l) = w /\ Backward(h, l) = Reverse(w)
<1> USE DEF Linked
<1>1. Len(w) \in Nat /\ \A i \in 1..Len(w) : w[i] \in Addrs /\ h[w[i]] # Freed
  BY NodeIsNode, ElementOfSeq, LenProperties
<1>2. ASSUME NEW i \in 1..Len(w)
      PROVE  /\ After(h)[w[i]] = IF i = Len(w) THEN NULL ELSE w[i + 1]
             /\ Before(h)[w[i]] = IF i = 1 THEN NULL ELSE w[i - 1]
  <2>1. w[i] \in Addrs /\ w[i] # NULL /\ w[i] \in Pointer /\ h[w[i]] # Freed
    BY <1>1, LinkedTableAssumption DEF Pointer
  <2>2. After(h)[w[i]] = h[w[i]].next /\ Before(h)[w[i]] = h[w[i]].prev
    BY <2>1 DEF After, Before
  <2>3. h[w[i]] = NodeAt(w, seq, i)
    OBVIOUS
  <2>4. QED
    BY <2>2, <2>3 DEF NodeAt
<1>3. After(h)[NULL] = NULL /\ Before(h)[NULL] = NULL
  BY DEF After, Before, Pointer
<1>4. Forward(h, l) = w
  <2>1. l.head = IF Len(w) = 0 THEN NULL ELSE w[1]
    OBVIOUS
  <2>2. w \in Seq(Addrs) /\ Distinct(w)
    OBVIOUS
  <2>3. \A i \in 1..Len(w) : After(h)[w[i]] = IF i = Len(w) THEN NULL ELSE w[i + 1]
    BY <1>2
  <2> HIDE DEF Linked
  <2>4. Follow(l.head, After(h)) = w
    BY <1>3, <2>1, <2>2, <2>3, FollowChain
  <2>5. QED
    BY <2>4 DEF Forward
<1>5. Backward(h, l) = Reverse(w)
  <2> DEFINE r == Reverse(w)
  <2>1. r \in Seq(Addrs) /\ Distinct(r) /\ Len(r) = Len(w)
        /\ \A i \in 1..Len(w) : r[i] = w[Len(w) - i + 1]
    BY ReverseOf
  <2> HIDE DEF r
  <2>2. l.tail = IF Len(r) = 0 THEN NULL ELSE r[1]
    <3>1. CASE Len(w) = 0
      BY <2>1, <3>1
    <3>2. CASE Len(w) # 0
      <4>1. r[1] = w[Len(w) - 1 + 1]
        BY <1>1, <2>1, <3>2
      <4>2. Len(w) - 1 + 1 = Len(w)
        BY <1>1
      <4>3. QED
        BY <2>1, <3>2, <4>1, <4>2
    <3>3. QED
      BY <3>1, <3>2
  <2>3. ASSUME NEW i \in 1..Len(r)
        PROVE  Before(h)[r[i]] = IF i = Len(r) THEN NULL ELSE r[i + 1]
    <3>1. Len(w) - i + 1 \in 1..Len(w) /\ r[i] = w[Len(w) - i + 1]
      BY <1>1, <2>1
    <3> DEFINE k == Len(w) - i + 1
    <3>2. Before(h)[r[i]] = IF k = 1 THEN NULL ELSE w[k - 1]
      <4> HIDE DEF k
      <4>1. k \in 1..Len(w) /\ r[i] = w[k]
        BY <3>1 DEF k
      <4>2. QED
        BY <1>2, <4>1
    <3>3. i # Len(w) => r[i + 1] = w[Len(w) - (i + 1) + 1]
      BY <1>1, <2>1
    <3>4. Len(w) - (i + 1) + 1 = Len(w) - i + 1 - 1 /\ (Len(w) - i + 1 = 1 <=> i = Len(w))
      BY <1>1, <2>1
    <3>5. QED
      BY <2>1, <3>2, <3>3, <3>4
  <2>4. Follow(l.tail, Before(h)) = r
    BY <1>3, <2>1, <2>2, <2>3, FollowChain
  <2>5. QED
    BY <2>4 DEF r, Backward
<1>6. QED
  BY <1>4, <1>5

-----------------------------------------------------------------------------
(***************************************************************************)
(* The operations of utils/list.c on a linked list                         *)
(***************************************************************************)
\* What is read of a list: its nodes are in use, its ends, and its length.
LEMMA LinkedParts ==
  ASSUME NEW h, NEW l, NEW w, NEW seq, Linked(h, l, w, seq)
  PROVE  /\ w \in Seq(Addrs) /\ seq \in Seq(Row) /\ Len(seq) = Len(w) /\ Len(w) \in Nat
         /\ Distinct(w)
         /\ \A i \in 1..Len(w) : /\ w[i] \in Addrs /\ w[i] # NULL
                                 /\ h[w[i]] = NodeAt(w, seq, i) /\ h[w[i]] \in Node
                                 /\ h[w[i]] # Freed
         /\ l.head = IF Len(w) = 0 THEN NULL ELSE w[1]
         /\ l.tail = IF Len(w) = 0 THEN NULL ELSE w[Len(w)]
         /\ l.len = Len(w)
<1> USE DEF Linked
<1>1. Len(w) \in Nat /\ \A i \in 1..Len(w) : w[i] \in Addrs
  BY LenProperties, ElementOfSeq
<1>2. \A i \in 1..Len(w) : h[w[i]] = NodeAt(w, seq, i)
  OBVIOUS
<1>3. \A i \in 1..Len(w) : NodeAt(w, seq, i) \in Node /\ NodeAt(w, seq, i) # Freed
  BY NodeIsNode
<1>4. \A i \in 1..Len(w) : w[i] # NULL
  BY <1>1, LinkedTableAssumption
<1>5. w \in Seq(Addrs) /\ seq \in Seq(Row) /\ Len(seq) = Len(w) /\ Distinct(w)
  OBVIOUS
<1>6. /\ l.head = IF Len(w) = 0 THEN NULL ELSE w[1]
      /\ l.tail = IF Len(w) = 0 THEN NULL ELSE w[Len(w)]
      /\ l.len = Len(w)
  OBVIOUS
<1> HIDE DEF Linked
<1>7. \A i \in 1..Len(w) : h[w[i]] \in Node /\ h[w[i]] # Freed
  BY <1>2, <1>3
<1>8. QED
  BY <1>1, <1>2, <1>4, <1>5, <1>6, <1>7

\* A row is appended at a free address.
LEMMA AddLinked ==
  ASSUME NEW h \in Memory, NEW l, NEW w, NEW seq, Linked(h, l, w, seq),
         NEW a \in Addrs, h[a] = Freed, NEW row \in Row
  PROVE  LET added == AddNodeTail(h, l, a, row.key)
         IN  /\ added.mem \in Memory
             /\ Linked(added.mem, added.list, Append(w, a), Append(seq, row))
             /\ Nodes(Append(w, a)) = Nodes(w) \cup {a}
             /\ \A x \in Addrs \ (Nodes(w) \cup {a}) : added.mem[x] = h[x]
<1> DEFINE added == AddNodeTail(h, l, a, row.key)
           n     == Len(w)
           w2    == Append(w, a)
           seq2  == Append(seq, row)
           fresh == [prev |-> IF n = 0 THEN NULL ELSE w[n], next |-> NULL, key |-> row.key]
           old   == [prev |-> h[w[n]].prev, next |-> a, key |-> h[w[n]].key]
<1>1. /\ w \in Seq(Addrs) /\ seq \in Seq(Row) /\ Len(seq) = n /\ n \in Nat
      /\ Distinct(w)
      /\ \A i \in 1..n : w[i] \in Addrs /\ h[w[i]] = NodeAt(w, seq, i) /\ h[w[i]] \in Node
      /\ \A i \in 1..n : h[w[i]] # Freed
  BY LinkedParts
<1>2. /\ l.head = IF n = 0 THEN NULL ELSE w[1]
      /\ l.tail = IF n = 0 THEN NULL ELSE w[n]
      /\ l.len = n
  BY LinkedParts
<1>3. \A i \in 1..n : w[i] # a
  BY <1>1
<1>4. /\ w2 \in Seq(Addrs) /\ Len(w2) = n + 1 /\ w2[n + 1] = a /\ \A i \in 1..n : w2[i] = w[i]
      /\ seq2 \in Seq(Row) /\ Len(seq2) = n + 1 /\ seq2[n + 1] = row
      /\ \A i \in 1..n : seq2[i] = seq[i]
  BY <1>1
<1>5. added.list = [head |-> IF n = 0 THEN a ELSE w[1], tail |-> a, len |-> n + 1]
  BY <1>2 DEF AddNodeTail
<1>6. added.mem = [x \in Addrs |-> IF x = a THEN fresh
                                   ELSE IF n # 0 /\ x = w[n] THEN old ELSE h[x]]
  <2>1. CASE n = 0
    <3>1. added.mem = [h EXCEPT ![a] = fresh]
      BY <1>2, <2>1 DEF AddNodeTail
    <3>2. QED
      BY <2>1, <3>1 DEF Memory
  <2>2. CASE n # 0
    <3>1. w[n] \in Addrs /\ w[n] # a /\ h[w[n]] \in Node
      BY <1>1, <1>3, <2>2
    <3>2. added.mem = [[h EXCEPT ![a] = fresh] EXCEPT ![w[n]].next = a]
      BY <1>2, <2>2 DEF AddNodeTail
    <3>3. [h[w[n]] EXCEPT !.next = a] = old
      BY <3>1 DEF Node
    <3>4. added.mem = [[h EXCEPT ![a] = fresh] EXCEPT ![w[n]] = old]
      BY <3>1, <3>2, <3>3 DEF Memory
    <3> HIDE DEF old, fresh
    <3>5. QED
      BY <2>2, <3>1, <3>4 DEF Memory
  <2>3. QED
    BY <2>1, <2>2
<1>7. fresh \in Node /\ (n # 0 => old \in Node)
  BY <1>1 DEF Node, Pointer, Row
<1> HIDE DEF added, old, fresh, w2, seq2
<1>8. added.mem \in Memory
  BY <1>6, <1>7 DEF Memory
<1>9. Distinct(w2)
  BY <1>1, <1>3, <1>4 DEF Distinct
<1>10. ASSUME NEW i \in 1..(n + 1) PROVE added.mem[w2[i]] = NodeAt(w2, seq2, i)
  <2>1. CASE i = n + 1
    <3>1. added.mem[w2[i]] = fresh
      BY <1>4, <1>6, <2>1
    <3>2. i = 1 <=> n = 0
      BY <1>1, <2>1
    <3>3. n # 0 => w2[i - 1] = w[n]
      BY <1>1, <1>4, <2>1
    <3>4. seq2[i].key = row.key
      BY <1>4, <2>1
    <3>5. QED
      BY <1>4, <2>1, <3>1, <3>2, <3>3, <3>4 DEF NodeAt, fresh
  <2>2. CASE i = n /\ n # 0
    <3>1. i \in 1..n /\ w2[i] = w[n] /\ w[n] # a /\ w[n] \in Addrs
      BY <1>1, <1>3, <1>4, <2>2
    <3>2. added.mem[w2[i]] = old
      BY <1>6, <2>2, <3>1
    <3>3. h[w[n]] = NodeAt(w, seq, n)
      BY <1>1, <2>2, <3>1
    <3>4. i # 1 => i - 1 \in 1..n
      BY <1>1, <3>1
    <3>5. i # n + 1 /\ w2[i + 1] = a
      BY <1>1, <1>4, <2>2
    <3>6. old = [prev |-> IF n = 1 THEN NULL ELSE w[n - 1], next |-> a, key |-> seq[n].key]
      BY <3>3 DEF old, NodeAt
    <3>7. i # 1 => w2[i - 1] = w[n - 1]
      BY <1>4, <2>2, <3>4
    <3>8. seq2[i] = seq[n]
      BY <1>4, <2>2, <3>1
    <3>9. QED
      BY <1>4, <2>2, <3>2, <3>5, <3>6, <3>7, <3>8 DEF NodeAt
  <2>3. CASE i < n
    <3>1. i \in 1..n /\ n \in 1..n /\ w2[i] = w[i] /\ w[i] # a /\ w[i] \in Addrs /\ i # n
      BY <1>1, <1>3, <1>4, <2>3
    <3>2. w[i] # w[n]
      BY <1>1, <3>1 DEF Distinct
    <3>3. added.mem[w2[i]] = h[w[i]]
      BY <1>6, <3>1, <3>2
    <3>4. h[w[i]] = NodeAt(w, seq, i)
      BY <1>1, <3>1
    <3>5. i # 1 => w2[i - 1] = w[i - 1]
      BY <1>1, <1>4, <3>1
    <3>6. i # n + 1 /\ w2[i + 1] = w[i + 1] /\ seq2[i] = seq[i]
      BY <1>1, <1>4, <2>3, <3>1
    <3>7. QED
      BY <1>4, <3>1, <3>3, <3>4, <3>5, <3>6 DEF NodeAt
  <2>4. QED
    BY <1>1, <2>1, <2>2, <2>3
<1>11. Linked(added.mem, added.list, w2, seq2)
  <2>1. Len(w2) # 0 /\ w2[Len(w2)] = a
    BY <1>1, <1>4
  <2>2. w2[1] = IF n = 0 THEN a ELSE w[1]
    BY <1>1, <1>4
  <2>3. added.list = [head |-> IF Len(w2) = 0 THEN NULL ELSE w2[1],
                      tail |-> IF Len(w2) = 0 THEN NULL ELSE w2[Len(w2)],
                      len  |-> Len(w2)]
    BY <1>4, <1>5, <2>1, <2>2
  <2>4. QED
    BY <1>4, <1>9, <1>10, <2>3 DEF Linked
<1>12. Nodes(w2) = Nodes(w) \cup {a}
  BY <1>1, <1>4 DEF Nodes
<1>13. ASSUME NEW x \in Addrs \ (Nodes(w) \cup {a}) PROVE added.mem[x] = h[x]
  <2>1. n # 0 => w[n] \in Nodes(w)
    BY <1>1 DEF Nodes
  <2>2. QED
    BY <1>6, <2>1
<1>14. QED
  BY <1>8, <1>11, <1>12, <1>13 DEF added, w2, seq2

\* The ith row is taken out, and its node freed.
LEMMA RemoveLinked ==
  ASSUME NEW h \in Memory, NEW l, NEW w, NEW seq, Linked(h, l, w, seq), NEW i \in 1..Len(w)
  PROVE  LET removed == RemoveNode(h, l, w[i])
         IN  /\ removed.mem \in Memory
             /\ Linked(removed.mem, removed.list, RemoveAt(w, i), RemoveAt(seq, i))
             /\ Nodes(RemoveAt(w, i)) = Nodes(w) \ {w[i]}
             /\ removed.mem[w[i]] = Freed
             /\ \A x \in Addrs \ Nodes(w) : removed.mem[x] = h[x]
<1> DEFINE removed == RemoveNode(h, l, w[i])
           n     == Len(w)
           w2    == RemoveAt(w, i)
           seq2  == RemoveAt(seq, i)
           p     == IF i = 1 THEN NULL ELSE w[i - 1]
           x     == IF i = n THEN NULL ELSE w[i + 1]
           left  == [prev |-> h[p].prev, next |-> x, key |-> h[p].key]
           right == [prev |-> p, next |-> h[x].next, key |-> h[x].key]
<1>1. /\ w \in Seq(Addrs) /\ seq \in Seq(Row) /\ Len(seq) = n /\ n \in Nat
      /\ Distinct(w)
      /\ \A j \in 1..n : w[j] \in Addrs /\ w[j] # NULL
      /\ \A j \in 1..n : h[w[j]] = NodeAt(w, seq, j) /\ h[w[j]] \in Node
  BY LinkedParts
<1>2. /\ l.head = IF n = 0 THEN NULL ELSE w[1]
      /\ l.tail = IF n = 0 THEN NULL ELSE w[n]
      /\ l.len = n
  BY LinkedParts
<1>3. h[w[i]].prev = p /\ h[w[i]].next = x
  <2>1. h[w[i]] = NodeAt(w, seq, i)
    BY <1>1
  <2>2. QED
    BY <2>1 DEF NodeAt
<1>4. /\ i # 1 => i - 1 \in 1..n /\ p = w[i - 1] /\ p \in Addrs /\ p # NULL /\ h[p] \in Node /\ p # w[i]
      /\ i = 1 => p = NULL
  <2>1. CASE i # 1
    <3>1. i - 1 \in 1..n /\ i - 1 # i
      BY <1>1, <2>1
    <3>2. w[i - 1] # w[i]
      BY <1>1, <3>1 DEF Distinct
    <3>3. QED
      BY <1>1, <2>1, <3>1, <3>2
  <2>2. QED
    BY <2>1
<1>5. /\ i # n => i + 1 \in 1..n /\ x = w[i + 1] /\ x \in Addrs /\ x # NULL /\ h[x] \in Node /\ x # w[i]
      /\ i = n => x = NULL
  <2>1. CASE i # n
    <3>1. i + 1 \in 1..n /\ i + 1 # i
      BY <1>1, <2>1
    <3>2. w[i + 1] # w[i]
      BY <1>1, <3>1 DEF Distinct
    <3>3. QED
      BY <1>1, <2>1, <3>1, <3>2
  <2>2. QED
    BY <2>1
<1>6. i # 1 /\ i # n => p # x
  <2>1. i # 1 /\ i # n => i - 1 \in 1..n /\ i + 1 \in 1..n /\ i - 1 # i + 1
    BY <1>1
  <2>2. QED
    BY <1>1, <1>4, <1>5, <2>1 DEF Distinct
<1> HIDE DEF p, x
<1>7. /\ removed.mem = LET h2 == IF p = NULL THEN h ELSE [h EXCEPT ![p].next = x]
                           h3 == IF x = NULL THEN h2 ELSE [h2 EXCEPT ![x].prev = p]
                       IN  [h3 EXCEPT ![w[i]] = Freed]
      /\ removed.list = [head |-> IF p = NULL THEN x ELSE l.head,
                         tail |-> IF x = NULL THEN p ELSE l.tail,
                         len  |-> l.len - 1]
  BY <1>3 DEF RemoveNode
<1> HIDE DEF removed
<1>8. removed.mem = [y \in Addrs |-> IF y = w[i] THEN Freed
                                     ELSE IF i # 1 /\ y = p THEN left
                                     ELSE IF i # n /\ y = x THEN right
                                     ELSE h[y]]
  <2> DEFINE h2 == [y \in Addrs |-> IF i # 1 /\ y = p THEN left ELSE h[y]]
             h3 == [y \in Addrs |-> IF i # n /\ y = x THEN right ELSE h2[y]]
  <2>1. h2 = IF p = NULL THEN h ELSE [h EXCEPT ![p].next = x]
    <3>1. CASE i = 1
      BY <1>4, <3>1 DEF Memory
    <3>2. CASE i # 1
      <4>1. [h[p] EXCEPT !.next = x] = left
        BY <1>4, <3>2 DEF Node
      <4>2. [h EXCEPT ![p].next = x] = [h EXCEPT ![p] = left]
        BY <1>4, <3>2, <4>1 DEF Memory
      <4> HIDE DEF left
      <4>3. QED
        BY <1>4, <3>2, <4>2 DEF Memory
    <3>3. QED
      BY <3>1, <3>2
  <2>2. i # n => h2[x] = h[x]
    BY <1>5, <1>6
  <2> HIDE DEF left
  <2>3. h3 = IF x = NULL THEN h2 ELSE [h2 EXCEPT ![x].prev = p]
    <3>1. CASE i = n
      BY <1>5, <3>1
    <3>2. CASE i # n
      <4>1. [h2[x] EXCEPT !.prev = p] = right
        <5>1. h2[x] = h[x] /\ h[x] \in Node
          BY <1>5, <2>2, <3>2
        <5> HIDE DEF h2
        <5>2. QED
          BY <5>1 DEF Node
      <4>2. [h2 EXCEPT ![x].prev = p] = [h2 EXCEPT ![x] = right]
        BY <1>5, <3>2, <4>1
      <4> HIDE DEF right
      <4>3. QED
        BY <1>5, <3>2, <4>2
    <3>3. QED
      BY <3>1, <3>2
  <2>4. removed.mem = [h3 EXCEPT ![w[i]] = Freed]
    BY <1>7, <2>1, <2>3
  <2> HIDE DEF right
  <2>5. ASSUME NEW y \in Addrs
        PROVE  h3[y] = IF i # n /\ y = x THEN right
                       ELSE IF i # 1 /\ y = p THEN left ELSE h[y]
    OBVIOUS
  <2>6. h3 = [y \in Addrs |-> h3[y]] /\ w[i] \in Addrs
    BY <1>1
  <2> HIDE DEF h3
  <2>7. removed.mem = [y \in Addrs |-> IF y = w[i] THEN Freed ELSE h3[y]]
    BY <2>4, <2>6
  <2>8. QED
    BY <1>6, <2>5, <2>7
<1>9. (i # 1 => left \in Node) /\ (i # n => right \in Node)
  <2>1. p \in Pointer /\ x \in Pointer
    BY <1>4, <1>5 DEF Pointer
  <2>2. QED
    BY <1>4, <1>5, <2>1 DEF Node
<1>10. /\ i # 1 => left = [prev |-> IF i - 1 = 1 THEN NULL ELSE w[i - 2], next |-> x,
                            key |-> seq[i - 1].key]
       /\ i # n => right = [prev |-> p, next |-> IF i + 1 = n THEN NULL ELSE w[i + 2],
                            key |-> seq[i + 1].key]
  <2>1. ASSUME i # 1
        PROVE  left = [prev |-> IF i - 1 = 1 THEN NULL ELSE w[i - 2], next |-> x,
                       key |-> seq[i - 1].key]
    <3>1. h[p] = NodeAt(w, seq, i - 1)
      BY <1>1, <1>4, <2>1
    <3>2. i - 1 - 1 = i - 2 /\ i - 1 # n
      BY <1>1
    <3>3. /\ h[p].prev = IF i - 1 = 1 THEN NULL ELSE w[i - 2]
          /\ h[p].key = seq[i - 1].key
      BY <3>1, <3>2 DEF NodeAt
    <3>4. QED
      BY <2>1, <3>3
  <2>2. ASSUME i # n
        PROVE  right = [prev |-> p, next |-> IF i + 1 = n THEN NULL ELSE w[i + 2],
                        key |-> seq[i + 1].key]
    <3>1. h[x] = NodeAt(w, seq, i + 1)
      BY <1>1, <1>5, <2>2
    <3>2. i + 1 + 1 = i + 2 /\ i + 1 # 1
      BY <1>1
    <3>3. /\ h[x].next = IF i + 1 = n THEN NULL ELSE w[i + 2]
          /\ h[x].key = seq[i + 1].key
      BY <3>1, <3>2 DEF NodeAt
    <3>4. QED
      BY <2>2, <3>3
  <2>3. QED
    BY <2>1, <2>2
<1> HIDE DEF left, right
<1>11. removed.mem \in Memory
  <2>1. \A y \in Addrs : h[y] \in Node \cup {Freed}
    BY DEF Memory
  <2>2. QED
    BY <1>8, <1>9, <2>1 DEF Memory
<1>12. /\ w2 \in Seq(Addrs) /\ Len(w2) = n - 1
       /\ \A j \in 1..(n - 1) : w2[j] = IF j < i THEN w[j] ELSE w[j + 1]
  <2>1. i \in DOMAIN w
    BY <1>1
  <2>2. QED
    BY <1>1, <2>1, RemoveAtRows
<1>13. /\ seq2 \in Seq(Row) /\ Len(seq2) = n - 1
       /\ \A j \in 1..(n - 1) : seq2[j] = IF j < i THEN seq[j] ELSE seq[j + 1]
  <2>1. i \in DOMAIN seq
    BY <1>1
  <2>2. QED
    BY <1>1, <2>1, RemoveAtRows
<1> HIDE DEF w2, seq2
<1>14. Distinct(w2)
  <2>1. SUFFICES ASSUME NEW j \in 1..(n - 1), NEW k \in 1..(n - 1), w2[j] = w2[k] PROVE j = k
    BY <1>12 DEF Distinct
  <2> DEFINE jj == IF j < i THEN j ELSE j + 1
             kk == IF k < i THEN k ELSE k + 1
  <2>2. jj \in 1..n /\ kk \in 1..n /\ w2[j] = w[jj] /\ w2[k] = w[kk]
    BY <1>1, <1>12
  <2>3. jj = kk
    BY <1>1, <2>1, <2>2 DEF Distinct
  <2>4. QED
    BY <1>1, <2>3
<1>15. ASSUME NEW j \in 1..(n - 1) PROVE removed.mem[w2[j]] = NodeAt(w2, seq2, j)
  <2>0. j \in 1..n /\ j + 1 \in 1..n
    BY <1>1
  <2>1. CASE j < i - 1
    <3>1. /\ j # i /\ j # i - 1 /\ j # i + 1 /\ j < i /\ j # n /\ j # n - 1 /\ j + 1 < i
          /\ j + 1 \in 1..(n - 1)
      BY <1>1, <2>1
    <3>2. w2[j] = w[j] /\ seq2[j] = seq[j] /\ w2[j + 1] = w[j + 1]
      BY <1>12, <1>13, <3>1
    <3>3. j # 1 => w2[j - 1] = w[j - 1]
      BY <1>1, <1>12, <2>1
    <3>4. w[j] # w[i] /\ (i # 1 => w[j] # p) /\ (i # n => w[j] # x) /\ w[j] \in Addrs
      BY <1>1, <1>4, <1>5, <2>0, <3>1 DEF Distinct
    <3>5. removed.mem[w2[j]] = NodeAt(w, seq, j)
      BY <1>1, <1>8, <2>0, <3>2, <3>4
    <3>6. QED
      BY <1>12, <3>1, <3>2, <3>3, <3>5 DEF NodeAt
  <2>2. CASE j = i - 1
    <3>1. /\ j < i /\ i # 1 /\ (j = n - 1 <=> i = n) /\ (i # n => j + 1 \in 1..(n - 1))
          /\ (i # n => i \in 1..(n - 1)) /\ j + 1 = i /\ ~ (i < i) /\ j - 1 = i - 2
      BY <1>1, <2>2
    <3>2. w2[j] = p /\ seq2[j] = seq[i - 1] /\ p # w[i] /\ p \in Addrs
      BY <1>4, <1>12, <1>13, <2>2, <3>1
    <3>3. removed.mem[w2[j]] = left
      BY <1>8, <3>1, <3>2
    <3>4. j # 1 => w2[j - 1] = w[i - 2]
      BY <1>1, <1>12, <2>2
    <3>5. i # n => w2[j + 1] = x
      BY <1>5, <1>12, <3>1
    <3>6. left = [prev |-> IF j = 1 THEN NULL ELSE w2[j - 1],
                  next |-> IF j = n - 1 THEN NULL ELSE w2[j + 1],
                  key  |-> seq2[j].key]
      BY <1>5, <1>10, <2>2, <3>1, <3>2, <3>4, <3>5
    <3>7. QED
      BY <1>12, <3>3, <3>6 DEF NodeAt
  <2>3. CASE j = i
    <3>1. /\ i # n /\ ~ (j < i) /\ (j = n - 1 <=> i + 1 = n)
          /\ (i # 1 => i - 1 \in 1..(n - 1) /\ i - 1 < i)
          /\ (i + 1 # n => i + 1 \in 1..(n - 1) /\ ~ (i + 1 < i) /\ i + 1 + 1 = i + 2)
      BY <1>1, <2>3
    <3>2. w2[j] = x /\ seq2[j] = seq[i + 1] /\ x # w[i] /\ x \in Addrs /\ (i # 1 => x # p)
      BY <1>5, <1>6, <1>12, <1>13, <2>3, <3>1
    <3>3. removed.mem[w2[j]] = right
      BY <1>8, <3>1, <3>2
    <3>4. i # 1 => w2[j - 1] = p
      BY <1>4, <1>12, <2>3, <3>1
    <3>5. i + 1 # n => w2[j + 1] = w[i + 2]
      BY <1>12, <2>3, <3>1
    <3>6. right = [prev |-> IF j = 1 THEN NULL ELSE w2[j - 1],
                   next |-> IF j = n - 1 THEN NULL ELSE w2[j + 1],
                   key  |-> seq2[j].key]
      BY <1>4, <1>10, <2>3, <3>1, <3>2, <3>4, <3>5
    <3>7. QED
      BY <1>12, <3>3, <3>6 DEF NodeAt
  <2>4. CASE j > i
    <3>1. /\ j + 1 # i /\ j + 1 # i - 1 /\ j + 1 # i + 1 /\ ~ (j < i) /\ j # 1 /\ j + 1 # 1
          /\ j - 1 \in 1..(n - 1) /\ ~ (j - 1 < i) /\ j - 1 + 1 = j /\ j + 1 - 1 = j
          /\ (j = n - 1 <=> j + 1 = n)
          /\ (j # n - 1 => j + 1 \in 1..(n - 1) /\ ~ (j + 1 < i))
      BY <1>1, <2>4
    <3>2. w2[j] = w[j + 1] /\ seq2[j] = seq[j + 1] /\ w2[j - 1] = w[j]
      BY <1>12, <1>13, <3>1
    <3>3. j # n - 1 => w2[j + 1] = w[j + 1 + 1]
      BY <1>12, <3>1
    <3>4. w[j + 1] # w[i] /\ (i # 1 => w[j + 1] # p) /\ (i # n => w[j + 1] # x) /\ w[j + 1] \in Addrs
      BY <1>1, <1>4, <1>5, <2>0, <3>1 DEF Distinct
    <3>5. removed.mem[w2[j]] = NodeAt(w, seq, j + 1)
      BY <1>1, <1>8, <2>0, <3>2, <3>4
    <3>6. NodeAt(w, seq, j + 1) = [prev |-> w2[j - 1],
                                   next |-> IF j = n - 1 THEN NULL ELSE w2[j + 1],
                                   key  |-> seq2[j].key]
      BY <3>1, <3>2, <3>3 DEF NodeAt
    <3>7. QED
      BY <1>12, <3>1, <3>5, <3>6 DEF NodeAt
  <2>5. QED
    BY <1>1, <2>1, <2>2, <2>3, <2>4
<1>16. removed.list = [head |-> IF Len(w2) = 0 THEN NULL ELSE w2[1],
                       tail |-> IF Len(w2) = 0 THEN NULL ELSE w2[Len(w2)],
                       len  |-> Len(w2)]
  <2>1. Len(w2) = 0 <=> n = 1
    BY <1>1, <1>12
  <2>2. (IF p = NULL THEN x ELSE l.head) = IF Len(w2) = 0 THEN NULL ELSE w2[1]
    <3>1. CASE i = 1
      <4>1. n # 1 => 1 \in 1..(n - 1) /\ ~ (1 < i)
        BY <1>1, <3>1
      <4>2. n # 1 => w2[1] = x
        BY <1>5, <1>12, <3>1, <4>1
      <4>3. QED
        BY <1>4, <1>5, <2>1, <3>1, <4>2
    <3>2. CASE i # 1
      <4>1. n # 0 /\ n # 1 /\ 1 \in 1..(n - 1) /\ 1 < i
        BY <1>1, <3>2
      <4>2. w2[1] = w[1]
        BY <1>12, <4>1
      <4>3. QED
        BY <1>2, <1>4, <2>1, <3>2, <4>1, <4>2
    <3>3. QED
      BY <3>1, <3>2
  <2>3. (IF x = NULL THEN p ELSE l.tail) = IF Len(w2) = 0 THEN NULL ELSE w2[Len(w2)]
    <3>1. CASE i = n
      <4>1. n # 1 => n - 1 \in 1..(n - 1) /\ n - 1 < i /\ i # 1
        BY <1>1, <3>1
      <4>2. n # 1 => w2[Len(w2)] = p
        BY <1>4, <1>12, <3>1, <4>1
      <4>3. QED
        BY <1>4, <1>5, <2>1, <3>1, <4>2
    <3>2. CASE i # n
      <4>1. n # 0 /\ n # 1 /\ n - 1 \in 1..(n - 1) /\ ~ (n - 1 < i) /\ n - 1 + 1 = n
        BY <1>1, <3>2
      <4>2. w2[Len(w2)] = w[n]
        BY <1>12, <4>1
      <4>3. QED
        BY <1>2, <1>5, <2>1, <3>2, <4>1, <4>2
    <3>3. QED
      BY <3>1, <3>2
  <2>4. QED
    BY <1>2, <1>7, <1>12, <2>2, <2>3
<1>17. Linked(removed.mem, removed.list, w2, seq2)
  BY <1>12, <1>13, <1>14, <1>15, <1>16 DEF Linked
<1>18. Nodes(w2) = Nodes(w) \ {w[i]}
  <2>1. ASSUME NEW j \in 1..(n - 1) PROVE w2[j] \in Nodes(w) \ {w[i]}
    <3> DEFINE jj == IF j < i THEN j ELSE j + 1
    <3>1. jj \in 1..n /\ jj # i /\ w2[j] = w[jj]
      BY <1>1, <1>12
    <3> HIDE DEF jj
    <3>2. w[jj] # w[i]
      BY <3>1, <1>1 DEF Distinct
    <3>3. QED
      BY <3>1, <3>2 DEF Nodes
  <2>2. ASSUME NEW k \in 1..n, w[k] # w[i] PROVE w[k] \in Nodes(w2)
    <3> DEFINE j == IF k < i THEN k ELSE k - 1
    <3>1. k # i
      BY <2>2
    <3>2. j \in 1..(n - 1) /\ w2[j] = w[k]
      BY <1>1, <1>12, <3>1
    <3> HIDE DEF j
    <3>3. QED
      BY <1>12, <3>2 DEF Nodes
  <2>3. QED
    BY <1>12, <2>1, <2>2 DEF Nodes
<1>19. removed.mem[w[i]] = Freed
  BY <1>1, <1>8
<1>20. ASSUME NEW y \in Addrs \ Nodes(w) PROVE removed.mem[y] = h[y]
  <2>1. w[i] \in Nodes(w) /\ (i # 1 => p \in Nodes(w)) /\ (i # n => x \in Nodes(w))
    BY <1>4, <1>5 DEF Nodes
  <2>2. QED
    BY <1>8, <2>1
<1>21. QED
  BY <1>11, <1>17, <1>18, <1>19, <1>20 DEF removed, w2, seq2

\* listSearchKey finds the node of the first row of the key.
LEMMA SearchFinds ==
  ASSUME NEW h \in Memory, NEW l, NEW w, NEW seq, Linked(h, l, w, seq),
         NEW k, NEW i \in 1..Len(w), IsFirst(seq, k, i)
  PROVE  SearchKey(h, l, k) = w[i]
<1> DEFINE hits == {j \in 1..Len(w) : h[w[j]].key = k}
<1>1. w \in Seq(Addrs) /\ Len(w) \in Nat /\ DOMAIN w = 1..Len(w)
  BY LinkedParts
<1>2. ASSUME NEW j \in 1..Len(w) PROVE h[w[j]].key = seq[j].key
  <2>1. h[w[j]] = NodeAt(w, seq, j)
    BY LinkedParts
  <2>2. QED
    BY <2>1 DEF NodeAt
<1>3. Forward(h, l) = w
  BY WalkOf
<1>4. SearchKey(h, l, k) = IF hits = {} THEN NULL ELSE w[Min(hits)]
  BY <1>1, <1>3 DEF SearchKey
<1>5. i \in hits
  BY <1>2 DEF IsFirst
<1>6. ASSUME NEW j \in hits PROVE i <= j
  <2>1. j \in 1..Len(w) /\ seq[j].key = k
    BY <1>2
  <2>2. ~ (j \in 1..(i - 1))
    BY <2>1 DEF IsFirst
  <2>3. QED
    BY <1>1, <2>1, <2>2
<1> HIDE DEF hits
<1>7. hits \subseteq Int
  BY DEF hits
<1>8. \A j \in hits : (\A y \in hits : j <= y) => j = i
  BY <1>5, <1>6, <1>7
<1>9. Min(hits) = i
  BY <1>5, <1>6, <1>8 DEF Min
<1>10. QED
  BY <1>4, <1>5, <1>9

\* While less than all the memory is in use, malloc finds a free address.
LEMMA MallocFinds ==
  ASSUME NEW h \in Memory, Cardinality(Used(h)) < Cardinality(Addrs)
  PROVE  Malloc(h) \in Addrs /\ h[Malloc(h)] = Freed
<1>1. \E a \in Addrs : h[a] = Freed
  <2>1. SUFFICES ASSUME \A a \in Addrs : h[a] # Freed PROVE FALSE
    OBVIOUS
  <2>2. Used(h) = Addrs
    BY <2>1 DEF Used
  <2>3. Cardinality(Addrs) \in Nat
    BY FS_CardinalityType, LinkedTableAssumption
  <2>4. QED
    BY <2>2, <2>3
<1>2. QED
  BY <1>1 DEF Malloc

\* The list without a row.
LEMMA LinkedEmpty ==
  ASSUME NEW h PROVE Linked(h, Create, << >>, << >>) /\ Nodes(<< >>) = {}
BY DEF Linked, Create, Nodes, Distinct

\* listEmpty frees the nodes of the list and no other.
LEMMA EmptyLinked ==
  ASSUME NEW h \in Memory, NEW l, NEW w, NEW seq, Linked(h, l, w, seq)
  PROVE  /\ Empty(h, l).mem \in Memory
         /\ Empty(h, l).list = Create
         /\ \A x \in Addrs : Empty(h, l).mem[x] = IF x \in Nodes(w) THEN Freed ELSE h[x]
<1>1. Forward(h, l) = w /\ l.len = Len(w) /\ w \in Seq(Addrs)
  BY WalkOf, LinkedParts
<1>2. SubSeq(Forward(h, l), 1, l.len) = w
  BY <1>1, SubSeqFull
<1>3. Range(w) = Nodes(w)
  BY <1>1 DEF Range, Nodes
<1>4. Empty(h, l) = [mem  |-> [a \in Addrs |-> IF a \in Nodes(w) THEN Freed ELSE h[a]],
                     list |-> Create]
  BY <1>2, <1>3 DEF Empty
<1>5. QED
  BY <1>4 DEF Memory

\* listJoin appends the nodes of one list to another.
LEMMA JoinLinked ==
  ASSUME NEW h \in Memory, NEW l, NEW w, NEW seq, Linked(h, l, w, seq),
         NEW o, NEW v, NEW seqo, Linked(h, o, v, seqo), Nodes(w) \cap Nodes(v) = {}
  PROVE  LET joined == Join(h, l, o)
         IN  /\ joined.mem \in Memory
             /\ Linked(joined.mem, joined.list, w \o v, seq \o seqo)
             /\ Nodes(w \o v) = Nodes(w) \cup Nodes(v)
             /\ joined.rest = Create
             /\ \A x \in Addrs \ (Nodes(w) \cup Nodes(v)) : joined.mem[x] = h[x]
<1> DEFINE joined == Join(h, l, o)
           n     == Len(w)
           m     == Len(v)
           u     == w \o v
           both  == seq \o seqo
           right == [prev |-> IF n = 0 THEN NULL ELSE w[n], next |-> h[v[1]].next,
                     key |-> h[v[1]].key]
<1>1. /\ w \in Seq(Addrs) /\ seq \in Seq(Row) /\ Len(seq) = n /\ n \in Nat /\ Distinct(w)
      /\ \A i \in 1..n : w[i] \in Addrs /\ w[i] # NULL
      /\ \A i \in 1..n : h[w[i]] = NodeAt(w, seq, i) /\ h[w[i]] \in Node
      /\ l.head = IF n = 0 THEN NULL ELSE w[1]
      /\ l.tail = IF n = 0 THEN NULL ELSE w[n]
      /\ l.len = n
  BY LinkedParts
<1>2. /\ v \in Seq(Addrs) /\ seqo \in Seq(Row) /\ Len(seqo) = m /\ m \in Nat /\ Distinct(v)
      /\ \A i \in 1..m : v[i] \in Addrs /\ v[i] # NULL
      /\ \A i \in 1..m : h[v[i]] = NodeAt(v, seqo, i) /\ h[v[i]] \in Node
      /\ o.head = IF m = 0 THEN NULL ELSE v[1]
      /\ o.tail = IF m = 0 THEN NULL ELSE v[m]
      /\ o.len = m
  BY LinkedParts
<1>3. \A i \in 1..n, j \in 1..m : w[i] # v[j]
  BY DEF Nodes
<1>4. /\ u \in Seq(Addrs) /\ Len(u) = n + m
      /\ \A i \in 1..(n + m) : u[i] = IF i <= n THEN w[i] ELSE v[i - n]
  BY <1>1, <1>2, ConcatProperties
<1>5. /\ both \in Seq(Row) /\ Len(both) = n + m
      /\ \A i \in 1..(n + m) : both[i] = IF i <= n THEN seq[i] ELSE seqo[i - n]
  <2>0. seq \in Seq(Row) /\ seqo \in Seq(Row)
    BY <1>1, <1>2
  <2>1. /\ both \in Seq(Row) /\ Len(both) = Len(seq) + Len(seqo)
        /\ \A i \in 1..(Len(seq) + Len(seqo)) :
              both[i] = IF i <= Len(seq) THEN seq[i] ELSE seqo[i - Len(seq)]
    BY <2>0, ConcatProperties
  <2>2. Len(seq) = n /\ Len(seqo) = m
    BY <1>1, <1>2
  <2> HIDE DEF both, n, m
  <2>3. QED
    BY <2>1, <2>2
<1>6. (n # 0 => n \in 1..n) /\ (m # 0 => 1 \in 1..m)
  BY <1>1, <1>2
<1>7. n # 0 /\ m # 0 => w[n] # v[1]
  BY <1>3, <1>6
<1>8. /\ joined.mem = LET h2 == IF o.head = NULL THEN h ELSE [h EXCEPT ![o.head].prev = l.tail]
                      IN  IF l.tail = NULL THEN h2 ELSE [h2 EXCEPT ![l.tail].next = o.head]
      /\ joined.list = [head |-> IF l.tail = NULL THEN o.head ELSE l.head,
                        tail |-> IF o.tail = NULL THEN l.tail ELSE o.tail,
                        len  |-> l.len + o.len]
      /\ joined.rest = Create
  BY DEF Join
<1> HIDE DEF joined, u, both
<1>9. joined.mem = [x \in Addrs |-> IF n # 0 /\ x = w[n] THEN
                                         [prev |-> h[x].prev, next |-> o.head, key |-> h[x].key]
                                    ELSE IF m # 0 /\ x = v[1] THEN right
                                    ELSE h[x]]
  <2> DEFINE h2 == [x \in Addrs |-> IF m # 0 /\ x = v[1] THEN right ELSE h[x]]
             h3 == [x \in Addrs |-> IF n # 0 /\ x = w[n] THEN
                                         [prev |-> h[x].prev, next |-> o.head, key |-> h[x].key]
                                    ELSE h2[x]]
  <2>1. h2 = IF o.head = NULL THEN h ELSE [h EXCEPT ![o.head].prev = l.tail]
    <3>1. CASE m = 0
      BY <1>2, <3>1 DEF Memory
    <3>2. CASE m # 0
      <4>1. o.head = v[1] /\ v[1] \in Addrs /\ v[1] # NULL /\ h[v[1]] \in Node
        BY <1>2, <1>6, <3>2
      <4>2. [h[v[1]] EXCEPT !.prev = l.tail] = right
        BY <1>1, <4>1 DEF Node
      <4>3. [h EXCEPT ![o.head].prev = l.tail] = [h EXCEPT ![v[1]] = right]
        BY <4>1, <4>2 DEF Memory
      <4> HIDE DEF right
      <4>4. QED
        BY <3>2, <4>1, <4>3 DEF Memory
    <3>3. QED
      BY <3>1, <3>2
  <2>2. n # 0 => h2[w[n]] = h[w[n]]
    BY <1>1, <1>6, <1>7
  <2> HIDE DEF right
  <2>3. h3 = IF l.tail = NULL THEN h2 ELSE [h2 EXCEPT ![l.tail].next = o.head]
    <3>1. CASE n = 0
      BY <1>1, <3>1
    <3>2. CASE n # 0
      <4>1. l.tail = w[n] /\ w[n] \in Addrs /\ w[n] # NULL /\ h2[w[n]] = h[w[n]] /\ h[w[n]] \in Node
        BY <1>1, <1>6, <2>2, <3>2
      <4>2. [h2[w[n]] EXCEPT !.next = o.head]
              = [prev |-> h[w[n]].prev, next |-> o.head, key |-> h[w[n]].key]
        <5> HIDE DEF h2
        <5>1. QED
          BY <4>1 DEF Node
      <4>3. [h2 EXCEPT ![l.tail].next = o.head]
              = [h2 EXCEPT ![w[n]] = [prev |-> h[w[n]].prev, next |-> o.head, key |-> h[w[n]].key]]
        BY <4>1, <4>2
      <4>4. QED
        BY <3>2, <4>1, <4>3
    <3>3. QED
      BY <3>1, <3>2
  <2>4. joined.mem = h3
    BY <1>8, <2>1, <2>3
  <2>5. QED
    BY <2>4
<1>10. m # 0 => right = [prev |-> IF n = 0 THEN NULL ELSE w[n],
                         next |-> IF m = 1 THEN NULL ELSE v[2], key |-> seqo[1].key]
  <2>1. SUFFICES ASSUME m # 0 PROVE h[v[1]].next = (IF m = 1 THEN NULL ELSE v[2]) /\ h[v[1]].key = seqo[1].key
    OBVIOUS
  <2>2. h[v[1]] = NodeAt(v, seqo, 1)
    BY <1>2, <1>6, <2>1
  <2>3. QED
    BY <2>2 DEF NodeAt
<1>11. joined.mem \in Memory
  <2>1. \A x \in Addrs : h[x] \in Node \cup {Freed}
    BY DEF Memory
  <2>2. m # 0 => right \in Node
    BY <1>1, <1>2, <1>6 DEF Node, Pointer
  <2>3. n # 0 => [prev |-> h[w[n]].prev, next |-> o.head, key |-> h[w[n]].key] \in Node
    BY <1>1, <1>2, <1>6 DEF Node, Pointer
  <2> HIDE DEF right
  <2>4. QED
    BY <1>9, <2>1, <2>2, <2>3 DEF Memory
<1> HIDE DEF right
<1>12. Distinct(u)
  <2>1. SUFFICES ASSUME NEW i \in 1..(n + m), NEW j \in 1..(n + m), u[i] = u[j] PROVE i = j
    BY <1>4 DEF Distinct
  <2>2. CASE i <= n /\ j <= n
    BY <1>1, <1>4, <2>1, <2>2 DEF Distinct
  <2>3. CASE i <= n /\ ~ (j <= n)
    <3>1. i \in 1..n /\ j - n \in 1..m
      BY <1>1, <1>2, <2>3
    <3>2. QED
      BY <1>3, <1>4, <2>1, <2>3, <3>1
  <2>4. CASE ~ (i <= n) /\ j <= n
    <3>1. j \in 1..n /\ i - n \in 1..m
      BY <1>1, <1>2, <2>4
    <3>2. QED
      BY <1>3, <1>4, <2>1, <2>4, <3>1
  <2>5. CASE ~ (i <= n) /\ ~ (j <= n)
    <3>1. i - n \in 1..m /\ j - n \in 1..m
      BY <1>1, <1>2, <2>5
    <3>2. v[i - n] = v[j - n]
      BY <1>4, <2>1, <2>5
    <3>3. i - n = j - n
      BY <1>2, <3>1, <3>2 DEF Distinct
    <3>4. QED
      BY <1>1, <3>3
  <2>6. QED
    BY <2>2, <2>3, <2>4, <2>5
<1>13. ASSUME NEW i \in 1..(n + m) PROVE joined.mem[u[i]] = NodeAt(u, both, i)
  <2>1. CASE i < n
    <3>1. /\ i \in 1..n /\ n \in 1..n /\ i <= n /\ i # n /\ i + 1 <= n /\ i # n + m
          /\ i + 1 \in 1..(n + m) /\ n # 0
      BY <1>1, <1>2, <2>1
    <3>2. u[i] = w[i] /\ both[i] = seq[i] /\ u[i + 1] = w[i + 1]
      BY <1>4, <1>5, <3>1
    <3>3. i # 1 => u[i - 1] = w[i - 1]
      BY <1>1, <1>2, <1>4, <2>1
    <3>4. w[i] # w[n] /\ (m # 0 => w[i] # v[1]) /\ w[i] \in Addrs
      BY <1>1, <1>3, <1>6, <3>1 DEF Distinct
    <3>5. joined.mem[u[i]] = NodeAt(w, seq, i)
      BY <1>1, <1>9, <3>1, <3>2, <3>4
    <3>6. QED
      BY <1>4, <3>1, <3>2, <3>3, <3>5 DEF NodeAt
  <2>2. CASE i = n
    <3>1. /\ n # 0 /\ n \in 1..n /\ (n = n + m <=> m = 0) /\ n <= n
          /\ (m # 0 => n + 1 \in 1..(n + m) /\ ~ (n + 1 <= n) /\ n + 1 - n = 1)
      BY <1>1, <1>2, <2>2
    <3>2. u[i] = w[n] /\ both[i] = seq[n] /\ (m # 0 => u[i + 1] = v[1])
      BY <1>4, <1>5, <2>2, <3>1
    <3>3. i # 1 => u[i - 1] = w[n - 1]
      <4>1. i # 1 => i - 1 \in 1..(n + m) /\ i - 1 <= n /\ i - 1 = n - 1
        BY <1>1, <1>2, <2>2
      <4>2. QED
        BY <1>4, <4>1
    <3>4. joined.mem[u[i]] = [prev |-> h[w[n]].prev, next |-> o.head, key |-> h[w[n]].key]
      BY <1>1, <1>9, <3>1, <3>2
    <3>5. h[w[n]] = NodeAt(w, seq, n)
      BY <1>1, <3>1
    <3>6. /\ h[w[n]].prev = IF i = 1 THEN NULL ELSE u[i - 1]
          /\ h[w[n]].key = both[i].key
      BY <2>2, <3>2, <3>3, <3>5 DEF NodeAt
    <3>7. o.head = IF i = n + m THEN NULL ELSE u[i + 1]
      BY <1>2, <2>2, <3>1, <3>2
    <3>8. QED
      BY <1>4, <3>4, <3>6, <3>7 DEF NodeAt
  <2>3. CASE i = n + 1
    <3>1. /\ m # 0 /\ ~ (i <= n) /\ i - n = 1 /\ (i = 1 <=> n = 0) /\ (i = n + m <=> m = 1)
          /\ (n # 0 => n \in 1..(n + m) /\ n <= n)
          /\ (m # 1 => i + 1 \in 1..(n + m) /\ ~ (i + 1 <= n) /\ i + 1 - n = 2)
          /\ i - 1 = n
      BY <1>1, <1>2, <2>3
    <3>2. u[i] = v[1] /\ both[i] = seqo[1]
      BY <1>4, <1>5, <3>1
    <3>3. (n # 0 => u[i - 1] = w[n]) /\ (m # 1 => u[i + 1] = v[2])
      <4>1. n # 0 => u[n] = w[n]
        BY <1>4, <3>1
      <4>2. m # 1 => u[i + 1] = v[2]
        BY <1>4, <3>1
      <4>3. QED
        BY <3>1, <4>1, <4>2
    <3>4. v[1] \in Addrs /\ (n # 0 => v[1] # w[n])
      BY <1>2, <1>6, <1>7, <3>1
    <3>5. joined.mem[u[i]] = right
      BY <1>9, <3>1, <3>2, <3>4
    <3>6. right = [prev |-> IF i = 1 THEN NULL ELSE u[i - 1],
                   next |-> IF i = n + m THEN NULL ELSE u[i + 1], key |-> both[i].key]
      BY <1>10, <3>1, <3>2, <3>3
    <3>7. QED
      BY <1>4, <3>5, <3>6 DEF NodeAt
  <2>4. CASE i > n + 1
    <3> DEFINE j == i - n
    <3>1. /\ j \in 1..m /\ ~ (i <= n) /\ m # 0 /\ j # 1 /\ i # 1 /\ 1 \in 1..m
          /\ i - 1 \in 1..(n + m) /\ ~ (i - 1 <= n) /\ i - 1 - n = j - 1
          /\ (i = n + m <=> j = m)
          /\ (i # n + m => i + 1 \in 1..(n + m) /\ ~ (i + 1 <= n) /\ i + 1 - n = j + 1)
      <4>1. n \in Nat /\ m \in Nat /\ i \in 1..(n + m) /\ i > n + 1
        BY <1>1, <1>2, <2>4
      <4> HIDE DEF n, m
      <4>2. j \in 1..m /\ ~ (i <= n) /\ m # 0 /\ j # 1 /\ i # 1 /\ 1 \in 1..m
        BY <4>1
      <4>3. i - 1 \in 1..(n + m) /\ ~ (i - 1 <= n) /\ i - 1 - n = j - 1
        BY <4>1
      <4>4. i = n + m <=> j = m
        BY <4>1
      <4>5. i # n + m => i + 1 \in 1..(n + m) /\ ~ (i + 1 <= n) /\ i + 1 - n = j + 1
        BY <4>1
      <4> HIDE DEF j
      <4>6. QED
        BY <4>2, <4>3, <4>4, <4>5
    <3>2. u[i] = v[j] /\ both[i] = seqo[j] /\ u[i - 1] = v[j - 1]
      BY <1>4, <1>5, <3>1
    <3>3. i # n + m => u[i + 1] = v[j + 1]
      BY <1>4, <3>1
    <3> HIDE DEF j
    <3>4. v[j] # v[1] /\ (n # 0 => v[j] # w[n]) /\ v[j] \in Addrs
      BY <1>2, <1>3, <1>6, <3>1 DEF Distinct
    <3>5. joined.mem[u[i]] = NodeAt(v, seqo, j)
      BY <1>2, <1>9, <3>1, <3>2, <3>4
    <3>6. QED
      BY <1>4, <3>1, <3>2, <3>3, <3>5 DEF NodeAt
  <2>5. QED
    BY <1>1, <1>2, <2>1, <2>2, <2>3, <2>4
<1>14. joined.list = [head |-> IF Len(u) = 0 THEN NULL ELSE u[1],
                      tail |-> IF Len(u) = 0 THEN NULL ELSE u[Len(u)],
                      len  |-> Len(u)]
  <2>1. Len(u) = 0 <=> n = 0 /\ m = 0
    BY <1>1, <1>2, <1>4
  <2>2. (IF l.tail = NULL THEN o.head ELSE l.head) = IF Len(u) = 0 THEN NULL ELSE u[1]
    <3>1. CASE n = 0
      <4>1. m # 0 => 1 \in 1..(n + m) /\ ~ (1 <= n) /\ 1 - n = 1
        BY <1>2, <3>1
      <4>2. m # 0 => u[1] = v[1]
        BY <1>4, <4>1
      <4>3. QED
        BY <1>1, <1>2, <2>1, <3>1, <4>2
    <3>2. CASE n # 0
      <4>1. 1 \in 1..(n + m) /\ 1 <= n
        BY <1>1, <1>2, <3>2
      <4>2. u[1] = w[1]
        BY <1>4, <4>1
      <4>3. QED
        BY <1>1, <1>6, <2>1, <3>2, <4>2
    <3>3. QED
      BY <3>1, <3>2
  <2>3. (IF o.tail = NULL THEN l.tail ELSE o.tail) = IF Len(u) = 0 THEN NULL ELSE u[Len(u)]
    <3>1. CASE m = 0
      <4>1. n # 0 => n + m \in 1..(n + m) /\ n + m <= n /\ n + m = n
        BY <1>1, <3>1
      <4>2. n # 0 => u[Len(u)] = w[n]
        BY <1>4, <4>1
      <4>3. QED
        BY <1>1, <1>2, <2>1, <3>1, <4>2
    <3>2. CASE m # 0
      <4>1. n + m \in 1..(n + m) /\ ~ (n + m <= n) /\ n + m - n = m /\ m \in 1..m
        BY <1>1, <1>2, <3>2
      <4>2. u[Len(u)] = v[m]
        BY <1>4, <4>1
      <4>3. QED
        BY <1>2, <2>1, <3>2, <4>1, <4>2
    <3>3. QED
      BY <3>1, <3>2
  <2>4. l.len + o.len = Len(u)
    BY <1>1, <1>2, <1>4
  <2>5. QED
    BY <1>8, <2>2, <2>3, <2>4
<1>15. Linked(joined.mem, joined.list, u, both)
  BY <1>4, <1>5, <1>12, <1>13, <1>14 DEF Linked
<1>16. Nodes(u) = Nodes(w) \cup Nodes(v)
  <2>1. ASSUME NEW i \in 1..(n + m) PROVE u[i] \in Nodes(w) \cup Nodes(v)
    <3>1. (i <= n => i \in 1..n) /\ (~ (i <= n) => i - n \in 1..m)
      BY <1>1, <1>2
    <3>2. QED
      BY <1>4, <3>1 DEF Nodes
  <2>2. ASSUME NEW i \in 1..n PROVE w[i] \in Nodes(u)
    <3>1. i \in 1..(n + m) /\ i <= n
      BY <1>1, <1>2
    <3>2. QED
      BY <1>4, <3>1 DEF Nodes
  <2>3. ASSUME NEW j \in 1..m PROVE v[j] \in Nodes(u)
    <3> DEFINE i == n + j
    <3>1. i \in 1..(n + m) /\ ~ (i <= n) /\ i - n = j
      BY <1>1, <1>2
    <3> HIDE DEF i
    <3>2. QED
      BY <1>4, <3>1 DEF Nodes
  <2>4. QED
    BY <1>4, <2>1, <2>2, <2>3 DEF Nodes
<1>17. ASSUME NEW x \in Addrs \ (Nodes(w) \cup Nodes(v)) PROVE joined.mem[x] = h[x]
  <2>1. (n # 0 => w[n] \in Nodes(w)) /\ (m # 0 => v[1] \in Nodes(v))
    BY <1>6 DEF Nodes
  <2>2. QED
    BY <1>9, <2>1
<1>18. joined.rest = Create
  BY <1>8
<1>19. QED
  BY <1>11, <1>15, <1>16, <1>17, <1>18 DEF joined, u, both

\* What is in use when a list of nodes w has been changed into one of nodes v.
LEMMA UsedAfter ==
  ASSUME NEW h \in Memory, NEW h2 \in Memory, NEW w, NEW v, NEW l, NEW seq,
         Linked(h2, l, v, seq),
         \A x \in Nodes(w) \ Nodes(v) : h2[x] = Freed,
         \A x \in Addrs \ (Nodes(w) \cup Nodes(v)) : h2[x] = h[x]
  PROVE  Used(h2) = (Used(h) \ Nodes(w)) \cup Nodes(v)
<1>1. Nodes(v) \subseteq Used(h2)
  BY LinkedUsed
<1>2. QED
  BY <1>1 DEF Used

-----------------------------------------------------------------------------
(***************************************************************************)
(* Load                                                                    *)
(***************************************************************************)
Blank          == [mem |-> [a \in Addrs |-> Freed], list |-> Create]
Loaded(m, row) == AddNodeTail(m.mem, m.list, Malloc(m.mem), row.key)

\* f is what Load has after each row from none to the nth.
Loads(f, n, seq) == f = [i \in 0..n |-> IF i = 0 THEN Blank ELSE Loaded(f[i - 1], seq[i])]

\* The recursion of Load has a solution: that of the first rows is extended to
\* one row more.
LEMMA LoadsExists == ASSUME NEW n \in Nat, NEW seq PROVE \E f : Loads(f, n, seq)
<1> DEFINE S == {i \in 0..n : \E f : Loads(f, i, seq)}
<1>1. 0 \in S
  <2>1. Loads([i \in 0..0 |-> Blank], 0, seq)
    BY DEF Loads
  <2>2. QED
    BY <2>1
<1>2. ASSUME NEW i \in 0..n, i # 0, i - 1 \in S PROVE i \in S
  <2>1. PICK f : Loads(f, i - 1, seq)
    BY <1>2
  <2> DEFINE g == [j \in 0..i |-> IF j = i THEN Loaded(f[i - 1], seq[i]) ELSE f[j]]
  <2>2. f = [j \in 0..(i - 1) |-> IF j = 0 THEN Blank ELSE Loaded(f[j - 1], seq[j])]
    BY <2>1 DEF Loads
  <2>3. ASSUME NEW j \in 0..i PROVE g[j] = IF j = 0 THEN Blank ELSE Loaded(g[j - 1], seq[j])
    <3>1. CASE j = i
      <4>1. j # 0 /\ j - 1 \in 0..i /\ j - 1 # i
        BY <1>2, <3>1
      <4>2. g[j - 1] = f[i - 1]
        BY <3>1, <4>1
      <4>3. g[j] = Loaded(f[i - 1], seq[i])
        BY <3>1
      <4> HIDE DEF g
      <4>4. QED
        BY <3>1, <4>1, <4>2, <4>3
    <3>2. CASE j # i
      <4>1. j \in 0..(i - 1)
        BY <1>2, <3>2
      <4>2. f[j] = IF j = 0 THEN Blank ELSE Loaded(f[j - 1], seq[j])
        BY <2>2, <4>1
      <4>3. g[j] = f[j]
        BY <3>2
      <4>4. j # 0 => j - 1 \in 0..i /\ j - 1 # i
        BY <4>1
      <4>5. j # 0 => g[j - 1] = f[j - 1]
        BY <4>4
      <4> HIDE DEF g
      <4>6. QED
        BY <4>2, <4>3, <4>5
    <3>3. QED
      BY <3>1, <3>2
  <2>4. g = [j \in 0..i |-> g[j]]
    OBVIOUS
  <2> HIDE DEF g
  <2>5. g = [j \in 0..i |-> IF j = 0 THEN Blank ELSE Loaded(g[j - 1], seq[j])]
    BY <2>3, <2>4
  <2>6. Loads(g, i, seq)
    BY <2>5 DEF Loads
  <2>7. QED
    BY <2>6
<1>3. \A i \in 0..n : (i = 0 \/ i - 1 \in S) => i \in S
  BY <1>1, <1>2
<1> HIDE DEF S
<1>4. 0..n \subseteq S
  BY <1>3, Counted
<1>5. QED
  BY <1>4 DEF S

\* The rows of seq lie in memory, and nothing else.
Filled(m, seq) == \E w : /\ m.mem \in Memory
                         /\ Linked(m.mem, m.list, w, seq)
                         /\ Used(m.mem) = Nodes(w)

\* One row more is loaded while there is memory.
LEMMA LoadedRow ==
  ASSUME NEW m, NEW seq, Filled(m, seq), NEW row \in Row, Len(seq) < Cardinality(Addrs)
  PROVE  Filled(Loaded(m, row), Append(seq, row))
<1>1. PICK w : m.mem \in Memory /\ Linked(m.mem, m.list, w, seq) /\ Used(m.mem) = Nodes(w)
  BY DEF Filled
<1>2. w \in Seq(Addrs) /\ Distinct(w) /\ Len(w) = Len(seq)
  BY <1>1, LinkedParts
<1>3. Cardinality(Used(m.mem)) < Cardinality(Addrs)
  BY <1>1, <1>2, NodesOf
<1>4. Malloc(m.mem) \in Addrs /\ m.mem[Malloc(m.mem)] = Freed
  BY <1>1, <1>3, MallocFinds
<1> DEFINE a     == Malloc(m.mem)
           added == AddNodeTail(m.mem, m.list, a, row.key)
<1> HIDE DEF a
<1>5. a \in Addrs /\ m.mem[a] = Freed
  BY <1>4 DEF a
<1>6. /\ added.mem \in Memory
      /\ Linked(added.mem, added.list, Append(w, a), Append(seq, row))
      /\ Nodes(Append(w, a)) = Nodes(w) \cup {a}
      /\ \A x \in Addrs \ (Nodes(w) \cup {a}) : added.mem[x] = m.mem[x]
  BY <1>1, <1>5, AddLinked
<1> HIDE DEF added
<1>7. Used(added.mem) = Nodes(Append(w, a))
  <2>1. Used(added.mem) = (Used(m.mem) \ Nodes(w)) \cup Nodes(Append(w, a))
    <3>1. \A x \in Nodes(w) \ Nodes(Append(w, a)) : added.mem[x] = Freed
      BY <1>6
    <3>2. \A x \in Addrs \ (Nodes(w) \cup Nodes(Append(w, a))) : added.mem[x] = m.mem[x]
      BY <1>6
    <3>3. QED
      BY <1>1, <1>6, <3>1, <3>2, UsedAfter
  <2>2. QED
    BY <1>1, <2>1
<1>8. Filled(added, Append(seq, row))
  BY <1>6, <1>7 DEF Filled
<1>9. QED
  BY <1>8 DEF added, a, Loaded

\* Load makes the list of any sequence of rows that the memory has room for.
LEMMA LoadFills ==
  ASSUME NEW seq \in Seq(Row), Len(seq) <= Cardinality(Addrs)
  PROVE  Filled(Load(seq), seq)
<1> DEFINE n == Len(seq)
           f == CHOOSE f : Loads(f, n, seq)
           S == {i \in 0..n : Filled(f[i], SubSeq(seq, 1, i))}
<1>1. n \in Nat
  BY LenProperties
<1>2. Load(seq) = f[n]
  BY Zenon DEF Load, Loads, Blank, Loaded
<1>3. f = [i \in 0..n |-> IF i = 0 THEN Blank ELSE Loaded(f[i - 1], seq[i])]
  <2>1. Loads(f, n, seq)
    BY <1>1, LoadsExists
  <2> HIDE DEF f
  <2>2. QED
    BY <2>1 DEF Loads
<1> HIDE DEF f
<1>4. 0 \in S
  <2>1. f[0] = Blank
    BY <1>1, <1>3
  <2>2. SubSeq(seq, 1, 0) = << >>
    BY SubSeqEmpty
  <2>3. /\ Blank.mem \in Memory /\ Blank.list = Create /\ Used(Blank.mem) = {}
    BY DEF Blank, Memory, Used
  <2>4. Filled(Blank, << >>)
    BY <2>3, LinkedEmpty DEF Filled
  <2>5. Filled(f[0], SubSeq(seq, 1, 0))
    BY <2>1, <2>2, <2>4
  <2>6. QED
    BY <1>1, <2>5
<1>5. ASSUME NEW i \in 0..n, i # 0, i - 1 \in S PROVE i \in S
  <2>1. i \in 1..n /\ i - 1 \in 1..n \cup {0} /\ 1 \in 1..n
    BY <1>1, <1>5
  <2>2. seq[i] \in Row
    BY <2>1, ElementOfSeq
  <2>3. f[i] = Loaded(f[i - 1], seq[i])
    BY <1>3, <1>5
  <2>4. SubSeq(seq, 1, i) = Append(SubSeq(seq, 1, i - 1), seq[i])
    <3>1. \A j \in 1..(i - 1) : seq[j] \in Row
      BY <1>1, <2>1, ElementOfSeq
    <3>2. SubSeq(seq, 1, i - 1) \in Seq(Row)
      BY <2>1, <3>1, SubSeqProperties
    <3>3. SubSeq(seq, 1, i) = SubSeq(seq, 1, i - 1) \o <<seq[i]>>
      BY <2>1, SubSeqRecursiveSecond
    <3>4. QED
      BY <2>2, <3>2, <3>3, AppendIsConcat
  <2>5. Len(SubSeq(seq, 1, i - 1)) < Cardinality(Addrs)
    <3>1. \A j \in 1..(i - 1) : seq[j] \in Row
      BY <1>1, <2>1, ElementOfSeq
    <3>2. Len(SubSeq(seq, 1, i - 1)) = i - 1
      BY <2>1, <3>1, SubSeqProperties
    <3>3. Cardinality(Addrs) \in Nat
      BY FS_CardinalityType, LinkedTableAssumption
    <3>4. QED
      BY <1>1, <2>1, <3>2, <3>3
  <2>6. Filled(f[i - 1], SubSeq(seq, 1, i - 1))
    BY <1>5
  <2>7. QED
    BY <2>2, <2>3, <2>4, <2>5, <2>6, LoadedRow
<1>6. \A i \in 0..n : (i = 0 \/ i - 1 \in S) => i \in S
  BY <1>4, <1>5
<1> HIDE DEF S
<1>7. n \in S
  <2>1. 0..n \subseteq S
    BY <1>1, <1>6, Counted
  <2>2. QED
    BY <1>1, <2>1
<1>8. Filled(f[n], SubSeq(seq, 1, n))
  BY <1>7 DEF S
<1>9. QED
  BY <1>2, <1>8, SubSeqFull

-----------------------------------------------------------------------------
(***************************************************************************)
(* The invariant                                                           *)
(***************************************************************************)
\* The nodes of the rows lie at w, those of the bin at b, and nothing else
\* lies in memory.  A loop of _cached_sync stands at the node that it counts.
Lists(w, b) ==
  /\ mem \in Memory
  /\ Linked(mem, rowList, w, rows)
  /\ Linked(mem, binList, b, recycle)
  /\ Nodes(w) \cap Nodes(b) = {}
  /\ Used(mem) = Nodes(w) \cup Nodes(b)
  /\ Len(recycle) <= MaxRecycle
  /\ phase = "delete" => iter = IF node > Len(b) THEN NULL ELSE b[node]
  /\ phase = "update" => iter = IF node > Len(w) THEN NULL ELSE w[node]

ListInv == TableInv /\ \E w, b : Lists(w, b)

\* A table has at most one row per key.
LEMMA RowsFit ==
  ASSUME NEW seq \in Seq(Row), Unique(seq)
  PROVE  Len(seq) \in Nat /\ Len(seq) <= Cardinality(Keys)
<1> DEFINE n == Len(seq)
           f == [i \in 1..n |-> seq[i].key]
<1>1. n \in Nat /\ DOMAIN seq = 1..n
  OBVIOUS
<1>2. \A i \in 1..n : seq[i].key \in Keys
  BY RowKey
<1>3. \A i, j \in 1..n : seq[i].key = seq[j].key => i = j
  BY <1>1 DEF Unique
<1>4. f \in Injection(1..n, Keys)
  <2>1. f \in [1..n -> Keys]
    BY <1>2
  <2>2. QED
    BY <1>3, <2>1 DEF Injection, IsInjective
<1>5. IsFiniteSet(1..n) /\ Cardinality(1..n) = n
  BY <1>1, FS_Interval
<1>6. Cardinality(1..n) <= Cardinality(Keys)
  BY <1>4, <1>5, FS_Injection, DbCacheAssumption
<1>7. QED
  BY <1>1, <1>5, <1>6

LEMMA UsedCount ==
  ASSUME NEW w, NEW b, Lists(w, b)
  PROVE  /\ Cardinality(Used(mem)) = Len(w) + Len(b)
         /\ Len(w) \in Nat /\ Len(b) \in Nat
<1>1. /\ w \in Seq(Addrs) /\ Distinct(w) /\ b \in Seq(Addrs) /\ Distinct(b)
  BY DEF Lists, Linked
<1>2. /\ IsFiniteSet(Nodes(w)) /\ Cardinality(Nodes(w)) = Len(w) /\ Len(w) \in Nat
      /\ IsFiniteSet(Nodes(b)) /\ Cardinality(Nodes(b)) = Len(b) /\ Len(b) \in Nat
  BY <1>1, NodesOf
<1>3. Nodes(w) \cap Nodes(b) = {} /\ Used(mem) = Nodes(w) \cup Nodes(b)
  BY DEF Lists
<1>4. /\ Cardinality(Nodes(w) \cup Nodes(b))
          = Cardinality(Nodes(w)) + Cardinality(Nodes(b)) - Cardinality(Nodes(w) \cap Nodes(b))
  BY <1>2, FS_Union
<1>5. Cardinality(Nodes(w) \cap Nodes(b)) = 0
  BY <1>3, FS_EmptySet
<1>6. QED
  BY <1>2, <1>3, <1>4, <1>5

\* node->next of the loops.
LEMMA AfterNode ==
  ASSUME NEW h, NEW l, NEW w, NEW seq, Linked(h, l, w, seq), NEW i \in 1..Len(w)
  PROVE  After(h)[w[i]] = IF i = Len(w) THEN NULL ELSE w[i + 1]
<1>1. w[i] \in Addrs /\ w[i] # NULL /\ h[w[i]] # Freed /\ h[w[i]] = NodeAt(w, seq, i)
  BY LinkedParts
<1>2. After(h)[w[i]] = h[w[i]].next
  BY <1>1 DEF After, Pointer
<1>3. QED
  BY <1>1, <1>2 DEF NodeAt

\* What a loop variable is after one step more.
LEMMA NextNode ==
  ASSUME NEW h, NEW l, NEW w, NEW seq, Linked(h, l, w, seq), NEW i \in DOMAIN seq
  PROVE  After(h)[w[i]] = (IF i + 1 > Len(w) THEN NULL ELSE w[i + 1]) /\ ~ (i > Len(w))
<1>1. i \in 1..Len(w) /\ Len(w) \in Nat
  BY LinkedParts
<1>2. i = Len(w) <=> i + 1 > Len(w)
  BY <1>1
<1>3. QED
  BY <1>1, <1>2, AfterNode

LEMMA FirstNode ==
  ASSUME NEW h, NEW l, NEW w, NEW seq, Linked(h, l, w, seq)
  PROVE  l.head = IF 1 > Len(w) THEN NULL ELSE w[1]
<1>1. l.head = (IF Len(w) = 0 THEN NULL ELSE w[1]) /\ Len(w) \in Nat
  BY LinkedParts
<1>2. Len(w) = 0 <=> 1 > Len(w)
  BY <1>1
<1>3. QED
  BY <1>1, <1>2

-----------------------------------------------------------------------------
(***************************************************************************)
(* The steps                                                               *)
(***************************************************************************)
\* Rows read from the disk are put into empty memory.
LEMMA LoadLists ==
  ASSUME NEW seq \in Seq(Row), Unique(seq)
  PROVE  /\ Filled(Load(seq), seq)
<1>1. Len(seq) \in Nat /\ Len(seq) <= Cardinality(Keys)
  BY RowsFit
<1>2. Cardinality(Keys) \in Nat /\ Cardinality(Addrs) \in Nat
  BY FS_CardinalityType, DbCacheAssumption, LinkedTableAssumption
<1>3. Len(seq) <= Cardinality(Addrs)
  BY <1>1, <1>2, DbCacheAssumption, LinkedTableAssumption
<1>4. QED
  BY <1>3, LoadFills

LEMMA InitLists == LinkedInit /\ TableInv => \E w, b : Lists(w, b)
<1> SUFFICES ASSUME LinkedInit, TableInv PROVE \E w, b : Lists(w, b)
  OBVIOUS
<1>1. rows \in Seq(Row) /\ Unique(rows)
  BY DEF TableInv, TypeOK, UniqueKeys, Unique
<1>2. PICK w : /\ mem \in Memory /\ Linked(mem, rowList, w, rows) /\ Used(mem) = Nodes(w)
  BY <1>1, LoadLists DEF Filled, LinkedInit
<1>3. binList = Create /\ recycle = << >> /\ phase = "idle"
  BY DEF LinkedInit, Init
<1>4. Linked(mem, binList, << >>, recycle) /\ Nodes(<< >>) = {}
  BY <1>3, LinkedEmpty
<1>5. Len(recycle) <= MaxRecycle
  BY <1>3, DbCacheAssumption
<1>6. Lists(w, << >>)
  BY <1>2, <1>3, <1>4, <1>5 DEF Lists
<1>7. QED
  BY <1>6

LEMMA RestartLists ==
  ASSUME TableInv, LinkedRestart PROVE \E w, b : Lists(w, b)'
<1>1. rows' \in Seq(Row) /\ Unique(rows')
  BY RestartRows DEF TableInv, LinkedRestart
<1>2. PICK w : mem' \in Memory /\ Linked(mem', rowList', w, rows') /\ Used(mem') = Nodes(w)
  BY <1>1, LoadLists DEF Filled, LinkedRestart
<1>3. binList' = Create /\ recycle' = << >> /\ phase' = "idle"
  BY DEF LinkedRestart, Restart
<1>4. Linked(mem', binList', << >>, recycle') /\ Nodes(<< >>) = {}
  BY <1>3, LinkedEmpty
<1>5. Len(recycle') <= MaxRecycle
  BY <1>3, DbCacheAssumption
<1>6. Lists(w, << >>)'
  BY <1>2, <1>3, <1>4, <1>5 DEF Lists
<1>7. QED
  BY <1>6

\* A row is inserted: there is a key without a row, so there is free memory.
LEMMA InsertLists ==
  ASSUME TableInv, NEW w, NEW b, Lists(w, b), NEW k \in Keys, NEW v \in Vals, LinkedInsert(k, v)
  PROVE  \E w2, b2 : Lists(w2, b2)'
<1> DEFINE row == [key |-> k, val |-> v]
<1>1. /\ mem \in Memory /\ Linked(mem, rowList, w, rows) /\ Linked(mem, binList, b, recycle)
      /\ Nodes(w) \cap Nodes(b) = {} /\ Used(mem) = Nodes(w) \cup Nodes(b)
      /\ Len(recycle) <= MaxRecycle
  BY DEF Lists
<1>2. /\ phase' = "idle" /\ recycle' = recycle /\ binList' = binList
      /\ rows' = Append(rows, row)
      /\ mem' = AddNodeTail(mem, rowList, Malloc(mem), row.key).mem
      /\ rowList' = AddNodeTail(mem, rowList, Malloc(mem), row.key).list
  BY DEF LinkedInsert, Insert, syncVars
<1>3. PICK a \in Addrs : a = Malloc(mem) /\ mem[a] = Freed
  <2>1. rows' \in Seq(Row) /\ Unique(rows') /\ Len(rows') = Len(rows) + 1
    BY InsertRows DEF TableInv, LinkedInsert
  <2>2. Len(rows) + 1 <= Cardinality(Keys)
    BY <2>1, RowsFit
  <2>3. /\ Cardinality(Used(mem)) = Len(rows) + Len(recycle)
        /\ Len(rows) \in Nat /\ Len(recycle) \in Nat
    <3>1. Len(rows) = Len(w) /\ Len(recycle) = Len(b)
      BY <1>1 DEF Linked
    <3>2. QED
      BY <3>1, UsedCount
  <2>4. Cardinality(Keys) \in Nat /\ Cardinality(Addrs) \in Nat
    BY FS_CardinalityType, DbCacheAssumption, LinkedTableAssumption
  <2>5. Cardinality(Used(mem)) < Cardinality(Addrs)
    BY <1>1, <2>2, <2>3, <2>4, DbCacheAssumption, LinkedTableAssumption
  <2>6. QED
    BY <1>1, <2>5, MallocFinds
<1> DEFINE added == AddNodeTail(mem, rowList, a, row.key)
<1>4. row \in Row
  BY DEF Row
<1>5. /\ mem' \in Memory
      /\ Linked(mem', rowList', Append(w, a), rows')
      /\ Nodes(Append(w, a)) = Nodes(w) \cup {a}
      /\ \A x \in Addrs \ (Nodes(w) \cup {a}) : mem'[x] = mem[x]
  <2> HIDE DEF row
  <2>1. /\ added.mem \in Memory
        /\ Linked(added.mem, added.list, Append(w, a), Append(rows, row))
        /\ Nodes(Append(w, a)) = Nodes(w) \cup {a}
        /\ \A x \in Addrs \ (Nodes(w) \cup {a}) : added.mem[x] = mem[x]
    BY <1>1, <1>3, <1>4, AddLinked
  <2>2. mem' = added.mem /\ rowList' = added.list
    BY <1>2, <1>3
  <2> HIDE DEF added
  <2>3. QED
    BY <1>2, <2>1, <2>2
<1>6. a \notin Used(mem)
  BY <1>3 DEF Used
<1>7. Linked(mem', binList', b, recycle')
  <2>1. \A x \in Nodes(b) : mem'[x] = mem[x]
    BY <1>1, <1>5, <1>6 DEF Used
  <2>2. recycle \in Seq(Row)
    BY <1>1 DEF Linked
  <2>3. QED
    BY <1>1, <1>2, <2>1, <2>2, LinkedStays
<1>8. Used(mem') = Nodes(Append(w, a)) \cup Nodes(b)
  <2>1. \A x \in Nodes(w) \ Nodes(Append(w, a)) : mem'[x] = Freed
    BY <1>5
  <2>2. \A x \in Addrs \ (Nodes(w) \cup Nodes(Append(w, a))) : mem'[x] = mem[x]
    BY <1>5
  <2>3. Used(mem') = (Used(mem) \ Nodes(w)) \cup Nodes(Append(w, a))
    BY <1>1, <1>5, <2>1, <2>2, UsedAfter
  <2>4. QED
    BY <1>1, <2>3
<1>9. Nodes(Append(w, a)) \cap Nodes(b) = {}
  BY <1>1, <1>5, <1>6
<1>10. Len(recycle') <= MaxRecycle
  BY <1>1, <1>2
<1>11. Lists(Append(w, a), b)'
  BY <1>2, <1>5, <1>7, <1>8, <1>9, <1>10 DEF Lists
<1>12. QED
  BY <1>11

\* A row is written in place: its node stays as it is.
LEMMA WriteLists ==
  ASSUME TableInv, NEW w, NEW b, Lists(w, b), NEW k \in Keys, NEW v \in Vals, LinkedWrite(k, v)
  PROVE  \E w2, b2 : Lists(w2, b2)'
<1>1. phase' = "idle" /\ recycle' = recycle /\ UNCHANGED listVars
  BY DEF LinkedWrite, Write, syncVars
<1>2. rows' \in Seq(Row) /\ Len(rows') = Len(rows)
  BY WriteRows DEF TableInv, LinkedWrite
<1>3. \A i \in 1..Len(rows) : rows'[i].key = rows[i].key
  <2>1. rows \in Seq(Row)
    BY DEF TableInv, TypeOK
  <2>2. PICK n \in DOMAIN rows : rows' = [rows EXCEPT ![n].val = v]
    BY DEF LinkedWrite, Write
  <2>3. ASSUME NEW i \in 1..Len(rows) PROVE rows[i] \in Row
    BY <2>1, ElementOfSeq
  <2>4. QED
    BY <2>1, <2>2, <2>3 DEF Row
<1>4. Linked(mem, rowList, w, rows')
  <2>1. Linked(mem, rowList, w, rows)
    BY DEF Lists
  <2>2. QED
    BY <1>2, <1>3, <2>1, LinkedStays
<1>5. Lists(w, b)'
  BY <1>1, <1>4 DEF Lists, listVars
<1>6. QED
  BY <1>5

\* A row is deleted: the node that is freed makes room for one in the bin.
LEMMA DeleteLists ==
  ASSUME TableInv, NEW w, NEW b, Lists(w, b), NEW k \in Keys, LinkedDelete(k)
  PROVE  \E w2, b2 : Lists(w2, b2)'
<1>1. /\ mem \in Memory /\ Linked(mem, rowList, w, rows) /\ Linked(mem, binList, b, recycle)
      /\ Nodes(w) \cap Nodes(b) = {} /\ Used(mem) = Nodes(w) \cup Nodes(b)
  BY DEF Lists
<1>2. PICK i \in DOMAIN rows : /\ IsFirst(rows, k, i)
                               /\ rows' = RemoveAt(rows, i)
                               /\ recycle' = Append(recycle, rows[i])
  BY DEF LinkedDelete, Delete
<1>3. /\ phase' = "idle" /\ Len(recycle) < MaxRecycle /\ Len(recycle) \in Nat
  BY DEF LinkedDelete, Delete, syncVars, TableInv, TypeOK
<1>4. i \in 1..Len(w) /\ w[i] \in Addrs /\ w[i] # NULL /\ rows[i] \in Row /\ rows[i].key = k
  <2>1. i \in 1..Len(w)
    BY <1>1, LinkedParts
  <2>2. w[i] \in Addrs /\ w[i] # NULL
    BY <1>1, <2>1, LinkedParts
  <2>3. rows[i] \in Row
    BY DEF TableInv, TypeOK
  <2>4. QED
    BY <1>2, <2>1, <2>2, <2>3 DEF IsFirst
<1>5. SearchKey(mem, rowList, k) = w[i]
  BY <1>1, <1>2, <1>4, SearchFinds
<1>6. PICK h, l : h = RemoveNode(mem, rowList, w[i]).mem /\ l = RemoveNode(mem, rowList, w[i]).list
  OBVIOUS
<1>7. /\ h \in Memory
      /\ Linked(h, l, RemoveAt(w, i), rows')
      /\ Nodes(RemoveAt(w, i)) = Nodes(w) \ {w[i]}
      /\ h[w[i]] = Freed
      /\ \A x \in Addrs \ Nodes(w) : h[x] = mem[x]
  BY <1>1, <1>2, <1>4, <1>6, RemoveLinked
<1>8. PICK a \in Addrs : a = Malloc(h) /\ h[a] = Freed
  BY <1>4, <1>7 DEF Malloc
<1> DEFINE w2    == RemoveAt(w, i)
           b2    == Append(b, a)
           added == AddNodeTail(h, binList, a, rows[i].key)
<1>9. mem' = added.mem /\ binList' = added.list /\ rowList' = l
  BY <1>4, <1>5, <1>6, <1>8 DEF LinkedDelete
<1>10. /\ w[i] \in Nodes(w) /\ Nodes(w) \subseteq Addrs /\ Nodes(b) \subseteq Addrs
  BY <1>1, <1>4, NodesOf DEF Nodes, Linked
<1>11. Linked(h, binList, b, recycle)
  <2>1. \A x \in Nodes(b) : h[x] = mem[x]
    BY <1>1, <1>7, <1>10
  <2>2. recycle \in Seq(Row)
    BY <1>1 DEF Linked
  <2>3. QED
    BY <1>1, <2>1, <2>2, LinkedStays
<1>12. /\ mem' \in Memory
       /\ Linked(mem', binList', b2, recycle')
       /\ Nodes(b2) = Nodes(b) \cup {a}
       /\ \A x \in Addrs \ (Nodes(b) \cup {a}) : mem'[x] = h[x]
  <2>1. /\ added.mem \in Memory
        /\ Linked(added.mem, added.list, Append(b, a), Append(recycle, rows[i]))
        /\ Nodes(Append(b, a)) = Nodes(b) \cup {a}
        /\ \A x \in Addrs \ (Nodes(b) \cup {a}) : added.mem[x] = h[x]
    BY <1>4, <1>7, <1>8, <1>11, AddLinked
  <2> HIDE DEF added
  <2>2. QED
    BY <1>2, <1>9, <2>1
<1> HIDE DEF added, w2, b2
<1>13. Nodes(w2) \subseteq Used(h) /\ Nodes(b) \subseteq Used(h) /\ a \notin Used(h)
  BY <1>7, <1>8, <1>11, LinkedUsed DEF w2, Used
<1>14. Linked(mem', rowList', w2, rows')
  <2>1. \A x \in Nodes(w2) : mem'[x] = h[x]
    BY <1>1, <1>7, <1>10, <1>12, <1>13 DEF w2
  <2>2. rows' \in Seq(Row) /\ Linked(h, rowList', w2, rows')
    BY <1>7, <1>9 DEF Linked, w2
  <2>3. QED
    BY <2>1, <2>2, LinkedStays
<1>15. Used(h) = Nodes(w2) \cup Nodes(b)
  <2>1. \A x \in Nodes(w) \ Nodes(w2) : h[x] = Freed
    BY <1>7 DEF w2
  <2>2. \A x \in Addrs \ (Nodes(w) \cup Nodes(w2)) : h[x] = mem[x]
    BY <1>7
  <2>3. Used(h) = (Used(mem) \ Nodes(w)) \cup Nodes(w2)
    BY <1>1, <1>7, <2>1, <2>2, UsedAfter DEF w2
  <2>4. QED
    BY <1>1, <2>3
<1>16. Used(mem') = Nodes(w2) \cup Nodes(b2)
  <2>1. \A x \in Nodes(b) \ Nodes(b2) : mem'[x] = Freed
    BY <1>12
  <2>2. \A x \in Addrs \ (Nodes(b) \cup Nodes(b2)) : mem'[x] = h[x]
    BY <1>12
  <2>3. Used(mem') = (Used(h) \ Nodes(b)) \cup Nodes(b2)
    BY <1>7, <1>12, <2>1, <2>2, UsedAfter
  <2>4. Nodes(w2) \cap Nodes(b) = {}
    BY <1>1, <1>7 DEF w2
  <2>5. QED
    BY <1>15, <2>3, <2>4
<1>17. Nodes(w2) \cap Nodes(b2) = {}
  BY <1>1, <1>7, <1>12, <1>13 DEF w2
<1>18. Len(recycle') <= MaxRecycle
  <2>1. Len(recycle') = Len(recycle) + 1
    BY <1>2, <1>4 DEF TableInv, TypeOK
  <2>2. QED
    BY <1>3, <2>1, DbCacheAssumption
<1>19. Lists(w2, b2)'
  <2>1. Linked(mem, rowList, w2, rows)'
    BY <1>14
  <2>2. QED
    BY <1>3, <1>12, <1>16, <1>17, <1>18, <2>1 DEF Lists
<1>20. QED
  BY <1>19

\* All rows go to the bin; no node is made or freed.
LEMMA ClearLists ==
  ASSUME TableInv, NEW w, NEW b, Lists(w, b), LinkedClear
  PROVE  \E w2, b2 : Lists(w2, b2)'
<1>1. /\ mem \in Memory /\ Linked(mem, rowList, w, rows) /\ Linked(mem, binList, b, recycle)
      /\ Nodes(w) \cap Nodes(b) = {} /\ Used(mem) = Nodes(w) \cup Nodes(b)
  BY DEF Lists
<1> DEFINE joined == Join(mem, binList, rowList)
           u      == b \o w
<1>2. /\ mem' = joined.mem /\ binList' = joined.list /\ rowList' = joined.rest
      /\ recycle' = recycle \o rows /\ rows' = << >> /\ phase' = "idle"
      /\ Len(recycle) + Len(rows) <= MaxRecycle
  BY DEF LinkedClear, Clear, syncVars
<1>3. /\ mem' \in Memory
      /\ Linked(mem', binList', u, recycle')
      /\ Nodes(u) = Nodes(w) \cup Nodes(b)
      /\ rowList' = Create
      /\ \A x \in Addrs \ Nodes(u) : mem'[x] = mem[x]
  <2>1. /\ joined.mem \in Memory
        /\ Linked(joined.mem, joined.list, b \o w, recycle \o rows)
        /\ Nodes(b \o w) = Nodes(b) \cup Nodes(w)
        /\ joined.rest = Create
        /\ \A x \in Addrs \ (Nodes(b) \cup Nodes(w)) : joined.mem[x] = mem[x]
    BY <1>1, JoinLinked
  <2> HIDE DEF joined
  <2>2. QED
    BY <1>2, <2>1
<1> HIDE DEF joined, u
<1>4. Linked(mem', rowList', << >>, rows') /\ Nodes(<< >>) = {}
  BY <1>2, <1>3, LinkedEmpty
<1>5. Used(mem') = Nodes(u)
  <2>1. \A x \in Nodes(b) \ Nodes(u) : mem'[x] = Freed
    BY <1>3
  <2>2. \A x \in Addrs \ (Nodes(b) \cup Nodes(u)) : mem'[x] = mem[x]
    BY <1>3
  <2>3. Used(mem') = (Used(mem) \ Nodes(b)) \cup Nodes(u)
    BY <1>1, <1>3, <2>1, <2>2, UsedAfter
  <2>4. QED
    BY <1>1, <1>3, <2>3
<1>6. Len(recycle') <= MaxRecycle
  <2>1. recycle \in Seq(Row) /\ rows \in Seq(Row)
    BY DEF TableInv, TypeOK
  <2>2. Len(recycle') = Len(recycle) + Len(rows)
    BY <1>2, <2>1, ConcatProperties
  <2>3. QED
    BY <1>2, <2>2
<1>7. Lists(<< >>, u)'
  BY <1>2, <1>3, <1>4, <1>5, <1>6 DEF Lists
<1>8. QED
  BY <1>7

\* The first loop starts at the head of the bin.
LEMMA BeginLists ==
  ASSUME TableInv, NEW w, NEW b, Lists(w, b), LinkedBegin
  PROVE  Lists(w, b)'
<1>1. /\ UNCHANGED <<mem, rowList, binList, rows, recycle>>
      /\ phase' = "delete" /\ node' = 1 /\ iter' = binList.head
  BY DEF LinkedBegin, Begin
<1>2. binList.head = IF 1 > Len(b) THEN NULL ELSE b[1]
  BY FirstNode DEF Lists
<1>3. QED
  BY <1>1, <1>2 DEF Lists

LEMMA DeleteRowLists ==
  ASSUME TableInv, NEW w, NEW b, Lists(w, b), LinkedDeleteRow
  PROVE  Lists(w, b)'
<1>1. /\ UNCHANGED <<mem, rowList, binList, rows, recycle, phase>>
      /\ phase = "delete" /\ node \in DOMAIN recycle /\ node' = node + 1
      /\ iter' = After(mem)[iter]
  BY DEF LinkedDeleteRow, DeleteRow
<1>2. /\ After(mem)[b[node]] = IF node + 1 > Len(b) THEN NULL ELSE b[node + 1]
      /\ ~ (node > Len(b))
  BY <1>1, NextNode DEF Lists
<1>3. iter = b[node]
  BY <1>1, <1>2 DEF Lists
<1>4. iter' = IF node' > Len(b) THEN NULL ELSE b[node']
  BY <1>1, <1>2, <1>3
<1>5. QED
  BY <1>1, <1>4 DEF Lists

LEMMA UpdateRowLists ==
  ASSUME TableInv, NEW w, NEW b, Lists(w, b), LinkedUpdateRow
  PROVE  Lists(w, b)'
<1>1. /\ UNCHANGED <<mem, rowList, binList, rows, recycle, phase>>
      /\ phase = "update" /\ node \in DOMAIN rows /\ node' = node + 1
      /\ iter' = After(mem)[iter]
  BY DEF LinkedUpdateRow, UpdateRow
<1>2. /\ After(mem)[w[node]] = IF node + 1 > Len(w) THEN NULL ELSE w[node + 1]
      /\ ~ (node > Len(w))
  BY <1>1, NextNode DEF Lists
<1>3. iter = w[node]
  BY <1>1, <1>2 DEF Lists
<1>4. iter' = IF node' > Len(w) THEN NULL ELSE w[node']
  BY <1>1, <1>2, <1>3
<1>5. QED
  BY <1>1, <1>4 DEF Lists

\* The bin is freed, the second loop starts at the head of the rows.
LEMMA EmptyRecycleLists ==
  ASSUME TableInv, NEW w, NEW b, Lists(w, b), LinkedEmptyRecycle
  PROVE  Lists(w, << >>)'
<1>1. /\ mem \in Memory /\ Linked(mem, rowList, w, rows) /\ Linked(mem, binList, b, recycle)
      /\ Nodes(w) \cap Nodes(b) = {} /\ Used(mem) = Nodes(w) \cup Nodes(b)
  BY DEF Lists
<1>2. /\ recycle' = << >> /\ rows' = rows /\ rowList' = rowList
      /\ phase' = "update" /\ node' = 1 /\ iter' = rowList.head
      /\ mem' = Empty(mem, binList).mem /\ binList' = Empty(mem, binList).list
  BY DEF LinkedEmptyRecycle, EmptyRecycle
<1>3. /\ mem' \in Memory /\ binList' = Create
      /\ \A x \in Addrs : mem'[x] = IF x \in Nodes(b) THEN Freed ELSE mem[x]
  BY <1>1, <1>2, EmptyLinked
<1>4. Linked(mem', binList', << >>, recycle') /\ Nodes(<< >>) = {}
  BY <1>2, <1>3, LinkedEmpty
<1>5. Nodes(w) \subseteq Addrs
  BY <1>1, NodesOf DEF Linked
<1>6. Linked(mem', rowList', w, rows')
  <2>1. \A x \in Nodes(w) : mem'[x] = mem[x]
    BY <1>1, <1>3, <1>5
  <2>2. rows \in Seq(Row)
    BY <1>1 DEF Linked
  <2>3. QED
    BY <1>1, <1>2, <2>1, <2>2, LinkedStays
<1>7. Used(mem') = Nodes(w) \cup Nodes(<< >>)
  <2>1. Used(mem') = Used(mem) \ Nodes(b)
    BY <1>3 DEF Used
  <2>2. QED
    BY <1>1, <1>4, <2>1
<1>8. iter' = IF node' > Len(w) THEN NULL ELSE w[node']
  BY <1>1, <1>2, FirstNode
<1>9. Len(recycle') <= MaxRecycle
  BY <1>2, DbCacheAssumption
<1>10. QED
  BY <1>2, <1>3, <1>4, <1>6, <1>7, <1>8, <1>9 DEF Lists

\* A synchronisation ends, or does not begin.
LEMMA EndSyncLists ==
  ASSUME TableInv, NEW w, NEW b, Lists(w, b), LinkedEndSync \/ LinkedBeginFails
  PROVE  Lists(w, b)'
<1>1. /\ UNCHANGED <<mem, rowList, binList, rows, recycle>>
      /\ phase' = "idle"
  BY DEF LinkedEndSync, LinkedBeginFails, BeginFails, listVars, Commit, StatementFails, Rollback
<1>2. QED
  BY <1>1 DEF Lists

-----------------------------------------------------------------------------
listedVars == <<vars, listVars>>

LEMMA StepOfLinked == [LinkedNext]_listedVars => [Next]_vars
BY DEF LinkedNext, LinkedInsert, LinkedWrite, LinkedClear, LinkedDelete, LinkedBegin,
   LinkedBeginFails, LinkedDeleteRow, LinkedEmptyRecycle, LinkedUpdateRow, LinkedEndSync,
   LinkedRestart, Next, listedVars

LEMMA NextListInv == ListInv /\ [LinkedNext]_listedVars => ListInv'
<1> SUFFICES ASSUME ListInv, [LinkedNext]_listedVars PROVE ListInv'
  OBVIOUS
<1>1. TableInv /\ TableInv'
  BY StepOfLinked, NextTableInv DEF ListInv
<1>2. PICK w, b : Lists(w, b)
  BY DEF ListInv
<1>3. \E w2, b2 : Lists(w2, b2)'
  <2>1. CASE \E k \in Keys, v \in Vals : LinkedInsert(k, v) \/ LinkedWrite(k, v)
    BY <1>1, <1>2, <2>1, InsertLists, WriteLists
  <2>2. CASE \E k \in Keys : LinkedDelete(k)
    BY <1>1, <1>2, <2>2, DeleteLists
  <2>3. CASE LinkedClear
    BY <1>1, <1>2, <2>3, ClearLists
  <2>4. CASE LinkedBegin \/ LinkedDeleteRow \/ LinkedUpdateRow
    BY <1>1, <1>2, <2>4, BeginLists, DeleteRowLists, UpdateRowLists
  <2>5. CASE LinkedEmptyRecycle
    BY <1>1, <1>2, <2>5, EmptyRecycleLists
  <2>6. CASE LinkedBeginFails \/ LinkedEndSync
    BY <1>1, <1>2, <2>6, EndSyncLists
  <2>7. CASE LinkedRestart
    BY <1>1, <2>7, RestartLists
  <2>8. CASE UNCHANGED listedVars
    <3>1. Lists(w, b)'
      BY <1>2, <2>8 DEF Lists, listedVars, listVars, vars
    <3>2. QED
      BY <3>1
  <2>9. QED
    BY <2>1, <2>2, <2>3, <2>4, <2>5, <2>6, <2>7, <2>8 DEF LinkedNext
<1>4. QED
  BY <1>1, <1>3 DEF ListInv

LEMMA ListInvariant == LinkedSpec => []ListInv
<1>1. LinkedInit => ListInv
  BY InitLists, InitTableInv DEF LinkedInit, ListInv
<1>2. QED
  BY <1>1, NextListInv, PTL DEF LinkedSpec, listedVars

\* What the walks w and b say of the links.
LEMMA ListInvRows == ListInv => ListsAreRows
<1> SUFFICES ASSUME ListInv PROVE ListsAreRows
  OBVIOUS
<1>1. PICK w, b : Lists(w, b)
  BY DEF ListInv
<1>2. /\ mem \in Memory /\ Linked(mem, rowList, w, rows) /\ Linked(mem, binList, b, recycle)
      /\ Used(mem) = Nodes(w) \cup Nodes(b)
  BY <1>1 DEF Lists
<1>3. /\ Forward(mem, rowList) = w /\ Backward(mem, rowList) = Reverse(w)
      /\ Forward(mem, binList) = b /\ Backward(mem, binList) = Reverse(b)
  BY <1>2, WalkOf
<1>4. ASSUME NEW l, NEW u, NEW seq, Linked(mem, l, u, seq),
             Forward(mem, l) = u, Backward(mem, l) = Reverse(u)
      PROVE  Holds(l, seq) /\ Range(u) = Nodes(u) /\ l.len = Len(u) /\ Len(seq) = Len(u)
  <2>1. /\ u \in Seq(Addrs) /\ seq \in Seq(Row) /\ Len(seq) = Len(u) /\ Len(u) \in Nat
        /\ l.len = Len(u)
    BY <1>4, LinkedParts
  <2>2. DOMAIN u = 1..Len(u) /\ DOMAIN seq = 1..Len(u)
    BY <2>1
  <2>3. ASSUME NEW i \in 1..Len(u) PROVE mem[u[i]].key = seq[i].key
    <3>1. mem[u[i]] = NodeAt(u, seq, i)
      BY <1>4, LinkedParts
    <3>2. QED
      BY <3>1 DEF NodeAt
  <2>4. KeysAt(u) = [i \in DOMAIN seq |-> seq[i].key]
    BY <2>2, <2>3 DEF KeysAt
  <2>5. Range(u) = Nodes(u)
    BY <2>2 DEF Range, Nodes
  <2>6. QED
    BY <1>4, <2>1, <2>4, <2>5 DEF Holds
<1>5. /\ Holds(rowList, rows) /\ Range(w) = Nodes(w) /\ rowList.len = Len(w) /\ Len(rows) = Len(w)
      /\ Holds(binList, recycle) /\ Range(b) = Nodes(b) /\ binList.len = Len(b)
      /\ Len(recycle) = Len(b)
  BY <1>2, <1>3, <1>4
<1>6. Used(mem) = Range(w) \cup Range(b)
  BY <1>2, <1>5
<1>7. Cardinality(Used(mem)) = rowList.len + binList.len
  BY <1>1, <1>5, UsedCount
<1>8. /\ phase = "delete" => iter = IF node > Len(recycle) THEN NULL ELSE b[node]
      /\ phase = "update" => iter = IF node > Len(rows) THEN NULL ELSE w[node]
  BY <1>1, <1>5 DEF Lists
<1>9. QED
  BY <1>3, <1>5, <1>6, <1>7, <1>8 DEF ListsAreRows, Used

\* For any keys and any memory with room for them: after any sequence of
\* operations, failures and restarts the two lists in memory are the rows and
\* the bin, linked both ways, no node is lost or shared, and the loops of a
\* synchronisation stand at the row that they count.
THEOREM LinkedListsAreRows == LinkedSpec => []ListsAreRows
BY ListInvariant, ListInvRows, PTL

-----------------------------------------------------------------------------
(***************************************************************************)
(* The white list                                                          *)
(***************************************************************************)
allVars == <<vars, listVars, WhiteNum, savedNum>>

\* Each step is one of the cached table, or leaves it alone.
LEMMA StepOfWhite == [WhiteNext]_allVars => [LinkedNext]_listedVars
<1> SUFFICES ASSUME [WhiteNext]_allVars PROVE [LinkedNext]_listedVars
  OBVIOUS
<1>1. CASE \E k \in Keys, flag \in Vals : Update(k, flag)
  BY <1>1 DEF Update, LinkedNext
<1>2. CASE Unlist
  BY <1>2 DEF Unlist, LinkedNext
<1>3. CASE WriteSystem
  BY <1>3 DEF WriteSystem, listedVars
<1>4. CASE Sync
  BY <1>4 DEF Sync, LinkedNext
<1>5. CASE WhiteRestart
  BY <1>5 DEF WhiteRestart, LinkedNext
<1>6. CASE UNCHANGED allVars
  BY <1>6 DEF allVars, listedVars
<1>7. QED
  BY <1>1, <1>2, <1>3, <1>4, <1>5, <1>6 DEF WhiteNext

LEMMA StepOfTable == [WhiteNext]_allVars => [Next]_vars
BY StepOfWhite, StepOfLinked

\* The commands of the white list keep the lists in memory what they are.
THEOREM WhiteListsAreRows == WhiteSpec => []ListsAreRows
<1>1. WhiteSpec => LinkedSpec
  BY StepOfWhite, PTL DEF WhiteSpec, WhiteInit, LinkedSpec, listedVars, allVars
<1>2. QED
  BY <1>1, LinkedListsAreRows, PTL

\* A synchronisation of the white list that returns 0 has written every row.
THEOREM WhiteListIsSaved == WhiteSpec => SavesEveryRow
<1>1. WhiteSpec => Spec
  BY StepOfTable, PTL DEF WhiteSpec, WhiteInit, LinkedInit, Spec, allVars
<1>2. QED
  BY <1>1, SyncSavesEveryRow, PTL
=============================================================================
