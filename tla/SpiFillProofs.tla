--------------------------- MODULE SpiFillProofs ---------------------------
(***************************************************************************)
(* What holds of SpiFill for every table, every number and size of frames  *)
(* and every picture.                                                      *)
(***************************************************************************)
EXTENDS SpiFill, FiniteSetTheorems, SequenceTheorems, TLAPS

\* A traversal visits rows of the table.
LEMMA FromType ==
  ASSUME NEW c
  PROVE  From(c) \in Seq(Tags)
<1>1. CASE \E i \in DOMAIN Order : Order[i] = c
  <2> DEFINE i == CHOOSE i \in DOMAIN Order : Order[i] = c
  <2>1. i \in 1 .. Len(Order)
    BY <1>1, OrderAssumption
  <2>2. \A j \in i .. Len(Order) : Order[j] \in Tags
    BY <2>1, OrderAssumption
  <2>3. SubSeq(Order, i, Len(Order)) \in Seq(Tags)
    BY <2>1, <2>2, SubSeqProperties, OrderAssumption
  <2> QED
    BY <1>1, <2>3 DEF From
<1>2. CASE ~\E i \in DOMAIN Order : Order[i] = c
  BY <1>2, OrderAssumption DEF From
<1> QED
  BY <1>1, <1>2

\* What fill_to_cache does to the frames: none is filled beyond its end.
LEMMA FillToCacheType ==
  ASSUME TypeOK, NEW size \in Nat, NEW what, FillToCache(size, what)
  PROVE  used' \in [1 .. Frames -> 0 .. Cap]
<1>1. PICK i \in 1 .. Frames : FirstFit(i, size) /\ used' = [used EXCEPT ![i] = @ + size]
  BY DEF FillToCache
<1>2. used[i] + size \in 0 .. Cap
  BY <1>1, FramesAssumption DEF TypeOK, FirstFit, Fits
<1> QED
  BY <1>1, <1>2 DEF TypeOK

LEMMA EmptyFinite ==
  /\ IsFiniteSet(Empty)
  /\ Cardinality(Empty) \in 0 .. Frames
<1>1. IsFiniteSet(1 .. Frames) /\ Cardinality(1 .. Frames) = Frames
  BY FS_Interval, FramesAssumption
<1>2. Empty \subseteq 1 .. Frames
  BY DEF Empty
<1>3. IsFiniteSet(Empty) /\ Cardinality(Empty) <= Frames
  BY <1>1, <1>2, FS_Subset
<1> QED
  BY <1>3, FS_CardinalityType, FramesAssumption

----------------------------------------------------------------------------
(* Type correctness.                                                       *)

LEMMA InitType == Init => TypeOK
<1> SUFFICES ASSUME Init
             PROVE  TypeOK
  OBVIOUS
<1>1. used \in [1 .. Frames -> 0 .. Cap] /\ idle \in 0 .. Frames
  BY FramesAssumption DEF Init
<1>2. queue \in Seq(Tags) /\ kinds \in Seq(Kinds)
  BY DEF Init
<1>3. todo \in [Tags -> SUBSET Kinds] /\ prop \in [Tags -> Nat] /\ sent \subseteq Tags \X Kinds \X Nat
  BY DEF Init
<1> QED
  BY <1>1, <1>2, <1>3 DEF Init, TypeOK

LEMMA FillType ==
  ASSUME TypeOK, NEW j \in {"tasks", "single", "marks"}, NEW q \in Seq(Tags), NEW n \in Nat,
         Fill(j, q, n)
  PROVE  TypeOK'
BY FramesAssumption DEF Fill, TypeOK, tables, row

LEMMA PlaceSmallType ==
  ASSUME TypeOK, PlaceSmall
  PROVE  TypeOK'
<1> DEFINE t == Head(queue)
           k == Head(kinds)
<1>1. t \in Tags /\ k \in Kinds /\ Tail(kinds) \in Seq(Kinds)
  BY DEF TypeOK, PlaceSmall
<1>2. used' \in [1 .. Frames -> 0 .. Cap] /\ sent' \subseteq Tags \X Kinds \X Nat /\ over' \in BOOLEAN
  <2>1. CASE FillToCache(1, IF job = "marks" THEN {} ELSE {<<t, k, 1>>}) /\ UNCHANGED over
    <3>1. used' \in [1 .. Frames -> 0 .. Cap]
      BY <2>1, FillToCacheType
    <3>2. sent' = sent \cup IF job = "marks" THEN {} ELSE {<<t, k, 1>>}
      BY <2>1 DEF FillToCache
    <3>3. <<t, k, 1>> \in Tags \X Kinds \X Nat
      BY <1>1
    <3> QED
      BY <2>1, <3>1, <3>2, <3>3 DEF TypeOK
  <2>2. CASE UNCHANGED <<used, sent>> /\ over' = TRUE
    BY <2>2 DEF TypeOK
  <2>3. CASE UNCHANGED <<used, sent, over>>
    BY <2>3 DEF TypeOK
  <2> QED
    BY <2>1, <2>2, <2>3 DEF PlaceSmall
<1> QED
  BY <1>1, <1>2 DEF TypeOK, PlaceSmall

LEMMA PictureType ==
  ASSUME TypeOK, Picture
  PROVE  TypeOK'
<1> DEFINE t == Head(queue)
<1>1. t \in Tags /\ Tail(queue) \in Seq(Tags) /\ Slices[t] \in Nat
  BY SlicesAssumption DEF TypeOK, Picture
<1>2. StartBlock(t) \in Nat
  BY <1>1 DEF StartBlock, TypeOK
<1>3. CASE job # "marks" /\ "pic" \in todo[t]
  <2>1. blk' \in Nat /\ cur' \in Nat
    BY <1>1, <1>2, <1>3 DEF Picture
  <2>2. idle' \in 0 .. Frames
    BY <1>3, EmptyFinite DEF Picture
  <2>3. /\ pc' \in {"visit", "slice"}
        /\ over' \in BOOLEAN
        /\ queue' \in Seq(Tags)
        /\ pc' = "slice" => queue' # <<>>
    BY <1>1, <1>3 DEF Picture, TypeOK
  <2> QED
    BY <1>3, <2>1, <2>2, <2>3 DEF Picture, TypeOK, tables
<1>4. CASE job = "marks" \/ "pic" \notin todo[t]
  <2>1. /\ prop' = IF job = "marks" THEN prop ELSE [prop EXCEPT ![t] = 0]
        /\ queue' = Tail(queue) /\ pc' = "visit"
        /\ UNCHANGED <<todo, sent, cursor, blk, used, job, kinds, over, idle, cur>>
    BY <1>4 DEF Picture, tables
  <2>2. prop' \in [Tags -> Nat]
    BY <2>1 DEF TypeOK
  <2> QED
    BY <1>1, <2>1, <2>2 DEF TypeOK
<1> QED
  BY <1>3, <1>4 DEF Picture

LEMMA PlaceSliceType ==
  ASSUME TypeOK, PlaceSlice
  PROVE  TypeOK'
<1> DEFINE t == Head(queue)
           size == SliceSize(t, cur)
<1>1. t \in Tags
  BY DEF TypeOK, PlaceSlice
<1>2. size \in Nat
  BY <1>1, SlicesAssumption, FramesAssumption DEF SliceSize
<1>3. CASE FillToCache(size, {<<t, "pic", cur>>}) /\ cur' = cur + 1 /\ UNCHANGED over
           /\ pc' = IF cur < Slices[t] THEN "slice" ELSE "keep"
  <2>1. used' \in [1 .. Frames -> 0 .. Cap]
    BY <1>2, <1>3, FillToCacheType
  <2>2. sent' = sent \cup {<<t, "pic", cur>>}
    BY <1>3 DEF FillToCache
  <2>3. <<t, "pic", cur>> \in Tags \X Kinds \X Nat
    BY <1>1 DEF TypeOK, Kinds
  <2> QED
    BY <1>3, <2>1, <2>2, <2>3 DEF TypeOK, PlaceSlice
<1>4. CASE over' = TRUE /\ pc' = "keep" /\ UNCHANGED <<used, sent, cur>>
  BY <1>4 DEF TypeOK, PlaceSlice
<1> QED
  BY <1>3, <1>4 DEF PlaceSlice

LEMMA NextType == TypeOK /\ [Next]_vars => TypeOK'
<1> SUFFICES ASSUME TypeOK, [Next]_vars
             PROVE  TypeOK'
  OBVIOUS
<1>1. ASSUME NEW t \in Tags, NEW ks \in Wanted, NewTask(t, ks)
      PROVE  TypeOK'
  BY <1>1, WantedAssumption DEF NewTask, TypeOK, row
<1>2. ASSUME NEW t \in Tags, NEW k \in Kinds, Ack(t, k)
      PROVE  TypeOK'
  BY <1>2 DEF Ack, TypeOK, row
<1>3. ASSUME PollMarks
      PROVE  TypeOK'
  BY <1>3, FromType, FillType DEF PollMarks, TypeOK
<1>4. ASSUME PollTasks
      PROVE  TypeOK'
  BY <1>4, FromType, FillType DEF PollTasks
<1>5. ASSUME NEW t \in Tags, NEW n \in 0 .. Slices[t], PollSingle(t, n)
      PROVE  TypeOK'
  <2>1. <<t>> \in Seq(Tags) /\ n \in Nat
    BY SlicesAssumption
  <2> QED
    BY <1>5, <2>1, FillType DEF PollSingle
<1>6. ASSUME FillWhite
      PROVE  TypeOK'
  <2>1. used' \in [1 .. Frames -> 0 .. Cap] /\ cursor' \in Tags \cup {None}
    BY <1>6, FramesAssumption, WhiteAssumption DEF FillWhite
  <2>2. UNCHANGED <<todo, sent, prop, blk, pc, job, queue, kinds, over, idle, cur>>
    BY <1>6 DEF FillWhite, tables, row
  <2> QED
    BY <2>1, <2>2 DEF TypeOK
<1>7. ASSUME StopFill
      PROVE  TypeOK'
  <2>1. cursor' \in Tags \cup {None} /\ pc' = "idle" /\ over' = FALSE
    BY <1>7 DEF StopFill, TypeOK
  <2>2. UNCHANGED <<todo, sent, prop, blk, used, job, queue, kinds, idle, cur>>
    BY <1>7 DEF StopFill, tables
  <2> QED
    BY <2>1, <2>2 DEF TypeOK
<1>8. ASSUME Visit
      PROVE  TypeOK'
  <2>1. Small \in Seq(Kinds) /\ Append(Small, "pic") \in Seq(Kinds)
    BY DEF Small, Kinds
  <2>2. kinds' \in Seq(Kinds)
    BY <1>8, <2>1 DEF Visit
  <2>3. cursor' \in Tags \cup {None} /\ pc' = "small" /\ queue # <<>>
    BY <1>8 DEF Visit, TypeOK
  <2>4. UNCHANGED <<todo, sent, prop, blk, used, job, queue, over, idle, cur>>
    BY <1>8 DEF Visit, tables
  <2> QED
    BY <2>2, <2>3, <2>4 DEF TypeOK
<1>9. ASSUME KeepBlock
      PROVE  TypeOK'
  <2>1. Head(queue) \in Tags /\ Tail(queue) \in Seq(Tags)
    BY <1>9 DEF KeepBlock, TypeOK
  <2>2. NextBlock(Head(queue)) \in Nat
    BY <2>1, SlicesAssumption DEF NextBlock, TypeOK
  <2> QED
    BY <1>9, <2>1, <2>2 DEF KeepBlock, TypeOK, tables, row
<1>10. CASE UNCHANGED vars
  BY <1>10 DEF vars, tables, row, TypeOK
<1> QED
  BY <1>1, <1>2, <1>3, <1>4, <1>5, <1>6, <1>7, <1>8, <1>9, <1>10,
     PlaceSmallType, PictureType, PlaceSliceType DEF Next, Fillings

\* The type invariant; with it, no frame is filled beyond SPI_PAYLOAD.
THEOREM TypeCorrect == Spec => []TypeOK
BY InitType, NextType, PTL DEF Spec

----------------------------------------------------------------------------
(* First-fit leaves no hole. A frame is taken only when no frame before it *)
(* has room, and an empty frame has room for everything.                   *)

LEMMA FillToCachePrefix ==
  ASSUME TypeOK, UsedFramesArePrefix, NEW size \in 1 .. Cap, NEW what,
         FillToCache(size, what)
  PROVE  UsedFramesArePrefix'
<1>1. PICK n \in 1 .. Frames : FirstFit(n, size) /\ used' = [used EXCEPT ![n] = @ + size]
  BY DEF FillToCache
<1> SUFFICES ASSUME NEW i \in 1 .. Frames, NEW j \in 1 .. Frames, i < j, used'[i] = 0
             PROVE  used'[j] = 0
  BY DEF UsedFramesArePrefix
<1>2. i # n /\ used[i] = 0
  BY <1>1, FramesAssumption DEF TypeOK
<1>3. i \in Fits(size)
  BY <1>2, FramesAssumption DEF Fits
<1>4. n <= i
  BY <1>1, <1>3 DEF FirstFit
<1>5. j # n
  BY <1>4, FramesAssumption
<1>6. used[j] = 0
  BY <1>2 DEF UsedFramesArePrefix
<1> QED
  BY <1>1, <1>5, <1>6 DEF TypeOK

LEMMA PrefixStep ==
  ASSUME TypeOK, UsedFramesArePrefix, [Next]_vars
  PROVE  UsedFramesArePrefix'
<1>1. CASE UNCHANGED used
  BY <1>1 DEF UsedFramesArePrefix
<1>2. CASE used' = [i \in 1 .. Frames |-> 0]
  BY <1>2 DEF UsedFramesArePrefix
<1>3. CASE PlaceSmall
  <2>1. CASE \E what : FillToCache(1, what)
    BY <2>1, FillToCachePrefix, FramesAssumption
  <2> QED
    BY <1>1, <1>3, <2>1 DEF PlaceSmall
<1>4. CASE PlaceSlice
  <2>1. SliceSize(Head(queue), cur) \in 1 .. Cap
    BY <1>4, SlicesAssumption, FramesAssumption DEF SliceSize, TypeOK, PlaceSlice
  <2>2. CASE \E what : FillToCache(SliceSize(Head(queue), cur), what)
    BY <2>1, <2>2, FillToCachePrefix
  <2> QED
    BY <1>1, <1>4, <2>2 DEF PlaceSlice
<1>5. CASE FillWhite
  BY <1>5, FramesAssumption DEF FillWhite, UsedFramesArePrefix
<1> QED
  BY <1>1, <1>2, <1>3, <1>4, <1>5
  DEF Next, Fillings, NewTask, Ack, PollMarks, PollTasks, PollSingle, Fill,
      StopFill, Visit, Picture, KeepBlock, vars

\* However slices and small tasks are mixed, the frames with data are the first
\* ones: the sending loop, which stops at the first empty frame, sends them all.
THEOREM FramesArePrefix == Spec => []UsedFramesArePrefix
<1>1. Init => TypeOK /\ UsedFramesArePrefix
  BY InitType DEF Init, UsedFramesArePrefix
<1>2. TypeOK /\ UsedFramesArePrefix /\ [Next]_vars => TypeOK' /\ UsedFramesArePrefix'
  BY NextType, PrefixStep
<1> QED
  BY <1>1, <1>2, PTL DEF Spec

----------------------------------------------------------------------------
(* The block kept for a tag. It is computed as the block the picture began  *)
(* at plus the number of empty frames; that no slice placed in between is   *)
(* skipped rests on each full slice taking exactly one of them. Where the   *)
(* picture began is the block kept before, or one up to which the board has *)
(* all slices, or what a traversal carried over from an earlier row.        *)

Sent(t, n) == \A i \in 1 .. n : <<t, "pic", i>> \in sent

\* Where the picture of t begins in this round.
Begun(t) == \/ blk = 0
            \/ blk = prop[t] - 1
            \/ job = "tasks"
            \/ job = "single" /\ Sent(t, blk)

\* While the slices of t are placed: those from the first to the one before cur
\* are with the board, and each of them took a frame that was empty.
Placing(t) ==
  /\ Begun(t)
  /\ blk < cur
  /\ \A i \in blk + 1 .. cur - 1 : <<t, "pic", i>> \in sent
  /\ pc = "slice" /\ Slices[t] > 0 =>
       cur <= Slices[t] /\ Cardinality(Empty) + cur = idle + blk + 1
  /\ pc = "slice" /\ Slices[t] = 0 => blk = 0
  /\ pc = "keep" => NextBlock(t) <= cur

Resume ==
  /\ job = "single" => Len(queue) <= 1
  /\ job = "single" /\ queue # <<>> /\ pc \in {"visit", "small"} =>
       Sent(Head(queue), blk - 1)
  /\ pc \in {"slice", "keep"} => Placing(Head(queue))

\* No frame is empty when a slice does not fit; a full slice takes an empty one.
LEMMA EmptyAndFits ==
  ASSUME TypeOK, NEW size \in 1 .. Cap
  PROVE  /\ Empty \subseteq Fits(size)
         /\ Fits(Cap) \subseteq Empty
BY FramesAssumption DEF TypeOK, Empty, Fits

LEMMA FullSliceTakesEmpty ==
  ASSUME TypeOK, NEW what, FillToCache(Cap, what)
  PROVE  Cardinality(Empty') = Cardinality(Empty) - 1
<1>1. PICK n \in 1 .. Frames : FirstFit(n, Cap) /\ used' = [used EXCEPT ![n] = @ + Cap]
  BY DEF FillToCache
<1>2. n \in Empty
  BY <1>1, FramesAssumption DEF FirstFit, Fits, Empty, TypeOK
<1>3. Empty' = Empty \ {n}
  BY <1>1, <1>2, FramesAssumption DEF Empty, TypeOK
<1> QED
  BY <1>2, <1>3, EmptyFinite, FS_RemoveElement

\* A picture begins where one of the four says.
LEMMA PictureResumes ==
  ASSUME TypeOK, Resume, Picture
  PROVE  Resume'
<1> DEFINE t == Head(queue)
           n == StartBlock(t)
<1>1. t \in Tags /\ Slices[t] \in Nat /\ prop[t] \in Nat /\ blk \in Nat
  BY SlicesAssumption DEF TypeOK, Picture
<1>2. sent' = sent /\ job' = job /\ used' = used
  BY DEF Picture, tables
<1>3. CASE job # "marks" /\ "pic" \in todo[t]
  <2>1. blk' = (IF n > 0 THEN n - 1 ELSE 0) /\ cur' = blk' + 1
        /\ idle' = Cardinality(Empty) /\ prop' = prop
    BY <1>3 DEF Picture
  <2>2. n \in Nat /\ n <= Slices[t] /\ (n = 0 \/ n = prop[t] \/ n = blk)
    BY <1>1 DEF StartBlock
  <2>3. blk' = 0 \/ blk' = n - 1
    BY <2>1, <2>2
  <2>4. blk' \in Nat /\ cur' \in Nat /\ cur' = blk' + 1
    BY <2>1, <2>2
  <2>5. blk' < cur' /\ blk' + 1 .. cur' - 1 = {}
    <3>1. \A a \in Nat : a < a + 1 /\ a + 1 .. (a + 1) - 1 = {}
      OBVIOUS
    <3> QED
      BY <2>4, <3>1, Zenon
  <2>6. blk' = 0 \/ blk' = prop[t] - 1 \/ job = "tasks"
        \/ (job = "single" /\ \A i \in 1 .. blk' : <<t, "pic", i>> \in sent')
    <3>1. CASE n = blk /\ job = "single"
      <4>1. Sent(t, blk - 1)
        BY <3>1 DEF Resume, TypeOK, Picture
      <4>2. CASE blk' = n - 1
        BY <1>2, <3>1, <4>1, <4>2 DEF Sent
      <4>3. QED
        BY <2>3, <4>2
    <3>2. job \in {"tasks", "single"}
      BY <1>3 DEF TypeOK
    <3>3. QED
      BY <2>2, <2>3, <3>1, <3>2
  <2>7. CASE pc' = "visit" /\ queue' = Tail(queue)
    <3>1. job = "single" => queue' = <<>>
      BY <2>7 DEF Resume, TypeOK, Picture
    <3> QED
      BY <1>2, <2>7, <3>1 DEF Resume
  <2>8. CASE pc' = "slice" /\ queue' = queue
    <3>1. Empty' = Empty
      BY <1>2 DEF Empty
    <3>2. Begun(t)'
      BY <1>2, <2>1, <2>6, <2>8 DEF Begun, Sent
    <3>3. \A i \in blk' + 1 .. cur' - 1 : <<t, "pic", i>> \in sent'
      BY <2>5
    <3>4. Slices[t] > 0 => cur' <= Slices[t]
      BY <1>1, <2>1, <2>2
    <3>5. Slices[t] = 0 => blk' = 0
      BY <1>1, <2>1, <2>2
    <3>6. Cardinality(Empty') + cur' = idle' + blk' + 1
      BY <2>1, <2>4, <3>1, EmptyFinite, FramesAssumption
    <3>7. blk' < cur'
      BY <2>5
    <3>8. Placing(t)'
      BY <2>8, <3>2, <3>3, <3>4, <3>5, <3>6, <3>7 DEF Placing
    <3> QED
      BY <1>2, <2>8, <3>8 DEF Resume
  <2> QED
    BY <1>3, <2>7, <2>8 DEF Picture
<1>4. CASE job = "marks" \/ "pic" \notin todo[t]
  <2>1. queue' = Tail(queue) /\ pc' = "visit" /\ blk' = blk
    BY <1>4 DEF Picture
  <2>2. job = "single" => queue' = <<>>
    BY <2>1 DEF Resume, TypeOK, Picture
  <2> QED
    BY <1>2, <2>1, <2>2 DEF Resume
<1> QED
  BY <1>3, <1>4 DEF Picture

LEMMA PlaceSliceResumes ==
  ASSUME TypeOK, Resume, PlaceSlice
  PROVE  Resume'
<1> DEFINE t == Head(queue)
           size == SliceSize(t, cur)
<1>1. /\ t \in Tags /\ Slices[t] \in Nat
      /\ size \in 1 .. Cap
      /\ Placing(t)
  BY SlicesAssumption, FramesAssumption DEF TypeOK, PlaceSlice, SliceSize, Resume
<1>2. UNCHANGED <<prop, blk, job, queue, idle>>
  BY DEF PlaceSlice
<1>3. /\ cur \in Nat /\ blk \in Nat /\ idle \in Nat /\ Cardinality(Empty) \in Nat
      /\ blk < cur /\ pc = "slice"
  BY <1>1, EmptyFinite, FramesAssumption DEF TypeOK, PlaceSlice, Placing
<1>4. ASSUME Placing(t)', pc' \in {"slice", "keep"}
      PROVE  Resume'
  BY <1>1, <1>2, <1>4 DEF Resume, PlaceSlice
<1>5. sent \subseteq sent' => Begun(t)'
  BY <1>1, <1>2 DEF Placing, Begun, Sent
<1>6. CASE /\ Slices[t] > 0
           /\ FillToCache(size, {<<t, "pic", cur>>})
           /\ cur' = cur + 1
           /\ pc' = IF cur < Slices[t] THEN "slice" ELSE "keep"
  <2>1. sent' = sent \cup {<<t, "pic", cur>>}
    BY <1>6 DEF FillToCache
  <2>2. \A i \in blk' + 1 .. cur' - 1 : <<t, "pic", i>> \in sent'
    BY <1>1, <1>2, <1>3, <1>6, <2>1 DEF Placing
  <2>3. cur <= Slices[t]
    BY <1>1, <1>3, <1>6 DEF Placing
  <2>4. CASE cur < Slices[t]
    <3>1. size = Cap
      BY <2>4 DEF SliceSize
    <3>2. Cardinality(Empty') = Cardinality(Empty) - 1
      BY <1>6, <3>1, FullSliceTakesEmpty
    <3>3. cur' <= Slices[t] /\ Cardinality(Empty') + cur' = idle' + blk' + 1
      BY <1>1, <1>2, <1>3, <1>6, <2>4, <3>2 DEF Placing
    <3>4. Placing(t)'
      BY <1>1, <1>2, <1>3, <1>5, <1>6, <2>1, <2>2, <2>4, <3>3 DEF Placing
    <3> QED
      BY <1>4, <1>6, <3>4
  <2>5. CASE cur = Slices[t]
    <3>1. NextBlock(t)' <= cur'
      BY <1>1, <1>2, <1>3, <1>6, <2>5 DEF NextBlock
    <3>2. Placing(t)'
      BY <1>1, <1>2, <1>3, <1>5, <1>6, <2>1, <2>2, <2>5, <3>1 DEF Placing
    <3> QED
      BY <1>4, <1>6, <2>5, <3>2
  <2> QED
    BY <1>1, <1>3, <2>3, <2>4, <2>5
<1>7. CASE /\ Slices[t] = 0 \/ Fits(size) = {}
           /\ pc' = "keep"
           /\ UNCHANGED <<used, sent, cur>>
  <2>1. NextBlock(t) <= cur
    <3>1. CASE Slices[t] = 0
      BY <1>1, <1>3, <3>1 DEF NextBlock
    <3>2. CASE Slices[t] > 0 /\ Fits(size) = {}
      <4>1. Empty = {}
        BY <1>1, <3>2, EmptyAndFits
      <4>2. cur = idle + blk + 1
        BY <1>1, <1>3, <3>2, <4>1, FS_EmptySet DEF Placing
      <4> QED
        BY <1>1, <1>3, <4>2 DEF NextBlock
    <3> QED
      BY <1>1, <1>7, <3>1, <3>2
  <2>2. Placing(t)'
    BY <1>1, <1>2, <1>3, <1>5, <1>7, <2>1 DEF Placing, NextBlock
  <2> QED
    BY <1>4, <1>7, <2>2
<1> QED
  BY <1>6, <1>7 DEF PlaceSlice

LEMMA ResumeStep ==
  ASSUME TypeOK, Resume, [Next]_vars
  PROVE  Resume'
<1>1. CASE \E t \in Tags, ks \in Wanted : NewTask(t, ks)
  BY <1>1 DEF NewTask, Resume
<1>2. CASE \E t \in Tags, k \in Kinds : Ack(t, k)
  BY <1>2 DEF Ack, Resume
<1>3. CASE PollMarks \/ PollTasks
  BY <1>3 DEF PollMarks, PollTasks, Fill, Resume
<1>4. ASSUME NEW t \in Tags, NEW n \in 0 .. Slices[t], PollSingle(t, n)
      PROVE  Resume'
  <2>1. n \in Nat
    BY SlicesAssumption
  <2>2. Sent(t, n - 1)
    BY <1>4, <2>1 DEF PollSingle, Sent
  <2>3. /\ sent' = sent /\ queue' = <<t>> /\ blk' = n
        /\ pc' = "visit" /\ job' = "single"
    BY <1>4 DEF PollSingle, Fill, tables
  <2>4. Len(queue') = 1 /\ Head(queue') = t
    BY <2>3
  <2> QED
    BY <2>2, <2>3, <2>4 DEF Resume, Sent
<1>5. CASE FillWhite
  BY <1>5 DEF FillWhite, Resume
<1>6. CASE StopFill
  BY <1>6 DEF StopFill, Resume
<1>7. CASE Visit
  BY <1>7 DEF Visit, Resume, Sent, tables
<1>8. CASE PlaceSmall
  <2>1. sent \subseteq sent'
    BY <1>8 DEF PlaceSmall, FillToCache
  <2>2. UNCHANGED <<blk, pc, job, queue>> /\ pc = "small"
    BY <1>8 DEF PlaceSmall
  <2> QED
    BY <2>1, <2>2 DEF Resume, Sent
<1>9. CASE KeepBlock
  <2>1. queue' = Tail(queue) /\ pc' = "visit" /\ job' = job
    BY <1>9 DEF KeepBlock
  <2>2. job = "single" => queue' = <<>>
    BY <1>9, <2>1 DEF Resume, TypeOK, KeepBlock
  <2> QED
    BY <2>1, <2>2 DEF Resume
<1>10. CASE UNCHANGED vars
  BY <1>10 DEF vars, tables, row, Resume, Sent, Placing, Begun, Empty, NextBlock
<1> QED
  BY <1>1, <1>2, <1>3, <1>4, <1>5, <1>6, <1>7, <1>8, <1>9, <1>10,
     PictureResumes, PlaceSliceResumes DEF Next, Fillings

\* The block that is kept leaves out what the one before did, unless the picture
\* began with a block carried over.
LEMMA KeptBlockSkips ==
  ASSUME TypeOK, Resume, KeepBlock, NEW s \in Tags, ~ Carried(s)
  PROVE  Skipped(s)' \subseteq Skipped(s)
<1> DEFINE t == Head(queue)
<1>1. t \in Tags
  BY DEF TypeOK, KeepBlock
<1>2. /\ t \in Tags /\ prop[t] \in Nat
      /\ cur \in Nat /\ blk \in Nat /\ idle \in Nat /\ Slices[t] \in Nat
  BY <1>1, SlicesAssumption, FramesAssumption DEF TypeOK
<1>3. Placing(t) /\ NextBlock(t) <= cur
  BY DEF KeepBlock, Resume, Placing
<1>4. prop' \in {prop, [prop EXCEPT ![t] = NextBlock(t)]} /\ sent' = sent
  BY DEF KeepBlock, tables
<1>5. CASE prop'[s] = prop[s]
  BY <1>4, <1>5 DEF Skipped
<1>6. CASE s = t /\ prop'[s] = NextBlock(t)
  <2> SUFFICES ASSUME NEW i \in Skipped(s)' PROVE i \in Skipped(s)
    OBVIOUS
  <2>1. NextBlock(t) \in Nat
    BY <1>2 DEF NextBlock
  <2>2. i \in 1 .. NextBlock(t) - 1 /\ <<t, "pic", i>> \notin sent
    BY <1>4, <1>6 DEF Skipped
  <2>3. i \in 1 .. cur - 1
    BY <1>2, <1>3, <2>1, <2>2
  <2>4. i \in 1 .. blk
    BY <1>2, <1>3, <2>2, <2>3 DEF Placing
  <2>5. blk = prop[t] - 1
    <3>1. ~ (job = "single" /\ Sent(t, blk))
      BY <2>2, <2>4 DEF Sent
    <3>2. job = "tasks" => blk = prop[t] - 1
      BY <1>2, <1>6, <2>4 DEF Carried
    <3>3. QED
      BY <1>2, <1>3, <2>4, <3>1, <3>2 DEF Placing, Begun
  <2>6. QED
    BY <1>6, <2>2, <2>4, <2>5 DEF Skipped
<1>7. QED
  BY <1>4, <1>5, <1>6 DEF TypeOK

LEMMA SkipsNoMore ==
  ASSUME TypeOK, Resume, [Next]_vars, NEW s \in Tags
  PROVE  \/ Skipped(s)' \subseteq Skipped(s)
         \/ \E ks \in Wanted : NewTask(s, ks)
         \/ KeepBlock /\ Carried(s)
<1>1. ASSUME prop'[s] = prop[s], sent \subseteq sent'
      PROVE  Skipped(s)' \subseteq Skipped(s)
  BY <1>1 DEF Skipped
<1>2. ASSUME NEW t \in Tags, NEW ks \in Wanted, NewTask(t, ks), s # t
      PROVE  Skipped(s)' \subseteq Skipped(s)
  BY <1>2 DEF NewTask, Skipped
<1>3. CASE \E t \in Tags, k \in Kinds : Ack(t, k)
  BY <1>1, <1>3 DEF Ack
<1>4. CASE PollMarks \/ PollTasks \/ \E t \in Tags : \E n \in 0 .. Slices[t] : PollSingle(t, n)
  BY <1>1, <1>4 DEF PollMarks, PollTasks, PollSingle, Fill, tables
<1>5. CASE FillWhite \/ StopFill \/ Visit
  BY <1>1, <1>5 DEF FillWhite, StopFill, Visit, tables
<1>6. CASE PlaceSmall \/ PlaceSlice
  BY <1>1, <1>6 DEF PlaceSmall, PlaceSlice, FillToCache
<1>7. CASE Picture
  <2>1. sent' = sent /\ (prop'[s] = prop[s] \/ prop'[s] = 0)
    BY <1>7 DEF Picture, tables, TypeOK
  <2>2. QED
    BY <1>1, <2>1 DEF Skipped
<1>8. CASE KeepBlock
  BY <1>8, KeptBlockSkips
<1>9. CASE UNCHANGED vars
  BY <1>1, <1>9 DEF vars, tables
<1> QED
  BY <1>2, <1>3, <1>4, <1>5, <1>6, <1>7, <1>8, <1>9 DEF Next, Fillings

\* Whatever boards ask for, in whatever order, and whatever tasks replace others:
\* for every table, number of frames and length of pictures, the block kept for a
\* tag comes to leave out a slice that the board was not given only by a new
\* picture of that tag, or by a block carried over in a traversal.
THEOREM KeptBlocksSkipNothing == Spec => NoSliceSkipped
<1>1. Init => TypeOK /\ Resume
  BY InitType DEF Init, Resume
<1>2. TypeOK /\ Resume /\ [Next]_vars => TypeOK' /\ Resume'
  BY NextType, ResumeStep
<1>3. TypeOK /\ Resume /\ [Next]_vars
      => [\A t \in Tags : \/ Skipped(t)' \subseteq Skipped(t)
                          \/ \E ks \in Wanted : NewTask(t, ks)
                          \/ KeepBlock /\ Carried(t)]_vars
  BY SkipsNoMore
<1> QED
  BY <1>1, <1>2, <1>3, PTL DEF Spec, NoSliceSkipped
=============================================================================
