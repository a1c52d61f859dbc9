------------------------------ MODULE SpiFill ------------------------------
(***************************************************************************)
(* How a radio board thread (serialThread.c) hands tasks to its board.     *)
(*                                                                         *)
(* In every round the board asks for something (ResponseProbe.key); the    *)
(* thread empties its frames, traverses the task table from the row where  *)
(* the last traversal stopped, puts tasks into the frames first-fit until  *)
(* one no longer fits, and sends the frames up to the first empty one. A   *)
(* picture is cut into slices of one frame each; how far it got is kept    *)
(* per tag in ed_list (EDProperty.block).                                  *)
(*                                                                         *)
(* The whole fill runs under the read lock, so tasks change, and tags      *)
(* report, only between two rounds. Sizes are counted in units: a frame    *)
(* holds Cap of them, a slice that is not the last one Cap (its BigTask    *)
(* fills SPI_PAYLOAD exactly), a small task or an announcement one. The    *)
(* pages of a task are one picture: the code sends the first marked one.   *)
(* An NFC text is one unit, also one of several slices: those always begin *)
(* with the first, and a text longer than the frames is never sent whole.  *)
(***************************************************************************)
EXTENDS Integers, Sequences, FiniteSets

CONSTANTS
  Tags,       \* the tags of the task table
  Order,      \* its rows in list order
  None,       \* EDID 0
  Frames,     \* number of frames (cachelist.size, 10 in the code)
  Cap,        \* units of a frame
  Slices,     \* Slices[t]: number of slices of t's picture
  LastSize,   \* LastSize[t]: units of the last of them
  EmptyNfc,   \* the tags whose NFC text is empty
  Jobs,       \* what boards ask for: "tasks", "single", "marks", "white"
  Wanted,     \* the sets of tasks a tag can be given at once
  Replaced,   \* the tags that can be given tasks again
  WhiteStops, \* the listed tags at which the frames may be full
  InRange     \* the tags that answer (fairness only)

Small == <<"page", "led", "nfc">>     \* one small frame each, in this order
Kinds == {"page", "led", "nfc", "pic"}

ASSUME OrderAssumption == /\ Order \in Seq(Tags)
                          /\ \A t \in Tags : \E i \in DOMAIN Order : Order[i] = t
                          /\ None \notin Tags
ASSUME FramesAssumption == Frames \in Nat /\ Cap \in Nat \ {0}
ASSUME SlicesAssumption == /\ Slices \in [Tags -> Nat]
                           /\ LastSize \in [Tags -> 1 .. Cap]
ASSUME WantedAssumption == Wanted \subseteq SUBSET Kinds
ASSUME WhiteAssumption == WhiteStops \subseteq Tags

VARIABLES
  todo,     \* todo[t]: tasks whose marks t has not reported back yet
  sent,     \* <<t, kind, slice>> handed to the board since the task was made
  prop,     \* prop[t]: EDProperty.block of t, 0 if t is not in ed_list
  cursor,   \* cachelist.last_edid
  blk,      \* cachelist.which.block
  used,     \* used[i]: units in frame i (cache[i].idx)
  pc,       \* "idle", "visit", "small", "slice", "keep"
  job,      \* what this round fills in
  queue,    \* rows still to visit in this round
  kinds,    \* small tasks of the visited row still to place
  over,     \* the return value of the row's callback is not zero
  idle,     \* empty frames when the picture began
  cur       \* next slice of it

vars == <<todo, sent, prop, cursor, blk, used, pc, job, queue, kinds, over, idle, cur>>
tables == <<todo, sent>>
row == <<kinds, over, idle, cur>>

Blocks(t) == {<<t, "pic", i>> : i \in 1 .. Slices[t]}

Init ==
  /\ todo = [t \in Tags |-> {}]
  /\ sent = {}
  /\ prop = [t \in Tags |-> 0]
  /\ cursor = None
  /\ blk = 0
  /\ used = [i \in 1 .. Frames |-> 0]
  /\ pc = "idle" /\ job = "tasks" /\ queue = <<>>
  /\ kinds = <<>> /\ over = FALSE /\ idle = 0 /\ cur = 0

----------------------------------------------------------------------------
(* Between two rounds.                                                     *)

\* A command marks tasks for a tag. The slices the board has of an earlier
\* task of the same kind are of no use any more.
NewTask(t, ks) ==
  /\ pc = "idle"
  /\ t \in Replaced \/ (todo[t] = {} /\ \A x \in sent : x[1] # t)
  /\ todo' = [todo EXCEPT ![t] = @ \cup ks]
  /\ sent' = {x \in sent : x[1] # t \/ x[2] \notin ks}
  /\ UNCHANGED <<prop, cursor, blk, used, pc, job, queue, row>>

\* A tag that has got all of a task reports its mark (process_status).
Ack(t, k) ==
  /\ pc = "idle"
  /\ k \in todo[t]
  /\ IF k = "pic" THEN Blocks(t) # {} /\ Blocks(t) \subseteq sent
                  ELSE <<t, k, 1>> \in sent
  /\ todo' = [todo EXCEPT ![t] = @ \ {k}]
  /\ UNCHANGED <<sent, prop, cursor, blk, used, pc, job, queue, row>>

\* The rows from the one with key c on, all of them if there is none
\* (db_cached_traverse_row).
From(c) ==
  IF \E i \in DOMAIN Order : Order[i] = c
    THEN SubSeq(Order, CHOOSE i \in DOMAIN Order : Order[i] = c, Len(Order))
    ELSE Order

\* The frames are emptied and a fill of q begins. which.block keeps its value
\* unless the probe of a task request brings one.
Fill(j, q, b) ==
  /\ pc = "idle"
  /\ j \in Jobs
  /\ used' = [i \in 1 .. Frames |-> 0]
  /\ job' = j
  /\ queue' = q
  /\ blk' = b
  /\ pc' = "visit"
  /\ UNCHANGED <<tables, prop, cursor, row>>

PollMarks == Fill("marks", From(cursor), blk)
PollTasks == Fill("tasks", From(cursor), 0)
\* The board asks for one tag: for what comes next (0) or for a slice it does
\* not have, all those before it being there.
PollSingle(t, b) ==
  /\ b > 0 => {<<t, "pic", i>> : i \in 1 .. b - 1} \subseteq sent
  /\ Fill("single", <<t>>, b)

\* The white list is traversed with the same cursor. Its rows are four bytes each
\* and fill one frame after the other. If all fit the traversal ends at the
\* list's end and clears the cursor; else it stops at a listed tag, with all
\* frames full.
FillWhite ==
  /\ pc = "idle"
  /\ "white" \in Jobs
  /\ \E n \in 0 .. Frames, rest \in 0 .. Cap :
       /\ used' = [i \in 1 .. Frames |-> IF i <= n THEN Cap
                                       ELSE IF i = n + 1 THEN rest ELSE 0]
       /\ cursor' \in {None} \cup (IF n = Frames THEN WhiteStops ELSE {})
  /\ UNCHANGED <<tables, prop, blk, pc, job, queue, row>>

----------------------------------------------------------------------------
(* The callback of a row: get_tasks for the marks, get_tasks2 otherwise.   *)

\* The traversal stops at a row that did not fit, or at the end of the list,
\* where it clears the cursor.
StopFill ==
  /\ pc = "visit"
  /\ over \/ queue = <<>>
  /\ cursor' = IF ~over /\ job # "single" THEN None ELSE cursor
  /\ pc' = "idle"
  /\ over' = FALSE
  /\ UNCHANGED <<tables, prop, blk, used, job, queue, kinds, idle, cur>>

Visit ==
  /\ pc = "visit"
  /\ ~over
  /\ queue # <<>>
  /\ cursor' = Head(queue)
  /\ kinds' = IF job = "marks" THEN Append(Small, "pic") ELSE Small
  /\ pc' = "small"
  /\ UNCHANGED <<tables, prop, blk, used, job, queue, over, idle, cur>>

\* Mutants: a frame is taken that lacks one unit; the last frame is taken.
FitsOneMore(size) == {i \in 1 .. Frames : Cap - used[i] + 1 >= size}

\* The frame fill_to_cache takes: the first one with room.
Fits(size) == {i \in 1 .. Frames : Cap - used[i] >= size}
LastFit(i, size) == i \in Fits(size) /\ \A j \in Fits(size) : i >= j
FirstFit(i, size) == i \in Fits(size) /\ \A j \in Fits(size) : i <= j

\* Puts size units into a frame; what is what the board gets with them.
FillToCache(size, what) ==
  /\ \E i \in 1 .. Frames : /\ FirstFit(i, size)
                            /\ used' = [used EXCEPT ![i] = @ + size]
  /\ sent' = sent \cup what

\* The next small task (or announcement) is placed, or does not fit, or is not
\* wanted. An NFC task without text has zero slices, which fill_big_task
\* refuses.
PlaceSmall ==
  /\ pc = "small"
  /\ kinds # <<>>
  /\ LET t == Head(queue)
         k == Head(kinds)
         zero == k = "nfc" /\ t \in EmptyNfc /\ job # "marks"
     IN  \/ /\ k \in todo[t]
            /\ ~zero
            /\ FillToCache(1, IF job = "marks" THEN {} ELSE {<<t, k, 1>>})
            /\ UNCHANGED over
         \/ /\ k \in todo[t]
            /\ zero \/ Fits(1) = {}
            /\ over' = TRUE
            /\ UNCHANGED <<used, sent>>
         \/ /\ k \notin todo[t]
            /\ UNCHANGED <<used, sent, over>>
  /\ kinds' = Tail(kinds)
  /\ UNCHANGED <<todo, prop, cursor, blk, pc, job, queue, idle, cur>>

\* Mutant: the block asked for is not looked at.
StartBlockKept(t) == IF prop[t] > Slices[t] THEN 0 ELSE prop[t]

\* Where the picture of t resumes: at the block asked for, else at the one
\* kept for the tag; a block beyond the picture is ignored.
StartBlock(t) ==
  LET b == IF blk = 0 THEN prop[t] ELSE blk IN IF b > Slices[t] THEN 0 ELSE b
Empty == {i \in 1 .. Frames : used[i] = 0}

Picture ==
  /\ pc = "small"
  /\ kinds = <<>>
  /\ LET t == Head(queue)
         b == StartBlock(t)
     IN  \/ /\ job # "marks"
            /\ "pic" \in todo[t]
            /\ blk' = IF b > 0 THEN b - 1 ELSE 0
            /\ cur' = blk' + 1
            /\ idle' = Cardinality(Empty)
            /\ IF idle' = 0 /\ Slices[t] - blk' < 1
                 THEN pc' = "visit" /\ over' = TRUE /\ queue' = Tail(queue)
                 ELSE pc' = "slice" /\ UNCHANGED <<over, queue>>
            /\ UNCHANGED prop
         \/ /\ job = "marks" \/ "pic" \notin todo[t]
            /\ prop' = IF job = "marks" THEN prop ELSE [prop EXCEPT ![t] = 0]
            /\ queue' = Tail(queue)
            /\ pc' = "visit"
            /\ UNCHANGED <<blk, cur, idle, over>>
  /\ UNCHANGED <<tables, cursor, used, job, kinds>>

SliceSize(t, i) == IF i < Slices[t] THEN Cap ELSE LastSize[t]

\* fill_big_task: the slices in turn, until one does not fit. A picture of
\* zero slices is refused.
PlaceSlice ==
  /\ pc = "slice"
  /\ LET t == Head(queue)
         size == SliceSize(t, cur)
     IN  \/ /\ Slices[t] > 0
            /\ FillToCache(size, {<<t, "pic", cur>>})
            /\ cur' = cur + 1
            /\ pc' = IF cur < Slices[t] THEN "slice" ELSE "keep"
            /\ UNCHANGED over
         \/ /\ Slices[t] = 0 \/ Fits(size) = {}
            /\ over' = TRUE
            /\ pc' = "keep"
            /\ UNCHANGED <<used, sent, cur>>
  /\ UNCHANGED <<todo, prop, cursor, blk, job, queue, kinds, idle>>

\* Mutant: one block is left out.
NextBlockOffByOne(t) ==
  LET b == blk + idle + 2 IN IF b >= Slices[t] THEN 1 ELSE b

\* The block to resume at: as many slices on as there were empty frames.
NextBlock(t) == LET b == blk + idle + 1 IN IF b >= Slices[t] THEN 1 ELSE b

\* Mutant: the block of a tag new in ed_list is not kept.
KeepBlockForgets ==
  /\ pc = "keep"
  /\ queue' = Tail(queue)
  /\ pc' = "visit"
  /\ UNCHANGED <<tables, prop, cursor, blk, used, job, row>>

KeepBlock ==
  /\ pc = "keep"
  /\ LET t == Head(queue)
     IN prop' = IF over \/ prop[t] > 0
                  THEN [prop EXCEPT ![t] = NextBlock(t)] ELSE prop
  /\ queue' = Tail(queue)
  /\ pc' = "visit"
  /\ UNCHANGED <<tables, cursor, blk, used, job, row>>

Fillings == StopFill \/ Visit \/ PlaceSmall \/ Picture \/ PlaceSlice \/ KeepBlock

Next ==
  \/ \E t \in Tags, ks \in Wanted : NewTask(t, ks)
  \/ \E t \in Tags, k \in Kinds : Ack(t, k)
  \/ PollMarks
  \/ PollTasks
  \/ \E t \in Tags : \E b \in 0 .. Slices[t] : PollSingle(t, b)
  \/ FillWhite
  \/ Fillings

\* A board asks for the first slice that it lacks of t's picture.
AskMissing(t) == \E b \in 1 .. Slices[t] : <<t, "pic", b>> \notin sent /\ PollSingle(t, b)

\* The thread finishes its rounds, the boards keep asking for tasks (other
\* requests in between or not), and a tag in range reports what it got.
Fairness ==
  /\ WF_vars(Fillings)
  /\ SF_vars(PollTasks)
  /\ \A t \in InRange : SF_vars(\E k \in Kinds : Ack(t, k))

Spec == Init /\ [][Next]_vars
FairSpec == Spec /\ Fairness

\* Nothing is known of the boards but that they go on asking for what they lack.
AskSpec == /\ Spec
           /\ WF_vars(Fillings)
           /\ \A t \in InRange : SF_vars(AskMissing(t))

----------------------------------------------------------------------------
(* Properties.                                                             *)

TypeOK ==
  /\ todo \in [Tags -> SUBSET Kinds]
  /\ sent \subseteq Tags \X Kinds \X Nat
  /\ prop \in [Tags -> Nat]
  /\ cursor \in Tags \cup {None}
  /\ blk \in Nat
  /\ used \in [1 .. Frames -> 0 .. Cap]
  /\ pc \in {"idle", "visit", "small", "slice", "keep"}
  /\ job \in {"tasks", "single", "marks"}
  /\ queue \in Seq(Tags)
  /\ kinds \in Seq(Kinds)
  /\ over \in BOOLEAN
  /\ idle \in 0 .. Frames
  /\ cur \in Nat
  /\ pc \in {"small", "slice", "keep"} => queue # <<>>
  /\ pc = "idle" => ~over

\* The thread sends the frames up to the first empty one (the break in the
\* sending loop of ThreadSerial). First-fit leaves no frame with data behind an
\* empty one, whatever slices and small tasks are mixed, so none is forgotten.
UsedFramesArePrefix ==
  \A i, j \in 1 .. Frames : (i < j /\ used[i] = 0) => used[j] = 0

\* The slices that resuming at the block kept for t leaves out.
Skipped(t) == {i \in 1 .. prop[t] - 1 : <<t, "pic", i>> \notin sent}

\* which.block of an earlier row of a traversal is where t's picture began.
Carried(t) == job = "tasks" /\ blk > 0 /\ blk # prop[t] - 1

\* The block kept for a tag leaves out only slices that the board has been given:
\* EDProperty.block is computed from the number of empty frames
\* (serialThread.c:1180), not from what fill_big_task placed. There are two ways
\* to leave out others: a new picture that replaces one not finished, since the
\* block is kept; and which.block, meant for the one tag asked for
\* (serialThread.c:207) but still set when the next row of a traversal is visited.
NoSliceSkipped ==
  [][\A t \in Tags : \/ Skipped(t)' \subseteq Skipped(t)
                     \/ \E ks \in Wanted : NewTask(t, ks)
                     \/ KeepBlock /\ Carried(t)]_vars

\* Whatever a tag in range is to be given, it gets and reports in the end.
Delivered == \A t \in InRange : todo[t] # {} ~> todo[t] = {}

\* A board that goes on asking for the first slice it lacks gets the whole
\* picture, whatever it asks for besides and wherever traversals stop or start
\* over, unless tasks are set for this tag again and again.
AskedForIsGiven ==
  \A t \in InRange :
    "pic" \in todo[t] ~> \/ "pic" \notin todo[t] \/ Blocks(t) \subseteq sent
=============================================================================
