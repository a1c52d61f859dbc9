------------------------- MODULE TaskDeliveryProofs -------------------------
(***************************************************************************)
(* Theorems about TaskDelivery, for any boards, slices, length of the      *)
(* cycle of stamps and number of pictures.                                 *)
(***************************************************************************)
EXTENDS TaskDelivery, TLAPS

USE DEF Stamps, Pics

LEMMA StampIsStamp == ASSUME NEW t \in Int PROVE StampOf(t) \in 1..Cycle
<1>1. t % Cycle \in 0..Cycle - 1
  BY TaskDeliveryAssumption
<1>2. QED
  BY <1>1, TaskDeliveryAssumption DEF StampOf

-----------------------------------------------------------------------------
(***************************************************************************)
(* Types                                                                   *)
(***************************************************************************)
\* A row that exists has a picture; the server is never told stamp 0.
RowTyped(r) == r # None => r \in [stamp : Stamps, pic : Pics, success : BOOLEAN]

Typed == /\ now \in Int /\ count \in 0..MaxPics
         /\ RowTyped(task) /\ status \in Stamps
         /\ saved = [task |-> saved.task, status |-> saved.status]
         /\ RowTyped(saved.task) /\ saved.status \in Stamps
         /\ board \in [Boards -> Slice \cup {None}]
         /\ report \in [Boards -> Stamps \cup {None}]
         /\ tag \in [stamp : Stamps, got : SUBSET Slice]
         /\ shown \subseteq [stamp : Stamps, pic : Pics]
         /\ told \subseteq 1..Cycle /\ reused \subseteq Stamps

LEMMA InitTyped == Init => Typed
  BY TaskDeliveryAssumption DEF Init, Typed, RowTyped

LEMMA TypedIsTypeOK == Typed => TypeOK
<1>1. ASSUME NEW r, RowTyped(r) PROVE r \in Row \cup {None}
  BY <1>1 DEF RowTyped, Row
<1>2. QED
  BY <1>1 DEF Typed, TypeOK

\* What the tag puts together when it hears a board.
LEMMA CollectedTyped ==
  ASSUME Typed, NEW b \in Boards, board[b] # None
  PROVE  board[b] \in Slice /\ Collected(board[b]) \subseteq Slice
  BY DEF Typed, Collected

LEMMA NextTyped == ASSUME Typed, [Next]_vars PROVE Typed'
<1> USE TaskDeliveryAssumption
<1>1. ASSUME SetPicture PROVE Typed'
  <2>1. now' \in Int /\ count' \in Pics
    BY <1>1 DEF SetPicture, NextPicture, Passes, Typed
  <2>2. StampOf(now') \in Stamps
    BY <2>1, StampIsStamp
  <2>3. RowTyped(task')
    BY <1>1, <2>1, <2>2 DEF SetPicture, RowTyped
  <2>4. QED
    BY <1>1, <2>1, <2>3 DEF SetPicture, NextPicture, Typed
<1>2. ASSUME PagePicture PROVE Typed'
  <2>1. count' \in Pics
    BY <1>2 DEF PagePicture, NextPicture, Typed
  <2>2. Fresh(task) \in [stamp : Stamps, pic : Pics \cup {None}, success : BOOLEAN]
    BY DEF Fresh, Typed, RowTyped
  <2>3. RowTyped(task')
    BY <1>2, <2>1, <2>2 DEF PagePicture, RowTyped
  <2>4. reused' \subseteq Stamps
    BY <1>2 DEF PagePicture, Typed, RowTyped
  <2>5. QED
    BY <1>2, <2>1, <2>3, <2>4 DEF PagePicture, NextPicture, Typed
<1>3. ASSUME DeleteRows PROVE Typed'
  <2>1. RowTyped(task') /\ status' \in Stamps
    BY <1>3 DEF DeleteRows, Typed, RowTyped
  <2>2. QED
    BY <1>3, <2>1 DEF DeleteRows, Troubled, Typed
<1>4. ASSUME Sync PROVE Typed'
  <2>1. saved' = [task |-> saved'.task, status |-> saved'.status]
        /\ saved'.task \in {task, saved.task} /\ saved'.status \in {status, saved.status}
    BY <1>4 DEF Sync
  <2>2. RowTyped(saved'.task) /\ saved'.status \in Stamps
    BY <2>1 DEF Typed
  <2>3. QED
    BY <1>4, <2>1, <2>2 DEF Sync, Typed
<1>5. ASSUME Restart PROVE Typed'
  BY <1>5 DEF Restart, Troubled, Typed
<1>6. ASSUME QueryTask PROVE Typed'
  <2>1. task.stamp \in 1..Cycle /\ Matches \in BOOLEAN
    BY <1>6 DEF QueryTask, Typed, RowTyped, Matches
  <2>2. RowTyped(task')
    BY <1>6, <2>1 DEF QueryTask, Typed, RowTyped
  <2>3. told' \subseteq 1..Cycle
    BY <1>6, <2>1 DEF QueryTask, Typed
  <2>4. QED
    BY <1>6, <2>2, <2>3 DEF QueryTask, Typed
<1>7. ASSUME NEW b \in Boards, NEW n \in Parts, Fill(b, n) PROVE Typed'
  <2>1. SliceOf(n) \in Slice
    BY <1>7 DEF Fill, Wanted, SliceOf, Slice, Typed, RowTyped
  <2>2. QED
    BY <1>7, <2>1 DEF Fill, Typed
<1>8. ASSUME NEW b \in Boards, StoreReport(b) PROVE Typed'
  BY <1>8 DEF StoreReport, Typed
<1>9. ASSUME NEW b \in Boards, Hear(b) PROVE Typed'
  <2> DEFINE got == Collected(board[b])
  <2>1. board[b] \in Slice /\ got \subseteq Slice
    BY <1>9, CollectedTyped DEF Hear
  <2>2. {[stamp |-> x.stamp, pic |-> x.pic] : x \in got} \subseteq [stamp : Stamps, pic : Pics]
    BY <2>1 DEF Slice
  <2>3. board[b].stamp \in Stamps
    BY <2>1 DEF Slice
  <2> HIDE DEF got
  <2>4. tag' \in [stamp : Stamps, got : SUBSET Slice] /\ shown' \subseteq [stamp : Stamps, pic : Pics]
    BY <1>9, <2>1, <2>2, <2>3 DEF Hear, Typed, got
  <2>5. QED
    BY <1>9, <2>4 DEF Hear, Typed
<1>10. ASSUME NEW b \in Boards, Report(b) PROVE Typed'
  BY <1>10 DEF Report, Typed
<1>11. CASE UNCHANGED vars
  BY <1>11 DEF vars, Typed
<1>12. QED
  BY <1>1, <1>2, <1>3, <1>4, <1>5, <1>6, <1>7, <1>8, <1>9, <1>10, <1>11 DEF Next

LEMMA TypedAlways == Spec => []Typed
  BY InitTyped, NextTyped, PTL DEF Spec

\* Types: stamps are never outside their cycle, what the tag collects are slices.
THEOREM TypeCorrect == Spec => []TypeOK
  BY TypedAlways, TypedIsTypeOK, PTL

-----------------------------------------------------------------------------
(***************************************************************************)
(* SuccessFlag                                                             *)
(***************************************************************************)
\* The row in memory and the one on disk, which a restart brings back.
FlagsTold == /\ task # None /\ task.success => task.stamp \in told
             /\ saved.task # None /\ saved.task.success => saved.task.stamp \in told

LEMMA InitFlagsTold == Init => FlagsTold
  BY DEF Init, FlagsTold

LEMMA NextFlagsTold == ASSUME Typed, FlagsTold, [Next]_vars PROVE FlagsTold'
<1>1. ASSUME SetPicture PROVE FlagsTold'
  BY <1>1 DEF SetPicture, NextPicture, FlagsTold
<1>2. ASSUME PagePicture PROVE FlagsTold'
  <2>1. CASE task = None
    BY <1>2, <2>1 DEF PagePicture, NextPicture, Fresh, FlagsTold
  <2>2. CASE task # None
    <3>1. task'.success = task.success /\ task'.stamp = task.stamp
      BY <1>2, <2>2 DEF PagePicture, Fresh, Typed, RowTyped
    <3>2. QED
      BY <1>2, <2>2, <3>1 DEF PagePicture, NextPicture, FlagsTold
  <2>3. QED
    BY <2>1, <2>2
<1>3. ASSUME DeleteRows PROVE FlagsTold'
  BY <1>3 DEF DeleteRows, Troubled, FlagsTold
<1>4. ASSUME Sync PROVE FlagsTold'
  BY <1>4 DEF Sync, FlagsTold
<1>5. ASSUME Restart PROVE FlagsTold'
  BY <1>5 DEF Restart, Troubled, FlagsTold
<1>6. ASSUME QueryTask PROVE FlagsTold'
  <2>1. task'.success = Matches /\ task'.stamp = task.stamp
    BY <1>6 DEF QueryTask, Typed, RowTyped
  <2>2. told \subseteq told' /\ (Matches => task.stamp \in told') /\ saved' = saved
    BY <1>6 DEF QueryTask
  <2>3. QED
    BY <2>1, <2>2 DEF FlagsTold
<1>7. ASSUME UNCHANGED <<task, saved, told>> PROVE FlagsTold'
  BY <1>7 DEF FlagsTold
<1>8. QED
  BY <1>1, <1>2, <1>3, <1>4, <1>5, <1>6, <1>7
  DEF Next, Fill, StoreReport, Hear, Report, vars

\* SuccessFlag is up only for what the server was told, whatever is set,
\* deleted, saved by halves and restored.
THEOREM FlagIsTold == Spec => []SuccessWasTold
<1>1. Spec => []FlagsTold
  BY InitFlagsTold, NextFlagsTold, TypedAlways, PTL DEF Spec
<1>2. FlagsTold => SuccessWasTold
  BY DEF FlagsTold, SuccessWasTold
<1>3. QED
  BY <1>1, <1>2, PTL

-----------------------------------------------------------------------------
(***************************************************************************)
(* One stamp, one picture                                                  *)
(***************************************************************************)
\* Time passes between two pictures of the server: what the station needs for
\* stamps to tell its pictures apart.
TimePasses == Elapsed \subseteq Nat \ {0}

\* No more than a cycle (a month) has passed.
WithinCycle == now <= Cycle

\* Somebody holds picture p under stamp s.
Names(s, p) ==
  \/ task # None /\ task.stamp = s /\ task.pic = p
  \/ saved.task # None /\ saved.task.stamp = s /\ saved.task.pic = p
  \/ \E b \in Boards : board[b] # None /\ board[b].stamp = s /\ board[b].pic = p
  \/ \E x \in tag.got : x.stamp = s /\ x.pic = p
  \/ [stamp |-> s, pic |-> p] \in shown

\* A stamp that the page did not use again names one picture; every stamp is one
\* of the time that has passed.
OnePicture == \A s \in (1..Cycle) \ reused : \A p, q \in Pics : Names(s, p) /\ Names(s, q) => p = q
NotAhead == now \in Nat /\ \A s \in 1..Cycle : \A p \in Pics :
              Names(s, p) => \E t \in 1..now : s = StampOf(t)

\* A stamp that is reported, kept or told is that of a picture shown.
Seen(s) == \E p \in Pics : [stamp |-> s, pic |-> p] \in shown
Heard(s) == \/ status = s \/ saved.status = s \/ tag.stamp = s \/ s \in told
            \/ \E b \in Boards : report[b] = s
HeardIsSeen == \A s \in 1..Cycle : Heard(s) => Seen(s)

LEMMA StampsDiffer ==
  ASSUME NEW t \in 1..Cycle, NEW u \in 1..Cycle, t # u
  PROVE  StampOf(t) # StampOf(u)
<1>1. ASSUME NEW v \in 1..Cycle PROVE v % Cycle = IF v = Cycle THEN 0 ELSE v
  BY TaskDeliveryAssumption
<1>2. QED
  BY <1>1, TaskDeliveryAssumption DEF StampOf

LEMMA InitNames == Init => OnePicture /\ NotAhead /\ HeardIsSeen
<1>1. ASSUME Init, NEW s \in 1..Cycle PROVE ~Heard(s) /\ \A p : ~Names(s, p)
  BY <1>1, TaskDeliveryAssumption DEF Init, Heard, Names
<1>2. ASSUME Init PROVE now \in Nat
  BY <1>2 DEF Init
<1>3. QED
  BY <1>1, <1>2 DEF OnePicture, NotAhead, HeardIsSeen

\* Only a picture of the server gives a picture a new stamp; the page's gets the
\* stamp of another.
OnlyNames ==
  /\ reused \subseteq reused'
  /\ \A s \in 1..Cycle : \A p \in Pics :
       Names(s, p)' => Names(s, p) \/ (s \in reused' /\ \E q \in Pics : Names(s, q))

LEMMA NamesOfStep ==
  ASSUME TimePasses, Typed, [Next]_vars
  PROVE  (OnlyNames /\ now' = now) \/ SetPicture
<1>1. ASSUME PagePicture PROVE OnlyNames /\ now' = now
  <2>1. CASE task = None
    <3>1. task' = [stamp |-> 0, pic |-> count', success |-> FALSE] /\ reused' = reused
      BY <1>1, <2>1 DEF PagePicture, Fresh
    <3>2. QED
      BY <1>1, <3>1 DEF PagePicture, NextPicture, OnlyNames, Names
  <2>2. CASE task # None
    <3>1. /\ task'.stamp = task.stamp /\ task.stamp \in reused' /\ reused \subseteq reused'
          /\ task.pic \in Pics /\ Names(task.stamp, task.pic)
      BY <1>1, <2>2 DEF PagePicture, Fresh, Typed, RowTyped, Names
    <3>2. ASSUME NEW s, NEW p, Names(s, p)' PROVE Names(s, p) \/ s = task.stamp
      BY <1>1, <3>1, <3>2 DEF PagePicture, NextPicture, Names
    <3>3. QED
      BY <1>1, <3>1, <3>2 DEF PagePicture, OnlyNames
  <2>3. QED
    BY <2>1, <2>2
<1>2. ASSUME DeleteRows PROVE OnlyNames /\ now' = now
  BY <1>2 DEF DeleteRows, Troubled, OnlyNames, Names
<1>3. ASSUME Sync PROVE OnlyNames /\ now' = now
  <2>1. saved'.task \in {task, saved.task}
    BY <1>3 DEF Sync
  <2>2. QED
    BY <1>3, <2>1 DEF Sync, OnlyNames, Names
<1>4. ASSUME Restart PROVE OnlyNames /\ now' = now
  BY <1>4 DEF Restart, Troubled, OnlyNames, Names
<1>5. ASSUME QueryTask PROVE OnlyNames /\ now' = now
  <2>1. task # None /\ task'.stamp = task.stamp /\ task'.pic = task.pic
    BY <1>5 DEF QueryTask, Typed, RowTyped
  <2>2. QED
    BY <1>5, <2>1 DEF QueryTask, OnlyNames, Names
<1>6. ASSUME NEW b \in Boards, NEW n \in Parts, Fill(b, n) PROVE OnlyNames /\ now' = now
  <2>1. task # None /\ board' = [board EXCEPT ![b] = [stamp |-> task.stamp, pic |-> task.pic, part |-> n]]
    BY <1>6 DEF Fill, Wanted, SliceOf
  <2>2. ASSUME NEW c \in Boards, NEW s, NEW p, board'[c] # None, board'[c].stamp = s, board'[c].pic = p
        PROVE  Names(s, p)
    BY <2>1, <2>2 DEF Typed, Names
  <2>3. QED
    BY <1>6, <2>2 DEF Fill, OnlyNames, Names
<1>7. ASSUME NEW b \in Boards, StoreReport(b) PROVE OnlyNames /\ now' = now
  BY <1>7 DEF StoreReport, OnlyNames, Names
<1>8. ASSUME NEW b \in Boards, Hear(b) PROVE OnlyNames /\ now' = now
  <2> DEFINE got == Collected(board[b])
  <2>1. \A x \in got : Names(x.stamp, x.pic)
    BY <1>8 DEF Hear, Collected, Names
  <2>2. got \subseteq Slice
    BY <1>8, CollectedTyped DEF Hear
  <2> HIDE DEF got
  <2>3. \A x \in tag'.got : x \in got
    BY <1>8 DEF Hear, Typed, got
  <2>4. \A y \in shown' : y \in shown \/ \E x \in got : y = [stamp |-> x.stamp, pic |-> x.pic]
    BY <1>8 DEF Hear, got
  <2>5. ASSUME NEW s, NEW p, [stamp |-> s, pic |-> p] \in shown' PROVE Names(s, p)
    <3>1. CASE [stamp |-> s, pic |-> p] \in shown
      BY <3>1 DEF Names
    <3>2. ASSUME NEW x \in got, [stamp |-> s, pic |-> p] = [stamp |-> x.stamp, pic |-> x.pic]
          PROVE  Names(s, p)
      <4>1. x.stamp = s /\ x.pic = p
        BY <3>2
      <4>2. QED
        BY <4>1, <2>1
    <3>3. QED
      BY <2>5, <2>4, <3>1, <3>2
  <2>6. task' = task /\ saved' = saved /\ board' = board /\ now' = now /\ reused' = reused
    BY <1>8 DEF Hear
  <2>7. ASSUME NEW s, NEW p, Names(s, p)' PROVE Names(s, p)
    <3>1. CASE [stamp |-> s, pic |-> p] \in shown'
      BY <3>1, <2>5
    <3>2. CASE \E x \in tag'.got : x.stamp = s /\ x.pic = p
      BY <3>2, <2>1, <2>3
    <3>3. QED
      BY <2>7, <2>6, <3>1, <3>2 DEF Names
  <2>8. QED
    BY <2>6, <2>7 DEF OnlyNames
<1>9. ASSUME NEW b \in Boards, Report(b) PROVE OnlyNames /\ now' = now
  BY <1>9 DEF Report, OnlyNames, Names
<1>10. ASSUME UNCHANGED vars PROVE OnlyNames /\ now' = now
  BY <1>10 DEF vars, OnlyNames, Names
<1>11. QED
  BY <1>1, <1>2, <1>3, <1>4, <1>5, <1>6, <1>7, <1>8, <1>9, <1>10 DEF Next

\* The stamp given to a picture of the server is new.
LEMMA NextNames ==
  ASSUME TimePasses, Typed, OnePicture, NotAhead, WithinCycle', [Next]_vars
  PROVE  OnePicture' /\ NotAhead'
<1>1. CASE OnlyNames /\ now' = now
  BY <1>1 DEF OnlyNames, OnePicture, NotAhead
<1>2. CASE SetPicture
  <2>1. now \in Nat /\ now' \in Nat /\ now' > now /\ now' <= Cycle
    BY <1>2 DEF SetPicture, Passes, TimePasses, NotAhead, Typed, WithinCycle
  <2>2. \A t \in 1..now : StampOf(t) # StampOf(now')
    BY <2>1, StampsDiffer, TaskDeliveryAssumption
  <2>3. ASSUME NEW s \in 1..Cycle, NEW p \in Pics, Names(s, p)'
        PROVE  Names(s, p) \/ (s = StampOf(now') /\ p = count')
    BY <1>2, <2>3 DEF SetPicture, NextPicture, Names
  <2>4. \A p \in Pics : ~Names(StampOf(now'), p)
    BY <2>1, <2>2, StampIsStamp DEF NotAhead
  <2>5. OnePicture'
    BY <1>2, <2>3, <2>4 DEF OnePicture, SetPicture
  <2>6. \A s \in 1..Cycle : \A p \in Pics : Names(s, p)' => \E t \in 1..now' : s = StampOf(t)
    BY <2>1, <2>3 DEF NotAhead
  <2>7. QED
    BY <2>1, <2>5, <2>6 DEF NotAhead
<1>3. QED
  BY <1>1, <1>2, NamesOfStep

\* Reports come from what the tag shows, by whatever way and however late.
LEMMA NextHeard ==
  ASSUME Typed, HeardIsSeen, [Next]_vars
  PROVE  HeardIsSeen'
<1>1. ASSUME SetPicture \/ PagePicture PROVE HeardIsSeen'
  BY <1>1 DEF SetPicture, PagePicture, NextPicture, HeardIsSeen, Heard, Seen
<1>2. ASSUME DeleteRows PROVE HeardIsSeen'
  BY <1>2 DEF DeleteRows, Troubled, HeardIsSeen, Heard, Seen
<1>3. ASSUME Sync PROVE HeardIsSeen'
  <2>1. saved'.status \in {status, saved.status}
    BY <1>3 DEF Sync
  <2>2. QED
    BY <1>3, <2>1 DEF Sync, HeardIsSeen, Heard, Seen
<1>4. ASSUME Restart PROVE HeardIsSeen'
  BY <1>4 DEF Restart, Troubled, HeardIsSeen, Heard, Seen
<1>5. ASSUME QueryTask PROVE HeardIsSeen'
  <2>1. \A s \in told' : s \in told \/ s = status
    BY <1>5 DEF QueryTask, Matches
  <2>2. QED
    BY <1>5, <2>1 DEF QueryTask, HeardIsSeen, Heard, Seen
<1>6. ASSUME NEW b \in Boards, NEW n \in Parts, Fill(b, n) PROVE HeardIsSeen'
  BY <1>6 DEF Fill, HeardIsSeen, Heard, Seen
<1>7. ASSUME NEW b \in Boards, StoreReport(b) PROVE HeardIsSeen'
  <2>1. \A c \in Boards : report'[c] = report[c] \/ report'[c] = None
    BY <1>7 DEF StoreReport, Typed
  <2>2. None \notin 1..Cycle
    BY TaskDeliveryAssumption
  <2>3. status' = report[b]
    BY <1>7 DEF StoreReport
  <2>4. QED
    BY <1>7, <2>1, <2>2, <2>3 DEF StoreReport, HeardIsSeen, Heard, Seen
<1>8. ASSUME NEW b \in Boards, Hear(b) PROVE HeardIsSeen'
  <2> DEFINE got == Collected(board[b])
  <2>1. got \subseteq Slice /\ board[b] \in got /\ board[b] \in Slice
    BY <1>8, CollectedTyped DEF Hear, Collected
  <2> HIDE DEF got
  <2>2. shown \subseteq shown'
    BY <1>8 DEF Hear
  <2>3. tag'.stamp = tag.stamp
        \/ /\ tag'.stamp = board[b].stamp
           /\ shown' = shown \cup {[stamp |-> x.stamp, pic |-> x.pic] : x \in got}
    BY <1>8 DEF Hear, Typed, got
  <2>4. tag'.stamp = tag.stamp \/ \E p \in Pics : [stamp |-> tag'.stamp, pic |-> p] \in shown'
    <3>1. board[b].pic \in Pics
      BY <2>1 DEF Slice
    <3>2. ASSUME tag'.stamp = board[b].stamp,
                 shown' = shown \cup {[stamp |-> x.stamp, pic |-> x.pic] : x \in got}
          PROVE  [stamp |-> tag'.stamp, pic |-> board[b].pic] \in shown'
      BY <3>2, <2>1
    <3>3. QED
      BY <2>3, <3>1, <3>2
  <2>5. QED
    BY <1>8, <2>2, <2>4 DEF Hear, HeardIsSeen, Heard, Seen
<1>9. ASSUME NEW b \in Boards, Report(b) PROVE HeardIsSeen'
  <2>1. \A c \in Boards : report'[c] = report[c] \/ report'[c] = tag.stamp
    BY <1>9 DEF Report, Typed
  <2>2. QED
    BY <1>9, <2>1 DEF Report, HeardIsSeen, Heard, Seen
<1>10. ASSUME UNCHANGED vars PROVE HeardIsSeen'
  BY <1>10 DEF vars, HeardIsSeen, Heard, Seen
<1>11. QED
  BY <1>1, <1>2, <1>3, <1>4, <1>5, <1>6, <1>7, <1>8, <1>9, <1>10 DEF Next

LEMMA NamesAlways ==
  ASSUME TimePasses PROVE Spec /\ []WithinCycle => [](Typed /\ OnePicture /\ NotAhead /\ HeardIsSeen)
<1>1. Typed /\ OnePicture /\ NotAhead /\ WithinCycle' /\ [Next]_vars => OnePicture' /\ NotAhead'
  BY NextNames
<1>2. Typed /\ HeardIsSeen /\ [Next]_vars => HeardIsSeen'
  BY NextHeard
<1>3. QED
  BY <1>1, <1>2, InitNames, TypedAlways, PTL DEF Spec

\* Within a month of stamps, while time passes between two pictures of the server,
\* for any boards and slices, late reports, deletions, tables saved by halves,
\* restarts and pictures of the page: the server is told success for the task that
\* the station holds only after the tag has shown its picture, unless the page
\* used its stamp again.
THEOREM ToldIsShown ==
  ASSUME TimePasses PROVE Spec /\ []WithinCycle => []ToldWasShown
<1>1. ASSUME Typed, OnePicture, HeardIsSeen, task # None, task.stamp \in told \ reused
      PROVE  [stamp |-> task.stamp, pic |-> task.pic] \in shown
  <2>1. task.stamp \in 1..Cycle /\ task.pic \in Pics
    BY <1>1 DEF Typed, RowTyped
  <2>2. PICK p \in Pics : [stamp |-> task.stamp, pic |-> p] \in shown
    BY <1>1, <2>1 DEF HeardIsSeen, Heard, Seen
  <2>3. Names(task.stamp, p) /\ Names(task.stamp, task.pic)
    BY <1>1, <2>2 DEF Names
  <2>4. p = task.pic
    BY <1>1, <2>1, <2>3 DEF OnePicture
  <2>5. QED
    BY <2>2, <2>4
<1>2. Typed /\ OnePicture /\ HeardIsSeen => ToldWasShown
  BY <1>1 DEF ToldWasShown
<1>3. QED
  BY <1>2, NamesAlways, PTL

\* Under the same hypotheses a tag never puts slices of two pictures together.
THEOREM SlicesAreOfOnePicture ==
  ASSUME TimePasses PROVE Spec /\ []WithinCycle => []NoMixture
<1>1. ASSUME Typed, OnePicture, NEW x \in tag.got, NEW y \in tag.got, x.stamp = y.stamp, x.stamp \notin reused \cup {0}
      PROVE  x.pic = y.pic
  <2>1. x.stamp \in 1..Cycle /\ x.pic \in Pics /\ y.pic \in Pics
    BY <1>1 DEF Typed, Slice
  <2>2. Names(x.stamp, x.pic) /\ Names(x.stamp, y.pic)
    BY <1>1 DEF Names
  <2>3. QED
    BY <1>1, <2>1, <2>2 DEF OnePicture
<1>2. Typed /\ OnePicture => NoMixture
  BY <1>1 DEF NoMixture
<1>3. QED
  BY <1>2, NamesAlways, PTL
=============================================================================
