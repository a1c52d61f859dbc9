---------------------------- MODULE TaskDelivery ----------------------------
(***************************************************************************)
(* How a picture task of the server is confirmed.  analysis_JBT stamps the *)
(* row of the task with day, hour, minute and second; the radio threads    *)
(* hand its slices, so stamped, to their boards as long as the stamp that  *)
(* the tag last reported differs (get_tasks, get_tasks2); the task query   *)
(* tells the server success when the two are equal.                        *)
(*                                                                         *)
(* One tag and one page of it.  Which slices a round has room for is       *)
(* SpiFill's matter: here a board is given one at a time.  The tag and the *)
(* radio are not in the repository: a tag shows a picture when it has all  *)
(* parts of one stamp and reports the stamp of the picture it shows, over  *)
(* any board, and a board may deliver a report late.                       *)
(***************************************************************************)
EXTENDS Integers, FiniteSets

CONSTANTS
  None,
  Boards,        (* the radio boards, one thread each                      *)
  Parts,         (* the slices of a picture                                *)
  Cycle,         (* how many stamps there are: a month of seconds          *)
  Elapsed,       (* how far the clock can be between two commands          *)
  MaxPics,       (* bound: how many pictures are set                       *)
  MaxTrouble     (* bound: deletions, restarts                             *)

ASSUME TaskDeliveryAssumption ==
  /\ None \notin Int
  /\ Cycle \in Nat \ {0}
  /\ Elapsed \subseteq Int
  /\ {MaxPics, MaxTrouble} \subseteq Nat

VARIABLES
  now,           (* the clock of the station                               *)
  count,         (* how many pictures were set: the nth is called n        *)
  task,          (* the row of EDTask                                      *)
  status,        (* EDStatus.TaskTimeMark1-4; 0 also if there is no row    *)
  saved,         (* both rows on disk                                      *)
  board,         (* the slice each board was given last                    *)
  report,        (* the stamp in the report each board has yet to deliver  *)
  tag,           (* the stamp a tag reports, the slices it collects        *)
  shown,         (* stamps and pictures that the tag has shown             *)
  told,          (* the stamps the server was told success for             *)
  reused,        (* the stamps under which the page set another picture    *)
  trouble        (* counts deletions and restarts                          *)

vars == <<now, count, task, status, saved, board, report, tag, shown, told, reused, trouble>>

Stamps == 0..Cycle                     \* 0: all four fields are 0
Pics   == 1..MaxPics
Row    == [stamp : Stamps, pic : Pics \cup {None}, success : BOOLEAN]
Slice  == [stamp : Stamps, pic : Pics, part : Parts]

\* Day, Hour, Min and Sec: month and year are dropped, the day is never 0.
\* Mutant: the stamp goes on counting.
StampOfYear(t) == 1 + t
StampOf(t) == 1 + (t % Cycle)

Fresh(row) == IF row = None THEN [stamp |-> 0, pic |-> None, success |-> FALSE] ELSE row

Init == /\ now = 0
        /\ count = 0
        /\ task = None
        /\ status = 0
        /\ saved = [task |-> None, status |-> 0]
        /\ board = [b \in Boards |-> None]
        /\ report = [b \in Boards |-> None]
        /\ tag = [stamp |-> 0, got |-> {}]
        /\ shown = {}
        /\ told = {}
        /\ reused = {}
        /\ trouble = 0

-----------------------------------------------------------------------------
(***************************************************************************)
(* Commands                                                                *)
(***************************************************************************)
NextPicture == /\ count < MaxPics
               /\ count' = count + 1
               /\ UNCHANGED <<status, saved, board, report, tag, shown, told, trouble>>
Passes == now' \in {now + d : d \in Elapsed}

\* Mutant: SuccessFlag stays.
SetPictureOldFlag ==
  /\ NextPicture /\ Passes
  /\ task' = [Fresh(task) EXCEPT !.pic = count', !.stamp = StampOf(now')]
  /\ UNCHANGED reused

\* A picture task of the server.
SetPicture == /\ NextPicture /\ Passes
              /\ task' = [stamp |-> StampOf(now'), pic |-> count', success |-> FALSE]
              /\ UNCHANGED reused

\* A picture task of the page: neither stamped nor marked as open, whatever
\* task of the server the row holds.
PagePicture == /\ NextPicture
               /\ task' = [Fresh(task) EXCEPT !.pic = count']
               /\ reused' = IF task = None THEN reused ELSE reused \cup {task.stamp}
               /\ UNCHANGED now

Troubled == /\ trouble < MaxTrouble
            /\ trouble' = trouble + 1
            /\ UNCHANGED <<now, count, board, report, tag, shown, told, reused>>

\* The server or the page deletes the task or the status; a status query
\* deletes both of a tag that has not reported for long.
DeleteRows == /\ Troubled
              /\ task' \in {task, None}
              /\ status' \in {status, 0}
              /\ UNCHANGED saved

\* The tables are saved in transactions of their own: either may fail, or the
\* station stop between them.
Sync == /\ saved' \in [task : {task, saved.task}, status : {status, saved.status}]
        /\ UNCHANGED <<now, count, task, status, board, report, tag, shown, told, reused, trouble>>

Restart == /\ Troubled
           /\ task' = saved.task
           /\ status' = saved.status
           /\ UNCHANGED saved

\* Mutant: a tag that reports a later stamp is taken to have done the task.
MatchesLater == status >= task.stamp

Matches == status = task.stamp

\* query_task: rows without a stamp are passed over.  SuccessFlag is written
\* although the lock is held for reading only.
QueryTask == /\ task # None
             /\ task.stamp # 0
             /\ task' = [task EXCEPT !.success = Matches]
             /\ told' = IF Matches THEN told \cup {task.stamp} ELSE told
             /\ UNCHANGED <<now, count, status, saved, board, report, tag, shown, reused, trouble>>

-----------------------------------------------------------------------------
(***************************************************************************)
(* The radio threads                                                       *)
(***************************************************************************)
\* Mutant: only what is newer than the tag's picture is sent.
WantedIfNewer == task # None /\ task.pic # None /\ status < task.stamp

\* X > 0 in get_tasks and get_tasks2.
Wanted == task # None /\ task.pic # None /\ status # task.stamp

\* Mutant: a slice bears the time it is sent.
SliceOfNow(n) == [stamp |-> StampOf(now), pic |-> task.pic, part |-> n]

SliceOf(n) == [stamp |-> task.stamp, pic |-> task.pic, part |-> n]

Fill(b, n) == /\ Wanted
              /\ board' = [board EXCEPT ![b] = SliceOf(n)]
              /\ UNCHANGED <<now, count, task, status, saved, report, tag, shown, told, reused, trouble>>

\* process_status: a report is taken as it is, whatever it is older than.
StoreReport(b) == /\ report[b] # None
                  /\ status' = report[b]
                  /\ report' = [report EXCEPT ![b] = None]
                  /\ UNCHANGED <<now, count, task, saved, board, tag, shown, told, reused, trouble>>

-----------------------------------------------------------------------------
(***************************************************************************)
(* The tag                                                                 *)
(***************************************************************************)
Collected(s) == {x \in tag.got : x.stamp = s.stamp} \cup {s}
Complete(set) == {x.part : x \in set} = Parts

\* The tag hears what a board sends, once, often or never.
Hear(b) ==
  /\ board[b] # None
  /\ board[b].stamp # tag.stamp
  /\ LET got == Collected(board[b])
     IN  IF Complete(got)
         THEN /\ tag' = [stamp |-> board[b].stamp, got |-> {}]
              /\ shown' = shown \cup {[stamp |-> x.stamp, pic |-> x.pic] : x \in got}
         ELSE tag' = [tag EXCEPT !.got = got] /\ UNCHANGED shown
  /\ UNCHANGED <<now, count, task, status, saved, board, report, told, reused, trouble>>

\* A tag that shows nothing yet reports the stamp 0, as a missing row has it.
Report(b) == /\ tag.stamp # 0
             /\ report' = [report EXCEPT ![b] = tag.stamp]
             /\ UNCHANGED <<now, count, task, status, saved, board, tag, shown, told, reused, trouble>>

Next == \/ SetPicture \/ PagePicture \/ DeleteRows \/ Sync \/ Restart \/ QueryTask
        \/ \E b \in Boards : \/ \E n \in Parts : Fill(b, n)
                             \/ StoreReport(b) \/ Hear(b) \/ Report(b)

Spec == Init /\ [][Next]_vars

\* Each board keeps asking, each slice is handed out again and again and gets
\* through some time, the tag keeps reporting, the server keeps asking.
Fairness == /\ \A n \in Parts : /\ WF_vars(\E b \in Boards : Fill(b, n))
                                /\ SF_vars(\E b \in Boards : Hear(b) /\ board[b].part = n)
            /\ \A b \in Boards : WF_vars(\E n \in Parts : Fill(b, n)) /\ WF_vars(StoreReport(b))
            /\ WF_vars(\E b \in Boards : Report(b))
            /\ WF_vars(QueryTask)

FairSpec == Spec /\ Fairness

-----------------------------------------------------------------------------
(***************************************************************************)
(* Properties                                                              *)
(***************************************************************************)
TypeOK == /\ now \in Int /\ count \in 0..MaxPics
          /\ task \in Row \cup {None}
          /\ status \in Stamps
          /\ saved \in [task : Row \cup {None}, status : Stamps]
          /\ board \in [Boards -> Slice \cup {None}]
          /\ report \in [Boards -> Stamps \cup {None}]
          /\ tag.stamp \in Stamps /\ tag.got \subseteq Slice
          /\ told \subseteq Stamps /\ reused \subseteq Stamps

\* If the server was told success for the task that the row holds, the tag has
\* shown its picture: late reports, reports over the other board, deleted rows
\* and restarts that bring older rows back do not confirm a task never seen.
\* The exception is a stamp under which the page has set another picture: a tag
\* that has shown the one confirms the other.
ToldWasShown ==
  task # None /\ task.stamp \in told \ reused
    => [stamp |-> task.stamp, pic |-> task.pic] \in shown

\* What the tag puts together under one stamp are slices of one picture: a
\* picture set anew never mixes with slices of the one before, unless it is the
\* page's and goes out under the stamp of the one before.
NoMixture == \A x, y \in tag.got :
  x.stamp = y.stamp /\ x.stamp \notin reused \cup {0} => x.pic = y.pic

\* SuccessFlag, which the boards are sent with each mark, is up only for a task
\* that the server was told is done.
SuccessWasTold == task # None /\ task.success => task.stamp \in told

\* A picture task of the server that stays is confirmed in the end.
Confirmed == \A s \in 1..Cycle :
  (task # None /\ task.stamp = s) ~> (s \in told \/ task = None \/ task.stamp # s)
=============================================================================
