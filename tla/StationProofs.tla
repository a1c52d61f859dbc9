---------------------------- MODULE StationProofs ----------------------------
(* What the threads of the station keep, for any tags, tasks, reports,       *)
(* settings and radio threads.                                               *)
EXTENDS Station, TLAPS

-----------------------------------------------------------------------------
(***************************************************************************)
(* Types and locking                                                       *)
(***************************************************************************)
Clerks == {Net, Web}
MainPlaces == {"sleep", "lock", "set", "begin", "commit",
               "join", "stop_begin", "stop_commit", "closed"}
Places == MainPlaces \cup {"idle", "body", "fill", "leaked", "ended"}
Order == {"EDTask", "EDStatus", "WhiteList", "Extend"}
Saving == pc[Main] \in {"commit", "stop_commit"}

\* A command that sets a task is about one tag.
Sane(c) == c.op \in {"set", "picture"} => c.job \in Jobs /\ \E t \in Tags : c.tags = {t}

\* TypeOK, in parts, with what it leaves open.
TablesTyped == /\ cache \in Tables /\ saved \in Tables /\ stale \subseteq Tags
               /\ Saving => shadow \in Tables
               /\ ~ Saving => shadow = Absent
SystemTyped == /\ system \in [mem : Settings, disk : Settings,
                              txn : Settings \cup {Absent}, acked : Settings]
               /\ Saving => system.txn \in Settings
               /\ ~ Saving => system.txn = Absent
TodoTyped == /\ todo \in Seq(Order) /\ Len(todo) <= 4
             /\ Saving => todo # <<>>
PlacesTyped == /\ pc \in [Threads -> Places]
               /\ \A th \in Clerks : pc[th] \in {"idle", "lock", "body", "fill", "leaked"}
               /\ \A d \in Devs : pc[d] \in {"idle", "lock", "body", "leaked", "ended"}
               /\ pc[Main] \in MainPlaces
CommandsTyped == /\ cmd \in [Writers -> Command]
                 /\ \A th \in Writers : cmd[th].op \in Ops \cup {"none"} /\ Sane(cmd[th])
                 /\ \A th \in Writers : pc[th] = "fill" => cmd[th].op \in {"set", "picture"}
Counted == /\ task_update \in 0..6
           /\ task_update = 0 => pc[Main] \in {"lock", "set"}

\* Who works on the tables has the lock.
Locked == /\ lock \in Threads \cup {Free}
          /\ \A th \in Writers : pc[th] \in {"body", "fill", "leaked"} => lock = th
          /\ pc[Main] \in {"set", "begin", "commit"} => lock = Main

Sound == /\ TablesTyped /\ SystemTyped /\ TodoTyped /\ PlacesTyped /\ CommandsTyped
         /\ Counted /\ Locked /\ restart \in BOOLEAN

LEMMA Names == /\ Main \notin Writers /\ Main \in Threads /\ Writers \subseteq Threads
               /\ Clerks \subseteq Writers /\ Devs \subseteq Writers
               /\ Free \notin Threads /\ Devs \cap Clerks = {}
               /\ \A th \in Writers : th # Main /\ th # Free
BY StationAssumption DEF Main, Writers, Threads, Clerks, Net, Web, Free

LEMMA Orders == /\ SyncOrder \in Seq(Order) /\ Len(SyncOrder) = 3
                /\ StopOrder \in Seq(Order) /\ Len(StopOrder) = 4
                /\ Head(SyncOrder) = "EDTask" /\ Range(StopOrder) = Order
<1>1. SyncOrder \in Seq(Order) /\ Len(SyncOrder) = 3 /\ Head(SyncOrder) = "EDTask"
  BY DEF SyncOrder, Order
<1>2. StopOrder \in Seq(Order) /\ Len(StopOrder) = 4
  BY DEF StopOrder, Order
<1>3. Range(StopOrder) = Order
  <2>1. DOMAIN StopOrder = {1, 2, 3, 4}
    BY DEF StopOrder
  <2>2. QED
    BY <2>1 DEF Range, StopOrder, Order
<1>4. QED
  BY <1>1, <1>2, <1>3

LEMMA NothingIsSane == NoCommand \in Command /\ Sane(NoCommand) /\ NoCommand.op = "none"
<1>1. (CHOOSE r \in Reports : TRUE) \in Reports /\ Defaults \in Settings
  BY StationAssumption
<1>2. QED
  BY <1>1 DEF NoCommand, Command, Sane, AllOps

LEMMA SoundIsTypeOK == Sound => TypeOK
<1> SUFFICES ASSUME Sound PROVE TypeOK
  OBVIOUS
<1>1. todo \in Seq(Range(StopOrder)) /\ Len(todo) <= Len(StopOrder)
  BY Orders DEF Sound, TodoTyped
<1>2. shadow = Absent \/ shadow \in Tables
  BY DEF Sound, TablesTyped
<1>3. restart \in BOOLEAN
  BY DEF Sound
<1>4. QED
  BY <1>1, <1>2, <1>3 DEF TypeOK, Sound, TablesTyped, SystemTyped, PlacesTyped,
     CommandsTyped, Counted, Locked, Clerks, MainPlaces, Reload

LEMMA InitSound == Init => Sound
<1> SUFFICES ASSUME Init PROVE Sound
  OBVIOUS
<1> USE DEF Init
<1>1. PICK v \in Settings : system = [mem |-> v, disk |-> v, txn |-> Absent, acked |-> v]
  OBVIOUS
<1>2. /\ pc \in [Threads -> Places] /\ pc[Main] = "sleep"
      /\ \A th \in Writers : pc[th] = "idle"
  BY Names DEF Places, MainPlaces
<1>3. ~ Saving
  BY <1>2 DEF Saving
<1>4. TablesTyped
  BY <1>3 DEF TablesTyped
<1>5. SystemTyped
  BY <1>1, <1>3 DEF SystemTyped
<1>6. TodoTyped
  BY <1>3 DEF TodoTyped
<1>7. PlacesTyped
  BY <1>2, Names DEF PlacesTyped, MainPlaces
<1>8. CommandsTyped
  BY <1>2, NothingIsSane DEF CommandsTyped
<1>9. Counted
  BY <1>2 DEF Counted
<1>10. Locked
  BY <1>2, Names DEF Locked
<1>11. restart \in BOOLEAN
  OBVIOUS
<1>12. QED
  BY <1>4, <1>5, <1>6, <1>7, <1>8, <1>9, <1>10, <1>11 DEF Sound

-----------------------------------------------------------------------------
(***************************************************************************)
(* The steps                                                               *)
(***************************************************************************)
\* Whatever a new command is, it begins in the same way.
Begins == \E th \in Writers, c \in Command : Sane(c) /\ Begin(th, c)

\* What a clerk, a radio thread, the main loop and everybody else may do.
ClerkStep(th) == \/ CreateTask(th) \/ CreateTaskFails(th) \/ FillTask(th) \/ FillNothing(th)
                 \/ DeleteTask(th) \/ DeleteStatus(th) \/ ExpireTag(th) \/ DeletionDone(th)
                 \/ WriteSystem(th) \/ RejectSystem(th) \/ ReleaseLeaked(th)
DevStep(d) == StoreReport(d) \/ StoreReportFails(d) \/ ReleaseLeaked(d) \/ EndSerial(d)
OtherStep == RestoreDefaults \/ GpioWrites \/ Signal \/ \E t \in Tags : Age(t)
Step == \/ Begins
        \/ \E th \in Writers : Acquire(th)
        \/ \E th \in Clerks : ClerkStep(th)
        \/ \E d \in Devs : DevStep(d)
        \/ MainLoop \/ OtherStep \/ Restart

LEMMA CommandsBegin ==
  ASSUME \/ NetCommand \/ WebCommand
         \/ \E th \in Clerks : SharedCommand(th)
         \/ \E d \in Devs, t \in Tags, r \in Reports : ReceiveReport(d, t, r)
  PROVE  Begins
<1> USE Names, NothingIsSane DEF Begins
<1>1. Net \in Writers /\ Web \in Writers
  BY DEF Clerks
<1>2. ASSUME NEW t \in Tags, NEW j \in Jobs, SetTask(t, j) \/ PictureTask(t, j) PROVE Begins
  <2>1. ASSUME NEW op \in {"set", "picture"}
        PROVE  LET c == [NoCommand EXCEPT !.op = op, !.tags = {t}, !.job = j]
               IN  c \in Command /\ Sane(c)
    BY DEF Command, Sane, AllOps
  <2>2. QED
    BY <1>1, <1>2, <2>1 DEF SetTask, PictureTask
<1>3. ASSUME NEW th \in Writers, NEW op \in {"delete_task", "delete_status"},
             NEW tags \in SUBSET Tags, DeleteRows(th, op, tags)
      PROVE  Begins
  <2> DEFINE c == [NoCommand EXCEPT !.op = op, !.tags = tags]
  <2>1. c \in Command /\ Sane(c)
    BY DEF Command, Sane, AllOps
  <2>2. QED
    BY <1>3, <2>1 DEF DeleteRows
<1>4. ASSUME NEW th \in Writers, NEW v \in Settings, SetSystem(th, v) PROVE Begins
  <2> DEFINE c == [NoCommand EXCEPT !.op = "system", !.value = v]
  <2>1. c \in Command /\ Sane(c)
    BY DEF Command, Sane, AllOps
  <2>2. QED
    BY <1>4, <2>1 DEF SetSystem
<1>5. ASSUME NEW d \in Devs, NEW t \in Tags, NEW r \in Reports, ReceiveReport(d, t, r)
      PROVE  Begins
  <2> DEFINE c == [NoCommand EXCEPT !.op = "report", !.tags = {t}, !.report = r]
  <2>1. c \in Command /\ Sane(c)
    BY DEF Command, Sane, AllOps
  <2>2. QED
    BY <1>5, <2>1 DEF ReceiveReport
<1>6. ASSUME NEW page \in SUBSET Tags, NEW both \in BOOLEAN, QueryStatus(page, both)
      PROVE  Begins
  <2> DEFINE op == IF both THEN "expire" ELSE "delete_status"
  <2>1. PICK ring \in SUBSET Expired(page) :
          cmd' = [cmd EXCEPT ![Net] = [NoCommand EXCEPT !.op = op, !.tags = ring]]
    BY <1>6 DEF QueryStatus, kSubset
  <2>2. ring \in SUBSET Tags
    BY <2>1 DEF Expired
  <2> DEFINE c == [NoCommand EXCEPT !.op = op, !.tags = ring]
  <2>3. c \in Command /\ Sane(c) /\ c.op = op
    BY <2>2 DEF Command, Sane, AllOps
  <2>4. Begin(Net, c)
    BY <1>6, <2>1, <2>3 DEF QueryStatus, Begin
  <2>5. QED
    BY <1>1, <2>3, <2>4
<1>7. QED
  BY <1>1, <1>2, <1>3, <1>4, <1>5, <1>6
  DEF NetCommand, WebCommand, SharedCommand, Clerks

LEMMA Steps == [Next]_vars => Step \/ UNCHANGED vars
BY CommandsBegin, Names DEF Next, Step, Body, Serial, ClerkStep, DevStep, OtherStep, Clerks, Writers

LEMMA NextRestartFlag == restart \in BOOLEAN /\ [Next]_vars => restart' \in BOOLEAN
<1> SUFFICES ASSUME restart \in BOOLEAN, Step \/ UNCHANGED vars PROVE restart' \in BOOLEAN
  BY Steps
<1>1. CASE Begins
  BY <1>1 DEF Begins, Begin
<1>2. ASSUME NEW th \in Writers, Acquire(th) PROVE restart' \in BOOLEAN
  BY <1>2 DEF Acquire
<1>3. ASSUME NEW th \in Clerks, ClerkStep(th) PROVE restart' \in BOOLEAN
  BY <1>3 DEF ClerkStep, CreateTask, CreateTaskFails, FillTask, FillNothing, DeleteTask, DeleteStatus,
     ExpireTag, DeletionDone, WriteSystem, RejectSystem, ReleaseLeaked, SignalsItself
<1>4. ASSUME NEW d \in Devs, DevStep(d) PROVE restart' \in BOOLEAN
  BY <1>4 DEF DevStep, StoreReport, StoreReportFails, ReleaseLeaked, Leave, EndSerial
<1>5. CASE MainLoop
  BY <1>5 DEF MainLoop, Period, MainLock, MainSet, BeginSync, CommitSync, RollbackSync,
     NextTable, MainUnlock, MainStop, MainJoined, MainClose, mainUnchanged
<1>6. CASE OtherStep
  BY <1>6 DEF OtherStep, RestoreDefaults, GpioWrites, Signal, Age
<1>7. CASE Restart
  BY <1>7 DEF Restart
<1>8. CASE UNCHANGED vars
  BY <1>8 DEF vars
<1>9. QED
  BY <1>1, <1>2, <1>3, <1>4, <1>5, <1>6, <1>7, <1>8 DEF Step

\* Where the threads are after a step of a writer, of Main, and of the others.
LEMMA WriterMoves ==
  ASSUME Sound, NEW th \in Writers,
         \/ \E c \in Command : Begin(th, c)
         \/ Acquire(th)
         \/ th \in Clerks /\ ClerkStep(th)
         \/ th \in Devs /\ DevStep(th)
  PROVE  /\ pc' \in [Threads -> Places]
         /\ pc'[Main] = pc[Main] /\ (Saving' <=> Saving)
         /\ \A other \in Writers : other # th => pc'[other] = pc[other]
         /\ pc'[th] \in {"idle", "lock", "body", "leaked"} \cup (IF th \in Clerks THEN {"fill"} ELSE {"ended"})
<1> USE Names DEF Sound, PlacesTyped, Goto, Release, Clerks
<1> DEFINE Own == {"idle", "lock", "body", "leaked"} \cup (IF th \in Clerks THEN {"fill"} ELSE {"ended"})
<1>1. pc' = pc \/ \E place \in Own : pc' = [pc EXCEPT ![th] = place]
  <2>1. ASSUME NEW c \in Command, Begin(th, c) PROVE pc' = [pc EXCEPT ![th] = "lock"]
    BY <2>1 DEF Begin
  <2>2. ASSUME Acquire(th) PROVE pc' = [pc EXCEPT ![th] = "body"]
    BY <2>2 DEF Acquire
  <2>3. ASSUME ClerkStep(th)
        PROVE  pc' = pc \/ \E place \in {"idle", "fill", "leaked"} : pc' = [pc EXCEPT ![th] = place]
    BY <2>3 DEF ClerkStep, CreateTask, CreateTaskFails, FillTask, FillNothing, DeleteTask, DeleteStatus,
       ExpireTag, DeletionDone, WriteSystem, RejectSystem, ReleaseLeaked, Leave
  <2>4. ASSUME DevStep(th)
        PROVE  \E place \in {"idle", "leaked", "ended"} : pc' = [pc EXCEPT ![th] = place]
    BY <2>4 DEF DevStep, StoreReport, StoreReportFails, ReleaseLeaked, Leave, EndSerial
  <2>5. QED
    BY <2>1, <2>2, <2>3, <2>4
<1>2. pc[th] \in Own
  BY DEF Writers
<1>3. Own \subseteq Places
  BY DEF Places, MainPlaces
<1> HIDE DEF Own
<1>4. CASE pc' = pc
  BY <1>2, <1>4 DEF Saving, Own
<1>5. ASSUME NEW place \in Own, pc' = [pc EXCEPT ![th] = place]
      PROVE  /\ pc' \in [Threads -> Places] /\ pc'[Main] = pc[Main]
             /\ \A other \in Writers : other # th => pc'[other] = pc[other]
             /\ pc'[th] \in Own
  BY <1>3, <1>5
<1>6. QED
  BY <1>1, <1>4, <1>5 DEF Saving, Own

\* A step of a writer leaves the threads where they may be.
WriterStep(th) == \/ \E c \in Command : Sane(c) /\ Begin(th, c)
                  \/ Acquire(th)
                  \/ th \in Clerks /\ ClerkStep(th)
                  \/ th \in Devs /\ DevStep(th)

LEMMA StepIsOf ==
  Step => (\E th \in Writers : WriterStep(th)) \/ MainLoop \/ OtherStep \/ Restart
BY Names DEF Step, Begins, WriterStep

LEMMA WriterPlaces ==
  ASSUME Sound, NEW th \in Writers, WriterStep(th) PROVE PlacesTyped'
<1> USE Names DEF Sound, PlacesTyped
<1>1. /\ pc' \in [Threads -> Places]
      /\ pc'[Main] = pc[Main]
      /\ \A other \in Writers : other # th => pc'[other] = pc[other]
      /\ pc'[th] \in {"idle", "lock", "body", "leaked"} \cup (IF th \in Clerks THEN {"fill"} ELSE {"ended"})
  BY WriterMoves DEF WriterStep
<1>2. QED
  BY <1>1

LEMMA MainPlacesTyped ==
  ASSUME Sound, MainLoop \/ OtherStep \/ Restart PROVE PlacesTyped'
<1> USE Names DEF Sound, PlacesTyped
<1>1. CASE Restart
  BY <1>1 DEF Restart, Places, MainPlaces, Clerks, Writers
<1>2. CASE OtherStep
  BY <1>2 DEF OtherStep, RestoreDefaults, GpioWrites, Signal, Age
<1>3. CASE MainLoop
  <2>1. PICK place \in MainPlaces : pc' = pc \/ pc' = [pc EXCEPT ![Main] = place]
    BY <1>3 DEF MainLoop, Period, MainLock, MainSet, BeginSync, CommitSync, RollbackSync,
       NextTable, MainUnlock, MainStop, MainJoined, MainClose, Goto, MainPlaces
  <2>2. MainPlaces \subseteq Places
    BY DEF Places
  <2>3. \A th \in Writers : pc'[th] = pc[th]
    BY <2>1
  <2>4. pc'[Main] \in MainPlaces /\ pc' \in [Threads -> Places]
    BY <2>1, <2>2
  <2>5. QED
    BY <2>3, <2>4
<1>4. QED
  BY <1>1, <1>2, <1>3

\* The commands.
LEMMA WriterCommands ==
  ASSUME Sound, NEW th \in Writers, WriterStep(th) PROVE CommandsTyped'
<1> USE Names, NothingIsSane DEF Sound, CommandsTyped
<1>1. /\ pc' \in [Threads -> Places]
      /\ \A other \in Writers : other # th => pc'[other] = pc[other]
  BY WriterMoves DEF WriterStep
<1>2. ASSUME NEW c \in Command, Sane(c), c.op \in Ops \cup {"none"}, pc'[th] # "fill",
             cmd' = [cmd EXCEPT ![th] = c]
      PROVE  CommandsTyped'
  BY <1>1, <1>2
<1>3. CASE cmd' = [cmd EXCEPT ![th] = NoCommand] /\ pc'[th] # "fill"
  BY <1>2, <1>3
<1>4. CASE \E c \in Command : Sane(c) /\ Begin(th, c)
  BY <1>2, <1>4, WriterMoves DEF Begin, Goto, PlacesTyped
<1>5. CASE cmd' = cmd /\ (pc'[th] = "fill" => cmd[th].op \in {"set", "picture"})
  BY <1>1, <1>5
<1>6. CASE Acquire(th)
  BY <1>5, <1>6 DEF Acquire, Goto, PlacesTyped
<1>7. ASSUME th \in Clerks, \/ FillTask(th) \/ FillNothing(th) \/ DeletionDone(th)
                            \/ WriteSystem(th) \/ RejectSystem(th) \/ CreateTaskFails(th)
      PROVE  CommandsTyped'
  BY <1>3, <1>7 DEF FillTask, FillNothing, DeletionDone, WriteSystem, RejectSystem,
     CreateTaskFails, Release, Leave, Goto, PlacesTyped
<1>8. ASSUME th \in Clerks, CreateTask(th) PROVE CommandsTyped'
  BY <1>5, <1>8 DEF CreateTask, Holds
<1>9. ASSUME th \in Clerks, DeleteTask(th) \/ DeleteStatus(th) \/ ExpireTag(th)
      PROVE  CommandsTyped'
  <2>1. PICK t \in cmd[th].tags : cmd' = [cmd EXCEPT ![th].tags = @ \ {t}]
    BY <1>9 DEF DeleteTask, DeleteStatus, ExpireTag
  <2>2. pc' = pc /\ pc[th] = "body" /\ cmd[th].op \notin {"set", "picture"}
    BY <1>9 DEF DeleteTask, DeleteStatus, ExpireTag, Holds
  <2> DEFINE c == [cmd[th] EXCEPT !.tags = @ \ {t}]
  <2>3. c \in Command /\ c.op = cmd[th].op
    BY DEF Command
  <2>4. Sane(c)
    BY <2>2, <2>3 DEF Sane
  <2>5. cmd' = [cmd EXCEPT ![th] = c]
    BY <2>1
  <2>6. QED
    BY <1>2, <2>2, <2>3, <2>4, <2>5
<1>10. ASSUME \/ th \in Devs /\ (StoreReport(th) \/ StoreReportFails(th))
              \/ ReleaseLeaked(th)
       PROVE  CommandsTyped'
  BY <1>3, <1>10 DEF StoreReport, StoreReportFails, ReleaseLeaked, Release, Leave, Goto,
     PlacesTyped
<1>11. ASSUME th \in Devs, EndSerial(th) PROVE CommandsTyped'
  BY <1>5, <1>11 DEF EndSerial, Goto, PlacesTyped
<1>12. QED
  BY <1>4, <1>6, <1>7, <1>8, <1>9, <1>10, <1>11 DEF WriterStep, ClerkStep, DevStep

LEMMA MainCommands ==
  ASSUME Sound, MainLoop \/ OtherStep \/ Restart PROVE CommandsTyped'
<1> USE Names, NothingIsSane DEF Sound, CommandsTyped
<1>1. CASE Restart
  BY <1>1 DEF Restart
<1>2. CASE OtherStep
  BY <1>2 DEF OtherStep, RestoreDefaults, GpioWrites, Signal, Age
<1>3. CASE MainLoop
  <2>1. cmd' = cmd
    BY <1>3 DEF MainLoop, Period, MainLock, MainSet, BeginSync, CommitSync, RollbackSync,
       NextTable, MainUnlock, MainStop, MainJoined, MainClose, mainUnchanged
  <2>2. \A th \in Writers : pc'[th] = pc[th]
    BY <1>3 DEF MainLoop, Period, MainLock, MainSet, BeginSync, CommitSync, RollbackSync,
       NextTable, MainUnlock, MainStop, MainJoined, MainClose, Goto, PlacesTyped
  <2>3. QED
    BY <2>1, <2>2
<1>4. QED
  BY <1>1, <1>2, <1>3

\* What a writer may do to the tables: change one row of each, under the lock.
RowChanged(new, old) == \E t \in Tags, v \in Jobs \cup {Blank, Absent} :
                          new.EDTask = [old.EDTask EXCEPT ![t] = v]
ReportChanged(new, old) == \E t \in Tags, v \in Reports \cup {Absent} :
                             new.EDStatus = [old.EDStatus EXCEPT ![t] = v]
Touched == /\ cache' \in Tables
           /\ cache'.EDTask = cache.EDTask \/ RowChanged(cache', cache)
           /\ cache'.EDStatus = cache.EDStatus \/ ReportChanged(cache', cache)

LEMMA WriterTables ==
  ASSUME Sound, NEW th \in Writers, WriterStep(th)
  PROVE  /\ cache' = cache \/ (pc[th] \in {"body", "fill"} /\ Touched)
         /\ stale' \subseteq Tags /\ UNCHANGED mainVars
<1> USE DEF Sound, TablesTyped
<1>0. /\ cache \in Tables /\ stale \subseteq Tags
      /\ cmd[th] \in Command /\ cmd[th].tags \subseteq Tags
      /\ cmd[th].job \in Jobs \cup {Blank} /\ cmd[th].report \in Reports
  BY DEF CommandsTyped, Command
<1>1. ASSUME NEW t \in Tags, NEW v \in Jobs \cup {Blank, Absent},
             cache' = [cache EXCEPT !.EDTask[t] = v]
      PROVE  Touched
  BY <1>0, <1>1 DEF Touched, RowChanged, Tables, TaskRows
<1>2. ASSUME NEW t \in Tags, NEW r \in Reports \cup {Absent},
             cache' = [cache EXCEPT !.EDStatus[t] = r]
      PROVE  Touched
  BY <1>0, <1>2 DEF Touched, ReportChanged, Tables, StatusRows
<1>3. ASSUME NEW t \in Tags, cache' = [cache EXCEPT !.EDStatus[t] = Absent, !.EDTask[t] = Absent]
      PROVE  Touched
  BY <1>0, <1>3 DEF Touched, RowChanged, ReportChanged, Tables, TaskRows, StatusRows
<1>4. CASE \E c \in Command : Begin(th, c)
  BY <1>0, <1>4 DEF Begin, tableVars, mainVars
<1>5. CASE Acquire(th)
  BY <1>0, <1>5 DEF Acquire, tableVars, mainVars
<1>6. CASE CreateTask(th)
  BY <1>0, <1>1, <1>6 DEF CreateTask, Holds, mainVars
<1>7. CASE FillTask(th)
  BY <1>0, <1>1, <1>7 DEF FillTask, mainVars
<1>8. CASE DeleteTask(th)
  BY <1>0, <1>1, <1>8 DEF DeleteTask, Holds, mainVars
<1>9. CASE DeleteStatus(th)
  BY <1>0, <1>2, <1>9 DEF DeleteStatus, Holds, mainVars
<1>10. CASE ExpireTag(th)
  BY <1>0, <1>3, <1>10 DEF ExpireTag, Holds, mainVars
<1>11. CASE \/ FillNothing(th) \/ DeletionDone(th) \/ WriteSystem(th) \/ RejectSystem(th)
            \/ CreateTaskFails(th) \/ ReleaseLeaked(th) \/ EndSerial(th)
  BY <1>0, <1>11 DEF FillNothing, DeletionDone, WriteSystem, RejectSystem, CreateTaskFails,
     ReleaseLeaked, EndSerial, tableVars, mainVars
<1>12. CASE StoreReport(th)
  BY <1>0, <1>2, <1>12 DEF StoreReport, Holds, mainVars
<1>13. CASE StoreReportFails(th)
  BY <1>0, <1>2, <1>13 DEF StoreReportFails, Holds, tableVars, mainVars
<1>14. QED
  BY <1>4, <1>5, <1>6, <1>7, <1>8, <1>9, <1>10, <1>11, <1>12, <1>13
  DEF WriterStep, ClerkStep, DevStep

LEMMA WriterKeepsTables ==
  ASSUME Sound, NEW th \in Writers, WriterStep(th) PROVE TablesTyped' /\ TodoTyped'
<1>1. cache' \in Tables /\ stale' \subseteq Tags
  BY WriterTables DEF Touched, Sound, TablesTyped
<1>2. UNCHANGED mainVars /\ (Saving' <=> Saving)
  BY WriterTables, WriterMoves DEF WriterStep
<1>3. TablesTyped'
  BY <1>1, <1>2 DEF Sound, TablesTyped, mainVars
<1>4. TodoTyped'
  BY <1>2 DEF Sound, TodoTyped, mainVars
<1>5. QED
  BY <1>3, <1>4

\* What the main loop does to the tables.
LEMMA NextTodo ==
  ASSUME Sound, NextTable PROVE todo' \in Seq(Order) /\ Len(todo') <= 4 /\ ~ Saving'
<1>1. todo \in Seq(Order) /\ Len(todo) <= 4 /\ todo' = Tail(todo)
  BY DEF Sound, TodoTyped, NextTable
<1>2. pc'[Main] \in {"begin", "stop_begin"}
  BY Names DEF Sound, PlacesTyped, NextTable, Goto
<1>3. ~ Saving'
  BY <1>2 DEF Saving
<1>4. CASE todo = <<>>
  <2>1. ~ Saving
    BY <1>4 DEF Sound, TodoTyped
  <2>2. QED
    BY <1>1, <1>3, <1>4
<1>5. CASE todo # <<>>
  <2>1. Tail(todo) \in Seq(Order) /\ Len(Tail(todo)) = Len(todo) - 1 /\ Len(todo) \in Nat
    BY <1>1, <1>5
  <2>2. QED
    BY <1>1, <1>3, <2>1
<1>6. QED
  BY <1>4, <1>5

\* Where Main is after each of its steps.
LEMMA MainMoves ==
  ASSUME Sound, NEW place, Goto(Main, place)
  PROVE  pc'[Main] = place /\ \A th \in Writers : pc'[th] = pc[th]
BY Names DEF Sound, PlacesTyped, Goto

LEMMA MainKeepsTables ==
  ASSUME Sound, MainLoop PROVE TablesTyped' /\ TodoTyped'
<1> USE DEF Sound, mainUnchanged, tableVars, mainVars
<1>1. CASE Period \/ MainLock \/ MainUnlock \/ MainStop \/ MainClose
  <2>1. ~ Saving /\ ~ Saving'
    BY <1>1, MainMoves DEF Period, MainLock, MainUnlock, MainStop, MainClose, Saving
  <2>2. UNCHANGED <<cache, stale, saved, shadow, todo>>
    BY <1>1 DEF Period, MainLock, MainUnlock, MainStop, MainClose
  <2>3. TablesTyped'
    BY <2>1, <2>2 DEF TablesTyped
  <2>4. TodoTyped'
    BY <2>1, <2>2 DEF TodoTyped
  <2>5. QED
    BY <2>3, <2>4
<1>2. CASE MainSet \/ MainJoined
  <2>1. ~ Saving /\ ~ Saving'
    BY <1>2, MainMoves DEF MainSet, MainJoined, Saving
  <2>2. UNCHANGED <<cache, stale, saved, shadow>> /\ todo' \in {SyncOrder, StopOrder}
    BY <1>2 DEF MainSet, MainJoined
  <2>3. TablesTyped'
    BY <2>1, <2>2 DEF TablesTyped
  <2>4. TodoTyped'
    <3>1. CASE todo' = SyncOrder
      <4>1. todo' \in Seq(Order) /\ Len(todo') = 3
        BY <3>1, Orders
      <4>2. QED
        BY <2>1, <4>1 DEF TodoTyped
    <3>2. CASE todo' = StopOrder
      <4>1. todo' \in Seq(Order) /\ Len(todo') = 4
        BY <3>2, Orders
      <4>2. QED
        BY <2>1, <4>1 DEF TodoTyped
    <3>3. QED
      BY <2>2, <3>1, <3>2
  <2>5. QED
    BY <2>3, <2>4
<1>3. CASE BeginSync
  <2>1. Saving' /\ shadow' = cache /\ todo # <<>>
    BY <1>3, MainMoves DEF BeginSync, Saving
  <2>2. UNCHANGED <<cache, stale, saved, todo>>
    BY <1>3 DEF BeginSync
  <2>3. TablesTyped'
    BY <2>1, <2>2 DEF TablesTyped
  <2>4. TodoTyped'
    BY <2>1, <2>2 DEF TodoTyped
  <2>5. QED
    BY <2>3, <2>4
<1>4. CASE CommitSync \/ RollbackSync
  <2>1. NextTable /\ Saving
    BY <1>4 DEF CommitSync, RollbackSync, Saving
  <2>2. TodoTyped'
    BY <2>1, NextTodo DEF TodoTyped
  <2>3. ~ Saving' /\ shadow' = Absent /\ UNCHANGED <<cache, stale>>
    BY <2>1, NextTodo DEF NextTable
  <2>4. saved' \in Tables
    <3>1. CASE saved' = saved
      BY <3>1 DEF TablesTyped
    <3>2. CASE saved' = [tb \in DOMAIN saved |-> IF tb = Head(todo) THEN shadow[tb] ELSE saved[tb]]
      BY <2>1, <3>2 DEF TablesTyped, Tables
    <3>3. QED
      BY <1>4, <3>1, <3>2 DEF CommitSync, RollbackSync
  <2>5. TablesTyped'
    BY <2>3, <2>4 DEF TablesTyped
  <2>6. QED
    BY <2>2, <2>5
<1>5. QED
  BY <1>1, <1>2, <1>3, <1>4 DEF MainLoop

LEMMA OthersKeepTables ==
  ASSUME Sound, OtherStep \/ Restart PROVE TablesTyped' /\ TodoTyped'
<1> USE DEF Sound
<1>1. CASE OtherStep
  <2>1. UNCHANGED <<cache, saved, shadow, todo, pc>> /\ stale' \subseteq Tags
    BY <1>1 DEF OtherStep, RestoreDefaults, GpioWrites, Signal, Age, tableVars, mainVars,
       TablesTyped
  <2>2. Saving' <=> Saving
    BY <2>1 DEF Saving
  <2>3. TablesTyped'
    BY <2>1, <2>2 DEF TablesTyped
  <2>4. TodoTyped'
    BY <2>1, <2>2 DEF TodoTyped
  <2>5. QED
    BY <2>3, <2>4
<1>2. CASE Restart
  <2>1. ~ Saving'
    BY <1>2, Names DEF Restart, Saving
  <2>2. TablesTyped'
    BY <1>2, <2>1 DEF Restart, TablesTyped
  <2>3. TodoTyped'
    BY <1>2, <2>1 DEF Restart, TodoTyped
  <2>4. QED
    BY <2>2, <2>3
<1>3. QED
  BY <1>1, <1>2

\* The System row.
LEMMA WrittenTyped ==
  ASSUME Sound, NEW v \in Settings
  PROVE  /\ Written(v) \in [mem : Settings, disk : Settings,
                            txn : Settings \cup {Absent}, acked : Settings]
         /\ ~ Saving => Written(v).txn = Absent
         /\ Saving => Written(v).txn \in Settings
         /\ Written(v).mem = system.mem
BY DEF Sound, SystemTyped, TablesTyped, Written

LEMMA WriterSystem ==
  ASSUME Sound, NEW th \in Writers, WriterStep(th) PROVE SystemTyped'
<1> USE DEF Sound, SystemTyped
<1>1. Saving' <=> Saving
  BY WriterMoves DEF WriterStep
<1>2. cmd[th].value \in Settings
  BY DEF CommandsTyped, Command
<1>3. ASSUME th \in Clerks, WriteSystem(th) PROVE SystemTyped'
  BY <1>1, <1>2, <1>3, WrittenTyped DEF WriteSystem
<1>4. ASSUME th \in Clerks, RejectSystem(th) PROVE SystemTyped'
  BY <1>1, <1>2, <1>4 DEF RejectSystem
<1>5. CASE UNCHANGED system
  BY <1>1, <1>5
<1>6. QED
  BY <1>3, <1>4, <1>5 DEF WriterStep, ClerkStep, DevStep, Begin, Acquire, CreateTask,
     CreateTaskFails, FillTask, FillNothing, DeleteTask, DeleteStatus, ExpireTag, DeletionDone,
     StoreReport, StoreReportFails, ReleaseLeaked, EndSerial

LEMMA MainSystem ==
  ASSUME Sound, MainLoop PROVE SystemTyped'
<1> USE DEF Sound, SystemTyped
<1>1. CASE Period \/ MainLock \/ MainUnlock \/ MainStop \/ MainClose \/ MainSet \/ MainJoined
  <2>1. ~ Saving /\ ~ Saving' /\ UNCHANGED system
    BY <1>1, MainMoves DEF Period, MainLock, MainUnlock, MainStop, MainClose, MainSet,
       MainJoined, Saving
  <2>2. QED
    BY <2>1
<1>2. CASE BeginSync
  <2>1. Saving'
    BY <1>2, MainMoves DEF BeginSync, Saving
  <2>2. QED
    BY <1>2, <2>1 DEF BeginSync
<1>3. CASE CommitSync \/ RollbackSync
  <2>1. NextTable /\ Saving
    BY <1>3 DEF CommitSync, RollbackSync, Saving
  <2>2. ~ Saving'
    BY <2>1, NextTodo
  <2>3. QED
    BY <1>3, <2>1, <2>2 DEF CommitSync, RollbackSync
<1>4. QED
  BY <1>1, <1>2, <1>3 DEF MainLoop

LEMMA OthersSystem ==
  ASSUME Sound, OtherStep \/ Restart PROVE SystemTyped'
<1> USE DEF Sound, SystemTyped
<1>1. CASE Restart
  <2>1. ~ Saving'
    BY <1>1, Names DEF Restart, Saving
  <2>2. QED
    BY <1>1, <2>1 DEF Restart
<1>2. CASE OtherStep
  <2>1. Saving' <=> Saving
    BY <1>2 DEF OtherStep, RestoreDefaults, GpioWrites, Signal, Age, Saving
  <2>2. \/ UNCHANGED system \/ \E v \in Settings : system' = Written(v)
    BY <1>2, StationAssumption DEF OtherStep, RestoreDefaults, GpioWrites, Signal, Age
  <2>3. QED
    BY <2>1, <2>2, WrittenTyped
<1>3. QED
  BY <1>1, <1>2

\* The counter of periods.
LEMMA NextCounted == Sound /\ [Next]_vars => Counted'
<1> SUFFICES ASSUME Sound, Step \/ UNCHANGED vars PROVE Counted'
  BY Steps
<1> USE DEF Sound, Counted
<1>1. ASSUME NEW th \in Writers, WriterStep(th) PROVE Counted'
  <2>1. task_update' = task_update \/ task_update' = 1
    BY <1>1 DEF WriterStep, ClerkStep, DevStep, Begin, Acquire, CreateTask, CreateTaskFails, FillTask,
       FillNothing, DeleteTask, DeleteStatus, ExpireTag, DeletionDone, WriteSystem,
       RejectSystem, StoreReport, StoreReportFails, ReleaseLeaked, Leave, EndSerial
  <2>2. pc'[Main] = pc[Main]
    BY <1>1, WriterMoves DEF WriterStep
  <2>3. QED
    BY <2>1, <2>2
<1>2. CASE Period
  <2>1. pc[Main] = "sleep" /\ task_update' = task_update - 1
    BY <1>2 DEF Period
  <2>2. task_update \in 1..6
    BY <2>1
  <2>3. pc'[Main] = IF task_update' = 0 THEN "lock" ELSE "sleep"
    BY <1>2, MainMoves DEF Period
  <2>4. QED
    BY <2>1, <2>2, <2>3
<1>3. CASE MainLock
  BY <1>3, MainMoves DEF MainLock
<1>4. CASE MainSet
  BY <1>4, MainMoves DEF MainSet, Reload
<1>5. CASE MainUnlock \/ MainStop \/ MainJoined \/ MainClose \/ BeginSync \/ CommitSync
           \/ RollbackSync
  <2>1. task_update' = task_update /\ task_update # 0
    BY <1>5 DEF MainUnlock, MainStop, MainJoined, MainClose, BeginSync, CommitSync,
       RollbackSync, NextTable, mainVars
  <2>2. QED
    BY <2>1
<1>6. CASE OtherStep \/ UNCHANGED vars
  <2>1. task_update' = task_update /\ pc' = pc
    BY <1>6 DEF OtherStep, RestoreDefaults, GpioWrites, Signal, Age, vars
  <2>2. QED
    BY <2>1
<1>7. CASE Restart
  BY <1>7 DEF Restart
<1>8. QED
  BY <1>1, <1>2, <1>3, <1>4, <1>5, <1>6, <1>7, StepIsOf DEF MainLoop

\* The lock.
LEMMA WriterLocked ==
  ASSUME Sound, NEW th \in Writers, WriterStep(th) PROVE Locked'
<1> USE Names DEF Sound, Locked
<1>1. /\ pc'[Main] = pc[Main]
      /\ \A other \in Writers : other # th => pc'[other] = pc[other]
  BY WriterMoves DEF WriterStep
<1>2. CASE /\ lock' = lock
           /\ pc'[th] \in {"body", "fill", "leaked"} => pc[th] \in {"body", "fill", "leaked"}
  BY <1>1, <1>2
<1>3. CASE lock = th /\ lock' = Free /\ pc'[th] = "idle"
  BY <1>1, <1>3
<1>4. CASE Acquire(th)
  BY <1>1, <1>4 DEF Acquire
<1>5. CASE \E c \in Command : Begin(th, c)
  BY <1>2, <1>5 DEF Begin, Goto, PlacesTyped
<1>6. ASSUME th \in Clerks, CreateTask(th) \/ DeleteTask(th) \/ DeleteStatus(th) \/ ExpireTag(th)
      PROVE  Locked'
  BY <1>2, <1>6 DEF CreateTask, DeleteTask, DeleteStatus, ExpireTag, Holds
<1>7. ASSUME \/ FillTask(th) \/ FillNothing(th) \/ DeletionDone(th)
             \/ WriteSystem(th) \/ RejectSystem(th) \/ StoreReport(th)
             \/ ReleaseLeaked(th)
      PROVE  Locked'
  <2>1. pc[th] \in {"body", "fill", "leaked"} /\ Release(th)
    BY <1>7 DEF FillTask, FillNothing, DeletionDone, WriteSystem, RejectSystem,
       StoreReport, ReleaseLeaked, Holds
  <2>2. pc'[th] = "idle" /\ lock' = Free /\ lock = th
    BY <2>1 DEF Release, Goto, PlacesTyped
  <2>3. QED
    BY <1>3, <2>2
<1>8. CASE EndSerial(th)
  BY <1>2, <1>8 DEF EndSerial, Goto, PlacesTyped
<1>9. ASSUME StoreReportFails(th) \/ CreateTaskFails(th) PROVE Locked'
  <2>1. pc[th] = "body" /\ (Release(th) \/ Leave(th))
    BY <1>9 DEF StoreReportFails, CreateTaskFails, Holds
  <2>2. CASE Release(th)
    BY <1>3, <2>1, <2>2 DEF Release, Goto, PlacesTyped
  <2>3. CASE Leave(th)
    BY <1>2, <2>1, <2>3 DEF Leave
  <2>4. QED
    BY <2>1, <2>2, <2>3
<1>10. QED
  BY <1>4, <1>5, <1>6, <1>7, <1>8, <1>9 DEF WriterStep, ClerkStep, DevStep

LEMMA MainLocked ==
  ASSUME Sound, MainLoop \/ OtherStep \/ Restart PROVE Locked'
<1> USE Names DEF Sound, Locked
<1>1. CASE Restart
  BY <1>1 DEF Restart
<1>2. CASE OtherStep
  BY <1>2 DEF OtherStep, RestoreDefaults, GpioWrites, Signal, Age
<1>3. CASE Period \/ MainStop \/ MainJoined \/ MainClose
  <2>1. lock' = lock /\ pc'[Main] \notin {"set", "begin", "commit"}
        /\ \A th \in Writers : pc'[th] = pc[th]
    BY <1>3, MainMoves DEF Period, MainStop, MainJoined, MainClose
  <2>2. QED
    BY <2>1
<1>4. CASE MainLock
  <2>1. lock = Free /\ lock' = Main /\ \A th \in Writers : pc'[th] = pc[th]
    BY <1>4, MainMoves DEF MainLock
  <2>2. QED
    BY <2>1
<1>5. CASE MainSet \/ BeginSync \/ CommitSync \/ RollbackSync
  <2>1. /\ lock' = lock
        /\ pc'[Main] \in {"set", "begin", "commit"} => pc[Main] \in {"set", "begin", "commit"}
        /\ \A th \in Writers : pc'[th] = pc[th]
    BY <1>5, MainMoves DEF MainSet, BeginSync, CommitSync, RollbackSync, NextTable
  <2>2. QED
    BY <2>1
<1>6. CASE MainUnlock
  <2>1. lock = Main /\ lock' = Free /\ pc'[Main] = "sleep"
        /\ \A th \in Writers : pc'[th] = pc[th]
    BY <1>6, MainMoves DEF MainUnlock
  <2>2. QED
    BY <2>1
<1>7. QED
  BY <1>1, <1>2, <1>3, <1>4, <1>5, <1>6 DEF MainLoop

LEMMA NextSound == Sound /\ [Next]_vars => Sound'
<1> SUFFICES ASSUME Sound, [Next]_vars PROVE Sound'
  OBVIOUS
<1>0. Step \/ UNCHANGED vars
  BY Steps
<1>1. restart' \in BOOLEAN /\ Counted'
  BY NextRestartFlag, NextCounted DEF Sound
<1>2. ASSUME NEW th \in Writers, WriterStep(th)
      PROVE  TablesTyped' /\ SystemTyped' /\ TodoTyped' /\ PlacesTyped' /\ CommandsTyped' /\ Locked'
  BY <1>2, WriterKeepsTables, WriterSystem, WriterPlaces, WriterCommands, WriterLocked
<1>3. ASSUME MainLoop \/ OtherStep \/ Restart
      PROVE  TablesTyped' /\ SystemTyped' /\ TodoTyped' /\ PlacesTyped' /\ CommandsTyped' /\ Locked'
  BY <1>3, MainKeepsTables, OthersKeepTables, MainSystem, OthersSystem, MainPlacesTyped,
     MainCommands, MainLocked
<1>4. ASSUME UNCHANGED vars
      PROVE  TablesTyped' /\ SystemTyped' /\ TodoTyped' /\ PlacesTyped' /\ CommandsTyped' /\ Locked'
  <2>1. TablesTyped' /\ SystemTyped' /\ TodoTyped'
    BY <1>4 DEF vars, Sound, TablesTyped, SystemTyped, TodoTyped, Saving
  <2>2. PlacesTyped' /\ CommandsTyped' /\ Locked'
    BY <1>4 DEF vars, Sound, PlacesTyped, CommandsTyped, Locked
  <2>3. QED
    BY <2>1, <2>2
<1>5. QED
  BY <1>0, <1>1, <1>2, <1>3, <1>4, StepIsOf DEF Sound

LEMMA SoundAlways == Spec => []Sound
BY InitSound, NextSound, PTL DEF Spec

\* Types, for every number of tags and radio threads, with failing
\* synchronisations, stops, restarts and reports that find no memory.
THEOREM TypeCorrect == Spec => []TypeOK
BY SoundAlways, SoundIsTypeOK, PTL

-----------------------------------------------------------------------------
(***************************************************************************)
(* A synchronisation of the main loop reads one state of the cache         *)
(***************************************************************************)
Mirrored == pc[Main] = "commit" => shadow = cache

LEMMA WriterIsShutOut ==
  ASSUME Sound, NEW th \in Writers, WriterStep(th), pc[Main] \in {"set", "begin", "commit"}
  PROVE  cache' = cache
<1>1. lock = Main /\ th # Main
  BY Names DEF Sound, Locked
<1>2. pc[th] \notin {"body", "fill"}
  BY <1>1 DEF Sound, Locked
<1>3. QED
  BY <1>2, WriterTables

LEMMA NextMirrored == Sound /\ Mirrored /\ [Next]_vars => Mirrored'
<1> SUFFICES ASSUME Sound, Mirrored, Step \/ UNCHANGED vars PROVE Mirrored'
  BY Steps
<1> USE DEF Mirrored
<1>1. ASSUME NEW th \in Writers, WriterStep(th) PROVE Mirrored'
  <2>1. pc'[Main] = pc[Main] /\ UNCHANGED mainVars
    BY <1>1, WriterMoves, WriterTables DEF WriterStep
  <2>2. QED
    BY <1>1, <2>1, WriterIsShutOut DEF mainVars
<1>2. CASE BeginSync
  BY <1>2 DEF BeginSync, mainUnchanged, tableVars
<1>3. CASE \/ Period \/ MainLock \/ MainSet \/ CommitSync \/ RollbackSync \/ MainUnlock
           \/ MainStop \/ MainJoined \/ MainClose
  <2>1. pc'[Main] # "commit"
    BY <1>3, MainMoves DEF Period, MainLock, MainSet, CommitSync, RollbackSync, NextTable,
       MainUnlock, MainStop, MainJoined, MainClose
  <2>2. QED
    BY <2>1
<1>4. CASE OtherStep \/ UNCHANGED vars
  <2>1. pc' = pc /\ cache' = cache /\ shadow' = shadow
    BY <1>4 DEF OtherStep, RestoreDefaults, GpioWrites, Signal, Age, vars, tableVars, mainVars
  <2>2. QED
    BY <2>1
<1>5. CASE Restart
  BY <1>5, Names DEF Restart
<1>6. QED
  BY <1>1, <1>2, <1>3, <1>4, <1>5, StepIsOf DEF MainLoop

LEMMA MirroredAlways == Spec => [](Sound /\ Mirrored)
<1>1. Init => Mirrored
  BY Names DEF Init, Mirrored
<1>2. QED
  BY <1>1, InitSound, NextSound, NextMirrored, PTL DEF Spec

-----------------------------------------------------------------------------
(***************************************************************************)
(* Pending tasks                                                           *)
(***************************************************************************)
\* The hypotheses: each command raises the flag, and no synchronisation fails.
AllFlag == "picture" \notin Ops /\ SyncFaults = FALSE

Pending == cache.EDTask # saved.EDTask
Flagged ==
  /\ Pending => task_update = 1 \/ AboutToSaveTasks
  /\ \A th \in Clerks : pc[th] = "fill" => task_update = 1 \/ pc[Main] = "lock"
  /\ pc[Main] = "stop_commit" /\ shadow.EDTask # cache.EDTask => task_update = 1

LEMMA WriterFlagged ==
  ASSUME AllFlag, Sound, Flagged, NEW th \in Writers, WriterStep(th) PROVE Flagged'
<1>1. /\ pc'[Main] = pc[Main]
      /\ \A other \in Writers : other # th => pc'[other] = pc[other]
      /\ UNCHANGED <<saved, shadow, todo>>
  BY WriterMoves, WriterTables DEF WriterStep, mainVars
<1>2. AboutToSaveTasks' <=> AboutToSaveTasks
  BY <1>1 DEF AboutToSaveTasks
<1>3. ASSUME task_update' = 1 PROVE Flagged'
  BY <1>3 DEF Flagged
<1>4. ASSUME task_update' = task_update, cache'.EDTask = cache.EDTask, pc'[th] # "fill"
      PROVE  Flagged'
  BY <1>1, <1>2, <1>4, Names DEF Flagged, Pending
<1>5. ASSUME th \in Clerks, CreateTask(th) PROVE Flagged'
  <2>1. cmd[th].op = "set"
    BY <1>5 DEF AllFlag, CreateTask, Holds, Sound, CommandsTyped
  <2>2. QED
    BY <1>3, <1>5, <2>1 DEF CreateTask
<1>6. ASSUME th \in Clerks, FillTask(th) PROVE Flagged'
  <2>1. task_update' = task_update /\ (task_update = 1 \/ pc[Main] = "lock")
    BY <1>6 DEF FillTask, Flagged
  <2>2. pc'[th] # "fill"
    BY <1>6, Names DEF FillTask, Release, Goto, Sound, PlacesTyped
  <2>3. QED
    BY <1>1, <1>2, <2>1, <2>2, Names DEF Flagged, AboutToSaveTasks
<1>7. ASSUME th \in Clerks, DeleteTask(th) \/ ExpireTag(th) PROVE Flagged'
  BY <1>3, <1>7 DEF DeleteTask, ExpireTag
<1>8. ASSUME \/ \E c \in Command : Begin(th, c)
             \/ Acquire(th) \/ FillNothing(th) \/ DeletionDone(th) \/ WriteSystem(th)
             \/ RejectSystem(th) \/ CreateTaskFails(th) \/ ReleaseLeaked(th) \/ EndSerial(th)
      PROVE  Flagged'
  <2>1. task_update' = task_update /\ cache' = cache
    BY <1>8 DEF Begin, Acquire, FillNothing, DeletionDone, WriteSystem, RejectSystem,
       CreateTaskFails, ReleaseLeaked, EndSerial, tableVars
  <2>2. pc'[th] # "fill"
    BY <1>8, Names DEF Begin, Acquire, FillNothing, DeletionDone, WriteSystem, RejectSystem,
       CreateTaskFails, ReleaseLeaked, EndSerial, Release, Leave, Goto, Sound, PlacesTyped
  <2>3. QED
    BY <1>4, <2>1, <2>2
<1>9. ASSUME DeleteStatus(th) \/ StoreReport(th) \/ StoreReportFails(th) PROVE Flagged'
  <2>1. task_update' = task_update
    BY <1>9 DEF DeleteStatus, StoreReport, StoreReportFails
  <2>2. cache'.EDTask = cache.EDTask
    BY <1>9 DEF DeleteStatus, StoreReport, StoreReportFails, Sound, TablesTyped, Tables,
       tableVars
  <2>3. pc'[th] # "fill"
    BY <1>9 DEF DeleteStatus, StoreReport, StoreReportFails, Release, Leave, Holds, Goto, Sound,
       PlacesTyped
  <2>4. QED
    BY <1>4, <2>1, <2>2, <2>3
<1>10. QED
  BY <1>5, <1>6, <1>7, <1>8, <1>9 DEF WriterStep, ClerkStep, DevStep

LEMMA MainFlagged ==
  ASSUME AllFlag, Sound, Mirrored, Flagged, MainLoop PROVE Flagged'
<1> USE DEF mainUnchanged, tableVars, mainVars
<1>1. CASE Period
  <2>1. /\ pc[Main] = "sleep" /\ task_update' = task_update - 1 /\ task_update \in 0..6
        /\ pc'[Main] = IF task_update' = 0 THEN "lock" ELSE "sleep"
        /\ \A th \in Writers : pc'[th] = pc[th]
        /\ UNCHANGED <<cache, saved>>
    BY <1>1, MainMoves DEF Period, Sound, Counted
  <2>2. CASE task_update = 1
    <3>1. pc'[Main] = "lock"
      BY <2>1, <2>2
    <3>2. QED
      BY <3>1 DEF Flagged, AboutToSaveTasks
  <2>3. CASE task_update # 1
    <3>1. ~ Pending /\ \A th \in Clerks : pc[th] # "fill"
      BY <2>1, <2>3 DEF Flagged, AboutToSaveTasks
    <3>2. ~ Pending' /\ (\A th \in Clerks : pc'[th] # "fill") /\ pc'[Main] # "stop_commit"
      BY <2>1, <3>1, Names DEF Pending
    <3>3. QED
      BY <3>2 DEF Flagged
  <2>4. QED
    BY <2>2, <2>3
<1>2. CASE MainLock \/ MainSet
  <2>1. pc'[Main] = "set" \/ (pc'[Main] = "begin" /\ todo' = SyncOrder)
    BY <1>2, MainMoves DEF MainLock, MainSet
  <2>2. \A th \in Clerks : pc'[th] # "fill"
    <3>1. lock = Free \/ lock = Main
      BY <1>2 DEF MainLock, MainSet, Sound, Locked
    <3>2. \A th \in Clerks : pc[th] # "fill"
      BY <3>1, Names DEF Sound, Locked
    <3>3. QED
      BY <1>2, <3>2, MainMoves, Names DEF MainLock, MainSet
  <2>3. QED
    BY <2>1, <2>2 DEF Flagged, AboutToSaveTasks
<1>3. CASE BeginSync
  <2>1. /\ pc[Main] \in {"begin", "stop_begin"}
        /\ pc'[Main] = IF pc[Main] = "begin" THEN "commit" ELSE "stop_commit"
        /\ \A th \in Writers : pc'[th] = pc[th]
        /\ shadow' = cache /\ UNCHANGED <<cache, saved, todo, task_update>>
    BY <1>3, MainMoves DEF BeginSync
  <2>2. AboutToSaveTasks => AboutToSaveTasks'
    BY <2>1 DEF AboutToSaveTasks
  <2>3. QED
    BY <2>1, <2>2, Names DEF Flagged, Pending
<1>4. CASE CommitSync
  <2>1. /\ pc[Main] \in {"commit", "stop_commit"}
        /\ pc'[Main] \in {"begin", "stop_begin"}
        /\ \A th \in Writers : pc'[th] = pc[th]
        /\ UNCHANGED <<cache, task_update>>
    BY <1>4, MainMoves DEF CommitSync, NextTable
  <2>2. saved'.EDTask = IF Head(todo) = "EDTask" THEN shadow.EDTask ELSE saved.EDTask
    BY <1>4 DEF CommitSync, Sound, TablesTyped, Tables
  <2>3. AboutToSaveTasks => Head(todo) = "EDTask" /\ pc[Main] = "commit"
    BY <2>1, Orders DEF AboutToSaveTasks
  <2>4. pc[Main] = "commit" => shadow.EDTask = cache.EDTask
    BY DEF Mirrored
  <2>5. Pending' => task_update = 1
    BY <2>1, <2>2, <2>3, <2>4 DEF Flagged, Pending
  <2>6. \A th \in Clerks : pc'[th] = "fill" => task_update = 1
    BY <2>1, Names DEF Flagged
  <2>7. QED
    BY <2>1, <2>5, <2>6 DEF Flagged
<1>5. CASE RollbackSync
  BY <1>5 DEF RollbackSync, AllFlag
<1>6. CASE MainUnlock \/ MainStop \/ MainJoined \/ MainClose
  <2>1. /\ pc[Main] \in {"begin", "sleep", "join", "stop_begin"}
        /\ pc[Main] = "begin" => todo = <<>>
        /\ pc'[Main] # "stop_commit"
        /\ \A th \in Writers : pc'[th] = pc[th]
        /\ UNCHANGED <<cache, saved, task_update>>
    BY <1>6, MainMoves DEF MainUnlock, MainStop, MainJoined, MainClose
  <2>2. <<>> # SyncOrder
    BY DEF SyncOrder
  <2>3. ~ AboutToSaveTasks /\ pc[Main] # "lock"
    BY <2>1, <2>2 DEF AboutToSaveTasks
  <2>4. QED
    BY <2>1, <2>3, Names DEF Flagged, Pending
<1>7. QED
  BY <1>1, <1>2, <1>3, <1>4, <1>5, <1>6 DEF MainLoop

LEMMA NextFlagged ==
  AllFlag /\ Sound /\ Mirrored /\ Flagged /\ [Next]_vars => Flagged'
<1> SUFFICES ASSUME AllFlag, Sound, Mirrored, Flagged, Step \/ UNCHANGED vars PROVE Flagged'
  BY Steps
<1>1. CASE OtherStep \/ UNCHANGED vars
  <2>1. UNCHANGED <<pc, cache, saved, shadow, todo, task_update>>
    BY <1>1 DEF OtherStep, RestoreDefaults, GpioWrites, Signal, Age, vars, tableVars, mainVars
  <2>2. QED
    BY <2>1 DEF Flagged, Pending, AboutToSaveTasks
<1>2. CASE Restart
  <2>1. task_update' = 1
    BY <1>2 DEF Restart
  <2>2. QED
    BY <2>1 DEF Flagged
<1>3. QED
  BY <1>1, <1>2, WriterFlagged, MainFlagged, StepIsOf

\* A changed task is never overlooked: with commands that all raise the flag and
\* synchronisations that succeed, for any number of tags and radio threads,
\* through stops, restarts and reports that find no memory.
THEOREM PendingIsFlagged == ASSUME AllFlag PROVE Spec => []PendingTasksFlagged
<1>1. Init => Flagged
  BY Names DEF Init, Flagged, Pending
<1>2. Sound /\ Mirrored /\ Flagged /\ [Next]_vars => Flagged'
  BY NextFlagged
<1>3. Flagged => PendingTasksFlagged
  BY DEF Flagged, Pending, PendingTasksFlagged
<1>4. QED
  BY <1>1, <1>2, <1>3, MirroredAlways, PTL DEF Spec

-----------------------------------------------------------------------------
(***************************************************************************)
(* Half-made rows                                                          *)
(***************************************************************************)
\* The main loop changes no row in memory; only a synchronisation writes rows
\* to disk.
LEMMA MainReads == ASSUME MainLoop PROVE cache' = cache
BY DEF MainLoop, Period, MainLock, MainSet, BeginSync, CommitSync, RollbackSync, NextTable,
   MainUnlock, MainStop, MainJoined, MainClose, mainUnchanged, tableVars

LEMMA SavesAre ==
  ASSUME Sound, Step, saved' # saved PROVE CommitSync
<1>1. ASSUME NEW th \in Writers, WriterStep(th) PROVE saved' = saved
  BY <1>1, WriterTables DEF mainVars
<1>2. CASE OtherStep \/ Restart
  BY <1>2 DEF OtherStep, RestoreDefaults, GpioWrites, Signal, Age, mainVars, Restart
<1>3. CASE \/ Period \/ MainLock \/ MainSet \/ BeginSync \/ RollbackSync \/ MainUnlock
           \/ MainStop \/ MainJoined \/ MainClose
  BY <1>3 DEF Period, MainLock, MainSet, BeginSync, RollbackSync, MainUnlock, MainStop,
     MainJoined, MainClose, mainVars
<1>4. QED
  BY <1>1, <1>2, <1>3, StepIsOf DEF MainLoop

\* No synchronisation of the main loop ever saves the row that a command has
\* created and not filled yet, for any number of tags and radio threads and
\* whatever fails; only the synchronisations of a stop may.
THEOREM NoHalfRow == Spec => SavesNoHalfRow
<1>1. Sound /\ [Next]_vars
      => [\A t \in Tags :
            Filling(t) /\ saved.EDTask[t] # Blank /\ saved'.EDTask[t] = Blank => task_exit]_vars
  <2> SUFFICES ASSUME Sound, Step,
                      NEW t \in Tags, Filling(t),
                      saved.EDTask[t] # Blank, saved'.EDTask[t] = Blank
               PROVE  task_exit
    BY Steps
  <2>1. CommitSync
    BY SavesAre
  <2>2. pc[Main] # "commit"
    BY Names DEF Sound, Locked, Filling, Clerks
  <2>3. QED
    BY <2>1, <2>2 DEF CommitSync, task_exit
<1>2. QED
  BY <1>1, SoundAlways, PTL DEF Spec, SavesNoHalfRow

-----------------------------------------------------------------------------
(***************************************************************************)
(* As long as nobody stops the station                                     *)
(***************************************************************************)
\* The hypothesis: no signal and no command stops the station, nor does it stop
\* itself since it has no memory. The synchronisations of a stop do without the lock.
Unstopped == Stops = FALSE /\ OutOfMemory = FALSE

Quiet == /\ ~ restart /\ ~ task_exit
         /\ Saving => shadow = cache /\ system.txn = system.disk
         /\ system.disk = system.acked

\* No writer is at work while a table is saved.
LEMMA NobodyWorks ==
  ASSUME Sound, Quiet, NEW th \in Writers, Saving
  PROVE  pc[th] \notin {"body", "fill"} /\ lock # Free
BY Names DEF Sound, Locked, Quiet, Saving, task_exit

LEMMA WriterQuiet ==
  ASSUME Unstopped, Sound, Quiet, NEW th \in Writers, WriterStep(th) PROVE Quiet'
<1>1. /\ pc'[Main] = pc[Main] /\ (Saving' <=> Saving)
      /\ UNCHANGED <<saved, shadow>>
      /\ cache' = cache \/ pc[th] \in {"body", "fill"}
  BY WriterMoves, WriterTables DEF WriterStep, mainVars
<1>2. task_exit' <=> task_exit
  BY <1>1 DEF task_exit
<1>3. Saving' => shadow' = cache'
  BY <1>1, NobodyWorks DEF Quiet
<1>4. system'.disk = system'.acked /\ (Saving' => system'.txn = system'.disk)
  <2>1. CASE th \in Clerks /\ WriteSystem(th)
    <3>1. ~ Saving
      BY <2>1, NobodyWorks DEF WriteSystem, Holds
    <3>2. shadow = Absent
      BY <3>1 DEF Sound, TablesTyped
    <3>3. system'.disk = system'.acked
      BY <2>1, <3>2 DEF WriteSystem, Written, Sound, SystemTyped
    <3>4. QED
      BY <1>1, <3>1, <3>3
  <2>2. CASE th \in Clerks /\ RejectSystem(th)
    BY <1>1, <2>2 DEF RejectSystem, Quiet, Sound, SystemTyped
  <2>3. CASE UNCHANGED system
    BY <1>1, <2>3 DEF Quiet
  <2>4. QED
    BY <2>1, <2>2, <2>3 DEF WriterStep, ClerkStep, DevStep, Begin, Acquire, CreateTask,
       CreateTaskFails, FillTask, FillNothing, DeleteTask, DeleteStatus, ExpireTag,
       DeletionDone, StoreReport, StoreReportFails, ReleaseLeaked, EndSerial
<1>5. ~ restart'
  BY DEF Unstopped, Quiet, WriterStep, ClerkStep, DevStep, Begin, Acquire, CreateTask,
     CreateTaskFails, FillTask, FillNothing, DeleteTask, DeleteStatus, ExpireTag,
     DeletionDone, WriteSystem, RejectSystem, StoreReport, StoreReportFails, ReleaseLeaked,
     EndSerial, SignalsItself
<1>6. QED
  BY <1>2, <1>3, <1>4, <1>5 DEF Quiet

LEMMA MainQuiet == ASSUME Sound, Quiet, MainLoop PROVE Quiet'
<1>1. ~ restart' /\ cache' = cache
  BY DEF MainLoop, Period, MainLock, MainSet, BeginSync, CommitSync, RollbackSync,
     NextTable, MainUnlock, MainStop, MainJoined, MainClose, mainUnchanged, tableVars, Quiet
<1>2. CASE BeginSync
  <2>1. /\ shadow' = cache /\ system' = [system EXCEPT !.txn = system.disk]
        /\ ~ task_exit'
    BY <1>2, MainMoves DEF BeginSync, task_exit, Quiet
  <2>2. system'.disk = system'.acked /\ system'.txn = system'.disk
    BY <2>1 DEF Quiet, Sound, SystemTyped
  <2>3. QED
    BY <1>1, <2>1, <2>2 DEF Quiet
<1>3. CASE CommitSync \/ RollbackSync
  <2>1. Saving /\ ~ Saving' /\ ~ task_exit'
    BY <1>3, NextTodo, MainMoves DEF CommitSync, RollbackSync, NextTable, Saving, task_exit,
       Quiet
  <2>2. system'.disk = system'.acked
    BY <1>3, <2>1 DEF CommitSync, RollbackSync, Quiet, Sound, SystemTyped
  <2>3. QED
    BY <1>1, <2>1, <2>2 DEF Quiet
<1>4. CASE \/ Period \/ MainLock \/ MainSet \/ MainUnlock \/ MainStop \/ MainJoined \/ MainClose
  <2>1. ~ Saving' /\ system' = system
    BY <1>4, MainMoves DEF Period, MainLock, MainSet, MainUnlock, MainStop, MainJoined,
       MainClose, Saving
  <2>2. ~ task_exit'
    BY <1>4, MainMoves DEF Period, MainLock, MainSet, MainUnlock, MainStop, MainJoined,
       MainClose, task_exit, Quiet
  <2>3. QED
    BY <1>1, <2>1, <2>2 DEF Quiet
<1>5. QED
  BY <1>2, <1>3, <1>4 DEF MainLoop

LEMMA NextQuiet == Unstopped /\ Sound /\ Quiet /\ [Next]_vars => Quiet'
<1> SUFFICES ASSUME Unstopped, Sound, Quiet, Step \/ UNCHANGED vars PROVE Quiet'
  BY Steps
<1>1. CASE OtherStep
  <2>1. UNCHANGED <<pc, cache, shadow, restart, lock>>
    BY <1>1 DEF OtherStep, RestoreDefaults, GpioWrites, Signal, Age, tableVars, mainVars,
       Unstopped
  <2>2. system'.disk = system'.acked /\ (Saving => system'.txn = system'.disk)
    <3>1. CASE GpioWrites
      <4>1. ~ Saving
        BY <3>1, NobodyWorks, Names DEF GpioWrites, Clerks
      <4>2. shadow = Absent
        BY <4>1 DEF Sound, TablesTyped
      <4>3. QED
        BY <3>1, <4>1, <4>2 DEF GpioWrites, Written, Sound, SystemTyped
    <3>2. CASE UNCHANGED system
      BY <3>2 DEF Quiet
    <3>3. QED
      BY <1>1, <3>1, <3>2 DEF OtherStep, RestoreDefaults, Signal, Age, Unstopped
  <2>3. QED
    BY <2>1, <2>2 DEF Quiet, task_exit, Saving
<1>2. CASE UNCHANGED vars
  BY <1>2 DEF vars, Quiet, task_exit, Saving
<1>3. CASE Restart
  <2>1. pc'[Main] = "sleep"
    BY <1>3, Names DEF Restart
  <2>2. ~ restart' /\ ~ Saving' /\ ~ task_exit'
    BY <1>3, <2>1 DEF Restart, Saving, task_exit
  <2>3. system'.disk = system'.acked
    BY <1>3 DEF Restart, Quiet, Sound, SystemTyped
  <2>4. QED
    BY <2>2, <2>3 DEF Quiet
<1>4. QED
  BY <1>1, <1>2, <1>3, WriterQuiet, MainQuiet, StepIsOf

LEMMA QuietAlways == ASSUME Unstopped PROVE Spec => [](Sound /\ Quiet)
<1>1. Init => Quiet
  <2> SUFFICES ASSUME Init PROVE Quiet
    OBVIOUS
  <2>1. pc[Main] = "sleep" /\ ~ restart /\ system.disk = system.acked
    BY Names DEF Init
  <2>2. QED
    BY <2>1 DEF Quiet, task_exit, Saving
<1>2. Sound /\ Quiet /\ [Next]_vars => Quiet'
  BY NextQuiet
<1>3. QED
  BY <1>1, <1>2, InitSound, NextSound, PTL DEF Spec

\* What db_update_row has written is on disk when no transaction runs, whoever
\* writes the row and whichever synchronisation fails, as long as nobody stops
\* the station.
THEOREM SystemIsWritten == ASSUME Unstopped PROVE Spec => []SystemWritesSurvive
<1>1. Quiet => SystemWritesSurvive
  BY DEF Quiet, SystemWritesSurvive
<1>2. QED
  BY <1>1, QuietAlways, PTL

\* Each step as the users of a table see it.
LEMMA StepsOfTables ==
  ASSUME Sound, Quiet, Step
  PROVE  \/ saved' = saved /\ cache' = cache
         \/ saved' = saved /\ Touched
         \/ saved' = saved /\ cache' = saved
         \/ /\ cache' = cache
            /\ saved'.EDTask \in {saved.EDTask, cache.EDTask}
            /\ saved'.EDStatus \in {saved.EDStatus, cache.EDStatus}
<1>1. ASSUME NEW th \in Writers, WriterStep(th)
      PROVE  saved' = saved /\ (cache' = cache \/ Touched)
  BY <1>1, WriterTables DEF mainVars
<1>2. CASE OtherStep
  BY <1>2 DEF OtherStep, RestoreDefaults, GpioWrites, Signal, Age, tableVars, mainVars
<1>3. CASE Restart
  BY <1>3 DEF Restart
<1>4. CASE CommitSync
  <2>1. shadow = cache
    BY <1>4 DEF CommitSync, Quiet, Saving
  <2>2. cache' = cache
    BY <1>4, MainReads DEF MainLoop
  <2>3. QED
    BY <1>4, <2>1, <2>2 DEF CommitSync, Sound, TablesTyped, Tables
<1>5. ASSUME MainLoop, ~ CommitSync PROVE saved' = saved /\ cache' = cache
  BY <1>5, MainReads, SavesAre DEF Step
<1>6. QED
  BY <1>1, <1>2, <1>3, <1>4, <1>5, StepIsOf

\* The users of the task table see a DurableTable, for any number of tags and
\* radio threads and whichever synchronisation fails: each one that succeeds
\* saves one state of the cache, whole.
THEOREM TaskTableIsDurable == ASSUME Unstopped PROVE Spec => ImplementsTaskTable
<1>1. Init => TaskTable!Init
  BY DEF Init, TaskTable!Init, TaskTable!Table, Tables, TaskRows
<1>2. Sound /\ Quiet /\ [Next]_vars => [TaskTable!Next]_<<cache.EDTask, saved.EDTask>>
  <2> SUFFICES ASSUME Sound, Quiet, Step
               PROVE  TaskTable!Next \/ UNCHANGED <<cache.EDTask, saved.EDTask>>
    BY Steps DEF vars
  <2>1. CASE saved' = saved /\ Touched
    BY <2>1 DEF Touched, RowChanged, TaskTable!Next, TaskTable!Change
  <2>2. CASE saved' = saved /\ cache' = saved
    BY <2>2 DEF TaskTable!Next, TaskTable!Restart
  <2>3. CASE cache' = cache /\ saved'.EDTask \in {saved.EDTask, cache.EDTask}
    BY <2>3 DEF TaskTable!Next, TaskTable!Save
  <2>4. QED
    BY <2>1, <2>2, <2>3, StepsOfTables
<1>3. QED
  BY <1>1, <1>2, QuietAlways, PTL DEF Spec, ImplementsTaskTable, TaskTable!Spec

\* The same for the table of statuses.
THEOREM StatusTableIsDurable == ASSUME Unstopped PROVE Spec => ImplementsStatusTable
<1>1. Init => StatusTable!Init
  BY DEF Init, StatusTable!Init, StatusTable!Table, Tables, StatusRows
<1>2. Sound /\ Quiet /\ [Next]_vars => [StatusTable!Next]_<<cache.EDStatus, saved.EDStatus>>
  <2> SUFFICES ASSUME Sound, Quiet, Step
               PROVE  StatusTable!Next \/ UNCHANGED <<cache.EDStatus, saved.EDStatus>>
    BY Steps DEF vars
  <2>1. CASE saved' = saved /\ Touched
    BY <2>1 DEF Touched, ReportChanged, StatusTable!Next, StatusTable!Change
  <2>2. CASE saved' = saved /\ cache' = saved
    BY <2>2 DEF StatusTable!Next, StatusTable!Restart
  <2>3. CASE cache' = cache /\ saved'.EDStatus \in {saved.EDStatus, cache.EDStatus}
    BY <2>3 DEF StatusTable!Next, StatusTable!Save
  <2>4. QED
    BY <2>1, <2>2, <2>3, StepsOfTables
<1>3. QED
  BY <1>1, <1>2, QuietAlways, PTL DEF Spec, ImplementsStatusTable, StatusTable!Spec
=============================================================================
