------------------------------ MODULE Station -------------------------------
(***************************************************************************)
(* The threads of the base station around grwlock: the main loop that      *)
(* saves the tables (main.c), the server connection that runs TCP commands *)
(* (up_packet.c), the web page that runs JSON commands (down_packet.c),    *)
(* the radio boards' threads that store the reports of tags                *)
(* (process_status in serialThread.c) and the one that watches the address *)
(* switch (gpioThread.c).                                                  *)
(*                                                                         *)
(* Each table is a DurableTable: a synchronisation fails only before it    *)
(* has emptied the recycle bin (DbCacheProofs!CacheIsDurable), and here    *)
(* runs from a Begin, where it reads the rows, to a Commit or a Rollback.  *)
(* The System row is written to disk directly, by db_update_row: if a      *)
(* synchronisation runs, inside its transaction, since all threads share   *)
(* one database connection.                                                *)
(*                                                                         *)
(* A section that only reads and that no writer can interrupt is one step. *)
(* Main reads for longer: it holds the lock as a reader.                   *)
(***************************************************************************)
EXTENDS Integers, Sequences, FiniteSets, FiniteSetsExt

CONSTANTS
  Tags,          (* tag ids (EDID)                                         *)
  Jobs,          (* what a task can tell a tag to do                       *)
  Blank,         (* the task of a row just created                         *)
  Reports,       (* what a tag can report                                  *)
  Settings,      (* contents of the System row; Defaults is one            *)
  Defaults,
  Absent,
  Devs,          (* the threads of the radio boards                        *)
  MaxScan,       (* MAX_SCAN_NUM: how many expired tags one query removes  *)
  SyncFaults,    (* may a synchronisation fail?                            *)
  Ops,           (* which commands are sent                                *)
  Stops,         (* may the station be told to stop: a signal, SYSTEM 82741*)
  OutOfMemory    (* may an allocation fail?                                *)

Free == "free"
Net  == "net"
Web  == "web"
Main == "main"
Writers == {Net, Web} \cup Devs

AllOps == {"set", "picture", "delete_task", "delete_status", "expire",
           "system", "gpio", "report"}

Reload == 6      \* main.c:140: how many periods a table may wait unflagged

ASSUME StationAssumption ==
  /\ IsFiniteSet(Tags)
  /\ Blank \notin Jobs
  /\ Absent \notin Jobs \cup Reports \cup Settings \cup {Blank}
  /\ Defaults \in Settings
  /\ Devs \cap {Free, Net, Web, Main} = {}
  /\ MaxScan \in Nat \ {0}
  /\ Reports # {}
  /\ Ops \subseteq AllOps
  /\ {SyncFaults, Stops, OutOfMemory} \subseteq BOOLEAN

VARIABLES
  lock,        (* who holds grwlock: a writer, Main as a reader, or nobody *)
  cache,       (* the tables in memory                                     *)
  saved,       (* the tables in the database file                          *)
  stale,       (* the tags whose row is older than MAX_EXPIRED_TIME        *)
  system,      (* the System row: in memory, on disk, in the transaction   *)
  shadow,      (* the rows the running transaction writes, or Absent       *)
  task_update, (* counts periods down; 1 means tasks have changed          *)
  restart,     (* the station was told to stop                             *)
  todo,        (* the tables Main has yet to synchronise                   *)
  pc,          (* where each thread is                                     *)
  cmd          (* the command each writer works on                         *)

vars == <<lock, cache, saved, stale, system, shadow, task_update, restart, todo, pc, cmd>>

Threads == Writers \cup {Main}

TaskRows   == [Tags -> Jobs \cup {Blank, Absent}]
StatusRows == [Tags -> Reports \cup {Absent}]
Tables     == [EDTask : TaskRows, EDStatus : StatusRows]

\* What a command does under the write lock, on which tags.
Command == [op : AllOps \cup {"none"}, tags : SUBSET Tags, job : Jobs \cup {Blank}, report : Reports, value : Settings]
NoCommand == [op |-> "none", tags |-> {}, job |-> Blank,
              report |-> CHOOSE r \in Reports : TRUE, value |-> Defaults]

\* The tables the main loop saves, and those a stop saves.
SyncOrder == <<"EDTask", "EDStatus", "WhiteList">>
StopOrder == <<"EDTask", "EDStatus", "WhiteList", "Extend">>

\* task_exit: the radio threads leave their loop at its head.
task_exit == pc[Main] \in {"join", "stop_begin", "stop_commit", "closed"}
Running   == pc[Main] # "closed"

Init == /\ saved \in Tables
        /\ cache = saved
        /\ \E v \in Settings :
              system = [mem |-> v, disk |-> v, txn |-> Absent, acked |-> v]
        /\ stale \in SUBSET {t \in Tags : saved.EDStatus[t] # Absent}
        /\ shadow = Absent
        /\ lock = Free
        /\ task_update = 1
        /\ restart = FALSE
        /\ todo = <<>>
        /\ pc = [th \in Threads |-> IF th = Main THEN "sleep" ELSE "idle"]
        /\ cmd = [th \in Writers |-> NoCommand]

-----------------------------------------------------------------------------
(***************************************************************************)
(* Commands of the writers                                                 *)
(***************************************************************************)
Goto(th, place) == pc' = [pc EXCEPT ![th] = place]

\* MEM_CHECK: the process signals itself to stop when it has no memory.
SignalsItself == restart' \in {restart} \cup (IF OutOfMemory THEN {TRUE} ELSE {})

mainVars == <<saved, shadow, todo>>
tableVars == <<cache, stale>>

\* One more command for th: it will ask for the write lock.
Begin(th, c) == /\ Running
                /\ c.op \in Ops
                /\ pc[th] = "idle"
                /\ cmd' = [cmd EXCEPT ![th] = c]
                /\ Goto(th, "lock")
                /\ UNCHANGED <<lock, tableVars, system, task_update, restart, mainVars>>

\* An LED, NFC, page or picture task for one tag (analysis_JBT and the cases
\* TASK_*_CODE of analysis_tcp_data).
SetTask(t, j) == Begin(Net, [NoCommand EXCEPT !.op = "set", !.tags = {t}, !.job = j])

\* The JSON picture task (cb_pic_task).
PictureTask(t, j) == Begin(Web, [NoCommand EXCEPT !.op = "picture", !.tags = {t}, !.job = j])

\* DELETE_TASK_CODE and DELETE_STATUS_CODE, TASKDEL and EDIDDEL: the tags named,
\* or all of them.  The web page takes the lock once for each tag.
DeleteRows(th, op, tags) ==
  /\ th = Web => Cardinality(tags) = 1 \/ tags = Tags
  /\ Begin(th, [NoCommand EXCEPT !.op = op, !.tags = tags])

\* SET_SYS_CODE and UPDATE.
SetSystem(th, v) == Begin(th, [NoCommand EXCEPT !.op = "system", !.value = v])

\* A board hands the report of a tag to its thread.
ReceiveReport(d, t, r) ==
  /\ ~task_exit
  /\ Begin(d, [NoCommand EXCEPT !.op = "report", !.tags = {t}, !.report = r])

\* A query of the status table reads the rows of page under the read lock, and
\* notes the tags that have not reported for MAX_EXPIRED_TIME.  It removes
\* them later, under the write lock; QUERY_SYS_CODE ("both") removes their
\* tasks too, QUERY_STATUS_CODE does not.  Of more than MaxScan such tags the
\* ring keeps the last.
Expired(page) == {t \in page : cache.EDStatus[t] # Absent /\ t \in stale}

QueryStatus(page, both) ==
  LET old == Expired(page)
      op  == IF both THEN "expire" ELSE "delete_status"
  IN  /\ Running
      /\ op \in Ops
      /\ pc[Net] = "idle"
      /\ lock \in {Free, Main}
      /\ old # {}
      /\ \E ring \in kSubset(Min({MaxScan, Cardinality(old)}), old) :
            cmd' = [cmd EXCEPT ![Net] = [NoCommand EXCEPT !.op = op, !.tags = ring]]
      /\ Goto(Net, "lock")
      /\ UNCHANGED <<lock, tableVars, system, task_update, restart, mainVars>>

-----------------------------------------------------------------------------
(***************************************************************************)
(* What a writer does under the write lock                                 *)
(***************************************************************************)
\* Mutant: a writer takes the lock beside a reader.
AcquireShared(th) == /\ Running
                     /\ pc[th] = "lock"
                     /\ lock \in {Free, Main}
                     /\ lock' = th
                     /\ Goto(th, "body")
                     /\ UNCHANGED <<tableVars, system, task_update, restart, cmd, mainVars>>

Acquire(th) == /\ Running
               /\ pc[th] = "lock"
               /\ lock = Free
               /\ lock' = th
               /\ Goto(th, "body")
               /\ UNCHANGED <<tableVars, system, task_update, restart, cmd, mainVars>>

Holds(th, op) == /\ Running
                 /\ pc[th] = "body"
                 /\ cmd[th].op = op

\* The command is done.
Release(th) == /\ lock' = Free
               /\ Goto(th, "idle")
               /\ cmd' = [cmd EXCEPT ![th] = NoCommand]

\* The command returns with the lock held.
Leave(th) == /\ Goto(th, "leaked")
             /\ cmd' = [cmd EXCEPT ![th] = NoCommand]
             /\ UNCHANGED lock

\* Mutant: a thread that is refused does not unlock either.
RefusedKeeps(th) == /\ Running
                    /\ pc[th] = "leaked"
                    /\ Goto(th, "idle")
                    /\ UNCHANGED <<lock, tableVars, system, task_update, restart, cmd, mainVars>>

\* A thread that has left with the lock asks for it again: it is refused (EDEADLK,
\* which main.c:25-31 ignores), and the unlock that follows releases what it still
\* held. A radio thread gets there in the same round, when it fills its frames; the
\* page's thread with the next command, if there is one.
ReleaseLeaked(th) == /\ Running
                     /\ pc[th] = "leaked"
                     /\ Release(th)
                     /\ UNCHANGED <<tableVars, system, task_update, restart, mainVars>>

\* Mutant: the row is created in a section of its own.
CreateTaskUnlocks(th) ==
  /\ Holds(th, "set") \/ Holds(th, "picture")
  /\ \E t \in cmd[th].tags :
        cache' = IF cache.EDTask[t] = Absent
                 THEN [cache EXCEPT !.EDTask[t] = Blank]
                 ELSE cache
  /\ task_update' = IF cmd[th].op = "set" THEN 1 ELSE task_update
  /\ lock' = Free
  /\ Goto(th, "fill")
  /\ UNCHANGED <<stale, system, restart, cmd, mainVars>>

\* query_or_create_task finds or creates the row, and raises the flag, before
\* the caller fills the row.  cb_pic_task creates it without the flag.
CreateTask(th) ==
  /\ Holds(th, "set") \/ Holds(th, "picture")
  /\ \E t \in cmd[th].tags :
        cache' = IF cache.EDTask[t] = Absent
                 THEN [cache EXCEPT !.EDTask[t] = Blank]
                 ELSE cache
  /\ task_update' = IF cmd[th].op = "set" THEN 1 ELSE task_update
  /\ Goto(th, "fill")
  /\ UNCHANGED <<lock, stale, system, restart, cmd, mainVars>>

\* There is no memory for a new row. The command of the server releases the lock;
\* cb_pic_task returns with it.
CreateTaskFails(th) ==
  /\ OutOfMemory
  /\ Holds(th, "set") \/ Holds(th, "picture")
  /\ \E t \in cmd[th].tags : cache.EDTask[t] = Absent
  /\ restart' = TRUE
  /\ IF th = Net THEN Release(th) ELSE Leave(th)
  /\ UNCHANGED <<tableVars, system, task_update, mainVars>>

\* Mutant: the command returns without releasing the lock.
FillTaskLeaks(th) == /\ Running
                     /\ pc[th] = "fill"
                     /\ \E t \in cmd[th].tags :
                           cache' = [cache EXCEPT !.EDTask[t] = cmd[th].job]
                     /\ Leave(th)
                     /\ UNCHANGED <<stale, system, task_update, restart, mainVars>>

FillTask(th) == /\ Running
                /\ pc[th] = "fill"
                /\ \E t \in cmd[th].tags :
                      cache' = [cache EXCEPT !.EDTask[t] = cmd[th].job]
                /\ Release(th)
                /\ UNCHANGED <<stale, system, task_update, restart, mainVars>>

\* The command names no page that there is (the default case of cb_pic_task; no
\* bit of Page in analysis_JBT), or there is no memory for the content: a row
\* created for it stays blank.
FillNothing(th) == /\ Running
                   /\ pc[th] = "fill"
                   /\ SignalsItself
                   /\ Release(th)
                   /\ UNCHANGED <<tableVars, system, task_update, mainVars>>

\* Mutant: delete_task does not raise the flag.
DeleteTaskUnflagged(th) ==
  /\ Holds(th, "delete_task")
  /\ \E t \in cmd[th].tags :
        /\ cache' = [cache EXCEPT !.EDTask[t] = Absent]
        /\ cmd' = [cmd EXCEPT ![th].tags = @ \ {t}]
  /\ UNCHANGED <<lock, stale, system, task_update, restart, pc, mainVars>>

\* delete_task, for the next tag of the command.
DeleteTask(th) ==
  /\ Holds(th, "delete_task")
  /\ \E t \in cmd[th].tags :
        /\ cache' = [cache EXCEPT !.EDTask[t] = Absent]
        /\ cmd' = [cmd EXCEPT ![th].tags = @ \ {t}]
  /\ task_update' = 1
  /\ UNCHANGED <<lock, stale, system, restart, pc, mainVars>>

DeleteStatus(th) ==
  /\ Holds(th, "delete_status")
  /\ \E t \in cmd[th].tags :
        /\ cache' = [cache EXCEPT !.EDStatus[t] = Absent]
        /\ cmd' = [cmd EXCEPT ![th].tags = @ \ {t}]
  /\ UNCHANGED <<lock, stale, system, task_update, restart, pc, mainVars>>

\* delete_status and delete_task, for the next tag of the ring.
ExpireTag(th) ==
  /\ Holds(th, "expire")
  /\ \E t \in cmd[th].tags :
        /\ cache' = [cache EXCEPT !.EDStatus[t] = Absent, !.EDTask[t] = Absent]
        /\ cmd' = [cmd EXCEPT ![th].tags = @ \ {t}]
  /\ task_update' = 1
  /\ UNCHANGED <<lock, stale, system, restart, pc, mainVars>>

DeletionDone(th) ==
  /\ \E op \in {"delete_task", "delete_status", "expire"} : Holds(th, op)
  /\ cmd[th].tags = {}
  /\ Release(th)
  /\ UNCHANGED <<tableVars, system, task_update, restart, mainVars>>

\* Mutant: the row is changed in memory only, as update_white_list does.
WrittenNowhere(v) == [system EXCEPT !.acked = v]

\* db_update_row: into the running transaction if there is one.
Written(v) == IF shadow = Absent
              THEN [system EXCEPT !.disk = v, !.acked = v]
              ELSE [system EXCEPT !.txn = v, !.acked = v]

WriteSystem(th) ==
  /\ Holds(th, "system")
  /\ system' = [Written(cmd[th].value) EXCEPT !.mem = cmd[th].value]
  /\ Release(th)
  /\ UNCHANGED <<tableVars, task_update, restart, mainVars>>

\* The command is refused halfway (update_d_table finds a text that is too long,
\* or there is no memory), or db_update_row fails, which its callers do not notice
\* (an SQLite error is positive): what was set stays in memory, unwritten.
RejectSystem(th) ==
  /\ Holds(th, "system")
  /\ system' = [system EXCEPT !.mem = cmd[th].value]
  /\ SignalsItself
  /\ Release(th)
  /\ UNCHANGED <<tableVars, task_update, mainVars>>

\* The address switch was turned: gpioThread sets Type, which Settings leaves
\* out, and writes the row with all that is in memory.
GpioWrites == /\ Running
              /\ "gpio" \in Ops
              /\ lock = Free
              /\ system' = Written(system.mem)
              /\ UNCHANGED <<lock, tableVars, task_update, restart, pc, cmd, mainVars>>

\* process_status: the row is found or created, and has been updated now.
StoreReport(d) == /\ Holds(d, "report")
                  /\ \E t \in cmd[d].tags :
                        /\ cache' = [cache EXCEPT !.EDStatus[t] = cmd[d].report]
                        /\ stale' = stale \ {t}
                  /\ Release(d)
                  /\ UNCHANGED <<system, task_update, restart, mainVars>>

\* There is no memory for a new row; or for a text of it, before the time is set,
\* and process_status returns without releasing the lock.
StoreReportFails(d) ==
  /\ OutOfMemory
  /\ Holds(d, "report")
  /\ restart' = TRUE
  /\ \E t \in cmd[d].tags :
        \/ /\ cache.EDStatus[t] = Absent
           /\ Release(d)
           /\ UNCHANGED tableVars
        \/ /\ cache' = [cache EXCEPT !.EDStatus[t] = cmd[d].report]
           /\ stale' = IF cache.EDStatus[t] = Absent THEN stale \cup {t} ELSE stale
           /\ Leave(d)
  /\ UNCHANGED <<system, task_update, mainVars>>

\* {"SYSTEM":82741}: the defaults go to disk, without the lock.
RestoreDefaults == /\ Running
                   /\ Stops
                   /\ pc[Web] \in {"idle", "leaked"}
                   /\ system' = Written(Defaults)
                   /\ restart' = TRUE
                   /\ UNCHANGED <<lock, tableVars, task_update, pc, cmd, mainVars>>

-----------------------------------------------------------------------------
(***************************************************************************)
(* The main loop                                                           *)
(***************************************************************************)
mainUnchanged == UNCHANGED <<tableVars, restart, cmd>>

\* Mutant: the counter is not tested.
PeriodUntested == /\ pc[Main] = "sleep"
                  /\ ~restart
                  /\ task_update' = task_update - 1
                  /\ UNCHANGED <<lock, system, pc, mainVars>>
                  /\ mainUnchanged

\* 1800 s have passed.
Period == /\ pc[Main] = "sleep"
          /\ ~restart
          /\ task_update' = task_update - 1
          /\ Goto(Main, IF task_update' = 0 THEN "lock" ELSE "sleep")
          /\ UNCHANGED <<lock, system, mainVars>>
          /\ mainUnchanged

\* Mutant: the tables are synchronised without the lock.
MainLockSkipped == /\ pc[Main] = "lock"
                   /\ Goto(Main, "set")
                   /\ UNCHANGED <<lock, system, task_update, mainVars>>
                   /\ mainUnchanged

MainLock == /\ pc[Main] = "lock"
            /\ lock = Free
            /\ lock' = Main
            /\ Goto(Main, "set")
            /\ UNCHANGED <<system, task_update, mainVars>>
            /\ mainUnchanged

MainSet == /\ pc[Main] = "set"
           /\ task_update' = Reload
           /\ todo' = SyncOrder
           /\ Goto(Main, "begin")
           /\ UNCHANGED <<lock, system, saved, shadow>>
           /\ mainUnchanged

\* A synchronisation starts, and reads the rows; todo names the table.
BeginSync == /\ pc[Main] \in {"begin", "stop_begin"}
             /\ todo # <<>>
             /\ shadow' = cache
             /\ system' = [system EXCEPT !.txn = system.disk]
             /\ Goto(Main, IF pc[Main] = "begin" THEN "commit" ELSE "stop_commit")
             /\ UNCHANGED <<lock, task_update, todo, saved>>
             /\ mainUnchanged

\* The transaction is over, and the next table follows.
NextTable == /\ shadow' = Absent
             /\ todo' = Tail(todo)
             /\ Goto(Main, IF pc[Main] = "commit" THEN "begin" ELSE "stop_begin")
             /\ UNCHANGED <<lock, task_update>>
             /\ mainUnchanged

CommitSync ==
  /\ pc[Main] \in {"commit", "stop_commit"}
  /\ saved' = [tb \in DOMAIN saved |-> IF tb = Head(todo) THEN shadow[tb] ELSE saved[tb]]
  /\ system' = [system EXCEPT !.disk = system.txn, !.txn = Absent]
  /\ NextTable

\* The result of db_cached_sync is ignored.
RollbackSync == /\ SyncFaults
                /\ pc[Main] \in {"commit", "stop_commit"}
                /\ system' = [system EXCEPT !.txn = Absent]
                /\ NextTable
                /\ UNCHANGED saved

MainUnlock == /\ pc[Main] = "begin"
              /\ todo = <<>>
              /\ lock' = Free
              /\ Goto(Main, "sleep")
              /\ UNCHANGED <<system, task_update, mainVars>>
              /\ mainUnchanged

\* stop_serial_tasks raises task_exit, then waits for the radio threads.
MainStop == /\ pc[Main] = "sleep"
            /\ restart
            /\ Goto(Main, "join")
            /\ UNCHANGED <<lock, system, task_update, mainVars>>
            /\ mainUnchanged

MainJoined == /\ pc[Main] = "join"
              /\ \A d \in Devs : pc[d] = "ended"
              /\ todo' = StopOrder
              /\ Goto(Main, "stop_begin")
              /\ UNCHANGED <<lock, system, task_update, saved, shadow>>
              /\ mainUnchanged

\* db_close, and the process ends with all its threads.
MainClose == /\ pc[Main] = "stop_begin"
             /\ todo = <<>>
             /\ Goto(Main, "closed")
             /\ UNCHANGED <<lock, system, task_update, mainVars>>
             /\ mainUnchanged

EndSerial(d) == /\ pc[d] = "idle"
                /\ task_exit
                /\ Goto(d, "ended")
                /\ UNCHANGED <<lock, tableVars, system, task_update, restart, cmd, mainVars>>

-----------------------------------------------------------------------------
(***************************************************************************)
(* The environment                                                         *)
(***************************************************************************)
\* SIGINT, SIGTERM or SIGUSR1 (sig_handler).
Signal == /\ Running
          /\ Stops
          /\ restart' = TRUE
          /\ UNCHANGED <<lock, tableVars, system, task_update, pc, cmd, mainVars>>

\* 168 hours without a report of t.
Age(t) == /\ Running
          /\ cache.EDStatus[t] # Absent
          /\ stale' = stale \cup {t}
          /\ UNCHANGED <<lock, cache, system, task_update, restart, pc, cmd, mainVars>>

\* The process has ended, or is killed, and is started again.  The rows it
\* finds can only be older than those it had.
Restart == /\ cache' = saved
           /\ stale' = stale \cup {t \in Tags : saved.EDStatus[t] # cache.EDStatus[t]}
           /\ system' = [system EXCEPT !.mem = system.disk, !.txn = Absent]
           /\ shadow' = Absent
           /\ lock' = Free
           /\ task_update' = 1
           /\ restart' = FALSE
           /\ todo' = <<>>
           /\ pc' = [th \in Threads |-> IF th = Main THEN "sleep" ELSE "idle"]
           /\ cmd' = [th \in Writers |-> NoCommand]
           /\ UNCHANGED saved

-----------------------------------------------------------------------------
NetCommand == \/ \E t \in Tags, j \in Jobs : SetTask(t, j)
              \/ \E page \in SUBSET Tags, both \in BOOLEAN : QueryStatus(page, both)

WebCommand == \E t \in Tags, j \in Jobs : PictureTask(t, j)

\* The commands that the server and the web page both have.
SharedCommand(th) ==
  \/ \E op \in {"delete_task", "delete_status"}, tags \in SUBSET Tags : DeleteRows(th, op, tags)
  \/ \E v \in Settings : SetSystem(th, v)

Body(th) == \/ CreateTask(th) \/ CreateTaskFails(th) \/ FillTask(th) \/ FillNothing(th)
            \/ DeleteTask(th) \/ DeleteStatus(th) \/ ExpireTag(th) \/ DeletionDone(th)
            \/ WriteSystem(th) \/ RejectSystem(th)

Serial(d) == \/ \E t \in Tags, r \in Reports : ReceiveReport(d, t, r)
             \/ Acquire(d) \/ StoreReport(d) \/ StoreReportFails(d) \/ EndSerial(d)

MainLoop == \/ Period \/ MainLock \/ MainSet
            \/ BeginSync \/ CommitSync \/ RollbackSync
            \/ MainUnlock \/ MainStop \/ MainJoined \/ MainClose

Next == \/ NetCommand \/ WebCommand
        \/ \E th \in {Net, Web} : SharedCommand(th) \/ Acquire(th) \/ Body(th)
        \/ \E th \in Writers : ReleaseLeaked(th)
        \/ RestoreDefaults \/ GpioWrites
        \/ \E d \in Devs : Serial(d)
        \/ MainLoop
        \/ Signal
        \/ \E t \in Tags : Age(t)
        \/ Restart

Spec == Init /\ [][Next]_vars

\* Threads run, a waiting thread gets the lock in the end (glibc prefers
\* neither kind for ever), time passes, and a synchronisation of one table
\* that is tried again and again succeeds some time.  Nothing is said of
\* commands, reports, signals and restarts.
Fairness == /\ WF_vars(Period) /\ SF_vars(MainLock) /\ WF_vars(MainSet)
            /\ WF_vars(BeginSync) /\ WF_vars(CommitSync)
            /\ \A tb \in {"EDTask", "EDStatus"} :
                  SF_vars(pc[Main] = "commit" /\ Head(todo) = tb /\ CommitSync)
            /\ WF_vars(MainUnlock) /\ WF_vars(MainStop)
            /\ WF_vars(MainJoined) /\ WF_vars(MainClose)
            /\ \A th \in Writers : SF_vars(Acquire(th))
            /\ \A th \in {Net, Web} : WF_vars(Body(th))
            /\ \A d \in Devs : /\ WF_vars(StoreReport(d) \/ StoreReportFails(d))
                              /\ WF_vars(ReleaseLeaked(d)) /\ WF_vars(EndSerial(d))

FairSpec == Spec /\ Fairness

-----------------------------------------------------------------------------
(***************************************************************************)
(* Properties                                                              *)
(***************************************************************************)
\* Types.
TypeOK ==
  /\ lock \in Threads \cup {Free}
  /\ cache \in Tables
  /\ saved \in Tables
  /\ stale \subseteq Tags
  /\ system \in [mem : Settings, disk : Settings, txn : Settings \cup {Absent},
                 acked : Settings]
  /\ shadow = Absent \/ shadow \in Tables
  /\ task_update \in 0..Reload
  /\ restart \in BOOLEAN
  /\ todo \in Seq(Range(StopOrder)) /\ Len(todo) <= Len(StopOrder)
  /\ \A th \in {Net, Web} : pc[th] \in {"idle", "lock", "body", "fill", "leaked"}
  /\ \A d \in Devs : pc[d] \in {"idle", "lock", "body", "leaked", "ended"}
  /\ pc[Main] \in {"sleep", "lock", "set", "begin", "commit",
                   "join", "stop_begin", "stop_commit", "closed"}
  /\ cmd \in [Writers -> Command]

\* Main is on its way to synchronise EDTask, and has not read the rows yet or
\* holds the lock since it did.
AboutToSaveTasks == \/ pc[Main] \in {"lock", "set"}
                    \/ /\ pc[Main] \in {"begin", "commit"}
                       /\ todo = SyncOrder

\* When tasks have changed task_update is 1 (the comments at main.c:140 and
\* up_packet.c:64), or Main is about to save them: no change made while Main
\* counts down, waits for the lock or reloads the counter goes unnoticed.
PendingTasksFlagged ==
  cache.EDTask # saved.EDTask /\ lock \notin Writers
    => task_update = 1 \/ AboutToSaveTasks

\* What db_update_row has written is on disk (include/db.h:31), once the
\* transaction of a synchronisation that it fell into is over.
SystemWritesSurvive == system.txn = Absent => system.disk = system.acked

\* A command is about to fill the row of t.
Filling(t) == \E th \in {Net, Web} : pc[th] = "fill" /\ t \in cmd[th].tags

\* The row that a command has created is not saved before the command has
\* filled it, whatever else goes wrong, as long as the station runs: the
\* synchronisations of a stop do without the lock.
SavesNoHalfRow ==
  [][\A t \in Tags :
       Filling(t) /\ saved.EDTask[t] # Blank /\ saved'.EDTask[t] = Blank => task_exit]_vars

\* A query removes only tags that have not reported for MAX_EXPIRED_TIME
\* (up_packet.c:519 and :822).
RemovesOnlyExpired ==
  [][\A t \in Tags : ExpireTag(Net) /\ cache'.EDStatus[t] # cache.EDStatus[t] => t \in stale]_vars

TaskTable == INSTANCE DurableTable
               WITH Keys <- Tags, Vals <- Jobs \cup {Blank},
                    cache <- cache.EDTask, saved <- saved.EDTask
StatusTable == INSTANCE DurableTable
                 WITH Keys <- Tags, Vals <- Reports,
                      cache <- cache.EDStatus, saved <- saved.EDStatus

\* Seen by its users each table is a DurableTable: under all the threads, a
\* synchronisation of the main loop saves one state of the cache, whole.
ImplementsTaskTable   == TaskTable!Spec
ImplementsStatusTable == StatusTable!Spec

\* A changed task is saved, or changes again, or the station stops: even a
\* change that raised no flag waits Reload periods at most. But if the page's
\* thread has left with the lock, nobody works until it comes back to it.
TasksAreSaved ==
  \A t \in Tags, j \in Jobs :
    cache.EDTask[t] = j ~> \/ saved.EDTask[t] = j
                           \/ cache.EDTask[t] # j
                           \/ task_exit
                           \/ pc[Web] = "leaked"

\* A station that is told to stop, or tells itself to since it has no memory,
\* closes its database (or is restarted), also when a radio thread left with the
\* lock; again with the exception of the page's thread, for which the radio
\* threads may wait for ever.
StopTerminates == restart ~> pc[Main] = "closed" \/ ~restart \/ pc[Web] = "leaked"
=============================================================================
