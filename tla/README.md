# Verification of the 40B electronic-shelf-label base station

The repository builds `cmdproxy` (Makefile `MAINSRC`): a base station that drives
electronic price tags over two SPI radio boards, takes work from a TCP server and from a
websocket/JSON page, and keeps everything it knows in a SQLite file behind a cache in
memory. This directory holds TLA+ models of its core, the TLC runs that check them on
small instances, and TLAPS proofs of what matters most for instances of any size.

Paths below are relative to `src/`. `PROJECT.json` maps every definition that models code
to its lines.

## 1. Inventory

### Components, state, operations

| part | source | state | operations |
|---|---|---|---|
| database cache | `db/db.c`, `db/db_sqlite.c`, `db/db_internal.h`, `utils/list.c` | per cached table a list of rows and a recycle bin; the SQLite file | get, insert, delete, clear, traverse, synchronise, restore |
| station state and its lock | `main.c`, `main.h` | `grwlock`, `task_update`, `restart`, `task_exit` | half-hourly period, synchronisation, stop, restart |
| TCP commands | `up_packet.c`, `protocol.h` | `TcpContext.last_edid`, `expired_status` | set tasks, delete tasks and statuses, query (paged), system parameters, white list, clock |
| JSON commands | `down_packet.c` | one `PageControl` per query | query (paged), set, delete, picture task, system parameters, defaults, login |
| radio board threads | `serialThread.c` | frame cache, cursor, `which`, `ed_list` of unfinished pictures | store reports, fill marks, tasks, pictures, white list; send frames |
| server connection | `netThread.c` | socket, `err_cnt`, chosen server, `recbuf` | heartbeat, failover, collecting a frame, execute, answer |
| websocket page | `debugThread.c`, `utils/websocket.c` | connection state, `recbuf`, the static login flag of `down_packet.c` | accept, collect, handshake, text, wrong and closing frames, end of a session |
| white list | `up_packet.c`, `down_packet.c`, `serialThread.c` | the table `WhiteList`, `System.WhiteNum` | set, clear, delete, delete all, tell the boards the count |
| task stamps | `up_packet.c`, `serialThread.c` | `EDTask.Day..Sec`, `SuccessFlag`, `EDStatus.TaskTimeMark1-4` | stamp a picture, send its slices, confirm it |
| GPIO | `gpioThread.c` | button edges | address switch, reset |
| encodings | `utils/base64.c`, `utils/crc.c` | none | pure functions |
| host utilities | `utils/mac.c`, `sysinfo.c`, `log.c`, `serial.c`, `wrap_memory.c`, `xShare.c` | none of their own | operating system calls |
| vendored | `utils/cJSON.c`, `utils/s2j.c`, `include/sqlite3.h`, ... | | |

### How they interact

- Every command of the server (`analysis_tcp_data`) and of the page (`cb_*`), and every
  report of a tag (`process_status`), changes the cached tables under `grwlock` held for
  writing; queries, the filling of SPI frames and the synchronisations of the main loop
  hold it for reading.
- A command that changes tasks sets `task_update` to 1; `main` counts it down every 1800 s
  and synchronises the three cached tables when it reaches 0, then waits six periods.
- The `System` row is not cached that way: it is written to disk at once, over the same
  database connection that a synchronisation may have a transaction open on.
- The radio threads read tasks and hand them to their boards in frames; what a tag reports
  back comes in through `process_status` and takes the mark of the task away.
- A stop (signal, `{"SYSTEM":82741}`, an out-of-memory) sets `restart`; `main` leaves its
  loop, raises `task_exit`, joins the radio threads, synchronises once more and closes the
  database.

`main.c:130-133` has the four `start_*` calls commented out. The models take the
functions as written, that is, with the threads running.

### What is hard

- **Concurrency**: six kinds of threads around one lock; a flag tested outside it; a
  shared SQLite connection; rows that exist before they are filled; decisions taken under
  the read lock and carried out under the write lock.
- **Failure**: any SQL statement of a synchronisation can fail; the result of a
  synchronisation is ignored; a failed allocation can leave the lock held; the process
  can stop between two statements.
- **Resuming**: pictures are resumed at a block computed from the number of empty frames;
  pages of a table are resumed at a row that may be gone; three kinds of traversal share a
  cursor.
- **Confirmation**: a picture is known to its tag and to the server only by a time stamp
  without month and year, reported late and over any board.
- **Sessions**: one thread serves one page at a time, with a login flag that is not part of
  the session.
- **The network**: frames come cut, joined, behind noise, are answered or not, and a
  server can close, reset or vanish at any moment.

### What makes each part correct

- *cache*: one row per key; a synchronisation writes all rows and all deletions or
  nothing; a restart brings back the last synchronisation.
- *station*: a changed task is noticed and saved; no half-made row is saved; a direct
  write stays on disk; a query removes only what is old; a stop ends.
- *radio*: no slice of a picture is skipped; no frame is overfilled
  or forgotten; every task of a tag in range gets through.
- *paging*: a scan shows every row that stays; each page moves it on; it ends.
- *server connection*: what the server takes to be answered was executed; an unanswered
  command is executed in the end; the station finds the server that is left; it stops.
- *white list*: the links of the lists in memory are what the table means; a synchronisation
  saves every row.
- *task stamps*: the server is told success only for a picture that the tag has shown;
  slices of two pictures are never put together; a picture that stays is confirmed.
- *websocket page*: a login ends with its session; a page that waits for its answers gets
  them and never ends the process; a client that has left is let go.

The 39 hazards in `PROJECT.json` name the lines where these go wrong most easily and the
properties that would show it.

## 2. Modules

| module | models | relation to others |
|---|---|---|
| `DurableTable` | what a cached table promises (`include/db.h`) | abstract specification |
| `DbCache` | one cached table over SQLite | implements `DurableTable` |
| `LinkedTable` | the same table as two doubly linked lists in memory (`utils/list.c`) | goes in step with `DbCache` |
| `WhiteList` | the white list and its count | a `LinkedTable` whose rows hold a flag |
| `Station` | the lock, the main loop, the commands of server and page, the reports of tags, the address switch | each table, seen through all threads, implements `DurableTable` |
| `SpiFill` | how a radio thread fills its frames | its rows are those of the `EDTask` table while the read lock is held |
| `Paging` | queries of whole tables in pages | the rows of any cached table between two holds of the read lock |
| `NetLink` | the connection to the server | one executed command stands for one command of `Station` |
| `TaskDelivery` | stamps of picture tasks, from the command to the answer of the task query | the slices are handed out by `SpiFill`, the rows saved by `Station`; one tag seen through all of them |
| `WebSession` | the websocket session and the login | a command stands for one of `Station`, `Paging` or `WhiteList` |
| `MC*` | instances for TLC | |
| `*Proofs` | theorems | |

### DbCache, DurableTable

`rows` and `recycle` are the two lists of `struct DbCacheTable`; a row is a key and an
abstract content. `disk` is the committed file, `txn` what the open transaction sees.
`phase` and `node` are the place in `_cached_sync`: `Begin`, then `DeleteRow` for each
row of the bin, `EmptyRecycle` (`db.c:146`, inside the transaction), `UpdateRow` for each
row, `Commit`. Each SQL statement is a step and can fail if `Faults` names it; any failure
after `BEGIN` is `Rollback`. A content in `Poison` is a text that makes its `INSERT`
invalid (`'%s'` in `db_sqlite.c:71`). `Insert`, `Write`, `Delete`, `Clear` are the four
ways the callers change the table; they hold the write lock, so they need `phase = "idle"`.
`Restart` is possible between any two steps and reads the rows back in any order.

`DurableTable` has a cache and a saved copy, with `Change`, `Clear`, `Save`, `Restart`.

### LinkedTable, WhiteList

`mem` is the heap of list nodes, `rowList` and `binList` the two `struct list`, `iter` the
loop variable of `_cached_sync`. Each `Linked*` action is the action of `DbCache` together
with what the functions of `utils/list.c` do to head, tail, length and links; those look at
links and lengths only, never at `rows` and `recycle`, and have no guard of their own, so
the code's view and the sequences could come apart. A freed node is `Freed`.

`WhiteList` adds `System.WhiteNum` in memory and on disk. Both branches of
`update_white_list` count up, and removing rows does not count; the `System` row is saved by
whoever writes it. What the count is to be nothing says, so no property speaks of it.

### TaskDelivery

One tag and one page of it. `task` is its row in `EDTask` (stamp, picture, `SuccessFlag`),
`status` the stamp in its row of `EDStatus`, `saved` both on disk, `board` the slice each
board has, `report` a report that a board has yet to deliver, `shown` and `told` what the
properties are about, `reused` the stamps under which the page has set another picture.
`SetPicture` is `analysis_JBT`, `PagePicture` is `cb_pic_task`,
`Wanted` and `SliceOf` are `get_tasks` and `get_tasks2`, `StoreReport` is `process_status`,
`QueryTask` is `query_task`. The tag is not in the repository: `Hear` puts slices of one
stamp together and shows them when it has all parts.

### WebSession

`debugThread` step by step: `Accept`, `Receive` and `RecvDone` (one call of `RecvMsg`),
then one step for the parsed frame, `End`. A message is one segment or two, and a pause of
100 ms may fall between any two segments, so messages come cut and joined. `data` says
whether the pointer of the last payload is set, `logined` is the static flag. A `Polite`
client waits for its answers and sends no empty text; others send anything. `RecvFull` is a
call of `RecvMsg` that has no room: it returns 0 for ever. An assertion ends the process
and all connections (`Crash`), and `daemon_2021.sh` starts it again (`Respawn`).

### Station

`cache` and `saved` are the two tables that threads disagree about (`EDTask`,
`EDStatus`). The `System` row has the four places its value can be: in memory, on disk, in
the open transaction, and as last acknowledged by `db_update_row`. `shadow` is what the
running synchronisation has read. `pc` says where each thread is; a command is in `cmd`
from the time its thread asks for the lock (`Begin`) to `Release`. The row is created
(`CreateTask`) and filled (`FillTask`) in two steps, as `query_or_create_task` and its
callers do; a command that names no page fills nothing (`FillNothing`) and leaves a blank
row behind. Deletions go tag by tag. A system command can be refused halfway
(`RejectSystem`), or pass for written on an SQLite error (they are positive), with fields
changed in memory only. Where `OutOfMemory` allows it an allocation fails, and the process
signals itself to stop: a report (`StoreReportFails`) or a picture of the page
(`CreateTaskFails`) then returns with the lock held (`pc` is `"leaked"`), and the next section
of the same thread, refused by `EDEADLK`, lets it go (`ReleaseLeaked`). `GpioWrites` is the thread
of the address switch, which writes the row as it is in memory. Sections that only read and that no writer can
interrupt are one step. A synchronisation is here two steps, `BeginSync` and
`CommitSync`/`RollbackSync`: that this is what `DbCache` amounts to is
`DbCacheProofs!CacheIsDurable`, for failures at `BEGIN` or in a `DELETE`; after other
failures a deleted row may stay on disk (finding 1), which `Station` leaves to `DbCache`.
The third table, `WhiteList`, takes its turn in `SyncOrder` without contents.

### SpiFill

One round of `ThreadSerial`: a request of the board empties the frames (`Fill`), rows are
visited from the cursor on (`Visit`), small tasks in their order (`PlaceSmall`), then the
picture (`Picture`, `PlaceSlice` for each slice, `KeepBlock`); the rows of the white list
fill frames too (`FillWhite`). `used` is `cache[i].idx` in
units; `prop` is `EDProperty.block`, `blk` is `which.block`, `cursor` is
`cachelist.last_edid`. A slice that is not the last fills a frame exactly, as
`SPI_PAYLOAD` and the size of `BigTask` make it. `sent` records what the board was given;
the radio link behind the board is not in the repository, and `Ack` is a tag that reports
a task it has got all of. `AskMissing` is a board that asks for the first slice it lacks; the
protocol has the request (`serialThread.c:207`), when a board uses it is not in the repository.

### Paging

The list is given by `rank`: a new row is the last, removing one leaves the order of the
others. `Query` is one page: `From` is `db_cached_traverse_row` with a cursor, `Page` the
callback that stops at the page limit, `NextCursor` the two ways the code keeps the
cursor: the queries of the page, the status query and the white list keep the last row
shown, `query_task` the first row that did not fit (`Eager`). `kept` and `seen` record
what the property is about, `astray` that the row a cursor names was removed and came back.

### NetLink

`heart_thread`, `net_cmd_do` and `RecvMsg` step by step on one side, a server on the
other. A frame is a sequence of segments, the first of which holds head and length. Time is
left out: a pause of 100 ms may or may not come between two segments. The server sends one
or two commands after a heartbeat, sends again what was not answered, may put noise before
it, and may close or reset at any time. `confirmed` is what it takes to be answered.

## 3. Runs

All bounds are in the `.cfg` files; `MC*.tla` defines the functions they name.

| run | instance | shows |
|---|---|---|
| `db_early_faults` | 2 keys, 2 contents, 3 rows in the bin; `BEGIN` and `DELETE` may fail | types, unique keys, deletions remembered, synchronisation exact, implements `DurableTable` |
| `db_lists` | the white list: 2 tags, 2 flags, 4 list nodes, every statement may fail, restoring may stop early; symmetric tags | the links are always the sequences of `DbCache`, a synchronisation that returns 0 has written every row |
| `db_ghost_row` | one content is rejected, nothing else fails | **violated**: synchronisation exact (finding 1) |
| `station_sync` | 1 tag, 1 task, 1 report, 1 board, all commands but the picture task, refused system commands, the address switch; memory enough; restarts | types, changed tasks flagged, direct writes survive, both tables implement `DurableTable` |
| `station_live` | tasks of both sides and reports, failing synchronisations, failing allocations, stops; fair | no half-made row saved; tasks saved in the end and a stop ends, unless the page's thread left with the lock |
| `station_expiry` | status queries, reports, ageing | **violated**: a query removes only what is old (finding 2) |
| `spi_mixed` | 2 tags (4 and 5 slices), 3 frames of 2 units; all kinds of requests; an empty NFC text; pictures that replace others; boards that ask for what they lack | types, no slice skipped (with two exceptions), frames with data come first, a board that asks for a slice gets the picture |
| `spi_deliver` | 2 tags of 5 slices, 3 frames; boards that ask for tasks in general, one cursor; fair | every task is delivered |
| `paging` | 3 rows, pages of 2, both ways to keep the cursor, one row not counted; rows come and go and come back; fair | types, scans complete, every page is a step towards the tail, scans end |
| `net_link` | 2 servers, 2 commands (2 segments and 1; the second refused), noise, two commands at once, closes and resets, stops; fair to the thread only | types, confirmed were executed, delivered by servers that go on to send, fails over and the thread ends unless a server sends noise for ever |
| `web_session` | a page that waits for its answers, a client that sends up to 3 messages of 8 kinds, 3 segments of buffer; fair | types, a login is of its own session, the page never ends the process, it is answered, leaving is noticed (with one exception) |
| `delivery` | 1 tag, 2 pictures of 2 slices, each of the server or the page, 2 boards, stamps 1 and 2, one deletion or restart; fair | types, told was shown and no mixture (but for stamps the page used again), `SuccessFlag` was told, confirmed in the end |

Why these bounds are enough to be of interest:

- *DbCache*: with two keys there are a row that is deleted and one that is inserted again
  at the same time; three rows in the bin hold one key twice. `MaxRecycle` is the only
  bound of the model and the proofs hold for every value of it.
- *Station*: the properties are about one tag at a time, and a synchronisation of the whole table
  is one step; what matters is the number of threads, and there is one of each kind.
  `Reload = 6` is the code's own constant.
- *SpiFill*: three frames allow a picture that takes two rounds (5), one that has just one
  slice more than a round can take (4), and a round that begins with the end of one and goes
  on with the other; a unit of 2 lets a small task share a frame with a last slice. The code has 10 frames and up to 255 slices: the theorems are
  for all numbers.
- *Paging*: with three rows and pages of two, a page is full and not last, full and last,
  or not full; `MaxRank = 4` lets a removed row come back at the tail, and a row be added
  behind one.
- *NetLink*: one frame in two segments and one in a single one give a cut frame, a joined pair and a
  frame behind noise. Two servers are all the code knows.

- *LinkedTable*: two rows and two rows in the bin give each function empty lists, single nodes
  and an end with a neighbour, and four nodes are enough for both lists. A node between two
  others is beyond the run; the theorems are for lists of any length.
- *TaskDelivery*: two slices can mix, two boards can have slices and reports of different
  times. `Cycle = 2` with a clock that goes on gives two pictures two stamps; `Elapsed`
  without 0 and a cycle no shorter than `MaxPics` keep two pictures of one stamp out (section 6).
- *WebSession*: a handshake and two more messages give a ping or a fragment with something
  behind it, in one read or two. `Room` is a ping without payload and the longest message
  behind it, which together fill the buffer.

Where a property has an exception, the run has the case: the exception is part of the
property, in its own words, and not a constant that keeps the case out.

`CHECK_DEADLOCK` is on everywhere. Three things keep a model going where the system would rest: a
restart of the process in `Station`, servers that change their mind in `NetLink`, the loop
around a full buffer in `WebSession`, which the code has too.

## 4. Fairness

- `Station`: each thread runs; a thread that waits for `grwlock` gets it in the end
  (strong fairness of each `Acquire` and of `MainLock`: glibc wakes waiting readers and
  writers); a radio thread that left with the lock comes to its next section, when it fills its
  frames, and lets it go (the page's thread may never: it needs a command); the clock ticks; and a synchronisation of each table that is
  tried again and again succeeds some time. No fairness for commands, reports, ageing,
  signals and restarts.
- `SpiFill`: a round is finished (the thread runs under the read lock); boards keep asking
  for tasks, whatever else they ask for (`serialThread.c` polls its board for ever); a tag
  in range reports what it got. `spi_mixed` assumes less of rounds and more of boards
  (`AskSpec`): no traversal need come, and a board goes on asking for the first slice it lacks.
- `Paging`: a client that began a scan asks for the next page. The code cannot make it do so;
  `ScanEnds` is about what happens if it does.
- `NetLink`: the thread runs, and that is all. What servers do is a premise of the properties.
  `NoiseEnds`, of `FailsOver` and `ThreadEnds`: the loop of `net_cmd_do` never tests
  `restart`, so a server that goes on sending bytes that are no frame holds the thread, and
  neither failover nor stop gets a turn. `ServerFairness`, of `Delivered`: again and again a
  heartbeat reaches a server that is open, a server answers it with one command and waits,
  and the frame comes without a pause. Less is not enough: a frame cut by a pause twice each
  time is never taken.

- `TaskDelivery`: every slice is handed out and heard again and again while the picture is
  wanted (boards keep asking, the thread of each board fills its frames for ever), the tag keeps
  reporting, reports are stored, the server keeps asking. No fairness for commands,
  deletions, synchronisations and restarts.
- `WebSession`: the thread runs, and what was sent arrives. None for clients: they may stay
  silent, and a client that stays keeps the others waiting.

## 5. Proofs

All theorems are proved for every value of the constants that satisfies the named
assumptions of the modules.

**DbCacheProofs.** `TableInv` is `TypeOK`, `UniqueKeys` and `Progress`: the rows before
`node` are in the transaction as the table has them, which is what makes `Commit` save
every row. It is inductive whatever fails, so `TypeCorrect`, `KeysAreUnique` and
`SyncSavesEveryRow` have no hypothesis. `DiskInv` adds `Remembered`: in each phase, what
disk or transaction still have and the table has not is in the part of the bin that is
still to be deleted. It survives only failures before the bin is emptied: `DeletionsAreRemembered`,
`SyncIsExact` and `CacheIsDurable` (the refinement of `DurableTable`) have the
hypothesis `EarlyFaultsOnly`: no rejected contents, and only `BEGIN` and `DELETE` fail. `db_ghost_row`
shows that the hypothesis is needed. The lemmas before them say what a list of rows stands
for (`ContentsByRows`, `ContentsOfListing`) and what each operation does to it.

**SpiFillProofs.** `TypeCorrect` (no frame is overfilled) and `FramesArePrefix` (first-fit
leaves no frame with data behind an empty one) hold as they stand. `KeptBlocksSkipNothing` needs
`Resume` with `Placing`: while the slices of a picture are placed, `Cardinality(Empty) + cur =
idle + blk + 1`, that is, each full slice has taken exactly one of the frames that were empty at
the start. So the block computed from the number of empty frames is never beyond the slices
placed. `Begun` says where the picture began: at its start, at the block kept for the tag, where
a board asked that had all before, or, in a traversal, anywhere. There is no hypothesis: the two
ways in which a slice is skipped are named in the property.

**PagingProofs.** `ScansAreComplete` follows from `Scanning`: the rows that were always
there and were not shown yet lie at or behind the cursor, unless the scan has gone astray:
the row the cursor names was removed and came back. `ScansMoveOn`: a page that
leaves its scan open takes the cursor to a row further down. Hypothesis: `LongPages`, pages
of two rows or more (the code has 101, 800 and 8000); a page of one row that begins with
the last row shown would be sent for ever. A page that is full has a second row that
counts, and the cursor goes at least there. So a scan of *n* rows has at most *n* pages while
the rows stay; what is left to TLC of `ScanEnds` is that the client asks.

**WebSessionProofs.** `Typed` and `Serving` (a client from `accept` to `close`, nobody
logged in between) give `TypeCorrect` and, with the property itself as the invariant,
`LoginEndsWithSession`. `PoliteIsSafe` needs two more invariants: `PoliteWaits`, a polite
client that is not served yet has sent its handshake or nothing, and `PoliteServed`, in its
session `recbuf` and what is on its way are together exactly one message, the handshake as
long as the session is being opened. `PoliteParse` concludes what the parser can make of
it. Hypothesis: `Room` is at least 2, the longest message.

**StationProofs.** The steps are regrouped by who takes them (`Begins`, `ClerkStep`,
`DevStep`, `MainLoop`, `OtherStep`). `Sound` has the types, `Locked` (whoever is in a
section holds the lock, and `main` does from `MainLock` to `MainUnlock`) and `Counted` (the reach
of `task_update`); it is inductive as it stands and gives `TypeCorrect`. Three invariants
build on it. `Mirrored`: what a synchronisation under the lock has read is what the cache
still holds. `Flagged`, the strengthening of `PendingTasksFlagged`: tasks that differ from the
disk are flagged unless `main` is about to read them, since a flag raised between the test, the lock and
the reload is lost, but not the change; a row that is being filled is flagged or `main` still
waits for the lock; and what a stop's synchronisation has not seen is flagged. Its hypothesis is
`AllFlag`: the picture command of the page raises no flag, and a synchronisation that fails
takes the flag with it. `NoHalfRow` needs no more than `Locked`, and has no hypothesis, since the
property itself ends where a stop begins. `Quiet`, for `SystemIsWritten` and the two refinements of
`DurableTable`: nobody works while a synchronisation reads. Its hypothesis is
`Unstopped`, no stops and no failing allocations, for the reasons of section 6; it allows
failing synchronisations and crashes.

**NetLinkProofs.** `Typed` gives `TypeCorrect`. `ConfirmedIsExecuted` needs to know where
commands and answers can be: `Stream` follows the segments of a frame from the server
through TCP into `recbuf` (`Received`, `Apart`: heads are no noise and no second
segments), what the parser may take for a whole frame (`Single`, `Double`), and that an
answer on its way is of an executed command (`Answers`). No hypothesis but that noise is
no frame.

**TaskDeliveryProofs.** `Typed` and `FlagsTold` (for the row in memory and the one on disk)
give `TypeCorrect` and `FlagIsTold`. `ToldIsShown` and `SlicesAreOfOnePicture` rest on three
facts about everybody who holds a stamp (rows, disk, boards, the tag): `OnePicture`, a stamp
names one picture; `NotAhead`, no stamp is used before its time, so that a new one is new;
`HeardIsSeen`, a stamp that was reported, kept or told is that of a picture shown.
`OnePicture` leaves out the stamps that the page has used again, as the properties do.
Hypotheses: `TimePasses` (the clock moves on between two pictures of the server) and, as a
temporal assumption, `[]WithinCycle`: no month has passed.
Section 6 says what happens without them.

**LinkedTableProofs.** `ListsAreRows` speaks of what is met by following links, and links
are changed one at a time, so the invariant needs the nodes by name: `Linked(h, l, w, seq)`
says that the list `l` has the rows of `seq` in nodes at the addresses `w`, all different,
each linked to its two neighbours in `w`. `ListInv` is `TableInv` of `DbCacheProofs` and:
there are such `w` for the rows and `b` for the bin, they share no node, nothing else is in
use, and a loop stands at `w[node]` or `b[node]`. Each operation of `utils/list.c` has one
lemma that says what it makes of `w` (`AddLinked`, `RemoveLinked`, `EmptyLinked`,
`JoinLinked`, `SearchFinds`) and that it touches no node outside its lists; a list that is
left alone stays linked (`LinkedStays`). `WalkOf` goes back from `w` to the links: read
forward they give `w`, read backward its reverse.

There is memory for a row of each key and a full bin (`LinkedTableAssumption`): an insertion
finds a free node since the keys of the rows differ and the new one is not among them
(`RowsFit`), a deletion since it has just freed one. Where memory runs out the code loses a
row, and nothing is claimed.

Two facts are inductions, over the nodes of a walk (`OneWalk`) and over the rows that are
loaded (`LoadFills`). The induction theorems of the library cannot be used, but its least
element of a well-founded order can: `LeastNumber` and `Counted` say that a set of numbers
that has each number after one it has leaves none out. That the recursive function of
`Load` exists is shown the same way (`LoadsExists`), that of `Follow` by naming it
(`FollowChain`).

Each step of the white list is one of the table or leaves it alone (`StepOfWhite`), so
`WhiteListsAreRows` and `WhiteListIsSaved` follow.

Only model-checked: liveness, all of it. Every invariant and every action property of the
passing runs is a theorem.

## 6. Findings, and what is known to fail outside the instances

1. *Ghost rows* (`db_ghost_row`): the recycle bin is emptied inside the transaction. A
   later failure rolls the deletions back and they are forgotten; the row stays on disk
   through later successful synchronisations and comes back at the next start. A text with
   an apostrophe is enough, and it fails every synchronisation while it is there.
2. *Removed although it reported* (`station_expiry`): tags found old under the read lock
   are removed under the write lock without a second look.

These are named as exceptions by the properties; the runs have them:

- The page's thread that leaves with the lock when an allocation fails (`down_packet.c:595`)
  lets it go with its next command, if one comes; until then nobody works, and a stop waits
  for the radio threads (`StopTerminates`, `TasksAreSaved`). A radio thread
  (`serialThread.c:805`) lets it go in the same round.
- A slice is skipped when a new picture replaces an unfinished one, which resumes in its
  middle, and when `which.block` of one row of a traversal is used for the next one's
  picture (`NoSliceSkipped`).
- A picture of the page that replaces one of the server keeps the older stamp: slices mix,
  and one is confirmed for the other (`NoMixture`, `ToldWasShown`, the stamps in `reused`).
  If the tag has already reported that stamp the new picture is never sent. It does not clear
  `SuccessFlag` either.
- A row that is removed and comes back while a cursor names it takes the cursor to the
  tail, and the rows between are not shown (`ScanComplete`, `astray`).
- A ping without payload that fills `recbuf` with what follows makes the web thread spin for
  ever, and it never sees that the client has left (`LeavingIsNoticed`, `Stuffed`).
- A server that sends bytes that are no frame for ever holds the thread (`NoiseEnds`).

These hold against a property only in instances other than the ones checked:

- When the block to resume at equals the number of slices, the picture starts over
  (`serialThread.c:1183`); of a picture one slice longer than the free frames the last slice is sent
  only if the board asks for it. `Delivered` of `SpiFill`, about boards that ask for tasks in
  general, then fails; `AskedForIsGiven` is checked with such a picture.
- A tag with an empty NFC text has zero slices, stops every traversal at its row, and
  starves the tags behind it: the same two properties. A text longer than the free frames is
  never sent whole, since an NFC task always begins with its first slice; its length is not
  modelled.
- Two pictures of the server set in one second (`Elapsed` with 0), or at the same day and
  time of two months (`Cycle` below what passes), have one stamp: slices mix, and one is
  confirmed for the other (`NoMixture`, `ToldWasShown`).
- A picture task of the page raises no flag (`down_packet.c:597`): `PendingTasksFlagged`
  is checked without it; `TasksAreSaved`, with it, still holds after six periods.
- The defaults written by `{"SYSTEM":82741}` go to disk without the lock, into the
  transaction of another thread's synchronisation if one is open; a rollback or a crash then loses them on
  disk. A stop's synchronisations do without the lock too, and a failed allocation is a stop.
  `SystemWritesSurvive` is checked and proved without either.

And these the models have, and no property forbids:

- `RecvMsg` returns -1 when the server has closed, also when it has just received a whole
  frame; the frame is dropped. `server.py` sends and closes. Two frames in one read are both
  dropped. `Delivered` of `NetLink` says that the command is executed once a server sends it
  alone and waits. The web thread drops what came before the end in the same way.
- A server that accepts and stays silent is never left, since only a failed connect counts.
- Of several pages set for one tag only the first marked one is ever sent, since marks are
  not cleared and one stamp confirms the row; the server is told success for all
  (`TaskDelivery` has one page).
- A crash takes back a newer task that was not saved: the older one may then be told done
  because the tag did show its picture before.
- `WhiteNum` only grows, so it exceeds the listed tags after any clearing, deletion or
  repeated setting. The clearing branch of `update_white_list` counts up and then tests for a
  count below 0 (`up_packet.c:362`), which looks like a count that was meant to go down.
- Two frames of a web client in one read, anything behind a ping with payload, or an empty
  text before any other payload, end the process (`utils/websocket.c:334`, `debugThread.c:234`).
  `PoliteNeverCrash` is about pages that wait. So does a handshake with an empty field
  (`utils/websocket.c:61`), which a `bad` one of the model may be.
- After the closing frame for a wrong one the session still executes commands
  (`WS_STATE_CLOSING`); nothing forbids it, `WebSession` has it.
- A system command that `update_d_table` refuses halfway, or whose write fails with an SQLite
  error, which is positive and passes for success, stays in memory, and the next writer of
  the row, `gpioThread` for one, takes it to disk. `SystemWritesSurvive` counts it as a write
  from then on.
- A task that names no page (a page number outside 0 to 4 in `cb_pic_task`, no bit of `Page`
  in `analysis_JBT`) leaves the row it created blank, and the row is saved as such.
  `SavesNoHalfRow` is about the rows that a command is about to fill, `TasksAreSaved` about
  the tasks that were set.
- The synchronisations of a stop run without the lock while detached threads still change
  the lists (a data race; `SavesNoHalfRow` ends where they begin).
- Queries of the server share one cursor; mixed scans disturb each other (`Paging` gives
  each its own).

Seen in the code and not modelled: `get_dns` under the lock, `safeSend` closing the socket
that `errout` closes again, the number of slices in eight bits.

## 7. Not modelled, and why

- Byte layouts, CRCs, JSON text, texts of logs: the properties do not tell them apart.
- GPIO registers and displays, SPI handshake lines, UART: pure input and output.
- `utils/cJSON.c`, `utils/s2j.c`, SQLite: vendored; SQLite is modelled by what
  `db_sqlite.c` relies on (transactions are atomic; statements may fail).
- The clock set by the server, the log, the reboot commands: calls of the operating system
  without state that the properties depend on.
- Numbers of open files: that a socket is closed twice is seen in no model.
- The unlocked synchronisations of a stop (`main.c:151`): a data race on the lists, of
  which any outcome is possible.
- Base64, CRC, SHA-1: pure functions on bytes, used for pictures and the handshake as a whole.
- `testgpio.c`, `gpio-test.c`, `websocket.c` at the top, `test/`: not part of `cmdproxy`.

## 8. Plan

Done in this order: `DurableTable`, `DbCache` and its proofs, `Station`, `SpiFill` and its
proofs, `Paging` and its proofs, `NetLink`, `LinkedTable`, `WhiteList`, `TaskDelivery`,
`WebSession`, and the proofs about `WebSession`, `NetLink`, `Station`, `TaskDelivery`,
`WhiteList` and `LinkedTable`.
What could follow:

1. Several pages of one tag in `TaskDelivery`; `Paging` over the linked lists of
   `LinkedTable`.
2. A list whose nodes may run out: what `listAddNodeTail` without memory does to a deletion.
