------------------------------- MODULE DbCache -------------------------------
(***************************************************************************)
(* One cached table of the database layer: db/db.c over db/db_sqlite.c.    *)
(*                                                                         *)
(* The rows in memory are a list; a deleted row moves to a second list,    *)
(* the recycle bin, until the next synchronisation has deleted it on disk. *)
(* A synchronisation runs one SQLite transaction: it deletes every row of  *)
(* the bin, empties the bin, writes every row of the table and commits.    *)
(* Any of its SQL statements may fail, and the process may be restarted    *)
(* between any two of them.                                                *)
(*                                                                         *)
(* The callers of db_cached_insert_row, _delete_row and _clear_table hold  *)
(* grwlock for writing; the main loop holds it for reading while it        *)
(* synchronises.  So the table changes only while no synchronisation runs. *)
(***************************************************************************)
EXTENDS Integers, Sequences, SequencesExt, FiniteSets, Functions

CONSTANTS
  Keys,        (* primary keys                                              *)
  Vals,        (* the contents a row can have, its key aside                *)
  Absent,      (* what a table on disk maps a key without a row to          *)
  Poison,      (* contents whose INSERT statement SQLite rejects: a text    *)
               (* with an apostrophe, formatted between apostrophes         *)
  Faults,      (* which SQL statements the environment may make fail        *)
  MaxRecycle   (* bound of the model: how many deleted rows may wait        *)

Statements == {"begin", "delete", "update", "commit", "restore"}

ASSUME DbCacheAssumption ==
  /\ IsFiniteSet(Keys)
  /\ Absent \notin Vals
  /\ Poison \subseteq Vals
  /\ Faults \subseteq Statements
  /\ MaxRecycle \in Nat

VARIABLES
  rows,      (* DbCacheTable.rows: the list of the table's rows             *)
  recycle,   (* DbCacheTable.recycle: the rows deleted since the last sync  *)
  disk,      (* the table in the committed database file                    *)
  txn,       (* the table as the open transaction sees it                   *)
  phase,     (* which loop of _cached_sync runs                             *)
  node,      (* the position of that loop in its list                       *)
  result     (* what the last db_cached_sync returned                       *)

vars == <<rows, recycle, disk, txn, phase, node, result>>

Row   == [key : Keys, val : Vals]
Table == [Keys -> Vals \cup {Absent}]

KeysOf(list) == {list[i].key : i \in DOMAIN list}

\* listSearchKey: position i holds the first row of list whose key is k.
IsFirst(list, k, i) == /\ list[i].key = k
                       /\ \A j \in 1..(i - 1) : list[j].key # k

\* The table a list of rows stands for.
Contents(list) ==
  [k \in Keys |-> IF k \in KeysOf(list)
                  THEN list[CHOOSE i \in DOMAIN list : IsFirst(list, k, i)].val
                  ELSE Absent]

\* The rows of a table, in any order: a SELECT without ORDER BY promises none.
RowsOf(table)   == {[key |-> k, val |-> table[k]] : k \in {x \in Keys : table[x] # Absent}}
Listings(set) == Bijection(1..Cardinality(set), set)

\* What the program can find on disk: rows that some INSERT has written.
Init == /\ disk \in [Keys -> (Vals \ Poison) \cup {Absent}]
        /\ rows \in Listings(RowsOf(disk))
        /\ recycle = <<>>
        /\ txn = disk
        /\ phase = "idle"
        /\ node = 1
        /\ result = "ok"

-----------------------------------------------------------------------------
(***************************************************************************)
(* The cache                                                               *)
(***************************************************************************)
syncVars == <<disk, txn, phase, node, result>>

\* Mutant: the caller does not look for the key first.
InsertUnchecked(k, v) == /\ phase = "idle"
                         /\ rows' = Append(rows, [key |-> k, val |-> v])
                         /\ Len(rows) < MaxRecycle
                         /\ UNCHANGED <<recycle, syncVars>>

\* A caller found no row with this key (query_or_create_*) and inserts one.
Insert(k, v) == /\ phase = "idle"
                /\ k \notin KeysOf(rows)
                /\ rows' = Append(rows, [key |-> k, val |-> v])
                /\ UNCHANGED <<recycle, syncVars>>

\* A caller writes the fields of the row it found, in place.
Write(k, v) == /\ phase = "idle"
               /\ \E i \in DOMAIN rows :
                     /\ IsFirst(rows, k, i)
                     /\ rows' = [rows EXCEPT ![i].val = v]
               /\ UNCHANGED <<recycle, syncVars>>

Delete(k) == /\ phase = "idle"
             /\ Len(recycle) < MaxRecycle
             /\ \E i \in DOMAIN rows :
                   /\ IsFirst(rows, k, i)
                   /\ rows' = RemoveAt(rows, i)
                   /\ recycle' = Append(recycle, rows[i])
             /\ UNCHANGED syncVars

\* Mutant: the rows replace those already in the bin.
ClearDropsBin == /\ phase = "idle"
                 /\ rows # <<>>
                 /\ recycle' = rows
                 /\ rows' = <<>>
                 /\ UNCHANGED syncVars

Clear == /\ phase = "idle"
         /\ rows # <<>>
         /\ Len(recycle) + Len(rows) <= MaxRecycle
         /\ recycle' = recycle \o rows
         /\ rows' = <<>>
         /\ UNCHANGED syncVars

-----------------------------------------------------------------------------
(***************************************************************************)
(* db_cached_sync                                                          *)
(***************************************************************************)
MayFail(statement) == statement \in Faults

Begin == /\ phase = "idle"
         /\ txn' = disk
         /\ phase' = "delete"
         /\ node' = 1
         /\ UNCHANGED <<rows, recycle, disk, result>>

BeginFails == /\ phase = "idle"
              /\ MayFail("begin")
              /\ result' = "error"
              /\ UNCHANGED <<rows, recycle, disk, txn, phase, node>>

\* An error inside the transaction: ROLLBACK, and db_cached_sync returns.
Rollback == /\ txn' = disk
            /\ phase' = "idle"
            /\ node' = 1
            /\ result' = "error"
            /\ UNCHANGED <<rows, recycle, disk>>

DeleteRow == /\ phase = "delete"
             /\ node \in DOMAIN recycle
             /\ txn' = [txn EXCEPT ![recycle[node].key] = Absent]
             /\ node' = node + 1
             /\ UNCHANGED <<rows, recycle, disk, phase, result>>

\* Mutant: the second loop starts before its first row.
EmptyRecycleOffByOne == /\ phase = "delete"
                        /\ node > Len(recycle)
                        /\ recycle' = <<>>
                        /\ phase' = "update"
                        /\ node' = 0
                        /\ UNCHANGED <<rows, disk, txn, result>>

\* All of the bin is deleted in the transaction: the bin is emptied now.
EmptyRecycle == /\ phase = "delete"
                /\ node > Len(recycle)
                /\ recycle' = <<>>
                /\ phase' = "update"
                /\ node' = 1
                /\ UNCHANGED <<rows, disk, txn, result>>

UpdateRow == /\ phase = "update"
             /\ node \in DOMAIN rows
             /\ rows[node].val \notin Poison
             /\ txn' = [txn EXCEPT ![rows[node].key] = rows[node].val]
             /\ node' = node + 1
             /\ UNCHANGED <<rows, recycle, disk, phase, result>>

\* Mutant: the last row is left out.
CommitEarly == /\ phase = "update"
               /\ node >= Len(rows)
               /\ disk' = txn
               /\ phase' = "idle"
               /\ node' = 1
               /\ result' = "ok"
               /\ UNCHANGED <<rows, recycle, txn>>

Commit == /\ phase = "update"
          /\ node > Len(rows)
          /\ disk' = txn
          /\ phase' = "idle"
          /\ node' = 1
          /\ result' = "ok"
          /\ UNCHANGED <<rows, recycle, txn>>

\* The statement that comes next.
Comes(statement) ==
  \/ statement = "delete" /\ phase = "delete" /\ node \in DOMAIN recycle
  \/ statement = "update" /\ phase = "update" /\ node \in DOMAIN rows
  \/ statement = "commit" /\ phase = "update" /\ node > Len(rows)

\* The exclusive lock rules SQLITE_BUSY out; on any other error of a COMMIT
\* SQLite itself rolls the transaction back.
StatementFails(statement) ==
  /\ Comes(statement)
  /\ MayFail(statement) \/ (statement = "update" /\ rows[node].val \in Poison)
  /\ Rollback

-----------------------------------------------------------------------------
\* Mutant: what the open transaction had done survives.
RestartKeepsTxn == /\ disk' = txn
                   /\ rows' \in Listings(RowsOf(txn))
                   /\ recycle' = <<>>
                   /\ phase' = "idle"
                   /\ node' = 1
                   /\ result' = "ok"
                   /\ UNCHANGED txn

\* The process ends, at any point, and starts again.  SQLite rolls an open
\* transaction back, and db_create_table reads the file into an empty cache.
\* An error while it reads ends the reading and goes unnoticed.
Restart == /\ \E set \in SUBSET RowsOf(disk) :
                 /\ set = RowsOf(disk) \/ MayFail("restore")
                 /\ rows' \in Listings(set)
           /\ recycle' = <<>>
           /\ txn' = disk
           /\ phase' = "idle"
           /\ node' = 1
           /\ result' = "ok"
           /\ UNCHANGED disk

Next == \/ \E k \in Keys, v \in Vals : Insert(k, v) \/ Write(k, v)
        \/ \E k \in Keys : Delete(k)
        \/ Clear
        \/ Begin \/ BeginFails
        \/ DeleteRow \/ EmptyRecycle \/ UpdateRow \/ Commit
        \/ \E statement \in Statements : StatementFails(statement)
        \/ Restart

Spec == Init /\ [][Next]_vars

-----------------------------------------------------------------------------
(***************************************************************************)
(* Properties                                                              *)
(***************************************************************************)
\* Types.
TypeOK == /\ rows \in Seq(Row)
          /\ recycle \in Seq(Row)
          /\ disk \in Table
          /\ txn \in Table
          /\ phase \in {"idle", "delete", "update"}
          /\ node \in Nat \ {0}
          /\ result \in {"ok", "error"}

\* A key names one row.  db_cached_insert_row does not look for an earlier row
\* of the same key: the list stays a table because of its callers and of
\* cache_get_row.  A second row would be unreachable by listSearchKey, and
\* would overwrite the first at each synchronisation.
UniqueKeys == \A i, j \in DOMAIN rows : rows[i].key = rows[j].key => i = j

\* A row on disk that the table no longer has is in the recycle bin, unless
\* the running transaction has just deleted it: otherwise no synchronisation
\* would ever delete it, and it would come back at the next restart.
DeletionsRemembered ==
  phase # "update" =>
    \A k \in Keys : disk[k] # Absent => k \in KeysOf(rows) \cup KeysOf(recycle)

\* A synchronisation that returns 0 has written every row of the table, also
\* one that was deleted and inserted again since the last one, whatever
\* statements failed before.
SavesEveryRow ==
  [][Commit => \A k \in KeysOf(rows) : disk'[k] = Contents(rows)[k]]_vars

\* A synchronisation that returns 0 leaves the disk equal to the cache
\* (include/db.h:28: it synchronises the cached data with the disk).
SyncMakesDiskEqualCache ==
  [][Commit => disk' = Contents(rows)]_vars

Durable == INSTANCE DurableTable WITH cache <- Contents(rows), saved <- disk

\* The cached table implements DurableTable: changes take effect at once, a
\* synchronisation saves all of them or nothing, a restart loses only what
\* was not saved.
ImplementsDurableTable == Durable!Spec
=============================================================================
