---------------------------- MODULE DurableTable ----------------------------
(***************************************************************************)
(* What a cached table promises its users (include/db.h): a table in       *)
(* memory that changes at once, and a copy of it on disk that a            *)
(* synchronisation replaces as a whole.  A restart takes the program back  *)
(* to the last copy.  Nothing is said about how a copy is written.         *)
(***************************************************************************)
CONSTANTS Keys,    (* primary keys: tag ids (EDID)                          *)
          Vals,    (* the contents a row can have, its key aside            *)
          Absent   (* what a table maps a key without a row to              *)

VARIABLES cache,   (* what the program sees                                 *)
          saved    (* what a restart would bring back                       *)

Table == [Keys -> Vals \cup {Absent}]

Init == /\ saved \in Table
        /\ cache = saved

\* One row is created, changed or deleted.
Change == /\ \E k \in Keys, v \in Vals \cup {Absent} :
                cache' = [cache EXCEPT ![k] = v]
          /\ UNCHANGED saved

\* All rows are deleted.
Clear == /\ cache' = [k \in Keys |-> Absent]
         /\ UNCHANGED saved

\* A synchronisation succeeds: all changes and all deletions are on disk.
Save == /\ saved' = cache
        /\ UNCHANGED cache

Restart == /\ cache' = saved
           /\ UNCHANGED saved

Next == Change \/ Clear \/ Save \/ Restart

Spec == Init /\ [][Next]_<<cache, saved>>
=============================================================================
