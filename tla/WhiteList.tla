----------------------------- MODULE WhiteList -----------------------------
(***************************************************************************)
(* The white list: a cached table whose rows hold a flag, and the count    *)
(* WhiteNum in the System row that the boards are told (serialThread.c).   *)
(*                                                                         *)
(* Setting a tag counts, clearing it too; removing rows does not.  The     *)
(* count reaches the disk only when somebody writes the System row, the    *)
(* rows by the synchronisations: a restart may bring back one without the  *)
(* other.  Nothing in the repository says what the count is to be, so no   *)
(* property speaks of it; those of the table are LinkedTable's.            *)
(***************************************************************************)
EXTENDS LinkedTable

CONSTANTS
  MaxNum     (* bound of the model: how far it counts                      *)

ASSUME WhiteListAssumption == MaxNum \in Nat

VARIABLES
  WhiteNum,  (* System.WhiteNum in memory                                  *)
  savedNum   (* System.WhiteNum on disk                                    *)

WhiteInit == /\ LinkedInit
             /\ savedNum \in 0..1
             /\ WhiteNum = savedNum

\* Both branches of the code count up.  The clamp at 0 in the branch that clears
\* shows that a decrement was meant there: as it is, the count is too high
\* after any clearing.
Count == /\ WhiteNum < MaxNum
         /\ WhiteNum' = WhiteNum + 1

\* update_white_list, for one tag of the command; whichever flag.
Update(k, flag) == /\ LinkedInsert(k, flag) \/ LinkedWrite(k, flag)
                   /\ Count
                   /\ UNCHANGED savedNum

\* SET_WHITE_LIST_CODE with 0xff, or WHITEDEL of the page.
Unlist == /\ LinkedClear \/ \E k \in Keys : LinkedDelete(k)
          /\ UNCHANGED <<WhiteNum, savedNum>>

\* Any command or thread that writes the System row, under the write lock.
WriteSystem == /\ phase = "idle"
               /\ savedNum' = WhiteNum
               /\ UNCHANGED <<vars, listVars, WhiteNum>>

Sync == /\ \/ LinkedBegin \/ LinkedBeginFails
           \/ LinkedDeleteRow \/ LinkedEmptyRecycle \/ LinkedUpdateRow
           \/ LinkedEndSync
        /\ UNCHANGED <<WhiteNum, savedNum>>

WhiteRestart == /\ LinkedRestart
                /\ WhiteNum' = savedNum
                /\ UNCHANGED savedNum

WhiteNext == \/ \E k \in Keys, flag \in Vals : Update(k, flag)
             \/ Unlist \/ WriteSystem \/ Sync \/ WhiteRestart

WhiteSpec == WhiteInit /\ [][WhiteNext]_<<vars, listVars, WhiteNum, savedNum>>

=============================================================================
