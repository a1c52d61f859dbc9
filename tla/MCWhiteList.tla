---------------------------- MODULE MCWhiteList -----------------------------
(* Two tags and both flags; any statement of a synchronisation may fail.   *)
EXTENDS WhiteList

NoPoison  == {}
AllFaults == Statements
AnyTag    == Permutations(Keys)
=============================================================================
