----------------------------- MODULE MCStation ------------------------------
(* Instances of Station for TLC.                                            *)
EXTENDS Station

FlaggedOps == AllOps \ {"picture"}
LiveOps    == {"set", "picture", "report"}
=============================================================================
