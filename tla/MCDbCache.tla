----------------------------- MODULE MCDbCache ------------------------------
(* Instances of DbCache for TLC: two tag ids, two contents.                 *)
EXTENDS DbCache

CONSTANTS v1, v2

NoPoison  == {}
Apostrophe == {v2}

NoFaults    == {}
EarlyFaults == {"begin", "delete"}
=============================================================================
