----------------------------- MODULE MCNetLink ------------------------------
(* Two commands, one in two segments, one in one.                           *)
EXTENDS NetLink
CONSTANTS c1, c2

OneAndTwo == [c \in Cmds |-> IF c = c1 THEN 2 ELSE 1]
=============================================================================
