--------------------------- MODULE MCTaskDelivery ---------------------------
(* Two pictures in two slices each, two boards, a clock that goes on.      *)
EXTENDS TaskDelivery
Halves == {1, 2}
OneSecond == {1}
=============================================================================
