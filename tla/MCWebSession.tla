---------------------------- MODULE MCWebSession ----------------------------
(* A polite client and one that sends up to three messages of any kind: a  *)
(* ping with a command behind it fills the buffer.                         *)
EXTENDS WebSession
=============================================================================
