--------------------------- MODULE MCKeepRecovery ---------------------------
(* The instance of KeepRecovery for TLC. *)
EXTENDS KeepRecovery
=============================================================================
