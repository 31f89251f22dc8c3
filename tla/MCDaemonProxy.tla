--------------------------- MODULE MCDaemonProxy ---------------------------
(* DaemonProxy for TLC; the constants are set in the configurations. *)
EXTENDS DaemonProxy
=============================================================================
