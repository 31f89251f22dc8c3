---------------------------- MODULE MCTransport ----------------------------
(* Transport for TLC; the constants are set in the configurations. *)
EXTENDS Transport
=============================================================================
