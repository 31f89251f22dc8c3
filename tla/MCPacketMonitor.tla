-------------------------- MODULE MCPacketMonitor --------------------------
(***************************************************************************)
(* Instances of PacketMonitor: one round that ends at any time, by the     *)
(* test or a second packet, or by the timeout; and two rounds in every     *)
(* order of firewall settings that end when the packets have arrived.      *)
(***************************************************************************)
EXTENDS PacketMonitor

Script(open, stops, stopAfter, timely) ==
    [open |-> open, stops |-> stops, stopAfter |-> stopAfter, timely |-> timely]

Stopped == {Script(<<a>>, TRUE, 2, FALSE) : a \in BOOLEAN}
TimedOut == {Script(<<a>>, FALSE, 0, FALSE) : a \in BOOLEAN}
TwoRounds == {Script(<<a, b>>, FALSE, 0, TRUE) : a, b \in BOOLEAN}

MCScripts == Stopped \cup TimedOut \cup TwoRounds
=============================================================================
