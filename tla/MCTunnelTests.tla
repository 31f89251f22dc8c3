---------------------------- MODULE MCTunnelTests ----------------------------
(* Pairs of tests: the account tests in the order of their priorities, and   *)
(* every other test before one that depends on the state it is left with;    *)
(* with a prompt daemon, and with a slow one before the shortest test.       *)
EXTENDS TunnelTests

Firsts == { "openvpn", "wireguard", "autoconnect", "quantum", "quantum_multihop",
            "udp2tcp", "bridge", "multihop", "connecting", "error", "connected", "key_rotation" }
Seconds == { "disconnected", "error", "quantum", "logout" }
Pair(p, b, d, n) == [tests |-> p, prompt |-> b, device |-> d, devices |-> n]

MCScenarios ==
  { Pair(p, TRUE, "ok", 1) : p \in Firsts \X Seconds }
  \cup { Pair(<<f, "disconnected">>, FALSE, "ok", 1) : f \in Firsts }
  \cup { Pair(<<"too_many_devices", "revoked_device">>, TRUE, "none", 0),
         Pair(<<"revoked_device", "login">>, TRUE, "none", 0) }

\* The hypothesis of TestsFailForAReason: these pairs are in the order of the
\* priorities.
ASSUME OrderlyScenarios == Orderly
=============================================================================
