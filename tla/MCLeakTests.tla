---------------------------- MODULE MCLeakTests -----------------------------
(* Two leak tests in a row, DNS configuration tests in a row and all the      *)
(* content blockers, the upgrade: with a right and a leaking firewall, with   *)
(* probes and settings that are in time and with some that are not.           *)
EXTENDS LeakTests

Scn(k, r, l, t, p) == [kind |-> k, rounds |-> r, leaks |-> l, timely |-> t, prompt |-> p,
                        late |-> IF k = "config" THEN 1 ELSE 2]
Custom(i, d) == [iface |-> i, dest |-> d, asks |-> {}]
TwoTunnels == <<Custom("tun", 101), Custom("tun", 102)>>
TunnelThenLan == <<Custom("tun", 101), Custom("non", 102)>>

MCScenarios ==
  { Scn("leak", r, {}, TRUE, TRUE) : r \in {TwoTunnels, TunnelThenLan} }
  \cup { Scn("leak", <<Custom(i, 101)>>, {<<l, Blocked>>}, t, TRUE) :
           i \in {"tun", "non"}, l \in {"tun", "non"}, t \in BOOLEAN }
  \cup { Scn("config", TwoTunnels, {}, t, p) : t \in BOOLEAN, p \in BOOLEAN }
  \cup { Scn("config", TunnelThenLan, {<<"tun", 101>>}, TRUE, TRUE) }
  \cup { Scn("config", BlockerRounds, {}, TRUE, TRUE) }
  \cup { Scn("upgrade", <<Custom("non", 101)>>, l, TRUE, TRUE) : l \in {{}, {<<"non", Blocked>>}} }
=============================================================================
