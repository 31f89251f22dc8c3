------------------------------ MODULE LeakTests ------------------------------
(***************************************************************************)
(* Tests that decide from captured packets whether the app's firewall is    *)
(* right: leak_test_dns and run_dns_config_test (tests/dns.rs), one after   *)
(* the other, and test_upgrade_app (tests/install.rs).                      *)
(*                                                                          *)
(* What they have in common: packets are sent by requests to the guest that *)
(* nobody awaits, and whose packets may come when a later test is already   *)
(* looking.  The monitors are what PacketMonitor shows of them: they have   *)
(* in their result what was captured before they were told to end.  The     *)
(* firewall and the guest's resolver are external.                          *)
(***************************************************************************)
EXTENDS Naturals, Sequences, FiniteSets, FiniteSetsExt, Bitwise

CONSTANTS
  Scenarios,  \* records [kind, rounds, leaks, timely, prompt, late]
  MaxPings    \* packets of test_upgrade_app's task in a result, at most

VARIABLES
  scn,      \* kind: "leak", "config", "upgrade"; rounds: [iface, dest, asks];
            \* leaks: <<interface, address>> the firewall wrongly lets through;
            \* timely: expected packets are sent before the monitor's timeout;
            \* prompt: the app applies a setting before it answers; late: how
            \* many requests outlive the round that made them, at most
  round,    \* current round: one test, or one set of content blockers
  pc,       \* index of the next step of the plan; 0 when all rounds are over
  state,    \* the tunnel: "down", "up", "blocked", "upgrading"
  dns,      \* the address the guest's resolver and firewall are set to
  wanted,   \* the address set_dns_options asked for
  pending,  \* packets that requests in flight will still send
  attempts, \* attempts the task of run_dns_config_test has still to make
  pinger,   \* test_upgrade_app's task is running
  monitor,  \* monitor[i]: [on, ended, timer, packets]
  leaked,   \* rounds in which a monitor captured a packet the firewall leaked
  verdicts  \* verdicts[r]: "none", "pass", "fail"

vars == <<scn, round, pc, state, dns, wanted, pending, attempts, pinger, monitor, leaked, verdicts>>

Interfaces == {"tun", "non"}
Rounds == DOMAIN scn.rounds
Iface == scn.rounds[round].iface   \* the interface on which packets are expected
Dest  == scn.rounds[round].dest   \* the address to which they are expected
OtherIface == IF Iface = "tun" THEN "non" ELSE "tun"
Default == 100                  \* the server of a tunnel without settings
Blocked == 200                  \* an address to which nothing may be sent
Probe(i, d, p, n) == [iface |-> i, dest |-> d, proto |-> p, round |-> round, left |-> n]

-----------------------------------------------------------------------------
(* test_content_blockers: an address is its last byte.                      *)

ContentBlockers == <<"adblocking", "tracker", "malware", "adult", "gambling">>

\* case.1 of each is 1 << 0, 1 << 1, ...
CombineCases(v) ==
  [iface |-> "tun", dest |-> FoldSet(LAMBDA i, byte : byte | 2^(i - 1), 0, v),
   asks |-> {ContentBlockers[i] : i \in v}]

\* One round per set of blockers, except the empty one; their order, which is
\* powerset()'s by size in the code, does not matter.
BlockerRounds ==
  LET case(k) == {i \in DOMAIN ContentBlockers : (k \div 2^(i - 1)) % 2 = 1} IN
    [k \in 1..2^Len(ContentBlockers) - 1 |-> CombineCases(case(k))]

\* The server to which the app resolves a set of blockers, or the custom one.
Resolver(r) ==
  LET weight(b) == 2^((CHOOSE i \in DOMAIN ContentBlockers : ContentBlockers[i] = b) - 1) IN
    IF r.asks = {} THEN r.dest ELSE MapThenSumSet(weight, r.asks)

-----------------------------------------------------------------------------
(* The plans.                                                               *)

\* Mutant: the monitors are started before the tunnel is up.
LeakTestDnsEarly ==
  <<"set dns", "open main", "open other", "connect", "spoof", "wait main",
    "stop other", "judge", "cleanup">>

\* The monitor of the tunnel is opened before that of the other interface.
LeakTestDns ==
  <<"set dns", "connect">>
    \o (IF Iface = "tun" THEN <<"open main", "open other">>
                         ELSE <<"open other", "open main">>)
    \o <<"spoof", "wait main", "stop other", "judge", "cleanup">>

\* A connected tunnel is used as it is.
RunDnsConfigTest ==
  <<"set dns", "connect", "open main", "resolve", "wait main", "judge", "abort",
    "cleanup">>

TestUpgradeApp ==
  <<"block", "open other", "ping", "install", "status", "drop pinger",
    "stop other", "judge", "cleanup">>

Plan == CASE scn.kind = "leak" -> LeakTestDns
          [] scn.kind = "config" -> RunDnsConfigTest
          [] scn.kind = "upgrade" -> TestUpgradeApp

At(s) == pc > 0 /\ Plan[pc] = s

-----------------------------------------------------------------------------

Off == [on |-> FALSE, ended |-> FALSE, timer |-> FALSE, packets |-> <<>>]

Init ==
  /\ scn \in Scenarios
  /\ round = 1 /\ pc = 1 /\ state = "down"
  /\ dns = Default /\ wanted = Default
  /\ pending = {} /\ attempts = 0 /\ pinger = FALSE
  /\ monitor = [i \in Interfaces |-> Off]
  /\ leaked = {} /\ verdicts = [r \in Rounds |-> "none"]

Advance == pc' = pc + 1

\* AbortOnDrop: the task ends, a request it has made may still be carried out.
DropPinger ==
  /\ pinger' = FALSE
  /\ \/ UNCHANGED pending
     \/ pinger /\ pending' = pending \cup {Probe("non", Blocked, "tcp", 1)}

\* set_dns_options; the app applies it later (DnsApplied), if not at once.
SetDns ==
  /\ At("set dns") /\ Advance
  /\ wanted' = Resolver(scn.rounds[round])
  /\ dns' = IF scn.prompt THEN wanted' ELSE dns
  /\ UNCHANGED <<scn, round, state, pending, attempts, pinger, monitor, leaked, verdicts>>

\* connect_local_wg_relay; "prevent reconnect" in run_dns_config_test.
ConnectTunnel ==
  /\ At("connect") /\ Advance
  /\ state' = "up"
  /\ UNCHANGED <<scn, round, dns, wanted, pending, attempts, pinger, monitor, leaked, verdicts>>

\* The old app is told to connect to nowhere and polled until it blocks.
Block ==
  /\ At("block") /\ Advance
  /\ state' = "blocked"
  /\ UNCHANGED <<scn, round, dns, wanted, pending, attempts, pinger, monitor, leaked, verdicts>>

Observed(s) == IF s = "open main" THEN Iface
               ELSE IF scn.kind = "upgrade" THEN "non" ELSE OtherIface

OpenMonitor ==
  \E s \in {"open main", "open other"} :
    /\ At(s) /\ Advance
    /\ monitor' = [monitor EXCEPT ![Observed(s)] = [Off EXCEPT !.on = TRUE]]
    /\ UNCHANGED <<scn, round, state, dns, wanted, pending, attempts, pinger, leaked, verdicts>>

\* Six times two tasks; the two blocked addresses are one here.  TCP sends its
\* first packet again if nothing answers: for the packets that are not expected
\* that is no more than a late one.
SpoofPackets ==
  /\ At("spoof") /\ Advance
  /\ pending' = pending \cup { Probe(i, d, p, IF p = "tcp" /\ i = Iface /\ d = Dest THEN 2 ELSE 1) :
                                 i \in Interfaces, d \in {Dest, Blocked}, p \in {"tcp", "udp"} }
  /\ UNCHANGED <<scn, round, state, dns, wanted, attempts, pinger, monitor, leaked, verdicts>>

Resolve ==
  /\ At("resolve") /\ Advance /\ attempts' = attempts + 2
  /\ UNCHANGED <<scn, round, state, dns, wanted, pending, pinger, monitor, leaked, verdicts>>

StartPinger ==
  /\ At("ping") /\ Advance /\ pinger' = TRUE
  /\ UNCHANGED <<scn, round, state, dns, wanted, pending, attempts, monitor, leaked, verdicts>>

\* The wait for the monitor that stops by itself or by its timeout.
WaitMain ==
  /\ At("wait main") /\ monitor[Iface].ended /\ Advance
  /\ UNCHANGED <<scn, round, state, dns, wanted, pending, attempts, pinger, monitor, leaked, verdicts>>

StopOther ==
  /\ At("stop other") /\ Advance
  /\ monitor' = [monitor EXCEPT ![Observed("stop other")] = [@ EXCEPT !.on = FALSE, !.ended = TRUE]]
  /\ UNCHANGED <<scn, round, state, dns, wanted, pending, attempts, pinger, leaked, verdicts>>

\* Mutant: only the number of packets is looked at.
PassesByCount ==
  LET main == monitor[Iface].packets
      other == monitor[Observed("stop other")].packets IN
  CASE scn.kind = "leak" -> Len(main) >= 2 /\ other = <<>>
    [] scn.kind = "config" -> main # <<>> /\ main[1].dest = Dest
    [] scn.kind = "upgrade" -> other = <<>>

\* The assertions.  The first packet decides in run_dns_config_test.
Passes ==
  LET main == monitor[Iface].packets
      other == monitor[Observed("stop other")].packets IN
  CASE scn.kind = "leak" ->
         /\ Len(main) >= 2 /\ \A k \in DOMAIN main : main[k].dest = Dest
         /\ other = <<>>
    [] scn.kind = "config" -> main # <<>> /\ main[1].dest = Dest
    [] scn.kind = "upgrade" -> other = <<>>

\* test_content_blockers has another round to go in the same tunnel.
MoreBlockers == scn.rounds[round].asks # {} /\ round + 1 \in Rounds

\* A failed assertion ends the test, in which it leaves out the abort.
Judge ==
  /\ At("judge")
  /\ verdicts' = [verdicts EXCEPT ![round] = IF Passes THEN "pass" ELSE "fail"]
  /\ pc' = CASE Passes -> pc + 1
             [] ~Passes /\ MoreBlockers -> 0
             [] OTHER -> Len(Plan)
  /\ UNCHANGED <<scn, round, state, dns, wanted, pending, attempts, pinger, monitor, leaked>>

\* handle.abort() ends the task, not the query that the guest is working on.
AbortResolver ==
  /\ At("abort") /\ Advance /\ attempts' = 0
  /\ UNCHANGED <<scn, round, state, dns, wanted, pending, pinger, monitor, leaked, verdicts>>

\* cleanup_after_test disconnects and sets the default servers.
Reset ==
  /\ state' = "down" /\ wanted' = Default
  /\ dns' = IF scn.prompt THEN Default ELSE dns

\* The next round begins with monitors of its own.
NextRound ==
  /\ monitor' = [i \in Interfaces |-> Off]
  /\ IF round + 1 \in Rounds THEN round' = round + 1 /\ pc' = 1
                             ELSE pc' = 0 /\ UNCHANGED round

CleanUp ==
  /\ At("cleanup") /\ NextRound
  /\ Cardinality(pending) <= scn.late
  /\ IF MoreBlockers THEN UNCHANGED <<state, dns, wanted>> ELSE Reset
  /\ UNCHANGED <<scn, pending, attempts, pinger, leaked, verdicts>>

\* The installer replaces the app while the pinger runs.
InstallApp ==
  /\ At("install")
  /\ \/ state = "blocked" /\ state' = "upgrading" /\ UNCHANGED pc
     \/ state = "upgrading" /\ state' = "blocked" /\ Advance
  /\ UNCHANGED <<scn, round, dns, wanted, pending, attempts, pinger, monitor, leaked, verdicts>>

CheckStatus ==
  /\ At("status") /\ Advance
  /\ UNCHANGED <<scn, round, state, dns, wanted, pending, attempts, pinger, monitor, leaked, verdicts>>

\* The old app does not block in time, the installer fails, or the new daemon
\* is not running: the test returns and drops what it holds; the cleanup follows.
ReturnEarly ==
  /\ At("block") \/ At("install") \/ At("status")
  /\ verdicts' = [verdicts EXCEPT ![round] = "fail"]
  /\ DropPinger /\ Reset /\ NextRound
  /\ UNCHANGED <<scn, attempts, leaked>>

ReleasePinger ==
  /\ At("drop pinger") /\ DropPinger /\ Advance
  /\ UNCHANGED <<scn, round, state, dns, wanted, attempts, monitor, leaked, verdicts>>

-----------------------------------------------------------------------------
(* The guest, the app's firewall and the monitors.                          *)

\* What the firewall lets out, apart from what it leaks: everything while the
\* app is disconnected, DNS to the configured server while it is connected.
Allowed(p) ==
  \/ state = "down"
  \/ state = "up" /\ p.iface = Iface /\ p.dest = dns
Leaks(p) ==
  /\ ~Allowed(p)
  /\ <<p.iface, p.dest>> \in scn.leaks

\* Mutant: two packets of whatever protocol are enough.
StopsByTotal(i, packets) ==
  CASE scn.kind = "leak" /\ i = Iface -> Len(packets) >= 2
    [] scn.kind = "upgrade" -> FALSE
    [] OTHER -> TRUE

\* Whether a packet ends its monitor: DnsPacketsFound::handle_packet waits for
\* one of TCP and one of UDP, the monitor of test_upgrade_app for nothing, and
\* the others end with their first packet.
Stops(i, packets) ==
  CASE scn.kind = "leak" /\ i = Iface ->
         {"tcp", "udp"} \subseteq {packets[k].proto : k \in DOMAIN packets}
    [] scn.kind = "upgrade" -> FALSE
    [] OTHER -> TRUE

\* A packet that leaves the guest is in the result of the monitor that is on.
Capture(p) ==
  LET m == monitor[p.iface]
      packets == Append(m.packets, [dest |-> p.dest, proto |-> p.proto])
      stops == Stops(p.iface, packets) IN
  IF m.on
  THEN /\ monitor' = [monitor EXCEPT ![p.iface] =
                        [@ EXCEPT !.packets = packets, !.on = ~stops, !.ended = stops]]
       /\ leaked' = IF Leaks(p) THEN leaked \cup {round} ELSE leaked
  ELSE UNCHANGED <<monitor, leaked>>

Send(p) ==
  /\ p \in pending
  /\ pending' = (pending \ {p}) \cup IF p.left > 1 THEN {[p EXCEPT !.left = 1]} ELSE {}
  /\ IF Allowed(p) \/ Leaks(p) THEN Capture(p) ELSE UNCHANGED <<monitor, leaked>>
  /\ UNCHANGED <<scn, round, pc, state, dns, wanted, attempts, pinger, verdicts>>

\* An expected packet: in the usual case it is sent before the timeout.
Expected(p) == p.round = round /\ p.iface = Iface /\ p.dest = Dest

\* The task of run_dns_config_test asks the server that is configured now; the
\* guest's resolver repeats a query that is not answered.
Attempt ==
  /\ attempts > 0 /\ attempts' = attempts - 1
  /\ pending' = pending \cup {Probe(Iface, dns, "udp", 2)}
  /\ UNCHANGED <<scn, round, pc, state, dns, wanted, pinger, monitor, leaked, verdicts>>

\* The request ends without a packet, or without another one.
RequestEnds(p) ==
  /\ p \in pending /\ pending' = pending \ {p}
  /\ scn.timely /\ Expected(p) => monitor[Iface].ended \/ (p.proto = "tcp" /\ p.left = 1)
  /\ UNCHANGED <<scn, round, pc, state, dns, wanted, attempts, pinger, monitor, leaked, verdicts>>

PingerSends ==
  /\ pinger /\ Len(monitor["non"].packets) < MaxPings
  /\ LET p == Probe("non", Blocked, "tcp", 1) IN Leaks(p) /\ Capture(p)
  /\ UNCHANGED <<scn, round, pc, state, dns, wanted, pending, attempts, pinger, verdicts>>

MonitorTimeout ==
  /\ scn.kind # "upgrade" /\ monitor[Iface].on
  /\ scn.timely => At("wait main") /\ attempts = 0 /\ ~\E p \in pending : Expected(p)
  /\ monitor' = [monitor EXCEPT ![Iface] = [@ EXCEPT !.on = FALSE, !.ended = TRUE, !.timer = TRUE]]
  /\ UNCHANGED <<scn, round, pc, state, dns, wanted, pending, attempts, pinger, leaked, verdicts>>

DnsApplied ==
  /\ dns # wanted /\ dns' = wanted
  /\ UNCHANGED <<scn, round, pc, state, wanted, pending, attempts, pinger, monitor, leaked, verdicts>>

Test ==
  \/ SetDns \/ ConnectTunnel \/ Block \/ OpenMonitor \/ SpoofPackets \/ Resolve
  \/ StartPinger \/ WaitMain \/ StopOther \/ Judge \/ AbortResolver \/ CleanUp
  \/ InstallApp \/ CheckStatus \/ ReturnEarly \/ ReleasePinger

Next ==
  \/ Test \/ MonitorTimeout \/ DnsApplied \/ Attempt \/ PingerSends
  \/ \E p \in pending : Send(p) \/ RequestEnds(p)

Spec == Init /\ [][Next]_vars

-----------------------------------------------------------------------------
(* Properties.                                                              *)

\* With a firewall that is right, settings that are applied at once and probes
\* that are sent in time, every test passes: neither the packets of an earlier
\* round, whose requests are never awaited, nor the order of this round's make
\* it fail.  An upgrade whose installer fails is the exception.
NoFalseAlarm ==
  scn.timely /\ scn.prompt /\ scn.leaks = {} /\ scn.kind # "upgrade"
    => \A r \in Rounds : verdicts[r] # "fail"

\* A round in which a leaked packet was captured does not pass, except a DNS
\* configuration test, which looks at the first packet only.
LeakCaught ==
  \A r \in leaked : verdicts[r] = "pass" => scn.kind = "config"

\* A leak test that passes has seen the allowed server reached by both TCP and
\* UDP, or its monitor ran into the timeout: then two TCP packets are enough.
BothProtocolsSeen ==
  scn.kind = "leak" /\ At("cleanup") /\ verdicts[round] = "pass" =>
    LET m == monitor[Iface] IN
      m.timer \/ {"tcp", "udp"} \subseteq {m.packets[k].proto : k \in DOMAIN m.packets}

=============================================================================
