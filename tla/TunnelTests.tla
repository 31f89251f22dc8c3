----------------------------- MODULE TunnelTests -----------------------------
(***************************************************************************)
(* Two tests in a row that steer the app's tunnel and account through the   *)
(* management interface, with the cleanup between them:                     *)
(* test-manager/src/tests/{helpers,tunnel,tunnel_state,account,mod}.rs.     *)
(*                                                                          *)
(* A test is a SCRIPT of operations.  The daemon is external, modelled from *)
(* how the tests use it: it answers a request before its tunnel state       *)
(* machine has acted on it (`queue'), answers with the state it has         *)
(* published, and sends every new state to the streams that listen.         *)
(***************************************************************************)
EXTENDS Naturals, Sequences, Functions

CONSTANTS Scenarios,   \* records [tests, prompt, device, devices]
          MaxDevices,  \* devices an account can have
          MaxFaults    \* faults in one behaviour

VARIABLES
  scn,      \* the scenario
  turn,     \* 1 and 2: the tests; "cleanup" runs after each
  phase,    \* "test", "cleanup", "done"
  op,       \* index of the next operation of the script
  at,       \* step inside it: "call", "listen", "read", "await"
  verdict,  \* verdict[t]: "none", "pass", "fail"
  cfg,      \* settings: [kind, gen, auto]; gen counts the changes
  target,   \* the daemon wants a tunnel
  queue,    \* commands the tunnel state machine has not taken yet
  wants,    \* the state machine's own goal, from the commands it has taken
  tun,      \* [st, gen, kind]: published state, settings the tunnel uses
  stream,   \* events of the test's stream, oldest first
  listens,  \* "no", "yes", "lost"
  account,  \* [devices, mine, key]: devices used, own device, WireGuard key
  began,    \* the tunnel state in which the current operation began
  hit,      \* an accepted state was published since the wait subscribed
  last,     \* outcome of the last wait: [ok, gen, began, timeout, hit]
  faults,   \* faults so far
  mark      \* [faults, devices] when the current test began

vars == <<scn, turn, phase, op, at, verdict, cfg, target, queue, wants, tun,
          stream, listens, account, began, hit, last, faults, mark>>
daemon == <<target, queue, wants, tun>>
script == <<scn, turn, phase, verdict, mark>>

-----------------------------------------------------------------------------
(* Operations of a script.                                                  *)

Set(k)        == [do |-> "set", arg |-> k]       \* update_relay_settings, ...
AutoConnect   == [do |-> "auto", arg |-> TRUE]
Connect(want) == [do |-> "connect", arg |-> want]
Disconnect    == [do |-> "disconnect", arg |-> "ok"]
Begin         == [do |-> "begin", arg |-> "ok"]  \* connect_tunnel, no wait
WaitFor(S)    == [do |-> "wait", arg |-> S]
NextState(S)  == [do |-> "next", arg |-> S]      \* on a stream opened before
NextKey       == [do |-> "next", arg |-> {"device"}]
Listen        == [do |-> "listen", arg |-> "ok"]
Expect(S)     == [do |-> "assert", arg |-> S]    \* assert_tunnel_state!
Check         == [do |-> "check", arg |-> "ok"]  \* geoip, psk, endpoint
Reboot        == [do |-> "reboot", arg |-> "ok"]
AgeKey        == [do |-> "age", arg |-> "ok"]
Login(want)   == [do |-> "login", arg |-> want]
Account(what) == [do |-> what, arg |-> "ok"]

-----------------------------------------------------------------------------
(* The scripts.                                                             *)

Openvpn ==
  LET Round == <<Set("good"), Connect("ok"), Check, Disconnect>>
  IN  Round \o Round \o Round

Wireguard ==
  LET Round == <<Set("good"), Connect("ok"), Check, Disconnect>>
  IN  Round \o Round \o <<Set("unreachable"), Connect("err"), Disconnect>>

Udp2tcp == <<Set("good"), Set("good"), Connect("ok"), Check, Disconnect>>

Bridge == <<Set("good"), Set("good"), Set("good"), Connect("ok"), Check, Disconnect>>

Multihop == <<Set("good"), Connect("ok"), Check, Disconnect>>

Autoconnect ==
  <<Set("good"), AutoConnect, Reboot, WaitFor({"connected"})>>

\* The second connection is asked for while the first is up.
QuantumResistant ==
  <<Set("good"), Connect("ok"), Check, Set("good"), Set("good"), Connect("ok"), Check>>

MultihopUdp2tcp == <<Set("good"), Set("good"), Set("good"), Connect("ok"), Check>>

DisconnectedState == <<Expect({"disconnected"})>>

ConnectingState ==
  <<Expect({"disconnected"}), Set("unreachable"), Begin,
    WaitFor({"connecting", "error"}), Expect({"connecting"}), Disconnect, Set("good")>>

ErrorState ==
  <<Expect({"disconnected"}), Set("none"), Connect("any"), Expect({"error"}),
    Disconnect, Set("good")>>

ConnectedState == <<Set("good"), Connect("ok"), Expect({"connected"}), Check, Disconnect>>

TooManyDevices == <<Account("fill"), Login("full"), Account("clear")>>

RevokedDevice ==
  <<Login("ok"), Connect("ok"), Account("revoke"), Listen, Account("update"),
    NextState({"error"})>>

LoginTest == <<Account("clear"), Login("ok")>>

Logout == <<Account("logout")>>

\* The stream is opened after the restart, and the key is not read again.
KeyRotation == <<AgeKey, Listen, NextKey>>

\* Mutant: the cleanup resets the settings without disconnecting first.
CleanupConnected == <<Set("good"), [do |-> "auto", arg |-> FALSE]>>

\* cleanup_after_test: reset_relay_settings and the default settings.
Cleanup == <<Disconnect, Set("good"), [do |-> "auto", arg |-> FALSE]>>

Scripts ==
  [openvpn |-> Openvpn, wireguard |-> Wireguard, autoconnect |-> Autoconnect,
   quantum |-> QuantumResistant, quantum_multihop |-> MultihopUdp2tcp,
   udp2tcp |-> Udp2tcp, bridge |-> Bridge, multihop |-> Multihop,
   disconnected |-> DisconnectedState, connecting |-> ConnectingState,
   error |-> ErrorState, connected |-> ConnectedState,
   too_many_devices |-> TooManyDevices, revoked_device |-> RevokedDevice,
   login |-> LoginTest, logout |-> Logout, key_rotation |-> KeyRotation]

\* A scenario names two of these tests.
ASSUME ScenarioAssumption ==
  \A s \in Scenarios : s.prompt \in BOOLEAN /\ \A t \in {1, 2} : s.tests[t] \in DOMAIN Scripts
ASSUME DevicesAssumption ==
  MaxDevices \in Nat \ {0} /\ \A s \in Scenarios : s.devices \in 0..MaxDevices

Script == IF phase = "cleanup" THEN Cleanup ELSE Scripts[scn.tests[turn]]
Op == Script[op]
Running == phase # "done" /\ op <= Len(Script)
Doing(d) == Running /\ Op.do = d

\* Requests are answered once the state machine has caught up, when it is
\* prompt; the code does not wait for that.
Served == scn.prompt => queue = <<>>

-----------------------------------------------------------------------------

Init ==
  /\ scn \in Scenarios
  /\ turn = 1 /\ phase = "test" /\ op = 1 /\ at = "call"
  /\ verdict = <<"none", "none">>
  /\ cfg = [kind |-> "good", gen |-> 0, auto |-> FALSE]
  /\ target = FALSE /\ queue = <<>> /\ wants = FALSE
  /\ tun = [st |-> "disconnected", gen |-> 0, kind |-> "good"]
  /\ stream = <<>> /\ listens = "no"
  /\ account = [devices |-> scn.devices, mine |-> scn.device, key |-> "new"]
  /\ began = "disconnected" /\ hit = FALSE
  /\ last = [ok |-> TRUE, gen |-> 0, began |-> "disconnected", timeout |-> FALSE, hit |-> FALSE]
  /\ faults = 0 /\ mark = [faults |-> 0, devices |-> scn.devices]

State(st) == [st |-> st, gen |-> cfg.gen, kind |-> cfg.kind]
Fault == faults < MaxFaults /\ faults' = faults + 1

\* Mutant: a tunnel that is going down counts as disconnected.
AcceptEarly(o) ==
  CASE o.do = "connect" -> {"connected", "error"}
    [] o.do = "disconnect" -> {"disconnected", "disconnecting"}
    [] o.do \in {"wait", "next"} -> o.arg
    [] OTHER -> {}

\* The states an operation waits for, and whether what it got satisfies it: a
\* test that waits for the connecting or the error state asserts that it got
\* the first.
Accept(o) ==
  CASE o.do = "connect" -> {"connected", "error"}
    [] o.do = "disconnect" -> {"disconnected"}
    [] o.do \in {"wait", "next"} -> o.arg
    [] OTHER -> {}
Satisfies(o, st) ==
  IF o.do = "connect" THEN o.arg = "any" \/ ((st = "connected") = (o.arg = "ok"))
                      ELSE /\ st # "failed" \/ o.do = "update"
                           /\ o.do = "wait" => st # "error"

Continue == op' = op + 1 /\ at' = "call" /\ UNCHANGED <<phase, verdict>>
\* `?', expect or assert: the test has failed and the cleanup begins; a cleanup
\* that fails ends the run.
Fail ==
  /\ op' = 1 /\ at' = "call"
  /\ phase' = IF phase = "test" THEN "cleanup" ELSE "done"
  /\ verdict' = IF phase = "test" THEN [verdict EXCEPT ![turn] = "fail"] ELSE verdict

\* Mutant: one stream serves all waits of the test, with what it still holds.
ConcludeKeepsStream(st, gen, timeout) ==
  /\ IF Satisfies(Op, st) THEN Continue ELSE Fail
  /\ last' = [ok |-> st # "failed", gen |-> gen, began |-> began,
              timeout |-> timeout, hit |-> hit]
  /\ hit' = FALSE /\ UNCHANGED <<listens, stream>>

\* The wait is over, and its stream is dropped.
Conclude(st, gen, timeout) ==
  /\ IF Satisfies(Op, st) THEN Continue ELSE Fail
  /\ last' = [ok |-> st # "failed", gen |-> gen, began |-> began,
              timeout |-> timeout, hit |-> hit]
  /\ listens' = "no" /\ stream' = <<>> /\ hit' = FALSE

-----------------------------------------------------------------------------
(* Requests that change something in the daemon.                            *)

\* A change of settings makes the daemon reconnect if it wants a tunnel.
SetSettings ==
  /\ Doing("set") /\ Served /\ Continue
  /\ cfg' = [cfg EXCEPT !.kind = Op.arg, !.gen = @ + 1]
  /\ queue' = IF target THEN Append(queue, "reconnect") ELSE queue
  /\ UNCHANGED <<scn, turn, target, wants, tun, stream, listens, account, began,
                 hit, last, faults, mark>>

SetAutoConnect ==
  /\ Doing("auto") /\ Served /\ Continue
  /\ cfg' = [cfg EXCEPT !.auto = Op.arg]
  /\ UNCHANGED <<scn, turn, daemon, stream, listens, account, began, hit, last,
                 faults, mark>>

\* Mutant: the state is read before the stream is opened.
WaitOrderReadFirst == <<"call", "read", "listen", "await">>

\* wait_for_tunnel_state listens first, then reads.
WaitOrder == <<"call", "listen", "read", "await">>
After(s) == WaitOrder[1 + CHOOSE i \in 1..3 : WaitOrder[i] = s]

\* connect_tunnel is ignored by a daemon that already wants a tunnel, unless
\* it is in the error state.
CallTunnel ==
  /\ Running /\ Op.do \in {"connect", "disconnect", "begin", "wait"}
  /\ at = "call" /\ Served
  /\ CASE Op.do \in {"connect", "begin"} ->
            /\ target' = TRUE
            /\ queue' = IF target /\ tun.st # "error" THEN queue
                                                     ELSE Append(queue, "connect")
       [] Op.do = "disconnect" ->
            target' = FALSE /\ queue' = Append(queue, "disconnect")
       [] OTHER -> UNCHANGED <<target, queue>>
  /\ IF Op.do = "begin" THEN Continue
                        ELSE at' = After("call") /\ UNCHANGED <<op, phase, verdict>>
  /\ began' = tun.st /\ hit' = FALSE
  /\ UNCHANGED <<scn, turn, cfg, wants, tun, stream, listens, account, last, faults, mark>>

EventsListen ==
  /\ Running /\ Served
  /\ \/ at = "listen" /\ at' = After("listen") /\ UNCHANGED <<op, phase, verdict>>
     \/ Op.do = "listen" /\ Continue
  /\ listens' = "yes"
  /\ UNCHANGED <<scn, turn, cfg, daemon, stream, account, began, hit, last, faults, mark>>

ReadState ==
  /\ Running /\ at = "read" /\ Served
  /\ IF tun.st \in Accept(Op) THEN Conclude(tun.st, tun.gen, FALSE)
     ELSE /\ at' = After("read")
          /\ UNCHANGED <<op, phase, verdict, last, listens, stream, hit>>
  /\ UNCHANGED <<scn, turn, cfg, daemon, account, began, faults, mark>>

Waiting == Running /\ (at = "await" \/ Op.do = "next")

\* find_next_tunnel_state_inner: the next event; others are skipped.
NextEvent ==
  /\ Waiting /\ stream # <<>>
  /\ LET e == Head(stream) IN
       IF e.st \in Accept(Op) THEN Conclude(e.st, e.gen, FALSE)
       ELSE stream' = Tail(stream) /\ UNCHANGED <<op, at, phase, verdict, last, listens, hit>>
  /\ UNCHANGED <<scn, turn, cfg, daemon, account, began, faults, mark>>

\* The daemon will publish nothing more by itself.
Quiet ==
  /\ queue = <<>> /\ tun.st # "disconnecting"
  /\ tun.st = "connecting" => tun.kind = "unreachable"
  /\ account.key # "old"

\* Mutant: only the end of the stream ends the wait.
TimesOutNever ==
  /\ Waiting /\ stream = <<>> /\ queue = <<>> /\ listens = "lost"
  /\ Conclude("failed", 0, FALSE)
  /\ UNCHANGED <<scn, turn, cfg, daemon, account, began, faults, mark>>

\* 40 s (100 s for the key): the events that came have been read, and commands
\* do not take that long.  A daemon that is only slow is a fault.
TimesOut ==
  /\ Waiting /\ stream = <<>> /\ queue = <<>>
  /\ IF Quiet \/ listens = "lost" THEN UNCHANGED faults ELSE Fault
  /\ Conclude("failed", 0, listens = "yes")
  /\ UNCHANGED <<scn, turn, cfg, daemon, account, began, mark>>

\* The daemon's answer to a request is an error, or none comes through.
RequestFails ==
  /\ Running /\ Op.do \notin {"next"} /\ at # "await"
  /\ Fault /\ Conclude("failed", 0, FALSE)
  /\ UNCHANGED <<scn, turn, cfg, daemon, account, began, mark>>

StreamLost ==
  /\ listens = "yes" /\ Fault
  /\ listens' = "lost"
  /\ UNCHANGED <<script, op, at, cfg, daemon, stream, account, began, hit, last>>

AssertState ==
  /\ Doing("assert") /\ Served
  /\ IF tun.st \in Op.arg THEN Continue ELSE Fail
  /\ UNCHANGED <<scn, turn, cfg, daemon, stream, listens, account, began, hit,
                 last, faults, mark>>

\* Traffic through the tunnel, its peer, its preshared key: they are those of
\* the tunnel there is.
CheckTunnel ==
  /\ Doing("check")
  /\ IF tun.st = "connected" /\ tun.gen = cfg.gen THEN Continue ELSE Fail
  /\ UNCHANGED <<scn, turn, cfg, daemon, stream, listens, account, began, hit,
                 last, faults, mark>>

\* The guest reboots or the service is restarted, and the daemon is back: a
\* fresh state machine, which connects by itself if it is told to.
RestartDaemon ==
  /\ Doing("reboot") \/ Doing("age")
  /\ Continue
  /\ target' = cfg.auto /\ queue' = IF cfg.auto THEN <<"connect">> ELSE <<>>
  /\ wants' = FALSE /\ tun' = State("disconnected")
  /\ account' = IF Op.do = "age" THEN [account EXCEPT !.key = "old"] ELSE account
  /\ stream' = <<>> /\ listens' = "no"
  /\ UNCHANGED <<scn, turn, cfg, began, hit, last, faults, mark>>

-----------------------------------------------------------------------------
(* The account: API calls that may be throttled.                            *)

\* login_with_retries: throttled attempts are repeated; the others are final.
LoginAccount ==
  /\ Doing("login")
  /\ IF account.devices < MaxDevices
     THEN /\ account' = [account EXCEPT !.devices = @ + 1, !.mine = "ok"]
          /\ IF Op.arg = "ok" THEN Continue ELSE Fail
     ELSE /\ UNCHANGED account
          /\ IF Op.arg = "full" THEN Continue ELSE Fail
  /\ UNCHANGED <<scn, turn, cfg, daemon, stream, listens, began, hit, last, faults, mark>>

\* Devices are created until the account is full; after too many throttled
\* attempts the test goes on with the account not full.
FillDevices ==
  /\ Doing("fill") /\ Continue
  /\ \/ account' = [account EXCEPT !.devices = MaxDevices] /\ UNCHANGED faults
     \/ Fault /\ \E n \in account.devices..MaxDevices - 1 :
                    account' = [account EXCEPT !.devices = n]
  /\ UNCHANGED <<scn, turn, cfg, daemon, stream, listens, began, hit, last, mark>>

\* clear_devices: the app's own device goes with the others.  A removal that
\* fails, throttled ones included, is only logged, and the device stays.
ClearDevices ==
  /\ Doing("clear") /\ Continue
  /\ LET removed == IF account.mine = "ok" THEN "removed" ELSE account.mine IN
     \/ account' = [account EXCEPT !.devices = 0, !.mine = removed] /\ UNCHANGED faults
     \/ /\ Fault
        /\ \E n \in 1..account.devices, own \in {account.mine, removed} :
             account' = [account EXCEPT !.devices = n, !.mine = own]
  /\ UNCHANGED <<scn, turn, cfg, daemon, stream, listens, began, hit, last, mark>>

RevokeDevice ==
  /\ Doing("revoke") /\ Continue
  /\ account' = [account EXCEPT !.devices = @ - 1, !.mine = "removed"]
  /\ UNCHANGED <<scn, turn, cfg, daemon, stream, listens, began, hit, last, faults, mark>>

\* update_device: the daemon learns of it, and blocks traffic.
UpdateDevice ==
  /\ Doing("update") /\ Continue
  /\ account' = [account EXCEPT !.mine = IF @ = "removed" THEN "revoked" ELSE @]
  /\ queue' = IF account.mine = "removed" THEN Append(queue, "block") ELSE queue
  /\ UNCHANGED <<scn, turn, cfg, target, wants, tun, stream, listens, began, hit, last,
                 faults, mark>>

LogoutAccount ==
  /\ Doing("logout") /\ Continue
  /\ account' = [account EXCEPT !.mine = "none",
                                !.devices = IF account.mine = "ok" THEN @ - 1 ELSE @]
  /\ UNCHANGED <<scn, turn, cfg, daemon, stream, listens, began, hit, last, faults, mark>>

\* A test without error passes and is cleaned up after; then comes the next.
EndScript ==
  /\ phase # "done" /\ op > Len(Script)
  /\ op' = 1 /\ at' = "call"
  /\ IF phase = "test"
     THEN /\ verdict' = [verdict EXCEPT ![turn] = "pass"] /\ phase' = "cleanup"
          /\ UNCHANGED <<turn, mark>>
     ELSE /\ turn' = IF turn = 1 THEN 2 ELSE turn
          /\ phase' = IF turn = 1 THEN "test" ELSE "done"
          /\ mark' = [faults |-> faults, devices |-> account.devices]
          /\ UNCHANGED verdict
  /\ stream' = <<>> /\ listens' = "no"
  /\ UNCHANGED <<scn, cfg, daemon, account, began, hit, last, faults>>

-----------------------------------------------------------------------------
(* The daemon (external).                                                   *)

Publish(t) ==
  /\ tun' = t
  /\ stream' = IF listens = "yes" THEN Append(stream, t) ELSE stream
  /\ hit' = (hit \/ (/\ Running /\ at \notin {"call", WaitOrder[2]}
                     /\ t.st \in Accept(Op)))
\* Commands are taken in order; a connected tunnel is taken down first.
TakeCommand ==
  /\ queue # <<>> /\ queue' = Tail(queue)
  /\ LET c == Head(queue)
         up == c \in {"connect", "reconnect"} IN
     /\ wants' = IF c = "block" THEN wants ELSE up
     /\ \/ /\ up /\ tun.st \in {"disconnected", "error", "connecting"}
           /\ Publish(State("connecting"))
        \/ /\ \/ c = "reconnect" /\ tun.st = "connected"
              \/ c = "disconnect" /\ tun.st \in {"connecting", "connected"}
           /\ Publish([tun EXCEPT !.st = "disconnecting"])
        \/ c = "disconnect" /\ tun.st = "error" /\ Publish(State("disconnected"))
        \/ c = "block" /\ tun.st # "disconnected" /\ Publish(State("error"))
        \/ /\ \/ c = "connect" /\ tun.st = "connected"
              \/ c \in {"disconnect", "block"} /\ tun.st = "disconnected"
              \/ c # "block" /\ tun.st = "disconnecting"
           /\ UNCHANGED <<tun, stream, hit>>
  /\ UNCHANGED <<script, op, at, cfg, target, listens, account, began, last, faults>>

\* The tunnel goes down, then up again if the daemon still wants one; it comes
\* up if the settings and the device allow it.
TunnelStep ==
  /\ \/ /\ tun.st = "disconnecting"
        /\ Publish(State(IF wants THEN "connecting" ELSE "disconnected"))
     \/ /\ tun.st = "connecting" /\ tun.kind = "good" /\ account.mine \in {"ok", "removed"}
        /\ Publish([tun EXCEPT !.st = "connected"])
     \/ /\ tun.st = "connecting" /\ (tun.kind = "none" \/ account.mine \in {"none", "revoked"})
        /\ Publish([tun EXCEPT !.st = "error"])
  /\ UNCHANGED <<script, op, at, cfg, target, queue, wants, listens, account, began,
                 last, faults>>

\* The connection breaks, or cannot be made.
TunnelFails ==
  /\ Fault
  /\ \/ tun.st = "connected" /\ Publish([tun EXCEPT !.st = "connecting"])
     \/ tun.st = "connecting" /\ Publish([tun EXCEPT !.st = "error"])
  /\ UNCHANGED <<script, op, at, cfg, target, queue, wants, listens, account, began, last>>

\* The key is replaced; before the test listens, nobody hears of it.
RotateKey ==
  /\ account.key = "old" /\ account' = [account EXCEPT !.key = "new"]
  /\ IF listens = "yes" THEN UNCHANGED faults ELSE Fault
  /\ stream' = IF listens = "yes" THEN Append(stream, State("device")) ELSE stream
  /\ UNCHANGED <<script, op, at, cfg, daemon, listens, began, hit, last>>

\* The daemon finds out by itself that its device is gone, before it is asked.
NoticesRevocation ==
  /\ account.mine = "removed" /\ Fault
  /\ account' = [account EXCEPT !.mine = "revoked"]
  /\ queue' = Append(queue, "block")
  /\ UNCHANGED <<script, op, at, cfg, target, wants, tun, stream, listens, began, hit, last>>

Manager ==
  \/ SetSettings \/ SetAutoConnect \/ CallTunnel \/ EventsListen \/ ReadState
  \/ NextEvent \/ AssertState \/ CheckTunnel \/ RestartDaemon \/ LoginAccount
  \/ FillDevices \/ ClearDevices \/ RevokeDevice \/ UpdateDevice \/ LogoutAccount
  \/ EndScript
Daemon == TakeCommand \/ TunnelStep \/ RotateKey

Next ==
  \/ Manager \/ TimesOut \/ RequestFails \/ StreamLost
  \/ Daemon \/ TunnelFails \/ NoticesRevocation

Spec == Init /\ [][Next]_vars

\* The test goes on, timers fire, and the daemon works off its commands.
FairSpec == Spec /\ WF_vars(Manager) /\ WF_vars(TimesOut) /\ WF_vars(Daemon)

-----------------------------------------------------------------------------
(* Properties.                                                              *)

\* connect_and_wait does not report the tunnel of older settings: what it saw
\* connected was set up with every setting made before the call.  Only a daemon
\* slow to begin reconnecting can pass the old tunnel for the new one, when the
\* call is made while a tunnel is wanted (test_quantum_resistant_tunnel).
ConnectIsFresh ==
  Running /\ at = "call" /\ op > 1 /\ Script[op - 1].do = "connect" /\ last.ok
    => last.gen = cfg.gen \/ (~scn.prompt /\ last.began # "disconnected")

\* Once disconnect_and_wait has returned, the tunnel is down and stays down until
\* the next connection is asked for: no command sent earlier, by a test that
\* failed half way for instance, brings it up again.
StaysDisconnected ==
  /\ scn.prompt /\ ~target /\ Running /\ at = "call" /\ op > 1
  /\ Script[op - 1].do = "disconnect"
  => Range(queue) \subseteq {"block"} /\ tun.st = "disconnected"

\* A wait that times out has not overlooked the state it waited for: none was
\* published since it subscribed.
NothingOverlooked == last.timeout => ~last.hit

\* The order of the priorities: the tests of the tunnel come after test_login,
\* which must succeed, and before test_logout, so the app has a device of the
\* account while they run; the account is not full when the first test begins.
AccountTests == {"too_many_devices", "revoked_device", "login", "logout"}
TunnelTest(n) == n \in DOMAIN Scripts \ (AccountTests \cup {"key_rotation"})
Orderly ==
  \A s \in Scenarios :
    /\ s.devices < MaxDevices
    /\ \A t \in {1, 2} : TunnelTest(s.tests[t]) =>
         s.device = "ok" /\ (t = 2 => s.tests[1] \notin AccountTests)

\* A test fails only for something that went wrong while it ran: neither an
\* earlier test, failed or not, nor the order of answers and events makes it
\* fail, if the daemon is prompt.  The exception is the account: devices that
\* clear_devices could not remove make a later login fail.
FailsForAReason ==
  verdict[turn] = "fail" /\ phase = "cleanup" /\ scn.prompt
    => faults > mark.faults \/ (mark.devices = MaxDevices /\ turn = 2)

\* Every test and its cleanup end: no wait is without a timeout.
TestsEnd == <>(phase = "done")
=============================================================================
