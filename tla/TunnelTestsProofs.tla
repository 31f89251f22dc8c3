------------------------- MODULE TunnelTestsProofs -------------------------
(* Proofs about TunnelTests, for every set of scenarios made of its scripts *)
(* and every bound on devices and faults.                                   *)
EXTENDS TunnelTests, Integers, TLAPS

\* Zenon proves most steps; the others name the prover they need.
USE ZenonT(20)

----------------------------------------------------------------------------
(* The inductive invariant.                                                 *)

\* Only connect_and_wait, disconnect_and_wait and wait_for_tunnel_state have
\* steps after the call.
Place ==
  /\ scn \in Scenarios /\ turn \in {1, 2} /\ phase \in {"test", "cleanup", "done"}
  /\ op \in Nat \ {0} /\ at \in {"call", "listen", "read", "await"}
  /\ at # "call" => Running /\ Op.do \in {"connect", "disconnect", "wait"}

Command == {"connect", "reconnect", "disconnect", "block"}
Shape ==
  /\ tun = [st |-> tun.st, gen |-> tun.gen, kind |-> tun.kind]
  /\ cfg = [kind |-> cfg.kind, gen |-> cfg.gen, auto |-> cfg.auto]
  /\ queue \in Seq(Command)
  /\ stream \in Seq(Range(stream))

\* A state that counts as published since the wait subscribed is in its stream.
Noticed ==
  /\ at \in {"call", "listen"} => ~hit
  /\ hit /\ listens = "yes" => \E e \in Range(stream) : e.st \in Accept(Op)

\* A wait opens a stream of its own: only events_listen leaves one open, to the
\* update_device and the wait for an event that follow it.
Subscribed ==
  (at = "call" /\ op > 1 /\ Script[op - 1].do \in {"listen", "update"})
    \/ at \in {"read", "await"} \/ (listens = "no" /\ stream = <<>>)

\* The command of the test that a prompt daemon has yet to take; behind it
\* there are only the commands to block a revoked device.
Cmd == IF queue = <<>> THEN "block" ELSE Head(queue)
BlocksBehind == \A i \in 2..Len(queue) : queue[i] = "block"

\* Without a target the tunnel is down or going down once the command to
\* disconnect has been taken.
Down ==
  ~target => \/ Cmd = "disconnect"
             \/ Cmd = "block" /\ ~wants /\ tun.st \in {"disconnected", "disconnecting", "error"}

\* With a target the tunnel has the settings there are, or is yet to be set up
\* with them.
Up ==
  target => \/ Cmd = "reconnect"
            \/ /\ Cmd = "connect"
               /\ tun.st \in {"disconnected", "error"} \/ (tun.st = "disconnecting" /\ ~wants)
            \/ Cmd = "block" /\ (tun.st \in {"disconnecting", "disconnected"} \/ tun.gen = cfg.gen)

Line == scn.prompt => BlocksBehind /\ Down /\ Up

\* What a wait can still see.
InWait(d) == at # "call" /\ Op.do = d
Hears(d)  == at \in {"read", "await"} /\ Op.do = d
FreshWait ==
  /\ InWait("connect") => target
  /\ Hears("connect") /\ scn.prompt => Cmd = "block"
  /\ InWait("connect") /\ began = "disconnected" => tun.st = "disconnected" \/ tun.gen = cfg.gen
  /\ Hears("connect") /\ (scn.prompt \/ began = "disconnected") =>
       \A e \in Range(stream) : e.st \in {"connected", "error"} => e.gen = cfg.gen
DownWait ==
  /\ InWait("disconnect") => ~target
  /\ Hears("disconnect") /\ scn.prompt =>
       /\ Cmd = "block"
       /\ (\E e \in Range(stream) : e.st = "disconnected") => tun.st = "disconnected"

\* StaysDisconnected, in terms of the command.
StaysDown ==
  /\ scn.prompt /\ ~target /\ Running /\ at = "call" /\ op > 1
  /\ Script[op - 1].do = "disconnect"
  => Cmd = "block" /\ tun.st = "disconnected"

LookInv == Place /\ Shape /\ Noticed /\ NothingOverlooked
StreamInv == LookInv /\ Subscribed
FreshInv == Line /\ FreshWait /\ ConnectIsFresh
DownInv  == Line /\ DownWait /\ StaysDown
IInv == StreamInv /\ FreshInv /\ DownInv

----------------------------------------------------------------------------
(* The scripts.                                                             *)

Follows(s) ==
  \A i \in Nat \ {0} : i + 1 <= Len(s) /\ s[i].do \in {"listen", "update"}
                         => s[i + 1].do \in {"update", "next"}

\* The operations of all scripts but the two that listen.
PlainOps ==
  {Set("good"), Set("unreachable"), Set("none"), AutoConnect, [do |-> "auto", arg |-> FALSE],
   Connect("ok"), Connect("err"), Connect("any"), Disconnect, Begin, Check, Reboot,
   WaitFor({"connected"}), WaitFor({"connecting", "error"}),
   Expect({"disconnected"}), Expect({"connecting"}), Expect({"error"}), Expect({"connected"}),
   Account("fill"), Account("clear"), Account("logout"), Login("ok"), Login("full")}

LEMMA PlainFollows ==
  ASSUME NEW s \in Seq(PlainOps)
  PROVE  Follows(s)
<1>1. \A o \in PlainOps : o.do \notin {"listen", "update"}
  BY SMT DEF PlainOps, Set, AutoConnect, Connect, Disconnect, Begin, Check, Reboot, WaitFor,
         Expect, Account, Login
<1>2. \A i \in Nat \ {0} : i + 1 <= Len(s) => s[i] \in PlainOps
  BY SMT
<1>3. QED
  BY <1>1, <1>2 DEF Follows

(* What test_openvpn_tunnel and test_wireguard_tunnel repeat. *)
LEMMA RoundsFollow ==
  ASSUME NEW s \in Seq(PlainOps), NEW t \in Seq(PlainOps), NEW u \in Seq(PlainOps)
  PROVE  Follows(s \o t \o u)
<1>1. s \o t \o u \in Seq(PlainOps)
  BY SMT
<1>2. QED
  BY <1>1, PlainFollows

(* In every script update_device or the wait for an event follows the call *)
(* that opens a stream, and the wait follows update_device.                *)
LEMMA ScriptsFollow ==
  ASSUME NEW n \in DOMAIN Scripts
  PROVE  Follows(Scripts[n])
<1> DEFINE Round == <<Set("good"), Connect("ok"), Check, Disconnect>>
           Third == <<Set("unreachable"), Connect("err"), Disconnect>>
<1>1. Round \in Seq(PlainOps) /\ Third \in Seq(PlainOps)
  BY SMT DEF PlainOps
<1>2. Follows(Openvpn) /\ Follows(Wireguard)
  BY <1>1, RoundsFollow DEF Openvpn, Wireguard
<1>3. /\ Udp2tcp \in Seq(PlainOps) /\ Bridge \in Seq(PlainOps)
      /\ Multihop \in Seq(PlainOps) /\ Autoconnect \in Seq(PlainOps)
  BY SMT DEF PlainOps, Udp2tcp, Bridge, Multihop, Autoconnect
<1>4. QuantumResistant \in Seq(PlainOps) /\ MultihopUdp2tcp \in Seq(PlainOps)
  BY SMT DEF PlainOps, QuantumResistant, MultihopUdp2tcp
<1>5. /\ DisconnectedState \in Seq(PlainOps) /\ ConnectingState \in Seq(PlainOps)
      /\ ErrorState \in Seq(PlainOps) /\ ConnectedState \in Seq(PlainOps)
  BY SMT DEF PlainOps, DisconnectedState, ConnectingState, ErrorState, ConnectedState
<1>6. /\ TooManyDevices \in Seq(PlainOps) /\ LoginTest \in Seq(PlainOps)
      /\ Logout \in Seq(PlainOps)
  BY SMT DEF PlainOps, TooManyDevices, LoginTest, Logout
<1>7. Follows(RevokedDevice)
  BY SMT DEF Follows, RevokedDevice, Login, Connect, Account, Listen, NextState
<1>8. Follows(KeyRotation)
  BY SMT DEF Follows, KeyRotation, AgeKey, Listen, NextKey
<1>9. QED
  BY SMT, <1>2, <1>3, <1>4, <1>5, <1>6, <1>7, <1>8, PlainFollows DEF Scripts

LEMMA ScriptFollows ==
  ASSUME Place
  PROVE  Follows(Script)
<1>1. Cleanup \in Seq(PlainOps)
  BY SMT DEF PlainOps, Cleanup
<1>2. QED
  BY <1>1, PlainFollows, ScriptsFollow, ScenarioAssumption DEF Script, Place

----------------------------------------------------------------------------
(* The stream and the queue of commands.                                    *)

LEMMA SeqOfRange ==
  ASSUME NEW S, NEW s \in Seq(S)
  PROVE  s \in Seq(Range(s))
BY SMT DEF Range

LEMMA EmptyStream == <<>> \in Seq(Range(<<>>)) /\ Range(<<>>) = {}
BY SMT DEF Range

LEMMA AppendEvent ==
  ASSUME NEW s, s \in Seq(Range(s)), NEW e
  PROVE  /\ Append(s, e) \in Seq(Range(Append(s, e)))
         /\ Range(Append(s, e)) = Range(s) \cup {e}
<1> DEFINE S == Range(s) \cup {e}
           t == Append(s, e)
<1>1. s \in Seq(S) /\ t \in Seq(S)
  BY SMT
<1>2. t \in Seq(Range(t))
  BY <1>1, SeqOfRange
<1>3. /\ DOMAIN s = 1..Len(s) /\ DOMAIN t = 1..Len(s) + 1 /\ Len(s) \in Nat
      /\ t[Len(s) + 1] = e /\ \A i \in 1..Len(s) : t[i] = s[i]
  BY SMT, <1>1
<1>4. Range(t) = Range(s) \cup {e}
  <2>1. Range(t) \subseteq Range(s) \cup {e}
    BY SMT, <1>3 DEF Range
  <2>2. Range(s) \cup {e} \subseteq Range(t)
    BY SMT, <1>3 DEF Range
  <2>3. QED
    BY <2>1, <2>2
<1>5. QED
  BY <1>2, <1>4

LEMMA TakeEvent ==
  ASSUME NEW s, s \in Seq(Range(s)), s # <<>>
  PROVE  /\ Tail(s) \in Seq(Range(Tail(s)))
         /\ Head(s) \in Range(s)
         /\ Range(s) = Range(Tail(s)) \cup {Head(s)}
<1> DEFINE t == Tail(s)
<1>1. t \in Seq(Range(s)) /\ Head(s) \in Range(s)
  BY SMT
<1>2. t \in Seq(Range(t))
  BY <1>1, SeqOfRange
<1>3. /\ DOMAIN s = 1..Len(s) /\ DOMAIN t = 1..Len(s) - 1 /\ Len(s) \in Nat \ {0}
      /\ s[1] = Head(s) /\ \A i \in 1..Len(s) - 1 : t[i] = s[i + 1]
  BY SMT, <1>1
<1>4. Range(s) = Range(t) \cup {Head(s)}
  <2>1. Range(s) \subseteq Range(t) \cup {Head(s)}
    <3>1. ASSUME NEW i \in 1..Len(s)
          PROVE  s[i] \in Range(t) \cup {Head(s)}
      <4>1. CASE i = 1
        BY <4>1, <1>3
      <4>2. CASE i # 1
        <5>1. i - 1 \in 1..Len(s) - 1 /\ s[i] = t[i - 1]
          BY SMT, <4>2, <1>3
        <5>2. QED
          BY <5>1, <1>3 DEF Range
      <4>3. QED
        BY <4>1, <4>2
    <3>2. QED
      BY SMT, <3>1, <1>3 DEF Range
  <2>2. Range(t) \cup {Head(s)} \subseteq Range(s)
    BY SMT, <1>1, <1>3 DEF Range
  <2>3. QED
    BY <2>1, <2>2
<1>5. QED
  BY <1>1, <1>2, <1>4

LEMMA QueueTypes ==
  /\ <<>> \in Seq(Command) /\ <<"connect">> \in Seq(Command)
  /\ \A q \in Seq(Command), c \in {"connect", "reconnect", "disconnect", "block"} :
       Append(q, c) \in Seq(Command)
<1>1. \A q \in Seq(Command), c \in Command : Append(q, c) \in Seq(Command)
  BY SMT
<1>2. <<>> \in Seq(Command)
  BY SMT
<1>3. "connect" \in Command
  BY DEF Command
<1>4. <<"connect">> \in Seq(Command)
  BY SMT, <1>3
<1>5. QED
  BY <1>1, <1>2, <1>4 DEF Command

(* A command that the tunnel state machine takes. *)
LEMMA TakeCmd ==
  ASSUME queue \in Seq(Command), queue # <<>>, queue' = Tail(queue), BlocksBehind
  PROVE  queue' \in Seq(Command) /\ BlocksBehind' /\ Cmd' = "block" /\ Cmd = Head(queue)
<1>1. /\ queue' \in Seq(Command) /\ Len(queue) \in Nat \ {0} /\ Len(queue') = Len(queue) - 1
      /\ \A i \in 1..Len(queue') : queue'[i] = queue[i + 1]
  BY SMT
<1>2. \A i \in 1..Len(queue') : queue'[i] = "block"
  BY SMT, <1>1 DEF BlocksBehind
<1>3. queue' # <<>> => Head(queue') = queue'[1] /\ 1 \in 1..Len(queue')
  BY SMT, <1>1
<1>4. QED
  BY SMT, <1>1, <1>2, <1>3 DEF BlocksBehind, Cmd

(* A command to block comes behind those there are. *)
LEMMA BlockCmd ==
  ASSUME queue \in Seq(Command), queue' = Append(queue, "block"), BlocksBehind
  PROVE  BlocksBehind' /\ Cmd' = Cmd
<1>1. /\ Len(queue) \in Nat /\ Len(queue') = Len(queue) + 1 /\ queue' # <<>>
      /\ \A i \in 1..Len(queue) : queue'[i] = queue[i]
      /\ queue'[Len(queue) + 1] = "block"
      /\ Head(queue') = queue'[1]
  BY SMT DEF Command
<1>2. BlocksBehind'
  BY SMT, <1>1 DEF BlocksBehind
<1>3. queue # <<>> => Head(queue) = queue[1] /\ 1 \in 1..Len(queue)
  BY SMT
<1>4. queue = <<>> => Len(queue) = 0
  BY SMT
<1>5. QED
  BY SMT, <1>1, <1>2, <1>3, <1>4 DEF Cmd

(* A command of the test is sent to a prompt daemon when it has no other. *)
LEMMA SendCmd ==
  ASSUME queue = <<>>, NEW c \in Command, queue' = Append(queue, c)
  PROVE  BlocksBehind' /\ Cmd' = c
BY SMT DEF BlocksBehind, Cmd

LEMMA NoCmd ==
  ASSUME queue = <<>>
  PROVE  BlocksBehind /\ Cmd = "block"
BY SMT DEF BlocksBehind, Cmd

(* The steps of a wait. *)
LEMMA WaitSteps ==
  After("call") = "listen" /\ After("listen") = "read" /\ After("read") = "await"
<1>1. \A i \in 1..3 : i = 1 \/ i = 2 \/ i = 3
  BY SMT
<1>2. WaitOrder[1] = "call" /\ WaitOrder[2] = "listen" /\ WaitOrder[3] = "read" /\ WaitOrder[4] = "await"
  BY DEF WaitOrder
<1>3. /\ (CHOOSE i \in 1..3 : WaitOrder[i] = "call") = 1
      /\ (CHOOSE i \in 1..3 : WaitOrder[i] = "listen") = 2
      /\ (CHOOSE i \in 1..3 : WaitOrder[i] = "read") = 3
  BY SMT, <1>1, <1>2
<1>4. QED
  BY SMT, <1>2, <1>3 DEF After

LEMMA Accepted ==
  ASSUME NEW o
  PROVE  /\ o.do = "connect" => Accept(o) = {"connected", "error"}
         /\ o.do = "disconnect" => Accept(o) = {"disconnected"}
BY DEF Accept

----------------------------------------------------------------------------
(* Where the test is.                                                       *)

LEMMA SameScript ==
  ASSUME UNCHANGED <<scn, turn, phase>>
  PROVE  Script' = Script
BY DEF Script

LEMMA SamePlace ==
  ASSUME UNCHANGED <<scn, turn, phase, op>>
  PROVE  Script' = Script /\ Op' = Op /\ (Running' <=> Running)
BY SameScript DEF Op, Running

\* The manager's actions that consist of one request or check.
OneCall ==
  \/ SetSettings \/ SetAutoConnect \/ AssertState \/ CheckTunnel \/ RestartDaemon
  \/ LoginAccount \/ FillDevices \/ ClearDevices \/ RevokeDevice \/ UpdateDevice
  \/ LogoutAccount
\* The actions outside the test.
Outside ==
  TakeCommand \/ TunnelStep \/ TunnelFails \/ RotateKey \/ NoticesRevocation \/ StreamLost

LEMMA NextSplit ==
  ASSUME Next
  PROVE  \/ OneCall \/ CallTunnel \/ EventsListen \/ ReadState \/ NextEvent \/ EndScript
         \/ TimesOut \/ RequestFails \/ Outside
BY DEF Next, Manager, Daemon, OneCall, Outside

(* Such a request begins and ends between two waits, and leaves the outcome *)
(* of the last wait alone.                                                  *)
LEMMA OneCallFacts ==
  ASSUME Place, OneCall
  PROVE  /\ Running /\ at = "call" /\ (Continue \/ Fail)
         /\ Op.do \notin {"connect", "disconnect", "begin", "wait", "listen", "next"}
         /\ Op.do = "update" => Continue
         /\ UNCHANGED <<scn, turn, began, hit, last>>
         /\ UNCHANGED <<stream, listens>> \/ (stream' = <<>> /\ listens' = "no")
<1>1. ASSUME NEW d, Doing(d), d \notin {"connect", "disconnect", "wait"}
      PROVE  Running /\ at = "call" /\ Op.do = d
  BY <1>1 DEF Doing, Place
<1>2. CASE SetSettings
  BY SMT, <1>1, <1>2 DEF SetSettings
<1>3. CASE SetAutoConnect
  BY SMT, <1>1, <1>3 DEF SetAutoConnect
<1>4. CASE RestartDaemon
  BY SMT, <1>1, <1>4 DEF RestartDaemon
<1>5. CASE AssertState
  BY SMT, <1>1, <1>5 DEF AssertState
<1>6. CASE CheckTunnel
  BY SMT, <1>1, <1>6 DEF CheckTunnel
<1>7. CASE LoginAccount
  BY SMT, <1>1, <1>7 DEF LoginAccount
<1>8. CASE FillDevices
  <2>1. Doing("fill") /\ (Continue \/ Fail) /\ UNCHANGED <<scn, turn, began, hit, last, stream, listens>>
    BY <1>8 DEF FillDevices
  <2>2. QED
    BY SMT, <1>1, <2>1
<1>9. CASE ClearDevices
  <2>1. Doing("clear") /\ Continue /\ UNCHANGED <<scn, turn, began, hit, last, stream, listens>>
    BY <1>9 DEF ClearDevices
  <2>2. QED
    BY SMT, <1>1, <2>1
<1>10. CASE RevokeDevice
  BY SMT, <1>1, <1>10 DEF RevokeDevice
<1>11. CASE UpdateDevice
  BY SMT, <1>1, <1>11 DEF UpdateDevice
<1>12. CASE LogoutAccount
  BY SMT, <1>1, <1>12 DEF LogoutAccount
<1>13. QED
  BY <1>2, <1>3, <1>4, <1>5, <1>6, <1>7, <1>8, <1>9, <1>10, <1>11, <1>12 DEF OneCall

LEMMA OutsideFacts ==
  ASSUME Outside
  PROVE  UNCHANGED <<scn, turn, phase, op, at, cfg, target, began, last>>
BY DEF Outside, TakeCommand, TunnelStep, TunnelFails, RotateKey, NoticesRevocation, StreamLost,
       script, daemon

LEMMA PlaceInit == Init => Place
BY SMT DEF Init, Place

LEMMA PlaceStep ==
  ASSUME Place, [Next]_vars
  PROVE  Place'
<1>1. ASSUME Continue \/ Fail, UNCHANGED <<scn, turn>>
      PROVE  Place'
  BY SMT, <1>1 DEF Place, Continue, Fail
<1>2. CASE OneCall
  BY <1>2, <1>1, OneCallFacts
<1>3. CASE CallTunnel
  <2>1. CASE Op.do = "begin"
    BY <2>1, <1>3, <1>1 DEF CallTunnel
  <2>2. CASE Op.do # "begin"
    <3>1. /\ UNCHANGED <<scn, turn, phase, op>> /\ at' = "listen"
          /\ Running /\ Op.do \in {"connect", "disconnect", "wait"}
      BY <2>2, <1>3, WaitSteps DEF CallTunnel
    <3>2. QED
      BY <3>1, SamePlace DEF Place
  <2>3. QED
    BY <2>1, <2>2
<1>4. CASE EventsListen
  <2>1. CASE Op.do = "listen" /\ Continue
    BY <2>1, <1>4, <1>1 DEF EventsListen
  <2>2. CASE at = "listen" /\ at' = After("listen") /\ UNCHANGED <<op, phase, verdict>>
    <3>1. UNCHANGED <<scn, turn, phase, op>> /\ at' = "read"
      BY <2>2, <1>4, WaitSteps DEF EventsListen
    <3>2. QED
      BY <2>2, <3>1, SamePlace DEF Place
  <2>3. QED
    BY <2>1, <2>2, <1>4 DEF EventsListen
<1>5. CASE ReadState
  <2>1. CASE tun.st \in Accept(Op)
    BY <2>1, <1>5, <1>1 DEF ReadState, Conclude
  <2>2. CASE tun.st \notin Accept(Op)
    <3>1. UNCHANGED <<scn, turn, phase, op>> /\ at = "read" /\ at' = "await"
      BY <2>2, <1>5, WaitSteps DEF ReadState
    <3>2. QED
      BY <3>1, SamePlace DEF Place
  <2>3. QED
    BY <2>1, <2>2
<1>6. CASE NextEvent
  <2>1. CASE Head(stream).st \in Accept(Op)
    BY <2>1, <1>6, <1>1 DEF NextEvent, Conclude
  <2>2. CASE Head(stream).st \notin Accept(Op)
    BY <2>2, <1>6, SamePlace DEF NextEvent, Place
  <2>3. QED
    BY <2>1, <2>2
<1>7. CASE EndScript
  BY SMT, <1>7 DEF EndScript, Place
<1>8. CASE TimesOut \/ RequestFails
  BY <1>8, <1>1 DEF TimesOut, RequestFails, Conclude
<1>9. CASE Outside
  BY <1>9, OutsideFacts, SamePlace DEF Place
<1>10. CASE UNCHANGED vars
  BY <1>10, SamePlace DEF Place, vars
<1>11. QED
  BY <1>2, <1>3, <1>4, <1>5, <1>6, <1>7, <1>8, <1>9, <1>10, NextSplit

----------------------------------------------------------------------------
(* A wait that times out has overlooked nothing.                            *)

\* The states that the daemon publishes.
Published(t) == t = [st |-> t.st, gen |-> t.gen, kind |-> t.kind]

(* What it means that a state is published. *)
LEMMA PublishFacts ==
  ASSUME Shape, NEW t, Published(t), Publish(t)
  PROVE  /\ tun' = [st |-> tun'.st, gen |-> tun'.gen, kind |-> tun'.kind]
         /\ stream' \in Seq(Range(stream'))
         /\ Range(stream') \subseteq Range(stream) \cup {t}
         /\ Range(stream) \subseteq Range(stream')
         /\ listens = "yes" => t \in Range(stream')
<1>1. tun' = t /\ stream' = IF listens = "yes" THEN Append(stream, t) ELSE stream
  BY DEF Publish
<1>2. stream \in Seq(Range(stream))
  BY DEF Shape
<1>3. /\ Append(stream, t) \in Seq(Range(Append(stream, t)))
      /\ Range(Append(stream, t)) = Range(stream) \cup {t}
  BY <1>2, AppendEvent
<1>4. /\ stream' \in Seq(Range(stream'))
      /\ Range(stream') \subseteq Range(stream) \cup {t}
      /\ Range(stream) \subseteq Range(stream')
      /\ listens = "yes" => t \in Range(stream')
  <2>1. CASE listens = "yes"
    BY <1>1, <1>3, <2>1
  <2>2. CASE listens # "yes"
    BY <1>1, <1>2, <2>2
  <2>3. QED
    BY <2>1, <2>2
<1>5. QED
  BY <1>1, <1>4 DEF Published

(* Every state is published in full, whatever the tunnel does. *)
LEMMA TunnelStates ==
  ASSUME Shape
  PROVE  /\ \A st : /\ Published(State(st)) /\ State(st).st = st /\ State(st).gen = cfg.gen
                      /\ Published([tun EXCEPT !.st = st])
                      /\ [tun EXCEPT !.st = st].st = st /\ [tun EXCEPT !.st = st].gen = tun.gen
<1>1. ASSUME NEW st
      PROVE  /\ Published(State(st)) /\ State(st).st = st /\ State(st).gen = cfg.gen
             /\ Published([tun EXCEPT !.st = st])
             /\ [tun EXCEPT !.st = st].st = st /\ [tun EXCEPT !.st = st].gen = tun.gen
  <2>1. Published(State(st)) /\ State(st).st = st /\ State(st).gen = cfg.gen
    BY DEF Published, State
  <2>2. [tun EXCEPT !.st = st] = [st |-> st, gen |-> tun.gen, kind |-> tun.kind]
    BY SMT DEF Shape
  <2>3. QED
    BY <2>1, <2>2 DEF Published
<1>2. QED
  BY <1>1

\* A new state has the settings there are, or is one of the tunnel that was
\* being set up or was up; a tunnel that is down stays down until the daemon
\* takes a command to connect.
Changes(t) ==
  /\ t.gen = cfg.gen \/ (t.gen = tun.gen /\ tun.st \in {"connecting", "connected"})
  /\ tun.st = "disconnected" => queue # <<>> /\ Head(queue) \in {"connect", "reconnect"}

(* A step outside the test publishes a state, reports a key or neither. *)
LEMMA OutsideEvents ==
  ASSUME Shape, Outside
  PROVE  \/ \E t : Published(t) /\ Publish(t) /\ Changes(t) /\ UNCHANGED listens
         \/ /\ UNCHANGED <<tun, stream, hit>>
            /\ listens' = listens \/ (listens = "yes" /\ listens' = "lost")
         \/ /\ listens = "yes" /\ UNCHANGED <<tun, hit, listens>>
            /\ stream' = Append(stream, State("device"))
<1>1. CASE TakeCommand
  <2>1. queue # <<>> /\ UNCHANGED listens
    BY <1>1 DEF TakeCommand
  <2>2. \/ /\ Head(queue) \in {"connect", "reconnect"} /\ Publish(State("connecting"))
        \/ /\ tun.st \in {"connecting", "connected"}
           /\ Publish([tun EXCEPT !.st = "disconnecting"])
        \/ tun.st = "error" /\ Publish(State("disconnected"))
        \/ tun.st # "disconnected" /\ Publish(State("error"))
        \/ UNCHANGED <<tun, stream, hit>>
    BY <1>1 DEF TakeCommand
  <2>3. QED
    BY <2>1, <2>2, TunnelStates DEF Changes
<1>2. CASE TunnelStep
  BY <1>2, TunnelStates DEF TunnelStep, Changes
<1>3. CASE TunnelFails
  BY <1>3, TunnelStates DEF TunnelFails, Changes
<1>4. CASE RotateKey \/ NoticesRevocation \/ StreamLost
  BY <1>4 DEF RotateKey, NoticesRevocation, StreamLost, daemon
<1>5. QED
  BY <1>1, <1>2, <1>3, <1>4 DEF Outside

LEMMA OutsideQueue ==
  ASSUME Shape, Outside
  PROVE  queue' \in Seq(Command)
<1>1. CASE TakeCommand
  BY SMT, <1>1 DEF TakeCommand, Shape
<1>2. CASE NoticesRevocation
  BY SMT, <1>2 DEF NoticesRevocation, Shape, Command
<1>3. CASE TunnelStep \/ TunnelFails \/ RotateKey \/ StreamLost
  BY <1>3 DEF TunnelStep, TunnelFails, RotateKey, StreamLost, daemon, Shape
<1>4. QED
  BY <1>1, <1>2, <1>3 DEF Outside

LEMMA ShapeInit == Init => Shape
BY SMT, EmptyStream DEF Init, Shape, Command

LEMMA ShapeStep ==
  ASSUME Place, Shape, [Next]_vars
  PROVE  Shape'
<1>1. ASSUME UNCHANGED <<cfg, tun, queue>>, UNCHANGED stream \/ stream' = <<>>
      PROVE  Shape'
  BY <1>1, EmptyStream DEF Shape
<1>2. CASE OneCall
  <2>1. stream' \in Seq(Range(stream'))
    BY <1>2, OneCallFacts, EmptyStream DEF Shape
  <2>2. CASE SetSettings
    <3>1. cfg' = [kind |-> Op.arg, gen |-> cfg.gen + 1, auto |-> cfg.auto]
      BY <2>2 DEF SetSettings, Shape
    <3>2. queue' \in Seq(Command)
      BY SMT, <2>2 DEF SetSettings, Shape, Command
    <3>3. QED
      BY <2>1, <2>2, <3>1, <3>2 DEF SetSettings, Shape
  <2>3. CASE SetAutoConnect
    <3>1. cfg' = [kind |-> cfg.kind, gen |-> cfg.gen, auto |-> Op.arg]
      BY <2>3 DEF SetAutoConnect, Shape
    <3>2. QED
      BY <2>1, <2>3, <3>1 DEF SetAutoConnect, Shape, daemon
  <2>4. CASE RestartDaemon
    <3>1. queue' = <<"connect">> \/ queue' = <<>>
      BY <2>4 DEF RestartDaemon
    <3>2. queue' \in Seq(Command)
      BY <3>1, QueueTypes
    <3>3. QED
      BY <2>1, <2>4, <3>2 DEF RestartDaemon, Shape, State
  <2>5. CASE UpdateDevice
    <3>1. queue' \in Seq(Command)
      BY SMT, <2>5 DEF UpdateDevice, Shape, Command
    <3>2. QED
      BY <2>1, <2>5, <3>1 DEF UpdateDevice, Shape
  <2>6. CASE AssertState \/ CheckTunnel \/ LoginAccount \/ FillDevices \/ ClearDevices
             \/ RevokeDevice \/ LogoutAccount
    BY <2>6, <1>1 DEF AssertState, CheckTunnel, LoginAccount, FillDevices, ClearDevices,
                      RevokeDevice, LogoutAccount, daemon
  <2>7. QED
    BY <1>2, <2>2, <2>3, <2>4, <2>5, <2>6 DEF OneCall
<1>3. CASE CallTunnel
  <2>1. queue' \in {queue, Append(queue, "connect"), Append(queue, "disconnect")}
    <3>1. CASE Op.do \in {"connect", "begin"}
      BY <1>3, <3>1 DEF CallTunnel
    <3>2. CASE Op.do = "disconnect"
      BY <1>3, <3>2 DEF CallTunnel
    <3>3. CASE Op.do = "wait"
      BY <1>3, <3>3 DEF CallTunnel
    <3>4. QED
      BY <1>3, <3>1, <3>2, <3>3 DEF CallTunnel
  <2>2. queue' \in Seq(Command)
    BY <2>1, QueueTypes DEF Shape
  <2>3. QED
    BY <1>3, <2>2 DEF CallTunnel, Shape
<1>4. CASE EventsListen \/ ReadState \/ EndScript \/ TimesOut \/ RequestFails
  BY <1>4, <1>1 DEF EventsListen, ReadState, EndScript, TimesOut, RequestFails, Conclude, daemon
<1>5. CASE NextEvent
  <2>1. CASE Head(stream).st \in Accept(Op)
    BY <2>1, <1>5, <1>1 DEF NextEvent, Conclude, daemon
  <2>2. CASE Head(stream).st \notin Accept(Op)
    <3>1. stream # <<>> /\ stream' = Tail(stream) /\ UNCHANGED <<cfg, tun, queue>>
      BY <2>2, <1>5 DEF NextEvent, daemon
    <3>2. QED
      BY <3>1, TakeEvent DEF Shape
  <2>3. QED
    BY <2>1, <2>2
<1>6. CASE Outside
  <2>1. UNCHANGED cfg /\ queue' \in Seq(Command)
    BY <1>6, OutsideFacts, OutsideQueue
  <2>2. CASE \E t : Published(t) /\ Publish(t) /\ Changes(t) /\ UNCHANGED listens
    BY <2>1, <2>2, PublishFacts DEF Shape
  <2>3. CASE UNCHANGED <<tun, stream, hit>>
    BY <2>1, <2>3 DEF Shape
  <2>4. CASE UNCHANGED tun /\ stream' = Append(stream, State("device"))
    BY <2>1, <2>4, AppendEvent DEF Shape
  <2>5. QED
    BY <1>6, <2>2, <2>3, <2>4, OutsideEvents
<1>7. CASE UNCHANGED vars
  BY <1>7, <1>1 DEF vars
<1>8. QED
  BY <1>2, <1>3, <1>4, <1>5, <1>6, <1>7, NextSplit

(* A wait ends with no memory of what it counted. *)
LEMMA ConcludeFacts ==
  ASSUME NEW st, NEW gen, NEW timeout, Conclude(st, gen, timeout)
  PROVE  /\ ~hit' /\ listens' = "no" /\ stream' = <<>> /\ (Continue \/ Fail)
         /\ last'.ok = (st # "failed") /\ last'.gen = gen /\ last'.began = began
         /\ last'.timeout = timeout /\ last'.hit = hit
BY DEF Conclude

LEMMA NoticedInit == Init => Noticed /\ NothingOverlooked
BY SMT DEF Init, Noticed, NothingOverlooked

LEMMA NoticedStep ==
  ASSUME Place, Shape, Noticed, NothingOverlooked, [Next]_vars
  PROVE  Noticed' /\ NothingOverlooked'
<1>1. ASSUME ~hit', UNCHANGED last
      PROVE  Noticed' /\ NothingOverlooked'
  BY <1>1 DEF Noticed, NothingOverlooked
<1>2. ASSUME NEW st, NEW gen, NEW timeout, Conclude(st, gen, timeout), timeout => ~hit
      PROVE  Noticed' /\ NothingOverlooked'
  BY SMT, <1>2, ConcludeFacts DEF Noticed, NothingOverlooked
<1>3. ASSUME UNCHANGED <<scn, turn, phase, op, last, hit>>,
             at' = at \/ (at = "read" /\ at' = "await"),
             listens' = "yes" => listens = "yes",
             hit /\ listens = "yes" =>
               \A e \in Range(stream) : e.st \in Accept(Op) => e \in Range(stream')
      PROVE  Noticed' /\ NothingOverlooked'
  <2>1. Op' = Op
    BY <1>3, SamePlace
  <2>2. NothingOverlooked'
    BY <1>3 DEF NothingOverlooked
  <2>3. Accept(Op') = Accept(Op)
    BY <2>1
  <2>4. Noticed'
    BY <1>3, <2>1, <2>3 DEF Noticed
  <2>5. QED
    BY <2>2, <2>4
<1>4. CASE OneCall
  BY <1>4, <1>1, OneCallFacts DEF Noticed
<1>5. CASE CallTunnel \/ EventsListen
  <2>1. CASE CallTunnel
    BY <2>1, <1>1 DEF CallTunnel
  <2>2. CASE EventsListen
    <3>1. at \in {"call", "listen"}
      BY <2>2 DEF EventsListen, Place
    <3>2. QED
      BY <3>1, <2>2, <1>1 DEF EventsListen, Noticed
  <2>3. QED
    BY <1>5, <2>1, <2>2
<1>6. CASE ReadState
  <2>1. CASE tun.st \in Accept(Op)
    BY <2>1, <1>6, <1>2 DEF ReadState
  <2>2. CASE tun.st \notin Accept(Op)
    BY <2>2, <1>6, <1>3, WaitSteps DEF ReadState
  <2>3. QED
    BY <2>1, <2>2
<1>7. CASE NextEvent
  <2>1. CASE Head(stream).st \in Accept(Op)
    BY <2>1, <1>7, <1>2 DEF NextEvent
  <2>2. CASE Head(stream).st \notin Accept(Op)
    <3>1. stream # <<>> /\ stream' = Tail(stream)
      BY <2>2, <1>7 DEF NextEvent
    <3>2. Range(stream) = Range(stream') \cup {Head(stream)}
      BY <3>1, TakeEvent DEF Shape
    <3>3. \A e \in Range(stream) : e.st \in Accept(Op) => e \in Range(stream')
      BY <3>2, <2>2
    <3>4. QED
      BY <2>2, <3>3, <1>7, <1>3 DEF NextEvent
  <2>3. QED
    BY <2>1, <2>2
<1>8. CASE EndScript
  <2>1. ~Running
    BY SMT, <1>8 DEF EndScript, Running, Place, Script
  <2>2. QED
    BY <2>1, <1>8, <1>1 DEF EndScript, Place, Noticed
<1>9. CASE TimesOut
  <2>1. (listens = "yes") => ~hit
    BY <1>9, EmptyStream DEF TimesOut, Noticed
  <2>2. QED
    BY <1>9, <2>1, <1>2 DEF TimesOut
<1>10. CASE RequestFails
  BY <1>10, <1>2 DEF RequestFails
<1>11. CASE Outside
  <2>1. UNCHANGED <<scn, turn, phase, op, at, last>>
    BY <1>11, OutsideFacts
  <2>2. CASE \E t : Published(t) /\ Publish(t) /\ Changes(t) /\ UNCHANGED listens
    <3>1. PICK t : Published(t) /\ Publish(t) /\ UNCHANGED listens
      BY <2>2
    <3>2. Range(stream) \subseteq Range(stream') /\ (listens = "yes" => t \in Range(stream'))
      BY <3>1, PublishFacts
    <3>3. hit' <=> hit \/ (Running /\ at \notin {"call", "listen"} /\ t.st \in Accept(Op))
      BY <3>1 DEF Publish, WaitOrder
    <3>4. Op' = Op /\ Accept(Op') = Accept(Op)
      BY <2>1, SamePlace
    <3>5. QED
      BY <2>1, <3>1, <3>2, <3>3, <3>4 DEF Noticed, NothingOverlooked
  <2>3. CASE /\ UNCHANGED <<tun, stream, hit>>
             /\ listens' = listens \/ (listens = "yes" /\ listens' = "lost")
    BY <2>1, <2>3, <1>3
  <2>4. CASE /\ listens = "yes" /\ UNCHANGED <<tun, hit, listens>>
             /\ stream' = Append(stream, State("device"))
    <3>1. Range(stream) \subseteq Range(stream')
      BY <2>4, AppendEvent DEF Shape
    <3>2. QED
      BY <2>1, <2>4, <3>1, <1>3
  <2>5. QED
    BY <1>11, <2>2, <2>3, <2>4, OutsideEvents
<1>12. CASE UNCHANGED vars
  BY <1>12, <1>3 DEF vars
<1>13. QED
  BY <1>4, <1>5, <1>6, <1>7, <1>8, <1>9, <1>10, <1>11, <1>12, NextSplit

(* wait_for_tunnel_state opens its stream before it reads the state, and      *)
(* skips only what it does not wait for: whatever the scenario, the order of  *)
(* answers and events and the faults, a wait that times out with its stream   *)
(* open has overlooked no state it waited for.                                *)
THEOREM WaitsOverlookNothing == Spec => []NothingOverlooked
<1>1. Init => LookInv
  BY PlaceInit, ShapeInit, NoticedInit DEF LookInv
<1>2. LookInv /\ [Next]_vars => LookInv'
  BY PlaceStep, ShapeStep, NoticedStep DEF LookInv
<1>3. LookInv => NothingOverlooked
  BY DEF LookInv
<1>4. QED
  BY <1>1, <1>2, <1>3, PTL DEF Spec

----------------------------------------------------------------------------
(* A wait has a stream of its own.                                          *)

(* What is left open for a later operation is left for an update of the     *)
(* device or for the next event, and for no other.                          *)
LEMMA NoStream ==
  ASSUME Place, Subscribed, Running, at \in {"call", "listen"}, Op.do \notin {"update", "next"}
  PROVE  listens = "no" /\ stream = <<>>
<1>1. SUFFICES ASSUME op > 1, Script[op - 1].do \in {"listen", "update"}
               PROVE  FALSE
  BY DEF Subscribed
<1>2. op - 1 \in Nat \ {0} /\ (op - 1) + 1 = op /\ op <= Len(Script)
  BY SMT, <1>1 DEF Place, Running
<1>3. Script[op].do \in {"update", "next"}
  BY <1>1, <1>2, ScriptFollows DEF Follows
<1>4. QED
  BY <1>3 DEF Op

(* The operation that a step ends is the one before the next. *)
LEMMA Continues ==
  ASSUME Place, Continue, UNCHANGED <<scn, turn>>
  PROVE  at' = "call" /\ op' > 1 /\ Script'[op' - 1] = Op
<1>1. Script' = Script /\ op' = op + 1 /\ op \in Nat \ {0} /\ at' = "call"
  BY SameScript DEF Continue, Place
<1>2. op' > 1 /\ op' - 1 = op
  BY SMT, <1>1
<1>3. QED
  BY <1>1, <1>2 DEF Op

LEMMA SubscribedStep ==
  ASSUME LookInv, Subscribed, [Next]_vars
  PROVE  Subscribed'
<1> USE DEF LookInv
<1>1. ASSUME UNCHANGED <<listens, stream>> \/ (listens' = "no" /\ stream' = <<>>),
             listens = "no", stream = <<>>
      PROVE  Subscribed'
  BY <1>1 DEF Subscribed
<1>2. ASSUME listens' = "no", stream' = <<>>
      PROVE  Subscribed'
  BY <1>2 DEF Subscribed
<1>3. CASE OneCall
  <2>1. CASE Op.do = "update"
    <3>1. Continue /\ UNCHANGED <<scn, turn>>
      BY <1>3, <2>1, OneCallFacts
    <3>2. QED
      BY <2>1, <3>1, Continues DEF Subscribed
  <2>2. CASE Op.do # "update"
    BY <1>3, <2>2, <1>1, OneCallFacts, NoStream
  <2>3. QED
    BY <2>1, <2>2
<1>4. CASE CallTunnel
  <2>1. Running /\ at = "call" /\ Op.do \notin {"update", "next"} /\ UNCHANGED <<listens, stream>>
    BY <1>4 DEF CallTunnel
  <2>2. QED
    BY <2>1, <1>1, NoStream
<1>5. CASE EventsListen
  <2>1. CASE Op.do = "listen" /\ Continue
    BY <2>1, <1>5, Continues DEF EventsListen, Subscribed
  <2>2. CASE at' = After("listen")
    BY <2>2, WaitSteps DEF Subscribed
  <2>3. QED
    BY <2>1, <2>2, <1>5 DEF EventsListen
<1>6. CASE ReadState
  <2>1. CASE tun.st \in Accept(Op)
    BY <2>1, <1>6, <1>2, ConcludeFacts DEF ReadState
  <2>2. CASE tun.st \notin Accept(Op)
    BY <2>2, <1>6, WaitSteps DEF ReadState, Subscribed
  <2>3. QED
    BY <2>1, <2>2
<1>7. CASE NextEvent
  <2>1. CASE Head(stream).st \in Accept(Op)
    BY <2>1, <1>7, <1>2, ConcludeFacts DEF NextEvent
  <2>2. CASE Head(stream).st \notin Accept(Op)
    <3>1. UNCHANGED <<scn, turn, phase, op, at>> /\ stream # <<>>
      BY <2>2, <1>7 DEF NextEvent
    <3>2. QED
      BY <3>1, SameScript DEF Subscribed
  <2>3. QED
    BY <2>1, <2>2
<1>8. CASE EndScript \/ TimesOut \/ RequestFails
  BY <1>8, <1>2, ConcludeFacts DEF EndScript, TimesOut, RequestFails
<1>9. CASE Outside
  <2>1. UNCHANGED <<op, at>> /\ Script' = Script
    BY <1>9, OutsideFacts, SameScript
  <2>2. listens = "no" => UNCHANGED <<listens, stream>>
    BY <1>9, OutsideEvents DEF Publish
  <2>3. QED
    BY <2>1, <2>2 DEF Subscribed
<1>10. CASE UNCHANGED vars
  BY <1>10, SameScript DEF vars, Subscribed
<1>11. QED
  BY <1>3, <1>4, <1>5, <1>6, <1>7, <1>8, <1>9, <1>10, NextSplit

----------------------------------------------------------------------------
(* A prompt daemon: the tunnel follows the last command.                    *)

LEMMA LineInit == Init => Line
BY SMT, NoCmd DEF Init, Line, Down, Up

LEMMA SameLine ==
  ASSUME Line, UNCHANGED <<scn, target, queue, wants, tun>>, cfg'.gen = cfg.gen
  PROVE  Line'
BY DEF Line, BlocksBehind, Cmd, Down, Up

(* The commands that block traffic do not count. *)
LEMMA BlockLine ==
  ASSUME Shape, Line, queue' = Append(queue, "block"), UNCHANGED <<scn, cfg, target, wants, tun>>
  PROVE  Line' /\ (scn.prompt => Cmd' = Cmd)
<1>1. SUFFICES ASSUME scn.prompt
               PROVE  Line' /\ Cmd' = Cmd
  BY DEF Line
<1>2. BlocksBehind' /\ Cmd' = Cmd
  BY <1>1, BlockCmd DEF Line, Shape
<1>3. QED
  BY <1>1, <1>2 DEF Line, Down, Up

LEMMA OneCallLine ==
  ASSUME Place, Shape, Line, OneCall
  PROVE  Line'
<1>0. UNCHANGED scn
  BY OneCallFacts
<1>1. CASE SetSettings
  <2>1. SUFFICES ASSUME scn.prompt
                 PROVE  Line'
    BY <1>0 DEF Line
  <2>2. queue = <<>> /\ UNCHANGED <<target, wants, tun>>
    BY <1>1, <2>1 DEF SetSettings, Served
  <2>3. CASE target
    <3>1. queue' = Append(queue, "reconnect")
      BY <1>1, <2>3 DEF SetSettings
    <3>2. BlocksBehind' /\ Cmd' = "reconnect"
      BY <2>2, <3>1, SendCmd DEF Command
    <3>3. QED
      BY <2>2, <2>3, <3>2 DEF Line, Down, Up
  <2>4. CASE ~target
    <3>1. queue' = queue
      BY <1>1, <2>4 DEF SetSettings
    <3>2. QED
      BY <2>1, <2>2, <2>4, <3>1 DEF Line, Down, Up, Cmd, BlocksBehind
  <2>5. QED
    BY <2>3, <2>4
<1>2. CASE SetAutoConnect
  <2>1. cfg' = [kind |-> cfg.kind, gen |-> cfg.gen, auto |-> Op.arg]
    BY <1>2 DEF SetAutoConnect, Shape
  <2>2. QED
    BY <1>2, <2>1, SameLine DEF SetAutoConnect, daemon
<1>3. CASE RestartDaemon
  <2>1. tun'.st = "disconnected" /\ ~wants' /\ (target' <=> cfg.auto)
    BY <1>3 DEF RestartDaemon, State
  <2>2. CASE cfg.auto
    <3>1. queue' = <<"connect">>
      BY <1>3, <2>2 DEF RestartDaemon
    <3>2. BlocksBehind' /\ Cmd' = "connect"
      BY SMT, <3>1 DEF BlocksBehind, Cmd
    <3>3. QED
      BY <2>1, <2>2, <3>2 DEF Line, Down, Up
  <2>3. CASE ~cfg.auto
    <3>1. queue' = <<>>
      BY <1>3, <2>3 DEF RestartDaemon
    <3>2. BlocksBehind' /\ Cmd' = "block"
      BY SMT, <3>1 DEF BlocksBehind, Cmd
    <3>3. QED
      BY <2>1, <2>3, <3>2 DEF Line, Down, Up
  <2>4. QED
    BY <2>2, <2>3
<1>4. CASE UpdateDevice
  <2>1. UNCHANGED <<scn, cfg, target, wants, tun>>
    BY <1>4 DEF UpdateDevice
  <2>2. queue' = queue \/ queue' = Append(queue, "block")
    BY <1>4 DEF UpdateDevice
  <2>3. QED
    BY <2>1, <2>2, BlockLine, SameLine
<1>5. CASE AssertState \/ CheckTunnel \/ LoginAccount \/ FillDevices \/ ClearDevices
           \/ RevokeDevice \/ LogoutAccount
  BY <1>5, SameLine DEF AssertState, CheckTunnel, LoginAccount, FillDevices, ClearDevices,
                        RevokeDevice, LogoutAccount, daemon
<1>6. QED
  BY <1>1, <1>2, <1>3, <1>4, <1>5 DEF OneCall

LEMMA CallLine ==
  ASSUME Line, CallTunnel
  PROVE  Line'
<1>1. SUFFICES ASSUME scn.prompt
               PROVE  Line'
  BY DEF Line, CallTunnel
<1>2. queue = <<>> /\ Cmd = "block" /\ UNCHANGED <<scn, cfg, wants, tun>>
  BY <1>1, NoCmd DEF CallTunnel, Served
<1>3. CASE Op.do \in {"connect", "begin"}
  <2>1. target'
    BY <1>3 DEF CallTunnel
  <2>2. CASE target /\ tun.st # "error"
    <3>1. queue' = queue
      BY <1>3, <2>2 DEF CallTunnel
    <3>2. QED
      BY <1>1, <1>2, <2>1, <2>2, <3>1, SameLine DEF Line, Up, Down, Cmd, BlocksBehind
  <2>3. CASE ~(target /\ tun.st # "error")
    <3>1. queue' = Append(queue, "connect")
      BY <1>3, <2>3 DEF CallTunnel
    <3>2. BlocksBehind' /\ Cmd' = "connect"
      BY <1>2, <3>1, SendCmd DEF Command
    <3>3. QED
      BY <1>1, <1>2, <2>1, <2>3, <3>2 DEF Line, Up, Down
  <2>4. QED
    BY <2>2, <2>3
<1>4. CASE Op.do = "disconnect"
  <2>1. ~target' /\ queue' = Append(queue, "disconnect")
    BY <1>4 DEF CallTunnel
  <2>2. BlocksBehind' /\ Cmd' = "disconnect"
    BY <1>2, <2>1, SendCmd DEF Command
  <2>3. QED
    BY <2>1, <2>2 DEF Line, Up, Down
<1>5. CASE Op.do = "wait"
  <2>1. UNCHANGED <<scn, target, queue, wants, tun, cfg>>
    BY <1>5 DEF CallTunnel
  <2>2. QED
    BY <2>1, SameLine
<1>6. QED
  BY <1>3, <1>4, <1>5 DEF CallTunnel

(* The state machine takes a command, or the tunnel changes by itself. *)
LEMMA OutsideLine ==
  ASSUME Shape, Line, Outside
  PROVE  /\ Line'
         /\ scn.prompt /\ Cmd = "block" => Cmd' = "block"
<1>1. SUFFICES ASSUME scn.prompt
               PROVE  Line' /\ (Cmd = "block" => Cmd' = "block")
  BY OutsideFacts DEF Line
<1>2. UNCHANGED <<scn, cfg, target>> /\ BlocksBehind /\ Down /\ Up
  BY <1>1, OutsideFacts DEF Line
<1>3. CASE TakeCommand
  <2>1. queue # <<>> /\ queue' = Tail(queue)
    BY <1>3 DEF TakeCommand
  <2>2. BlocksBehind' /\ Cmd' = "block" /\ Cmd = Head(queue)
    BY <1>2, <2>1, TakeCmd DEF Shape
  <2>3. wants' = IF Cmd = "block" THEN wants ELSE Cmd \in {"connect", "reconnect"}
    BY <1>3, <2>2 DEF TakeCommand
  <2>4. \/ /\ Cmd \in {"connect", "reconnect"} /\ tun' = State("connecting")
        \/ /\ \/ Cmd = "reconnect" /\ tun.st = "connected"
              \/ Cmd = "disconnect" /\ tun.st \in {"connecting", "connected"}
           /\ tun' = [tun EXCEPT !.st = "disconnecting"]
        \/ Cmd = "disconnect" /\ tun.st = "error" /\ tun' = State("disconnected")
        \/ Cmd = "block" /\ tun.st # "disconnected" /\ tun' = State("error")
        \/ /\ \/ Cmd = "connect" /\ tun.st = "connected"
              \/ Cmd \in {"disconnect", "block"} /\ tun.st = "disconnected"
              \/ Cmd # "block" /\ tun.st = "disconnecting"
           /\ UNCHANGED tun
    BY <1>3, <2>2 DEF TakeCommand, Publish
  <2>5. Down'
    <3>1. SUFFICES ASSUME ~target
                   PROVE  ~wants' /\ tun'.st \in {"disconnected", "disconnecting", "error"}
      BY <1>2, <2>2 DEF Down
    <3>2. /\ Cmd \in {"disconnect", "block"}
          /\ Cmd = "block" => ~wants /\ tun.st \in {"disconnected", "disconnecting", "error"}
      BY <1>2, <3>1 DEF Down
    <3>3. ~wants'
      BY <2>3, <3>2
    <3>4. tun'.st \in {"disconnected", "disconnecting", "error"}
      <4>1. \/ tun' = [tun EXCEPT !.st = "disconnecting"]
            \/ tun' = State("disconnected")
            \/ tun' = State("error")
            \/ tun' = tun /\ tun.st \in {"disconnected", "disconnecting"}
        BY <2>4, <3>2
      <4>2. /\ [tun EXCEPT !.st = "disconnecting"].st = "disconnecting"
            /\ State("disconnected").st = "disconnected" /\ State("error").st = "error"
        BY TunnelStates
      <4>3. QED
        BY <4>1, <4>2
    <3>5. QED
      BY <3>3, <3>4
  <2>6. Up'
    <3>1. SUFFICES ASSUME target
                   PROVE  tun'.st \in {"disconnecting", "disconnected"} \/ tun'.gen = cfg.gen
      BY <1>2, <2>2 DEF Up
    <3>2. Cmd \in {"connect", "reconnect", "block"} /\ (Cmd = "connect" => tun.st # "connected")
      BY <1>2, <3>1 DEF Up
    <3>3. \/ tun' = State("connecting")
          \/ tun' = [tun EXCEPT !.st = "disconnecting"]
          \/ tun' = State("error")
          \/ tun' = tun /\ tun.st \in {"disconnected", "disconnecting"}
      BY <2>4, <3>2
    <3>4. /\ [tun EXCEPT !.st = "disconnecting"].st = "disconnecting"
          /\ State("connecting").gen = cfg.gen /\ State("error").gen = cfg.gen
      BY TunnelStates
    <3>5. QED
      BY <3>3, <3>4
  <2>7. QED
    BY <1>2, <2>2, <2>5, <2>6 DEF Line
<1>4. CASE NoticesRevocation
  <2>1. queue' = Append(queue, "block") /\ UNCHANGED <<scn, cfg, target, wants, tun>>
    BY <1>4, <1>2 DEF NoticesRevocation
  <2>2. QED
    BY <1>1, <2>1, BlockLine
<1>5. CASE RotateKey \/ StreamLost
  <2>1. UNCHANGED <<scn, cfg, target, queue, wants, tun>>
    BY <1>5, <1>2 DEF RotateKey, StreamLost, daemon
  <2>2. QED
    BY <2>1, SameLine DEF Cmd
<1>6. CASE TunnelStep \/ TunnelFails
  <2>1. UNCHANGED <<queue, wants>> /\ Cmd' = Cmd /\ BlocksBehind'
    BY <1>2, <1>6 DEF TunnelStep, TunnelFails, Cmd, BlocksBehind
  <2>2. \/ /\ tun.st = "disconnecting"
           /\ tun' = State(IF wants THEN "connecting" ELSE "disconnected")
        \/ tun.st = "connecting" /\ tun' = [tun EXCEPT !.st = "connected"]
        \/ tun.st = "connecting" /\ tun' = [tun EXCEPT !.st = "error"]
        \/ tun.st = "connected" /\ tun' = [tun EXCEPT !.st = "connecting"]
    BY <1>6 DEF TunnelStep, TunnelFails, Publish
  <2>3. Down'
    <3>1. SUFFICES ASSUME ~target, Cmd # "disconnect"
                   PROVE  ~wants /\ tun'.st \in {"disconnected", "disconnecting", "error"}
                          /\ Cmd = "block"
      BY <1>2, <2>1 DEF Down
    <3>2. ~wants /\ Cmd = "block" /\ tun.st \in {"disconnected", "disconnecting", "error"}
      BY <1>2, <3>1 DEF Down
    <3>3. tun' = State("disconnected")
      BY <2>2, <3>2
    <3>4. QED
      BY <3>2, <3>3, TunnelStates
  <2>4. Up'
    <3>1. CASE target /\ Cmd = "connect"
      <4>1. tun.st = "disconnecting" /\ ~wants
        BY <1>2, <2>2, <3>1 DEF Up
      <4>2. tun' = State("disconnected") /\ State("disconnected").st = "disconnected"
        BY <2>2, <4>1, TunnelStates
      <4>3. QED
        BY <1>2, <2>1, <3>1, <4>2 DEF Up
    <3>2. CASE target /\ Cmd = "block"
      <4>1. tun.st \in {"disconnecting", "disconnected"} \/ tun.gen = cfg.gen
        BY <1>2, <3>2 DEF Up
      <4>2. \/ tun.st = "disconnecting" /\ \E st : tun' = State(st)
            \/ /\ tun.st \in {"connecting", "connected"}
               /\ \E st : tun' = [tun EXCEPT !.st = st]
        BY <2>2
      <4>3. \/ tun.st = "disconnecting" /\ tun'.gen = cfg.gen
            \/ tun.st \in {"connecting", "connected"} /\ tun'.gen = tun.gen
        <5>1. ASSUME NEW st, tun' = State(st)
              PROVE  tun'.gen = cfg.gen
          BY <5>1 DEF State
        <5>2. ASSUME NEW st, tun' = [tun EXCEPT !.st = st]
              PROVE  tun'.gen = tun.gen
          <6>1. [tun EXCEPT !.st = st].gen = tun.gen
            BY TunnelStates
          <6>2. QED
            BY <5>2, <6>1
        <5>3. QED
          BY <4>2, <5>1, <5>2
      <4>4. tun'.gen = cfg.gen
        BY <4>1, <4>3
      <4>5. QED
        BY <1>2, <2>1, <3>2, <4>4 DEF Up
    <3>3. QED
      BY <1>2, <2>1, <3>1, <3>2 DEF Up
  <2>5. QED
    BY <1>2, <2>1, <2>3, <2>4 DEF Line
<1>7. QED
  BY <1>3, <1>4, <1>5, <1>6 DEF Outside

LEMMA LineStep ==
  ASSUME Place, Shape, Line, [Next]_vars
  PROVE  Line'
<1>1. CASE EventsListen \/ ReadState \/ NextEvent \/ EndScript \/ TimesOut \/ RequestFails
  BY <1>1, SameLine
     DEF EventsListen, ReadState, NextEvent, EndScript, TimesOut, RequestFails, daemon
<1>2. CASE UNCHANGED vars
  BY <1>2, SameLine DEF vars
<1>3. QED
  BY <1>1, <1>2, OneCallLine, CallLine, OutsideLine, NextSplit

----------------------------------------------------------------------------
(* connect_and_wait reports a tunnel of the settings there are.             *)

LEMMA AtCall ==
  ASSUME at' = "call"
  PROVE  FreshWait' /\ DownWait'
BY DEF FreshWait, DownWait, InWait, Hears

(* An operation of another kind says nothing about a connection. *)
LEMMA OtherEnds ==
  ASSUME Place, Continue \/ Fail, UNCHANGED <<scn, turn>>
  PROVE  /\ at' = "call"
         /\ Op.do # "connect" \/ Fail => ConnectIsFresh'
         /\ Op.do # "disconnect" \/ Fail => StaysDown'
<1>1. ASSUME Fail
      PROVE  at' = "call" /\ ~(op' > 1)
  BY SMT, <1>1 DEF Fail
<1>2. CASE Fail
  BY <1>1, <1>2 DEF ConnectIsFresh, StaysDown
<1>3. CASE Continue /\ ~Fail
  <2>1. at' = "call" /\ Script'[op' - 1] = Op
    BY <1>3, Continues
  <2>2. QED
    BY <1>3, <2>1 DEF ConnectIsFresh, StaysDown
<1>4. QED
  BY <1>2, <1>3

(* What a connection that waits sees of a step outside the test. *)
LEMMA OutsideFresh ==
  ASSUME Place, Shape, Line, FreshWait, Outside
  PROVE  FreshWait'
<1>1. UNCHANGED <<scn, turn, phase, op, at, cfg, target, began>> /\ Op' = Op
  BY OutsideFacts, SamePlace
<1>2. /\ \A d : InWait(d)' <=> InWait(d)
      /\ \A d : Hears(d)' <=> Hears(d)
  BY <1>1 DEF InWait, Hears
<1>3. (InWait("connect") => target)'
  BY <1>1, <1>2 DEF FreshWait
<1>4. (Hears("connect") /\ scn.prompt => Cmd = "block")'
  BY <1>1, <1>2, OutsideLine DEF FreshWait
<1>5. CASE \E t : Published(t) /\ Publish(t) /\ Changes(t) /\ UNCHANGED listens
  <2>1. PICK t : Published(t) /\ Publish(t) /\ Changes(t) /\ UNCHANGED listens
    BY <1>5
  <2>2. tun' = t /\ Range(stream') \subseteq Range(stream) \cup {t}
    BY <2>1, PublishFacts DEF Publish
  <2>3. t.gen = cfg.gen \/ (t.gen = tun.gen /\ tun.st \in {"connecting", "connected"})
    BY <2>1 DEF Changes
  <2>4. InWait("connect") /\ began = "disconnected" => t.gen = cfg.gen
    BY <2>3 DEF FreshWait
  <2>5. Hears("connect") /\ scn.prompt => t.gen = cfg.gen
    <3>1. SUFFICES ASSUME Hears("connect"), scn.prompt, tun.st \in {"connecting", "connected"}
                   PROVE  tun.gen = cfg.gen
      BY <2>3
    <3>2. target /\ Cmd = "block"
      BY <3>1 DEF FreshWait, Hears, InWait
    <3>3. QED
      BY <3>1, <3>2 DEF Line, Up
  <2>6. Hears("connect") => InWait("connect")
    BY DEF Hears, InWait
  <2>7. (InWait("connect") /\ began = "disconnected" => tun.st = "disconnected" \/ tun.gen = cfg.gen)'
    BY <1>1, <1>2, <2>2, <2>4
  <2>8. (Hears("connect") /\ (scn.prompt \/ began = "disconnected") =>
          \A e \in Range(stream) : e.st \in {"connected", "error"} => e.gen = cfg.gen)'
    BY <1>1, <1>2, <2>2, <2>4, <2>5, <2>6 DEF FreshWait
  <2>9. QED
    BY <1>3, <1>4, <2>7, <2>8 DEF FreshWait
<1>6. CASE /\ UNCHANGED tun
           /\ UNCHANGED stream \/ stream' = Append(stream, State("device"))
  <2>1. \A e \in Range(stream') : e \in Range(stream) \/ e.gen = cfg.gen
    <3>1. CASE UNCHANGED stream
      BY <3>1
    <3>2. CASE stream' = Append(stream, State("device"))
      <4>1. Range(stream') = Range(stream) \cup {State("device")}
        BY <3>2, AppendEvent DEF Shape
      <4>2. QED
        BY SMT, <4>1 DEF State
    <3>3. QED
      BY <1>6, <3>1, <3>2
  <2>2. QED
    BY <1>1, <1>2, <1>3, <1>4, <1>6, <2>1 DEF FreshWait
<1>7. QED
  BY <1>5, <1>6, OutsideEvents

LEMMA FreshWaitStep ==
  ASSUME StreamInv, Line, FreshWait, [Next]_vars
  PROVE  FreshWait'
<1> USE DEF StreamInv, LookInv
<1>1. ASSUME UNCHANGED <<scn, turn, phase, op, cfg, target, queue, tun, began>>,
             at' = at \/ (at = "read" /\ at' = "await"),
             Range(stream') \subseteq Range(stream)
      PROVE  FreshWait'
  <2>1. Op' = Op
    BY <1>1, SamePlace
  <2>2. QED
    BY <1>1, <2>1 DEF FreshWait, InWait, Hears, Cmd
<1>2. CASE OneCall
  BY <1>2, OneCallFacts, OtherEnds, AtCall
<1>3. CASE CallTunnel
  <2>1. CASE Op.do = "begin"
    BY <2>1, <1>3, AtCall DEF CallTunnel, Continue
  <2>2. CASE Op.do # "begin"
    <3>1. at' = "listen" /\ UNCHANGED <<scn, turn, phase, op, tun>> /\ began' = tun.st
      BY <2>2, <1>3, WaitSteps DEF CallTunnel
    <3>2. Op' = Op
      BY <3>1, SamePlace
    <3>3. Op.do = "connect" => target'
      BY <1>3 DEF CallTunnel
    <3>4. QED
      BY <3>1, <3>2, <3>3 DEF FreshWait, InWait, Hears
  <2>3. QED
    BY <2>1, <2>2
<1>4. CASE EventsListen
  <2>1. CASE Op.do = "listen" /\ Continue
    BY <2>1, AtCall DEF Continue
  <2>2. CASE at = "listen" /\ at' = After("listen") /\ UNCHANGED <<op, phase, verdict>>
    <3>1. /\ at' = "read" /\ Running /\ Served
          /\ UNCHANGED <<scn, turn, phase, op, cfg, target, queue, tun, began, stream>>
      BY <2>2, <1>4, WaitSteps DEF EventsListen, daemon
    <3>2. Op' = Op /\ Op.do \in {"connect", "disconnect", "wait"}
      BY <2>2, <3>1, SamePlace DEF Place
    <3>3. stream' = <<>>
      BY <2>2, <3>1, <3>2, NoStream
    <3>4. scn.prompt => Cmd' = "block"
      BY <3>1 DEF Served, Cmd
    <3>5. QED
      BY <2>2, <3>1, <3>2, <3>3, <3>4, EmptyStream DEF FreshWait, InWait, Hears
  <2>3. QED
    BY <2>1, <2>2, <1>4 DEF EventsListen
<1>5. CASE ReadState
  <2>1. CASE tun.st \in Accept(Op)
    BY <2>1, <1>5, ConcludeFacts, AtCall DEF ReadState, Continue, Fail
  <2>2. CASE tun.st \notin Accept(Op)
    BY <2>2, <1>5, <1>1, WaitSteps DEF ReadState, daemon
  <2>3. QED
    BY <2>1, <2>2
<1>6. CASE NextEvent
  <2>1. CASE Head(stream).st \in Accept(Op)
    BY <2>1, <1>6, ConcludeFacts, AtCall DEF NextEvent, Continue, Fail
  <2>2. CASE Head(stream).st \notin Accept(Op)
    <3>1. stream # <<>> /\ stream' = Tail(stream)
      BY <2>2, <1>6 DEF NextEvent
    <3>2. Range(stream') \subseteq Range(stream)
      BY <3>1, TakeEvent DEF Shape
    <3>3. QED
      BY <2>2, <3>2, <1>6, <1>1 DEF NextEvent, daemon
  <2>3. QED
    BY <2>1, <2>2
<1>7. CASE EndScript
  BY <1>7, AtCall DEF EndScript
<1>8. CASE TimesOut \/ RequestFails
  BY <1>8, ConcludeFacts, AtCall DEF TimesOut, RequestFails, Continue, Fail
<1>9. CASE UNCHANGED vars
  BY <1>9, <1>1 DEF vars
<1>10. QED
  BY <1>2, <1>3, <1>4, <1>5, <1>6, <1>7, <1>8, <1>9, OutsideFresh, NextSplit

(* The outcome of the wait. *)
LEMMA FreshOutcome ==
  ASSUME StreamInv, Line, FreshWait, ConnectIsFresh, [Next]_vars
  PROVE  ConnectIsFresh'
<1> USE DEF StreamInv, LookInv
<1>1. ASSUME at' # "call" \/ ~(op' > 1)
      PROVE  ConnectIsFresh'
  BY <1>1 DEF ConnectIsFresh
<1>2. ASSUME UNCHANGED <<scn, turn, phase, op, at, cfg, last>>
      PROVE  ConnectIsFresh'
  BY <1>2, SamePlace DEF ConnectIsFresh
<1>3. ASSUME NEW st, NEW gen, NEW timeout, Conclude(st, gen, timeout), UNCHANGED <<scn, turn, cfg>>,
             st = "failed" \/ Op.do # "connect" \/ gen = cfg.gen
               \/ (~scn.prompt /\ began # "disconnected")
      PROVE  ConnectIsFresh'
  BY <1>3, ConcludeFacts, OtherEnds DEF ConnectIsFresh
<1>4. CASE OneCall
  BY <1>4, OneCallFacts, OtherEnds
<1>5. CASE CallTunnel
  <2>1. CASE Op.do = "begin"
    BY <2>1, <1>5, OtherEnds DEF CallTunnel
  <2>2. CASE Op.do # "begin"
    BY <2>2, <1>5, <1>1, WaitSteps DEF CallTunnel
  <2>3. QED
    BY <2>1, <2>2
<1>6. CASE EventsListen
  BY <1>6, <1>1, OtherEnds, WaitSteps DEF EventsListen
<1>7. CASE ReadState
  <2>1. CASE tun.st \in Accept(Op)
    <3>1. Conclude(tun.st, tun.gen, FALSE) /\ at = "read" /\ UNCHANGED <<scn, turn, cfg>>
      BY <2>1, <1>7 DEF ReadState
    <3>2. ASSUME Op.do = "connect", scn.prompt \/ began = "disconnected"
          PROVE  tun.gen = cfg.gen
      <4>1. tun.st \in {"connected", "error"}
        BY <2>1, <3>2, Accepted
      <4>2. Hears("connect") /\ InWait("connect")
        BY <3>1, <3>2 DEF Hears, InWait
      <4>3. QED
        BY <3>2, <4>1, <4>2 DEF FreshWait, Line, Up
    <3>3. QED
      BY <3>1, <3>2, <1>3
  <2>2. CASE tun.st \notin Accept(Op)
    BY <2>2, <1>7, <1>1, WaitSteps DEF ReadState
  <2>3. QED
    BY <2>1, <2>2
<1>8. CASE NextEvent
  <2> DEFINE e == Head(stream)
  <2>1. CASE e.st \in Accept(Op)
    <3>1. /\ Conclude(e.st, e.gen, FALSE) /\ (at = "await" \/ Op.do = "next")
          /\ stream # <<>> /\ UNCHANGED <<scn, turn, cfg>>
      BY <2>1, <1>8 DEF NextEvent, Waiting
    <3>2. ASSUME Op.do = "connect", scn.prompt \/ began = "disconnected"
          PROVE  e.gen = cfg.gen
      <4>1. e.st \in {"connected", "error"}
        BY <2>1, <3>2, Accepted
      <4>2. Hears("connect")
        BY <3>1, <3>2 DEF Hears
      <4>3. e \in Range(stream)
        BY <3>1, TakeEvent DEF Shape
      <4>4. QED
        BY <3>2, <4>1, <4>2, <4>3 DEF FreshWait
    <3>3. QED
      BY <3>1, <3>2, <1>3
  <2>2. CASE e.st \notin Accept(Op)
    BY <2>2, <1>8, <1>2 DEF NextEvent
  <2>3. QED
    BY <2>1, <2>2
<1>9. CASE EndScript
  BY SMT, <1>9, <1>1 DEF EndScript
<1>10. CASE TimesOut \/ RequestFails
  BY <1>10, <1>3 DEF TimesOut, RequestFails
<1>11. CASE Outside
  BY <1>11, <1>2, OutsideFacts
<1>12. CASE UNCHANGED vars
  BY <1>12, <1>2 DEF vars
<1>13. QED
  BY <1>4, <1>5, <1>6, <1>7, <1>8, <1>9, <1>10, <1>11, <1>12, NextSplit

----------------------------------------------------------------------------
(* disconnect_and_wait returns when the tunnel is down for good.            *)

(* With no command to connect, a tunnel that is down stays down. *)
LEMMA OutsideRests ==
  ASSUME Shape, Line, Outside, scn.prompt, Cmd = "block", tun.st = "disconnected"
  PROVE  Cmd' = "block" /\ tun'.st = "disconnected"
<1>1. Cmd' = "block"
  BY OutsideLine
<1>2. ASSUME NEW t, Changes(t)
      PROVE  FALSE
  BY <1>2 DEF Changes, Cmd
<1>3. QED
  BY <1>1, <1>2, OutsideEvents

(* What a disconnection that waits sees of a step outside the test. *)
LEMMA OutsideDown ==
  ASSUME Place, Shape, Line, DownWait, Outside
  PROVE  DownWait'
<1>1. UNCHANGED <<scn, turn, phase, op, at, target>> /\ Op' = Op
  BY OutsideFacts, SamePlace
<1>2. /\ \A d : InWait(d)' <=> InWait(d)
      /\ \A d : Hears(d)' <=> Hears(d)
  BY <1>1 DEF InWait, Hears
<1>3. (InWait("disconnect") => ~target)'
  BY <1>1, <1>2 DEF DownWait
<1>4. SUFFICES ASSUME Hears("disconnect"), scn.prompt
               PROVE  Cmd' = "block" /\ \A e \in Range(stream') : e.st = "disconnected"
                                                                => tun'.st = "disconnected"
  BY <1>1, <1>2, <1>3 DEF DownWait
<1>5. Cmd = "block" /\ \A e \in Range(stream) : e.st = "disconnected" => tun.st = "disconnected"
  BY <1>4 DEF DownWait
<1>6. CASE tun.st = "disconnected"
  BY <1>4, <1>5, <1>6, OutsideRests
<1>7. CASE tun.st # "disconnected"
  <2>1. Cmd' = "block"
    BY <1>4, <1>5, OutsideLine
  <2>2. CASE \E t : Published(t) /\ Publish(t) /\ Changes(t) /\ UNCHANGED listens
    <3>1. PICK t : Published(t) /\ Publish(t) /\ Changes(t) /\ UNCHANGED listens
      BY <2>2
    <3>2. tun' = t /\ Range(stream') \subseteq Range(stream) \cup {t}
      BY <3>1, PublishFacts DEF Publish
    <3>3. QED
      BY <1>5, <1>7, <2>1, <3>2
  <2>3. CASE UNCHANGED <<tun, stream>>
    BY <1>5, <2>1, <2>3
  <2>4. CASE UNCHANGED tun /\ stream' = Append(stream, State("device"))
    <3>1. Range(stream') = Range(stream) \cup {State("device")}
      BY <2>4, AppendEvent DEF Shape
    <3>2. State("device").st # "disconnected"
      BY DEF State
    <3>3. QED
      BY <1>5, <1>7, <2>1, <3>1, <3>2
  <2>5. QED
    BY <2>2, <2>3, <2>4, OutsideEvents
<1>8. QED
  BY <1>6, <1>7

LEMMA DownWaitStep ==
  ASSUME StreamInv, Line, DownWait, [Next]_vars
  PROVE  DownWait'
<1> USE DEF StreamInv, LookInv
<1>1. ASSUME UNCHANGED <<scn, turn, phase, op, target, queue, tun>>,
             at' = at \/ (at = "read" /\ at' = "await"),
             Range(stream') \subseteq Range(stream)
      PROVE  DownWait'
  <2>1. Op' = Op
    BY <1>1, SamePlace
  <2>2. QED
    BY <1>1, <2>1 DEF DownWait, InWait, Hears, Cmd
<1>2. CASE OneCall
  BY <1>2, OneCallFacts, OtherEnds, AtCall
<1>3. CASE CallTunnel
  <2>1. CASE Op.do = "begin"
    BY <2>1, <1>3, AtCall DEF CallTunnel, Continue
  <2>2. CASE Op.do # "begin"
    <3>1. at' = "listen" /\ UNCHANGED <<scn, turn, phase, op>>
      BY <2>2, <1>3, WaitSteps DEF CallTunnel
    <3>2. Op' = Op
      BY <3>1, SamePlace
    <3>3. Op.do = "disconnect" => ~target'
      BY <1>3 DEF CallTunnel
    <3>4. QED
      BY <3>1, <3>2, <3>3 DEF DownWait, InWait, Hears
  <2>3. QED
    BY <2>1, <2>2
<1>4. CASE EventsListen
  <2>1. CASE Op.do = "listen" /\ Continue
    BY <2>1, AtCall DEF Continue
  <2>2. CASE at = "listen" /\ at' = After("listen") /\ UNCHANGED <<op, phase, verdict>>
    <3>1. /\ at' = "read" /\ Running /\ Served
          /\ UNCHANGED <<scn, turn, phase, op, target, queue, tun, stream>>
      BY <2>2, <1>4, WaitSteps DEF EventsListen, daemon
    <3>2. Op' = Op /\ Op.do \in {"connect", "disconnect", "wait"}
      BY <2>2, <3>1, SamePlace DEF Place
    <3>3. stream' = <<>>
      BY <2>2, <3>1, <3>2, NoStream
    <3>4. scn.prompt => Cmd' = "block"
      BY <3>1 DEF Served, Cmd
    <3>5. QED
      BY <2>2, <3>1, <3>2, <3>3, <3>4, EmptyStream DEF DownWait, InWait, Hears
  <2>3. QED
    BY <2>1, <2>2, <1>4 DEF EventsListen
<1>5. CASE ReadState
  <2>1. CASE tun.st \in Accept(Op)
    BY <2>1, <1>5, ConcludeFacts, AtCall DEF ReadState, Continue, Fail
  <2>2. CASE tun.st \notin Accept(Op)
    BY <2>2, <1>5, <1>1, WaitSteps DEF ReadState, daemon
  <2>3. QED
    BY <2>1, <2>2
<1>6. CASE NextEvent
  <2>1. CASE Head(stream).st \in Accept(Op)
    BY <2>1, <1>6, ConcludeFacts, AtCall DEF NextEvent, Continue, Fail
  <2>2. CASE Head(stream).st \notin Accept(Op)
    <3>1. stream # <<>> /\ stream' = Tail(stream)
      BY <2>2, <1>6 DEF NextEvent
    <3>2. Range(stream') \subseteq Range(stream)
      BY <3>1, TakeEvent DEF Shape
    <3>3. QED
      BY <2>2, <3>2, <1>6, <1>1 DEF NextEvent, daemon
  <2>3. QED
    BY <2>1, <2>2
<1>7. CASE EndScript
  BY <1>7, AtCall DEF EndScript
<1>8. CASE TimesOut \/ RequestFails
  BY <1>8, ConcludeFacts, AtCall DEF TimesOut, RequestFails, Continue, Fail
<1>9. CASE UNCHANGED vars
  BY <1>9, <1>1 DEF vars
<1>10. QED
  BY <1>2, <1>3, <1>4, <1>5, <1>6, <1>7, <1>8, <1>9, OutsideDown, NextSplit

LEMMA DownOutcome ==
  ASSUME StreamInv, Line, DownWait, StaysDown, [Next]_vars
  PROVE  StaysDown'
<1> USE DEF StreamInv, LookInv
<1>1. ASSUME at' # "call" \/ ~(op' > 1)
      PROVE  StaysDown'
  BY <1>1 DEF StaysDown
<1>2. ASSUME UNCHANGED <<scn, turn, phase, op, at, target, queue, tun>>
      PROVE  StaysDown'
  BY <1>2, SamePlace DEF StaysDown, Cmd
<1>3. ASSUME NEW st, NEW gen, NEW timeout, Conclude(st, gen, timeout), UNCHANGED <<scn, turn, daemon>>,
             Op.do # "disconnect" \/ Fail
               \/ (scn.prompt => Cmd = "block" /\ tun.st = "disconnected")
      PROVE  StaysDown'
  <2>1. Continue \/ Fail
    BY <1>3, ConcludeFacts
  <2>2. CASE Op.do # "disconnect" \/ Fail
    BY <1>3, <2>1, <2>2, OtherEnds
  <2>3. CASE scn.prompt => Cmd = "block" /\ tun.st = "disconnected"
    BY <1>3, <2>3 DEF StaysDown, Cmd, daemon
  <2>4. QED
    BY <1>3, <2>2, <2>3
<1>4. CASE OneCall
  BY <1>4, OneCallFacts, OtherEnds
<1>5. CASE CallTunnel
  <2>1. CASE Op.do = "begin"
    BY <2>1, <1>5, OtherEnds DEF CallTunnel
  <2>2. CASE Op.do # "begin"
    BY <2>2, <1>5, <1>1, WaitSteps DEF CallTunnel
  <2>3. QED
    BY <2>1, <2>2
<1>6. CASE EventsListen
  BY <1>6, <1>1, OtherEnds, WaitSteps DEF EventsListen
<1>7. CASE ReadState
  <2>1. CASE tun.st \in Accept(Op)
    <3>1. Conclude(tun.st, tun.gen, FALSE) /\ at = "read" /\ UNCHANGED <<scn, turn, daemon>>
      BY <2>1, <1>7 DEF ReadState
    <3>2. ASSUME Op.do = "disconnect", scn.prompt
          PROVE  Cmd = "block" /\ tun.st = "disconnected"
      BY <2>1, <3>1, <3>2, Accepted DEF DownWait, Hears
    <3>3. QED
      BY <3>1, <3>2, <1>3
  <2>2. CASE tun.st \notin Accept(Op)
    BY <2>2, <1>7, <1>1, WaitSteps DEF ReadState
  <2>3. QED
    BY <2>1, <2>2
<1>8. CASE NextEvent
  <2> DEFINE e == Head(stream)
  <2>1. CASE e.st \in Accept(Op)
    <3>1. /\ Conclude(e.st, e.gen, FALSE) /\ (at = "await" \/ Op.do = "next")
          /\ stream # <<>> /\ UNCHANGED <<scn, turn, daemon>>
      BY <2>1, <1>8 DEF NextEvent, Waiting
    <3>2. ASSUME Op.do = "disconnect", scn.prompt
          PROVE  Cmd = "block" /\ tun.st = "disconnected"
      <4>1. e.st = "disconnected" /\ Hears("disconnect")
        BY <2>1, <3>1, <3>2, Accepted DEF Hears
      <4>2. e \in Range(stream)
        BY <3>1, TakeEvent DEF Shape
      <4>3. QED
        BY <3>2, <4>1, <4>2 DEF DownWait
    <3>3. QED
      BY <3>1, <3>2, <1>3
  <2>2. CASE e.st \notin Accept(Op)
    BY <2>2, <1>8, <1>2 DEF NextEvent, daemon
  <2>3. QED
    BY <2>1, <2>2
<1>9. CASE EndScript
  BY SMT, <1>9, <1>1 DEF EndScript
<1>10. CASE TimesOut \/ RequestFails
  <2>1. PICK timeout \in BOOLEAN : Conclude("failed", 0, timeout)
    BY <1>10 DEF TimesOut, RequestFails
  <2>2. Op.do = "disconnect" => Fail
    BY <2>1 DEF Conclude, Satisfies
  <2>3. UNCHANGED <<scn, turn, daemon>>
    BY <1>10 DEF TimesOut, RequestFails
  <2>4. QED
    BY <2>1, <2>2, <2>3, <1>3
<1>11. CASE Outside
  <2>1. UNCHANGED <<scn, turn, phase, op, at, target>>
    BY <1>11, OutsideFacts
  <2>2. Script' = Script /\ (Running' <=> Running)
    BY <2>1, SamePlace
  <2>3. QED
    BY <1>11, <2>1, <2>2, OutsideRests DEF StaysDown
<1>12. CASE UNCHANGED vars
  BY <1>12, <1>2 DEF vars
<1>13. QED
  BY <1>4, <1>5, <1>6, <1>7, <1>8, <1>9, <1>10, <1>11, <1>12, NextSplit

----------------------------------------------------------------------------
(* The theorems.                                                            *)

LEMMA InvInit == Init => IInv
<1>1. Init => at = "call" /\ op = 1 /\ listens = "no" /\ stream = <<>>
  BY DEF Init
<1>2. at = "call" => FreshWait /\ DownWait
  BY DEF FreshWait, DownWait, InWait, Hears
<1>3. op = 1 => ConnectIsFresh /\ StaysDown
  BY SMT DEF ConnectIsFresh, StaysDown
<1>4. listens = "no" /\ stream = <<>> => Subscribed
  BY DEF Subscribed
<1>5. QED
  BY <1>1, <1>2, <1>3, <1>4, PlaceInit, ShapeInit, NoticedInit, LineInit
     DEF IInv, StreamInv, LookInv, FreshInv, DownInv

LEMMA InvStep == IInv /\ [Next]_vars => IInv'
BY PlaceStep, ShapeStep, NoticedStep, SubscribedStep, LineStep, FreshWaitStep, FreshOutcome,
   DownWaitStep, DownOutcome
   DEF IInv, StreamInv, LookInv, FreshInv, DownInv

(* connect_and_wait waits on a stream opened after its request, and a daemon  *)
(* that wants a tunnel sets it up again after every change: the tunnel it     *)
(* reports has every setting made before the call, for every scenario.  The   *)
(* exception is a daemon that is slow to act on its commands, called while    *)
(* the tunnel is not down.                                                    *)
THEOREM ConnectionsAreFresh == Spec => []ConnectIsFresh
<1>1. IInv => ConnectIsFresh
  BY DEF IInv, FreshInv
<1>2. QED
  BY <1>1, InvInit, InvStep, PTL DEF Spec

(* disconnect_and_wait returns once the state machine has taken the command  *)
(* to disconnect, and what comes behind it can only block: with a prompt     *)
(* daemon the tunnel then stays down until a connection is asked for,        *)
(* whatever an earlier test has left behind.                                 *)
THEOREM DisconnectionsLast == Spec => []StaysDisconnected
<1>1. ASSUME Shape, BlocksBehind, Cmd = "block"
      PROVE  Range(queue) \subseteq {"block"}
  <2>1. ASSUME NEW i \in 1..Len(queue)
        PROVE  queue[i] = "block"
    <3>1. i \in 2..Len(queue) \/ (i = 1 /\ queue # <<>>)
      BY SMT DEF Shape
    <3>2. queue # <<>> => queue[1] = Cmd
      BY SMT DEF Shape, Cmd
    <3>3. QED
      BY <1>1, <3>1, <3>2 DEF BlocksBehind
  <2>2. DOMAIN queue = 1..Len(queue)
    BY SMT, <1>1 DEF Shape
  <2>3. QED
    BY <2>1, <2>2 DEF Range
<1>2. IInv => StaysDisconnected
  BY <1>1 DEF IInv, StreamInv, LookInv, DownInv, Line, StaysDown, StaysDisconnected
<1>3. QED
  BY <1>2, InvInit, InvStep, PTL DEF Spec
----------------------------------------------------------------------------
(* Why a test fails: the invariant.                                         *)

Name == scn.tests[turn]

\* Nothing has gone wrong in this test so far.
Clean == scn.prompt /\ phase = "test" /\ faults = mark.faults

\* The settings at an operation of a script, and the state in which a tunnel
\* that is asked for with them ends up.
KindOf(n, i) ==
  IF n = "wireguard" /\ i > 9 THEN "unreachable"
  ELSE IF n = "connecting" /\ i \in 3..7 THEN "unreachable"
  ELSE IF n = "error" /\ i \in 3..6 THEN "none"
  ELSE "good"
Outcome(k) == IF k = "good" THEN "connected" ELSE IF k = "none" THEN "error" ELSE "connecting"

\* No tunnel is wanted, and there is none; or disconnect_and_wait sees to it.
Rests == Cmd = "block" /\ ~wants /\ tun.st = "disconnected"
Sinks ==
  /\ InWait("disconnect")
  /\ \/ queue = <<"disconnect">>
     \/ queue = <<>> /\ ~wants /\ tun.st = "disconnecting"

\* A tunnel is wanted: it comes up with the settings there are, as far as these
\* let it.
Comes ==
  \/ queue = <<"connect">> /\ tun.st \in {"disconnected", "error"}
  \/ /\ queue = <<"reconnect">> \/ (queue = <<>> /\ tun.st = "disconnecting")
     /\ wants /\ cfg.kind = "good" /\ tun.kind = "good"
     /\ tun.st \in {"connecting", "connected", "disconnecting"}
  \/ /\ queue = <<>> /\ wants
     /\ tun.st \in {"connecting", Outcome(cfg.kind)}
     /\ tun.gen = cfg.gen /\ tun.kind = cfg.kind
\* It has come as far.
Stands == target /\ queue = <<>> /\ tun.st = Outcome(cfg.kind) /\ tun.gen = cfg.gen

\* The tests whose tunnel is followed.
Steers == TunnelTest(Name) \/ (Name = "revoked_device" /\ op <= 5)

\* An operation after which the tunnel stands.
Firm(o, i) == o.do \in {"connect", "wait", "check"} \/ (o.do = "assert" /\ i > 1)

\* What the operation before this one has left.
Left ==
  at = "call" /\ op > 1 =>
    LET o == Script[op - 1] IN
    /\ Firm(o, op - 1) => Stands
    /\ o.do = "disconnect" \/ (o.do = "assert" /\ op = 2) => ~target
    /\ o.do \in {"begin", "reboot"} => target
    /\ o.do = "auto" /\ o.arg => cfg.auto

\* What a wait for a tunnel has heard.
Hearing ==
  /\ InWait("wait") => target
  /\ at \in {"read", "await"} => listens = "yes"
  /\ Hears("connect") \/ Hears("wait") =>
       /\ queue = <<>>
       /\ \A e \in Range(stream) : e.st \in {"connected", "error"} => e.st = tun.st

\* No fault has kept the tunnel from what the test expects of it.
Tracks ==
  /\ cfg.kind = KindOf(Name, op)
  /\ ~target => Rests \/ Sinks
  /\ target => Comes
  /\ op = 1 /\ at = "call" => ~target
  /\ Left /\ Hearing
Steered == Clean /\ Steers => Tracks

\* A state that is waited for does not come unnoticed.
Seen == at = "await" /\ tun.st \in Accept(Op) => hit

\* The tests of the account.
Revoking ==
  Clean /\ Name = "revoked_device" =>
    /\ op \in {2, 3} => account.mine = "ok"
    /\ op \in {3, 4, 5} => at = "call" /\ Stands
    /\ op \in {4, 5} => account.mine = "removed"
    /\ op \in {5, 6} => listens = "yes"
    /\ op = 6 => \/ queue = <<"block">> /\ tun.st = "connected"
                 \/ \E e \in Range(stream) : e.st = "error"
Rotating ==
  Clean /\ Name = "key_rotation" =>
    /\ op = 2 => account.key = "old"
    /\ op = 3 => listens = "yes" /\ (account.key = "old" \/ \E e \in Range(stream) : e.st = "device")
Counted ==
  Clean => /\ Name = "too_many_devices" /\ op = 2 => account.devices = MaxDevices
           /\ Name = "login" /\ op = 2 => account.devices = 0

\* The devices and the faults.
Books ==
  /\ faults \in Nat /\ mark.faults \in Nat /\ mark.faults <= faults
  /\ mark = [faults |-> mark.faults, devices |-> mark.devices]
  /\ account = [devices |-> account.devices, mine |-> account.mine, key |-> account.key]
  /\ account.devices \in Int /\ account.devices <= MaxDevices
  /\ phase = "test" /\ op = 1 => mark.devices = account.devices
  /\ phase = "test" /\ turn = 1 => mark.devices = scn.devices
  /\ verdict = <<verdict[1], verdict[2]>>

\* Without a test of the account, the device stays.
OwnDevice ==
  /\ scn.device = "ok" /\ scn.tests[1] \notin AccountTests
  /\ turn = 1 \/ scn.tests[2] \notin AccountTests
  => account.mine = "ok"

\* cleanup_after_test leaves no tunnel and the default settings.
CleanedUp ==
  scn.prompt /\ phase = "cleanup" /\ at = "call" /\ op > 1 =>
    ~target /\ Cmd = "block" /\ tun.st = "disconnected" /\ (op > 2 => cfg.kind = "good")

ReasonInv ==
  /\ Books /\ OwnDevice /\ Seen /\ CleanedUp /\ Steered /\ Revoking /\ Rotating /\ Counted
  /\ FailsForAReason

----------------------------------------------------------------------------
(* The scripts of the tunnel tests.                                         *)

\* An operation finds what it needs: the settings are those its outcome
\* depends on, and are changed where no tunnel is wanted unless they stay
\* good; what is asserted or checked stands since the operation before.
FitsAt(n, s, i) ==
  LET k == KindOf(n, i) IN
  /\ \/ s[i].do \in {"set", "auto", "connect", "disconnect", "begin", "wait", "assert", "check", "reboot"}
     \/ s[i].do \in {"login", "revoke", "listen"} /\ n = "revoked_device"
     \/ s[i].do = "update" /\ n = "revoked_device"
     \/ i > 5 /\ n = "revoked_device"
  /\ KindOf(n, i + 1) = IF s[i].do = "set" THEN s[i].arg ELSE k
  /\ s[i].do = "set" => \/ k = "good" /\ s[i].arg = "good"
                        \/ i > 1 /\ s[i - 1].do = "disconnect"
                        \/ i = 2 /\ s[i - 1].do = "assert"
  /\ s[i].do = "connect" => \/ s[i].arg = "ok" /\ k = "good"
                            \/ s[i].arg = "err" /\ k = "unreachable"
                            \/ s[i].arg = "any" /\ k = "none"
  /\ s[i].do = "wait" => /\ k # "none"
                         /\ Outcome(k) \in s[i].arg /\ s[i].arg \subseteq {Outcome(k), "error"}
                         /\ i > 1 /\ s[i - 1].do \in {"begin", "reboot"}
  /\ s[i].do = "assert" => \/ i = 1 /\ "disconnected" \in s[i].arg
                           \/ i > 1 /\ Outcome(k) \in s[i].arg /\ Firm(s[i - 1], i - 1)
  /\ s[i].do = "check" => k = "good" /\ i > 1 /\ Firm(s[i - 1], i - 1)
  /\ s[i].do = "reboot" => i > 1 /\ s[i - 1].do = "auto" /\ s[i - 1].arg = TRUE
Fits(n, s) == \A i \in 1..Len(s) : FitsAt(n, s, i)

\* The operations of a test that keeps to settings with which a tunnel comes up.
Suits(s, i) ==
  \/ s[i] = Set("good") \/ s[i] = Connect("ok") \/ s[i] = Disconnect \/ s[i] = AutoConnect
  \/ s[i] = Check /\ i > 1 /\ (s[i - 1] = Connect("ok") \/ s[i - 1] = Expect({"connected"}))
  \/ s[i] = Expect({"connected"}) /\ i > 1 /\ s[i - 1] = Connect("ok")
  \/ s[i] = Expect({"disconnected"}) /\ i = 1
  \/ s[i] = Reboot /\ i > 1 /\ s[i - 1] = AutoConnect
  \/ s[i] = WaitFor({"connected"}) /\ i > 1 /\ s[i - 1] = Reboot

(* Such operations fit. *)
LEMMA GoodFits ==
  ASSUME NEW n, n \notin {"wireguard", "connecting", "error"},
         NEW s, Len(s) \in Nat, \A i \in 1..Len(s) : Suits(s, i)
  PROVE  Fits(n, s)
<1>1. SUFFICES ASSUME NEW i \in 1..Len(s)
               PROVE  FitsAt(n, s, i)
  BY DEF Fits
<1>2. KindOf(n, i) = "good" /\ KindOf(n, i + 1) = "good" /\ Outcome("good") = "connected" /\ i \in Nat
  BY SMT DEF KindOf, Outcome
<1>3. CASE s[i] = Set("good") \/ s[i] = AutoConnect
  BY SMT, <1>2, <1>3 DEF FitsAt, Set, AutoConnect
<1>4. CASE s[i] = Connect("ok") \/ s[i] = Disconnect
  BY SMT, <1>2, <1>4 DEF FitsAt, Connect, Disconnect
<1>5. CASE s[i] = Check /\ i > 1 /\ (s[i - 1] = Connect("ok") \/ s[i - 1] = Expect({"connected"}))
  <2>1. Firm(s[i - 1], i - 1)
    <3>1. CASE s[i - 1] = Connect("ok")
      BY SMT, <3>1 DEF Firm, Connect
    <3>2. CASE s[i - 1] = Expect({"connected"})
      <4>1. i # 2
        BY SMT, <1>1, <1>2, <3>2
        DEF Suits, Set, Connect, Check, Disconnect, AutoConnect, Expect, Reboot, WaitFor
      <4>2. QED
        BY SMT, <1>2, <1>5, <3>2, <4>1 DEF Firm, Expect
    <3>3. QED
      BY <1>5, <3>1, <3>2
  <2>2. QED
    BY SMT, <1>2, <1>5, <2>1 DEF FitsAt, Check
<1>6. CASE s[i] = Expect({"connected"}) /\ i > 1 /\ s[i - 1] = Connect("ok")
  BY SMT, <1>2, <1>6 DEF FitsAt, Expect, Connect, Firm
<1>7. CASE s[i] = Expect({"disconnected"}) /\ i = 1
  BY SMT, <1>2, <1>7 DEF FitsAt, Expect
<1>8. CASE s[i] = Reboot /\ i > 1 /\ s[i - 1] = AutoConnect
  BY SMT, <1>2, <1>8 DEF FitsAt, Reboot, AutoConnect
<1>9. CASE s[i] = WaitFor({"connected"}) /\ i > 1 /\ s[i - 1] = Reboot
  BY SMT, <1>2, <1>9 DEF FitsAt, Reboot, WaitFor
<1>10. QED
  BY <1>1, <1>3, <1>4, <1>5, <1>6, <1>7, <1>8, <1>9 DEF Suits

(* The tests that connect once with the default settings, or twice. *)
LEMMA PlainFits ==
  /\ Fits("udp2tcp", Udp2tcp) /\ Fits("bridge", Bridge) /\ Fits("multihop", Multihop)
  /\ Fits("autoconnect", Autoconnect) /\ Fits("quantum", QuantumResistant)
  /\ Fits("quantum_multihop", MultihopUdp2tcp) /\ Fits("connected", ConnectedState)
  /\ Fits("disconnected", DisconnectedState)
<1>1. Fits("udp2tcp", Udp2tcp)
  <2>1. Len(Udp2tcp) \in Nat /\ \A i \in 1..Len(Udp2tcp) : Suits(Udp2tcp, i)
    BY SMT DEF Udp2tcp, Suits
  <2>2. QED
    BY <2>1, GoodFits
<1>2. Fits("bridge", Bridge)
  <2>1. Len(Bridge) \in Nat /\ \A i \in 1..Len(Bridge) : Suits(Bridge, i)
    BY SMT DEF Bridge, Suits
  <2>2. QED
    BY <2>1, GoodFits
<1>3. Fits("multihop", Multihop)
  <2>1. Len(Multihop) \in Nat /\ \A i \in 1..Len(Multihop) : Suits(Multihop, i)
    BY SMT DEF Multihop, Suits
  <2>2. QED
    BY <2>1, GoodFits
<1>4. Fits("autoconnect", Autoconnect)
  <2>1. Len(Autoconnect) \in Nat /\ \A i \in 1..Len(Autoconnect) : Suits(Autoconnect, i)
    BY SMT DEF Autoconnect, Suits
  <2>2. QED
    BY <2>1, GoodFits
<1>5. Fits("quantum", QuantumResistant)
  <2>1. Len(QuantumResistant) \in Nat /\ \A i \in 1..Len(QuantumResistant) : Suits(QuantumResistant, i)
    BY SMT DEF QuantumResistant, Suits
  <2>2. QED
    BY <2>1, GoodFits
<1>6. Fits("quantum_multihop", MultihopUdp2tcp)
  <2>1. Len(MultihopUdp2tcp) \in Nat /\ \A i \in 1..Len(MultihopUdp2tcp) : Suits(MultihopUdp2tcp, i)
    BY SMT DEF MultihopUdp2tcp, Suits
  <2>2. QED
    BY <2>1, GoodFits
<1>7. Fits("connected", ConnectedState)
  <2>1. Len(ConnectedState) \in Nat /\ \A i \in 1..Len(ConnectedState) : Suits(ConnectedState, i)
    BY SMT DEF ConnectedState, Suits
  <2>2. QED
    BY <2>1, GoodFits
<1>8. Fits("disconnected", DisconnectedState)
  <2>1. Len(DisconnectedState) \in Nat /\ \A i \in 1..Len(DisconnectedState) : Suits(DisconnectedState, i)
    BY SMT DEF DisconnectedState, Suits
  <2>2. QED
    BY <2>1, GoodFits
<1>9. QED
  BY <1>1, <1>2, <1>3, <1>4, <1>5, <1>6, <1>7, <1>8

(* The tests that ask for a tunnel that cannot come up. *)
LEMMA StateFits == Fits("connecting", ConnectingState) /\ Fits("error", ErrorState)
<1>1. /\ Len(ConnectingState) = 7 /\ ConnectingState[1] = Expect({"disconnected"})
      /\ ConnectingState[2] = Set("unreachable") /\ ConnectingState[3] = Begin
      /\ ConnectingState[4] = WaitFor({"connecting", "error"})
      /\ ConnectingState[5] = Expect({"connecting"}) /\ ConnectingState[6] = Disconnect
      /\ ConnectingState[7] = Set("good")
  BY DEF ConnectingState
<1>2. /\ Len(ErrorState) = 6 /\ ErrorState[1] = Expect({"disconnected"})
      /\ ErrorState[2] = Set("none") /\ ErrorState[3] = Connect("any")
      /\ ErrorState[4] = Expect({"error"}) /\ ErrorState[5] = Disconnect
      /\ ErrorState[6] = Set("good")
  BY DEF ErrorState
<1>3. Fits("connecting", ConnectingState)
  BY SMT, <1>1 DEF Fits, FitsAt, KindOf, Outcome, Firm, Set, Begin, Disconnect, Expect, WaitFor
<1>4. Fits("error", ErrorState)
  BY SMT, <1>2 DEF Fits, FitsAt, KindOf, Outcome, Firm, Set, Connect, Disconnect, Expect
<1>5. QED
  BY <1>3, <1>4

LEMMA TwoParts ==
  ASSUME NEW s \in Seq(PlainOps), NEW t \in Seq(PlainOps)
  PROVE  /\ s \o t \in Seq(PlainOps) /\ Len(s \o t) = Len(s) + Len(t)
         /\ Len(s) \in Nat /\ Len(t) \in Nat
         /\ \A i \in 1..Len(s) : (s \o t)[i] = s[i]
         /\ \A i \in 1..Len(t) : (s \o t)[Len(s) + i] = t[i]
<1>1. Len(s) \in Nat /\ Len(t) \in Nat /\ Len(s \o t) = Len(s) + Len(t)
  BY SMT
<1>2. s \o t \in Seq(PlainOps)
  BY SMT
<1>3. \A i \in 1..Len(s) : (s \o t)[i] = s[i]
  BY SMT
<1>4. \A i \in 1..Len(t) : (s \o t)[Len(s) + i] = t[i]
  BY SMT, <1>1
<1>5. QED
  BY <1>1, <1>2, <1>3, <1>4

(* The tests that repeat a round of operations. *)
LEMMA RoundsFit == Fits("openvpn", Openvpn) /\ Fits("wireguard", Wireguard)
<1> DEFINE r == <<Set("good"), Connect("ok"), Check, Disconnect>>
           t == <<Set("unreachable"), Connect("err"), Disconnect>>
           IsRound(s, k) == /\ s[k + 1] = Set("good") /\ s[k + 2] = Connect("ok")
                            /\ s[k + 3] = Check /\ s[k + 4] = Disconnect
<1>1. Len(r) = 4 /\ IsRound(r, 0) /\ r \in Seq(PlainOps)
  BY SMT DEF PlainOps
<1>2. Len(t) = 3 /\ t[1] = Set("unreachable") /\ t[2] = Connect("err") /\ t[3] = Disconnect
      /\ t \in Seq(PlainOps)
  BY SMT DEF PlainOps
<1> HIDE DEF r, t
<1>3. Len(r \o r) = 8 /\ IsRound(r \o r, 0) /\ IsRound(r \o r, 4) /\ r \o r \in Seq(PlainOps)
  <2>1. /\ r \o r \in Seq(PlainOps) /\ Len(r \o r) = Len(r) + Len(r)
        /\ \A i \in 1..Len(r) : (r \o r)[i] = r[i]
        /\ \A i \in 1..Len(r) : (r \o r)[Len(r) + i] = r[i]
    BY <1>1, TwoParts
  <2>2. /\ r \o r \in Seq(PlainOps) /\ Len(r \o r) = 8
        /\ \A i \in 1..4 : (r \o r)[i] = r[i]
        /\ \A i \in 1..4 : (r \o r)[4 + i] = r[i]
    BY SMT, <1>1, <2>1
  <2>3. QED
    BY SMT, <1>1, <2>2
<1>4. /\ Len(Openvpn) = 12
      /\ IsRound(Openvpn, 0) /\ IsRound(Openvpn, 4) /\ IsRound(Openvpn, 8)
  BY SMT, <1>1, <1>3 DEF Openvpn, r
<1>5. /\ Len(Wireguard) = 11 /\ IsRound(Wireguard, 0) /\ IsRound(Wireguard, 4)
      /\ Wireguard[9] = Set("unreachable") /\ Wireguard[10] = Connect("err")
      /\ Wireguard[11] = Disconnect
  BY SMT, <1>2, <1>3 DEF Wireguard, r, t
<1>6. Fits("openvpn", Openvpn)
  <2>1. \A i \in 1..12 : Suits(Openvpn, i)
    BY SMT, <1>4 DEF Suits
  <2>2. Len(Openvpn) \in Nat /\ \A i \in 1..Len(Openvpn) : Suits(Openvpn, i)
    BY SMT, <1>4, <2>1
  <2>3. QED
    BY <2>2, GoodFits
<1>7. Fits("wireguard", Wireguard)
  BY SMT, <1>5 DEF Fits, FitsAt, KindOf, Firm, Set, Connect, Check, Disconnect
<1>8. QED
  BY <1>6, <1>7

(* test_revoked_device. *)
LEMMA RevokedFits ==
  /\ Len(RevokedDevice) = 6
  /\ RevokedDevice[1].do = "login" /\ RevokedDevice[1].arg = "ok"
  /\ RevokedDevice[2].do = "connect" /\ RevokedDevice[3].do = "revoke"
  /\ RevokedDevice[4].do = "listen" /\ RevokedDevice[5].do = "update"
  /\ RevokedDevice[6].do = "next" /\ RevokedDevice[6].arg = {"error"}
  /\ Fits("revoked_device", RevokedDevice)
<1>1. /\ Len(RevokedDevice) = 6
      /\ RevokedDevice[1].do = "login" /\ RevokedDevice[1].arg = "ok"
      /\ RevokedDevice[2].do = "connect" /\ RevokedDevice[3].do = "revoke"
      /\ RevokedDevice[4].do = "listen" /\ RevokedDevice[5].do = "update"
      /\ RevokedDevice[6].do = "next" /\ RevokedDevice[6].arg = {"error"}
  BY DEF RevokedDevice, Login, Connect, Account, Listen, NextState
<1>2. RevokedDevice[2].arg = "ok"
  BY DEF RevokedDevice, Connect
<1>3. Fits("revoked_device", RevokedDevice)
  BY SMT, <1>1, <1>2 DEF Fits, FitsAt, KindOf
<1>4. QED
  BY <1>1, <1>3

LEMMA ScriptOf ==
  /\ Scripts["openvpn"] = Openvpn /\ Scripts["wireguard"] = Wireguard
  /\ Scripts["autoconnect"] = Autoconnect /\ Scripts["quantum"] = QuantumResistant
  /\ Scripts["quantum_multihop"] = MultihopUdp2tcp /\ Scripts["udp2tcp"] = Udp2tcp
  /\ Scripts["bridge"] = Bridge /\ Scripts["multihop"] = Multihop
  /\ Scripts["disconnected"] = DisconnectedState /\ Scripts["connecting"] = ConnectingState
  /\ Scripts["error"] = ErrorState /\ Scripts["connected"] = ConnectedState
  /\ Scripts["revoked_device"] = RevokedDevice
BY SMT DEF Scripts

(* Every test of the tunnel, and the part of test_revoked_device that is one. *)
LEMMA TunnelFits ==
  ASSUME NEW n, TunnelTest(n) \/ n = "revoked_device"
  PROVE  n \in DOMAIN Scripts /\ Fits(n, Scripts[n])
<1>1. n \in DOMAIN Scripts
  BY DEF TunnelTest, Scripts
<1>2. \/ n \in {"udp2tcp", "bridge", "multihop", "autoconnect", "quantum", "quantum_multihop"}
      \/ n \in {"connected", "disconnected", "connecting", "error"}
      \/ n \in {"openvpn", "wireguard", "revoked_device"}
  BY DEF TunnelTest, AccountTests, Scripts
<1>3. CASE n \in {"udp2tcp", "bridge", "multihop", "autoconnect", "quantum", "quantum_multihop"}
  BY <1>1, <1>3, PlainFits, ScriptOf
<1>4. CASE n \in {"connected", "disconnected", "connecting", "error"}
  BY <1>1, <1>4, PlainFits, StateFits, ScriptOf
<1>5. CASE n \in {"openvpn", "wireguard", "revoked_device"}
  BY <1>1, <1>5, RoundsFit, RevokedFits, ScriptOf
<1>6. QED
  BY <1>2, <1>3, <1>4, <1>5

(* The other tests of the account, the rotation of the key and the cleanup. *)
LEMMA OtherScripts ==
  /\ Len(TooManyDevices) = 3 /\ TooManyDevices[1].do = "fill"
  /\ TooManyDevices[2].do = "login" /\ TooManyDevices[2].arg = "full" /\ TooManyDevices[3].do = "clear"
  /\ Len(LoginTest) = 2 /\ LoginTest[1].do = "clear"
  /\ LoginTest[2].do = "login" /\ LoginTest[2].arg = "ok"
  /\ Len(Logout) = 1 /\ Logout[1].do = "logout"
  /\ Len(KeyRotation) = 3 /\ KeyRotation[1].do = "age" /\ KeyRotation[2].do = "listen"
  /\ KeyRotation[3].do = "next" /\ KeyRotation[3].arg = {"device"}
  /\ Len(Cleanup) = 3 /\ Cleanup[1].do = "disconnect"
  /\ Cleanup[2].do = "set" /\ Cleanup[2].arg = "good" /\ Cleanup[3].do = "auto"
BY DEF TooManyDevices, LoginTest, Logout, KeyRotation, Cleanup, Account, Login, AgeKey, Listen,
       NextKey, Disconnect, Set

(* The places in a script are told apart. *)
LEMMA Numerals ==
  /\ 1 \notin {2, 3, 4, 5, 6} /\ 2 \notin {3, 4, 5, 6} /\ 3 \notin {4, 5, 6} /\ 4 \notin {5, 6} /\ 5 # 6
  /\ 1 + 1 = 2 /\ 2 + 1 = 3 /\ 3 + 1 = 4 /\ 4 + 1 = 5 /\ 5 + 1 = 6 /\ 2 - 1 = 1 /\ ~(1 > 1)
BY SMT

(* The operation that a test of the tunnel is at. *)
LEMMA FitsHere ==
  ASSUME Place, phase = "test", Running, TunnelTest(Name) \/ Name = "revoked_device"
  PROVE  FitsAt(Name, Script, op) /\ op \in 1..Len(Script) /\ Script = Scripts[Name]
<1>1. Script = Scripts[Name]
  BY DEF Script, Name
<1>2. Fits(Name, Script)
  BY <1>1, TunnelFits
<1>3. op \in 1..Len(Script)
  BY SMT DEF Place, Running
<1>4. QED
  BY <1>1, <1>2, <1>3 DEF Fits

----------------------------------------------------------------------------
(* Faults, devices and verdicts.                                            *)

(* What a step does to the place of the tests. *)
LEMMA TestStep ==
  ASSUME Place, [Next]_vars, ~EndScript
  PROVE  UNCHANGED <<scn, turn, mark>> /\ (UNCHANGED <<phase, verdict>> \/ Fail)
<1>1. ASSUME Continue \/ Fail
      PROVE  UNCHANGED <<phase, verdict>> \/ Fail
  BY <1>1 DEF Continue
<1>2. CASE OneCall
  <2>1. Continue \/ Fail
    BY <1>2, OneCallFacts
  <2>2. UNCHANGED <<scn, turn, mark>>
    BY <1>2
       DEF OneCall, SetSettings, SetAutoConnect, AssertState, CheckTunnel, RestartDaemon,
                LoginAccount, FillDevices, ClearDevices, RevokeDevice, UpdateDevice, LogoutAccount
  <2>3. QED
    BY <2>1, <2>2, <1>1
<1>3. CASE CallTunnel
  BY <1>3, <1>1 DEF CallTunnel
<1>4. CASE EventsListen
  BY <1>4, <1>1 DEF EventsListen
<1>5. CASE ReadState \/ NextEvent
  BY <1>5, <1>1 DEF ReadState, NextEvent, Conclude
<1>6. CASE TimesOut \/ RequestFails
  BY <1>6, <1>1 DEF TimesOut, RequestFails, Conclude
<1>7. CASE Outside
  BY <1>7 DEF Outside, TakeCommand, TunnelStep, TunnelFails, RotateKey, NoticesRevocation,
              StreamLost, script
<1>8. CASE UNCHANGED vars
  BY <1>8 DEF vars
<1>9. QED
  BY <1>2, <1>3, <1>4, <1>5, <1>6, <1>7, <1>8, NextSplit

(* The test goes on to the next operation, fails or stays at the one it is at. *)
LEMMA OpStep ==
  ASSUME Place, [Next]_vars, ~EndScript
  PROVE  Continue \/ Fail \/ UNCHANGED <<op, phase, verdict>>
<1>1. CASE CallTunnel \/ EventsListen
  BY <1>1 DEF CallTunnel, EventsListen
<1>2. CASE ReadState \/ NextEvent \/ TimesOut \/ RequestFails
  BY <1>2 DEF ReadState, NextEvent, TimesOut, RequestFails, Conclude
<1>3. CASE Outside
  BY <1>3 DEF Outside, TakeCommand, TunnelStep, TunnelFails, RotateKey, NoticesRevocation,
              StreamLost, script
<1>4. CASE UNCHANGED vars
  BY <1>4 DEF vars
<1>5. QED
  BY <1>1, <1>2, <1>3, <1>4, OneCallFacts, NextSplit

LEMMA FaultStep ==
  ASSUME [Next]_vars
  PROVE  faults' = faults \/ Fault
<1>1. CASE OneCall
  BY <1>1 DEF OneCall, SetSettings, SetAutoConnect, AssertState, CheckTunnel, RestartDaemon,
              LoginAccount, FillDevices, ClearDevices, RevokeDevice, UpdateDevice, LogoutAccount
<1>2. CASE CallTunnel \/ EventsListen \/ ReadState \/ NextEvent \/ EndScript
  BY <1>2 DEF CallTunnel, EventsListen, ReadState, NextEvent, EndScript
<1>3. CASE TimesOut \/ RequestFails
  BY <1>3 DEF TimesOut, RequestFails
<1>4. CASE Outside
  BY <1>4 DEF Outside, TakeCommand, TunnelStep, TunnelFails, RotateKey, NoticesRevocation,
              StreamLost
<1>5. CASE UNCHANGED vars
  BY <1>5 DEF vars
<1>6. QED
  BY <1>1, <1>2, <1>3, <1>4, <1>5, NextSplit

(* A test in which nothing has gone wrong was so a step before, or begins. *)
LEMMA CleanBefore ==
  ASSUME Place, Books, [Next]_vars, Clean'
  PROVE  \/ Clean /\ ~EndScript /\ ~Fault /\ UNCHANGED <<scn, turn, phase, mark, faults>>
         \/ /\ EndScript /\ phase = "cleanup" /\ scn.prompt
            /\ turn = 1 /\ turn' = 2 /\ op' = 1 /\ at' = "call"
<1>1. CASE EndScript
  BY <1>1 DEF EndScript, Clean, Place
<1>2. CASE ~EndScript
  <2>1. UNCHANGED <<scn, turn, mark>> /\ (UNCHANGED <<phase, verdict>> \/ Fail)
    BY <1>2, TestStep
  <2>2. UNCHANGED phase
    BY <2>1 DEF Fail, Clean, Place
  <2>3. faults' = faults /\ ~Fault
    BY SMT, <2>1, FaultStep DEF Books, Clean, Fault
  <2>4. QED
    BY <1>2, <2>1, <2>2, <2>3 DEF Clean
<1>3. QED
  BY <1>1, <1>2

(* The account, whoever changes it. *)
LEMMA AccountStep ==
  ASSUME [Next]_vars
  PROVE  \/ UNCHANGED account
         \/ RestartDaemon \/ LoginAccount \/ FillDevices \/ ClearDevices \/ RevokeDevice
         \/ UpdateDevice \/ LogoutAccount \/ RotateKey \/ NoticesRevocation
<1>1. CASE OneCall
  BY <1>1 DEF OneCall, SetSettings, SetAutoConnect, AssertState, CheckTunnel
<1>2. CASE CallTunnel \/ EventsListen \/ ReadState \/ NextEvent \/ EndScript
  BY <1>2 DEF CallTunnel, EventsListen, ReadState, NextEvent, EndScript
<1>3. CASE TimesOut \/ RequestFails
  BY <1>3 DEF TimesOut, RequestFails
<1>4. CASE Outside
  BY <1>4 DEF Outside, TakeCommand, TunnelStep, TunnelFails, StreamLost
<1>5. CASE UNCHANGED vars
  BY <1>5 DEF vars
<1>6. QED
  BY <1>1, <1>2, <1>3, <1>4, <1>5, NextSplit

LEMMA DevicesStep ==
  ASSUME Books, [Next]_vars
  PROVE  /\ account' = [devices |-> account'.devices, mine |-> account'.mine, key |-> account'.key]
         /\ account'.devices \in Int /\ account'.devices <= MaxDevices
         /\ account'.devices = account.devices \/ Continue \/ Fail
<1> DEFINE a(d, m, k) == [devices |-> d, mine |-> m, key |-> k]
<1>1. account = a(account.devices, account.mine, account.key) /\ MaxDevices \in Nat \ {0}
      /\ account.devices \in Int /\ account.devices <= MaxDevices
  BY DevicesAssumption DEF Books
<1>2. CASE UNCHANGED account
  BY <1>1, <1>2
<1>3. CASE RestartDaemon \/ RotateKey
  <2>1. account' = account \/ \E k : account' = a(account.devices, account.mine, k)
    BY <1>1, <1>3 DEF RestartDaemon, RotateKey
  <2>2. QED
    BY SMT, <1>1, <2>1
<1>4. CASE UpdateDevice \/ NoticesRevocation
  <2>1. \E m : account' = a(account.devices, m, account.key)
    BY <1>1, <1>4 DEF UpdateDevice, NoticesRevocation
  <2>2. QED
    BY SMT, <1>1, <2>1
<1>5. CASE LoginAccount
  <2>1. Continue \/ Fail
    BY <1>5 DEF LoginAccount
  <2>2. \/ account' = account
        \/ /\ account.devices < MaxDevices
           /\ account' = a(account.devices + 1, "ok", account.key)
    BY <1>1, <1>5 DEF LoginAccount
  <2>3. QED
    BY SMT, <1>1, <2>1, <2>2
<1>6. CASE FillDevices
  <2>1. \/ account' = a(MaxDevices, account.mine, account.key)
        \/ \E n \in account.devices..MaxDevices - 1 : account' = a(n, account.mine, account.key)
    BY <1>1, <1>6 DEF FillDevices
  <2>2. QED
    BY SMT, <1>1, <1>6, <2>1 DEF FillDevices
<1>7. CASE ClearDevices
  <2>1. \E m : account' = a(0, m, account.key) \/ \E n \in 1..account.devices : account' = a(n, m, account.key)
    BY <1>1, <1>7 DEF ClearDevices
  <2>2. PICK m : account' = a(0, m, account.key) \/ \E n \in 1..account.devices : account' = a(n, m, account.key)
    BY <2>1
  <2>3. Continue
    BY <1>7 DEF ClearDevices
  <2>4. QED
    BY SMT, <1>1, <2>2, <2>3
<1>8. CASE RevokeDevice \/ LogoutAccount
  <2>1. \E m : \E d \in {account.devices, account.devices - 1} : account' = a(d, m, account.key)
    BY <1>1, <1>8 DEF RevokeDevice, LogoutAccount
  <2>2. QED
    BY SMT, <1>1, <1>8, <2>1 DEF RevokeDevice, LogoutAccount
<1>9. QED
  BY <1>2, <1>3, <1>4, <1>5, <1>6, <1>7, <1>8, AccountStep

LEMMA BooksInit == Init => Books
<1>1. SUFFICES ASSUME Init PROVE Books
  OBVIOUS
<1>2. scn.devices \in 0..MaxDevices /\ MaxDevices \in Nat
  BY <1>1, DevicesAssumption DEF Init
<1>3. verdict = <<verdict[1], verdict[2]>>
  BY <1>1 DEF Init
<1>4. QED
  BY SMT, <1>1, <1>2, <1>3 DEF Init, Books

LEMMA BooksStep ==
  ASSUME Place, Books, [Next]_vars
  PROVE  Books'
<1>1. /\ faults' \in Nat /\ faults' >= faults /\ faults \in Nat
  BY SMT, FaultStep DEF Books, Fault
<1>2. CASE EndScript
  <2>1. UNCHANGED <<scn, account, faults>>
    BY <1>2 DEF EndScript
  <2>2. CASE phase = "test"
    <3>1. /\ phase' = "cleanup" /\ UNCHANGED mark /\ verdict' = [verdict EXCEPT ![turn] = "pass"]
      BY <1>2, <2>2 DEF EndScript
    <3>2. verdict' = <<verdict'[1], verdict'[2]>>
      BY SMT, <3>1 DEF Books
    <3>3. QED
      BY <2>1, <3>1, <3>2 DEF Books
  <2>3. CASE phase # "test"
    <3>1. /\ mark' = [faults |-> faults, devices |-> account.devices] /\ UNCHANGED verdict
          /\ phase' = "test" => turn' = 2
      BY <1>2, <2>3 DEF EndScript
    <3>2. QED
      BY SMT, <1>1, <2>1, <3>1 DEF Books
  <2>4. QED
    BY <2>2, <2>3
<1>3. CASE ~EndScript
  <2>1. UNCHANGED <<scn, turn, mark>> /\ (UNCHANGED <<phase, verdict>> \/ Fail)
    BY <1>3, TestStep
  <2>2. verdict' = <<verdict'[1], verdict'[2]>>
    BY SMT, <2>1 DEF Fail, Books
  <2>3. phase' = "test" => phase = "test"
    BY <2>1 DEF Fail
  <2>4. (phase = "test" /\ op = 1 => mark.devices = account.devices)'
    <3>1. SUFFICES ASSUME phase' = "test", op' = 1
                   PROVE  mark'.devices = account'.devices
      OBVIOUS
    <3>2. ~Fail /\ ~Continue
      BY SMT, <2>3, <3>1 DEF Fail, Continue, Place
    <3>3. op = 1
      BY <1>3, <3>1, <3>2, OpStep
    <3>4. QED
      BY <2>1, <2>3, <3>1, <3>2, <3>3, DevicesStep DEF Books
  <2>5. QED
    BY SMT, <1>1, <2>1, <2>2, <2>3, <2>4, DevicesStep DEF Books
<1>4. QED
  BY <1>2, <1>3

LEMMA InScript ==
  ASSUME Place, Running
  PROVE  Len(Script) = 3 => op \in {1, 2, 3}
BY SMT DEF Place, Running

(* Only the tests of the account take the app's device away. *)
LEMMA CalmOps ==
  ASSUME Place, Running, phase = "cleanup" \/ Name \notin AccountTests
  PROVE  Op.do \notin {"login", "clear", "fill", "revoke", "update", "logout"}
<1>1. CASE phase = "cleanup"
  <2>1. Script = Cleanup
    BY <1>1 DEF Script
  <2>2. op \in {1, 2, 3}
    BY <2>1, OtherScripts, InScript
  <2>3. QED
    BY <2>1, <2>2, OtherScripts DEF Op
<1>2. CASE phase = "test" /\ Name \notin AccountTests
  <2>1. Name \in DOMAIN Scripts /\ Script = Scripts[Name]
    BY <1>2, ScenarioAssumption DEF Place, Name, Script
  <2>2. CASE Name = "key_rotation"
    <3>1. Script = KeyRotation
      BY <2>1, <2>2 DEF Scripts
    <3>2. op \in {1, 2, 3}
      BY <3>1, OtherScripts, InScript
    <3>3. QED
      BY <3>1, <3>2, OtherScripts DEF Op
  <2>3. CASE Name # "key_rotation"
    <3>1. TunnelTest(Name) /\ Name # "revoked_device"
      BY <1>2, <2>1, <2>3 DEF TunnelTest, AccountTests
    <3>2. FitsAt(Name, Script, op)
      BY <1>2, <3>1, FitsHere
    <3>3. QED
      BY <3>1, <3>2 DEF FitsAt, Op
  <2>4. QED
    BY <1>2, <2>2, <2>3
<1>3. QED
  BY <1>1, <1>2 DEF Place, Running

LEMMA OwnDeviceInit == Init => OwnDevice
BY SMT DEF Init, OwnDevice

LEMMA OwnDeviceStep ==
  ASSUME Place, Books, OwnDevice, [Next]_vars
  PROVE  OwnDevice'
<1>1. CASE EndScript
  BY <1>1 DEF EndScript, OwnDevice, Place
<1>2. CASE ~EndScript
  <2>1. UNCHANGED <<scn, turn>>
    BY <1>2, TestStep
  <2>2. SUFFICES ASSUME account.mine = "ok", Name \notin AccountTests
                 PROVE  account'.mine = "ok"
    BY <2>1 DEF OwnDevice, Name, Place
  <2>3. \/ UNCHANGED account
        \/ RestartDaemon \/ RotateKey \/ NoticesRevocation
        \/ Running /\ Op.do \in {"login", "clear", "fill", "revoke", "update", "logout"}
    BY AccountStep DEF LoginAccount, FillDevices, ClearDevices, RevokeDevice, UpdateDevice,
                       LogoutAccount, Doing
  <2>4. UNCHANGED account \/ RestartDaemon \/ RotateKey
    BY <2>2, <2>3, CalmOps DEF NoticesRevocation
  <2>5. account' = account \/ \E k : account' = [account EXCEPT !.key = k]
    BY <2>4 DEF RestartDaemon, RotateKey
  <2>6. QED
    BY <2>2, <2>5 DEF Books
<1>3. QED
  BY <1>1, <1>2

----------------------------------------------------------------------------
(* Waiting and cleaning up.                                                 *)

LEMMA SeenStep ==
  ASSUME Place, Shape, Seen, [Next]_vars
  PROVE  Seen'
<1>1. ASSUME at' # "await"
      PROVE  Seen'
  BY <1>1 DEF Seen
<1>2. ASSUME Continue \/ Fail
      PROVE  Seen'
  BY <1>2, <1>1 DEF Continue, Fail
<1>3. CASE OneCall
  BY <1>3, <1>2, OneCallFacts
<1>4. CASE CallTunnel \/ EventsListen
  BY <1>4, <1>1, <1>2, WaitSteps DEF CallTunnel, EventsListen
<1>5. CASE ReadState
  <2>1. CASE tun.st \in Accept(Op)
    BY <1>5, <2>1, <1>2 DEF ReadState, Conclude
  <2>2. CASE tun.st \notin Accept(Op)
    <3>1. UNCHANGED <<scn, turn, phase, op, tun>>
      BY <1>5, <2>2 DEF ReadState, daemon
    <3>2. QED
      BY <2>2, <3>1, SamePlace DEF Seen
  <2>3. QED
    BY <2>1, <2>2
<1>6. CASE NextEvent
  <2>1. CASE Head(stream).st \in Accept(Op)
    BY <1>6, <2>1, <1>2 DEF NextEvent, Conclude
  <2>2. CASE Head(stream).st \notin Accept(Op)
    <3>1. UNCHANGED <<scn, turn, phase, op, at, tun, hit>>
      BY <1>6, <2>2 DEF NextEvent, daemon
    <3>2. QED
      BY <3>1, SamePlace DEF Seen
  <2>3. QED
    BY <2>1, <2>2
<1>7. CASE EndScript
  BY <1>7, <1>1 DEF EndScript
<1>8. CASE TimesOut \/ RequestFails
  BY <1>8, <1>2 DEF TimesOut, RequestFails, Conclude
<1>9. CASE Outside
  <2>1. UNCHANGED <<scn, turn, phase, op, at>> /\ Op' = Op
    BY <1>9, OutsideFacts, SamePlace
  <2>2. CASE \E t : Publish(t)
    <3>1. PICK t : Publish(t)
      BY <2>2
    <3>2. at = "await" => Running
      BY DEF Place
    <3>3. at = "await" /\ t.st \in Accept(Op) => hit'
      BY <3>1, <3>2 DEF Publish, WaitOrder
    <3>4. QED
      BY <2>1, <3>1, <3>3 DEF Seen, Publish
  <2>3. CASE UNCHANGED <<tun, hit>>
    BY <2>1, <2>3 DEF Seen
  <2>4. QED
    BY <1>9, <2>2, <2>3, OutsideEvents
<1>10. CASE UNCHANGED vars
  BY <1>10, SamePlace DEF Seen, vars
<1>11. QED
  BY <1>3, <1>4, <1>5, <1>6, <1>7, <1>8, <1>9, <1>10, NextSplit

LEMMA CleanupOps ==
  ASSUME Place, Running, phase = "cleanup"
  PROVE  \/ op = 1 /\ Op.do = "disconnect"
         \/ op = 2 /\ Op.do = "set" /\ Op.arg = "good"
         \/ op = 3 /\ Op.do = "auto"
<1>1. Script = Cleanup
  BY DEF Script
<1>2. op \in {1, 2, 3}
  BY <1>1, OtherScripts, InScript
<1>3. QED
  BY <1>1, <1>2, OtherScripts DEF Op

LEMMA CleanedUpStep ==
  ASSUME IInv, CleanedUp, [Next]_vars
  PROVE  CleanedUp'
<1> USE DEF IInv, StreamInv, LookInv, DownInv
<1>1. SUFFICES ASSUME scn'.prompt, phase' = "cleanup", at' = "call", op' > 1
               PROVE  /\ ~target' /\ Cmd' = "block" /\ tun'.st = "disconnected"
                      /\ op' > 2 => cfg'.kind = "good"
  BY DEF CleanedUp
<1>2. ~EndScript /\ ~Fail
  BY SMT, <1>1 DEF EndScript, Fail
<1>3. UNCHANGED <<scn, turn, phase>> /\ phase = "cleanup" /\ scn.prompt
  BY <1>1, <1>2, TestStep
<1>4. Running => op \in {1, 2, 3} /\ Op.do \in {"disconnect", "set", "auto"}
  BY <1>3, CleanupOps
<1>5. CASE OneCall
  <2>1. Running /\ at = "call" /\ Continue /\ Op.do # "disconnect"
    BY <1>2, <1>5, OneCallFacts
  <2>2. /\ op > 1 /\ op' = op + 1 /\ (op = 2 => Op.do = "set" /\ Op.arg = "good")
        /\ op \in {2, 3} /\ (op = 3 => Op.do = "auto")
    BY SMT, <1>3, <2>1, CleanupOps DEF Continue
  <2>3. ~target /\ Cmd = "block" /\ tun.st = "disconnected" /\ (op = 3 => cfg.kind = "good")
    BY SMT, <1>3, <2>1, <2>2 DEF CleanedUp
  <2>4. SetSettings \/ SetAutoConnect
    BY <1>4, <1>5, <2>1
       DEF OneCall, SetSettings, SetAutoConnect, AssertState, CheckTunnel, Doing, RestartDaemon,
       LoginAccount, FillDevices, ClearDevices, RevokeDevice, UpdateDevice, LogoutAccount
  <2>5. CASE SetSettings
    <3>1. UNCHANGED <<target, queue, tun>> /\ Op.do = "set"
      BY <2>3, <2>5 DEF SetSettings, Doing
    <3>2. cfg'.kind = Op.arg
      BY <2>5 DEF SetSettings, Shape
    <3>3. QED
      BY <2>2, <2>3, <3>1, <3>2 DEF Cmd
  <2>6. CASE SetAutoConnect
    <3>1. UNCHANGED <<target, queue, tun>> /\ Op.do = "auto"
      BY <2>6 DEF SetAutoConnect, Doing, daemon
    <3>2. cfg'.kind = cfg.kind
      BY <2>6 DEF SetAutoConnect, Shape
    <3>3. QED
      BY <2>2, <2>3, <3>1, <3>2 DEF Cmd
  <2>7. QED
    BY <2>4, <2>5, <2>6
<1>6. ASSUME Running, Op.do = "disconnect", at \in {"read", "await"}, Continue, UNCHANGED target
      PROVE  ~target' /\ Cmd' = "block" /\ tun'.st = "disconnected" /\ op' = 2
  <2>1. op = 1 /\ op' = 2 /\ Script' = Cleanup
    BY SMT, <1>3, <1>6, CleanupOps DEF Continue, Script
  <2>2. Running'
    BY SMT, <1>1, <2>1, OtherScripts DEF Running
  <2>3. Script'[op' - 1].do = "disconnect"
    BY SMT, <2>1, OtherScripts
  <2>4. ~target'
    BY <1>6 DEF DownWait, InWait
  <2>5. StaysDown'
    BY InvStep
  <2>6. QED
    BY <1>1, <2>1, <2>2, <2>3, <2>4, <2>5 DEF StaysDown
<1>7. CASE CallTunnel \/ EventsListen
  BY <1>1, <1>4, <1>7, WaitSteps DEF CallTunnel, EventsListen
<1>8. CASE ReadState
  <2>1. Running /\ at = "read" /\ Op.do = "disconnect" /\ UNCHANGED target
    BY <1>4, <1>8 DEF ReadState, Place, daemon
  <2>2. Continue
    BY <1>1, <1>2, <1>8, WaitSteps DEF ReadState, Conclude
  <2>3. QED
    BY SMT, <1>6, <2>1, <2>2
<1>9. CASE NextEvent
  <2>1. Running /\ at = "await" /\ Op.do = "disconnect" /\ UNCHANGED target
    BY <1>4, <1>9 DEF NextEvent, Waiting, Place, daemon
  <2>2. Continue
    BY <1>1, <1>2, <1>9, <2>1 DEF NextEvent, Conclude
  <2>3. QED
    BY SMT, <1>6, <2>1, <2>2
<1>10. CASE TimesOut \/ RequestFails
  <2>1. Running /\ \E timeout : Conclude("failed", 0, timeout)
    BY <1>10 DEF TimesOut, RequestFails, Waiting
  <2>2. ~Satisfies(Op, "failed")
    BY <1>4, <2>1 DEF Satisfies
  <2>3. QED
    BY <1>2, <2>1, <2>2 DEF Conclude
<1>11. CASE Outside
  <2>1. UNCHANGED <<op, at, cfg, target>>
    BY <1>11, OutsideFacts
  <2>2. ~target /\ Cmd = "block" /\ tun.st = "disconnected" /\ (op > 2 => cfg.kind = "good")
    BY <1>1, <1>3, <2>1 DEF CleanedUp
  <2>3. QED
    BY <1>3, <1>11, <2>1, <2>2, OutsideRests
<1>12. CASE UNCHANGED vars
  BY <1>1, <1>12 DEF vars, CleanedUp, Cmd
<1>13. QED
  BY <1>2, <1>5, <1>7, <1>8, <1>9, <1>10, <1>11, <1>12, NextSplit

----------------------------------------------------------------------------
(* A test in which nothing goes wrong: the tunnel follows its operations.   *)

(* The app has a device whenever such a test wants a tunnel. *)
LEMMA HasDevice ==
  ASSUME Orderly, Place, OwnDevice, Revoking, Clean, Steers, Tracks, target
  PROVE  account.mine \in {"ok", "removed"}
<1>1. CASE TunnelTest(Name)
  <2>1. Name \notin AccountTests
    BY <1>1 DEF TunnelTest
  <2>2. scn.device = "ok" /\ scn.tests[1] \notin AccountTests
    BY <1>1, <2>1 DEF Orderly, Place, Name
  <2>3. turn = 1 \/ scn.tests[2] \notin AccountTests
    BY <2>1 DEF Place, Name
  <2>4. QED
    BY <2>2, <2>3 DEF OwnDevice
<1>2. CASE Name = "revoked_device" /\ op <= 5
  <2>1. CASE op = 1
    <3>1. Script = RevokedDevice
      BY SMT, <1>2 DEF Clean, Script, Name, Scripts
    <3>2. Op.do = "login"
      BY <2>1, <3>1, RevokedFits DEF Op
    <3>3. at = "call"
      BY <3>2 DEF Place
    <3>4. QED
      BY <2>1, <3>3 DEF Tracks
  <2>2. CASE op # 1
    <3>1. op \in {2, 3, 4, 5}
      BY SMT, <1>2, <2>2 DEF Place
    <3>2. QED
      BY <1>2, <3>1 DEF Revoking
  <2>3. QED
    BY <2>1, <2>2
<1>3. QED
  BY <1>1, <1>2 DEF Steers

(* The operation that such a test is at, and the one before. *)
LEMMA SteersHere ==
  ASSUME Place, Clean, Steers, Running
  PROVE  /\ FitsAt(Name, Script, op)
         /\ Name = "revoked_device" => op <= 5
         /\ Op.do # "next" /\ (Op.do = "update" => op = 5)
<1>1. FitsAt(Name, Script, op)
  BY FitsHere DEF Clean, Steers
<1>2. CASE Name # "revoked_device"
  BY <1>1, <1>2 DEF FitsAt, Op
<1>3. CASE Name = "revoked_device"
  <2>1. Script = RevokedDevice
    BY SMT, <1>3 DEF Clean, Script, Name, Scripts
  <2>2. op \in {1, 2, 3, 4, 5} /\ op <= 5
    BY SMT, <1>3 DEF Steers, TunnelTest, AccountTests, Place
  <2>3. QED
    BY <1>1, <2>1, <2>2, RevokedFits DEF Op
<1>4. QED
  BY <1>2, <1>3, <1>1

(* The test goes on to the next operation. *)
LEMMA Advance ==
  ASSUME Place, Clean, Steers, Running, Continue, UNCHANGED <<scn, turn>>,
         cfg.kind = KindOf(Name, op),
         cfg'.kind = IF Op.do = "set" THEN Op.arg ELSE cfg.kind,
         ~target' => Rests', target' => Comes',
         Firm(Op, op) => Stands',
         Op.do = "disconnect" \/ (Op.do = "assert" /\ op = 1) => ~target',
         Op.do \in {"begin", "reboot"} => target',
         Op.do = "auto" /\ Op.arg => cfg'.auto
  PROVE  Tracks'
<1>1. Name' = Name /\ op' = op + 1 /\ op \in Nat \ {0} /\ at' = "call" /\ Script' = Script
  BY SameScript DEF Name, Continue, Place
<1>2. op' - 1 = op /\ op' > 1 /\ op' # 1
  BY SMT, <1>1
<1>3. Script'[op' - 1] = Op
  BY <1>1, <1>2 DEF Op
<1>4. cfg'.kind = KindOf(Name, op)'
  BY <1>1, SteersHere DEF FitsAt, Op
<1>5. Left'
  BY SMT, <1>2, <1>3 DEF Left
<1>6. Hearing'
  BY <1>1 DEF Hearing, InWait, Hears
<1>7. QED
  BY <1>2, <1>4, <1>5, <1>6 DEF Tracks

(* A daemon that nothing happens to. *)
LEMMA SameTunnel ==
  ASSUME UNCHANGED <<target, queue, wants, tun>>, cfg'.kind = cfg.kind, cfg'.gen = cfg.gen
  PROVE  /\ Rests' <=> Rests
         /\ Comes' <=> Comes
         /\ Stands' <=> Stands
BY DEF Rests, Comes, Stands, Cmd

(* Such a test finds the tunnel that its requests and checks need. *)
LEMMA OneCallTracks ==
  ASSUME Place, Shape, Clean, Steers, Tracks, OneCall, Continue, Steers'
  PROVE  Tracks'
<1>1. /\ Running /\ at = "call" /\ UNCHANGED <<scn, turn>> /\ scn.prompt /\ op \in Nat \ {0}
      /\ cfg.kind = KindOf(Name, op)
  BY OneCallFacts DEF Clean, Tracks, Place
<1>2. (target => Comes) /\ (~target => Rests)
  BY <1>1 DEF Tracks, Sinks, InWait
<1>3. FitsAt(Name, Script, op) /\ Op = Script[op]
  BY <1>1, SteersHere DEF Op
<1>4. op > 1 => /\ Firm(Script[op - 1], op - 1) => Stands
                /\ Script[op - 1].do = "disconnect" \/ (Script[op - 1].do = "assert" /\ op = 2) => ~target
                /\ Script[op - 1].do = "auto" /\ Script[op - 1].arg => cfg.auto
  BY <1>1 DEF Tracks, Left
<1>5. CASE SetSettings
  <2>1. /\ Op.do = "set" /\ queue = <<>> /\ UNCHANGED <<target, wants, tun>>
        /\ queue' = IF target THEN Append(queue, "reconnect") ELSE queue
    BY <1>1, <1>5 DEF SetSettings, Served, Doing
  <2>2. cfg'.kind = Op.arg
    BY <1>5 DEF SetSettings, Shape
  <2>3. target => Comes'
    <3>1. SUFFICES ASSUME target
                   PROVE  Comes'
      OBVIOUS
    <3>2. cfg.kind = "good" /\ Op.arg = "good"
      BY SMT, <1>1, <1>3, <1>4, <2>1, <3>1 DEF FitsAt
    <3>3. queue' = <<"reconnect">> /\ wants /\ tun.kind = "good"
          /\ tun.st \in {"connecting", "connected", "disconnecting"}
      BY SMT, <1>2, <2>1, <3>1, <3>2 DEF Comes, Outcome
    <3>4. QED
      BY <2>1, <2>2, <3>2, <3>3 DEF Comes
  <2>4. ~target => Rests'
    BY <1>2, <2>1 DEF Rests, Cmd
  <2>5. QED
    BY <1>1, <2>1, <2>2, <2>3, <2>4, Advance DEF Firm
<1>6. CASE SetAutoConnect
  <2>1. Op.do = "auto" /\ UNCHANGED <<target, queue, wants, tun>>
    BY <1>6 DEF SetAutoConnect, Doing, daemon
  <2>2. cfg'.kind = cfg.kind /\ cfg'.gen = cfg.gen /\ cfg'.auto = Op.arg
    BY <1>6 DEF SetAutoConnect, Shape
  <2>3. QED
    BY <1>1, <1>2, <2>1, <2>2, SameTunnel, Advance DEF Firm
<1>7. ASSUME UNCHANGED <<target, queue, wants, tun, cfg>>,
             Op.do \notin {"set", "auto", "connect", "disconnect", "begin", "wait", "reboot"},
             Op.do = "check" \/ (Op.do = "assert" /\ op > 1) => Stands,
             Op.do = "assert" /\ op = 1 => ~target
      PROVE  Tracks'
  BY <1>1, <1>2, <1>7, SameTunnel, Advance DEF Firm
<1>8. CASE AssertState \/ CheckTunnel
  <2>1. Op.do \in {"assert", "check"} /\ UNCHANGED <<target, queue, wants, tun, cfg>>
    BY <1>8 DEF AssertState, CheckTunnel, Doing, daemon
  <2>2. Op.do = "check" \/ (Op.do = "assert" /\ op > 1) => Stands
    BY SMT, <1>3, <1>4, <2>1 DEF FitsAt
  <2>3. Op.do = "assert" /\ op = 1 => ~target
    BY <1>1 DEF Tracks
  <2>4. QED
    BY <1>7, <2>1, <2>2, <2>3
<1>9. CASE RestartDaemon
  <2>1. Op.do = "reboot"
    BY SMT, <1>3, <1>9, SteersHere, <1>1 DEF RestartDaemon, Doing, FitsAt
  <2>2. cfg.auto
    BY <1>3, <1>4, <2>1 DEF FitsAt
  <2>3. target' /\ queue' = <<"connect">> /\ tun'.st = "disconnected" /\ UNCHANGED cfg
    BY <1>9, <2>2 DEF RestartDaemon, State
  <2>4. Comes'
    BY <2>3 DEF Comes
  <2>5. QED
    BY <1>1, <2>1, <2>3, <2>4, Advance DEF Firm
<1>10. CASE LoginAccount \/ RevokeDevice
  <2>1. Op.do \in {"login", "revoke"} /\ UNCHANGED <<target, queue, wants, tun, cfg>>
    BY <1>10 DEF LoginAccount, RevokeDevice, Doing, daemon
  <2>2. QED
    BY <1>7, <2>1
<1>11. CASE UpdateDevice
  <2>1. op = 5 /\ op' = 6 /\ Name' = Name
    BY SMT, <1>1, <1>11, SteersHere DEF UpdateDevice, Doing, Continue, Name
  <2>2. Name = "revoked_device"
    BY <1>3, <1>11 DEF FitsAt, UpdateDevice, Doing
  <2>3. QED
    BY SMT, <2>1, <2>2 DEF Steers, TunnelTest, AccountTests
<1>12. CASE FillDevices \/ ClearDevices \/ LogoutAccount
  <2>1. Op.do \in {"fill", "clear", "logout"}
    BY <1>12 DEF FillDevices, ClearDevices, LogoutAccount, Doing
  <2>2. QED
    BY SMT, <1>1, <1>3, <2>1, SteersHere DEF FitsAt
<1>13. QED
  BY <1>5, <1>6, <1>8, <1>9, <1>10, <1>11, <1>12 DEF OneCall

(* What it asserts and checks is so. *)
LEMMA ChecksHold ==
  ASSUME Place, Clean, Steers, Tracks, AssertState \/ CheckTunnel
  PROVE  Continue
<1>1. Running /\ at = "call" /\ op \in Nat \ {0} /\ cfg.kind = KindOf(Name, op)
  BY OneCallFacts DEF OneCall, Tracks, Place
<1>2. FitsAt(Name, Script, op) /\ Op = Script[op]
  BY <1>1, SteersHere DEF Op
<1>3. op > 1 => (Firm(Script[op - 1], op - 1) => Stands)
  BY <1>1 DEF Tracks, Left
<1>4. CASE AssertState
  <2>1. Op.do = "assert"
    BY <1>4 DEF AssertState, Doing
  <2>2. CASE op = 1
    <3>1. Rests
      BY <1>1, <2>2 DEF Tracks, Sinks, InWait
    <3>2. tun.st \in Op.arg
      BY <1>2, <2>1, <2>2, <3>1, Numerals DEF FitsAt, Rests
    <3>3. QED
      BY <1>4, <3>2 DEF AssertState
  <2>3. CASE op # 1
    <3>1. Stands /\ Outcome(cfg.kind) \in Op.arg
      BY <1>1, <1>2, <1>3, <2>1, <2>3 DEF FitsAt
    <3>2. tun.st \in Op.arg
      BY <3>1 DEF Stands
    <3>3. QED
      BY SMT, <1>4, <3>2 DEF AssertState
  <2>4. QED
    BY <2>2, <2>3
<1>5. CASE CheckTunnel
  <2>1. Op.do = "check"
    BY <1>5 DEF CheckTunnel, Doing
  <2>2. Stands /\ cfg.kind = "good"
    BY <1>1, <1>2, <1>3, <2>1 DEF FitsAt
  <2>3. tun.st = "connected" /\ tun.gen = cfg.gen
    BY <2>2 DEF Stands, Outcome
  <2>4. QED
    BY <1>5, <2>3 DEF CheckTunnel
<1>6. QED
  BY <1>4, <1>5

(* It asks for a tunnel, or for none. *)
LEMMA CallTracks ==
  ASSUME Place, Shape, Clean, Steers, Tracks, CallTunnel, Steers'
  PROVE  Tracks'
<1>1. /\ Running /\ at = "call" /\ UNCHANGED <<scn, turn, phase, cfg, wants, tun>> /\ queue = <<>>
      /\ op \in Nat \ {0} /\ cfg.kind = KindOf(Name, op) /\ Op = Script[op]
  BY DEF CallTunnel, Served, Clean, Tracks, Place, Continue, Op
<1>2. (target => Comes) /\ (~target => Rests)
  BY <1>1 DEF Tracks, Sinks, InWait
<1>3. Op.do # "begin" => at' = "listen" /\ UNCHANGED op
  BY WaitSteps DEF CallTunnel
<1>4. Op.do # "begin" => Op' = Op /\ Name' = Name
  BY <1>1, <1>3, SamePlace DEF Name
<1>5. ASSUME Op.do # "begin", ~target' => Sinks', target' => Comes', Op.do = "wait" => target'
      PROVE  Tracks'
  BY <1>1, <1>3, <1>4, <1>5 DEF Tracks, Left, Hearing, InWait, Hears
<1>6. ASSUME Op.do \in {"connect", "begin"}
      PROVE  target' /\ Comes'
  <2>1. /\ target' /\ queue' = IF target /\ tun.st # "error" THEN queue ELSE Append(queue, "connect")
    BY <1>6 DEF CallTunnel
  <2>2. CASE target /\ tun.st # "error"
    BY <1>1, <1>2, <2>1, <2>2 DEF Comes
  <2>3. CASE ~(target /\ tun.st # "error")
    <3>1. queue' = <<"connect">>
      BY SMT, <1>1, <2>1, <2>3
    <3>2. tun.st \in {"disconnected", "error"}
      BY <1>2, <2>3 DEF Rests
    <3>3. QED
      BY <1>1, <2>1, <3>1, <3>2 DEF Comes
  <2>4. QED
    BY <2>2, <2>3
<1>7. CASE Op.do = "connect"
  BY <1>5, <1>6, <1>7
<1>8. CASE Op.do = "begin"
  <2>1. Continue
    BY <1>8 DEF CallTunnel
  <2>2. QED
    BY <1>1, <1>6, <1>8, <2>1, Advance DEF Firm
<1>9. CASE Op.do = "disconnect"
  <2>1. ~target' /\ queue' = <<"disconnect">>
    BY SMT, <1>1, <1>9 DEF CallTunnel
  <2>2. Sinks'
    BY <1>3, <1>4, <1>9, <2>1 DEF Sinks, InWait
  <2>3. QED
    BY <1>5, <1>9, <2>1, <2>2
<1>10. CASE Op.do = "wait"
  <2>1. op > 1 /\ Script[op - 1].do \in {"begin", "reboot"}
    BY <1>1, <1>10, SteersHere DEF FitsAt
  <2>2. target
    BY <1>1, <2>1 DEF Tracks, Left
  <2>3. UNCHANGED <<target, queue>>
    BY <1>10 DEF CallTunnel
  <2>4. Comes'
    BY <1>1, <1>2, <2>2, <2>3, SameTunnel
  <2>5. QED
    BY <1>5, <1>10, <2>2, <2>3, <2>4
<1>11. QED
  BY <1>7, <1>8, <1>9, <1>10 DEF CallTunnel

(* A wait goes on with its stream: it has opened it, or has read from it. *)
LEMMA WaitTracks ==
  ASSUME Place, Clean, Steers, Tracks, UNCHANGED <<scn, turn, phase, op, cfg, target, queue, wants, tun>>,
         at # "call", at' \in {"read", "await"}, listens' = "yes", queue = <<>>,
         \/ Range(stream') = {}
         \/ at \in {"read", "await"} /\ Range(stream') \subseteq Range(stream)
  PROVE  Tracks'
<1>1. Op' = Op /\ Name' = Name
  BY SamePlace DEF Name
<1>2. Hearing
  BY DEF Tracks
<1>3. Hearing'
  BY <1>1, <1>2 DEF Hearing, InWait, Hears
<1>4. (Rests' <=> Rests) /\ (Comes' <=> Comes)
  BY SameTunnel
<1>5. Sinks => Sinks'
  BY <1>1 DEF Sinks, InWait
<1>6. QED
  BY <1>1, <1>3, <1>4, <1>5 DEF Tracks, Left

(* A wait that ends with what the test expects. *)
LEMMA EndTracks ==
  ASSUME Place, Clean, Steers, Tracks, Steers', Running, Continue,
         UNCHANGED <<scn, turn, cfg, target, queue, wants, tun>>,
         Op.do \in {"connect", "disconnect", "wait", "listen"},
         Op.do \in {"connect", "wait"} => Stands,
         Op.do = "disconnect" => Rests /\ ~target,
         Op.do = "listen" => at = "call"
  PROVE  Tracks'
<1>1. (Rests' <=> Rests) /\ (Comes' <=> Comes) /\ (Stands' <=> Stands)
  BY SameTunnel
<1>2. target => Comes
  BY DEF Tracks
<1>3. ~target => Rests
  BY DEF Tracks, Sinks, InWait, Stands
<1>4. QED
  BY <1>1, <1>2, <1>3, Advance DEF Firm, Tracks

LEMMA ListenTracks ==
  ASSUME Place, Subscribed, Clean, Steers, Tracks, EventsListen, Steers'
  PROVE  Tracks'
<1>1. /\ Running /\ queue = <<>> /\ listens' = "yes"
      /\ UNCHANGED <<scn, turn, cfg, target, queue, wants, tun, stream>>
  BY DEF EventsListen, Served, Clean, daemon
<1>2. CASE at = "listen"
  <2>1. Op.do \in {"connect", "disconnect", "wait"}
    BY <1>2 DEF Place
  <2>2. Range(stream') = {}
    BY <1>1, <1>2, <2>1, NoStream, EmptyStream
  <2>3. at' = "read" /\ UNCHANGED <<phase, op>>
    BY <1>2, <2>1, WaitSteps DEF EventsListen
  <2>4. QED
    BY <1>1, <1>2, <2>2, <2>3, WaitTracks
<1>3. CASE at # "listen"
  <2>1. Op.do = "listen" /\ Continue
    BY <1>3 DEF EventsListen
  <2>2. at = "call"
    BY <2>1 DEF Place
  <2>3. QED
    BY <1>1, <2>1, <2>2, EndTracks
<1>4. QED
  BY <1>2, <1>3

(* A state that ends a wait, read or heard, is the one the test expects, and *)
(* it is still so.                                                           *)
LEMMA HeardState ==
  ASSUME Place, FreshWait, DownWait, Clean, Steers, Tracks, Running, at \in {"read", "await"},
         NEW st, st \in Accept(Op), st = tun.st \/ \E e \in Range(stream) : e.st = st
  PROVE  /\ Satisfies(Op, st)
         /\ Op.do \in {"connect", "wait"} => Stands
         /\ Op.do = "disconnect" => Rests /\ ~target
<1>1. Op.do \in {"connect", "disconnect", "wait"}
  BY DEF Place
<1>2. FitsAt(Name, Script, op) /\ Op = Script[op] /\ cfg.kind = KindOf(Name, op)
  BY SteersHere DEF Op, Tracks
<1>3. ASSUME target, queue = <<>>
      PROVE  \/ cfg.kind = "good" /\ tun.st = "disconnecting"
             \/ tun.st \in {"connecting", Outcome(cfg.kind)} /\ tun.gen = cfg.gen
  BY <1>3 DEF Tracks, Comes
<1>4. Hears("connect") \/ Hears("wait") =>
        /\ target /\ queue = <<>> /\ (st \in {"connected", "error"} => st = tun.st)
  BY DEF Tracks, Hearing, FreshWait, InWait, Hears
<1>5. CASE Op.do = "connect"
  <2>1. st = tun.st /\ st \in {"connected", "error"} /\ target /\ queue = <<>>
    BY <1>4, <1>5, Accepted DEF Hears
  <2>2. tun.st = Outcome(cfg.kind) /\ tun.gen = cfg.gen
    BY <1>3, <2>1
  <2>3. Satisfies(Op, st)
    BY <1>2, <1>5, <2>1, <2>2 DEF FitsAt, Outcome, Satisfies
  <2>4. QED
    BY <1>5, <2>1, <2>2, <2>3 DEF Stands
<1>6. CASE Op.do = "wait"
  <2>1. (st \in {"connected", "error"} => st = tun.st) /\ target /\ queue = <<>>
    BY <1>4, <1>6 DEF Hears
  <2>2. Accept(Op) = Op.arg
    BY <1>6 DEF Accept
  <2>3. st \in {Outcome(cfg.kind), "error"}
    BY <1>2, <1>6, <2>2 DEF FitsAt
  <2>4. tun.st = Outcome(cfg.kind) /\ tun.gen = cfg.gen
    BY <1>3, <2>1, <2>3 DEF Outcome
  <2>5. Satisfies(Op, st)
    BY <1>2, <1>6, <2>1, <2>3, <2>4 DEF FitsAt, Satisfies, Outcome
  <2>6. QED
    BY <1>6, <2>1, <2>4, <2>5 DEF Stands
<1>7. CASE Op.do = "disconnect"
  <2>1. st = "disconnected"
    BY <1>7, Accepted
  <2>2. Cmd = "block" /\ ~target /\ tun.st = "disconnected"
    BY <1>7, <2>1 DEF DownWait, InWait, Hears, Clean
  <2>3. Rests
    <3>1. queue # <<"disconnect">>
      BY SMT, <2>2 DEF Cmd
    <3>2. QED
      BY <2>2, <3>1 DEF Tracks, Sinks
  <2>4. QED
    BY <1>7, <2>1, <2>2, <2>3 DEF Satisfies
<1>8. QED
  BY <1>1, <1>5, <1>6, <1>7

LEMMA ReadTracks ==
  ASSUME Place, FreshWait, DownWait, Clean, Steers, Tracks, ReadState
  PROVE  ~Fail /\ (Steers' => Tracks')
<1>1. /\ Running /\ at = "read" /\ queue = <<>> /\ listens = "yes"
      /\ UNCHANGED <<scn, turn, cfg, target, queue, wants, tun>>
      /\ phase = "test" /\ Op.do \in {"connect", "disconnect", "wait"}
  BY DEF ReadState, Served, Clean, daemon, Tracks, Hearing, Place
<1>2. CASE tun.st \in Accept(Op)
  <2>1. /\ Satisfies(Op, tun.st) /\ (Op.do \in {"connect", "wait"} => Stands)
        /\ Op.do = "disconnect" => Rests /\ ~target
    BY <1>1, <1>2, HeardState
  <2>2. Continue
    BY <1>2, <2>1 DEF ReadState, Conclude
  <2>3. ~Fail
    BY <1>1, <2>2 DEF Continue, Fail
  <2>4. QED
    BY <1>1, <2>1, <2>2, <2>3, EndTracks
<1>3. CASE tun.st \notin Accept(Op)
  <2>1. at' = "await" /\ UNCHANGED <<op, phase, listens, stream>>
    BY <1>3, WaitSteps DEF ReadState
  <2>2. Tracks'
    BY <1>1, <2>1, WaitTracks
  <2>3. QED
    BY <2>1, <2>2 DEF Fail
<1>4. QED
  BY <1>2, <1>3

LEMMA EventTracks ==
  ASSUME Place, Shape, FreshWait, DownWait, Clean, Steers, Tracks, NextEvent
  PROVE  ~Fail /\ (Steers' => Tracks')
<1>1. /\ Running /\ at = "await" /\ listens = "yes"
      /\ UNCHANGED <<scn, turn, cfg, target, queue, wants, tun>>
      /\ phase = "test" /\ Op.do \in {"connect", "disconnect", "wait"}
  <2>1. Running /\ at = "await"
    BY SteersHere DEF NextEvent, Waiting
  <2>2. QED
    BY <2>1 DEF NextEvent, Clean, daemon, Tracks, Hearing, Place
<1>2. /\ Head(stream) \in Range(stream) /\ stream # <<>>
      /\ Range(Tail(stream)) \subseteq Range(stream)
  BY TakeEvent DEF Shape, NextEvent
<1>3. CASE Head(stream).st \in Accept(Op)
  <2>1. /\ Satisfies(Op, Head(stream).st) /\ (Op.do \in {"connect", "wait"} => Stands)
        /\ Op.do = "disconnect" => Rests /\ ~target
    BY <1>1, <1>2, <1>3, HeardState
  <2>2. Continue
    BY <1>3, <2>1 DEF NextEvent, Conclude
  <2>3. ~Fail
    BY <1>1, <2>2 DEF Continue, Fail
  <2>4. QED
    BY <1>1, <2>1, <2>2, <2>3, EndTracks
<1>4. CASE Head(stream).st \notin Accept(Op)
  <2>1. UNCHANGED <<op, at, phase, listens>> /\ stream' = Tail(stream)
    BY <1>4 DEF NextEvent
  <2>2. ~Fail
    BY <1>1, <2>1 DEF Fail
  <2>3. Op' = Op /\ Name' = Name
    BY <1>1, <2>1, SamePlace DEF Name
  <2>4. Hearing'
    BY <1>1, <1>2, <2>1, <2>3 DEF Tracks, Hearing, InWait, Hears
  <2>5. (Rests' <=> Rests) /\ (Comes' <=> Comes) /\ (Sinks' <=> Sinks)
    BY <1>1, <2>1, <2>3, SameTunnel DEF Sinks, InWait
  <2>6. Tracks'
    BY <1>1, <2>1, <2>3, <2>4, <2>5 DEF Tracks, Left
  <2>7. QED
    BY <2>2, <2>6
<1>5. QED
  BY <1>3, <1>4

(* A wait that times out although the daemon is not slow is one for a tunnel *)
(* that cannot come up.                                                      *)
LEMMA TimeoutTracks ==
  ASSUME Place, Noticed, FreshWait, DownWait, Seen, Clean, Steers, Tracks, TimesOut, ~Fault
  PROVE  ~Fail /\ (Steers' => Tracks')
<1>1. /\ Running /\ at = "await" /\ listens = "yes" /\ stream = <<>> /\ queue = <<>>
      /\ UNCHANGED <<scn, turn, cfg, target, queue, wants, tun>>
      /\ phase = "test" /\ Op.do \in {"connect", "disconnect", "wait"}
  <2>1. Running /\ at = "await"
    BY SteersHere DEF TimesOut, Waiting
  <2>2. QED
    BY <2>1 DEF TimesOut, Clean, daemon, Tracks, Hearing, Place
<1>2. Quiet
  BY <1>1 DEF TimesOut
<1>3. tun.st \notin Accept(Op)
  BY <1>1, EmptyStream DEF Noticed, Seen
<1>4. FitsAt(Name, Script, op) /\ Op = Script[op] /\ cfg.kind = KindOf(Name, op)
  BY <1>1, SteersHere DEF Op, Tracks
<1>5. Op.do \in {"connect", "wait"} => target
  BY <1>1 DEF FreshWait, InWait, Tracks, Hearing
<1>6. target => Stands
  <2>1. target => /\ tun.st \in {"connecting", Outcome(cfg.kind)}
                  /\ tun.gen = cfg.gen /\ tun.kind = cfg.kind
    BY SMT, <1>1, <1>2 DEF Tracks, Comes, Quiet
  <2>2. QED
    BY <1>1, <1>2, <2>1 DEF Stands, Outcome, Quiet
<1>7. Op.do # "disconnect"
  <2>1. SUFFICES ASSUME Op.do = "disconnect"
                 PROVE  FALSE
    OBVIOUS
  <2>2. ~target /\ tun.st # "disconnected"
    BY <1>1, <1>3, <2>1, Accepted DEF DownWait, InWait
  <2>3. QED
    BY SMT, <1>1, <1>2, <2>2 DEF Tracks, Rests, Sinks, Quiet
<1>8. Op.do # "wait"
  BY <1>3, <1>4, <1>5, <1>6 DEF FitsAt, Stands, Accept
<1>9. Op.do = "connect" /\ Stands
  BY <1>1, <1>5, <1>6, <1>7, <1>8
<1>10. tun.st \notin {"connected", "error"} /\ tun.st = Outcome(cfg.kind)
  BY <1>3, <1>9, Accepted DEF Stands
<1>11. Op.arg = "err"
  BY <1>4, <1>9, <1>10 DEF FitsAt, Outcome
<1>12. Satisfies(Op, "failed")
  BY <1>9, <1>11 DEF Satisfies
<1>13. Continue
  BY <1>12 DEF TimesOut, Conclude
<1>14. ~Fail
  BY <1>1, <1>13 DEF Continue, Fail
<1>15. QED
  BY <1>1, <1>9, <1>13, <1>14, EndTracks

LEMMA StateFields ==
  ASSUME Shape, NEW st
  PROVE  /\ State(st).st = st /\ State(st).gen = cfg.gen /\ State(st).kind = cfg.kind
         /\ [tun EXCEPT !.st = st].st = st /\ [tun EXCEPT !.st = st].gen = tun.gen
         /\ [tun EXCEPT !.st = st].kind = tun.kind
<1>1. [tun EXCEPT !.st = st] = [st |-> st, gen |-> tun.gen, kind |-> tun.kind]
  BY SMT DEF Shape
<1>2. QED
  BY <1>1 DEF State

(* A tunnel that is wanted comes, whichever command is taken. *)
LEMMA TakeComes ==
  ASSUME Shape, TakeCommand, Comes
  PROVE  Comes'
<1>1. /\ queue # <<>> /\ queue' = Tail(queue) /\ UNCHANGED cfg
      /\ wants' = IF Head(queue) = "block" THEN wants ELSE Head(queue) \in {"connect", "reconnect"}
  BY DEF TakeCommand
<1>2. CASE queue = <<"connect">> /\ tun.st \in {"disconnected", "error"}
  <2>1. Head(queue) = "connect" /\ queue' = <<>>
    BY SMT, <1>1, <1>2
  <2>2. tun' = State("connecting")
    BY <1>2, <2>1 DEF TakeCommand, Publish
  <2>3. QED
    BY <1>1, <2>1, <2>2, StateFields DEF Comes
<1>3. CASE /\ queue = <<"reconnect">> /\ cfg.kind = "good" /\ tun.kind = "good"
           /\ tun.st \in {"connecting", "connected", "disconnecting"}
  <2>0. Head(queue) = "reconnect" /\ queue' = <<>>
    BY SMT, <1>1, <1>3
  <2>1. Head(queue) = "reconnect" /\ queue' = <<>> /\ wants'
    BY <1>1, <2>0
  <2>2. CASE tun.st = "connecting"
    <3>1. tun' = State("connecting")
      BY <2>1, <2>2 DEF TakeCommand, Publish
    <3>2. QED
      BY <1>1, <2>1, <3>1, StateFields DEF Comes
  <2>3. CASE tun.st = "connected"
    <3>1. tun' = [tun EXCEPT !.st = "disconnecting"]
      BY <2>1, <2>3 DEF TakeCommand, Publish
    <3>2. QED
      BY <1>1, <1>3, <2>1, <3>1, StateFields DEF Comes
  <2>4. CASE tun.st = "disconnecting"
    <3>1. tun' = tun
      BY <2>1, <2>4 DEF TakeCommand
    <3>2. QED
      BY <1>1, <1>3, <2>1, <2>4, <3>1 DEF Comes
  <2>5. QED
    BY <1>3, <2>2, <2>3, <2>4
<1>4. QED
  BY <1>1, <1>2, <1>3 DEF Comes

LEMMA StepComes ==
  ASSUME Shape, TunnelStep, Comes, account.mine \in {"ok", "removed"}
  PROVE  Comes'
<1>1. UNCHANGED <<queue, wants, cfg>>
  BY DEF TunnelStep
<1>2. CASE tun.st = "disconnecting"
  <2>1. wants /\ cfg.kind = "good" /\ (queue = <<"reconnect">> \/ queue = <<>>)
    BY <1>2 DEF Comes, Outcome
  <2>2. tun' = State("connecting")
    BY <1>2, <2>1 DEF TunnelStep, Publish
  <2>3. QED
    BY <1>1, <2>1, <2>2, StateFields DEF Comes
<1>3. CASE tun.st = "connecting"
  <2>1. \/ tun.kind = "good" /\ tun' = [tun EXCEPT !.st = "connected"]
        \/ tun.kind = "none" /\ tun' = [tun EXCEPT !.st = "error"]
    BY <1>3 DEF TunnelStep, Publish
  <2>2. CASE tun.kind = "good" /\ tun' = [tun EXCEPT !.st = "connected"]
    BY SMT, <1>1, <1>3, <2>2, StateFields DEF Comes, Outcome
  <2>3. CASE tun.kind = "none" /\ tun' = [tun EXCEPT !.st = "error"]
    BY SMT, <1>1, <1>3, <2>3, StateFields DEF Comes, Outcome
  <2>4. QED
    BY <2>1, <2>2, <2>3
<1>4. QED
  BY <1>2, <1>3 DEF TunnelStep

(* One that is not wanted goes down, and stays down. *)
LEMMA OutsideSinks ==
  ASSUME Shape, Line, scn.prompt, TakeCommand \/ TunnelStep, ~target, Rests \/ Sinks
  PROVE  Rests' \/ Sinks'
<1>1. UNCHANGED <<scn, turn, phase, op, at>> /\ Op' = Op
  BY OutsideFacts, SamePlace DEF Outside
<1>2. CASE Rests
  <2>1. Cmd' = "block"
    BY <1>2, OutsideLine DEF Rests, Outside
  <2>2. TakeCommand => Head(queue) = "block"
    BY <1>2 DEF Rests, Cmd, TakeCommand
  <2>3. UNCHANGED <<tun, wants>>
    BY <1>2, <2>2 DEF Rests, TakeCommand, TunnelStep
  <2>4. QED
    BY <1>2, <2>1, <2>3 DEF Rests
<1>3. CASE Sinks /\ TakeCommand
  <2>1. queue = <<"disconnect">> /\ queue' = Tail(queue)
    BY <1>3 DEF Sinks, TakeCommand
  <2>2. queue = <<"disconnect">> /\ queue' = <<>> /\ Head(queue) = "disconnect"
    BY SMT, <2>1
  <2>3. queue = <<"disconnect">> /\ queue' = <<>> /\ ~wants' /\ Cmd' = "block"
    <3>1. wants' = (Head(queue) \in {"connect", "reconnect"})
      BY <1>3, <2>2 DEF TakeCommand
    <3>2. QED
      BY <2>2, <3>1 DEF Cmd
  <2>4. \/ tun' = [tun EXCEPT !.st = "disconnecting"] \/ tun' = State("disconnected")
        \/ tun' = tun /\ tun.st \in {"disconnected", "disconnecting"}
    BY SMT, <1>3, <2>3 DEF TakeCommand, Publish
  <2>5. tun'.st \in {"disconnected", "disconnecting"}
    BY <2>4, StateFields
  <2>6. QED
    BY <1>1, <1>3, <2>3, <2>5 DEF Rests, Sinks, InWait
<1>4. CASE Sinks /\ TunnelStep
  <2>1. UNCHANGED <<queue, wants>>
    BY <1>4 DEF TunnelStep
  <2>2. CASE queue = <<"disconnect">>
    BY <1>1, <1>4, <2>1, <2>2 DEF Sinks, InWait
  <2>3. CASE queue = <<>> /\ ~wants /\ tun.st = "disconnecting"
    <3>1. tun' = State("disconnected")
      BY <1>4, <2>3 DEF TunnelStep, Publish
    <3>2. QED
      BY <2>1, <2>3, <3>1, StateFields DEF Rests, Cmd
  <2>4. QED
    BY <1>4, <2>2, <2>3 DEF Sinks
<1>5. QED
  BY <1>2, <1>3, <1>4

(* Nothing but a command or a fault moves a tunnel that stands. *)
LEMMA StandsStill ==
  ASSUME Orderly, Place, OwnDevice, Revoking, Clean, Steers, Tracks, Stands
  PROVE  ~TakeCommand /\ ~TunnelStep
<1>1. SUFFICES ASSUME TunnelStep
               PROVE  FALSE
  BY DEF Stands, TakeCommand
<1>2. /\ target /\ queue = <<>> /\ tun.st = Outcome(cfg.kind)
      /\ account.mine \in {"ok", "removed"}
  BY HasDevice DEF Stands
<1>3. tun.kind = cfg.kind /\ tun.st # "disconnecting"
  BY <1>2 DEF Tracks, Comes, Outcome
<1>4. QED
  BY <1>1, <1>2, <1>3 DEF TunnelStep, Outcome

LEMMA OutsideTracks ==
  ASSUME Orderly, Place, Shape, Line, FreshWait, OwnDevice, Revoking, Clean, Steers, Tracks,
         Outside, ~Fault
  PROVE  Tracks'
<1>1. /\ UNCHANGED <<scn, turn, phase, op, at, cfg, target>> /\ Op' = Op /\ Script' = Script
      /\ Name' = Name /\ scn.prompt
  BY OutsideFacts, SamePlace DEF Name, Clean
<1>2. TakeCommand \/ TunnelStep \/ RotateKey
  BY DEF Outside, TunnelFails, NoticesRevocation, StreamLost
<1>3. CASE RotateKey
  <2>1. UNCHANGED <<queue, wants, tun, listens>> /\ stream' = Append(stream, State("device"))
    BY <1>3 DEF RotateKey, daemon
  <2>2. Range(stream') = Range(stream) \cup {State("device")} /\ State("device").st = "device"
    BY <2>1, AppendEvent, StateFields DEF Shape
  <2>3. Hearing'
    BY <1>1, <2>1, <2>2 DEF Tracks, Hearing, InWait, Hears
  <2>4. (Rests' <=> Rests) /\ (Comes' <=> Comes) /\ (Stands' <=> Stands) /\ (Sinks' <=> Sinks)
    BY <1>1, <2>1, SameTunnel DEF Sinks, InWait
  <2>5. Left'
    BY <1>1, <2>4 DEF Tracks, Left
  <2>6. QED
    BY <1>1, <2>3, <2>4, <2>5 DEF Tracks
<1>4. CASE TakeCommand \/ TunnelStep
  <2>1. target => Comes'
    BY <1>4, TakeComes, StepComes, HasDevice DEF Tracks
  <2>2. ~target => Rests' \/ Sinks'
    BY <1>1, <1>4, OutsideSinks DEF Tracks
  <2>3. ~Stands
    BY <1>4, StandsStill
  <2>4. Left'
    BY <1>1, <2>3 DEF Tracks, Left
  <2>5. UNCHANGED listens
    BY <1>4 DEF TakeCommand, TunnelStep
  <2>6. ASSUME queue = <<>>, \A e \in Range(stream) : e.st \in {"connected", "error"} => e.st = tun.st
        PROVE  queue' = <<>> /\ \A e \in Range(stream') : e.st \in {"connected", "error"} => e.st = tun'.st
    <3>1. TunnelStep /\ tun.st \in {"connecting", "disconnecting"} /\ UNCHANGED queue
      BY <1>4, <2>6 DEF TakeCommand, TunnelStep
    <3>2. PICK t : Published(t) /\ Publish(t)
      BY <3>1, TunnelStates DEF TunnelStep
    <3>3. Range(stream') \subseteq Range(stream) \cup {t} /\ tun' = t
      BY <3>2, PublishFacts DEF Publish
    <3>4. QED
      BY <2>6, <3>1, <3>3
  <2>7. Hearing'
    BY <1>1, <2>5, <2>6 DEF Tracks, Hearing, InWait, Hears
  <2>8. QED
    BY <1>1, <2>1, <2>2, <2>4, <2>7 DEF Tracks
<1>5. QED
  BY <1>2, <1>3, <1>4

(* The first test begins with no tunnel, the second with what the cleanup left. *)
LEMMA SteeredInit == Init => Steered
<1>1. SUFFICES ASSUME Init PROVE Tracks
  BY DEF Steered
<1>2. ~target /\ op = 1 /\ at = "call" /\ cfg.kind = "good" /\ Rests
  BY <1>1 DEF Init, Rests, Cmd
<1>3. KindOf(Name, op) = "good"
  BY SMT, <1>2 DEF KindOf
<1>4. QED
  BY <1>2, <1>3, Numerals DEF Tracks, Left, Hearing, InWait, Hears

LEMMA NextTestTracks ==
  ASSUME IInv, CleanedUp, EndScript, phase = "cleanup", scn.prompt
  PROVE  Tracks'
<1>1. op > Len(Script) /\ Script = Cleanup /\ at = "call"
  BY SMT DEF EndScript, Script, IInv, StreamInv, LookInv, Place, Running
<1>2. op > 3
  BY <1>1, OtherScripts
<1>3. ~target /\ Cmd = "block" /\ tun.st = "disconnected" /\ cfg.kind = "good"
  BY SMT, <1>1, <1>2 DEF CleanedUp, IInv, StreamInv, LookInv, Place
<1>4. ~wants
  BY <1>3 DEF IInv, FreshInv, Line, Down
<1>5. UNCHANGED <<cfg, target, queue, wants, tun>> /\ op' = 1 /\ at' = "call"
  BY DEF EndScript, daemon
<1>6. Rests' /\ KindOf(Name, op)' = "good"
  BY SMT, <1>3, <1>4, <1>5 DEF Rests, Cmd, KindOf
<1>7. QED
  BY <1>3, <1>5, <1>6, Numerals DEF Tracks, Left, Hearing, InWait, Hears

(* The operations of a test only go forward. *)
LEMMA SteersBefore ==
  ASSUME Place, [Next]_vars, ~EndScript, Clean, Clean', Steers', UNCHANGED <<scn, turn>>
  PROVE  Steers
<1>1. op' = op \/ op' = op + 1
  <2>1. ~Fail
    BY DEF Fail, Clean
  <2>2. QED
    BY <2>1, OpStep DEF Continue
<1>2. QED
  BY SMT, <1>1 DEF Steers, Name, Place

LEMMA SteeredStep ==
  ASSUME Orderly, IInv, Books, OwnDevice, Revoking, Seen, CleanedUp, Steered, [Next]_vars
  PROVE  Steered'
<1> USE DEF IInv, StreamInv, LookInv, FreshInv, DownInv
<1>1. SUFFICES ASSUME Clean', Steers'
               PROVE  Tracks'
  BY DEF Steered
<1>2. CASE EndScript
  BY <1>1, <1>2, CleanBefore, NextTestTracks
<1>3. CASE ~EndScript
  <2>1. Clean /\ ~Fault /\ UNCHANGED <<scn, turn, phase, mark, faults>>
    BY <1>1, <1>3, CleanBefore
  <2>2. Steers /\ Tracks
    BY <1>1, <1>3, <2>1, SteersBefore DEF Steered
  <2>3. ~Fail
    BY <2>1 DEF Fail, Clean
  <2>4. CASE OneCall
    BY <1>1, <2>1, <2>2, <2>3, <2>4, OneCallFacts, OneCallTracks
  <2>5. CASE CallTunnel \/ EventsListen
    BY <1>1, <2>1, <2>2, <2>5, CallTracks, ListenTracks
  <2>6. CASE ReadState \/ NextEvent \/ TimesOut
    BY <1>1, <2>1, <2>2, <2>6, ReadTracks, EventTracks, TimeoutTracks
  <2>7. CASE RequestFails
    BY <2>1, <2>7 DEF RequestFails
  <2>8. CASE Outside
    BY <2>1, <2>2, <2>8, OutsideTracks
  <2>9. CASE UNCHANGED vars
    <3>1. Op' = Op /\ Script' = Script /\ Name' = Name
      BY <2>9, SamePlace DEF vars, Name
    <3>2. (Rests' <=> Rests) /\ (Comes' <=> Comes) /\ (Stands' <=> Stands) /\ (Sinks' <=> Sinks)
      BY <2>9, <3>1, SameTunnel DEF vars, Sinks, InWait
    <3>3. Left' /\ Hearing'
      BY <2>2, <2>9, <3>1, <3>2 DEF Tracks, Left, Hearing, InWait, Hears, vars
    <3>4. QED
      BY <2>2, <2>9, <3>1, <3>2, <3>3 DEF Tracks, vars
  <2>10. QED
    BY <1>3, <2>4, <2>5, <2>6, <2>7, <2>8, <2>9, NextSplit
<1>4. QED
  BY <1>2, <1>3

----------------------------------------------------------------------------
(* The tests of the account.                                                *)

(* Which request an operation is. *)
LEMMA OneCallOf ==
  ASSUME OneCall
  PROVE  \/ Op.do = "set" /\ SetSettings
         \/ Op.do = "auto" /\ SetAutoConnect
         \/ Op.do = "assert" /\ AssertState
         \/ Op.do = "check" /\ CheckTunnel
         \/ Op.do \in {"reboot", "age"} /\ RestartDaemon
         \/ Op.do = "login" /\ LoginAccount
         \/ Op.do = "fill" /\ FillDevices
         \/ Op.do = "clear" /\ ClearDevices
         \/ Op.do = "revoke" /\ RevokeDevice
         \/ Op.do = "update" /\ UpdateDevice
         \/ Op.do = "logout" /\ LogoutAccount
<1>1. (SetSettings => Op.do = "set") /\ (SetAutoConnect => Op.do = "auto")
  BY DEF SetSettings, SetAutoConnect, Doing
<1>2. (AssertState => Op.do = "assert") /\ (CheckTunnel => Op.do = "check")
  BY DEF AssertState, CheckTunnel, Doing
<1>3. (RestartDaemon => Op.do \in {"reboot", "age"}) /\ (LoginAccount => Op.do = "login")
  BY DEF RestartDaemon, LoginAccount, Doing
<1>4. (FillDevices => Op.do = "fill") /\ (ClearDevices => Op.do = "clear")
  BY DEF FillDevices, ClearDevices, Doing
<1>5. (RevokeDevice => Op.do = "revoke") /\ (UpdateDevice => Op.do = "update")
  BY DEF RevokeDevice, UpdateDevice, Doing
<1>6. LogoutAccount => Op.do = "logout"
  BY DEF LogoutAccount, Doing
<1>7. QED
  BY <1>1, <1>2, <1>3, <1>4, <1>5, <1>6 DEF OneCall

(* A step within a test in which nothing goes wrong. *)
LEMMA CleanStep ==
  ASSUME Place, Clean, [Next]_vars, ~EndScript, ~Fault
  PROVE  \/ OneCall
         \/ Running /\ Op.do \in {"connect", "disconnect", "begin", "wait"}
                    /\ (CallTunnel \/ EventsListen \/ ReadState \/ NextEvent \/ TimesOut)
         \/ Running /\ Op.do = "listen" /\ at = "call" /\ EventsListen /\ Continue
         \/ Running /\ Op.do = "next" /\ at = "call" /\ (NextEvent \/ TimesOut)
         \/ TakeCommand \/ TunnelStep \/ RotateKey \/ UNCHANGED vars
<1>1. CASE CallTunnel
  BY <1>1 DEF CallTunnel
<1>2. CASE EventsListen
  BY <1>2 DEF EventsListen, Place
<1>3. CASE ReadState
  BY <1>3 DEF ReadState, Place
<1>4. CASE NextEvent \/ TimesOut
  BY <1>4 DEF NextEvent, TimesOut, Waiting, Place
<1>5. CASE RequestFails
  BY <1>5 DEF RequestFails
<1>6. CASE Outside
  BY <1>6 DEF Outside, TunnelFails, NoticesRevocation, StreamLost
<1>7. QED
  BY <1>1, <1>2, <1>3, <1>4, <1>5, <1>6, NextSplit

LEMMA CleanGoesOn ==
  ASSUME Place, Clean, [Next]_vars, ~EndScript, ~Fault, Continue
  PROVE  \/ OneCall
         \/ Op.do \in {"connect", "disconnect", "begin", "wait", "next"}
         \/ Op.do = "listen" /\ EventsListen
<1>1. op' # op
  BY SMT DEF Continue, Place
<1>2. ~TakeCommand /\ ~TunnelStep /\ ~RotateKey /\ ~UNCHANGED vars
  <2>1. ~Outside
    BY <1>1, OutsideFacts
  <2>2. QED
    BY <1>1, <2>1 DEF Outside, vars
<1>3. QED
  BY <1>2, CleanStep

(* The script of test_revoked_device. *)
LEMMA RevokedScript ==
  ASSUME Place, phase = "test", Name = "revoked_device"
  PROVE  /\ Script = RevokedDevice /\ (Running => op \in {1, 2, 3, 4, 5, 6})
         /\ op = 1 => Op.do = "login" /\ Op.arg = "ok"
         /\ op = 2 => Op.do = "connect"
         /\ op = 3 => Op.do = "revoke"
         /\ op = 4 => Op.do = "listen"
         /\ op = 5 => Op.do = "update"
         /\ op = 6 => Op.do = "next" /\ Op.arg = {"error"}
<1>1. Script = RevokedDevice
  BY SMT DEF Script, Name, Scripts
<1>2. Running => op <= 6
  BY <1>1, RevokedFits DEF Running
<1>3. Running => op \in {1, 2, 3, 4, 5, 6}
  BY SMT, <1>2 DEF Place
<1>4. Op = RevokedDevice[op]
  BY <1>1 DEF Op
<1>5. QED
  BY <1>1, <1>3, <1>4, RevokedFits

(* Only a request that is answered changes whose device the app's is. *)
LEMMA MineStays ==
  ASSUME Place, Books, Clean, [Next]_vars, ~EndScript, ~Fault, ~Continue, ~Fail
  PROVE  account'.mine = account.mine
<1>1. UNCHANGED account \/ RotateKey
  <2>1. ~OneCall
    BY OneCallFacts
  <2>2. QED
    BY <2>1, AccountStep DEF OneCall, NoticesRevocation
<1>2. QED
  BY <1>1 DEF RotateKey, Books

LEMMA RevokingStep ==
  ASSUME Orderly, IInv, Books, OwnDevice, Seen, CleanedUp, Steered, Revoking, [Next]_vars
  PROVE  Revoking'
<1> USE DEF IInv, StreamInv, LookInv, FreshInv
<1>1. SUFFICES ASSUME Clean', Name' = "revoked_device", ~EndScript
               PROVE  /\ op' \in {2, 3} => account'.mine = "ok"
                      /\ op' \in {3, 4, 5} => at' = "call" /\ Stands'
                      /\ op' \in {4, 5} => account'.mine = "removed"
                      /\ op' \in {5, 6} => listens' = "yes"
                      /\ op' = 6 => \/ queue' = <<"block">> /\ tun'.st = "connected"
                                    \/ \E e \in Range(stream') : e.st = "error"
  BY SMT DEF Revoking, EndScript
<1>2. Clean /\ ~Fault /\ ~Fail /\ UNCHANGED <<scn, turn, phase>> /\ phase = "test"
  BY <1>1, CleanBefore DEF Fail, Clean
<1>3. Name = "revoked_device"
  BY <1>1, <1>2 DEF Name
<1>4. /\ op \in {2, 3} => account.mine = "ok"
      /\ op \in {3, 4, 5} => at = "call" /\ Stands
      /\ op \in {4, 5} => account.mine = "removed"
      /\ op \in {5, 6} => listens = "yes"
      /\ op = 6 => \/ queue = <<"block">> /\ tun.st = "connected"
                   \/ \E e \in Range(stream) : e.st = "error"
  BY <1>2, <1>3 DEF Revoking
<1>5. op <= 5 => Steers /\ Tracks
  BY <1>2, <1>3 DEF Steers, Steered
<1>6. CASE Continue
  <2>1. op' = op + 1 /\ at' = "call" /\ op \in Nat \ {0}
    BY <1>6 DEF Continue, Place
  <2>2. CASE op = 1
    <3>1. LoginAccount
      BY <1>1, <1>2, <1>3, <1>6, <2>2, CleanGoesOn, OneCallOf, RevokedScript
    <3>2. account'.mine = "ok"
      BY <1>2, <1>3, <2>2, <3>1, RevokedScript DEF LoginAccount, Books
    <3>3. QED
      BY <2>1, <2>2, <3>2, Numerals
  <2>3. CASE op = 2
    <3>1. op' = 3 /\ Steers'
      BY SMT, <1>1, <2>1, <2>3 DEF Steers
    <3>2. Script'[op' - 1] = Op /\ op' > 1 /\ Op.do = "connect"
      BY <1>2, <1>3, <1>6, <2>3, Continues, RevokedScript
    <3>3. Stands'
      BY <1>1, <2>1, <3>1, <3>2, SteeredStep DEF Steered, Tracks, Left, Firm
    <3>4. ~OneCall
      BY <3>2, OneCallFacts
    <3>5. UNCHANGED account
      <4>1. ~RotateKey /\ ~NoticesRevocation
        <5>1. op + 1 # op
          BY SMT, <2>1
        <5>2. QED
          BY <2>1, <5>1 DEF RotateKey, NoticesRevocation
      <4>2. QED
        BY <3>4, <4>1, AccountStep DEF OneCall
    <3>6. QED
      BY <1>4, <2>1, <2>3, <3>1, <3>3, <3>5, Numerals
  <2>4. CASE op = 3
    <3>1. RevokeDevice
      BY <1>1, <1>2, <1>3, <1>6, <2>4, CleanGoesOn, OneCallOf, RevokedScript
    <3>2. account'.mine = "removed"
      BY <3>1 DEF RevokeDevice, Books
    <3>3. Stands'
      BY <1>4, <2>4, <3>1, SameTunnel DEF RevokeDevice, daemon
    <3>4. QED
      BY <2>1, <2>4, <3>2, <3>3, Numerals
  <2>5. CASE op = 4
    <3>1. EventsListen
      BY <1>1, <1>2, <1>3, <1>6, <2>5, CleanGoesOn, OneCallOf, RevokedScript
    <3>2. listens' = "yes" /\ UNCHANGED <<target, queue, wants, tun, cfg, account>>
      BY <3>1 DEF EventsListen, daemon
    <3>3. Stands'
      BY <1>4, <2>5, <3>2, SameTunnel
    <3>4. QED
      BY <1>4, <2>1, <2>5, <3>2, <3>3, Numerals
  <2>6. CASE op = 5
    <3>1. UpdateDevice
      BY <1>1, <1>2, <1>3, <1>6, <2>6, CleanGoesOn, OneCallOf, RevokedScript
    <3>2. queue = <<>> /\ tun.st = Outcome(cfg.kind) /\ cfg.kind = "good"
      BY SMT, <1>3, <1>4, <1>5, <2>6 DEF Stands, Tracks, KindOf
    <3>3. listens' = "yes" /\ queue' = <<"block">> /\ tun'.st = "connected"
      BY SMT, <1>4, <2>6, <3>1, <3>2 DEF UpdateDevice, Outcome
    <3>4. QED
      BY <2>1, <2>6, <3>3, Numerals
  <2>7. CASE op > 5
    BY SMT, <2>1, <2>7
  <2>8. op \in {1, 2, 3, 4, 5} \/ op > 5
    BY SMT, <2>1
  <2>9. QED
    BY <2>2, <2>3, <2>4, <2>5, <2>6, <2>7, <2>8
<1>7. CASE ~Continue
  <2>1. op' = op
    BY <1>1, <1>2, <1>7, OpStep
  <2>2. account'.mine = account.mine
    BY <1>1, <1>2, <1>7, MineStays
  <2>3. ~OneCall
    BY <1>2, <1>7, OneCallFacts
  <2>4. op \in {3, 4, 5} => UNCHANGED <<at, target, queue, wants, tun, cfg, listens>>
    <3>1. SUFFICES ASSUME op \in {3, 4, 5}
                   PROVE  UNCHANGED <<at, target, queue, wants, tun, cfg, listens>>
      OBVIOUS
    <3>2. Op.do \in {"revoke", "listen", "update"}
      BY <1>2, <1>3, <3>1, RevokedScript
    <3>3. RotateKey \/ UNCHANGED vars
      <4>1. op <= 5
        BY SMT, <3>1
      <4>2. ~TakeCommand /\ ~TunnelStep
        BY <1>2, <1>4, <1>5, <3>1, <4>1, StandsStill
      <4>3. QED
        BY <1>1, <1>2, <1>7, <2>3, <3>2, <4>2, CleanStep
    <3>4. QED
      BY <3>3 DEF RotateKey, vars, daemon
  <2>5. op \in {3, 4, 5} => Stands'
    BY <1>4, <2>4, SameTunnel
  <2>6. op = 6 => /\ listens' = "yes"
                  /\ \/ queue' = <<"block">> /\ tun'.st = "connected"
                     \/ \E e \in Range(stream') : e.st = "error"
    <3>1. SUFFICES ASSUME op = 6
                   PROVE  /\ listens' = "yes"
                          /\ \/ queue' = <<"block">> /\ tun'.st = "connected"
                             \/ \E e \in Range(stream') : e.st = "error"
      OBVIOUS
    <3>2. listens = "yes" /\ (\/ queue = <<"block">> /\ tun.st = "connected"
                              \/ \E e \in Range(stream) : e.st = "error")
      BY <1>4, <3>1
    <3>3. Op.do = "next" /\ Op.arg = {"error"} /\ Accept(Op) = {"error"}
      BY <1>2, <1>3, <3>1, RevokedScript DEF Accept
    <3>4. NextEvent \/ TimesOut \/ TakeCommand \/ TunnelStep \/ RotateKey \/ UNCHANGED vars
      BY <1>1, <1>2, <2>3, <3>3, CleanStep
    <3>5. CASE NextEvent
      <4>1. Head(stream).st \notin Accept(Op)
        BY <1>2, <1>7, <3>5 DEF NextEvent, Conclude
      <4>2. stream' = Tail(stream) /\ stream # <<>> /\ UNCHANGED <<listens, queue, tun>>
        BY <3>5, <4>1 DEF NextEvent, daemon
      <4>3. Range(stream) = Range(stream') \cup {Head(stream)}
        BY <4>2, TakeEvent DEF Shape
      <4>4. QED
        BY <3>2, <3>3, <4>1, <4>2, <4>3
    <3>6. CASE TimesOut
      BY <1>2, <1>7, <3>6 DEF TimesOut, Conclude
    <3>7. CASE TakeCommand \/ TunnelStep \/ RotateKey
      <4>1. UNCHANGED listens
        BY <3>7 DEF TakeCommand, TunnelStep, RotateKey
      <4>2. Range(stream) \subseteq Range(stream')
        BY <3>2, <3>7, OutsideEvents, PublishFacts, AppendEvent DEF Outside, Shape
      <4>3. CASE TakeCommand /\ queue = <<"block">> /\ tun.st = "connected"
        <5>1. Publish(State("error"))
          BY SMT, <4>3 DEF TakeCommand
        <5>2. State("error") \in Range(stream') /\ State("error").st = "error"
          BY <3>2, <5>1, PublishFacts, TunnelStates
        <5>3. QED
          BY <3>2, <4>1, <5>2
      <4>4. CASE ~TakeCommand /\ queue = <<"block">> /\ tun.st = "connected"
        BY <3>2, <3>7, <4>1, <4>4 DEF TunnelStep, RotateKey, daemon
      <4>5. QED
        BY <3>2, <4>1, <4>2, <4>3, <4>4
    <3>8. CASE UNCHANGED vars
      BY <3>2, <3>8 DEF vars
    <3>9. QED
      BY <3>4, <3>5, <3>6, <3>7, <3>8
  <2>7. QED
    BY <1>4, <2>1, <2>2, <2>4, <2>5, <2>6
<1>8. QED
  BY <1>6, <1>7

(* The script of test_wireguard_key_rotation. *)
LEMMA KeyScript ==
  ASSUME Place, phase = "test", Name = "key_rotation"
  PROVE  /\ Running => op \in {1, 2, 3}
         /\ op = 1 => Op.do = "age"
         /\ op = 2 => Op.do = "listen" /\ Script[op - 1].do = "age"
         /\ op = 3 => Op.do = "next" /\ Op.arg = {"device"}
<1>1. Script = KeyRotation
  BY SMT DEF Script, Name, Scripts
<1>2. Running => op \in {1, 2, 3}
  BY <1>1, OtherScripts, InScript
<1>3. Op = KeyRotation[op]
  BY <1>1 DEF Op
<1>4. op = 1 => Op.do = "age"
  BY <1>3, OtherScripts
<1>5. op = 2 => Op.do = "listen" /\ Script[op - 1].do = "age"
  BY <1>1, <1>3, OtherScripts, Numerals
<1>6. op = 3 => Op.do = "next" /\ Op.arg = {"device"}
  BY <1>3, OtherScripts
<1>7. QED
  BY <1>2, <1>4, <1>5, <1>6

LEMMA RotatingStep ==
  ASSUME Place, Shape, Subscribed, Books, Rotating, [Next]_vars
  PROVE  Rotating'
<1>1. SUFFICES ASSUME Clean', Name' = "key_rotation", ~EndScript
               PROVE  /\ op' = 2 => account'.key = "old"
                      /\ op' = 3 => /\ listens' = "yes"
                                    /\ \/ account'.key = "old"
                                       \/ \E e \in Range(stream') : e.st = "device"
  BY SMT DEF Rotating, EndScript
<1>2. Clean /\ ~Fault /\ ~Fail /\ UNCHANGED <<scn, turn, phase>> /\ phase = "test"
  BY <1>1, CleanBefore DEF Fail, Clean
<1>3. Name = "key_rotation"
  BY <1>1, <1>2 DEF Name
<1>4. /\ op = 2 => account.key = "old"
      /\ op = 3 => /\ listens = "yes"
                   /\ account.key = "old" \/ \E e \in Range(stream) : e.st = "device"
  BY <1>2, <1>3 DEF Rotating
<1>5. CASE Continue
  <2>1. op' = op + 1 /\ at' = "call" /\ op \in Nat \ {0}
    BY <1>5 DEF Continue, Place
  <2>2. CASE op = 1
    <3>1. RestartDaemon /\ Op.do = "age"
      BY <1>1, <1>2, <1>3, <1>5, <2>2, CleanGoesOn, OneCallOf, KeyScript
    <3>2. account'.key = "old"
      BY <3>1 DEF RestartDaemon, Books
    <3>3. QED
      BY <2>1, <2>2, <3>2, Numerals
  <2>3. CASE op = 2
    <3>1. EventsListen
      BY <1>1, <1>2, <1>3, <1>5, <2>3, CleanGoesOn, OneCallOf, KeyScript
    <3>2. listens' = "yes" /\ UNCHANGED account
      BY <3>1 DEF EventsListen
    <3>3. QED
      BY <1>4, <2>1, <2>3, <3>2
  <2>4. CASE op > 2
    BY SMT, <2>1, <2>4
  <2>5. op \in {1, 2} \/ op > 2
    BY SMT, <2>1
  <2>6. QED
    BY <2>2, <2>3, <2>4, <2>5
<1>6. CASE ~Continue
  <2>1. op' = op
    BY <1>1, <1>2, <1>6, OpStep
  <2>2. ~OneCall
    BY <1>2, <1>6, OneCallFacts
  <2>3. CASE op = 2
    <3>1. at = "call" /\ listens = "no"
      BY <1>2, <1>3, <2>3, KeyScript DEF Subscribed, Place
    <3>2. ~RotateKey
      BY <1>2, <3>1 DEF RotateKey
    <3>3. UNCHANGED account
      BY <1>1, <1>2, <2>2, <3>2, AccountStep DEF OneCall, NoticesRevocation
    <3>4. QED
      BY <1>4, <2>1, <2>3, <3>3, Numerals
  <2>4. CASE op = 3
    <3>1. Op.do = "next" /\ Op.arg = {"device"} /\ Accept(Op) = {"device"}
      BY <1>2, <1>3, <2>4, KeyScript DEF Accept
    <3>2. NextEvent \/ TimesOut \/ TakeCommand \/ TunnelStep \/ RotateKey \/ UNCHANGED vars
      BY <1>1, <1>2, <2>2, <3>1, CleanStep
    <3>3. CASE NextEvent
      <4>1. Head(stream).st \notin Accept(Op)
        BY <1>2, <1>6, <3>3 DEF NextEvent, Conclude
      <4>2. stream' = Tail(stream) /\ stream # <<>> /\ UNCHANGED <<listens, account>>
        BY <3>3, <4>1 DEF NextEvent
      <4>3. Range(stream) = Range(stream') \cup {Head(stream)}
        BY <4>2, TakeEvent DEF Shape
      <4>4. QED
        BY <1>4, <2>1, <2>4, <3>1, <4>1, <4>2, <4>3
    <3>4. CASE TimesOut
      BY <1>2, <1>6, <3>4 DEF TimesOut, Conclude
    <3>5. CASE TakeCommand \/ TunnelStep
      <4>1. UNCHANGED <<listens, account>>
        BY <3>5 DEF TakeCommand, TunnelStep
      <4>2. Range(stream) \subseteq Range(stream')
        BY Zenon, <3>5, OutsideEvents, PublishFacts, AppendEvent DEF Outside, Shape
      <4>3. QED
        BY <1>4, <2>1, <2>4, <4>1, <4>2
    <3>6. CASE RotateKey
      <4>1. stream' = Append(stream, State("device")) /\ listens' = "yes"
        BY <1>4, <2>4, <3>6 DEF RotateKey
      <4>2. State("device") \in Range(stream') /\ State("device").st = "device"
        <5>1. Range(stream') = Range(stream) \cup {State("device")}
          BY <4>1, AppendEvent DEF Shape
        <5>2. QED
          BY <5>1, StateFields
      <4>3. QED
        BY SMT, <2>1, <2>4, <4>1, <4>2
    <3>7. CASE UNCHANGED vars
      BY <1>4, <2>1, <2>4, <3>7 DEF vars
    <3>8. QED
      BY <3>2, <3>3, <3>4, <3>5, <3>6, <3>7
  <2>5. QED
    BY <2>1, <2>3, <2>4
<1>7. QED
  BY <1>5, <1>6

(* The scripts of the other tests of the account. *)
LEMMA AccountScript ==
  ASSUME Place, phase = "test"
  PROVE  /\ Name = "too_many_devices" /\ Running => \/ op = 1 /\ Op.do = "fill"
                                                    \/ op = 2 /\ Op.do = "login" /\ Op.arg = "full"
                                                    \/ op = 3 /\ Op.do = "clear"
         /\ Name = "login" /\ Running => \/ op = 1 /\ Op.do = "clear"
                                         \/ op = 2 /\ Op.do = "login" /\ Op.arg = "ok"
         /\ Name = "logout" /\ Running => op = 1 /\ Op.do = "logout"
<1>1. CASE Name = "too_many_devices" /\ Running
  <2>1. Script = TooManyDevices
    BY SMT, <1>1 DEF Script, Name, Scripts
  <2>2. op \in {1, 2, 3}
    BY <1>1, <2>1, OtherScripts, InScript
  <2>3. QED
    BY <1>1, <2>1, <2>2, OtherScripts DEF Op
<1>2. CASE Name = "login" /\ Running
  <2>1. Script = LoginTest
    BY SMT, <1>2 DEF Script, Name, Scripts
  <2>2. op <= 2
    BY <1>2, <2>1, OtherScripts DEF Running
  <2>3. op = 1 \/ op = 2
    BY SMT, <2>2 DEF Place
  <2>4. QED
    BY <1>2, <2>1, <2>3, OtherScripts DEF Op
<1>3. CASE Name = "logout" /\ Running
  <2>1. Script = Logout
    BY SMT, <1>3 DEF Script, Name, Scripts
  <2>2. op <= 1
    BY <1>3, <2>1, OtherScripts DEF Running
  <2>3. op = 1
    BY SMT, <2>2 DEF Place
  <2>4. QED
    BY <1>3, <2>1, <2>3, OtherScripts DEF Op
<1>4. QED
  BY <1>1, <1>2, <1>3

(* test_too_many_devices fills the account, test_login empties it. *)
LEMMA CountedStep ==
  ASSUME Place, Books, Counted, [Next]_vars
  PROVE  Counted'
<1>1. SUFFICES ASSUME Clean', ~EndScript, op' = 2, Name' \in {"too_many_devices", "login"}
               PROVE  account'.devices = IF Name' = "too_many_devices" THEN MaxDevices ELSE 0
  BY SMT DEF Counted, EndScript
<1>2. Clean /\ ~Fault /\ ~Fail /\ UNCHANGED <<scn, turn, phase>> /\ phase = "test"
  BY <1>1, CleanBefore DEF Fail, Clean
<1>3. Name' = Name
  BY <1>2 DEF Name
<1>4. CASE Continue
  <2>1. op = 1
    BY SMT, <1>1, <1>4 DEF Continue, Place
  <2>2. OneCall \/ Op.do \in {"connect", "disconnect", "begin", "wait", "next", "listen"}
    BY <1>1, <1>2, <1>4, CleanGoesOn
  <2>3. Running
    <3>1. op' # op
      BY <1>1, <2>1, Numerals
    <3>2. ~TakeCommand /\ ~TunnelStep /\ ~RotateKey /\ ~UNCHANGED vars
      BY <3>1, OutsideFacts DEF Outside, vars
    <3>3. QED
      BY <1>1, <1>2, <3>2, CleanStep, OneCallFacts
  <2>4. CASE Name = "too_many_devices"
    <3>1. FillDevices
      BY <1>2, <2>1, <2>2, <2>3, <2>4, Numerals, AccountScript, OneCallOf
    <3>2. account'.devices = MaxDevices
      BY <1>2, <3>1 DEF FillDevices, Books
    <3>3. QED
      BY <1>3, <2>4, <3>2
  <2>5. CASE Name = "login"
    <3>1. ClearDevices
      BY <1>2, <2>1, <2>2, <2>3, <2>5, Numerals, AccountScript, OneCallOf
    <3>2. account'.devices = 0
      BY <1>2, <3>1 DEF ClearDevices, Books
    <3>3. QED
      BY <1>3, <2>5, <3>2
  <2>6. QED
    BY <1>1, <1>3, <2>4, <2>5
<1>5. CASE ~Continue
  <2>1. op = 2
    BY <1>1, <1>2, <1>5, OpStep
  <2>2. account'.devices = account.devices
    BY <1>2, <1>5, DevicesStep
  <2>3. QED
    BY <1>1, <1>2, <1>3, <2>1, <2>2 DEF Counted
<1>6. QED
  BY <1>4, <1>5

----------------------------------------------------------------------------
(* A test fails for a reason.                                               *)

(* Where a step of a test that nothing goes wrong in can fail. *)
LEMMA WhoFails ==
  ASSUME Place, Clean, [Next]_vars, ~EndScript, ~Fault, Fail
  PROVE  /\ Running
         /\ \/ AssertState /\ Op.do = "assert"
            \/ CheckTunnel /\ Op.do = "check"
            \/ LoginAccount /\ Op.do = "login"
            \/ ReadState \/ NextEvent \/ TimesOut
<1>1. ~Continue /\ phase' # phase
  BY DEF Continue, Fail, Clean
<1>2. ~Outside /\ ~UNCHANGED vars
  BY <1>1, OutsideFacts DEF vars
<1>3. ~CallTunnel /\ ~EventsListen
  BY <1>1 DEF CallTunnel, EventsListen
<1>4. CASE OneCall
  <2>1. AssertState \/ CheckTunnel \/ LoginAccount
    BY <1>1, <1>4 DEF OneCall, SetSettings, SetAutoConnect, RestartDaemon, FillDevices,
       ClearDevices, RevokeDevice, UpdateDevice, LogoutAccount
  <2>2. QED
    BY <2>1 DEF AssertState, CheckTunnel, LoginAccount, Doing
<1>5. CASE ReadState \/ NextEvent \/ TimesOut
  BY <1>5 DEF ReadState, NextEvent, TimesOut, Waiting
<1>6. QED
  BY <1>2, <1>3, <1>4, <1>5, CleanStep DEF Outside

(* It waits for an event that has come or will come, and accepts it. *)
LEMMA NextHolds ==
  ASSUME Place, Shape, Clean, NextEvent \/ TimesOut, Op.do = "next", "failed" \notin Op.arg,
         ~Fault, listens = "yes",
         queue # <<>> \/ account.key = "old" \/ \E e \in Range(stream) : e.st \in Op.arg
  PROVE  ~Fail
<1>1. phase = "test"
  BY DEF Clean
<1>2. CASE NextEvent
  <2>1. CASE Head(stream).st \in Accept(Op)
    <3>1. Satisfies(Op, Head(stream).st)
      BY <2>1 DEF Accept, Satisfies
    <3>2. QED
      BY <1>1, <1>2, <2>1, <3>1 DEF NextEvent, Conclude, Continue, Fail
  <2>2. CASE Head(stream).st \notin Accept(Op)
    BY <1>1, <1>2, <2>2 DEF NextEvent, Fail
  <2>3. QED
    BY <2>1, <2>2
<1>3. CASE TimesOut
  <2>1. stream = <<>> /\ queue = <<>> /\ Quiet
    BY <1>3 DEF TimesOut
  <2>2. account.key = "old"
    BY <2>1, EmptyStream
  <2>3. QED
    BY <2>1, <2>2 DEF Quiet
<1>4. QED
  BY <1>2, <1>3

(* A test in which nothing goes wrong fails for one reason only: there is no *)
(* room for the device that test_revoked_device logs in with.               *)
LEMMA CleanFails ==
  ASSUME Orderly, IInv, ReasonInv, Clean, [Next]_vars, ~EndScript, ~Fault, Fail
  PROVE  op = 1 /\ account.devices = MaxDevices
<1> USE DEF IInv, StreamInv, LookInv, FreshInv, DownInv, ReasonInv
<1>1. /\ Running /\ phase = "test" /\ ~Continue
      /\ Name \in DOMAIN Scripts
  BY WhoFails, ScenarioAssumption DEF Clean, Continue, Fail, Place, Name
<1>2. CASE Steers
  <2>1. Tracks
    BY <1>2 DEF Steered
  <2>2. LoginAccount /\ Op.do = "login"
    BY <1>1, <1>2, <2>1, WhoFails, ChecksHold, ReadTracks, EventTracks, TimeoutTracks
  <2>3. Name = "revoked_device" /\ op <= 5
    BY <1>1, <1>2, <2>2, SteersHere DEF FitsAt, Op
  <2>4. op = 1 /\ Op.arg = "ok"
    BY <1>1, <2>2, <2>3, RevokedScript
  <2>5. account.devices >= MaxDevices
    BY SMT, <1>1, <2>2, <2>4, DevicesAssumption DEF LoginAccount, Books
  <2>6. QED
    BY SMT, <2>4, <2>5, DevicesAssumption DEF Books
<1>3. CASE Name = "revoked_device" /\ ~Steers
  <2>1. op = 6
    BY SMT, <1>1, <1>3, RevokedScript DEF Steers
  <2>2. Op.do = "next" /\ Op.arg = {"error"} /\ at = "call"
    BY <1>1, <1>3, <2>1, RevokedScript DEF Place
  <2>3. NextEvent \/ TimesOut
    BY <2>2, WhoFails DEF ReadState
  <2>4. listens = "yes" /\ (queue # <<>> \/ \E e \in Range(stream) : e.st \in Op.arg)
    BY SMT, <1>3, <2>1, <2>2 DEF Revoking
  <2>5. QED
    BY <2>2, <2>3, <2>4, NextHolds
<1>4. CASE Name = "key_rotation"
  <2>1. op = 3 /\ Op.do = "next" /\ Op.arg = {"device"} /\ at = "call"
    <3>1. op \in {1, 2, 3}
      BY <1>1, <1>4, KeyScript
    <3>2. Op.do \notin {"age", "listen"}
      BY WhoFails DEF Place, ReadState, NextEvent, TimesOut, Waiting
    <3>3. QED
      BY <1>1, <1>4, <3>1, <3>2, KeyScript DEF Place
  <2>2. NextEvent \/ TimesOut
    BY <2>1, WhoFails DEF ReadState
  <2>3. listens = "yes" /\ (account.key = "old" \/ \E e \in Range(stream) : e.st \in Op.arg)
    BY <1>4, <2>1 DEF Rotating
  <2>4. QED
    BY <2>1, <2>2, <2>3, NextHolds
<1>5. CASE Name \in {"too_many_devices", "login", "logout"}
  <2>1. Op.do \in {"fill", "clear", "logout", "login"}
    BY <1>1, <1>5, AccountScript
  <2>2. LoginAccount /\ Op.do = "login"
    BY <2>1, WhoFails DEF Place, ReadState, NextEvent, TimesOut, Waiting
  <2>3. CASE Name = "too_many_devices"
    <3>1. op = 2 /\ Op.arg = "full"
      BY <1>1, <2>2, <2>3, AccountScript
    <3>2. account.devices = MaxDevices /\ MaxDevices \in Nat
      BY <2>3, <3>1, DevicesAssumption DEF Counted
    <3>3. QED
      BY SMT, <1>1, <2>2, <3>1, <3>2 DEF LoginAccount
  <2>4. CASE Name = "login"
    <3>1. op = 2 /\ Op.arg = "ok"
      BY <1>1, <2>2, <2>4, AccountScript
    <3>2. account.devices = 0 /\ MaxDevices \in Nat \ {0}
      BY <2>4, <3>1, DevicesAssumption DEF Counted
    <3>3. QED
      BY SMT, <1>1, <2>2, <3>1, <3>2 DEF LoginAccount
  <2>5. CASE Name = "logout"
    BY <1>1, <2>2, <2>5, AccountScript
  <2>6. QED
    BY <1>5, <2>3, <2>4, <2>5
<1>6. QED
  BY <1>1, <1>2, <1>3, <1>4, <1>5 DEF Steers, TunnelTest, AccountTests

LEMMA ReasonStep ==
  ASSUME Orderly, IInv, ReasonInv, [Next]_vars
  PROVE  FailsForAReason'
<1> USE DEF IInv, StreamInv, LookInv, ReasonInv
<1>1. SUFFICES ASSUME verdict'[turn'] = "fail", phase' = "cleanup", scn'.prompt
               PROVE  faults' > mark'.faults \/ (mark'.devices = MaxDevices /\ turn' = 2)
  BY DEF FailsForAReason
<1>2. faults \in Nat /\ mark.faults \in Nat /\ mark.faults <= faults /\ (faults' = faults \/ Fault)
  BY FaultStep DEF Books
<1>3. ~EndScript
  <2>1. SUFFICES ASSUME EndScript, phase = "test"
                 PROVE  verdict'[turn'] # "fail"
    BY <1>1 DEF EndScript
  <2>2. verdict' = [verdict EXCEPT ![turn] = "pass"] /\ UNCHANGED turn
    BY <2>1 DEF EndScript
  <2>3. verdict = <<verdict[1], verdict[2]>> /\ turn \in {1, 2}
    BY DEF Books, Place
  <2>4. turn \in DOMAIN verdict
    BY SMT, <2>3
  <2>5. QED
    BY <2>2, <2>4
<1>4. UNCHANGED <<scn, turn, mark>> /\ (UNCHANGED <<phase, verdict>> \/ Fail)
  BY <1>3, TestStep
<1>5. CASE phase = "cleanup"
  <2>1. UNCHANGED <<phase, verdict>>
    BY <1>1, <1>4, <1>5 DEF Fail
  <2>2. faults > mark.faults \/ (mark.devices = MaxDevices /\ turn = 2)
    BY <1>1, <1>4, <1>5, <2>1 DEF FailsForAReason
  <2>3. QED
    BY SMT, <1>2, <1>4, <2>2 DEF Fault
<1>6. CASE phase # "cleanup"
  <2>1. Fail /\ phase = "test"
    BY <1>1, <1>4, <1>6 DEF Fail
  <2>2. CASE Fault \/ faults # mark.faults
    BY SMT, <1>2, <1>4, <2>2 DEF Fault
  <2>3. CASE ~Fault /\ faults = mark.faults
    <3>1. Clean
      BY <1>1, <1>4, <2>1, <2>3 DEF Clean
    <3>2. op = 1 /\ account.devices = MaxDevices
      BY <1>3, <2>1, <2>3, <3>1, CleanFails
    <3>3. mark.devices = MaxDevices
      BY <2>1, <3>2 DEF Books
    <3>4. turn # 1
      <4>1. scn.devices < MaxDevices /\ scn.devices \in Nat /\ MaxDevices \in Nat
        BY SMT, DevicesAssumption DEF Orderly, Place
      <4>2. QED
        <5>1. turn = 1 => mark.devices = scn.devices
          BY <2>1 DEF Books
        <5>2. QED
          BY SMT, <3>3, <4>1, <5>1
    <3>5. QED
      BY <1>4, <3>3, <3>4 DEF Place
  <2>4. QED
    BY <2>2, <2>3
<1>7. QED
  BY <1>5, <1>6

(* With the tests in the order of their priorities, a test that fails although *)
(* the daemon is prompt has met a fault of its own: a request that failed, a   *)
(* stream that was lost, a tunnel that broke, a daemon that was slow or quick   *)
(* on its own; or it could not log in to an account that an earlier test left  *)
(* full (tests/mod.rs cleanup_after_test, helpers.rs wait_for_tunnel_state).   *)
THEOREM TestsFailForAReason ==
  ASSUME Orderly
  PROVE  Spec => []FailsForAReason
<1>1. Init => IInv /\ ReasonInv
  <2>1. SUFFICES ASSUME Init
                 PROVE  ReasonInv
    BY InvInit
  <2>2. op = 1 /\ at = "call" /\ phase = "test"
    BY <2>1 DEF Init
  <2>3. Seen /\ CleanedUp /\ Revoking /\ Rotating /\ Counted /\ FailsForAReason
    BY SMT, <2>2 DEF Seen, CleanedUp, Revoking, Rotating, Counted, FailsForAReason
  <2>4. QED
    BY <2>1, <2>3, BooksInit, OwnDeviceInit, SteeredInit DEF ReasonInv
<1>2. IInv /\ ReasonInv /\ [Next]_vars => IInv' /\ ReasonInv'
  <2>1. SUFFICES ASSUME IInv, ReasonInv, [Next]_vars
                 PROVE  IInv' /\ ReasonInv'
    OBVIOUS
  <2>2. Place /\ Shape /\ Subscribed
    BY <2>1 DEF IInv, StreamInv, LookInv
  <2>3. /\ Books /\ OwnDevice /\ Seen /\ CleanedUp /\ Steered /\ Revoking /\ Rotating /\ Counted
    BY <2>1 DEF ReasonInv
  <2>4. Books' /\ OwnDevice' /\ Seen'
    BY <2>1, <2>2, <2>3, BooksStep, OwnDeviceStep, SeenStep
  <2>5. CleanedUp' /\ Steered' /\ Revoking'
    BY <2>1, <2>3, CleanedUpStep, SteeredStep, RevokingStep
  <2>6. Rotating' /\ Counted'
    BY <2>1, <2>2, <2>3, RotatingStep, CountedStep
  <2>7. IInv' /\ FailsForAReason'
    BY <2>1, InvStep, ReasonStep
  <2>8. QED
    BY <2>4, <2>5, <2>6, <2>7 DEF ReasonInv
<1>3. ReasonInv => FailsForAReason
  BY DEF ReasonInv
<1>4. QED
  BY <1>1, <1>2, <1>3, PTL DEF Spec
============================================================================
