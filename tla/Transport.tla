----------------------------- MODULE Transport -----------------------------
(***************************************************************************)
(* The serial connection between the test manager (host) and the test      *)
(* runner (guest): handshakes, runner RPCs and the reboot of the guest.    *)
(*                                                                         *)
(* Host: one task makes RPCs and runs wait_for_server, ServiceClient::     *)
(* reboot and reset_connected_state; another one runs forward_messages     *)
(* with the handshake forwarder and the codec's is_connected flag.  Guest: *)
(* the runner's main loop, its forward_messages (always connected, no      *)
(* handshake forwarder) and the RPC server.  The link is one FIFO of       *)
(* frames per direction.  Splitting frames into bytes is the subject of    *)
(* module MultiplexCodec, daemon traffic that of module DaemonProxy.       *)
(***************************************************************************)
EXTENDS Naturals, Sequences

CONSTANTS
  MaxCalls,     \* bound on the number of RPCs the manager makes
  MaxRestarts,  \* how often the runner may restart its server without a reboot
  Timely        \* TRUE: no timeout fires, the VM process lives, and the five
                \* seconds between a reboot request and the shutdown are longer
                \* than the answer's way to the manager

ASSUME TransportAssumption ==
  /\ MaxCalls \in Nat
  /\ MaxRestarts \in Nat
  /\ Timely \in BOOLEAN

VARIABLES
  pc,          \* where the manager's task is
  call,        \* the RPC made last: its id and operation
  out,         \* requests queued in the manager's runner channel
  shakeOut,    \* handshaker.1 of the manager: a ping is queued
  fwd,         \* the manager's forward_messages task
  dec,         \* how far decode_inner has got with the frame at the head of g2h
  isConnected, \* ConnectionHandle::is_connected
  fwdRx,       \* ConnectionHandle::handshake_fwd_rx, by sending server instance
  h2g, g2h,    \* the link, host to guest and guest to host
  vm,          \* the guest
  inst,        \* number of server transports the guest has created
  pending,     \* handshaker.1 of the current server: handshakes to send
  srv, done,   \* requests being served, and responses ready to be sent
  doomed,      \* a shutdown is scheduled
  restarts,    \* server restarts so far
  answered,    \* history: instance whose answer was accepted last
  got          \* history: instance of the handshake taken last, 0 for none

mgrVars   == <<pc, call, out, answered, got>>
fwdVars   == <<shakeOut, fwd, dec, isConnected, fwdRx>>
guestVars == <<vm, inst, pending, srv, done, doomed, restarts>>
vars == <<mgrVars, fwdVars, h2g, g2h, guestVars>>

Ops     == {"reboot", "other"}
Request == [id : Nat, op : Ops]
Answer  == [id : Nat, ok : BOOLEAN]
HostFrame  == [kind : {"Handshake"}] \cup [kind : {"TestRunner"}, req : Request]
GuestFrame == [kind : {"Handshake"}, inst : Nat]
         \cup [kind : {"TestRunner"}, inst : Nat, ans : Answer]
         \cup [kind : {"Noise"}]

Ping         == [kind |-> "Handshake"]
Shake(i)     == [kind |-> "Handshake", inst |-> i]
Reply(i, a)  == [kind |-> "TestRunner", inst |-> i, ans |-> a]
Noise        == [kind |-> "Noise"]

FlagTypes ==
  /\ shakeOut \in BOOLEAN
  /\ isConnected \in BOOLEAN
  /\ doomed \in BOOLEAN

StateTypes ==
  /\ pc \in {"connecting", "idle", "calling", "replied", "drained", "waiting",
             "rebooted", "aborted"}
  /\ call \in Request
  /\ out \in Seq(Request)
  /\ fwd \in {"run", "stopped"}
  /\ dec \in {"idle", "skipped", "loaded"}
  /\ fwdRx \in Seq(Nat)
  /\ h2g \in Seq(HostFrame)
  /\ g2h \in Seq(GuestFrame)
  /\ vm \in {"running", "off", "firmware", "dead"}
  /\ inst \in Nat
  /\ pending \in Nat
  /\ srv \in SUBSET Request
  /\ done \in SUBSET Answer
  /\ restarts \in Nat
  /\ answered \in Nat
  /\ got \in Nat

TypeOK == FlagTypes /\ StateTypes

----------------------------------------------------------------------------
(* create_client_transports has just queued the manager's ping.  The guest  *)
(* is still starting, or its first server runs and has queued, sent, or     *)
(* sent before the manager opened the serial port, its first handshake.     *)
(* run() skips the wait (skip_wait) for a VM that was provisioned, where    *)
(* the runner has been started over ssh.                                    *)
Init ==
  /\ pc \in {"connecting", "idle"}
  /\ call = [id |-> 0, op |-> "other"]
  /\ out = <<>>
  /\ shakeOut = TRUE
  /\ fwd = "run"
  /\ dec = "idle"
  /\ isConnected = FALSE
  /\ fwdRx = <<>>
  /\ h2g = <<>>
  /\ \/ vm = "off" /\ inst = 0 /\ pending = 0 /\ g2h = <<>>
     \/ vm = "running" /\ inst = 1 /\ pending = 1 /\ g2h = <<>>
     \/ vm = "running" /\ inst = 1 /\ pending = 0 /\ g2h \in {<<>>, <<Shake(1)>>}
  /\ Timely /\ pc = "idle" => vm = "running"
  /\ srv = {}
  /\ done = {}
  /\ doomed = FALSE
  /\ restarts = 0
  /\ answered = 0
  /\ got = 0

----------------------------------------------------------------------------
(* The manager's task. *)

(* An RPC hands its request to the runner channel. *)
Call(op) ==
  /\ pc = "idle"
  /\ call.id < MaxCalls
  /\ call' = [id |-> call.id + 1, op |-> op]
  /\ out' = Append(out, call')
  /\ pc' = "calling"
  /\ UNCHANGED <<answered, got, fwdVars, h2g, g2h, guestVars>>

(* The RPC's deadline passes, or its channel is closed. *)
CallFails ==
  /\ pc = "calling"
  /\ ~Timely \/ fwd = "stopped"
  /\ pc' = "idle"
  /\ UNCHANGED <<call, out, answered, got, fwdVars, h2g, g2h, guestVars>>

(* reset_connected_state is not atomic: it empties the stream and clears    *)
(* the flag while forward_messages runs on another thread.                  *)
DrainNothing == UNCHANGED fwdRx
DrainShakes == fwdRx' = <<>>

ResetDrain ==
  /\ pc = "replied"
  /\ DrainShakes
  /\ pc' = "drained"
  /\ UNCHANGED <<call, out, answered, got, shakeOut, fwd, dec, isConnected,
                 h2g, g2h, guestVars>>

StayConnected == UNCHANGED isConnected
ClearConnected == isConnected' = FALSE

ResetStore ==
  /\ pc = "drained"
  /\ ClearConnected
  /\ pc' = "waiting"
  /\ UNCHANGED <<call, out, answered, got, shakeOut, fwd, dec, fwdRx,
                 h2g, g2h, guestVars>>

(* wait_for_server takes one handshake.  The stream ending counts as one:   *)
(* forward_messages owns the only sender.                                   *)
WaitForServer ==
  /\ pc \in {"connecting", "waiting"}
  /\ pc' = IF pc = "connecting" THEN "idle" ELSE "rebooted"
  /\ \/ fwdRx # <<>> /\ got' = Head(fwdRx) /\ fwdRx' = Tail(fwdRx)
     \/ fwdRx = <<>> /\ fwd = "stopped" /\ got' = 0 /\ UNCHANGED fwdRx
  /\ UNCHANGED <<call, out, answered, shakeOut, fwd, dec, isConnected,
                 h2g, g2h, guestVars>>

(* CONNECT_TIMEOUT: at the start run() gives up, in a test reboot() fails. *)
WaitTimeout ==
  /\ ~Timely
  /\ pc \in {"connecting", "waiting"}
  /\ pc' = IF pc = "connecting" THEN "aborted" ELSE "idle"
  /\ UNCHANGED <<call, out, answered, got, fwdVars, h2g, g2h, guestVars>>

(* reboot() returns Ok after a last sleep. *)
RebootReturns ==
  /\ pc = "rebooted"
  /\ pc' = "idle"
  /\ UNCHANGED <<call, out, answered, got, fwdVars, h2g, g2h, guestVars>>

----------------------------------------------------------------------------
(* The manager's forward_messages.  Its select is biased: handshakes are    *)
(* sent before requests.  One poll of the codec is SkipNoise, LoadConnected *)
(* and Deliver; the reset may run between them, the task itself may not.    *)

ForwarderIdle == fwd = "run" /\ dec = "idle"

SendPing ==
  /\ ForwarderIdle
  /\ shakeOut
  /\ shakeOut' = FALSE
  /\ h2g' = Append(h2g, Ping)
  /\ UNCHANGED <<mgrVars, fwd, dec, isConnected, fwdRx, g2h, guestVars>>

PingAnyTime == TRUE
PingFirst == ~shakeOut

SendRequest ==
  /\ ForwarderIdle
  /\ PingFirst
  /\ out # <<>>
  /\ h2g' = Append(h2g, [kind |-> "TestRunner", req |-> Head(out)])
  /\ out' = Tail(out)
  /\ UNCHANGED <<pc, call, answered, got, fwdVars, g2h, guestVars>>

(* skip_noise: a disconnected codec drops everything up to a handshake and  *)
(* declares itself connected there.                                         *)
SkipNoise ==
  /\ ForwarderIdle
  /\ g2h # <<>>
  /\ \/ /\ isConnected
        /\ dec' = "skipped"
        /\ UNCHANGED <<isConnected, g2h>>
     \/ /\ ~isConnected
        /\ Head(g2h).kind = "Handshake"
        /\ isConnected' = TRUE
        /\ dec' = "skipped"
        /\ UNCHANGED g2h
     \/ /\ ~isConnected
        /\ Head(g2h).kind # "Handshake"
        /\ g2h' = Tail(g2h)
        /\ UNCHANGED <<isConnected, dec>>
  /\ UNCHANGED <<mgrVars, shakeOut, fwd, fwdRx, h2g, guestVars>>

(* decode_inner reads the flag once more before it decodes. *)
LoadConnected ==
  /\ fwd = "run"
  /\ dec = "skipped"
  /\ dec' = IF isConnected THEN "loaded" ELSE "idle"
  /\ UNCHANGED <<mgrVars, shakeOut, fwd, isConnected, fwdRx, h2g, g2h, guestVars>>

(* The frame is decoded and passed on.  A handshake goes to the handshake   *)
(* forwarder; an answer to the call that waits for it, if one still does;   *)
(* firmware output is no frame, and ends forward_messages with an error.    *)
Decoded ==
  /\ fwd = "run"
  /\ dec = "loaded"
  /\ dec' = "idle"
  /\ g2h' = Tail(g2h)
  /\ UNCHANGED <<call, out, got, shakeOut, isConnected, h2g, guestVars>>

DeliverShake ==
  /\ Decoded
  /\ Head(g2h).kind = "Handshake"
  /\ fwdRx' = Append(fwdRx, Head(g2h).inst)
  /\ UNCHANGED <<pc, answered, fwd>>

DeliverAnswer ==
  /\ Decoded
  /\ Head(g2h).kind = "TestRunner"
  /\ IF pc = "calling" /\ Head(g2h).ans.id = call.id
       THEN /\ answered' = Head(g2h).inst
            /\ pc' = IF call.op = "reboot" /\ Head(g2h).ans.ok THEN "replied" ELSE "idle"
       ELSE UNCHANGED <<pc, answered>>
  /\ UNCHANGED <<fwdRx, fwd>>

DeliverNoise ==
  /\ Decoded
  /\ Head(g2h).kind = "Noise"
  /\ fwd' = "stopped"
  /\ UNCHANGED <<pc, answered, fwdRx>>

Deliver == DeliverShake \/ DeliverAnswer \/ DeliverNoise

(* The VM process dies: the serial stream ends or errors. *)
LinkLost ==
  /\ ~Timely
  /\ fwd = "run"
  /\ fwd' = "stopped"
  /\ vm' = "dead"
  /\ UNCHANGED <<mgrVars, shakeOut, dec, isConnected, fwdRx, h2g, g2h, inst, pending,
                 srv, done, doomed, restarts>>

----------------------------------------------------------------------------
(* The guest: the runner's forward_messages, its RPC server and its reboot. *)

RunnerRecv ==
  /\ vm = "running"
  /\ h2g # <<>>
  /\ h2g' = Tail(h2g)
  /\ \/ /\ Head(h2g).kind = "Handshake"
        /\ pending' = pending + 1
        /\ UNCHANGED srv
     \/ /\ Head(h2g).kind = "TestRunner"
        /\ srv' = srv \cup {Head(h2g).req}
        /\ UNCHANGED pending
  /\ UNCHANGED <<mgrVars, fwdVars, g2h, vm, inst, done, doomed, restarts>>

(* Service::reboot schedules the shutdown in a thread and answers at once;  *)
(* any RPC may answer with an error.                                        *)
Serve(r) ==
  /\ vm = "running"
  /\ r \in srv
  /\ srv' = srv \ {r}
  /\ \E ok \in BOOLEAN :
       /\ done' = done \cup {[id |-> r.id, ok |-> ok]}
       /\ doomed' = (doomed \/ (r.op = "reboot" /\ ok))
  /\ UNCHANGED <<mgrVars, fwdVars, h2g, g2h, vm, inst, pending, restarts>>

ShakeAlways == TRUE
ShakeQueued == pending > 0

SendShake ==
  /\ vm = "running"
  /\ ShakeQueued
  /\ pending' = pending - 1
  /\ g2h' = Append(g2h, Shake(inst))
  /\ UNCHANGED <<mgrVars, fwdVars, h2g, vm, inst, srv, done, doomed, restarts>>

(* The runner's select polls its handshaker before its RPC channel. *)
ShakeFirst == pending = 0

SendReply(a) ==
  /\ vm = "running"
  /\ ShakeFirst
  /\ a \in done
  /\ done' = done \ {a}
  /\ g2h' = Append(g2h, Reply(inst, a))
  /\ UNCHANGED <<mgrVars, fwdVars, h2g, vm, inst, pending, srv, doomed, restarts>>

(* Five seconds after the request the guest goes down with all its state. *)
ShutdownDelay == Timely => pc \notin {"calling", "replied", "drained"}

Shutdown ==
  /\ vm = "running"
  /\ doomed
  /\ ShutdownDelay
  /\ vm' = "off"
  /\ doomed' = FALSE
  /\ h2g' = <<>>
  /\ pending' = 0
  /\ srv' = {}
  /\ done' = {}
  /\ UNCHANGED <<mgrVars, fwdVars, g2h, inst, restarts>>

(* The shutdown command may fail to start; the error is only logged. *)
ShutdownFails ==
  /\ ~Timely
  /\ vm = "running"
  /\ doomed
  /\ doomed' = FALSE
  /\ UNCHANGED <<mgrVars, fwdVars, h2g, g2h, vm, inst, pending, srv, done, restarts>>

(* External: the firmware writes to the serial port, or does not. *)
Firmware ==
  /\ vm = "off"
  /\ vm' = "firmware"
  /\ g2h' \in {g2h, Append(g2h, Noise)}
  /\ UNCHANGED <<mgrVars, fwdVars, h2g, inst, pending, srv, done, doomed, restarts>>

(* create_server_transports queues the first handshake of a server.  What   *)
(* the host sent while nobody listened arrives or is lost.                  *)
NoFirstShake == 0
FirstShake == 1

RunnerStart ==
  /\ vm = "firmware"
  /\ vm' = "running"
  /\ inst' = inst + 1
  /\ pending' = FirstShake
  /\ srv' = {}
  /\ done' = {}
  /\ h2g' \in {h2g, <<>>}
  /\ UNCHANGED <<mgrVars, fwdVars, g2h, doomed, restarts>>

(* The server stops without a reboot and main() starts the next one. *)
ServerRestart ==
  /\ vm = "running"
  /\ restarts < MaxRestarts
  /\ restarts' = restarts + 1
  /\ inst' = inst + 1
  /\ pending' = FirstShake
  /\ srv' = {}
  /\ done' = {}
  /\ UNCHANGED <<mgrVars, fwdVars, h2g, g2h, vm, doomed>>

----------------------------------------------------------------------------
ManagerNext ==
  \/ \E op \in Ops : Call(op)
  \/ CallFails \/ ResetDrain \/ ResetStore
  \/ WaitForServer \/ WaitTimeout \/ RebootReturns

ForwarderNext ==
  SendPing \/ SendRequest \/ SkipNoise \/ LoadConnected \/ Deliver \/ LinkLost

GuestNext ==
  \/ RunnerRecv \/ SendShake
  \/ \E r \in srv : Serve(r)
  \/ \E a \in done : SendReply(a)
  \/ Shutdown \/ ShutdownFails \/ Firmware \/ RunnerStart \/ ServerRestart

Next == ManagerNext \/ ForwarderNext \/ GuestNext

Spec == Init /\ [][Next]_vars

(* Tokio polls every task that is ready, and the guest keeps running.  No   *)
(* RPC has to be made, no timeout has to fire, nothing has to fail.         *)
Fairness ==
  /\ WF_vars(ResetDrain) /\ WF_vars(ResetStore)
  /\ WF_vars(WaitForServer) /\ WF_vars(RebootReturns)
  /\ WF_vars(SendPing) /\ WF_vars(SendRequest)
  /\ WF_vars(SkipNoise) /\ WF_vars(LoadConnected) /\ WF_vars(Deliver)
  /\ WF_vars(RunnerRecv) /\ WF_vars(SendShake)
  /\ WF_vars(\E r \in srv : Serve(r)) /\ WF_vars(\E a \in done : SendReply(a))
  /\ WF_vars(Shutdown) /\ WF_vars(Firmware) /\ WF_vars(RunnerStart)

FairSpec == Spec /\ Fairness

----------------------------------------------------------------------------
(* Freshness of the reboot handshake (ServiceClient::reboot): when reboot() *)
(* has got its handshake, a server transport created after the one that     *)
(* answered the reboot request has sent it, whatever was still in flight    *)
(* when the request was answered; or the link is gone.                      *)
FreshHandshake ==
  pc = "rebooted" => got > answered \/ (got = 0 /\ fwd = "stopped")

(* After a reboot in time the codec is connected and forward_messages runs, *)
(* so the next RPC's answer will not be skipped as noise (the flag that     *)
(* reset_connected_state clears is set again by the handshake it waits for).*)
RebootReconnects ==
  Timely /\ MaxRestarts = 0 /\ pc = "rebooted" => isConnected /\ fwd = "run"

(* decode_inner never discards as noise the answer an RPC waits for: when   *)
(* it leaves the link, the RPC completes.                                   *)
AnswerReachesCaller ==
  [][(/\ Timely /\ MaxRestarts = 0
      /\ g2h # <<>> /\ Head(g2h).kind = "TestRunner"
      /\ Head(g2h).ans.id = call.id
      /\ g2h' = Tail(g2h)
      /\ pc = "calling")
     => pc' # "calling"]_vars

(* Every RPC, reboot() included, and the initial wait_for_server complete   *)
(* when the timing assumptions hold.                                        *)
ManagerReturns == pc # "idle" ~> pc = "idle"
=============================================================================
