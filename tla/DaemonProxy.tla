---------------------------- MODULE DaemonProxy ----------------------------
(***************************************************************************)
(* gRPC between a test and the daemon in the guest.  A test opens one      *)
(* management client after the other.  Each is a session: a duplex pipe    *)
(* that the manager's proxy task (new_rpc_client) ties to the one daemon   *)
(* channel of the serial transport.  In the guest the runner's proxy task  *)
(* (forward_to_mullvad_daemon_interface) ties that channel to a connection *)
(* to the daemon's socket.  An empty frame stands for the end of a session.*)
(*                                                                         *)
(* Host tasks: the test, the proxy, forward_messages.  The channel between *)
(* the last two is a bounded duplex pipe, and a task that sends into a     *)
(* full pipe does nothing else until there is room.  The serial line, the  *)
(* runner's forward_messages and its duplex pipe are one bounded FIFO per  *)
(* direction here.                                                         *)
(***************************************************************************)
EXTENDS Naturals, FiniteSets, Sequences, Functions

CONSTANTS
  MaxSessions,  \* bound on the clients a test opens
  MaxRequests,  \* bound on the requests of a client
  MaxEvents,    \* bound on the frames a daemon connection sends unasked
  MaxStops,     \* bound on the stops of the daemon and reboots of the guest
  DuplexCap,    \* frames the duplex pipe holds (DAEMON_CHANNEL_BUF_SIZE)
  LinkCap       \* frames under way between forward_messages and the runner

ASSUME ProxyAssumption ==
  /\ {MaxSessions, MaxRequests, MaxEvents, MaxStops} \subseteq Nat
  /\ DuplexCap \in Nat \ {0} /\ LinkCap \in Nat \ {0}

VARIABLES
  cur,      \* number of the current client's session, 0 before the first
  status,   \* of that session's pipe
  chan,     \* what the client has written and the proxy not yet read
  nreq,     \* requests it has made
  since,    \* value of stops when it was opened
  got,      \* history: frames it has received
  provider, \* management_channel_provider_rx: a channel is queued
  proxy,    \* the proxy task: where it is
  pHold,    \* the frame it is sending
  upA, dnA, \* duplex pipe between proxy and forward_messages
  fHold,    \* the frame forward_messages is sending, and where
  upL, dnL, \* the link
  runner,   \* the runner's proxy task: where it is
  rHold,    \* the frame it is sending
  conn,     \* what it has written to the open daemon connection
  nresp,    \* frames the daemon has sent on it
  up,       \* the daemon runs
  stops,    \* how often it has stopped, reboots included
  rebooting, \* reboot() has reset the connection and waits for the guest
  fresh,    \* history: the current session was opened on a quiet link
  calm,     \* history: the daemon has not stopped or started in the middle of
            \* what its client was sending, which has sent nothing after a stop
  spoilt    \* history: sessions whose end was not sent, or whose bytes the runner
            \* took for those of another

clientVars == <<cur, status, chan, nreq, since>>
proxyVars  == <<provider, proxy, pHold>>
runnerVars == <<runner, rHold, conn, nresp>>
daemonVars == <<up, stops, rebooting>>
history    == <<fresh, calm, spoilt>>
vars == <<clientVars, got, proxyVars, upA, dnA, fHold, upL, dnL, runnerVars, daemonVars,
          history>>

Data(s, n) == [s |-> s, n |-> n]
Eof   == [s |-> 0, n |-> 0]
None  == [s |-> 0, n |-> 1]

Idle == [to |-> "none", f |-> None]

Init ==
  /\ cur = 0 /\ status = "unused" /\ chan = <<>> /\ nreq = 0 /\ since = 0 /\ got = <<>>
  /\ provider = FALSE /\ proxy = "idle" /\ pHold = None
  /\ upA = <<>> /\ dnA = <<>> /\ fHold = Idle /\ upL = <<>> /\ dnL = <<>>
  /\ runner = "wait" /\ rHold = None /\ conn = <<>> /\ nresp = 0
  /\ up = TRUE /\ stops = 0 /\ rebooting = FALSE
  /\ fresh = TRUE /\ calm = TRUE /\ spoilt = {}

----------------------------------------------------------------------------
(* The test.  It does nothing else while it waits in reboot(). *)

(* Nothing of the last session is under way or connected; what is in the    *)
(* proxy's pipe will be cleared.                                            *)
Settled ==
  /\ fHold = Idle /\ rHold = None /\ upA = <<>> /\ upL = <<>> /\ dnL = <<>>
  /\ runner = "wait"

(* DummyService::call queues a new channel: new_client, after a sleep of    *)
(* 500 ms that is meant to let the link settle, or tonic, at once, when the *)
(* pipe was shut down.  A channel queued while the proxy task still serves  *)
(* a dropped client waits in its queue: it is opened here when the task is  *)
(* free.                                                                    *)
Open ==
  /\ ~rebooting
  /\ cur < MaxSessions
  /\ status # "open"
  /\ ~provider
  /\ proxy = "idle"
  /\ cur' = cur + 1
  /\ status' = "open"
  /\ chan' = <<>>
  /\ nreq' = 0
  /\ since' = stops
  /\ got' = <<>>
  /\ provider' = TRUE
  /\ fresh' = Settled /\ calm' = TRUE
  /\ UNCHANGED <<proxy, pHold, upA, dnA, fHold, upL, dnL, runnerVars, daemonVars, spoilt>>

Request ==
  /\ ~rebooting
  /\ status = "open"
  /\ nreq < MaxRequests
  /\ nreq' = nreq + 1
  /\ chan' = Append(chan, Data(cur, nreq'))
  /\ calm' = (calm /\ since = stops)
  /\ UNCHANGED <<cur, status, since, got, proxyVars, upA, dnA, fHold, upL, dnL,
                 runnerVars, daemonVars, fresh, spoilt>>

Drop ==
  /\ ~rebooting
  /\ status = "open"
  /\ status' = "closed"
  /\ UNCHANGED <<cur, chan, nreq, since, got, proxyVars, upA, dnA, fHold, upL, dnL,
                 runnerVars, daemonVars, history>>

----------------------------------------------------------------------------
(* The manager's proxy task. *)

(* "clear data from last session" *)
KeepLast == UNCHANGED dnA
ClearLast == dnA' = <<>>

TakeChannel ==
  /\ proxy = "idle"
  /\ provider
  /\ provider' = FALSE
  /\ ClearLast
  /\ proxy' = "session"
  /\ UNCHANGED <<clientVars, got, pHold, upA, fHold, upL, dnL, runnerVars, daemonVars, history>>

(* The select of the inner loop prefers the transport.  Leaving the loop    *)
(* drops the client's pipe.                                                 *)
InLoop == proxy = "session" /\ pHold = None

LeaveLoop ==
  /\ proxy' = "idle"
  /\ status' = IF status = "open" THEN "down" ELSE status
  /\ chan' = <<>>

(* A frame for the client.  The task shuts the pipe down when the frame is  *)
(* empty.  If the client is gone the write fails, and the task leaves the   *)
(* loop without an empty frame for the runner.                              *)
ProxyDown ==
  /\ InLoop
  /\ dnA # <<>>
  /\ dnA' = Tail(dnA)
  /\ IF Head(dnA) = Eof \/ status = "closed"
       THEN LeaveLoop /\ UNCHANGED got
       ELSE got' = Append(got, Head(dnA)) /\ UNCHANGED <<proxy, status, chan>>
  /\ spoilt' = IF status = "closed" THEN spoilt \cup {cur} ELSE spoilt
  /\ UNCHANGED <<cur, nreq, since, provider, pHold, upA, fHold, upL, dnL,
                 runnerVars, daemonVars, fresh, calm>>

(* Bytes from the client, or its end: an empty read is sent on as an empty  *)
(* frame before the task leaves the loop.                                   *)
EndWithEof  == proxy' = "ending" /\ pHold' = Eof

ProxyUp ==
  /\ InLoop
  /\ dnA = <<>>
  /\ \/ /\ chan # <<>>
        /\ pHold' = Head(chan)
        /\ chan' = Tail(chan)
        /\ UNCHANGED proxy
     \/ /\ chan = <<>> /\ status = "closed"
        /\ EndWithEof
        /\ UNCHANGED chan
  /\ UNCHANGED <<cur, status, nreq, since, got, provider, upA, dnA, fHold, upL, dnL,
                 runnerVars, daemonVars, history>>

ProxySendData ==
  /\ pHold # None /\ pHold # Eof
  /\ Len(upA) < DuplexCap
  /\ upA' = Append(upA, pHold)
  /\ pHold' = None
  /\ UNCHANGED <<clientVars, got, provider, proxy, dnA, fHold, upL, dnL, runnerVars, daemonVars, history>>

ProxySend ==
  /\ pHold # None
  /\ Len(upA) < DuplexCap
  /\ upA' = Append(upA, pHold)
  /\ pHold' = None
  /\ proxy' = IF proxy = "ending" THEN "idle" ELSE proxy
  /\ UNCHANGED <<clientVars, got, provider, dnA, fHold, upL, dnL, runnerVars, daemonVars, history>>

----------------------------------------------------------------------------
(* forward_messages of the manager: one frame at a time, serial first.      *)
(* Its decoder discards what comes before the handshake of the next boot.   *)

FBlocked ==
  \/ fHold.to = "proxy" /\ Len(dnA) = DuplexCap
  \/ fHold.to = "link" /\ Len(upL) = LinkCap

FwdTakeDown ==
  /\ fHold = Idle
  /\ dnL # <<>> /\ ~rebooting
  /\ fHold' = [to |-> "proxy", f |-> Head(dnL)]
  /\ dnL' = Tail(dnL)
  /\ UNCHANGED <<clientVars, got, proxyVars, upA, dnA, upL, runnerVars, daemonVars, history>>

FwdTakeUpBuffered ==
  /\ fHold = Idle
  /\ dnL = <<>> \/ rebooting
  /\ Len(upA) > 1
  /\ fHold' = [to |-> "link", f |-> Head(upA)]
  /\ upA' = Tail(upA)
  /\ UNCHANGED <<clientVars, got, proxyVars, dnA, upL, dnL, runnerVars, daemonVars, history>>

FwdTakeUp ==
  /\ fHold = Idle
  /\ dnL = <<>> \/ rebooting
  /\ upA # <<>>
  /\ fHold' = [to |-> "link", f |-> Head(upA)]
  /\ upA' = Tail(upA)
  /\ UNCHANGED <<clientVars, got, proxyVars, dnA, upL, dnL, runnerVars, daemonVars, history>>

FwdSend ==
  /\ fHold # Idle
  /\ ~FBlocked
  /\ fHold' = Idle
  /\ \/ fHold.to = "proxy" /\ dnA' = Append(dnA, fHold.f) /\ UNCHANGED upL
     \/ fHold.to = "link" /\ upL' = Append(upL, fHold.f) /\ UNCHANGED dnA
  /\ UNCHANGED <<clientVars, got, proxyVars, upA, dnL, runnerVars, daemonVars, history>>

----------------------------------------------------------------------------
(* The runner's proxy task and the daemon. *)

Disconnect == runner' = "wait" /\ conn' = <<>> /\ nresp' = 0

Refuse == rHold' = Eof

(* The first frame of a session opens the connection; a connection that     *)
(* cannot be opened is answered with an empty frame.  If the daemon stops   *)
(* between connecting and writing, the frame is lost and nobody is told.    *)
RunnerFirst ==
  /\ runner = "wait" /\ rHold = None
  /\ upL # <<>>
  /\ upL' = Tail(upL)
  /\ \/ /\ Head(upL) = Eof
        /\ UNCHANGED runnerVars
     \/ /\ Head(upL) # Eof /\ up
        /\ runner' = "connected"
        /\ conn' = <<Head(upL)>>
        /\ nresp' = 0
        /\ UNCHANGED rHold
     \/ /\ Head(upL) # Eof /\ ~up
        /\ Refuse
        /\ UNCHANGED <<runner, conn, nresp>>
     \/ /\ Head(upL) # Eof /\ ~up
        /\ since # stops \/ Head(upL).s # cur
        /\ UNCHANGED runnerVars
  /\ UNCHANGED <<clientVars, got, proxyVars, upA, dnA, fHold, dnL, daemonVars, history>>

RunnerUp ==
  /\ runner = "connected" /\ rHold = None
  /\ upL # <<>>
  /\ upL' = Tail(upL)
  /\ IF Head(upL) = Eof
       THEN Disconnect /\ UNCHANGED spoilt
       ELSE /\ conn' = Append(conn, Head(upL)) /\ UNCHANGED <<runner, nresp>>
            /\ spoilt' = IF Head(upL).s = conn[1].s THEN spoilt ELSE spoilt \cup {Head(upL).s}
  /\ UNCHANGED <<clientVars, got, proxyVars, upA, dnA, fHold, dnL, rHold, daemonVars,
                 fresh, calm>>

(* The daemon answers each request, and sends events.  Its frames belong to *)
(* the session that opened the connection.                                  *)
RunnerDown ==
  /\ runner = "connected" /\ rHold = None
  /\ nresp < Len(conn) + MaxEvents
  /\ nresp' = nresp + 1
  /\ rHold' = Data(conn[1].s, nresp')
  /\ UNCHANGED <<clientVars, got, proxyVars, upA, dnA, fHold, upL, dnL, runner, conn,
                 daemonVars, history>>

RunnerSend ==
  /\ rHold # None
  /\ Len(dnL) < LinkCap
  /\ dnL' = Append(dnL, rHold)
  /\ rHold' = None
  /\ UNCHANGED <<clientVars, got, proxyVars, upA, dnA, fHold, upL, runner, conn, nresp,
                 daemonVars, history>>

(* The daemon stops.  The runner sees the end of the stream and waits for   *)
(* the next session, or gets a read error and sends an empty frame first.   *)
NotSending ==
  chan = <<>> /\ pHold = None /\ upA = <<>> /\ fHold.to # "link" /\ upL = <<>>

Quiet ==
  /\ NotSending
  /\ rHold = None /\ dnL = <<>> /\ fHold = Idle
  /\ proxy = "session" => dnA = <<>>

DaemonStop ==
  /\ up /\ ~rebooting /\ stops < MaxStops
  /\ up' = FALSE
  /\ stops' = stops + 1
  /\ calm' = (calm /\ NotSending)
  /\ UNCHANGED <<clientVars, got, proxyVars, upA, dnA, fHold, upL, dnL, runnerVars,
                 rebooting, fresh, spoilt>>

(* It may also end a connection on which it hears a second client.          *)
Garbled == \E i \in DOMAIN conn : conn[i].s # conn[1].s

UdsEnd ==
  /\ ~up \/ Garbled
  /\ runner = "connected" /\ rHold = None
  /\ Disconnect
  /\ rHold' \in {None, Eof}
  /\ UNCHANGED <<clientVars, got, proxyVars, upA, dnA, fHold, upL, dnL, daemonVars, history>>

DaemonStart ==
  /\ ~up /\ runner = "wait"
  /\ up' = TRUE
  /\ calm' = (calm /\ Quiet)
  /\ UNCHANGED <<clientVars, got, proxyVars, upA, dnA, fHold, upL, dnL, runnerVars, stops,
                 rebooting, fresh, spoilt>>

(* reboot() in the test: reset_connected_state wakes the proxy task if it   *)
(* is waiting in its loop, and the task drops the client's pipe.            *)
NotifyNobody == UNCHANGED <<proxy, status, chan>>
NotifyWaiters == IF InLoop THEN LeaveLoop ELSE UNCHANGED <<proxy, status, chan>>

Reboot ==
  /\ ~rebooting /\ stops < MaxStops
  /\ rebooting' = TRUE
  /\ stops' = stops + 1
  /\ NotifyWaiters
  /\ calm' = (calm /\ NotSending)
  /\ UNCHANGED <<cur, nreq, since, got, provider, pHold, upA, dnA, fHold, upL, dnL,
                 runnerVars, up, fresh, spoilt>>

(* The guest has restarted and sent its handshake; what was under way is    *)
(* lost or was skipped as noise.                                            *)
Rebooted ==
  /\ rebooting
  /\ rebooting' = FALSE
  /\ upL' = <<>> /\ dnL' = <<>>
  /\ Disconnect
  /\ rHold' = None
  /\ up' = TRUE
  /\ UNCHANGED <<clientVars, got, proxyVars, upA, dnA, fHold, stops, history>>

----------------------------------------------------------------------------
Next ==
  \/ Open \/ Request \/ Drop
  \/ TakeChannel \/ ProxyDown \/ ProxyUp \/ ProxySend
  \/ FwdTakeDown \/ FwdTakeUp \/ FwdSend
  \/ RunnerFirst \/ RunnerUp \/ RunnerDown \/ RunnerSend
  \/ DaemonStop \/ UdsEnd \/ DaemonStart
  \/ Reboot \/ Rebooted

Spec == Init /\ [][Next]_vars

(* Every task that can go on does, the daemon answers requests, a daemon    *)
(* that stopped is started again, and the guest comes back from a reboot.   *)
(* Tests need not make requests or drop clients, and nothing has to stop.   *)
Fairness ==
  /\ WF_vars(TakeChannel) /\ WF_vars(ProxyDown) /\ WF_vars(ProxyUp) /\ WF_vars(ProxySend)
  /\ WF_vars(FwdTakeDown) /\ WF_vars(FwdTakeUp) /\ WF_vars(FwdSend)
  /\ WF_vars(RunnerFirst) /\ WF_vars(RunnerUp) /\ WF_vars(RunnerSend)
  /\ WF_vars(RunnerDown) /\ WF_vars(UdsEnd) /\ WF_vars(DaemonStart) /\ WF_vars(Rebooted)

FairSpec == Spec /\ Fairness

----------------------------------------------------------------------------
(* A client that has used the connection when reboot() is called is told:   *)
(* it is not left with a pipe to a daemon that has never heard of it, unless *)
(* it was just sending (notify_waiters reaches only a task that waits), or  *)
(* had sent something after an earlier stop of the daemon.                  *)
RebootEndsSession == rebooting /\ nreq > 0 /\ calm => status # "open"

(* Tasks that wait for each other, or for the next client, to make room in  *)
(* a pipe.                                                                  *)
Jammed ==
  \/ /\ fHold.to = "proxy" /\ Len(dnA) = DuplexCap
     /\ (pHold # None /\ Len(upA) = DuplexCap) \/ (proxy = "idle" /\ ~provider)
  \/ fHold.to = "link" /\ Len(upL) = LinkCap /\ rHold # None /\ Len(dnL) = LinkCap

Answers == SelectSeq(got, LAMBDA f : f.s = cur)

(* Requests are answered, unless the client is dropped or told that the     *)
(* connection is gone, or the daemon has stopped meanwhile; or pipes are    *)
(* full on both sides; or the runner took its bytes for more of those of an *)
(* earlier client, whose end it was not sent.                               *)
Answered ==
  (status = "open" /\ nreq > Len(Answers)) ~>
    \/ nreq <= Len(Answers) \/ status # "open" \/ since # stops
    \/ Jammed \/ cur \in spoilt

(* When a client is dropped, the runner closes its daemon connection, unless *)
(* pipes are full, the proxy task met the drop with a frame in its hand, or  *)
(* the guest rebooted while the client's last bytes were under way.          *)
Released ==
  \A s \in 1..MaxSessions :
    (cur = s /\ status = "closed") ~>
      \/ runner = "wait" \/ conn[1].s # s
      \/ Jammed \/ s \in spoilt \/ ~calm

----------------------------------------------------------------------------
(* What is on its way to the proxy task, and what of it the daemon has sent *)
(* to the client of the current session; the daemon numbers its frames.     *)
ComingDown ==
  (Range(dnA) \cup Range(dnL) \cup {rHold}
     \cup (IF fHold.to = "proxy" THEN {fHold.f} ELSE {})) \ {None}

UnderWay == {f \in ComingDown : f # Eof /\ f.s = cur}
Coming == Cardinality(UnderWay)

(* The daemon connection, if it is the current session's.                   *)
Heard == IF conn # <<>> /\ conn[1].s = cur THEN conn ELSE <<>>

Session == INSTANCE ManagementSession WITH heard <- Heard, coming <- Coming

(* The session began on a quiet link, its client was not sending when the   *)
(* daemon stopped or started and has sent nothing after a stop (a request   *)
(* then opens a second connection in the same session), and its bytes and   *)
(* its end have reached the runner as its own.                              *)
Sound == fresh /\ calm /\ cur \notin spoilt

(* With all its pipes, tasks and frames, full pipes included, the proxy     *)
(* implements sessions that are connected to the daemon directly: what a    *)
(* client sends and receives is its own, in order and complete ("ensure     *)
(* that we don't receive stuff from a previous RPC session", new_client),   *)
(* and it loses its connection only to a stop of the daemon or a reboot.    *)
(* This is so for every session that is Sound, whatever became of earlier   *)
(* ones.                                                                    *)
ImplementsSessions ==
  Session!Init /\ [][Sound' => Session!Next \/ UNCHANGED Session!vars]_vars
=============================================================================
