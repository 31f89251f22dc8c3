------------------------- MODULE DaemonProxyProofs -------------------------
(***************************************************************************)
(* Proofs about DaemonProxy, for every number of sessions, requests,       *)
(* events and stops and pipes of any size: reboot() ends the session of a  *)
(* client that has used it; and the invariant from which                   *)
(* DaemonSessionProofs shows that the proxy implements ManagementSession,  *)
(* with the steps of forward_messages, of the client and of the proxy      *)
(* task.                                                                   *)
(***************************************************************************)
EXTENDS DaemonProxy, TLAPS

\* Zenon proves most steps; the others name the prover they need.
USE ZenonT(30)

Frame == [s : Nat, n : Nat]
Holds == [to : {"none", "proxy", "link"}, f : Frame]

CountTypes ==
  /\ cur \in Nat /\ nreq \in Nat /\ since \in Nat /\ nresp \in Nat /\ stops \in Nat
  /\ nreq <= MaxRequests /\ since <= stops
  /\ cur = 0 => status = "unused" /\ nreq = 0
PlaceTypes ==
  /\ status \in {"unused", "open", "closed", "down"}
  /\ proxy \in {"idle", "session", "ending"}
  /\ runner \in {"wait", "connected"}
FlagTypes ==
  /\ provider \in BOOLEAN /\ up \in BOOLEAN /\ rebooting \in BOOLEAN
  /\ fresh \in BOOLEAN /\ calm \in BOOLEAN
FrameTypes ==
  /\ chan \in Seq(Frame) /\ got \in Seq(Frame) /\ conn \in Seq(Frame)
  /\ upA \in Seq(Frame) /\ dnA \in Seq(Frame) /\ upL \in Seq(Frame) /\ dnL \in Seq(Frame)
  /\ pHold \in Frame /\ rHold \in Frame /\ fHold \in Holds
  /\ fHold = Idle <=> fHold.to = "none"
  /\ runner = "connected" => conn # <<>>
TypeInv == CountTypes /\ PlaceTypes /\ FlagTypes /\ FrameTypes

----------------------------------------------------------------------------
(* Where the tasks are, and what the proxy task still has to do for the     *)
(* client.                                                                  *)
Places ==
  /\ proxy = "idle" => pHold = None
  /\ proxy = "ending" => pHold = Eof /\ status = "closed"
  /\ status = "open" /\ ~provider => proxy = "session"
  /\ status \in {"unused", "down"} => proxy = "idle" /\ ~provider
  /\ provider => proxy = "idle"
  /\ proxy # "session" /\ ~provider => chan = <<>>
  /\ since # stops \/ ~rebooting
  /\ runner = "wait" => conn = <<>> /\ nresp = 0

(* No frame is of a session yet to come. *)
Frames ==
  Range(chan) \cup Range(upA) \cup Range(dnA) \cup Range(upL) \cup Range(dnL)
    \cup Range(conn) \cup {pHold, rHold, fHold.f}
Known == \A f \in Frames : f.s <= cur

(* The way up: link, forward_messages, pipe, proxy task and client.  b is   *)
(* how many of the session's frames have left it at the runner's end.       *)
One(c)    == IF c THEN 1 ELSE 0
Pipe(b)   == b + Len(upL) + One(fHold.to = "link")
Writes(b) == Pipe(b) + Len(upA) + One(pHold # None)
End(b)    == Writes(b) + Len(chan)

(* Frame k of the session: its k-th request or, behind them, its end. *)
Up(b, k, f) ==
  \/ f = Data(cur, k) /\ k <= nreq
  \/ f = Eof /\ k = End(b) /\ status = "closed"

(* The requests of the session are on their way in order, none left out. *)
UpOrder(b) ==
  /\ \A i \in 1..Len(upL) : Up(b, b + i, upL[i])
  /\ fHold.to = "link" => Up(b, Pipe(b), fHold.f)
  /\ \A i \in 1..Len(upA) : Up(b, Pipe(b) + i, upA[i])
  /\ pHold # None => Up(b, Writes(b), pHold)
  /\ \A i \in 1..Len(chan) : chan[i] = Data(cur, Writes(b) + i) /\ Writes(b) + i <= nreq

GoingUp ==
  (Range(upL) \cup Range(upA) \cup Range(chan) \cup {pHold}
     \cup (IF fHold.to = "link" THEN {fHold.f} ELSE {})) \ {None}
OnlyEnd == GoingUp \subseteq {Eof}

UpEnd(b) ==
  /\ End(b) <= nreq + 1
  /\ proxy = "session" \/ provider => End(b) <= nreq
  /\ status = "open" => End(b) = nreq
  /\ proxy = "session" => Eof \notin GoingUp

----------------------------------------------------------------------------
(* The way down: runner, link, forward_messages and pipe. *)
Fwd2 == Len(dnA) + One(fHold.to = "proxy")
Down == Fwd2 + Len(dnL) + One(rHold # None)

Empty == dnA = <<>> /\ dnL = <<>> /\ fHold.to # "proxy" /\ rHold = None

(* An open session has on the way down the frames after those received. *)
Reply(k, f) == f = Eof \/ f = Data(cur, Len(got) + k)

DownOrder ==
  /\ \A i \in 1..Len(dnA) : Reply(i, dnA[i])
  /\ fHold.to = "proxy" => Reply(Fwd2, fHold.f)
  /\ \A i \in 1..Len(dnL) : Reply(Fwd2 + i, dnL[i])
  /\ rHold # None => Reply(Down, rHold)

DownFrames ==
  /\ runner = "connected" =>
       \A f \in ComingDown : f # Eof /\ (f.s = cur => f.n <= nresp)
  /\ status = "open" /\ ~provider /\ Eof \in ComingDown => ~up \/ since # stops
  /\ status = "open" /\ ~provider => DownOrder
  /\ status = "open" /\ runner = "connected" => Len(got) + Down = nresp

(* Nothing comes down before the runner has read the session's first frame. *)
BeforeFirst(b) ==
  runner = "wait" /\ ~provider /\ b = 0 => Empty /\ got = <<>>

----------------------------------------------------------------------------
(* A channel waits for the proxy task with nothing of the last session on   *)
(* the link.                                                                *)
Queued(b) ==
  provider =>
    /\ proxy = "idle" /\ status \in {"open", "closed"} /\ runner = "wait"
    /\ upA = <<>> /\ upL = <<>> /\ fHold = Idle /\ dnL = <<>> /\ rHold = None
    /\ b = 0 /\ got = <<>>
    /\ \A f \in ComingDown : f.s # cur

(* The daemon connection is the current session's, and it is its only one.  *)
Connection(b) ==
  /\ runner = "connected" =>
       /\ cur > 0 /\ Len(conn) = b /\ b > 0 /\ \A i \in 1..b : conn[i] = Data(cur, i)
       /\ ~up => since # stops
       /\ proxy = "idle" /\ ~rebooting => Eof \in GoingUp
  /\ runner = "wait" =>
       /\ b > 0 /\ ~OnlyEnd => ~up
       /\ b = 0 /\ ~OnlyEnd /\ proxy = "idle" /\ ~provider => Eof \in GoingUp
       /\ b > 0 /\ status = "open" /\ since = stops => ~up /\ Eof \in ComingDown
  /\ since # stops => OnlyEnd

SessionInv(b) ==
  /\ UpOrder(b) /\ UpEnd(b) /\ Connection(b) /\ Queued(b) /\ DownFrames /\ BeforeFirst(b)

(* The session is as it should be if it is Sound. *)
ProxyInv ==
  /\ TypeInv /\ Places /\ Known
  /\ Sound => \E b \in 0..(nreq + 1) : SessionInv(b)

----------------------------------------------------------------------------
(* A pipe when it is empty, read and written. *)
LEMMA EmptyPipe == <<>> \in Seq(Frame) /\ Len(<<>>) = 0 /\ Range(<<>>) = {}
BY SMT DEF Range

LEMMA PipeFacts ==
  ASSUME NEW s \in Seq(Frame)
  PROVE  /\ Len(s) \in Nat /\ s = <<>> <=> Len(s) = 0
         /\ \A f : f \in Range(s) <=> \E i \in 1..Len(s) : f = s[i]
         /\ Range(s) \subseteq Frame /\ \A i \in 1..Len(s) : s[i] \in Frame
<1>1. Len(s) \in Nat /\ (s = <<>> <=> Len(s) = 0) /\ DOMAIN s = 1..Len(s)
  BY SMT
<1>2. \A i \in 1..Len(s) : s[i] \in Frame
  BY SMT
<1>3. QED
  BY <1>1, <1>2 DEF Range

LEMMA ReadFacts ==
  ASSUME NEW s \in Seq(Frame), s # <<>>
  PROVE  /\ Head(s) \in Frame /\ Head(s) = s[1] /\ Tail(s) \in Seq(Frame)
         /\ Len(s) \in Nat /\ Len(s) > 0 /\ Len(Tail(s)) = Len(s) - 1
         /\ \A i \in 1..(Len(s) - 1) : Tail(s)[i] = s[i + 1] /\ i + 1 \in 1..Len(s)
         /\ Range(s) = Range(Tail(s)) \cup {Head(s)}
<1>1. /\ Head(s) \in Frame /\ Head(s) = s[1] /\ Tail(s) \in Seq(Frame)
      /\ Len(s) \in Nat /\ Len(s) > 0 /\ Len(Tail(s)) = Len(s) - 1
      /\ \A i \in 1..(Len(s) - 1) : Tail(s)[i] = s[i + 1] /\ i + 1 \in 1..Len(s)
  BY SMT, PipeFacts
<1>2. \A f : f \in Range(s) <=> f = Head(s) \/ f \in Range(Tail(s))
  <2> DEFINE n == Len(s)
             t == Tail(s)
  <2>1. /\ \A f : f \in Range(s) <=> \E i \in 1..n : f = s[i]
        /\ \A f : f \in Range(t) <=> \E i \in 1..(n - 1) : f = t[i]
        /\ \A i \in 1..(n - 1) : t[i] = s[i + 1] /\ i + 1 \in 1..n
    <3>1. t \in Seq(Frame) /\ Len(t) = n - 1 /\ s \in Seq(Frame)
      BY <1>1
    <3>2. \A f : f \in Range(t) <=> \E i \in 1..(n - 1) : f = t[i]
      <4> HIDE DEF t, n
      <4>1. \A f : f \in Range(t) <=> \E i \in 1..Len(t) : f = t[i]
        BY <3>1, PipeFacts
      <4>2. QED
        BY <3>1, <4>1
    <3>3. QED
      BY <1>1, <3>2, PipeFacts
  <2>2. n \in Nat /\ n > 0 /\ Head(s) = s[1]
    BY <1>1
  <2> HIDE DEF n, t
  <2>3. ASSUME NEW f, f \in Range(s) PROVE f = Head(s) \/ f \in Range(t)
    <3>1. PICK i \in 1..n : f = s[i]
      BY <2>1, <2>3
    <3>2. CASE i = 1
      BY <2>2, <3>1, <3>2
    <3>3. CASE i # 1
      <4>1. i - 1 \in 1..(n - 1) /\ (i - 1) + 1 = i
        BY SMT, <2>2, <3>3
      <4>2. t[i - 1] = s[i]
        BY <2>1, <4>1
      <4>3. QED
        BY <2>1, <3>1, <4>1, <4>2
    <3>4. QED
      BY <3>2, <3>3
  <2>4. ASSUME NEW f, f = Head(s) \/ f \in Range(t) PROVE f \in Range(s)
    <3>1. 1 \in 1..n
      BY SMT, <2>2
    <3>2. QED
      BY <2>1, <2>2, <2>4, <3>1
  <2>5. QED
    BY <2>3, <2>4 DEF t
<1>3. QED
  BY <1>1, <1>2

LEMMA WriteFacts ==
  ASSUME NEW s \in Seq(Frame), NEW e \in Frame
  PROVE  /\ Append(s, e) \in Seq(Frame) /\ Append(s, e) # <<>>
         /\ Len(s) \in Nat /\ Len(Append(s, e)) = Len(s) + 1
         /\ \A i \in 1..Len(s) : Append(s, e)[i] = s[i]
         /\ Append(s, e)[Len(s) + 1] = e
         /\ Range(Append(s, e)) = Range(s) \cup {e}
<1>1. /\ Append(s, e) \in Seq(Frame)
      /\ Len(s) \in Nat /\ Len(Append(s, e)) = Len(s) + 1
      /\ \A i \in 1..Len(s) : Append(s, e)[i] = s[i]
      /\ Append(s, e)[Len(s) + 1] = e
  BY SMT, PipeFacts
<1>2. Append(s, e) # <<>>
  BY SMT, <1>1, PipeFacts
<1>3. \A f : f \in Range(Append(s, e)) <=> f = e \/ f \in Range(s)
  <2> DEFINE n == Len(s)
             t == Append(s, e)
  <2>1. /\ \A f : f \in Range(s) <=> \E i \in 1..n : f = s[i]
        /\ \A f : f \in Range(t) <=> \E i \in 1..(n + 1) : f = t[i]
        /\ n \in Nat /\ t[n + 1] = e /\ \A i \in 1..n : t[i] = s[i]
    <3>1. t \in Seq(Frame) /\ Len(t) = n + 1 /\ s \in Seq(Frame)
      BY <1>1
    <3>2. \A f : f \in Range(t) <=> \E i \in 1..(n + 1) : f = t[i]
      <4> HIDE DEF t, n
      <4>1. \A f : f \in Range(t) <=> \E i \in 1..Len(t) : f = t[i]
        BY <3>1, PipeFacts
      <4>2. QED
        BY <3>1, <4>1
    <3>3. QED
      BY <1>1, <3>2, PipeFacts
  <2> HIDE DEF n, t
  <2>2. \A i \in 1..(n + 1) : i = n + 1 \/ i \in 1..n
    BY SMT, <2>1
  <2>3. n + 1 \in 1..(n + 1) /\ \A i \in 1..n : i \in 1..(n + 1)
    BY SMT, <2>1
  <2>4. ASSUME NEW f PROVE f \in Range(t) <=> f = e \/ f \in Range(s)
    <3>1. ASSUME f \in Range(t) PROVE f = e \/ f \in Range(s)
      <4>1. PICK i \in 1..(n + 1) : f = t[i]
        BY <2>1, <3>1
      <4>2. QED
        BY <2>1, <2>2, <4>1
    <3>2. ASSUME f = e \/ f \in Range(s) PROVE f \in Range(t)
      BY <2>1, <2>3, <3>2
    <3>3. QED
      BY <3>1, <3>2
  <2>5. QED
    BY <2>4 DEF t
<1>4. QED
  BY <1>1, <1>2, <1>3

LEMMA DataFacts ==
  ASSUME NEW s \in Nat, NEW n \in Nat
  PROVE  /\ Data(s, n) \in Frame /\ Data(s, n).s = s /\ Data(s, n).n = n
         /\ s > 0 => Data(s, n) # Eof /\ Data(s, n) # None
BY SMT DEF Data, Frame, Eof, None

(* Data, the end of a session and no frame at all are told apart. *)
LEMMA FrameFacts ==
  /\ Eof \in Frame /\ None \in Frame /\ Eof # None /\ Idle \in Holds /\ Idle.to = "none"
  /\ \A s, n \in Nat : Data(s, n) \in Frame /\ Data(s, n).s = s /\ Data(s, n).n = n
  /\ \A s, n \in Nat : s > 0 => Data(s, n) # Eof /\ Data(s, n) # None
  /\ \A s, n, m \in Nat : Data(s, n) = Data(s, m) => n = m
<1>1. Eof \in Frame /\ None \in Frame /\ Eof # None /\ Idle \in Holds /\ Idle.to = "none"
  BY SMT DEF Eof, None, Frame, Idle, Holds
<1>2. ASSUME NEW s \in Nat, NEW n \in Nat
      PROVE  /\ Data(s, n) \in Frame /\ Data(s, n).s = s /\ Data(s, n).n = n
             /\ s > 0 => Data(s, n) # Eof /\ Data(s, n) # None
  BY SMT DEF Data, Frame, Eof, None
<1>3. \A s, n, m \in Nat : Data(s, n) = Data(s, m) => n = m
  BY SMT, <1>2
<1>4. QED
  BY <1>1, <1>2, <1>3

LEMMA HoldFacts ==
  ASSUME NEW h \in Holds
  PROVE  h.to \in {"none", "proxy", "link"} /\ h.f \in Frame
BY DEF Holds

----------------------------------------------------------------------------
(* A client whose channel the proxy task has not taken has all its requests *)
(* still in its pipe, so a reboot that waits for them finds the task in its *)
(* loop.                                                                    *)
Served ==
  /\ cur \in Nat /\ nreq \in Nat /\ chan \in Seq(Frame) /\ calm \in BOOLEAN
  /\ provider => proxy = "idle"
  /\ status = "open" => proxy = IF provider THEN "idle" ELSE "session"
  /\ status = "open" /\ provider /\ nreq > 0 => chan # <<>>
  /\ RebootEndsSession

LEMMA ServedStep ==
  ASSUME Served, [Next]_vars
  PROVE  Served'
<1> USE DEF Served, RebootEndsSession
<1>1. CASE Open
  BY SMT, <1>1, EmptyPipe DEF Open, runnerVars, daemonVars
<1>2. CASE Request
  <2>1. /\ nreq' = nreq + 1 /\ chan' = Append(chan, Data(cur, nreq + 1)) /\ ~rebooting
        /\ UNCHANGED <<cur, status, proxyVars, rebooting>> /\ calm' \in BOOLEAN
    BY <1>2 DEF Request, daemonVars
  <2>2. chan' \in Seq(Frame) /\ chan' # <<>>
    <3>1. Data(cur, nreq + 1) \in Frame
      BY SMT DEF Data, Frame
    <3>2. QED
      BY <2>1, <3>1, WriteFacts
  <2>3. QED
    BY SMT, <2>1, <2>2 DEF proxyVars
<1>3. CASE Drop
  BY <1>3 DEF Drop, proxyVars, daemonVars, history
<1>4. CASE TakeChannel
  BY <1>4 DEF TakeChannel, clientVars, daemonVars, history
<1>5. CASE ProxyDown
  BY <1>5, EmptyPipe DEF ProxyDown, LeaveLoop, InLoop, daemonVars
<1>6. CASE ProxyUp
  <2>1. /\ proxy = "session"
        /\ \/ chan # <<>> /\ chan' = Tail(chan) /\ proxy' = proxy
           \/ chan' = chan /\ status = "closed"
        /\ UNCHANGED <<cur, status, nreq, provider, rebooting, calm>>
    BY <1>6 DEF ProxyUp, InLoop, EndWithEof, daemonVars, history
  <2>2. chan' \in Seq(Frame)
    BY <2>1, ReadFacts
  <2>3. QED
    BY <2>1, <2>2
<1>7. CASE ProxySend
  BY <1>7 DEF ProxySend, clientVars, daemonVars, history
<1>8. CASE Reboot
  <2>1. calm' \in BOOLEAN /\ (calm' => chan = <<>> /\ pHold = None)
    BY <1>8 DEF Reboot, NotSending
  <2>2. QED
    BY <1>8, <2>1, EmptyPipe DEF Reboot, NotifyWaiters, InLoop, LeaveLoop
<1>9. ASSUME UNCHANGED <<clientVars, proxyVars>>, rebooting' => rebooting,
             calm' \in BOOLEAN, calm' => calm
      PROVE  Served'
  BY <1>9 DEF clientVars, proxyVars
<1>10. CASE FwdTakeDown \/ FwdTakeUp \/ FwdSend
  BY <1>9, <1>10 DEF FwdTakeDown, FwdTakeUp, FwdSend, daemonVars, history
<1>11. CASE RunnerFirst \/ RunnerUp \/ RunnerDown \/ RunnerSend \/ UdsEnd
  BY <1>9, <1>11 DEF RunnerFirst, RunnerUp, RunnerDown, RunnerSend, UdsEnd, daemonVars, history
<1>12. CASE DaemonStop \/ DaemonStart \/ Rebooted
  BY <1>9, <1>12 DEF DaemonStop, DaemonStart, Rebooted, history
<1>13. CASE UNCHANGED vars
  BY <1>9, <1>13 DEF vars, daemonVars, history
<1>14. QED
  BY <1>1, <1>2, <1>3, <1>4, <1>5, <1>6, <1>7, <1>8, <1>10, <1>11, <1>12, <1>13 DEF Next

(* reset_connected_state wakes the proxy task: unless the guest is rebooted *)
(* under a client that is sending, or that sent after an earlier stop,      *)
(* reboot() never leaves a client that has used its connection with an open *)
(* pipe, whatever became of earlier sessions and however full the pipes are.*)
THEOREM RebootIsNoticed == Spec => []RebootEndsSession
<1>1. Init => Served
  BY SMT, EmptyPipe DEF Init, Served, RebootEndsSession
<1>2. Served /\ [Next]_vars => Served'
  BY ServedStep
<1>3. Served => RebootEndsSession
  BY DEF Served
<1>4. QED
  BY <1>1, <1>2, <1>3, PTL DEF Spec

----------------------------------------------------------------------------
LEMMA TypeInit == Init => TypeInv
<1> SUFFICES ASSUME Init PROVE TypeInv
  OBVIOUS
<1>1. CountTypes
  BY SMT, ProxyAssumption DEF Init, CountTypes
<1>2. PlaceTypes /\ FlagTypes
  BY DEF Init, PlaceTypes, FlagTypes
<1>3. FrameTypes
  <2>1. fHold = Idle /\ fHold \in Holds /\ fHold.to = "none" /\ pHold \in Frame /\ rHold \in Frame
    BY FrameFacts DEF Init
  <2>2. QED
    BY <2>1, EmptyPipe DEF Init, FrameTypes
<1>4. QED
  BY <1>1, <1>2, <1>3 DEF TypeInv

LEMMA CountStep == CountTypes /\ Next => CountTypes'
<1> SUFFICES ASSUME CountTypes, Next PROVE CountTypes'
  OBVIOUS
<1> USE DEF clientVars, proxyVars, runnerVars, daemonVars
<1>1. CASE Open
  BY SMT, <1>1, ProxyAssumption DEF CountTypes, Open
<1>2. CASE Request \/ Drop
  BY SMT, <1>2, ProxyAssumption DEF CountTypes, Request, Drop
<1>3. ASSUME UNCHANGED <<cur, nreq, since>>, nresp' \in Nat, stops' \in {stops, stops + 1},
             status' \in {status, IF status = "open" THEN "down" ELSE status}
      PROVE  CountTypes'
  BY SMT, <1>3 DEF CountTypes
<1>4. CASE TakeChannel \/ ProxyUp \/ ProxySend \/ FwdTakeDown \/ FwdTakeUp \/ FwdSend
  BY <1>3, <1>4 DEF CountTypes, TakeChannel, ProxyUp, ProxySend, FwdTakeDown, FwdTakeUp, FwdSend
<1>5. CASE ProxyDown \/ Reboot
  BY <1>3, <1>5 DEF CountTypes, ProxyDown, Reboot, NotifyWaiters, LeaveLoop
<1>6. CASE RunnerFirst \/ RunnerUp \/ RunnerDown \/ RunnerSend \/ UdsEnd \/ Rebooted
  <2>1. nresp' \in Nat
    BY SMT, <1>6 DEF CountTypes, RunnerFirst, RunnerUp, RunnerDown, RunnerSend, UdsEnd, Rebooted,
       Disconnect
  <2>2. UNCHANGED <<clientVars, stops>>
    BY <1>6 DEF RunnerFirst, RunnerUp, RunnerDown, RunnerSend, UdsEnd, Rebooted
  <2>3. QED
    BY <1>3, <2>1, <2>2
<1>7. CASE DaemonStop \/ DaemonStart
  BY <1>3, <1>7 DEF CountTypes, DaemonStop, DaemonStart
<1>8. QED
  BY <1>1, <1>2, <1>4, <1>5, <1>6, <1>7 DEF Next

LEMMA PlaceStep == PlaceTypes /\ Next => PlaceTypes'
<1> SUFFICES ASSUME PlaceTypes, Next PROVE PlaceTypes'
  OBVIOUS
<1> USE DEF PlaceTypes, clientVars, proxyVars, runnerVars, daemonVars
<1>1. CASE Open \/ Request \/ Drop
  BY <1>1 DEF Open, Request, Drop
<1>2. CASE TakeChannel \/ ProxyDown \/ ProxyUp \/ ProxySend
  BY <1>2 DEF TakeChannel, ProxyDown, ProxyUp, ProxySend, LeaveLoop, EndWithEof
<1>3. CASE FwdTakeDown \/ FwdTakeUp \/ FwdSend
  BY <1>3 DEF FwdTakeDown, FwdTakeUp, FwdSend
<1>4. CASE RunnerFirst \/ RunnerUp \/ RunnerDown \/ RunnerSend
  BY <1>4 DEF RunnerFirst, RunnerUp, RunnerDown, RunnerSend, Disconnect
<1>5. CASE DaemonStop \/ UdsEnd \/ DaemonStart
  BY <1>5 DEF DaemonStop, UdsEnd, DaemonStart, Disconnect
<1>6. CASE Reboot \/ Rebooted
  BY <1>6 DEF Reboot, Rebooted, NotifyWaiters, LeaveLoop, Disconnect
<1>7. QED
  BY <1>1, <1>2, <1>3, <1>4, <1>5, <1>6 DEF Next

LEMMA FlagStep == FlagTypes /\ Next => FlagTypes'
BY DEF FlagTypes, clientVars, proxyVars, runnerVars, daemonVars, history, Next, Open, Request, Drop,
   Settled, NotSending, Quiet,
   TakeChannel, ProxyDown, ProxyUp, ProxySend, FwdTakeDown, FwdTakeUp, FwdSend, RunnerFirst,
   RunnerUp, RunnerDown, RunnerSend, DaemonStop, UdsEnd, DaemonStart, Reboot, Rebooted

LEMMA FrameStep == TypeInv /\ Next => FrameTypes'
<1> SUFFICES ASSUME TypeInv, Next PROVE FrameTypes'
  OBVIOUS
<1>0. FrameTypes /\ CountTypes
  BY DEF TypeInv
<1> USE DEF clientVars, proxyVars, runnerVars, daemonVars
<1>a. Eof \in Frame /\ None \in Frame /\ <<>> \in Seq(Frame)
      /\ Idle \in Holds /\ Idle.to = "none"
  BY FrameFacts, EmptyPipe
<1>b. ASSUME NEW f \in Frame
      PROVE  /\ [to |-> "proxy", f |-> f] \in Holds /\ [to |-> "link", f |-> f] \in Holds
             /\ [to |-> "proxy", f |-> f] # Idle /\ [to |-> "link", f |-> f] # Idle
             /\ [to |-> "proxy", f |-> f].to = "proxy" /\ [to |-> "link", f |-> f].to = "link"
  BY DEF Holds, Idle
<1>1. CASE Open
  BY <1>0, <1>1, <1>a DEF FrameTypes, Open
<1>2. CASE Request
  <2>1. Data(cur, nreq + 1) \in Frame
    BY SMT, <1>0 DEF CountTypes, Data, Frame
  <2>2. Append(chan, Data(cur, nreq + 1)) \in Seq(Frame)
    BY <1>0, <2>1, WriteFacts DEF FrameTypes
  <2>3. QED
    BY <1>0, <1>2, <2>2 DEF FrameTypes, Request
<1>3. CASE Drop \/ TakeChannel
  BY <1>0, <1>3, <1>a DEF FrameTypes, Drop, TakeChannel, ClearLast
<1>4. CASE ProxyDown
  <2>1. Head(dnA) \in Frame /\ Tail(dnA) \in Seq(Frame)
    BY <1>0, <1>4, ReadFacts DEF FrameTypes, ProxyDown
  <2>2. Append(got, Head(dnA)) \in Seq(Frame)
    BY <1>0, <2>1, WriteFacts DEF FrameTypes
  <2>3. QED
    BY <1>0, <1>4, <1>a, <2>1, <2>2 DEF FrameTypes, ProxyDown, LeaveLoop
<1>5. CASE ProxyUp
  <2>1. chan # <<>> => Head(chan) \in Frame /\ Tail(chan) \in Seq(Frame)
    BY <1>0, ReadFacts DEF FrameTypes
  <2>2. chan' \in Seq(Frame) /\ pHold' \in Frame
    BY <1>0, <1>5, <1>a, <2>1 DEF FrameTypes, ProxyUp, EndWithEof
  <2>3. QED
    BY <1>0, <1>5, <2>2 DEF FrameTypes, ProxyUp
<1>6. CASE ProxySend
  <2>1. Append(upA, pHold) \in Seq(Frame)
    BY <1>0, WriteFacts DEF FrameTypes
  <2>2. QED
    BY <1>0, <1>6, <1>a, <2>1 DEF FrameTypes, ProxySend
<1>7. CASE FwdTakeDown
  <2>1. Head(dnL) \in Frame /\ Tail(dnL) \in Seq(Frame)
    BY <1>0, <1>7, ReadFacts DEF FrameTypes, FwdTakeDown
  <2>2. QED
    BY <1>0, <1>7, <1>b, <2>1 DEF FrameTypes, FwdTakeDown
<1>8. CASE FwdTakeUp
  <2>1. Head(upA) \in Frame /\ Tail(upA) \in Seq(Frame)
    BY <1>0, <1>8, ReadFacts DEF FrameTypes, FwdTakeUp
  <2>2. QED
    BY <1>0, <1>8, <1>b, <2>1 DEF FrameTypes, FwdTakeUp
<1>9. CASE FwdSend
  <2>1. fHold.f \in Frame
    BY <1>0, HoldFacts DEF FrameTypes
  <2>2. Append(dnA, fHold.f) \in Seq(Frame) /\ Append(upL, fHold.f) \in Seq(Frame)
    BY <1>0, <2>1, WriteFacts DEF FrameTypes
  <2>3. /\ dnA' \in Seq(Frame) /\ upL' \in Seq(Frame) /\ fHold' = Idle
        /\ UNCHANGED <<clientVars, got, proxyVars, upA, dnL, runnerVars, daemonVars>>
    BY <1>0, <1>9, <2>2 DEF FrameTypes, FwdSend
  <2>4. QED
    BY <1>0, <1>a, <2>3 DEF FrameTypes
<1>10. CASE RunnerFirst
  <2>1. Head(upL) \in Frame /\ Tail(upL) \in Seq(Frame)
    BY <1>0, <1>10, ReadFacts DEF FrameTypes, RunnerFirst
  <2>2. <<Head(upL)>> \in Seq(Frame) /\ <<Head(upL)>> # <<>>
    BY SMT, <2>1
  <2>3. conn' \in Seq(Frame) /\ rHold' \in Frame /\ (runner' = "connected" => conn' # <<>>)
    BY <1>0, <1>10, <1>a, <2>2 DEF FrameTypes, RunnerFirst, Refuse
  <2>4. QED
    BY <1>0, <1>10, <2>1, <2>3 DEF FrameTypes, RunnerFirst
<1>11. CASE RunnerUp
  <2>1. Head(upL) \in Frame /\ Tail(upL) \in Seq(Frame)
    BY <1>0, <1>11, ReadFacts DEF FrameTypes, RunnerUp
  <2>2. Append(conn, Head(upL)) \in Seq(Frame) /\ Append(conn, Head(upL)) # <<>>
    BY <1>0, <2>1, WriteFacts DEF FrameTypes
  <2>3. QED
    BY <1>0, <1>11, <1>a, <2>1, <2>2 DEF FrameTypes, RunnerUp, Disconnect
<1>12. CASE RunnerDown
  <2>1. conn[1] \in Frame
    <3>1. Len(conn) \in Nat /\ Len(conn) # 0
      BY SMT, <1>0, <1>12, PipeFacts DEF FrameTypes, RunnerDown
    <3>2. QED
      BY SMT, <1>0, <3>1, PipeFacts DEF FrameTypes
  <2>2. Data(conn[1].s, nresp + 1) \in Frame
    BY SMT, <1>0, <2>1 DEF CountTypes, Data, Frame
  <2>3. QED
    BY <1>0, <1>12, <2>2 DEF FrameTypes, RunnerDown
<1>13. CASE RunnerSend
  <2>1. Append(dnL, rHold) \in Seq(Frame)
    BY <1>0, WriteFacts DEF FrameTypes
  <2>2. QED
    BY <1>0, <1>13, <1>a, <2>1 DEF FrameTypes, RunnerSend
<1>14. CASE DaemonStop \/ DaemonStart
  BY <1>0, <1>14 DEF FrameTypes, DaemonStop, DaemonStart
<1>141. CASE UdsEnd
  BY <1>0, <1>141, <1>a DEF FrameTypes, UdsEnd, Disconnect
<1>15. CASE Reboot \/ Rebooted
  BY <1>0, <1>15, <1>a DEF FrameTypes, Reboot, Rebooted, NotifyWaiters, LeaveLoop, Disconnect
<1>16. QED
  BY <1>1, <1>2, <1>3, <1>4, <1>5, <1>6, <1>7, <1>8, <1>9, <1>10, <1>11, <1>12, <1>13,
     <1>14, <1>141, <1>15 DEF Next

LEMMA TypeStep == TypeInv /\ [Next]_vars => TypeInv'
<1>1. TypeInv /\ Next => TypeInv'
  BY CountStep, PlaceStep, FlagStep, FrameStep DEF TypeInv
<1>2. TypeInv /\ UNCHANGED vars => TypeInv'
  BY DEF TypeInv, CountTypes, PlaceTypes, FlagTypes, FrameTypes, vars, clientVars, proxyVars,
     runnerVars, daemonVars, history
<1>3. QED
  BY <1>1, <1>2

----------------------------------------------------------------------------
(* Where the tasks are, for every session. *)

LEMMA PlacesStep == TypeInv /\ Places /\ [Next]_vars => Places'
<1> SUFFICES ASSUME TypeInv, Places, [Next]_vars PROVE Places'
  OBVIOUS
<1>0. PlaceTypes /\ since \in Nat /\ stops \in Nat /\ since <= stops
  BY DEF TypeInv, CountTypes
<1> USE DEF clientVars, proxyVars, runnerVars, daemonVars
<1>1. CASE Open
  BY <1>1 DEF Places, Open
<1>2. CASE Request \/ Drop
  BY SMT, <1>2 DEF Places, Request, Drop
<1>3. CASE TakeChannel
  BY <1>0, <1>3 DEF Places, PlaceTypes, TakeChannel
<1>4. CASE ProxyDown
  BY <1>4 DEF Places, ProxyDown, InLoop, LeaveLoop
<1>5. CASE ProxyUp
  BY <1>5 DEF Places, ProxyUp, InLoop, EndWithEof
<1>6. CASE ProxySend
  BY <1>6 DEF Places, ProxySend
<1>7. CASE FwdTakeDown \/ FwdTakeUp \/ FwdSend
  BY SMT, <1>7 DEF Places, FwdTakeDown, FwdTakeUp, FwdSend
<1>8. CASE RunnerFirst \/ RunnerUp
  BY SMT, <1>8 DEF Places, RunnerFirst, RunnerUp, Disconnect
<1>9. CASE RunnerDown \/ RunnerSend
  BY SMT, <1>9 DEF Places, RunnerDown, RunnerSend
<1>10. CASE UdsEnd \/ Rebooted
  BY SMT, <1>10 DEF Places, UdsEnd, Rebooted, Disconnect
<1>11. CASE DaemonStop \/ DaemonStart \/ Reboot
  <2>1. since # stops + 1
    BY SMT, <1>0
  <2>2. CASE DaemonStop \/ DaemonStart
    BY SMT, <2>1, <2>2 DEF Places, DaemonStop, DaemonStart
  <2>3. CASE Reboot
    BY <1>0, <2>1, <2>3 DEF Places, PlaceTypes, Reboot, NotifyWaiters, InLoop, LeaveLoop
  <2>4. QED
    BY <1>11, <2>2, <2>3
<1>12. CASE UNCHANGED vars
  BY <1>12 DEF Places, vars
<1>13. QED
  BY <1>1, <1>2, <1>3, <1>4, <1>5, <1>6, <1>7, <1>8, <1>9, <1>10, <1>11, <1>12 DEF Next

(* Frames are the client's requests, what the daemon sends on a connection, *)
(* and the ends of sessions.                                                *)
LEMMA KnownStep == TypeInv /\ Known /\ [Next]_vars => Known'
<1> SUFFICES ASSUME TypeInv, Known, [Next]_vars PROVE Known'
  OBVIOUS
<1> DEFINE Old(f) == f \in Frames \/ f = Eof \/ f = None
<1>0. FrameTypes /\ cur \in Nat /\ nreq \in Nat /\ nresp \in Nat
  BY DEF TypeInv, CountTypes
<1>1. /\ \A f \in Frames : f.s <= cur /\ f \in Frame
      /\ Eof.s <= cur /\ None.s <= cur
  <2>1. Eof.s = 0 /\ None.s = 0 /\ 0 <= cur
    BY SMT, <1>0 DEF Eof, None
  <2>2. \A f \in Frames : f \in Frame
    BY <1>0, PipeFacts, HoldFacts DEF Frames, FrameTypes
  <2>3. QED
    BY <2>1, <2>2 DEF Known
<1>2. ASSUME cur' = cur, \A f \in Frames' : Old(f) \/ f.s = cur PROVE Known'
  <2>1. cur <= cur
    BY SMT, <1>0
  <2>2. QED
    BY <1>1, <1>2, <2>1 DEF Known
<1>3. ASSUME NEW s \in Seq(Frame), s # <<>>
      PROVE  Range(Tail(s)) \subseteq Range(s) /\ Head(s) \in Range(s)
  BY <1>3, ReadFacts
<1>4. ASSUME NEW s \in Seq(Frame), NEW e \in Frame
      PROVE  Range(Append(s, e)) = Range(s) \cup {e}
  BY WriteFacts
<1>5. Range(<<>>) = {} /\ Idle.f = None
  BY EmptyPipe DEF Idle
<1>6. fHold.f \in Frame /\ rHold \in Frame /\ pHold \in Frame
  BY <1>0, HoldFacts DEF FrameTypes
<1> USE DEF clientVars, proxyVars, runnerVars, daemonVars
<1>7. CASE Open
  <2>1. \A n \in Nat : n <= cur => n <= cur + 1
    BY SMT, <1>0
  <2>2. cur' = cur + 1 /\ Frames' \subseteq Frames
    BY <1>5, <1>7 DEF Open, Frames
  <2>3. \A f \in Frames : f.s \in Nat
    BY <1>1 DEF Frame
  <2>4. QED
    BY <1>1, <2>1, <2>2, <2>3 DEF Known
<1>8. CASE Request
  <2>1. nreq + 1 \in Nat
    BY SMT, <1>0
  <2>2. Data(cur, nreq + 1) \in Frame /\ Data(cur, nreq + 1).s = cur
    BY <1>0, <2>1, DataFacts
  <2>3. cur' = cur /\ Range(chan') = Range(chan) \cup {Data(cur, nreq + 1)}
    BY <1>0, <1>4, <1>8, <2>2 DEF FrameTypes, Request
  <2>4. QED
    BY <1>2, <1>8, <2>2, <2>3 DEF Request, Frames
<1>9. CASE Drop \/ TakeChannel
  BY <1>2, <1>5, <1>9 DEF Drop, TakeChannel, ClearLast, Frames
<1>10. CASE ProxyDown
  <2>1. Range(dnA') \subseteq Range(dnA) /\ Range(chan') \subseteq Range(chan)
    BY <1>0, <1>3, <1>5, <1>10 DEF FrameTypes, ProxyDown, LeaveLoop
  <2>2. QED
    BY <1>2, <1>10, <2>1 DEF ProxyDown, Frames
<1>11. CASE ProxyUp
  <2>1. Range(chan') \subseteq Range(chan) /\ (pHold' \in Range(chan) \/ pHold' = Eof)
    BY <1>0, <1>3, <1>11 DEF FrameTypes, ProxyUp, EndWithEof
  <2>2. QED
    BY <1>2, <1>11, <2>1 DEF ProxyUp, Frames
<1>12. CASE ProxySend
  <2>1. Range(upA') = Range(upA) \cup {pHold} /\ pHold' = None
    BY <1>0, <1>4, <1>6, <1>12 DEF FrameTypes, ProxySend
  <2>2. QED
    BY <1>2, <1>12, <2>1 DEF ProxySend, Frames
<1>13. CASE FwdTakeDown
  <2>1. Range(dnL') \subseteq Range(dnL) /\ fHold'.f \in Range(dnL)
    BY <1>0, <1>3, <1>13 DEF FrameTypes, FwdTakeDown
  <2>2. QED
    BY <1>2, <1>13, <2>1 DEF FwdTakeDown, Frames
<1>14. CASE FwdTakeUp
  <2>1. Range(upA') \subseteq Range(upA) /\ fHold'.f \in Range(upA)
    BY <1>0, <1>3, <1>14 DEF FrameTypes, FwdTakeUp
  <2>2. QED
    BY <1>2, <1>14, <2>1 DEF FwdTakeUp, Frames
<1>15. CASE FwdSend
  <2>1. /\ Range(dnA') \subseteq Range(dnA) \cup {fHold.f}
        /\ Range(upL') \subseteq Range(upL) \cup {fHold.f} /\ fHold'.f = None
    BY <1>0, <1>4, <1>5, <1>6, <1>15 DEF FrameTypes, FwdSend
  <2>2. QED
    BY <1>2, <1>15, <2>1 DEF FwdSend, Frames
<1>16. CASE RunnerFirst
  <2>1. Range(upL') \subseteq Range(upL) /\ Head(upL) \in Range(upL)
    BY <1>0, <1>3, <1>16 DEF FrameTypes, RunnerFirst
  <2>2. Range(<<Head(upL)>>) = {Head(upL)}
    BY SMT DEF Range
  <2>3. Range(conn') \subseteq Range(conn) \cup {Head(upL)} /\ rHold' \in {rHold, Eof}
    BY <1>16, <2>2 DEF RunnerFirst, Refuse
  <2>4. QED
    BY <1>2, <1>16, <2>1, <2>3 DEF RunnerFirst, Frames
<1>17. CASE RunnerUp
  <2>1. Range(upL') \subseteq Range(upL) /\ Head(upL) \in Range(upL) /\ Head(upL) \in Frame
    BY <1>0, <1>3, <1>17, ReadFacts DEF FrameTypes, RunnerUp
  <2>2. Range(conn') \subseteq Range(conn) \cup {Head(upL)}
    <3>1. conn \in Seq(Frame) /\ conn' \in {<<>>, Append(conn, Head(upL))}
      BY <1>0, <1>17 DEF FrameTypes, RunnerUp, Disconnect
    <3>2. QED
      BY <1>4, <1>5, <2>1, <3>1
  <2>3. QED
    BY <1>2, <1>17, <2>1, <2>2 DEF RunnerUp, Frames
<1>18. CASE RunnerDown
  <2>1. conn \in Seq(Frame) /\ conn # <<>>
    BY <1>0, <1>18 DEF FrameTypes, RunnerDown
  <2>2. conn[1] \in Frames /\ conn[1].s <= cur /\ conn[1].s \in Nat
    <3>1. conn[1] \in Range(conn)
      BY <1>3, <2>1, ReadFacts
    <3>2. conn[1] \in Frames
      BY <3>1 DEF Frames
    <3>3. conn[1].s <= cur /\ conn[1] \in Frame
      BY <1>1, <3>2
    <3>4. QED
      BY <3>2, <3>3 DEF Frame
  <2>3. nresp + 1 \in Nat
    BY SMT, <1>0
  <2>4. rHold'.s <= cur
    BY <1>18, <2>2, <2>3, DataFacts DEF RunnerDown
  <2>5. cur' = cur /\ Frames' \subseteq Frames \cup {rHold'}
    BY <1>18 DEF RunnerDown, Frames
  <2>6. QED
    BY <1>1, <2>4, <2>5 DEF Known
<1>19. CASE RunnerSend
  <2>1. Range(dnL') = Range(dnL) \cup {rHold} /\ rHold' = None
    BY <1>0, <1>4, <1>6, <1>19 DEF FrameTypes, RunnerSend
  <2>2. QED
    BY <1>2, <1>19, <2>1 DEF RunnerSend, Frames
<1>20. CASE DaemonStop \/ DaemonStart
  BY <1>2, <1>20 DEF DaemonStop, DaemonStart, Frames
<1>21. CASE UdsEnd \/ Rebooted
  BY <1>2, <1>5, <1>21 DEF UdsEnd, Rebooted, Disconnect, Frames
<1>22. CASE Reboot
  <2>1. Range(chan') \subseteq Range(chan)
    BY <1>5, <1>22 DEF Reboot, NotifyWaiters, LeaveLoop
  <2>2. QED
    BY <1>2, <1>22, <2>1 DEF Reboot, Frames
<1>23. CASE UNCHANGED vars
  BY <1>2, <1>23 DEF vars, Frames
<1>24. QED
  BY <1>7, <1>8, <1>9, <1>10, <1>11, <1>12, <1>13, <1>14, <1>15, <1>16, <1>17, <1>18, <1>19,
     <1>20, <1>21, <1>22, <1>23 DEF Next

(* A session that is Sound after a step was so before it, or has just been  *)
(* opened.                                                                  *)
LEMMA SoundKept ==
  ASSUME TypeInv, [Next]_vars, Sound', ~Open
  PROVE  Sound /\ calm' /\ cur' = cur /\ cur \notin spoilt'
<1>1. fresh' /\ calm' /\ cur' \notin spoilt' /\ fresh \in BOOLEAN /\ calm \in BOOLEAN
  BY DEF Sound, TypeInv, FlagTypes
<1> USE DEF clientVars
<1>2. ASSUME cur' = cur, UNCHANGED fresh, calm' => calm, spoilt \subseteq spoilt'
      PROVE  Sound /\ calm' /\ cur' = cur /\ cur \notin spoilt'
  BY <1>1, <1>2 DEF Sound
<1>3. CASE Request \/ DaemonStop \/ DaemonStart \/ Reboot
  BY <1>1, <1>2, <1>3 DEF Request, DaemonStop, DaemonStart, Reboot
<1>4. CASE ProxyDown \/ RunnerUp
  BY <1>2, <1>4 DEF ProxyDown, RunnerUp
<1>5. CASE Drop \/ TakeChannel \/ ProxyUp \/ ProxySend
  BY <1>2, <1>5 DEF Drop, TakeChannel, ProxyUp, ProxySend, history
<1>6. CASE UNCHANGED vars
  BY <1>2, <1>6 DEF vars, history
<1>7. CASE FwdTakeDown \/ FwdTakeUp \/ FwdSend
  BY <1>2, <1>7 DEF FwdTakeDown, FwdTakeUp, FwdSend, history
<1>8. CASE RunnerFirst \/ RunnerDown \/ RunnerSend \/ UdsEnd \/ Rebooted
  BY <1>2, <1>8 DEF RunnerFirst, RunnerDown, RunnerSend, UdsEnd, Rebooted, history
<1>9. QED
  BY <1>3, <1>4, <1>5, <1>6, <1>7, <1>8 DEF Next

----------------------------------------------------------------------------
(* The way up, step by step: what each task does to it. *)

UpClient == <<cur, nreq, status, chan>>

LEMMA UpOffsets ==
  ASSUME TypeInv, NEW b \in Nat
  PROVE  /\ Len(upL) \in Nat /\ Len(upA) \in Nat /\ Len(chan) \in Nat
         /\ Pipe(b) \in Nat /\ Writes(b) \in Nat /\ End(b) \in Nat
         /\ Pipe(b) >= b + Len(upL) /\ Writes(b) >= Pipe(b) + Len(upA)
         /\ End(b) = Writes(b) + Len(chan)
         /\ nreq \in Nat /\ cur \in Nat
<1>1. Len(upL) \in Nat /\ Len(upA) \in Nat /\ Len(chan) \in Nat
  BY SMT, PipeFacts DEF TypeInv, FrameTypes
<1>2. QED
  BY SMT, <1>1 DEF Pipe, Writes, End, One, TypeInv, CountTypes

LEMMA EndAbove ==
  ASSUME TypeInv, NEW b \in Nat
  PROVE  End(b) \in Nat /\ nreq \in Nat /\ b <= End(b) /\ Pipe(b) <= End(b)
<1>1. /\ Len(upL) \in Nat /\ Len(upA) \in Nat /\ Len(chan) \in Nat
      /\ Pipe(b) \in Nat /\ Writes(b) \in Nat /\ End(b) \in Nat
      /\ Pipe(b) >= b + Len(upL) /\ Writes(b) >= Pipe(b) + Len(upA)
      /\ End(b) = Writes(b) + Len(chan) /\ nreq \in Nat
  BY UpOffsets
<1>2. QED
  BY SMT, <1>1

LEMMA UpKept ==
  ASSUME NEW b, UpOrder(b), UNCHANGED <<UpClient, upL, upA, pHold>>,
         fHold' = fHold \/ (fHold.to # "link" /\ fHold'.to # "link")
  PROVE  UpOrder(b)' /\ End(b)' = End(b) /\ GoingUp' = GoingUp
<1>1. /\ (fHold.to = "link") = (fHold.to = "link")'
      /\ fHold.to = "link" => fHold' = fHold
  OBVIOUS
<1>2. Pipe(b)' = Pipe(b) /\ Writes(b)' = Writes(b) /\ End(b)' = End(b)
  BY <1>1 DEF Pipe, Writes, End, One, UpClient
<1>3. \A k, f : Up(b, k, f)' <=> Up(b, k, f)
  BY <1>2 DEF Up, UpClient
<1>4. UpOrder(b)'
  BY <1>1, <1>2, <1>3 DEF UpOrder, UpClient
<1>5. GoingUp' = GoingUp
  BY <1>1 DEF GoingUp, UpClient
<1>6. QED
  BY <1>2, <1>4, <1>5

LEMMA UpTaken ==
  ASSUME TypeInv, NEW b \in Nat, UpOrder(b), UNCHANGED <<UpClient, upL, pHold>>,
         fHold = Idle, upA # <<>>, upA' = Tail(upA),
         fHold' = [to |-> "link", f |-> Head(upA)]
  PROVE  UpOrder(b)' /\ End(b)' = End(b) /\ GoingUp' = GoingUp
<1> DEFINE n == Len(upA)
<1>1. /\ fHold.to = "none" /\ fHold'.to = "link" /\ fHold'.f = upA[1]
      /\ n \in Nat /\ n > 0 /\ Len(upA') = n - 1 /\ Head(upA) = upA[1]
      /\ \A i \in 1..(n - 1) : upA'[i] = upA[i + 1] /\ i + 1 \in 1..n
      /\ Range(upA) = Range(upA') \cup {upA[1]}
  BY SMT, ReadFacts, FrameFacts DEF TypeInv, FrameTypes
<1>2. Pipe(b) \in Nat /\ Pipe(b)' = Pipe(b) + 1 /\ Writes(b)' = Writes(b) /\ End(b)' = End(b)
  BY SMT, <1>1, UpOffsets DEF Pipe, Writes, End, One, UpClient
<1> HIDE DEF n
<1>3. \A k, f : Up(b, k, f)' <=> Up(b, k, f)
  BY <1>2 DEF Up, UpClient
<1>4. UpOrder(b)'
  <2>1. \A i \in 1..n : Up(b, Pipe(b) + i, upA[i])
    BY DEF UpOrder, n
  <2>2. Up(b, Pipe(b)', fHold'.f)
    <3>1. 1 \in 1..n
      BY SMT, <1>1
    <3>2. QED
      BY <1>1, <1>2, <2>1, <3>1
  <2>3. \A i \in 1..(n - 1) : Up(b, Pipe(b)' + i, upA'[i])
    <3> SUFFICES ASSUME NEW i \in 1..(n - 1) PROVE Up(b, Pipe(b)' + i, upA'[i])
      OBVIOUS
    <3>1. i + 1 \in 1..n /\ upA'[i] = upA[i + 1]
      BY <1>1
    <3>2. Pipe(b)' + i = Pipe(b) + (i + 1)
      BY SMT, <1>2
    <3>3. QED
      BY <2>1, <3>1, <3>2
  <2>4. QED
    BY <1>1, <1>2, <1>3, <2>2, <2>3 DEF UpOrder, UpClient
<1>5. GoingUp' = GoingUp
  BY <1>1 DEF GoingUp, UpClient
<1>6. QED
  BY <1>2, <1>4, <1>5

LEMMA UpPut ==
  ASSUME TypeInv, NEW b \in Nat, UpOrder(b), UNCHANGED <<UpClient, upA, pHold>>,
         fHold.to = "link", upL' = Append(upL, fHold.f), fHold' = Idle
  PROVE  UpOrder(b)' /\ End(b)' = End(b) /\ GoingUp' = GoingUp
<1> DEFINE n == Len(upL)
<1>1. /\ fHold'.to = "none" /\ fHold.f \in Frame
      /\ n \in Nat /\ Len(upL') = n + 1 /\ upL'[n + 1] = fHold.f
      /\ \A i \in 1..n : upL'[i] = upL[i]
      /\ Range(upL') = Range(upL) \cup {fHold.f}
  BY SMT, WriteFacts, FrameFacts, HoldFacts DEF TypeInv, FrameTypes
<1>2. /\ Pipe(b) = b + n + 1 /\ Pipe(b)' = Pipe(b) /\ Writes(b)' = Writes(b)
      /\ End(b)' = End(b)
  BY SMT, <1>1, UpOffsets DEF Pipe, Writes, End, One, UpClient
<1> HIDE DEF n
<1>3. \A k, f : Up(b, k, f)' <=> Up(b, k, f)
  BY <1>2 DEF Up, UpClient
<1>4. UpOrder(b)'
  <2>1. \A i \in 1..(n + 1) : Up(b, b + i, upL'[i])
    <3> SUFFICES ASSUME NEW i \in 1..(n + 1) PROVE Up(b, b + i, upL'[i])
      OBVIOUS
    <3>1. CASE i \in 1..n
      BY <1>1, <3>1 DEF UpOrder, n
    <3>2. CASE i \notin 1..n
      <4>1. i = n + 1 /\ b + i = Pipe(b)
        BY SMT, <1>1, <1>2, <3>2
      <4>2. QED
        BY <1>1, <4>1 DEF UpOrder
    <3>3. QED
      BY <3>1, <3>2
  <2>2. QED
    BY <1>1, <1>2, <1>3, <2>1 DEF UpOrder, UpClient
<1>5. GoingUp' = GoingUp
  BY <1>1 DEF GoingUp, UpClient
<1>6. QED
  BY <1>2, <1>4, <1>5

LEMMA UpSent ==
  ASSUME TypeInv, NEW b \in Nat, UpOrder(b), UNCHANGED <<UpClient, upL, fHold>>,
         pHold # None, upA' = Append(upA, pHold), pHold' = None
  PROVE  UpOrder(b)' /\ End(b)' = End(b) /\ GoingUp' = GoingUp
<1> DEFINE n == Len(upA)
<1>1. /\ n \in Nat /\ Len(upA') = n + 1 /\ upA'[n + 1] = pHold
      /\ \A i \in 1..n : upA'[i] = upA[i]
      /\ Range(upA') = Range(upA) \cup {pHold}
  BY WriteFacts DEF TypeInv, FrameTypes
<1>2. /\ Writes(b) = Pipe(b) + (n + 1) /\ Pipe(b)' = Pipe(b) /\ Writes(b)' = Writes(b)
      /\ End(b)' = End(b) /\ Pipe(b) \in Nat
  BY SMT, <1>1, UpOffsets DEF Pipe, Writes, End, One, UpClient
<1> HIDE DEF n
<1>3. \A k, f : Up(b, k, f)' <=> Up(b, k, f)
  BY <1>2 DEF Up, UpClient
<1>4. UpOrder(b)'
  <2>1. \A i \in 1..(n + 1) : Up(b, Pipe(b) + i, upA'[i])
    <3> SUFFICES ASSUME NEW i \in 1..(n + 1) PROVE Up(b, Pipe(b) + i, upA'[i])
      OBVIOUS
    <3>1. CASE i \in 1..n
      BY <1>1, <3>1 DEF UpOrder, n
    <3>2. CASE i \notin 1..n
      <4>1. i = n + 1
        BY SMT, <1>1, <3>2
      <4>2. QED
        BY <1>1, <1>2, <4>1 DEF UpOrder
    <3>3. QED
      BY <3>1, <3>2
  <2>2. QED
    BY <1>1, <1>2, <1>3, <2>1 DEF UpOrder, UpClient
<1>5. GoingUp' = GoingUp
  BY <1>1 DEF GoingUp, UpClient
<1>6. QED
  BY <1>2, <1>4, <1>5

(* What the runner reads is the session's next request, or its end, behind  *)
(* which nothing comes.                                                     *)
LEMMA UpRead ==
  ASSUME TypeInv, NEW b \in Nat, UpOrder(b), UNCHANGED <<UpClient, upA, fHold, pHold>>,
         upL # <<>>, upL' = Tail(upL)
  PROVE  /\ UpOrder(b + 1)' /\ End(b + 1)' = End(b) /\ End(b) >= b + 1
         /\ GoingUp' \subseteq GoingUp /\ GoingUp \subseteq GoingUp' \cup {Head(upL)}
         /\ \/ Head(upL) = Data(cur, b + 1) /\ b + 1 <= nreq
            \/ Head(upL) = Eof /\ status = "closed" /\ GoingUp' = {}
         /\ Head(upL) # None => Head(upL) \in GoingUp
<1> DEFINE n == Len(upL)
<1>1. /\ n \in Nat /\ n > 0 /\ Len(upL') = n - 1 /\ Head(upL) = upL[1]
      /\ \A i \in 1..(n - 1) : upL'[i] = upL[i + 1] /\ i + 1 \in 1..n
      /\ Range(upL) = Range(upL') \cup {upL[1]}
  BY ReadFacts DEF TypeInv, FrameTypes
<1>2. /\ Pipe(b + 1)' = Pipe(b) /\ Writes(b + 1)' = Writes(b) /\ End(b + 1)' = End(b)
      /\ End(b) >= b + n
  BY SMT, <1>1, UpOffsets DEF Pipe, Writes, End, One, UpClient
<1> HIDE DEF n
<1>3. \A k, f : Up(b + 1, k, f)' <=> Up(b, k, f)
  BY <1>2 DEF Up, UpClient
<1>4. \A i \in 1..n : Up(b, b + i, upL[i])
  BY DEF UpOrder, n
<1>5. UpOrder(b + 1)'
  <2>1. \A i \in 1..(n - 1) : Up(b, (b + 1) + i, upL'[i])
    <3> SUFFICES ASSUME NEW i \in 1..(n - 1) PROVE Up(b, (b + 1) + i, upL'[i])
      OBVIOUS
    <3>1. (b + 1) + i = b + (i + 1) /\ i + 1 \in 1..n /\ upL'[i] = upL[i + 1]
      BY SMT, <1>1
    <3>2. QED
      BY <1>4, <3>1
  <2>2. QED
    BY <1>1, <1>2, <1>3, <2>1 DEF UpOrder, UpClient
<1>6. /\ GoingUp' \subseteq GoingUp /\ GoingUp \subseteq GoingUp' \cup {Head(upL)}
      /\ Head(upL) # None => Head(upL) \in GoingUp
  BY <1>1 DEF GoingUp, UpClient
<1>7. Up(b, b + 1, Head(upL))
  <2>1. 1 \in 1..n
    BY SMT, <1>1
  <2>2. QED
    BY <1>1, <1>4, <2>1
<1>8. ASSUME b + 1 = End(b) PROVE GoingUp' = {}
  <2>1. /\ Len(upL') = 0 /\ fHold.to # "link" /\ Len(upA) = 0 /\ pHold = None
        /\ Len(chan) = 0
    BY SMT, <1>1, <1>2, <1>8, UpOffsets DEF Pipe, Writes, End, One, n
  <2>2. upL' = <<>> /\ upA = <<>> /\ chan = <<>>
    BY <1>1, <2>1, PipeFacts, ReadFacts DEF TypeInv, FrameTypes
  <2>3. QED
    BY <2>1, <2>2, EmptyPipe DEF GoingUp, UpClient
<1>9. End(b) >= b + 1
  <2>1. End(b) \in Nat
    BY UpOffsets
  <2>2. QED
    BY SMT, <1>1, <1>2, <2>1
<1>10. \/ Head(upL) = Data(cur, b + 1) /\ b + 1 <= nreq
       \/ Head(upL) = Eof /\ status = "closed" /\ GoingUp' = {}
  BY <1>7, <1>8, Zenon DEF Up
<1>11. QED
  BY <1>2, <1>5, <1>6, <1>9, <1>10

LEMMA UpAsked ==
  ASSUME TypeInv, NEW b \in Nat, UpOrder(b), status = "open", End(b) = nreq,
         UNCHANGED <<cur, status, upL, upA, fHold, pHold>>, nreq' = nreq + 1,
         chan' = Append(chan, Data(cur, nreq + 1))
  PROVE  UpOrder(b)' /\ End(b)' = nreq' /\ GoingUp' = GoingUp \cup {Data(cur, nreq + 1)}
<1> DEFINE n == Len(chan)
           d == Data(cur, nreq + 1)
<1>0. cur \in Nat /\ nreq \in Nat /\ cur > 0
  BY SMT DEF TypeInv, CountTypes
<1>1. d \in Frame /\ d # None
  BY SMT, <1>0 DEF Data, Frame, None
<1>2. /\ n \in Nat /\ Len(chan') = n + 1 /\ chan'[n + 1] = d
      /\ \A i \in 1..n : chan'[i] = chan[i]
      /\ Range(chan') = Range(chan) \cup {d}
  BY SMT, <1>1, WriteFacts DEF TypeInv, FrameTypes
<1>3. /\ Writes(b) + (n + 1) = nreq + 1 /\ Pipe(b)' = Pipe(b) /\ Writes(b)' = Writes(b)
      /\ End(b)' = nreq + 1
  BY SMT, <1>0, <1>2, UpOffsets DEF Pipe, Writes, End, One
<1> HIDE DEF n
<1>4. \A k \in Nat : \A f : Up(b, k, f) => Up(b, k, f)'
  BY SMT, <1>0 DEF Up
<1>5. UpOrder(b)'
  <2>1. /\ \A i \in 1..Len(upL) : Up(b, b + i, upL[i])'
        /\ fHold.to = "link" => Up(b, Pipe(b), fHold.f)'
        /\ \A i \in 1..Len(upA) : Up(b, Pipe(b) + i, upA[i])'
        /\ pHold # None => Up(b, Writes(b), pHold)'
    <3>1. /\ \A i \in 1..Len(upL) : b + i \in Nat
          /\ Pipe(b) \in Nat /\ Writes(b) \in Nat /\ \A i \in 1..Len(upA) : Pipe(b) + i \in Nat
      <4>1. Pipe(b) \in Nat /\ Writes(b) \in Nat /\ Len(upL) \in Nat /\ Len(upA) \in Nat
        BY UpOffsets
      <4>2. QED
        BY SMT, <4>1
    <3>2. /\ \A i \in 1..Len(upL) : Up(b, b + i, upL[i])
          /\ fHold.to = "link" => Up(b, Pipe(b), fHold.f)
          /\ \A i \in 1..Len(upA) : Up(b, Pipe(b) + i, upA[i])
          /\ pHold # None => Up(b, Writes(b), pHold)
      BY DEF UpOrder
    <3>3. ASSUME NEW i \in 1..Len(upL) PROVE Up(b, b + i, upL[i])'
      BY <1>4, <3>1, <3>2
    <3>4. ASSUME NEW i \in 1..Len(upA) PROVE Up(b, Pipe(b) + i, upA[i])'
      BY <1>3, <1>4, <3>1, <3>2
    <3>5. (fHold.to = "link" => Up(b, Pipe(b), fHold.f)') /\ (pHold # None => Up(b, Writes(b), pHold)')
      BY <1>3, <1>4, <3>1, <3>2
    <3>6. QED
      BY <3>3, <3>4, <3>5
  <2>2. \A i \in 1..(n + 1) : chan'[i] = Data(cur, Writes(b) + i) /\ Writes(b) + i <= nreq + 1
    <3> SUFFICES ASSUME NEW i \in 1..(n + 1)
                 PROVE  chan'[i] = Data(cur, Writes(b) + i) /\ Writes(b) + i <= nreq + 1
      OBVIOUS
    <3>1. CASE i \in 1..n
      <4>1. chan'[i] = Data(cur, Writes(b) + i) /\ Writes(b) + i <= nreq
        BY <1>2, <3>1 DEF UpOrder, n
      <4>2. Writes(b) \in Nat
        BY UpOffsets
      <4>3. QED
        BY SMT, <1>0, <1>2, <4>1, <4>2
    <3>2. CASE i \notin 1..n
      <4>1. i = n + 1
        BY SMT, <1>2, <3>2
      <4>2. QED
        BY SMT, <1>0, <1>2, <1>3, <4>1
    <3>3. QED
      BY <3>1, <3>2
  <2>3. QED
    BY <1>2, <1>3, <2>1, <2>2 DEF UpOrder
<1>6. GoingUp' = GoingUp \cup {d}
  BY <1>1, <1>2 DEF GoingUp
<1>7. QED
  BY <1>3, <1>5, <1>6

LEMMA UpWritten ==
  ASSUME TypeInv, NEW b \in Nat, UpOrder(b), UNCHANGED <<cur, nreq, status, upL, upA, fHold>>,
         pHold = None, chan # <<>>, pHold' = Head(chan), chan' = Tail(chan)
  PROVE  /\ UpOrder(b)' /\ End(b)' = End(b) /\ GoingUp' = GoingUp
         /\ pHold' # None /\ pHold' # Eof
<1> DEFINE n == Len(chan)
<1>1. /\ n \in Nat /\ n > 0 /\ Len(chan') = n - 1 /\ Head(chan) = chan[1]
      /\ \A i \in 1..(n - 1) : chan'[i] = chan[i + 1] /\ i + 1 \in 1..n
      /\ Range(chan) = Range(chan') \cup {chan[1]}
  BY ReadFacts DEF TypeInv, FrameTypes
<1>2. chan[1] = Data(cur, Writes(b) + 1) /\ Writes(b) + 1 <= nreq
  <2>1. 1 \in 1..n
    BY SMT, <1>1
  <2>2. QED
    BY <2>1 DEF UpOrder, n
<1>3. pHold' # None /\ pHold' # Eof
  <2>1. cur \in Nat /\ cur > 0 /\ Writes(b) + 1 \in Nat
    <3>1. Writes(b) \in Nat
      BY UpOffsets
    <3>2. QED
      BY SMT, <1>2, <3>1 DEF TypeInv, CountTypes
  <2>2. QED
    BY SMT, <1>1, <1>2, <2>1, DataFacts
<1>4. /\ Pipe(b)' = Pipe(b) /\ Writes(b)' = Writes(b) + 1 /\ End(b)' = End(b)
      /\ Writes(b) \in Nat
  BY SMT, <1>1, <1>3, UpOffsets DEF Pipe, Writes, End, One
<1> HIDE DEF n
<1>5. \A k, f : Up(b, k, f)' <=> Up(b, k, f)
  BY <1>4 DEF Up
<1>6. UpOrder(b)'
  <2>1. Up(b, Writes(b)', pHold')
    BY <1>1, <1>2, <1>4 DEF Up
  <2>2. \A i \in 1..(n - 1) : /\ chan'[i] = Data(cur, Writes(b)' + i)
                              /\ Writes(b)' + i <= nreq
    <3> SUFFICES ASSUME NEW i \in 1..(n - 1)
                 PROVE  chan'[i] = Data(cur, Writes(b)' + i) /\ Writes(b)' + i <= nreq
      OBVIOUS
    <3>1. i + 1 \in 1..n /\ chan'[i] = chan[i + 1]
      BY <1>1
    <3>2. Writes(b)' + i = Writes(b) + (i + 1)
      BY SMT, <1>4
    <3>3. QED
      BY <3>1, <3>2 DEF UpOrder, n
  <2>3. QED
    BY <1>1, <1>4, <1>5, <2>1, <2>2 DEF UpOrder
<1>7. GoingUp' = GoingUp
  BY <1>1, <1>3 DEF GoingUp
<1>8. QED
  BY <1>3, <1>4, <1>6, <1>7

LEMMA UpEnded ==
  ASSUME TypeInv, NEW b \in Nat, UpOrder(b), UNCHANGED <<UpClient, upL, upA, fHold>>,
         Eof \notin GoingUp, status = "closed", pHold = None, chan = <<>>, pHold' = Eof
  PROVE  UpOrder(b)' /\ End(b)' = End(b) + 1 /\ GoingUp' = GoingUp \cup {Eof}
<1>0. /\ Len(chan) = 0 /\ Writes(b) \in Nat /\ Eof # None
      /\ Len(upL) \in Nat /\ Len(upA) \in Nat
  BY EmptyPipe, UpOffsets, FrameFacts
<1>1. /\ Pipe(b)' = Pipe(b) /\ Writes(b)' = Writes(b) + 1
      /\ End(b) = Writes(b) /\ End(b)' = Writes(b) + 1
  BY SMT, <1>0, UpOffsets DEF Pipe, Writes, End, One, UpClient
<1>2. \A k, f : f # Eof /\ Up(b, k, f) => Up(b, k, f)'
  BY DEF Up, UpClient
<1>3. /\ \A i \in 1..Len(upL) : upL[i] # Eof
      /\ \A i \in 1..Len(upA) : upA[i] # Eof
      /\ fHold.to = "link" => fHold.f # Eof
  BY SMT, <1>0, PipeFacts DEF GoingUp, TypeInv, FrameTypes
<1>4. UpOrder(b)'
  <2>1. /\ \A i \in 1..Len(upL) : Up(b, b + i, upL[i])'
        /\ \A i \in 1..Len(upA) : Up(b, Pipe(b) + i, upA[i])'
    BY <1>1, <1>2, <1>3 DEF UpOrder
  <2>2. fHold.to = "link" => Up(b, Pipe(b), fHold.f)'
    BY <1>1, <1>2, <1>3 DEF UpOrder
  <2>3. Up(b, Writes(b), pHold)'
    BY <1>1 DEF Up, UpClient
  <2>4. \A i \in 1..Len(chan') : FALSE
    BY SMT, <1>0 DEF UpClient
  <2>5. QED
    BY <2>1, <2>2, <2>3, <2>4 DEF UpOrder, UpClient
<1>5. GoingUp' = GoingUp \cup {Eof}
  BY <1>0 DEF GoingUp, UpClient
<1>6. QED
  BY <1>1, <1>4, <1>5

(* The task leaves its loop, and the client's pipe is gone with what it     *)
(* held.                                                                    *)
LEMMA UpLeft ==
  ASSUME TypeInv, NEW b \in Nat, UpOrder(b), status = "open", chan' = <<>>,
         UNCHANGED <<cur, nreq, upL, upA, fHold, pHold>>
  PROVE  UpOrder(b)' /\ End(b)' \in Nat /\ End(b)' <= End(b) /\ GoingUp' \subseteq GoingUp
<1>1. Len(chan') = 0 /\ Range(chan') = {}
  BY EmptyPipe
<1>2. Pipe(b)' = Pipe(b) /\ Writes(b)' = Writes(b) /\ End(b)' = Writes(b)
  BY SMT, <1>1, UpOffsets DEF Pipe, Writes, End, One
<1>3. \A k, f : Up(b, k, f) => Up(b, k, f)'
  BY DEF Up
<1>4. UpOrder(b)'
  <2>1. (\A i \in 1..Len(upL) : Up(b, b + i, upL[i]))'
    BY <1>3 DEF UpOrder
  <2>2. (\A i \in 1..Len(upA) : Up(b, Pipe(b) + i, upA[i]))'
    BY <1>2, <1>3 DEF UpOrder
  <2>3. (fHold.to = "link" => Up(b, Pipe(b), fHold.f))'
    BY <1>2, <1>3 DEF UpOrder
  <2>4. (pHold # None => Up(b, Writes(b), pHold))'
    BY <1>2, <1>3 DEF UpOrder
  <2>5. (\A i \in 1..Len(chan) : chan[i] = Data(cur, Writes(b) + i) /\ Writes(b) + i <= nreq)'
    BY SMT, <1>1
  <2>6. QED
    BY <2>1, <2>2, <2>3, <2>4, <2>5 DEF UpOrder
<1>5. GoingUp' \subseteq GoingUp
  BY <1>1 DEF GoingUp
<1>6. End(b)' \in Nat /\ End(b)' <= End(b)
  <2>1. Writes(b) \in Nat /\ End(b) = Writes(b) + Len(chan) /\ Len(chan) \in Nat
    BY UpOffsets
  <2>2. QED
    BY SMT, <1>2, <2>1
<1>7. QED
  BY <1>4, <1>5, <1>6

LEMMA UpLost ==
  ASSUME TypeInv, NEW b \in Nat, UpOrder(b), UNCHANGED <<UpClient, upA, fHold, pHold>>,
         upL' = <<>>, NEW c \in Nat, c = b + Len(upL)
  PROVE  /\ UpOrder(c)' /\ End(c)' = End(b) /\ End(b) >= c
         /\ GoingUp' \subseteq GoingUp
<1>1. Len(upL') = 0 /\ Range(upL') = {}
  BY EmptyPipe
<1>2. Pipe(c)' = Pipe(b) /\ Writes(c)' = Writes(b) /\ End(c)' = End(b) /\ End(b) >= c
  BY SMT, <1>1, UpOffsets DEF Pipe, Writes, End, One, UpClient
<1>3. \A k, f : Up(b, k, f) => Up(c, k, f)'
  BY <1>2 DEF Up, UpClient
<1>4. UpOrder(c)'
  <2>1. \A i \in 1..Len(upA) : Up(c, Pipe(c) + i, upA[i])'
    BY <1>2, <1>3 DEF UpOrder
  <2>2. /\ fHold.to = "link" => Up(c, Pipe(c), fHold.f)'
        /\ pHold # None => Up(c, Writes(c), pHold)'
    BY <1>2, <1>3 DEF UpOrder
  <2>3. QED
    BY SMT, <1>1, <1>2, <2>1, <2>2 DEF UpOrder, UpClient
<1>5. GoingUp' \subseteq GoingUp
  BY <1>1 DEF GoingUp, UpClient
<1>6. QED
  BY <1>2, <1>4, <1>5

----------------------------------------------------------------------------
(* The way down, step by step. *)

LEMMA DownOffsets ==
  ASSUME TypeInv
  PROVE  /\ Len(dnA) \in Nat /\ Len(dnL) \in Nat /\ Len(got) \in Nat /\ cur \in Nat
         /\ Fwd2 \in Nat /\ Down \in Nat
         /\ Fwd2 >= Len(dnA) /\ Down >= Fwd2 + Len(dnL)
         /\ fHold.to = "proxy" => Fwd2 = Len(dnA) + 1
         /\ Empty => Down = 0 /\ ComingDown = {}
<1>1. Len(dnA) \in Nat /\ Len(dnL) \in Nat /\ Len(got) \in Nat
  BY SMT, PipeFacts DEF TypeInv, FrameTypes
<1>2. Empty => Down = 0 /\ ComingDown = {}
  BY SMT, EmptyPipe DEF Empty, Down, Fwd2, One, ComingDown
<1>3. /\ Fwd2 \in Nat /\ Down \in Nat
      /\ Fwd2 >= Len(dnA) /\ Down >= Fwd2 + Len(dnL)
      /\ fHold.to = "proxy" => Fwd2 = Len(dnA) + 1
  <2>1. /\ One(fHold.to = "proxy") \in {0, 1} /\ One(rHold # None) \in {0, 1}
        /\ fHold.to = "proxy" => One(fHold.to = "proxy") = 1
    BY DEF One
  <2>2. QED
    BY SMT, <1>1, <2>1 DEF Fwd2, Down
<1>4. cur \in Nat
  BY DEF TypeInv, CountTypes
<1>5. QED
  BY <1>1, <1>2, <1>3, <1>4

LEMMA DownKept ==
  ASSUME UNCHANGED <<cur, dnA, dnL, rHold>>,
         fHold' = fHold \/ (fHold.to # "proxy" /\ fHold'.to # "proxy")
  PROVE  /\ Down' = Down /\ ComingDown' = ComingDown /\ (Empty => Empty')
         /\ got' = got /\ DownOrder => DownOrder'
<1>1. /\ (fHold.to = "proxy") = (fHold.to = "proxy")'
      /\ fHold.to = "proxy" => fHold' = fHold
  OBVIOUS
<1>2. Fwd2' = Fwd2 /\ Down' = Down
  BY <1>1 DEF Fwd2, Down, One
<1>3. ComingDown' = ComingDown /\ (Empty => Empty')
  BY <1>1 DEF ComingDown, Empty
<1>4. ASSUME got' = got, DownOrder PROVE DownOrder'
  <2>1. \A k, f : Reply(k, f)' <=> Reply(k, f)
    BY <1>4 DEF Reply
  <2>2. QED
    BY <1>1, <1>2, <1>4, <2>1 DEF DownOrder
<1>5. QED
  BY <1>2, <1>3, <1>4

LEMMA DownTaken ==
  ASSUME TypeInv, UNCHANGED <<cur, got, dnA, rHold>>,
         fHold = Idle, dnL # <<>>, dnL' = Tail(dnL),
         fHold' = [to |-> "proxy", f |-> Head(dnL)]
  PROVE  Down' = Down /\ ComingDown' = ComingDown /\ (DownOrder => DownOrder')
<1> DEFINE n == Len(dnL)
<1>1. /\ fHold.to = "none" /\ fHold'.to = "proxy" /\ fHold'.f = dnL[1]
      /\ n \in Nat /\ n > 0 /\ Len(dnL') = n - 1
      /\ \A i \in 1..(n - 1) : dnL'[i] = dnL[i + 1] /\ i + 1 \in 1..n
      /\ Range(dnL) = Range(dnL') \cup {dnL[1]}
  BY ReadFacts, FrameFacts DEF TypeInv, FrameTypes
<1>2. Fwd2 \in Nat /\ Fwd2' = Fwd2 + 1 /\ Down' = Down
  BY SMT, <1>1, DownOffsets DEF Fwd2, Down, One
<1> HIDE DEF n
<1>3. ComingDown' = ComingDown
  BY <1>1 DEF ComingDown
<1>4. ASSUME DownOrder PROVE DownOrder'
  <2>1. \A k, f : Reply(k, f)' <=> Reply(k, f)
    BY DEF Reply
  <2>2. \A i \in 1..n : Reply(Fwd2 + i, dnL[i])
    BY <1>4 DEF DownOrder, n
  <2>3. Reply(Fwd2', fHold'.f)
    <3>1. 1 \in 1..n
      BY SMT, <1>1
    <3>2. QED
      BY <1>1, <1>2, <2>2, <3>1
  <2>4. \A i \in 1..(n - 1) : Reply(Fwd2' + i, dnL'[i])
    <3> SUFFICES ASSUME NEW i \in 1..(n - 1) PROVE Reply(Fwd2' + i, dnL'[i])
      OBVIOUS
    <3>1. i + 1 \in 1..n /\ dnL'[i] = dnL[i + 1]
      BY <1>1
    <3>2. Fwd2' + i = Fwd2 + (i + 1)
      BY SMT, <1>2
    <3>3. QED
      BY <2>2, <3>1, <3>2
  <2>5. QED
    BY <1>1, <1>2, <1>4, <2>1, <2>3, <2>4 DEF DownOrder
<1>5. QED
  BY <1>2, <1>3, <1>4

LEMMA DownPut ==
  ASSUME TypeInv, UNCHANGED <<cur, got, dnL, rHold>>,
         fHold.to = "proxy", dnA' = Append(dnA, fHold.f), fHold' = Idle
  PROVE  Down' = Down /\ ComingDown' = ComingDown /\ (DownOrder => DownOrder')
<1> DEFINE n == Len(dnA)
<1>1. /\ fHold'.to = "none" /\ n \in Nat /\ Len(dnA') = n + 1 /\ dnA'[n + 1] = fHold.f
      /\ \A i \in 1..n : dnA'[i] = dnA[i]
      /\ Range(dnA') = Range(dnA) \cup {fHold.f}
  BY SMT, WriteFacts, FrameFacts, HoldFacts DEF TypeInv, FrameTypes
<1>2. Fwd2 = n + 1 /\ Fwd2' = Fwd2 /\ Down' = Down
  BY SMT, <1>1, DownOffsets DEF Fwd2, Down, One
<1> HIDE DEF n
<1>3. ComingDown' = ComingDown
  BY <1>1 DEF ComingDown
<1>4. ASSUME DownOrder PROVE DownOrder'
  <2>1. \A k, f : Reply(k, f)' <=> Reply(k, f)
    BY DEF Reply
  <2>2. \A i \in 1..(n + 1) : Reply(i, dnA'[i])
    <3> SUFFICES ASSUME NEW i \in 1..(n + 1) PROVE Reply(i, dnA'[i])
      OBVIOUS
    <3>1. CASE i \in 1..n
      BY <1>1, <1>4, <3>1 DEF DownOrder, n
    <3>2. CASE i \notin 1..n
      <4>1. i = n + 1
        BY SMT, <1>1, <3>2
      <4>2. QED
        BY <1>1, <1>2, <1>4, <4>1 DEF DownOrder
    <3>3. QED
      BY <3>1, <3>2
  <2>3. QED
    BY <1>1, <1>2, <1>4, <2>1, <2>2 DEF DownOrder
<1>5. QED
  BY <1>2, <1>3, <1>4

LEMMA DownSent ==
  ASSUME TypeInv, UNCHANGED <<cur, got, dnA, fHold>>,
         rHold # None, dnL' = Append(dnL, rHold), rHold' = None
  PROVE  Down' = Down /\ ComingDown' = ComingDown /\ (DownOrder => DownOrder')
<1> DEFINE n == Len(dnL)
<1>1. /\ n \in Nat /\ Len(dnL') = n + 1 /\ dnL'[n + 1] = rHold
      /\ \A i \in 1..n : dnL'[i] = dnL[i]
      /\ Range(dnL') = Range(dnL) \cup {rHold}
  BY WriteFacts DEF TypeInv, FrameTypes
<1>2. Fwd2' = Fwd2 /\ Down' = Down /\ Down = Fwd2 + (n + 1)
  <2>1. Fwd2' = Fwd2 /\ Fwd2 \in Nat
    BY DownOffsets DEF Fwd2
  <2>2. One(rHold # None) = 1 /\ One(rHold # None)' = 0
    BY DEF One
  <2>3. QED
    BY SMT, <1>1, <2>1, <2>2 DEF Down
<1> HIDE DEF n
<1>3. ComingDown' = ComingDown
  BY <1>1 DEF ComingDown
<1>4. ASSUME DownOrder PROVE DownOrder'
  <2>1. \A k, f : Reply(k, f)' <=> Reply(k, f)
    BY DEF Reply
  <2>2. \A i \in 1..(n + 1) : Reply(Fwd2 + i, dnL'[i])
    <3> SUFFICES ASSUME NEW i \in 1..(n + 1) PROVE Reply(Fwd2 + i, dnL'[i])
      OBVIOUS
    <3>1. CASE i \in 1..n
      BY <1>1, <1>4, <3>1 DEF DownOrder, n
    <3>2. CASE i \notin 1..n
      <4>1. i = n + 1
        BY SMT, <1>1, <3>2
      <4>2. QED
        BY <1>1, <1>2, <1>4, <4>1 DEF DownOrder
    <3>3. QED
      BY <3>1, <3>2
  <2>3. QED
    BY <1>1, <1>2, <1>4, <2>1, <2>2 DEF DownOrder
<1>5. QED
  BY <1>2, <1>3, <1>4

LEMMA DownAdded ==
  ASSUME TypeInv, UNCHANGED <<cur, got, dnA, dnL, fHold>>,
         rHold = None, rHold' # None
  PROVE  /\ Down' = Down + 1 /\ ComingDown' = ComingDown \cup {rHold'}
         /\ DownOrder /\ Reply(Down + 1, rHold') => DownOrder'
<1>1. Fwd2' = Fwd2 /\ Down' = Down + 1
  BY SMT, DownOffsets DEF Fwd2, Down, One
<1>2. ComingDown' = ComingDown \cup {rHold'}
  BY DEF ComingDown
<1>3. \A k, f : Reply(k, f)' <=> Reply(k, f)
  BY DEF Reply
<1>4. DownOrder /\ Reply(Down + 1, rHold') => DownOrder'
  BY <1>1, <1>3 DEF DownOrder
<1>5. QED
  BY <1>1, <1>2, <1>4

LEMMA DownLost ==
  ASSUME TypeInv, UNCHANGED <<cur, got, dnA, fHold>>, dnL' = <<>>, rHold' = None
  PROVE  /\ Down' \in Nat /\ Down' <= Down /\ ComingDown' \subseteq ComingDown
         /\ Empty => Empty'
         /\ DownOrder => DownOrder'
<1>1. Len(dnL') = 0 /\ Range(dnL') = {}
  BY EmptyPipe
<1>2. Fwd2' = Fwd2 /\ Down' = Fwd2 /\ Down' \in Nat /\ Down' <= Down
  <2>1. Fwd2' = Fwd2 /\ Fwd2 \in Nat /\ Len(dnL) \in Nat
    BY DownOffsets DEF Fwd2
  <2>2. One(rHold # None) \in {0, 1} /\ One(rHold # None)' = 0
    BY DEF One
  <2>3. QED
    BY SMT, <1>1, <2>1, <2>2 DEF Down
<1>3. ComingDown' \subseteq ComingDown /\ (Empty => Empty')
  BY <1>1 DEF ComingDown, Empty
<1>4. \A k, f : Reply(k, f)' <=> Reply(k, f)
  BY DEF Reply
<1>5. DownOrder => DownOrder'
  BY SMT, <1>1, <1>2, <1>4 DEF DownOrder
<1>6. QED
  BY <1>2, <1>3, <1>5

(* The proxy task reads a frame for an open session: it is the next one.    *)
LEMMA DownRead ==
  ASSUME TypeInv, UNCHANGED <<cur, dnL, fHold, rHold>>,
         dnA # <<>>, dnA' = Tail(dnA)
  PROVE  /\ Down' \in Nat /\ Down' = Down - 1
         /\ ComingDown' \subseteq ComingDown
         /\ ComingDown \subseteq ComingDown' \cup {Head(dnA)}
         /\ Head(dnA) # None => Head(dnA) \in ComingDown
         /\ ~Empty
         /\ DownOrder => Head(dnA) = Eof \/ Head(dnA) = Data(cur, Len(got) + 1)
         /\ DownOrder /\ got' = Append(got, Head(dnA)) => DownOrder'
<1> DEFINE n == Len(dnA)
<1>1. /\ n \in Nat /\ n > 0 /\ Len(dnA') = n - 1 /\ Head(dnA) = dnA[1]
      /\ \A i \in 1..(n - 1) : dnA'[i] = dnA[i + 1] /\ i + 1 \in 1..n
      /\ Range(dnA) = Range(dnA') \cup {dnA[1]} /\ Head(dnA) \in Frame
  BY ReadFacts DEF TypeInv, FrameTypes
<1>2. /\ Fwd2 \in Nat /\ Down \in Nat /\ Fwd2' \in Nat /\ Down' \in Nat
      /\ Fwd2' = Fwd2 - 1 /\ Down' = Down - 1
  <2>1. One(fHold.to = "proxy") \in {0, 1} /\ One(rHold # None) \in {0, 1}
    BY DEF One
  <2>2. Len(dnL) \in Nat
    BY DownOffsets
  <2>3. Fwd2 \in Nat /\ Fwd2' \in Nat /\ Fwd2' = Fwd2 - 1
    <3> HIDE DEF n
    <3>1. Fwd2 = n + One(fHold.to = "proxy") /\ Fwd2' = (n - 1) + One(fHold.to = "proxy")
      BY <1>1 DEF Fwd2, n
    <3>2. QED
      BY SMT, <1>1, <2>1, <3>1
  <2>4. \E z \in Nat : Down = Fwd2 + z /\ Down' = Fwd2' + z
    <3> DEFINE z == Len(dnL) + One(rHold # None)
    <3>1. z \in Nat
      BY SMT, <2>1, <2>2
    <3>2. Down = Fwd2 + z /\ Down' = Fwd2' + z
      BY SMT, <2>1, <2>2, <2>3 DEF Down
    <3>3. QED
      BY <3>1, <3>2
  <2>5. QED
    BY SMT, <2>3, <2>4
<1>3. 1 \in 1..n
  BY SMT, <1>1
<1> HIDE DEF n
<1>4. /\ ComingDown' \subseteq ComingDown
      /\ ComingDown \subseteq ComingDown' \cup {Head(dnA)}
      /\ Head(dnA) # None => Head(dnA) \in ComingDown
  BY <1>1 DEF ComingDown
<1>5. DownOrder => Head(dnA) = Eof \/ Head(dnA) = Data(cur, Len(got) + 1)
  BY <1>1, <1>3 DEF DownOrder, Reply, n
<1>6. ASSUME DownOrder, got' = Append(got, Head(dnA)) PROVE DownOrder'
  <2>1. Len(got) \in Nat /\ Len(got') = Len(got) + 1
    BY <1>1, <1>6, WriteFacts DEF TypeInv, FrameTypes
  <2>2. ASSUME NEW k \in Nat, NEW f, Reply(k + 1, f) PROVE Reply(k, f)'
    <3>1. Len(got) + (k + 1) = Len(got') + k
      BY SMT, <2>1
    <3>2. QED
      BY <2>2, <3>1 DEF Reply
  <2>3. \A i \in 1..(n - 1) : Reply(i, dnA[i])'
    <3> SUFFICES ASSUME NEW i \in 1..(n - 1) PROVE Reply(i, dnA[i])'
      OBVIOUS
    <3>1. i \in Nat /\ i + 1 \in 1..n /\ dnA'[i] = dnA[i + 1]
      BY SMT, <1>1
    <3>2. Reply(i + 1, dnA[i + 1])
      BY <1>6, <3>1 DEF DownOrder, n
    <3>3. QED
      BY <2>2, <3>1, <3>2
  <2>4. fHold.to = "proxy" => Reply(Fwd2, fHold.f)'
    BY SMT, <1>2, <1>6, <2>2 DEF DownOrder
  <2>5. \A i \in 1..Len(dnL) : Reply(Fwd2 + i, dnL[i])'
    <3> SUFFICES ASSUME NEW i \in 1..Len(dnL) PROVE Reply(Fwd2 + i, dnL[i])'
      OBVIOUS
    <3>0. i \in Nat
      BY SMT, DownOffsets
    <3>1. Fwd2' + i \in Nat /\ (Fwd2' + i) + 1 = Fwd2 + i
      BY SMT, <1>2, <3>0
    <3>2. Reply(Fwd2 + i, dnL[i])
      BY <1>6 DEF DownOrder
    <3>3. QED
      BY <2>2, <3>1, <3>2
  <2>6. rHold # None => Reply(Down, rHold)'
    BY SMT, <1>2, <1>6, <2>2 DEF DownOrder
  <2>7. QED
    BY <1>1, <2>3, <2>4, <2>5, <2>6 DEF DownOrder
<1>7. ~Empty
  BY DEF Empty
<1>8. QED
  BY <1>2, <1>4, <1>5, <1>6, <1>7

----------------------------------------------------------------------------
(* Steps that move a frame along. *)

Others == <<cur, status, nreq, since, got, provider, runner, conn, nresp, up, stops,
            rebooting>>

LEMMA Moved ==
  ASSUME NEW b \in Nat, SessionInv(b), ~provider, UNCHANGED Others,
         UpOrder(b)', End(b)' = End(b), GoingUp' = GoingUp,
         Down' = Down, ComingDown' = ComingDown, Empty => Empty', DownOrder => DownOrder',
         proxy' = proxy \/ (proxy' = "idle" /\ Eof \in GoingUp)
  PROVE  SessionInv(b)'
<1> USE DEF SessionInv, Others
<1>1. UpEnd(b)'
  BY DEF UpEnd
<1>2. Connection(b)'
  <2>1. OnlyEnd' = OnlyEnd
    BY DEF OnlyEnd
  <2>2. QED
    BY <2>1 DEF Connection
<1>3. Queued(b)' /\ BeforeFirst(b)'
  BY DEF Queued, BeforeFirst
<1>4. DownFrames'
  BY DEF DownFrames
<1>5. QED
  BY <1>1, <1>2, <1>3, <1>4

LEMMA Moves ==
  ASSUME TypeInv, Places, NEW b \in Nat, SessionInv(b),
         FwdTakeDown \/ FwdTakeUp \/ FwdSend \/ ProxySend \/ RunnerSend
  PROVE  SessionInv(b)' /\ ComingDown' = ComingDown
<1>0. UpOrder(b) /\ (provider => upA = <<>> /\ fHold = Idle /\ dnL = <<>> /\ rHold = None)
  BY DEF SessionInv, Queued
<1>1. CASE FwdTakeDown
  <2> USE DEF FwdTakeDown, clientVars, proxyVars, runnerVars, daemonVars
  <2>1. fHold'.to = "proxy" /\ fHold.to = "none" /\ ~provider
    BY <1>0, <1>1, FrameFacts
  <2>2. UpOrder(b)' /\ End(b)' = End(b) /\ GoingUp' = GoingUp
    <3>1. UNCHANGED <<UpClient, upL, upA, pHold>> /\ fHold.to # "link" /\ fHold'.to # "link"
      BY <1>1, <2>1 DEF UpClient
    <3>2. QED
      BY <1>0, <3>1, UpKept
  <2>3. Down' = Down /\ ComingDown' = ComingDown /\ (DownOrder => DownOrder')
    BY <1>1, DownTaken
  <2>4. ~Empty
    BY <1>1 DEF Empty
  <2>5. UNCHANGED Others /\ proxy' = proxy
    BY <1>1 DEF Others
  <2>6. SessionInv(b)'
    BY <2>1, <2>2, <2>3, <2>4, <2>5, Moved
  <2>7. QED
    BY <2>3, <2>6
<1>2. CASE FwdTakeUp
  <2> USE DEF FwdTakeUp, clientVars, proxyVars, runnerVars, daemonVars
  <2>1. fHold'.to = "link" /\ fHold.to = "none" /\ ~provider
    BY <1>0, <1>2, FrameFacts
  <2>2. UpOrder(b)' /\ End(b)' = End(b) /\ GoingUp' = GoingUp
    <3>1. UNCHANGED <<UpClient, upL, pHold>>
      BY <1>2 DEF UpClient
    <3>2. QED
      BY <1>0, <1>2, <3>1, UpTaken
  <2>3. UNCHANGED <<cur, got, dnA, dnL, rHold>>
    BY <1>2
  <2>4. Down' = Down /\ ComingDown' = ComingDown /\ (Empty => Empty') /\ (DownOrder => DownOrder')
    BY <2>1, <2>3, DownKept
  <2>5. UNCHANGED Others /\ proxy' = proxy
    BY <1>2 DEF Others
  <2>6. SessionInv(b)'
    BY <2>1, <2>2, <2>4, <2>5, Moved
  <2>7. QED
    BY <2>4, <2>6
<1>3. CASE FwdSend /\ fHold.to = "proxy"
  <2> USE DEF FwdSend, clientVars, proxyVars, runnerVars, daemonVars
  <2>1. fHold'.to = "none" /\ ~provider /\ dnA' = Append(dnA, fHold.f) /\ fHold' = Idle
    BY <1>0, <1>3, FrameFacts
  <2>2. UpOrder(b)' /\ End(b)' = End(b) /\ GoingUp' = GoingUp
    <3>1. UNCHANGED <<UpClient, upL, upA, pHold>> /\ fHold.to # "link" /\ fHold'.to # "link"
      BY <1>3, <2>1 DEF UpClient
    <3>2. QED
      BY <1>0, <3>1, UpKept
  <2>3. Down' = Down /\ ComingDown' = ComingDown /\ (DownOrder => DownOrder')
    BY <1>3, <2>1, DownPut
  <2>4. ~Empty
    BY <1>3 DEF Empty
  <2>5. UNCHANGED Others /\ proxy' = proxy
    BY <1>3 DEF Others
  <2>6. SessionInv(b)'
    BY <2>1, <2>2, <2>3, <2>4, <2>5, Moved
  <2>7. QED
    BY <2>3, <2>6
<1>4. CASE FwdSend /\ fHold.to # "proxy"
  <2> USE DEF FwdSend, clientVars, proxyVars, runnerVars, daemonVars
  <2>1. /\ fHold.to = "link" /\ fHold'.to = "none" /\ ~provider
        /\ upL' = Append(upL, fHold.f) /\ fHold' = Idle /\ dnA' = dnA
    BY <1>0, <1>4, FrameFacts
  <2>2. UpOrder(b)' /\ End(b)' = End(b) /\ GoingUp' = GoingUp
    <3>1. UNCHANGED <<UpClient, upA, pHold>>
      BY <1>4 DEF UpClient
    <3>2. QED
      BY <1>0, <2>1, <3>1, UpPut
  <2>3. UNCHANGED <<cur, got, dnA, dnL, rHold>>
    BY <1>4, <2>1
  <2>4. Down' = Down /\ ComingDown' = ComingDown /\ (Empty => Empty') /\ (DownOrder => DownOrder')
    BY <2>1, <2>3, DownKept
  <2>5. UNCHANGED Others /\ proxy' = proxy
    BY <1>4 DEF Others
  <2>6. SessionInv(b)'
    BY <2>1, <2>2, <2>4, <2>5, Moved
  <2>7. QED
    BY <2>4, <2>6
<1>5. CASE ProxySend
  <2> USE DEF ProxySend, clientVars, runnerVars, daemonVars
  <2>1. ~provider
    BY <1>5 DEF Places, SessionInv, Queued
  <2>2. UpOrder(b)' /\ End(b)' = End(b) /\ GoingUp' = GoingUp
    <3>1. UNCHANGED <<UpClient, upL, fHold>>
      BY <1>5 DEF UpClient
    <3>2. QED
      BY <1>0, <1>5, <3>1, UpSent
  <2>3. UNCHANGED <<cur, got, dnA, dnL, rHold, fHold>>
    BY <1>5
  <2>4. Down' = Down /\ ComingDown' = ComingDown /\ (Empty => Empty') /\ (DownOrder => DownOrder')
    BY <2>3, DownKept
  <2>5. UNCHANGED Others /\ (proxy' = proxy \/ (proxy' = "idle" /\ Eof \in GoingUp))
    BY <1>5, FrameFacts DEF Others, Places, GoingUp
  <2>6. SessionInv(b)'
    BY <2>1, <2>2, <2>4, <2>5, Moved
  <2>7. QED
    BY <2>4, <2>6
<1>6. CASE RunnerSend
  <2> USE DEF RunnerSend, clientVars, proxyVars, daemonVars
  <2>1. ~provider
    BY <1>0, <1>6
  <2>2. UpOrder(b)' /\ End(b)' = End(b) /\ GoingUp' = GoingUp
    <3>1. UNCHANGED <<UpClient, upL, upA, pHold, fHold>>
      BY <1>6 DEF UpClient
    <3>2. QED
      BY <1>0, <3>1, UpKept
  <2>3. Down' = Down /\ ComingDown' = ComingDown /\ (DownOrder => DownOrder')
    BY <1>6, DownSent
  <2>4. ~Empty
    BY <1>6 DEF Empty
  <2>5. UNCHANGED Others /\ proxy' = proxy
    BY <1>6 DEF Others
  <2>6. SessionInv(b)'
    BY <2>1, <2>2, <2>3, <2>4, <2>5, Moved
  <2>7. QED
    BY <2>3, <2>6
<1>7. QED
  BY <1>1, <1>2, <1>3, <1>4, <1>5, <1>6

----------------------------------------------------------------------------
(* The client's steps. *)

LEMMA EmptyOrder == Empty => DownOrder
<1>1. ASSUME Empty PROVE Len(dnA) = 0 /\ Len(dnL) = 0 /\ rHold = None /\ fHold.to # "proxy"
  BY <1>1, EmptyPipe DEF Empty
<1>2. QED
  BY SMT, <1>1 DEF DownOrder

LEMMA NoneGoing ==
  ASSUME chan = <<>>, pHold = None, upA = <<>>, fHold.to # "link", upL = <<>>
  PROVE  GoingUp = {}
BY EmptyPipe DEF GoingUp

(* A session opened on a quiet link starts with nothing of the last one but *)
(* what the proxy task will clear from its pipe.                            *)
LEMMA OpenStep ==
  ASSUME TypeInv, Places, Known, Open, fresh'
  PROVE  SessionInv(0)' /\ conn' = <<>>
<1>0. /\ fHold = Idle /\ fHold.to = "none" /\ rHold = None /\ upA = <<>> /\ upL = <<>>
      /\ dnL = <<>> /\ pHold = None /\ runner = "wait" /\ conn = <<>> /\ nresp = 0
  BY FrameFacts DEF Open, Settled, Places
<1>1. /\ cur' = cur + 1 /\ status' = "open" /\ chan' = <<>> /\ nreq' = 0 /\ since' = stops
      /\ got' = <<>> /\ provider' /\ ~provider /\ proxy = "idle" /\ ~rebooting
      /\ UNCHANGED <<proxy, pHold, upA, dnA, fHold, upL, dnL, runner, rHold, conn, nresp,
                     up, stops, rebooting>>
  BY DEF Open, runnerVars, daemonVars
<1>2. cur \in Nat /\ dnA \in Seq(Frame)
  BY DEF TypeInv, CountTypes, FrameTypes
<1>3. /\ Len(upL') = 0 /\ Len(upA') = 0 /\ Len(chan') = 0
      /\ fHold'.to # "link" /\ pHold' = None
  BY <1>0, <1>1, EmptyPipe
<1>4. UpOrder(0)' /\ End(0)' = 0
  BY SMT, <1>3 DEF UpOrder, End, Writes, Pipe, One
<1>5. UpEnd(0)'
  BY SMT, <1>1, <1>4 DEF UpEnd
<1>6. GoingUp' = {} /\ OnlyEnd'
  <2>1. Range(upL') = {} /\ Range(upA') = {} /\ Range(chan') = {}
    BY <1>0, <1>1, EmptyPipe
  <2>2. QED
    BY <1>3, <2>1 DEF GoingUp, OnlyEnd
<1>7. Connection(0)'
  BY SMT, <1>0, <1>1, <1>6 DEF Connection
<1>8. \A f \in ComingDown' : f.s # cur'
  <2>1. ComingDown' \subseteq Range(dnA)
    BY <1>0, <1>1, EmptyPipe DEF ComingDown
  <2>2. \A f \in Range(dnA) : f.s \in Nat /\ f.s <= cur
    BY <1>2, PipeFacts DEF Known, Frames, Frame
  <2>3. \A n \in Nat : n <= cur => n # cur + 1
    BY SMT, <1>2
  <2>4. QED
    BY <1>1, <2>1, <2>2, <2>3
<1>9. Queued(0)'
  BY <1>0, <1>1, <1>8 DEF Queued
<1>10. DownFrames' /\ BeforeFirst(0)'
  BY <1>0, <1>1 DEF DownFrames, BeforeFirst
<1>11. QED
  BY <1>0, <1>1, <1>4, <1>5, <1>7, <1>9, <1>10 DEF SessionInv

LEMMA RequestStep ==
  ASSUME TypeInv, Places, NEW b \in Nat, SessionInv(b), Request, calm'
  PROVE  SessionInv(b)' /\ ComingDown' = ComingDown
<1> DEFINE d == Data(cur, nreq + 1)
<1>0. UpOrder(b) /\ UpEnd(b) /\ Connection(b) /\ Queued(b) /\ DownFrames /\ BeforeFirst(b)
  BY DEF SessionInv
<1>1. /\ status = "open" /\ since = stops /\ nreq' = nreq + 1 /\ chan' = Append(chan, d)
      /\ ~rebooting
      /\ UNCHANGED <<cur, status, since, got, provider, proxy, pHold, upA, dnA, fHold, upL,
                     dnL, runner, rHold, conn, nresp, up, stops, rebooting>>
  BY DEF Request, proxyVars, runnerVars, daemonVars
<1>2. cur \in Nat /\ cur > 0 /\ nreq \in Nat /\ d # Eof /\ End(b) = nreq
  <2>1. cur \in Nat /\ cur > 0 /\ nreq \in Nat
    BY SMT, <1>1 DEF TypeInv, CountTypes
  <2>2. d # Eof
    BY SMT, <2>1, DataFacts
  <2>3. QED
    BY <1>0, <1>1, <2>1, <2>2 DEF UpEnd
<1>3. UpOrder(b)' /\ End(b)' = nreq' /\ GoingUp' = GoingUp \cup {d}
  BY <1>0, <1>1, <1>2, UpAsked
<1>4. Down' = Down /\ ComingDown' = ComingDown /\ (Empty => Empty') /\ (DownOrder => DownOrder')
  BY <1>1, DownKept
<1> HIDE DEF d
<1>5. UpEnd(b)'
  BY SMT, <1>0, <1>1, <1>2, <1>3 DEF UpEnd
<1>6. (provider => proxy = "idle") /\ (~provider => proxy = "session")
  BY <1>1 DEF Places
<1>7. Connection(b)'
  <2>1. Eof \in GoingUp => Eof \in GoingUp'
    BY <1>3
  <2>2. QED
    BY <1>0, <1>1, <1>4, <1>6, <2>1 DEF Connection
<1>8. Queued(b)' /\ BeforeFirst(b)'
  BY <1>0, <1>1, <1>4 DEF Queued, BeforeFirst
<1>9. DownFrames'
  BY <1>0, <1>1, <1>4 DEF DownFrames
<1>10. QED
  BY <1>3, <1>4, <1>5, <1>7, <1>8, <1>9 DEF SessionInv

LEMMA DropStep ==
  ASSUME TypeInv, Places, NEW b \in Nat, SessionInv(b), Drop
  PROVE  SessionInv(b)' /\ ComingDown' = ComingDown
<1>0. UpOrder(b) /\ UpEnd(b) /\ Connection(b) /\ Queued(b) /\ DownFrames /\ BeforeFirst(b)
  BY DEF SessionInv
<1>1. /\ status = "open" /\ status' = "closed" /\ ~rebooting
      /\ UNCHANGED <<cur, chan, nreq, since, got, provider, proxy, pHold, upA, dnA, fHold,
                     upL, dnL, runner, rHold, conn, nresp, up, stops, rebooting>>
  BY DEF Drop, proxyVars, runnerVars, daemonVars
<1>2. End(b)' = End(b) /\ GoingUp' = GoingUp /\ Pipe(b)' = Pipe(b) /\ Writes(b)' = Writes(b)
  BY <1>1 DEF End, Writes, Pipe, One, GoingUp
<1>3. UpOrder(b)'
  <2>1. \A k, f : Up(b, k, f) => Up(b, k, f)'
    BY <1>1, <1>2 DEF Up
  <2>2. /\ \A i \in 1..Len(upL) : Up(b, b + i, upL[i])'
        /\ fHold.to = "link" => Up(b, Pipe(b), fHold.f)'
        /\ \A i \in 1..Len(upA) : Up(b, Pipe(b) + i, upA[i])'
        /\ pHold # None => Up(b, Writes(b), pHold)'
    BY <1>0, <1>1, <1>2, <2>1 DEF UpOrder
  <2>3. QED
    BY <1>0, <1>1, <1>2, <2>2 DEF UpOrder
<1>4. Down' = Down /\ ComingDown' = ComingDown /\ (Empty => Empty') /\ (DownOrder => DownOrder')
  BY <1>1, DownKept
<1>5. UpEnd(b)'
  BY <1>0, <1>1, <1>2 DEF UpEnd
<1>6. Connection(b)'
  <2>1. OnlyEnd' = OnlyEnd
    BY <1>2 DEF OnlyEnd
  <2>2. QED
    BY <1>0, <1>1, <1>2, <2>1 DEF Connection
<1>7. Queued(b)' /\ BeforeFirst(b)'
  BY <1>0, <1>1, <1>4 DEF Queued, BeforeFirst
<1>8. DownFrames'
  BY <1>0, <1>1, <1>4 DEF DownFrames
<1>9. QED
  BY <1>3, <1>4, <1>5, <1>6, <1>7, <1>8 DEF SessionInv

----------------------------------------------------------------------------
(* The proxy task's steps. *)

LEMMA TakeStep ==
  ASSUME TypeInv, Places, NEW b \in Nat, SessionInv(b), TakeChannel
  PROVE  /\ SessionInv(b)'
         /\ ComingDown' = {} /\ \A f \in ComingDown : f.s # cur
<1>0. UpOrder(b) /\ UpEnd(b) /\ Connection(b) /\ Queued(b) /\ DownFrames /\ BeforeFirst(b)
  BY DEF SessionInv
<1>1. /\ proxy = "idle" /\ provider /\ ~provider' /\ dnA' = <<>> /\ proxy' = "session"
      /\ UNCHANGED <<cur, status, chan, nreq, since, got, pHold, upA, fHold, upL, dnL,
                     runner, rHold, conn, nresp, up, stops, rebooting>>
  BY DEF TakeChannel, ClearLast, clientVars, runnerVars, daemonVars
<1>2. /\ status \in {"open", "closed"} /\ runner = "wait"
      /\ upA = <<>> /\ upL = <<>> /\ fHold = Idle /\ dnL = <<>> /\ rHold = None
      /\ b = 0 /\ got = <<>> /\ \A f \in ComingDown : f.s # cur
      /\ pHold = None /\ fHold.to = "none"
  BY <1>0, <1>1, FrameFacts DEF Queued, Places
<1>3. UpOrder(b)' /\ End(b)' = End(b) /\ GoingUp' = GoingUp
  <2>1. UNCHANGED <<UpClient, upL, upA, pHold, fHold>>
    BY <1>1 DEF UpClient
  <2>2. QED
    BY <1>0, <2>1, UpKept
<1>4. Empty'
  BY <1>1, <1>2 DEF Empty
<1>5. DownOrder' /\ Down' = 0 /\ ComingDown' = {}
  <2>1. Len(dnA') = 0 /\ Len(dnL') = 0 /\ Range(dnA') = {} /\ Range(dnL') = {}
    BY <1>1, <1>2, EmptyPipe
  <2>2. fHold'.to # "proxy" /\ rHold' = None
    BY <1>1, <1>2
  <2>3. QED
    BY SMT, <2>1, <2>2 DEF DownOrder, Down, Fwd2, One, ComingDown
<1>6. Eof \notin GoingUp
  <2>1. cur \in Nat /\ cur > 0 /\ nreq \in Nat /\ Writes(b) \in Nat /\ Len(chan) \in Nat
    BY SMT, <1>2, UpOffsets DEF TypeInv, CountTypes
  <2>2. \A i \in 1..Len(chan) : chan[i] # Eof
    <3> TAKE i \in 1..Len(chan)
    <3> DEFINE k == Writes(b) + i
    <3>1. chan[i] = Data(cur, k) /\ k \in Nat
      BY SMT, <1>0, <2>1 DEF UpOrder
    <3> HIDE DEF k
    <3>2. Data(cur, k) # Eof
      BY <2>1, <3>1, DataFacts
    <3>3. QED
      BY <3>1, <3>2
  <2>3. Eof \notin Range(chan)
    BY SMT, <2>2, PipeFacts DEF TypeInv, FrameTypes
  <2>4. QED
    BY <1>2, <2>3, EmptyPipe, FrameFacts DEF GoingUp
<1>7. UpEnd(b)'
  BY <1>0, <1>1, <1>3, <1>6 DEF UpEnd
<1>8. Connection(b)'
  <2>1. OnlyEnd' = OnlyEnd
    BY <1>3 DEF OnlyEnd
  <2>2. QED
    BY SMT, <1>0, <1>1, <1>2, <2>1 DEF Connection
<1>9. Queued(b)' /\ DownFrames'
  BY <1>1, <1>2, <1>5 DEF Queued, DownFrames
<1>10. BeforeFirst(b)'
  BY <1>1, <1>2, <1>4 DEF BeforeFirst
<1>11. QED
  BY <1>2, <1>3, <1>5, <1>7, <1>8, <1>9, <1>10 DEF SessionInv

LEMMA ProxyUpStep ==
  ASSUME TypeInv, Places, NEW b \in Nat, SessionInv(b), ProxyUp
  PROVE  SessionInv(b)' /\ ComingDown' = ComingDown
<1>0. UpOrder(b) /\ UpEnd(b) /\ Connection(b) /\ Queued(b) /\ DownFrames /\ BeforeFirst(b)
  BY DEF SessionInv
<1>1. /\ proxy = "session" /\ pHold = None
      /\ UNCHANGED <<cur, status, nreq, since, got, provider, upA, dnA, fHold, upL, dnL,
                     runner, rHold, conn, nresp, up, stops, rebooting>>
  BY DEF ProxyUp, InLoop, runnerVars, daemonVars
<1>2. Down' = Down /\ ComingDown' = ComingDown /\ (Empty => Empty') /\ (DownOrder => DownOrder')
  BY <1>1, DownKept
<1>3. ~provider /\ Eof \notin GoingUp
  BY <1>0, <1>1 DEF Queued, UpEnd
<1>4. CASE chan # <<>>
  <2>1. pHold' = Head(chan) /\ chan' = Tail(chan) /\ proxy' = proxy
    BY <1>4 DEF ProxyUp
  <2>2. /\ UpOrder(b)' /\ End(b)' = End(b) /\ GoingUp' = GoingUp
        /\ pHold' # None /\ pHold' # Eof
    BY <1>0, <1>1, <1>4, <2>1, UpWritten
  <2>3. UNCHANGED Others
    BY <1>1 DEF Others
  <2>4. SessionInv(b)'
    BY <1>2, <1>3, <2>1, <2>2, <2>3, Moved
  <2>5. QED
    BY <1>2, <2>4
<1>5. CASE chan = <<>>
  <2>1. status = "closed" /\ proxy' = "ending" /\ pHold' = Eof /\ chan' = chan
    BY <1>5 DEF ProxyUp, EndWithEof
  <2>2. UpOrder(b)' /\ End(b)' = End(b) + 1 /\ GoingUp' = GoingUp \cup {Eof}
    <3>1. UNCHANGED <<UpClient, upL, upA, fHold>>
      BY <1>1, <2>1 DEF UpClient
    <3>2. QED
      BY <1>0, <1>1, <1>3, <1>5, <2>1, <3>1, UpEnded
  <2>3. UpEnd(b)'
    <3>1. End(b) \in Nat /\ nreq \in Nat
      BY EndAbove
    <3>2. QED
      BY SMT, <1>0, <1>1, <1>3, <2>1, <2>2, <3>1 DEF UpEnd
  <2>4. Connection(b)'
    <3>1. OnlyEnd' = OnlyEnd
      BY <2>2 DEF OnlyEnd
    <3>2. QED
      BY <1>0, <1>1, <2>1, <3>1 DEF Connection
  <2>5. Queued(b)' /\ BeforeFirst(b)'
    BY <1>0, <1>1, <1>2, <1>3 DEF Queued, BeforeFirst
  <2>6. DownFrames'
    BY <1>0, <1>1, <1>2 DEF DownFrames
  <2>7. QED
    BY <1>2, <2>2, <2>3, <2>4, <2>5, <2>6 DEF SessionInv
<1>6. QED
  BY <1>4, <1>5

(* The proxy task reads for an open session, or else spoils it; an empty    *)
(* frame it gets only when the daemon has stopped.                          *)
LEMMA ProxyDownReads ==
  ASSUME TypeInv, Places, NEW b \in Nat, SessionInv(b), ProxyDown, cur \notin spoilt'
  PROVE  /\ status = "open" /\ ~provider /\ DownOrder
         /\ Down' \in Nat /\ Down' = Down - 1 /\ Down \in Nat
         /\ ComingDown' \subseteq ComingDown
         /\ ComingDown \subseteq ComingDown' \cup {Head(dnA)}
         /\ ~Empty
         /\ Head(dnA) = Eof => Head(dnA) \in ComingDown
         /\ Head(dnA) = Eof => runner = "wait" /\ b > 0 /\ (~up \/ since # stops)
         /\ Head(dnA) # Eof =>
              /\ Head(dnA) = Data(cur, Len(got) + 1) /\ Head(dnA) \in ComingDown
              /\ got' = Append(got, Head(dnA)) /\ DownOrder'
<1>1. proxy = "session" /\ dnA # <<>> /\ dnA' = Tail(dnA) /\ status # "closed"
  BY DEF ProxyDown, InLoop
<1>2. status = "open" /\ ~provider
  BY <1>1 DEF Places, TypeInv, PlaceTypes
<1>3. DownOrder
  BY <1>2 DEF SessionInv, DownFrames
<1>4. UNCHANGED <<cur, dnL, fHold, rHold>>
  BY DEF ProxyDown, runnerVars, daemonVars
<1>5. /\ Down' \in Nat /\ Down' = Down - 1
      /\ ComingDown' \subseteq ComingDown
      /\ ComingDown \subseteq ComingDown' \cup {Head(dnA)}
      /\ Head(dnA) # None => Head(dnA) \in ComingDown
      /\ ~Empty
      /\ Head(dnA) = Eof \/ Head(dnA) = Data(cur, Len(got) + 1)
      /\ got' = Append(got, Head(dnA)) => DownOrder'
  BY <1>1, <1>3, <1>4, DownRead
<1>6. Down \in Nat /\ cur \in Nat /\ Len(got) \in Nat /\ cur > 0
  BY SMT, <1>2, DownOffsets DEF TypeInv, CountTypes
<1>7. Head(dnA) \in ComingDown
  <2>1. Data(cur, Len(got) + 1) # None
    BY SMT, <1>6, DataFacts
  <2>2. QED
    BY <1>5, <2>1, FrameFacts
<1>8. Head(dnA) = Eof => runner = "wait" /\ b > 0 /\ (~up \/ since # stops)
  <2> HAVE Head(dnA) = Eof
  <2>1. runner = "wait" /\ (~up \/ since # stops)
    BY <1>2, <1>7 DEF SessionInv, DownFrames, TypeInv, PlaceTypes
  <2>2. b # 0
    BY <1>2, <1>5, <2>1 DEF SessionInv, BeforeFirst
  <2>3. QED
    BY SMT, <2>1, <2>2
<1>9. Head(dnA) # Eof => got' = Append(got, Head(dnA))
  BY <1>2 DEF ProxyDown
<1>10. QED
  BY <1>2, <1>3, <1>5, <1>6, <1>7, <1>8, <1>9

LEMMA ProxyDownStep ==
  ASSUME TypeInv, Places, NEW b \in Nat, SessionInv(b), ProxyDown, cur \notin spoilt'
  PROVE  SessionInv(b)'
<1>0. UpOrder(b) /\ UpEnd(b) /\ Connection(b) /\ Queued(b) /\ DownFrames /\ BeforeFirst(b)
  BY DEF SessionInv
<1>1. /\ proxy = "session" /\ pHold = None
      /\ UNCHANGED <<cur, nreq, since, provider, pHold, upA, fHold, upL, dnL,
                     runner, rHold, conn, nresp, up, stops, rebooting>>
  BY DEF ProxyDown, InLoop, runnerVars, daemonVars
<1>2. /\ status = "open" /\ ~provider
      /\ Down' \in Nat /\ Down' = Down - 1 /\ Down \in Nat
      /\ ComingDown' \subseteq ComingDown
      /\ ComingDown \subseteq ComingDown' \cup {Head(dnA)}
      /\ ~Empty
      /\ Head(dnA) = Eof => runner = "wait" /\ b > 0 /\ (~up \/ since # stops)
      /\ Head(dnA) # Eof => got' = Append(got, Head(dnA)) /\ DownOrder'
  BY ProxyDownReads
<1>4. CASE Head(dnA) = Eof
  <2>1. proxy' = "idle" /\ status' = "down" /\ chan' = <<>> /\ got' = got
    BY <1>2, <1>4 DEF ProxyDown, LeaveLoop
  <2>2. UpOrder(b)' /\ End(b)' \in Nat /\ End(b)' <= End(b) /\ GoingUp' \subseteq GoingUp
    BY <1>0, <1>1, <1>2, <2>1, UpLeft
  <2>3. UpEnd(b)'
    <3>1. End(b) \in Nat /\ nreq \in Nat
      BY EndAbove
    <3>2. QED
      BY SMT, <1>0, <1>1, <1>2, <2>1, <2>2, <3>1 DEF UpEnd
  <2>4. Connection(b)'
    <3>1. OnlyEnd => OnlyEnd'
      BY <2>2 DEF OnlyEnd
    <3>2. QED
      BY SMT, <1>0, <1>1, <1>2, <1>4, <2>1, <3>1 DEF Connection
  <2>5. Queued(b)' /\ DownFrames'
    BY <1>0, <1>1, <1>2, <1>4, <2>1 DEF Queued, DownFrames
  <2>6. BeforeFirst(b)'
    BY <1>0, <1>1, <1>2 DEF BeforeFirst
  <2>7. QED
    BY <2>2, <2>3, <2>4, <2>5, <2>6 DEF SessionInv
<1>5. CASE Head(dnA) # Eof
  <2>1. proxy' = proxy /\ status' = status /\ chan' = chan
    BY <1>2, <1>5 DEF ProxyDown
  <2>2. UpOrder(b)' /\ End(b)' = End(b) /\ GoingUp' = GoingUp
    <3>1. UNCHANGED <<UpClient, upL, upA, pHold, fHold>>
      BY <1>1, <2>1 DEF UpClient
    <3>2. QED
      BY <1>0, <3>1, UpKept
  <2>3. UpEnd(b)' /\ Queued(b)'
    BY <1>0, <1>1, <1>2, <2>1, <2>2 DEF UpEnd, Queued
  <2>4. Connection(b)'
    <3>1. OnlyEnd' = OnlyEnd /\ (Eof \in ComingDown => Eof \in ComingDown')
      BY <1>2, <1>5, <2>2 DEF OnlyEnd
    <3>2. QED
      BY <1>0, <1>1, <1>2, <2>1, <2>2, <3>1 DEF Connection
  <2>5. Len(got)' + Down' = Len(got) + Down
    <3>1. Len(got)' = Len(got) + 1 /\ Len(got) \in Nat
      <4>1. dnA # <<>> /\ Head(dnA) \in Frame
        BY ReadFacts DEF ProxyDown, TypeInv, FrameTypes
      <4>2. QED
        BY <1>2, <1>5, <4>1, WriteFacts DEF TypeInv, FrameTypes
    <3>2. QED
      BY SMT, <1>2, <3>1
  <2>6. DownFrames'
    BY <1>0, <1>1, <1>2, <1>5, <2>1, <2>5 DEF DownFrames
  <2>7. BeforeFirst(b)'
    BY <1>0, <1>1, <1>2 DEF BeforeFirst
  <2>8. QED
    BY <2>2, <2>3, <2>4, <2>6, <2>7 DEF SessionInv
<1>6. QED
  BY <1>4, <1>5
=============================================================================
