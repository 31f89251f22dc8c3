------------------------ MODULE DaemonSessionProofs ------------------------
(***************************************************************************)
(* The proxy implements ManagementSession: the runner's and the daemon's   *)
(* steps keep the invariant of DaemonProxyProofs, and each step of the     *)
(* proxy is a step of a session or none.                                   *)
(***************************************************************************)
EXTENDS DaemonProxyProofs

\* Zenon proves most steps; the others name the prover they need.
USE ZenonT(30)

----------------------------------------------------------------------------
(* The steps of the runner's proxy task. *)

LEMMA RunnerFirstStep ==
  ASSUME TypeInv, Places, NEW b \in Nat, SessionInv(b), RunnerFirst
  PROVE  /\ SessionInv(b + 1)'
         /\ ComingDown' \in {ComingDown, ComingDown \cup {Eof}}
         /\ runner' = "connected" =>
              /\ b = 0 /\ up /\ ComingDown' = {} /\ conn' = <<Data(cur, 1)>>
              /\ b + 1 <= nreq
         /\ runner' # "connected" => conn' = conn
<1>0. UpOrder(b) /\ UpEnd(b) /\ Connection(b) /\ Queued(b) /\ DownFrames /\ BeforeFirst(b)
  BY DEF SessionInv
<1>1. /\ runner = "wait" /\ rHold = None /\ upL # <<>> /\ upL' = Tail(upL)
      /\ UNCHANGED <<cur, status, chan, nreq, since, got, provider, proxy, pHold, upA, dnA,
                     fHold, dnL, up, stops, rebooting>>
  BY DEF RunnerFirst, clientVars, proxyVars, daemonVars
<1>2. ~provider
  BY <1>0, <1>1 DEF Queued
<1>3. /\ UpOrder(b + 1)' /\ End(b + 1)' = End(b)
      /\ GoingUp' \subseteq GoingUp /\ GoingUp \subseteq GoingUp' \cup {Head(upL)}
      /\ \/ Head(upL) = Data(cur, b + 1) /\ b + 1 <= nreq
         \/ Head(upL) = Eof /\ status = "closed" /\ GoingUp' = {}
      /\ Head(upL) # None => Head(upL) \in GoingUp
  <2>1. UNCHANGED <<UpClient, upA, fHold, pHold>>
    BY <1>1 DEF UpClient
  <2>2. QED
    BY <1>0, <1>1, <2>1, UpRead
<1>4. OnlyEnd => OnlyEnd'
  BY <1>3 DEF OnlyEnd
<1>5. UpEnd(b + 1)'
  BY <1>0, <1>1, <1>3 DEF UpEnd
<1>6. Queued(b + 1)' /\ b + 1 # 0
  BY SMT, <1>1, <1>2 DEF Queued
<1>7. Down \in Nat /\ cur \in Nat
  BY DownOffsets
<1>8. CASE Head(upL) = Eof
  <2>1. UNCHANGED <<runner, rHold, conn, nresp>>
    BY <1>8 DEF RunnerFirst, runnerVars
  <2>2. cur \in Nat /\ (status = "closed" => cur > 0)
    BY SMT DEF TypeInv, CountTypes
  <2>3. status = "closed" /\ GoingUp' = {}
    <3>1. b + 1 <= nreq => Data(cur, b + 1) # Eof
      <4>1. b + 1 <= nreq => cur > 0 /\ cur \in Nat /\ b + 1 \in Nat
        BY SMT DEF TypeInv, CountTypes
      <4>2. QED
        BY <4>1, DataFacts
    <3>2. QED
      BY <1>3, <1>8, <3>1
  <2>4. Down' = Down /\ ComingDown' = ComingDown /\ (Empty => Empty') /\ (DownOrder => DownOrder')
    BY <1>1, <2>1, DownKept
  <2>5. Connection(b + 1)'
    <3>1. OnlyEnd'
      BY <2>3 DEF OnlyEnd
    <3>2. QED
      BY <1>0, <1>1, <2>1, <2>3, <3>1 DEF Connection
  <2>6. DownFrames'
    BY <1>0, <1>1, <2>1, <2>4 DEF DownFrames
  <2>7. BeforeFirst(b + 1)'
    BY <1>6 DEF BeforeFirst
  <2>8. QED
    BY <1>1, <1>3, <1>5, <1>6, <2>1, <2>4, <2>5, <2>6, <2>7 DEF SessionInv
<1>9. CASE Head(upL) # Eof
  <2>1. /\ Head(upL) = Data(cur, b + 1) /\ b + 1 <= nreq /\ cur > 0
        /\ Head(upL) \in GoingUp /\ ~OnlyEnd /\ since = stops
    <3>1. Head(upL) = Data(cur, b + 1) /\ b + 1 <= nreq
      BY <1>3, <1>9
    <3>2. cur > 0 /\ cur \in Nat /\ b + 1 \in Nat
      BY SMT, <3>1 DEF TypeInv, CountTypes
    <3>3. Head(upL) # None
      BY <3>1, <3>2, DataFacts
    <3>4. Head(upL) \in GoingUp /\ ~OnlyEnd
      BY <1>3, <1>9, <3>3 DEF OnlyEnd
    <3>5. QED
      BY <1>0, <3>1, <3>2, <3>4 DEF Connection
  <2>2. CASE up
    <3>1. /\ runner' = "connected" /\ conn' = <<Data(cur, b + 1)>> /\ nresp' = 0
          /\ rHold' = rHold
      BY <1>9, <2>1, <2>2 DEF RunnerFirst
    <3>2. b = 0 /\ Empty /\ got = <<>>
      BY SMT, <1>0, <1>1, <1>2, <2>1, <2>2 DEF Connection, BeforeFirst
    <3>3. Down' = Down /\ ComingDown' = ComingDown /\ (Empty => Empty') /\ (DownOrder => DownOrder')
      BY <1>1, <3>1, DownKept
    <3>4. Down' = 0 /\ ComingDown' = {} /\ Empty' /\ DownOrder'
      <4>1. Down = 0 /\ ComingDown = {}
        BY <3>2, DownOffsets
      <4>2. QED
        BY <3>2, <3>3, <4>1, EmptyOrder
    <3>5. conn' = <<Data(cur, 1)>> /\ Len(conn') = 1 /\ conn'[1] = Data(cur, 1)
      BY SMT, <3>1, <3>2
    <3>6. Connection(b + 1)'
      <4>1. proxy = "idle" => Eof \in GoingUp'
        BY <1>0, <1>1, <1>2, <1>3, <1>9, <2>1, <3>2 DEF Connection
      <4>2. \A i \in 1..(b + 1) : conn'[i] = Data(cur', i)
        BY SMT, <1>1, <3>2, <3>5
      <4>3. QED
        BY SMT, <1>1, <2>1, <2>2, <3>1, <3>2, <3>5, <4>1, <4>2 DEF Connection
    <3>7. DownFrames'
      <4>1. Len(got') + Down' = 0
        BY SMT, <1>1, <3>2, <3>4, EmptyPipe
      <4>2. QED
        BY <3>1, <3>4, <4>1 DEF DownFrames
    <3>8. BeforeFirst(b + 1)'
      BY <1>6 DEF BeforeFirst
    <3>9. QED
      BY <1>3, <1>5, <1>6, <2>1, <2>2, <3>1, <3>2, <3>3, <3>4, <3>5, <3>6, <3>7, <3>8
      DEF SessionInv
  <2>3. CASE ~up
    <3>1. rHold' = Eof /\ UNCHANGED <<runner, conn, nresp>>
      <4>1. Head(upL).s = cur
        <5>1. b + 1 \in Nat
          BY SMT
        <5>2. QED
          BY <1>7, <2>1, <5>1, DataFacts
      <4>2. QED
        BY <1>9, <2>1, <2>3, <4>1 DEF RunnerFirst, Refuse
    <3>2. /\ Down' = Down + 1 /\ ComingDown' = ComingDown \cup {Eof}
          /\ DownOrder => DownOrder'
      <4>1. Reply(Down + 1, rHold')
        BY <3>1 DEF Reply
      <4>2. QED
        BY <1>1, <3>1, <4>1, DownAdded, FrameFacts
    <3>3. Connection(b + 1)'
      BY SMT, <1>0, <1>1, <1>4, <2>3, <3>1, <3>2 DEF Connection
    <3>4. DownFrames'
      BY <1>0, <1>1, <2>3, <3>1, <3>2 DEF DownFrames
    <3>5. BeforeFirst(b + 1)'
      BY <1>6 DEF BeforeFirst
    <3>6. QED
      BY <1>1, <1>3, <1>5, <1>6, <3>1, <3>2, <3>3, <3>4, <3>5 DEF SessionInv
  <2>4. QED
    BY <2>2, <2>3
<1>10. QED
  BY <1>8, <1>9

LEMMA RunnerUpStep ==
  ASSUME TypeInv, Places, NEW b \in Nat, SessionInv(b), RunnerUp
  PROVE  /\ SessionInv(b + 1)' /\ ComingDown' = ComingDown
         /\ runner' = "connected" =>
              up /\ conn' = Append(conn, Data(cur, b + 1)) /\ b + 1 <= nreq
         /\ runner' # "connected" => conn' = <<>> /\ status = "closed"
<1>0. UpOrder(b) /\ UpEnd(b) /\ Connection(b) /\ Queued(b) /\ DownFrames /\ BeforeFirst(b)
  BY DEF SessionInv
<1>1. /\ runner = "connected" /\ rHold = None /\ upL # <<>> /\ upL' = Tail(upL)
      /\ UNCHANGED <<cur, status, chan, nreq, since, got, provider, proxy, pHold, upA, dnA,
                     fHold, dnL, rHold, up, stops, rebooting>>
  BY DEF RunnerUp, clientVars, proxyVars, daemonVars
<1>2. ~provider
  BY <1>0, <1>1 DEF Queued
<1>3. /\ UpOrder(b + 1)' /\ End(b + 1)' = End(b)
      /\ GoingUp' \subseteq GoingUp /\ GoingUp \subseteq GoingUp' \cup {Head(upL)}
      /\ \/ Head(upL) = Data(cur, b + 1) /\ b + 1 <= nreq
         \/ Head(upL) = Eof /\ status = "closed" /\ GoingUp' = {}
      /\ Head(upL) # None => Head(upL) \in GoingUp
  <2>1. UNCHANGED <<UpClient, upA, fHold, pHold>>
    BY <1>1 DEF UpClient
  <2>2. QED
    BY <1>0, <1>1, <2>1, UpRead
<1>4. OnlyEnd => OnlyEnd'
  BY <1>3 DEF OnlyEnd
<1>5. UpEnd(b + 1)'
  BY <1>0, <1>1, <1>3 DEF UpEnd
<1>6. Queued(b + 1)' /\ BeforeFirst(b + 1)'
  <2>1. b + 1 # 0
    BY SMT
  <2>2. QED
    BY <1>1, <1>2, <2>1 DEF Queued, BeforeFirst
<1>7. cur \in Nat /\ cur > 0 /\ Len(conn) = b /\ \A i \in 1..b : conn[i] = Data(cur, i)
  BY <1>0, <1>1 DEF Connection, TypeInv, CountTypes
<1>8. Down' = Down /\ ComingDown' = ComingDown /\ (Empty => Empty') /\ (DownOrder => DownOrder')
  BY <1>1, DownKept
<1>9. CASE Head(upL) = Eof
  <2>1. runner' = "wait" /\ conn' = <<>> /\ nresp' = 0
    BY <1>9 DEF RunnerUp, Disconnect
  <2>2. status = "closed" /\ GoingUp' = {}
    <3>1. Data(cur, b + 1) # Eof
      <4>1. b + 1 \in Nat
        BY SMT
      <4>2. QED
        BY <1>7, <4>1, DataFacts
    <3>2. QED
      BY <1>3, <1>9, <3>1
  <2>3. Connection(b + 1)'
    <3>1. OnlyEnd'
      BY <2>2 DEF OnlyEnd
    <3>2. QED
      BY <1>1, <2>1, <2>2, <3>1 DEF Connection
  <2>4. DownFrames'
    BY <1>0, <1>1, <1>8, <2>1, <2>2 DEF DownFrames
  <2>5. QED
    BY <1>3, <1>5, <1>6, <1>8, <2>1, <2>2, <2>3, <2>4 DEF SessionInv
<1>10. CASE Head(upL) # Eof
  <2>1. conn' = Append(conn, Data(cur, b + 1)) /\ b + 1 <= nreq /\ UNCHANGED <<runner, nresp>>
    BY <1>3, <1>10 DEF RunnerUp
  <2>2. /\ Len(conn') = b + 1 /\ conn'[b + 1] = Data(cur, b + 1)
        /\ \A i \in 1..b : conn'[i] = conn[i]
    <3>1. conn \in Seq(Frame) /\ Data(cur, b + 1) \in Frame
      <4>1. b + 1 \in Nat
        BY SMT
      <4>2. QED
        BY <1>7, <4>1, DataFacts DEF TypeInv, FrameTypes
    <3>2. QED
      BY <1>7, <2>1, <3>1, WriteFacts
  <2>3. \A i \in 1..(b + 1) : conn'[i] = Data(cur', i)
    <3> TAKE i \in 1..(b + 1)
    <3>1. CASE i = b + 1
      BY <1>1, <2>2, <3>1
    <3>2. CASE i # b + 1
      <4>1. i \in 1..b
        BY SMT, <3>2
      <4>2. QED
        BY <1>1, <1>7, <2>2, <4>1
    <3>3. QED
      BY <3>1, <3>2
  <2>4. Connection(b + 1)'
    <3>1. Eof \in GoingUp => Eof \in GoingUp'
      BY <1>3, <1>10
    <3>2. b + 1 > 0
      BY SMT
    <3>3. QED
      BY <1>0, <1>1, <1>4, <2>1, <2>2, <2>3, <3>1, <3>2 DEF Connection
  <2>5. DownFrames'
    BY <1>0, <1>1, <1>8, <2>1 DEF DownFrames
  <2>6. up
    <3>1. Head(upL) # None
      <4>1. Data(cur, b + 1) # None
        <5>1. b + 1 \in Nat
          BY SMT
        <5>2. QED
          BY <1>7, <5>1, DataFacts
      <4>2. QED
        BY <1>3, <1>10, <4>1
    <3>2. ~OnlyEnd
      BY <1>3, <1>10, <3>1 DEF OnlyEnd
    <3>3. QED
      BY <1>0, <1>1, <3>2 DEF Connection
  <2>7. QED
    BY <1>1, <1>3, <1>5, <1>6, <1>8, <2>1, <2>4, <2>5, <2>6 DEF SessionInv
<1>11. QED
  BY <1>9, <1>10

LEMMA RunnerDownStep ==
  ASSUME TypeInv, Places, NEW b \in Nat, SessionInv(b), RunnerDown
  PROVE  /\ SessionInv(b)'
         /\ ComingDown' = ComingDown \cup {Data(cur, nresp + 1)} /\ cur > 0
         /\ Data(cur, nresp + 1) \notin ComingDown
<1>0. UpOrder(b) /\ UpEnd(b) /\ Connection(b) /\ Queued(b) /\ DownFrames /\ BeforeFirst(b)
  BY DEF SessionInv
<1>1. /\ runner = "connected" /\ rHold = None /\ nresp < Len(conn) + MaxEvents
      /\ nresp' = nresp + 1 /\ rHold' = Data(conn[1].s, nresp + 1)
      /\ UNCHANGED <<cur, status, chan, nreq, since, got, provider, proxy, pHold, upA, dnA,
                     fHold, upL, dnL, runner, conn, up, stops, rebooting>>
  BY DEF RunnerDown, clientVars, proxyVars, daemonVars
<1>2. /\ Down \in Nat /\ cur \in Nat /\ cur > 0 /\ nresp \in Nat /\ Len(conn) \in Nat
      /\ Len(got) \in Nat
  <2>1. Down \in Nat /\ cur \in Nat /\ Len(got) \in Nat
    BY DownOffsets
  <2>2. Len(conn) \in Nat
    BY SMT, PipeFacts DEF TypeInv, FrameTypes
  <2>3. QED
    BY <1>0, <1>1, <2>1, <2>2 DEF Connection, TypeInv, CountTypes
<1> DEFINE d == Data(cur, nresp + 1)
<1>3. rHold' = d /\ d # None /\ d # Eof /\ d.s = cur /\ d.n = nresp + 1
  <2>1. conn[1] = Data(cur, 1)
    BY SMT, <1>0, <1>1 DEF Connection
  <2>2. conn[1].s = cur
    <3>1. Data(cur, 1).s = cur
      BY <1>2, DataFacts
    <3>2. QED
      BY <2>1, <3>1
  <2>3. nresp + 1 \in Nat
    BY SMT, <1>2
  <2>4. QED
    BY <1>1, <1>2, <2>2, <2>3, DataFacts
<1> HIDE DEF d
<1>4. /\ Down' = Down + 1 /\ ComingDown' = ComingDown \cup {d}
      /\ DownOrder /\ Reply(Down + 1, d) => DownOrder'
  BY <1>1, <1>3, DownAdded
<1>5. UpOrder(b)' /\ End(b)' = End(b) /\ GoingUp' = GoingUp
  <2>1. UNCHANGED <<UpClient, upL, upA, pHold, fHold>>
    BY <1>1 DEF UpClient
  <2>2. QED
    BY <1>0, <2>1, UpKept
<1>6. UpEnd(b)' /\ Queued(b)' /\ BeforeFirst(b)'
  BY <1>0, <1>1, <1>5 DEF UpEnd, Queued, BeforeFirst
<1>7. Connection(b)'
  <2>1. OnlyEnd' = OnlyEnd
    BY <1>5 DEF OnlyEnd
  <2>2. QED
    BY <1>0, <1>1, <1>5, <2>1 DEF Connection
<1>8. DownFrames'
  <2>2. \A f \in ComingDown' : f # Eof /\ (f.s = cur' => f.n <= nresp')
    <3> SUFFICES ASSUME NEW f \in ComingDown' PROVE f # Eof /\ (f.s = cur => f.n <= nresp + 1)
      BY <1>1
    <3>1. CASE f = d
      BY SMT, <1>2, <1>3, <3>1
    <3>2. CASE f \in ComingDown
      <4>1. f # Eof /\ (f.s = cur => f.n <= nresp)
        BY <1>0, <1>1, <3>2 DEF DownFrames
      <4>2. f.n \in Nat
        <5>1. f \in Frame
          BY SMT, <3>2, PipeFacts, HoldFacts DEF ComingDown, TypeInv, FrameTypes
        <5>2. QED
          BY <5>1 DEF Frame
      <4>3. QED
        BY SMT, <1>2, <4>1, <4>2
    <3>3. QED
      BY <1>4, <3>1, <3>2
  <2>3. Eof \in ComingDown' => Eof \in ComingDown
    BY <1>3, <1>4
  <2>4. status = "open" => Len(got) + Down = nresp /\ Len(got') + Down' = nresp'
    <3>1. status = "open" => Len(got) + Down = nresp
      BY <1>0, <1>1 DEF DownFrames
    <3>2. QED
      BY SMT, <1>1, <1>2, <1>4, <3>1
  <2>5. status = "open" /\ ~provider => DownOrder'
    <3> HAVE status = "open" /\ ~provider
    <3>1. Len(got) + (Down + 1) = nresp + 1
      BY SMT, <1>2, <2>4
    <3>2. Reply(Down + 1, d)
      BY <3>1 DEF Reply, d
    <3>3. QED
      BY <1>0, <1>4, <3>2 DEF DownFrames
  <2>6. QED
    BY <1>0, <1>1, <2>2, <2>3, <2>4, <2>5 DEF DownFrames
<1>9. d \notin ComingDown
  <2>1. \A f \in ComingDown : f.s = cur => f.n <= nresp
    BY <1>0, <1>1 DEF DownFrames
  <2>2. QED
    BY SMT, <1>2, <1>3, <2>1
<1>10. QED
  BY <1>2, <1>4, <1>5, <1>6, <1>7, <1>8, <1>9 DEF SessionInv, d

LEMMA UdsEndStep ==
  ASSUME TypeInv, Places, NEW b \in Nat, SessionInv(b), UdsEnd
  PROVE  /\ SessionInv(b)' /\ since # stops
         /\ ComingDown' \in {ComingDown, ComingDown \cup {Eof}}
<1>0. UpOrder(b) /\ UpEnd(b) /\ Connection(b) /\ Queued(b) /\ DownFrames /\ BeforeFirst(b)
  BY DEF SessionInv
<1>1. /\ ~up \/ Garbled
      /\ runner = "connected" /\ rHold = None
      /\ runner' = "wait" /\ conn' = <<>> /\ nresp' = 0 /\ rHold' \in {None, Eof}
      /\ UNCHANGED <<cur, status, chan, nreq, since, got, provider, proxy, pHold, upA, dnA,
                     fHold, upL, dnL, up, stops, rebooting>>
  BY DEF UdsEnd, Disconnect, clientVars, proxyVars, daemonVars
<1>2. ~Garbled
  <2>1. /\ cur \in Nat /\ Len(conn) = b /\ b > 0 /\ conn \in Seq(Frame)
        /\ \A i \in 1..b : conn[i] = Data(cur, i)
    BY <1>0, <1>1 DEF Connection, TypeInv, CountTypes, FrameTypes
  <2>2. DOMAIN conn = 1..b /\ 1 \in 1..b /\ \A i \in 1..b : i \in Nat
    BY SMT, <2>1
  <2>3. \A i \in 1..b : conn[i].s = cur
    <3> TAKE i \in 1..b
    <3>1. i \in Nat /\ conn[i] = Data(cur, i)
      BY <2>1, <2>2
    <3>2. Data(cur, i).s = cur
      BY <2>1, <3>1, DataFacts
    <3>3. QED
      BY <3>1, <3>2
  <2>4. QED
    BY <2>2, <2>3 DEF Garbled
<1>3. since # stops /\ b > 0 /\ OnlyEnd /\ ~provider /\ ~up
  BY <1>0, <1>1, <1>2 DEF Connection, Queued
<1>4. UpOrder(b)' /\ End(b)' = End(b) /\ GoingUp' = GoingUp
  <2>1. UNCHANGED <<UpClient, upL, upA, pHold, fHold>>
    BY <1>1 DEF UpClient
  <2>2. QED
    BY <1>0, <2>1, UpKept
<1>5. /\ Down' \in {Down, Down + 1}
      /\ ComingDown' \in {ComingDown, ComingDown \cup {Eof}}
      /\ DownOrder => DownOrder'
  <2>1. CASE rHold' = None
    BY <1>1, <2>1, DownKept
  <2>2. CASE rHold' = Eof
    <3>1. Reply(Down + 1, rHold')
      BY <2>2 DEF Reply
    <3>2. QED
      BY <1>1, <2>2, <3>1, DownAdded, FrameFacts
  <2>3. QED
    BY <1>1, <2>1, <2>2
<1>6. UpEnd(b)' /\ Queued(b)' /\ BeforeFirst(b)'
  <2>1. b # 0
    BY SMT, <1>3
  <2>2. QED
    BY <1>0, <1>1, <1>3, <1>4, <2>1 DEF UpEnd, Queued, BeforeFirst
<1>7. Connection(b)'
  <2>1. OnlyEnd'
    BY <1>3, <1>4 DEF OnlyEnd
  <2>2. QED
    BY <1>1, <1>3, <2>1 DEF Connection
<1>8. DownFrames'
  <2>1. \A f \in ComingDown' : f \in ComingDown \/ f = Eof
    BY <1>5
  <2>2. QED
    BY <1>0, <1>1, <1>3, <1>5, <2>1 DEF DownFrames
<1>9. QED
  BY <1>3, <1>4, <1>5, <1>6, <1>7, <1>8 DEF SessionInv

----------------------------------------------------------------------------
(* The daemon stops and starts, and the guest reboots. *)

LEMMA NotSendingUp ==
  ASSUME NEW b \in Nat, NotSending, chan' = <<>>, UNCHANGED <<pHold, upA, fHold, upL>>
  PROVE  GoingUp = {} /\ GoingUp' = {} /\ UpOrder(b)' /\ End(b) = b /\ End(b)' = b
<1>1. /\ Len(chan) = 0 /\ Len(upA) = 0 /\ Len(upL) = 0 /\ pHold = None /\ fHold.to # "link"
      /\ Range(chan) = {} /\ Range(upA) = {} /\ Range(upL) = {}
      /\ Len(chan') = 0 /\ Range(chan') = {}
  BY EmptyPipe DEF NotSending
<1>2. GoingUp = {} /\ GoingUp' = {}
  BY <1>1 DEF GoingUp
<1>3. UpOrder(b)'
  BY SMT, <1>1 DEF UpOrder
<1>4. Pipe(b) = b /\ Pipe(b)' = b
  BY SMT, <1>1 DEF Pipe, One
<1>5. Writes(b) = b /\ Writes(b)' = b
  BY SMT, <1>1, <1>4 DEF Writes, One
<1>6. QED
  BY SMT, <1>1, <1>2, <1>3, <1>5 DEF End

LEMMA DaemonStopStep ==
  ASSUME TypeInv, Places, NEW b \in Nat, SessionInv(b), DaemonStop, calm'
  PROVE  SessionInv(b)' /\ ComingDown' = ComingDown
<1>0. UpOrder(b) /\ UpEnd(b) /\ Connection(b) /\ Queued(b) /\ DownFrames /\ BeforeFirst(b)
  BY DEF SessionInv
<1>1. /\ NotSending /\ ~rebooting /\ up' = FALSE /\ stops' = stops + 1
      /\ UNCHANGED <<cur, status, chan, nreq, since, got, provider, proxy, pHold, upA, dnA,
                     fHold, upL, dnL, runner, rHold, conn, nresp, rebooting>>
  BY DEF DaemonStop, clientVars, proxyVars, runnerVars
<1>2. since # stops'
  BY SMT, <1>1 DEF TypeInv, CountTypes
<1>3. chan' = <<>>
  BY <1>1 DEF NotSending
<1>4. GoingUp = {} /\ GoingUp' = {} /\ UpOrder(b)' /\ End(b) = b /\ End(b)' = b
  BY <1>1, <1>3, NotSendingUp
<1>5. Down' = Down /\ ComingDown' = ComingDown /\ (Empty => Empty') /\ (DownOrder => DownOrder')
  BY <1>1, DownKept
<1>6. UpEnd(b)' /\ Queued(b)' /\ BeforeFirst(b)'
  BY <1>0, <1>1, <1>4, <1>5 DEF UpEnd, Queued, BeforeFirst
<1>7. Connection(b)'
  <2>1. OnlyEnd'
    BY <1>4 DEF OnlyEnd
  <2>2. QED
    BY <1>0, <1>1, <1>2, <1>4, <2>1 DEF Connection
<1>8. DownFrames'
  BY <1>0, <1>1, <1>2, <1>5 DEF DownFrames
<1>9. QED
  BY <1>4, <1>5, <1>6, <1>7, <1>8 DEF SessionInv

LEMMA DaemonStartStep ==
  ASSUME TypeInv, Places, NEW b \in Nat, SessionInv(b), DaemonStart, calm'
  PROVE  SessionInv(b)' /\ ComingDown' = ComingDown
<1>0. UpOrder(b) /\ UpEnd(b) /\ Connection(b) /\ Queued(b) /\ DownFrames /\ BeforeFirst(b)
  BY DEF SessionInv
<1>1. /\ Quiet /\ runner = "wait" /\ up'
      /\ UNCHANGED <<cur, status, chan, nreq, since, got, provider, proxy, pHold, upA, dnA,
                     fHold, upL, dnL, runner, rHold, conn, nresp, stops, rebooting>>
  BY DEF DaemonStart, clientVars, proxyVars, runnerVars
<1>2. NotSending /\ chan' = <<>>
  BY <1>1 DEF Quiet, NotSending
<1>3. GoingUp = {} /\ GoingUp' = {} /\ UpOrder(b)' /\ End(b) = b /\ End(b)' = b
  BY <1>1, <1>2, NotSendingUp
<1>4. Down' = Down /\ ComingDown' = ComingDown /\ (Empty => Empty') /\ (DownOrder => DownOrder')
  BY <1>1, DownKept
<1>5. status = "open" /\ ~provider => ComingDown = {}
  <2> HAVE status = "open" /\ ~provider
  <2>1. dnA = <<>> /\ dnL = <<>> /\ rHold = None /\ fHold.to # "proxy"
    BY <1>1, FrameFacts DEF Places, Quiet
  <2>2. Range(dnA) = {} /\ Range(dnL) = {}
    BY <2>1, EmptyPipe
  <2>3. QED
    BY <2>1, <2>2 DEF ComingDown
<1>6. UpEnd(b)' /\ Queued(b)' /\ BeforeFirst(b)'
  BY <1>0, <1>1, <1>3, <1>4 DEF UpEnd, Queued, BeforeFirst
<1>7. Connection(b)'
  <2>1. OnlyEnd'
    BY <1>3 DEF OnlyEnd
  <2>2. ~(b > 0 /\ status = "open" /\ since = stops)
    BY SMT, <1>0, <1>1, <1>5 DEF Connection, Queued
  <2>3. QED
    BY <1>0, <1>1, <2>1, <2>2 DEF Connection
<1>8. DownFrames'
  BY <1>0, <1>1, <1>4, <1>5 DEF DownFrames
<1>9. QED
  BY <1>3, <1>4, <1>6, <1>7, <1>8 DEF SessionInv

LEMMA RebootStep ==
  ASSUME TypeInv, Places, NEW b \in Nat, SessionInv(b), Reboot, calm'
  PROVE  /\ SessionInv(b)' /\ ComingDown' = ComingDown
         /\ status' = status \/ (status = "open" /\ status' = "down")
<1>0. UpOrder(b) /\ UpEnd(b) /\ Connection(b) /\ Queued(b) /\ DownFrames /\ BeforeFirst(b)
  BY DEF SessionInv
<1>1. /\ NotSending /\ rebooting' /\ stops' = stops + 1
      /\ UNCHANGED <<cur, nreq, since, got, provider, pHold, upA, dnA,
                     fHold, upL, dnL, runner, rHold, conn, nresp, up>>
  BY DEF Reboot, runnerVars
<1>2. since # stops'
  BY SMT, <1>1 DEF TypeInv, CountTypes
<1>3. /\ chan' = <<>>
      /\ \/ UNCHANGED <<proxy, status>>
         \/ /\ proxy = "session" /\ proxy' = "idle" /\ pHold = None
            /\ status' = IF status = "open" THEN "down" ELSE status
  BY <1>1 DEF Reboot, NotifyWaiters, LeaveLoop, InLoop, NotSending
<1>4. GoingUp = {} /\ GoingUp' = {} /\ UpOrder(b)' /\ End(b) = b /\ End(b)' = b
  BY <1>1, <1>3, NotSendingUp
<1>5. Down' = Down /\ ComingDown' = ComingDown /\ (Empty => Empty') /\ (DownOrder => DownOrder')
  BY <1>1, DownKept
<1>6. UpEnd(b)' /\ Queued(b)' /\ BeforeFirst(b)'
  BY <1>0, <1>1, <1>3, <1>4, <1>5 DEF UpEnd, Queued, BeforeFirst
<1>7. Connection(b)'
  <2>1. OnlyEnd'
    BY <1>4 DEF OnlyEnd
  <2>2. QED
    BY <1>0, <1>1, <1>2, <2>1 DEF Connection
<1>8. DownFrames'
  BY <1>0, <1>1, <1>2, <1>3, <1>5 DEF DownFrames
<1>9. QED
  BY <1>3, <1>4, <1>5, <1>6, <1>7, <1>8 DEF SessionInv

LEMMA RebootedStep ==
  ASSUME TypeInv, Places, NEW b \in Nat, SessionInv(b), Rebooted,
         NEW c \in Nat, c = b + Len(upL)
  PROVE  SessionInv(c)' /\ since # stops /\ ComingDown' \subseteq ComingDown
<1>0. UpOrder(b) /\ UpEnd(b) /\ Connection(b) /\ Queued(b) /\ DownFrames /\ BeforeFirst(b)
  BY DEF SessionInv
<1>1. /\ rebooting /\ ~rebooting' /\ upL' = <<>> /\ dnL' = <<>> /\ rHold' = None /\ up'
      /\ runner' = "wait" /\ conn' = <<>> /\ nresp' = 0
      /\ UNCHANGED <<cur, status, chan, nreq, since, got, provider, proxy, pHold, upA, dnA,
                     fHold, stops>>
  BY DEF Rebooted, Disconnect, clientVars, proxyVars
<1>2. since # stops /\ OnlyEnd
  BY <1>0, <1>1 DEF Places, Connection
<1>3. UpOrder(c)' /\ End(c)' = End(b) /\ GoingUp' \subseteq GoingUp
  <2>1. UNCHANGED <<UpClient, upA, fHold, pHold>>
    BY <1>1 DEF UpClient
  <2>2. QED
    BY <1>0, <1>1, <2>1, UpLost
<1>4. /\ Down' \in Nat /\ Down' <= Down /\ ComingDown' \subseteq ComingDown
      /\ Empty => Empty'
      /\ DownOrder => DownOrder'
  BY <1>1, DownLost
<1>5. Len(upL) \in Nat /\ (upL = <<>> => Len(upL) = 0)
  BY SMT, PipeFacts DEF TypeInv, FrameTypes
<1>6. UpEnd(c)'
  BY <1>0, <1>1, <1>3 DEF UpEnd
<1>7. Connection(c)'
  <2>1. OnlyEnd'
    BY <1>2, <1>3 DEF OnlyEnd
  <2>2. QED
    BY <1>1, <1>2, <2>1 DEF Connection
<1>8. Queued(c)'
  <2>1. provider => c = 0
    BY SMT, <1>0, <1>5 DEF Queued
  <2>2. QED
    BY <1>0, <1>1, <1>4, <2>1 DEF Queued
<1>9. DownFrames'
  BY <1>0, <1>1, <1>2, <1>4 DEF DownFrames
<1>10. BeforeFirst(c)'
  <2>1. c = 0 => b = 0 /\ runner # "connected"
    <3>1. c = 0 => b = 0
      BY SMT, <1>5
    <3>2. runner = "connected" => b # 0
      BY SMT, <1>0 DEF Connection
    <3>3. QED
      BY <3>1, <3>2
  <2>2. QED
    BY <1>0, <1>1, <1>4, <2>1 DEF BeforeFirst, TypeInv, PlaceTypes
<1>11. QED
  BY <1>2, <1>3, <1>4, <1>6, <1>7, <1>8, <1>9, <1>10 DEF SessionInv

----------------------------------------------------------------------------
(* The invariant. *)

LEMMA InRange == \A c \in Nat : TypeInv /\ SessionInv(c) => c \in 0..(nreq + 1)
<1> SUFFICES ASSUME NEW c \in Nat, TypeInv, SessionInv(c) PROVE c \in 0..(nreq + 1)
  OBVIOUS
<1>1. End(c) <= nreq + 1
  BY DEF SessionInv, UpEnd
<1>2. End(c) \in Nat /\ nreq \in Nat /\ c <= End(c)
  BY EndAbove
<1>3. QED
  BY SMT, <1>1, <1>2

LEMMA InvInit == Init => ProxyInv
<1> SUFFICES ASSUME Init PROVE ProxyInv
  OBVIOUS
<1>1. TypeInv
  BY TypeInit
<1>2. Places
  BY FrameFacts DEF Init, Places
<1>3. /\ Len(upL) = 0 /\ Len(upA) = 0 /\ Len(chan) = 0 /\ pHold = None
      /\ fHold.to = "none" /\ Empty /\ GoingUp = {}
  <2>1. fHold.to = "none"
    BY FrameFacts DEF Init
  <2>2. QED
    BY <2>1, EmptyPipe, NoneGoing DEF Init, Empty
<1>4. ComingDown = {} /\ Down = 0
  BY <1>1, <1>3, DownOffsets
<1>5. UpOrder(0) /\ End(0) = 0
  BY SMT, <1>3 DEF UpOrder, End, Writes, Pipe, One
<1>6. UpEnd(0)
  BY SMT, <1>5 DEF Init, UpEnd
<1>7. Connection(0)
  BY <1>3 DEF Init, Connection, OnlyEnd
<1>8. Queued(0) /\ DownFrames /\ BeforeFirst(0)
  BY <1>3, <1>4 DEF Init, Queued, DownFrames, BeforeFirst
<1>9. SessionInv(0) /\ 0 \in 0..(nreq + 1)
  BY SMT, <1>5, <1>6, <1>7, <1>8 DEF SessionInv, Init
<1>10. Known
  <2>1. Frames \subseteq {None}
    BY EmptyPipe DEF Init, Frames, Idle
  <2>2. None.s <= cur
    BY SMT DEF Init, None
  <2>3. QED
    BY <2>1, <2>2 DEF Known
<1>11. QED
  BY <1>1, <1>2, <1>9, <1>10 DEF ProxyInv

(* Each step but the opening of a session keeps the session as it should    *)
(* be, as long as it is Sound.                                              *)
LEMMA SessionStep ==
  ASSUME TypeInv, Places, NEW b \in Nat, SessionInv(b), [Next]_vars, ~Open,
         calm', cur \notin spoilt'
  PROVE  \E c \in Nat : SessionInv(c)'
<1>1. CASE Request
  BY <1>1, RequestStep
<1>2. CASE Drop
  BY <1>2, DropStep
<1>3. CASE TakeChannel
  BY <1>3, TakeStep
<1>4. CASE ProxyDown
  BY <1>4, ProxyDownStep
<1>5. CASE ProxyUp
  BY SMT, <1>5, ProxyUpStep
<1>6. CASE FwdTakeDown \/ FwdTakeUp \/ FwdSend \/ ProxySend \/ RunnerSend
  BY <1>6, Moves
<1>7. CASE RunnerFirst
  <2>1. SessionInv(b + 1)' /\ b + 1 \in Nat
    BY SMT, <1>7, RunnerFirstStep
  <2>2. QED
    BY <2>1
<1>8. CASE RunnerUp
  <2>1. SessionInv(b + 1)' /\ b + 1 \in Nat
    BY SMT, <1>8, RunnerUpStep
  <2>2. QED
    BY SMT, <2>1
<1>9. CASE RunnerDown
  BY <1>9, RunnerDownStep
<1>10. CASE UdsEnd
  BY SMT, <1>10, UdsEndStep
<1>11. CASE DaemonStop
  BY SMT, <1>11, DaemonStopStep
<1>12. CASE DaemonStart
  BY SMT, <1>12, DaemonStartStep
<1>13. CASE Reboot
  BY <1>13, RebootStep
<1>14. CASE Rebooted
  <2>1. Len(upL) \in Nat
    BY SMT, PipeFacts DEF TypeInv, FrameTypes
  <2>2. PICK c \in Nat : c = b + Len(upL)
    BY SMT, <2>1
  <2>3. SessionInv(c)'
    BY <1>14, <2>2, RebootedStep
  <2>4. QED
    BY <2>3
<1>15. CASE UNCHANGED vars
  <2> USE <1>15 DEF vars, clientVars, proxyVars, runnerVars, daemonVars
  <2>1. UNCHANGED Others /\ UNCHANGED <<UpClient, upL, upA, pHold, fHold>>
    BY DEF Others, UpClient
  <2>2. UpOrder(b)' /\ UpEnd(b)' /\ GoingUp' = GoingUp
    BY <2>1, UpKept DEF SessionInv, UpEnd
  <2>3. Down' = Down /\ ComingDown' = ComingDown /\ (Empty => Empty') /\ (DownOrder => DownOrder')
    BY DownKept
  <2>4. Connection(b)'
    BY <2>2, <2>3 DEF SessionInv, Connection, OnlyEnd
  <2>5. Queued(b)' /\ DownFrames' /\ BeforeFirst(b)'
    BY <2>3 DEF SessionInv, Queued, DownFrames, BeforeFirst
  <2>6. QED
    BY <2>2, <2>4, <2>5 DEF SessionInv
<1>16. QED
  BY <1>1, <1>2, <1>3, <1>4, <1>5, <1>6, <1>7, <1>8, <1>9, <1>10, <1>11, <1>12,
     <1>13, <1>14, <1>15 DEF Next

LEMMA InvStep ==
  ASSUME ProxyInv, [Next]_vars
  PROVE  ProxyInv'
<1>1. TypeInv /\ Places /\ Known
  BY DEF ProxyInv
<1>2. TypeInv' /\ Places' /\ Known'
  BY <1>1, TypeStep, PlacesStep, KnownStep
<1>3. ASSUME Sound' PROVE \E c \in Nat : SessionInv(c)'
  <2>1. CASE Open
    <3>1. SessionInv(0)'
      BY <1>1, <1>3, <2>1, OpenStep DEF Sound
    <3>2. 0 \in Nat
      BY SMT
    <3>3. QED
      BY <3>1, <3>2
  <2>2. CASE ~Open
    <3>1. Sound /\ calm' /\ cur \notin spoilt'
      BY <1>1, <1>3, <2>2, SoundKept
    <3>2. PICK b \in Nat : SessionInv(b)
      BY SMT, <1>1, <3>1 DEF ProxyInv, TypeInv, CountTypes
    <3>3. QED
      BY <1>1, <2>2, <3>1, <3>2, SessionStep
  <2>3. QED
    BY <2>1, <2>2
<1>4. (\A c \in Nat : TypeInv /\ SessionInv(c) => c \in 0..(nreq + 1))'
  BY InRange, PTL
<1>5. QED
  BY <1>2, <1>3, <1>4 DEF ProxyInv

----------------------------------------------------------------------------
(* The refinement: what the daemon has heard on its connection it has heard *)
(* from the current session, and each step is a session's step or none.     *)

LEMMA HeardIsConn == TypeInv /\ Places /\ (\E b \in Nat : SessionInv(b)) => Heard = conn
<1> SUFFICES ASSUME TypeInv, Places, NEW b \in Nat, SessionInv(b) PROVE Heard = conn
  OBVIOUS
<1>1. cur \in Nat
  BY DEF TypeInv, CountTypes
<1>2. CASE runner = "wait"
  BY <1>2 DEF Places, Heard
<1>3. CASE runner = "connected"
  <2>1. conn[1] = Data(cur, 1)
    BY SMT, <1>3 DEF SessionInv, Connection
  <2>2. conn[1].s = cur
    BY SMT, <1>1, <2>1, DataFacts
  <2>3. QED
    BY <1>3, <2>2 DEF TypeInv, FrameTypes, Heard
<1>4. QED
  BY <1>2, <1>3 DEF TypeInv, PlaceTypes

(* The number of frames under way when what comes down changes. *)
LEMMA ComingKept ==
  ASSUME cur' = cur, ComingDown' \in {ComingDown, ComingDown \cup {Eof}}
  PROVE  Coming' = Coming
<1>1. UnderWay' = UnderWay
  BY DEF UnderWay
<1>2. QED
  BY <1>1 DEF Coming

(* How the number of frames under way follows what comes down. *)
Adds(d) ==
  /\ cur' = cur /\ d # Eof /\ d.s = cur /\ d \notin ComingDown
  /\ ComingDown' = ComingDown \cup {d}
Takes(d) ==
  /\ cur' = cur /\ d # Eof /\ d.s = cur /\ d \in ComingDown /\ d \notin ComingDown'
  /\ ComingDown' \subseteq ComingDown /\ ComingDown \subseteq ComingDown' \cup {d}
Counting ==
  /\ Coming \in Nat
  /\ UnderWay' = {} => Coming' = 0
  /\ cur' = cur /\ ComingDown' \subseteq ComingDown => Coming' \in 0..Coming
  /\ \A d : Adds(d) => Coming' = Coming + 1
  /\ \A d : Takes(d) => Coming > 0 /\ Coming' = Coming - 1

(* The frames of an open session have different numbers, all above those    *)
(* received.                                                                *)
LEMMA DownNumbers ==
  TypeInv /\ DownOrder =>
    \A f \in ComingDown : f = Eof \/ \E k \in Nat : k > 0 /\ f = Data(cur, Len(got) + k)
<1> SUFFICES ASSUME TypeInv, DownOrder, NEW f \in ComingDown
             PROVE  f = Eof \/ \E k \in Nat : k > 0 /\ f = Data(cur, Len(got) + k)
  OBVIOUS
<1>0. \A k : Reply(k, f) => f = Eof \/ f = Data(cur, Len(got) + k)
  BY DEF Reply
<1>1. /\ Len(dnA) \in Nat /\ Len(dnL) \in Nat /\ Fwd2 \in Nat /\ Down \in Nat
      /\ fHold.to = "proxy" => Fwd2 > 0
  <2>1. /\ Len(dnA) \in Nat /\ Len(dnL) \in Nat /\ Fwd2 \in Nat /\ Down \in Nat
        /\ fHold.to = "proxy" => Fwd2 = Len(dnA) + 1
    BY DownOffsets
  <2>2. QED
    BY SMT, <2>1
<1>2. rHold # None => Down > 0
  <2>1. rHold # None => One(rHold # None) = 1
    BY DEF One
  <2>2. QED
    BY SMT, <1>1, <2>1 DEF Down
<1>3. CASE f \in Range(dnA)
  <2>1. PICK i \in 1..Len(dnA) : f = dnA[i]
    BY SMT, <1>3, PipeFacts DEF TypeInv, FrameTypes
  <2>2. Reply(i, f) /\ i \in Nat /\ i > 0
    BY SMT, <1>1, <2>1 DEF DownOrder
  <2>3. QED
    BY <1>0, <2>2
<1>4. CASE f \in Range(dnL)
  <2>1. PICK i \in 1..Len(dnL) : f = dnL[i]
    BY SMT, <1>4, PipeFacts DEF TypeInv, FrameTypes
  <2>2. Reply(Fwd2 + i, f)
    BY <2>1 DEF DownOrder
  <2>3. Fwd2 + i \in Nat /\ Fwd2 + i > 0
    BY SMT, <1>1
  <2>4. QED
    BY <1>0, <2>2, <2>3
<1>5. CASE f = rHold /\ rHold # None
  BY <1>0, <1>1, <1>2, <1>5 DEF DownOrder
<1>6. CASE fHold.to = "proxy" /\ f = fHold.f
  BY <1>0, <1>1, <1>6 DEF DownOrder
<1>7. QED
  BY <1>3, <1>4, <1>5, <1>6 DEF ComingDown

LEMMA RefineOpen ==
  ASSUME ProxyInv, ProxyInv', Counting, Open, Sound'
  PROVE  Session!Open
<1>1. SessionInv(0)' /\ conn' = <<>>
  BY OpenStep DEF ProxyInv, Sound
<1>2. UnderWay' = {}
  BY <1>1 DEF SessionInv, Queued, Open, UnderWay
<1>3. Coming' = 0 /\ Heard' = <<>>
  BY <1>1, <1>2 DEF Counting, Heard
<1>4. QED
  BY <1>3 DEF Open, Session!Open, daemonVars

LEMMA RefineStep ==
  ASSUME TypeInv, TypeInv', Places, NEW b \in Nat, SessionInv(b), [Next]_vars, ~Open,
         calm', cur \notin spoilt', Heard = conn, Heard' = conn', Counting
  PROVE  [Session!Next]_(Session!vars)
<1>1. ASSUME UNCHANGED <<cur, status, nreq, since, got, conn, Coming, up, stops>>
      PROVE  UNCHANGED Session!vars
  BY <1>1 DEF Session!vars
<1>2. CASE Request
  <2>1. ComingDown' = ComingDown
    BY <1>2, RequestStep
  <2>2. Coming' = Coming
    BY <1>2, <2>1, ComingKept DEF Request
  <2>3. Session!Request
    BY <1>2, <2>2 DEF Request, Session!Request, runnerVars, daemonVars
  <2>4. QED
    BY <2>3 DEF Session!Next
<1>3. CASE Drop
  <2>1. ComingDown' = ComingDown
    BY <1>3, DropStep
  <2>2. Coming' = Coming
    BY <1>3, <2>1, ComingKept DEF Drop
  <2>3. Session!Drop
    BY <1>3, <2>2 DEF Drop, Session!Drop, runnerVars, daemonVars
  <2>4. QED
    BY <2>3 DEF Session!Next
<1>4. CASE TakeChannel
  <2>1. ComingDown' = {} /\ \A f \in ComingDown : f.s # cur
    BY <1>4, TakeStep
  <2>2. UnderWay' = {} /\ UnderWay = {}
    BY <2>1 DEF UnderWay
  <2>3. Coming' = Coming
    BY <2>2 DEF Coming
  <2>4. QED
    BY <1>1, <1>4, <2>3 DEF TakeChannel, clientVars, runnerVars, daemonVars
<1>5. CASE ProxyDown
  <2>1. /\ status = "open" /\ ComingDown' \subseteq ComingDown
        /\ ComingDown \subseteq ComingDown' \cup {Head(dnA)}
        /\ Head(dnA) = Eof => ~up \/ since # stops
        /\ Head(dnA) # Eof =>
             /\ Head(dnA) = Data(cur, Len(got) + 1) /\ Head(dnA) \in ComingDown
             /\ got' = Append(got, Head(dnA)) /\ DownOrder'
    BY <1>5, ProxyDownReads
  <2>2. UNCHANGED <<cur, nreq, since, conn, up, stops>>
    BY <1>5 DEF ProxyDown, runnerVars, daemonVars
  <2>3. CASE Head(dnA) = Eof
    <3>1. UnderWay' = UnderWay
      BY <2>1, <2>2, <2>3 DEF UnderWay
    <3>2. Coming' = Coming
      BY <3>1 DEF Coming
    <3>3. status' = "down" /\ got' = got
      BY <1>5, <2>1, <2>3 DEF ProxyDown, LeaveLoop
    <3>4. Session!Tell
      BY <2>1, <2>2, <2>3, <3>2, <3>3 DEF Session!Tell, Session!Disturbed
    <3>5. QED
      BY <3>4 DEF Session!Next
  <2>4. CASE Head(dnA) # Eof
    <3>1. status' = status
      BY <1>5, <2>1, <2>4 DEF ProxyDown
    <3> DEFINE m == Len(got)
               d == Data(cur, m + 1)
    <3>2. cur \in Nat /\ m \in Nat /\ d.s = cur /\ d.n = m + 1
      <4>1. cur \in Nat /\ m \in Nat
        BY DownOffsets
      <4> HIDE DEF m
      <4>2. m + 1 \in Nat
        BY SMT, <4>1
      <4>3. QED
        BY <4>1, <4>2, DataFacts
    <3>3. Len(got') = m + 1
      <4>1. d \in Frame /\ got \in Seq(Frame)
        BY SMT, <3>2, DataFacts DEF TypeInv, FrameTypes
      <4>2. QED
        BY <2>1, <2>4, <4>1, WriteFacts
    <3>4. d \notin ComingDown'
      <4>1. (TypeInv /\ DownOrder =>
               \A f \in ComingDown :
                 f = Eof \/ \E k \in Nat : k > 0 /\ f = Data(cur, Len(got) + k))'
        BY DownNumbers, PTL
      <4>3. \A f \in ComingDown' :
              f = Eof \/ \E k \in Nat : k > 0 /\ f = Data(cur, (m + 1) + k)
        BY <2>1, <2>2, <2>4, <3>3, <4>1
      <4> HIDE DEF m
      <4>4. ASSUME NEW k \in Nat, k > 0 PROVE d # Data(cur, (m + 1) + k)
        <5>1. (m + 1) + k \in Nat /\ m + 1 \in Nat /\ m + 1 # (m + 1) + k
          BY SMT, <3>2, <4>4
        <5>2. Data(cur, (m + 1) + k).n = (m + 1) + k
          BY <3>2, <5>1, DataFacts
        <5>3. QED
          BY <3>2, <5>1, <5>2
      <4>5. d # Eof
        BY <2>1, <2>4 DEF m
      <4>6. QED
        BY <4>3, <4>4, <4>5
    <3>5. Coming > 0 /\ Coming' = Coming - 1
      <4>1. Takes(d)
        BY <2>1, <2>2, <2>4, <3>2, <3>4 DEF Takes
      <4>2. QED
        BY <4>1 DEF Counting
    <3>6. got' = Append(got, Session!Msg(cur, Len(got) + 1))
      BY <2>1, <2>4 DEF Session!Msg, Data
    <3>7. Session!Receive
      BY <2>1, <2>2, <3>1, <3>5, <3>6 DEF Session!Receive
    <3>8. QED
      BY <3>7 DEF Session!Next
  <2>5. QED
    BY <2>3, <2>4
<1>6. CASE ProxyUp
  <2>1. ComingDown' = ComingDown
    BY SMT, <1>6, ProxyUpStep
  <2>2. Coming' = Coming
    BY <1>6, <2>1, ComingKept DEF ProxyUp
  <2>3. QED
    BY <1>1, <1>6, <2>2 DEF ProxyUp, runnerVars, daemonVars
<1>7. CASE FwdTakeDown \/ FwdTakeUp \/ FwdSend \/ ProxySend \/ RunnerSend
  <2> USE DEF FwdTakeDown, FwdTakeUp, FwdSend, ProxySend, RunnerSend, clientVars, proxyVars,
              runnerVars, daemonVars
  <2>1. UNCHANGED <<cur, status, nreq, since, got, conn, up, stops>>
    BY <1>7
  <2>2. ComingDown' = ComingDown
    BY <1>7, Moves
  <2>3. Coming' = Coming
    BY <2>1, <2>2, ComingKept
  <2>4. QED
    BY <1>1, <2>1, <2>3
<1>8. CASE RunnerFirst
  <2>1. /\ ComingDown' \in {ComingDown, ComingDown \cup {Eof}}
        /\ runner' = "connected" => up /\ conn' = <<Data(cur, 1)>> /\ b = 0 /\ b + 1 <= nreq
        /\ runner' # "connected" => conn' = conn
    BY <1>8, RunnerFirstStep
  <2>2. UNCHANGED <<cur, status, nreq, since, got, up, stops>>
    BY <1>8 DEF RunnerFirst, clientVars, proxyVars, daemonVars
  <2>3. Coming' = Coming
    BY <2>1, <2>2, ComingKept
  <2>4. CASE runner' = "connected"
    <3>1. conn = <<>> /\ nreq \in Nat
      BY <1>8 DEF RunnerFirst, Places, TypeInv, CountTypes
    <3>2. Len(conn) = 0 /\ Len(conn) < nreq
      BY SMT, <2>1, <2>4, <3>1
    <3>3. conn' = Append(conn, Session!Msg(cur, Len(conn) + 1))
      BY SMT, <2>1, <2>4, <3>1, <3>2 DEF Session!Msg, Data
    <3>4. Session!Hear
      BY <2>1, <2>2, <2>3, <2>4, <3>2, <3>3 DEF Session!Hear
    <3>5. QED
      BY <3>4 DEF Session!Next
  <2>5. CASE runner' # "connected"
    BY <1>1, <2>1, <2>2, <2>3, <2>5
  <2>6. QED
    BY <2>4, <2>5
<1>9. CASE RunnerUp
  <2>1. /\ ComingDown' = ComingDown
        /\ runner' = "connected" =>
             up /\ conn' = Append(conn, Data(cur, b + 1)) /\ b + 1 <= nreq
        /\ runner' # "connected" => conn' = <<>> /\ status = "closed"
    BY <1>9, RunnerUpStep
  <2>2. UNCHANGED <<cur, status, nreq, since, got, up, stops>>
    BY <1>9 DEF RunnerUp, clientVars, proxyVars, daemonVars
  <2>3. Coming' = Coming /\ Coming \in Nat
    BY <2>1, <2>2, ComingKept DEF Counting
  <2>4. CASE runner' = "connected"
    <3>1. Len(conn) = b /\ nreq \in Nat
      BY <1>9 DEF RunnerUp, SessionInv, Connection, TypeInv, CountTypes
    <3>2. Len(conn) < nreq
      BY SMT, <2>1, <2>4, <3>1
    <3>3. conn' = Append(conn, Session!Msg(cur, Len(conn) + 1))
      BY <2>1, <2>4, <3>1 DEF Session!Msg, Data
    <3>4. Session!Hear
      BY <2>1, <2>2, <2>3, <2>4, <3>2, <3>3 DEF Session!Hear
    <3>5. QED
      BY SMT, <3>4 DEF Session!Next
  <2>5. CASE runner' # "connected"
    <3>1. Coming' \in 0..Coming
      BY SMT, <2>3
    <3>2. Session!Lose
      BY <2>1, <2>2, <2>5, <3>1 DEF Session!Lose
    <3>3. QED
      BY <3>2 DEF Session!Next
  <2>6. QED
    BY SMT, <2>4, <2>5
<1>10. CASE RunnerDown
  <2>1. /\ ComingDown' = ComingDown \cup {Data(cur, nresp + 1)} /\ cur > 0
        /\ Data(cur, nresp + 1) \notin ComingDown
    BY <1>10, RunnerDownStep
  <2>2. UNCHANGED <<cur, status, nreq, since, got, conn, up, stops>>
    BY <1>10 DEF RunnerDown, clientVars, proxyVars, daemonVars
  <2>3. Data(cur, nresp + 1) # Eof /\ Data(cur, nresp + 1).s = cur
    <3>1. cur \in Nat /\ nresp + 1 \in Nat
      BY SMT DEF TypeInv, CountTypes
    <3>2. QED
      BY <2>1, <3>1, DataFacts
  <2>4. Coming' = Coming + 1
    <3>1. Adds(Data(cur, nresp + 1))
      BY <2>1, <2>2, <2>3 DEF Adds
    <3>2. QED
      BY <3>1 DEF Counting
  <2>5. conn # <<>>
    BY <1>10 DEF RunnerDown, TypeInv, FrameTypes
  <2>6. Session!DaemonSends
    BY <2>2, <2>4, <2>5 DEF Session!DaemonSends
  <2>7. QED
    BY <2>6 DEF Session!Next
<1>11. CASE UdsEnd
  <2>1. since # stops /\ ComingDown' \in {ComingDown, ComingDown \cup {Eof}}
    BY <1>11, UdsEndStep
  <2>2. UNCHANGED <<cur, status, nreq, since, got, up, stops>> /\ conn' = <<>>
    BY <1>11 DEF UdsEnd, Disconnect, clientVars, proxyVars, daemonVars
  <2>3. Coming' = Coming /\ Coming \in Nat
    BY <2>1, <2>2, ComingKept DEF Counting
  <2>4. Coming' \in 0..Coming
    BY SMT, <2>3
  <2>5. Session!Lose
    BY <2>1, <2>2, <2>4 DEF Session!Lose, Session!Disturbed
  <2>6. QED
    BY SMT, <2>5 DEF Session!Next
<1>12. CASE DaemonStop
  <2>1. ComingDown' = ComingDown
    BY SMT, <1>12, DaemonStopStep
  <2>2. Coming' = Coming
    BY <1>12, <2>1, ComingKept DEF DaemonStop, clientVars
  <2>3. UNCHANGED <<cur, status, nreq, since, got, conn>> /\ up' = FALSE /\ stops' = stops + 1
    BY <1>12 DEF DaemonStop, clientVars, runnerVars
  <2>4. status' \in IF status = "open" THEN {"open", "down"} ELSE {status}
    BY <2>3
  <2>5. Session!Stop
    BY <2>2, <2>3, <2>4 DEF Session!Stop
  <2>6. QED
    BY <2>5 DEF Session!Next
<1>13. CASE DaemonStart
  <2>1. ComingDown' = ComingDown
    BY SMT, <1>13, DaemonStartStep
  <2>2. Coming' = Coming
    BY <1>13, <2>1, ComingKept DEF DaemonStart, clientVars
  <2>3. UNCHANGED <<cur, status, nreq, since, got, conn, stops>> /\ up' = TRUE
    BY <1>13 DEF DaemonStart, clientVars, runnerVars
  <2>4. Session!Start
    BY <2>2, <2>3 DEF Session!Start
  <2>5. QED
    BY <2>4 DEF Session!Next
<1>14. CASE Reboot
  <2>1. ComingDown' = ComingDown /\ (status' = status \/ (status = "open" /\ status' = "down"))
    BY <1>14, RebootStep
  <2>2. UNCHANGED <<cur, nreq, since, got, conn, up>> /\ stops' = stops + 1
    BY <1>14 DEF Reboot, runnerVars
  <2>3. Coming' = Coming
    BY <2>1, <2>2, ComingKept
  <2>4. status' \in IF status = "open" THEN {"open", "down"} ELSE {status}
    BY <2>1
  <2>5. Session!Stop
    BY <2>2, <2>3, <2>4 DEF Session!Stop
  <2>6. QED
    BY SMT, <2>5 DEF Session!Next
<1>15. CASE Rebooted
  <2>1. since # stops /\ ComingDown' \subseteq ComingDown
    <3>1. Len(upL) \in Nat
      BY SMT, PipeFacts DEF TypeInv, FrameTypes
    <3>2. PICK c \in Nat : c = b + Len(upL)
      BY SMT, <3>1
    <3>3. QED
      BY <1>15, <3>2, RebootedStep
  <2>2. UNCHANGED <<cur, status, nreq, since, got, stops>> /\ conn' = <<>> /\ up' = TRUE
    BY <1>15 DEF Rebooted, Disconnect, clientVars, proxyVars
  <2>3. Coming' \in 0..Coming
    BY <2>1, <2>2 DEF Counting
  <2>4. Session!Start
    BY <2>1, <2>2, <2>3 DEF Session!Start
  <2>5. QED
    BY SMT, <2>4 DEF Session!Next
<1>16. CASE UNCHANGED vars
  <2>1. UNCHANGED <<cur, status, nreq, since, got, conn, up, stops>>
    BY <1>16 DEF vars, clientVars, runnerVars, daemonVars
  <2>2. UnderWay' = UnderWay
    BY <1>16 DEF vars, clientVars, runnerVars, UnderWay, ComingDown
  <2>3. Coming' = Coming
    BY SMT, <2>2 DEF Coming
  <2>4. QED
    BY SMT, <1>1, <2>1, <2>3
<1>17. QED
  BY <1>2, <1>3, <1>4, <1>5, <1>6, <1>7, <1>8, <1>9, <1>10, <1>11, <1>12, <1>13,
     <1>14, <1>15, <1>16 DEF Next

----------------------------------------------------------------------------
(* The frames under way are finitely many, and counted.                     *)

INSTANCE FiniteSetTheorems

LEMMA PipeFinite ==
  ASSUME NEW s \in Seq(Frame)
  PROVE  IsFiniteSet(Range(s))
<1>1. Len(s) \in Nat /\ s \in [1..Len(s) -> Frame] /\ DOMAIN s = 1..Len(s)
  BY SMT
<1>2. s \in Surjection(1..Len(s), Range(s))
  <2>1. s \in [1..Len(s) -> Range(s)]
    BY <1>1 DEF Range
  <2>2. QED
    BY <1>1, <2>1 DEF Range, Surjection
<1>3. IsFiniteSet(1..Len(s))
  <2>1. 1 \in Int /\ Len(s) \in Int
    BY SMT, <1>1
  <2>2. QED
    BY <2>1, FS_Interval
<1>4. QED
  BY <1>2, <1>3, FS_Surjection

(* Bounds of a natural number. *)
LEMMA UpTo ==
  ASSUME NEW n \in Nat
  PROVE  (n # 0 => n > 0) /\ \A m \in Nat : m <= n => m \in 0..n
BY SMT

LEMMA ComingFinite == TypeInv => IsFiniteSet(UnderWay) /\ Coming \in Nat
<1> SUFFICES ASSUME TypeInv PROVE IsFiniteSet(UnderWay) /\ Coming \in Nat
  OBVIOUS
<1>1. IsFiniteSet(Range(dnA)) /\ IsFiniteSet(Range(dnL))
  BY PipeFinite DEF TypeInv, FrameTypes
<1>2. IsFiniteSet(Range(dnA) \cup Range(dnL))
  BY <1>1, FS_Union
<1>3. IsFiniteSet((Range(dnA) \cup Range(dnL)) \cup {rHold})
  BY <1>2, FS_AddElement
<1>4. IsFiniteSet(((Range(dnA) \cup Range(dnL)) \cup {rHold}) \cup {fHold.f})
  BY <1>3, FS_AddElement
<1>5. UnderWay \subseteq ((Range(dnA) \cup Range(dnL)) \cup {rHold}) \cup {fHold.f}
  BY DEF UnderWay, ComingDown
<1>6. IsFiniteSet(UnderWay)
  BY <1>4, <1>5, FS_Subset
<1>7. QED
  BY <1>6, FS_CardinalityType DEF Coming

LEMMA ComingLost ==
  ASSUME TypeInv, cur' = cur, ComingDown' \subseteq ComingDown
  PROVE  Coming' \in 0..Coming
<1>1. UnderWay' \subseteq UnderWay
  BY DEF UnderWay
<1>2. IsFiniteSet(UnderWay) /\ Coming \in Nat
  BY ComingFinite
<1>3. IsFiniteSet(UnderWay') /\ Cardinality(UnderWay') <= Cardinality(UnderWay)
  BY <1>1, <1>2, FS_Subset
<1>4. Cardinality(UnderWay') \in Nat
  BY <1>3, FS_CardinalityType
<1>5. QED
  BY <1>2, <1>3, <1>4, UpTo DEF Coming

LEMMA ComingMore ==
  ASSUME TypeInv, NEW d, Adds(d)
  PROVE  Coming' = Coming + 1
<1>1. UnderWay' = UnderWay \cup {d} /\ d \notin UnderWay
  BY DEF UnderWay, Adds
<1>2. IsFiniteSet(UnderWay)
  BY ComingFinite
<1>3. QED
  BY <1>1, <1>2, FS_AddElement DEF Coming

LEMMA ComingLess ==
  ASSUME TypeInv, NEW d, Takes(d)
  PROVE  Coming > 0 /\ Coming' = Coming - 1
<1>1. UnderWay' = UnderWay \ {d} /\ d \in UnderWay
  BY DEF UnderWay, Takes
<1>2. IsFiniteSet(UnderWay) /\ Coming \in Nat
  BY ComingFinite
<1>3. Cardinality(UnderWay \ {d}) = Cardinality(UnderWay) - 1
  BY <1>1, <1>2, FS_RemoveElement
<1>4. Cardinality(UnderWay) # 0
  BY <1>1, <1>2, FS_EmptySet
<1>5. Coming > 0
  BY <1>2, <1>4, UpTo DEF Coming
<1>6. QED
  BY <1>1, <1>3, <1>5 DEF Coming

LEMMA ComingCounted == TypeInv => Counting
<1> SUFFICES ASSUME TypeInv PROVE Counting
  OBVIOUS
<1>1. Coming \in Nat
  BY ComingFinite
<1>2. UnderWay' = {} => Coming' = 0
  BY FS_EmptySet DEF Coming
<1>3. cur' = cur /\ ComingDown' \subseteq ComingDown => Coming' \in 0..Coming
  BY ComingLost
<1>4. \A d : Adds(d) => Coming' = Coming + 1
  BY ComingMore
<1>5. \A d : Takes(d) => Coming > 0 /\ Coming' = Coming - 1
  BY ComingLess
<1>6. QED
  BY <1>1, <1>2, <1>3, <1>4, <1>5 DEF Counting

LEMMA RefineInit == Init => Session!Init
<1> SUFFICES ASSUME Init PROVE Session!Init
  OBVIOUS
<1>1. Heard = <<>>
  BY DEF Init, Heard
<1>2. UnderWay = {}
  <2>1. Range(dnA) = {} /\ Range(dnL) = {} /\ fHold.to = "none" /\ rHold = None
    BY EmptyPipe, FrameFacts DEF Init
  <2>2. QED
    BY <2>1 DEF UnderWay, ComingDown
<1>3. Coming = 0
  BY <1>2, FS_EmptySet DEF Coming
<1>4. QED
  BY <1>1, <1>3 DEF Init, Session!Init

(* For every number of sessions, requests, events and stops, and pipes of   *)
(* any size, the proxies, the pipes and the link between a client and the   *)
(* daemon implement ManagementSession for every session that is Sound: it   *)
(* gets its own answers, in order and complete, the daemon gets its         *)
(* requests so, and its client loses its connection only to a stop or a     *)
(* reboot.                                                                  *)
THEOREM ProxyImplementsSessions == Spec => ImplementsSessions
<1>1. Init => ProxyInv /\ Session!Init
  BY InvInit, RefineInit
<1>2. ProxyInv /\ [Next]_vars => ProxyInv'
  BY InvStep
<1>3. ASSUME ProxyInv, ProxyInv', [Next]_vars, Sound'
      PROVE  Session!Next \/ UNCHANGED Session!vars
  <2>1. TypeInv /\ TypeInv' /\ Places /\ Places' /\ Counting
    BY <1>3, ComingCounted DEF ProxyInv
  <2>2. (TypeInv /\ Places /\ (\E b \in Nat : SessionInv(b)) => Heard = conn)'
    BY HeardIsConn, PTL
  <2>3. CASE Open
    BY <1>3, <2>1, <2>3, RefineOpen DEF Session!Next
  <2>4. CASE ~Open
    <3>1. Sound /\ calm' /\ cur \notin spoilt'
      BY <1>3, <2>1, <2>4, SoundKept
    <3>2. PICK b \in Nat : SessionInv(b)
      BY SMT, <1>3, <2>1, <3>1 DEF ProxyInv, TypeInv, CountTypes
    <3>3. \E c \in Nat : SessionInv(c)'
      BY <1>3, <2>1, <2>4, <3>1, <3>2, SessionStep
    <3>4. Heard = conn /\ Heard' = conn'
      BY <2>1, <2>2, <3>2, <3>3, HeardIsConn
    <3>5. QED
      BY <1>3, <2>1, <2>4, <3>1, <3>2, <3>4, RefineStep
  <2>5. QED
    BY <2>3, <2>4
<1>4. ProxyInv /\ ProxyInv' /\ [Next]_vars =>
        [Sound' => Session!Next \/ UNCHANGED Session!vars]_vars
  BY <1>3
<1>5. QED
  BY <1>1, <1>2, <1>4, PTL DEF Spec, ImplementsSessions
=============================================================================
