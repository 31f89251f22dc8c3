-------------------------- MODULE TransportProofs --------------------------
(* Proofs about Transport, for every number of calls: which handshake ends *)
(* a reboot, with any restarts and timing, and that a reboot reconnects    *)
(* and no awaited answer is lost, under the timing the code relies on.     *)
EXTENDS Transport, TLAPS

\* Zenon proves most steps; the others name the prover they need.
USE TransportAssumption, ZenonT(40)

(* A frame decoded from the guest has the fields its kind says it has. *)
LEMMA GuestFrameFields ==
  ASSUME NEW f \in GuestFrame
  PROVE  /\ f.kind \in {"Handshake", "TestRunner", "Noise"}
         /\ f.kind = "Handshake" => f.inst \in Nat
         /\ f.kind = "TestRunner" => f.inst \in Nat /\ f.ans \in Answer
BY DEF GuestFrame

LEMMA HostFrameFields ==
  ASSUME NEW f \in HostFrame
  PROVE  /\ f.kind \in {"Handshake", "TestRunner"}
         /\ f.kind = "TestRunner" => f.req \in Request
BY DEF HostFrame

(* A frame that is being decoded is still at the head of the link. *)
Decoding == dec \in {"skipped", "loaded"} => g2h # <<>>

(* Instances are numbered upwards: nothing that was sent or answered comes  *)
(* from a server that does not exist yet.                                   *)
InstBound ==
  /\ vm = "running" => inst > 0
  /\ answered <= inst
  /\ \A i \in 1..Len(g2h) : g2h[i].kind \in {"Handshake", "TestRunner"} => g2h[i].inst <= inst

(* Once a server has answered an RPC it sends no more handshakes: behind an *)
(* answer the link holds handshakes of later servers only.                  *)
AnswerThenNewer ==
  \A i, j \in 1..Len(g2h) :
     i < j /\ g2h[i].kind = "TestRunner" /\ g2h[j].kind = "Handshake"
       => g2h[j].inst > g2h[i].inst

CurrentAnswered ==
  \/ inst # 0 /\ answered = inst
  \/ \E i \in 1..Len(g2h) : g2h[i].kind = "TestRunner" /\ g2h[i].inst = inst

(* ... because the manager's only ping goes out before its first request    *)
(* and is answered before the first response.                               *)
PingBeforeRequest ==
  /\ \A i \in 1..Len(h2g) : h2g[i].kind = "TestRunner" =>
        ~shakeOut /\ \A j \in 1..Len(h2g) : i < j => h2g[j].kind # "Handshake"
  /\ CurrentAnswered \/ done # {} \/ srv # {} =>
        ~shakeOut /\ \A i \in 1..Len(h2g) : h2g[i].kind # "Handshake"
  /\ CurrentAnswered => pending = 0

(* From the answer to a reboot request on, the link holds newer handshakes  *)
(* only, and from the drain on so does the handshake channel.               *)
FreshLink ==
  pc \in {"replied", "drained", "waiting"} =>
     \A i \in 1..Len(g2h) : g2h[i].kind = "Handshake" => g2h[i].inst > answered

FreshQueue ==
  pc \in {"drained", "waiting"} => \A i \in 1..Len(fwdRx) : fwdRx[i] > answered

LinkInv  == InstBound /\ AnswerThenNewer /\ PingBeforeRequest
FreshInv == FreshLink /\ FreshQueue /\ FreshHandshake
IInv     == TypeOK /\ Decoding /\ LinkInv /\ FreshInv

----------------------------------------------------------------------------
(* A queue when it is emptied, read and written. *)
LEMMA EmptyFacts ==
  ASSUME NEW S
  PROVE  <<>> \in Seq(S) /\ Len(<<>>) = 0
BY SMT

LEMMA TailFacts ==
  ASSUME NEW S, NEW s \in Seq(S), s # <<>>
  PROVE  /\ Head(s) \in S /\ Head(s) = s[1]
         /\ Tail(s) \in Seq(S)
         /\ Len(s) \in Nat /\ Len(s) > 0
         /\ Len(Tail(s)) = Len(s) - 1
         /\ \A i \in 1..Len(Tail(s)) : Tail(s)[i] = s[i + 1] /\ i + 1 \in 1..Len(s)
BY SMT

LEMMA AppendFacts ==
  ASSUME NEW S, NEW s \in Seq(S), NEW e \in S
  PROVE  /\ Append(s, e) \in Seq(S)
         /\ Append(s, e) # <<>>
         /\ Len(s) \in Nat
         /\ Len(Append(s, e)) = Len(s) + 1
         /\ \A i \in 1..Len(s) : Append(s, e)[i] = s[i]
         /\ Append(s, e)[Len(s) + 1] = e
<1>1. /\ Append(s, e) \in Seq(S)
      /\ Len(s) \in Nat
      /\ Len(Append(s, e)) = Len(s) + 1
      /\ \A i \in 1..Len(s) : Append(s, e)[i] = s[i]
      /\ Append(s, e)[Len(s) + 1] = e
  BY SMT
<1>2. Append(s, e) # <<>>
  BY SMT, <1>1
<1>3. QED
  BY <1>1, <1>2

LEMMA TypeInit == Init => TypeOK /\ Decoding
<1> SUFFICES ASSUME Init PROVE TypeOK /\ Decoding
  OBVIOUS
<1>1. Shake(1) \in GuestFrame
  BY DEF Shake, GuestFrame
<1>2. <<>> \in Seq(GuestFrame) /\ <<Shake(1)>> \in Seq(GuestFrame)
  BY SMT, <1>1, EmptyFacts
<1>3. call \in Request
  BY DEF Init, Request, Ops
<1>4. FlagTypes
  BY DEF Init, FlagTypes
<1>5. /\ out \in Seq(Request) /\ fwdRx \in Seq(Nat)
      /\ h2g \in Seq(HostFrame) /\ g2h \in Seq(GuestFrame)
  BY <1>2, EmptyFacts DEF Init
<1>51. StateTypes
  BY SMT, <1>3, <1>5 DEF Init, StateTypes
<1>6. Decoding
  BY DEF Init, Decoding
<1>7. QED
  BY <1>4, <1>51, <1>6 DEF TypeOK

(* The flags are cleared, set and tested, never given another value. *)
LEMMA FlagStep == FlagTypes /\ Next => FlagTypes'
<1> SUFFICES ASSUME FlagTypes, Next PROVE FlagTypes'
  OBVIOUS
<1> USE DEF FlagTypes, mgrVars, fwdVars, guestVars
<1>1. CASE ManagerNext
  BY <1>1 DEF ManagerNext, Call, CallFails, ResetDrain, ResetStore, ClearConnected,
     WaitForServer, WaitTimeout, RebootReturns
<1>2. CASE ForwarderNext
  BY <1>2 DEF ForwarderNext, SendPing, SendRequest, SkipNoise, LoadConnected, Deliver,
     DeliverShake, DeliverAnswer, DeliverNoise, Decoded, LinkLost
<1>3. CASE GuestNext
  <2>1. ASSUME NEW r \in srv, Serve(r) PROVE FlagTypes'
    BY <2>1 DEF Serve
  <2>2. ASSUME ~ \E r \in srv : Serve(r) PROVE FlagTypes'
    BY <2>2, <1>3 DEF GuestNext, RunnerRecv, SendShake, SendReply, Shutdown,
       ShutdownFails, Firmware, RunnerStart, ServerRestart
  <2>3. QED
    BY <2>1, <2>2
<1>4. QED
  BY <1>1, <1>2, <1>3 DEF Next

LEMMA StateManager ==
  StateTypes /\ Decoding /\ ManagerNext => StateTypes' /\ Decoding'
<1> SUFFICES ASSUME StateTypes, Decoding, ManagerNext
             PROVE  StateTypes' /\ Decoding'
  OBVIOUS
<1> USE DEF StateTypes, Decoding, mgrVars, fwdVars, guestVars
<1>1. ASSUME NEW op \in Ops, Call(op) PROVE StateTypes' /\ Decoding'
  BY SMT, <1>1 DEF Call, Request
<1>2. CASE CallFails
  BY <1>2 DEF CallFails
<1>3. CASE ResetDrain
  BY SMT, <1>3 DEF ResetDrain, DrainShakes
<1>4. CASE ResetStore
  BY <1>4 DEF ResetStore
<1>5. CASE WaitForServer
  <2>1. fwdRx # <<>> => Head(fwdRx) \in Nat /\ Tail(fwdRx) \in Seq(Nat)
    BY TailFacts
  <2>2. got' \in Nat /\ fwdRx' \in Seq(Nat)
    <3>1. CASE fwdRx = <<>>
      BY SMT, <1>5, <3>1 DEF WaitForServer
    <3>2. CASE fwdRx # <<>>
      BY <1>5, <2>1, <3>2 DEF WaitForServer
    <3>3. QED
      BY <3>1, <3>2
  <2>3. /\ pc' \in {"idle", "rebooted"}
        /\ UNCHANGED <<call, out, answered, shakeOut, fwd, dec, isConnected, h2g, g2h,
                       guestVars>>
    BY <1>5 DEF WaitForServer
  <2>4. QED
    BY <2>2, <2>3
<1>6. CASE WaitTimeout
  BY <1>6 DEF WaitTimeout
<1>7. CASE RebootReturns
  BY <1>7 DEF RebootReturns
<1>8. QED
  BY <1>1, <1>2, <1>3, <1>4, <1>5, <1>6, <1>7 DEF ManagerNext

LEMMA StateForwarder ==
  StateTypes /\ Decoding /\ ForwarderNext => StateTypes' /\ Decoding'
<1> SUFFICES ASSUME StateTypes, Decoding, ForwarderNext
             PROVE  StateTypes' /\ Decoding'
  OBVIOUS
<1> USE DEF StateTypes, Decoding, mgrVars, fwdVars, guestVars
<1>1. CASE SendPing
  <2>1. Ping \in HostFrame
    BY DEF Ping, HostFrame
  <2>2. QED
    BY SMT, <1>1, <2>1 DEF SendPing
<1>2. CASE SendRequest
  <2>1. Head(out) \in Request /\ Tail(out) \in Seq(Request)
    BY <1>2, TailFacts DEF SendRequest
  <2>2. [kind |-> "TestRunner", req |-> Head(out)] \in HostFrame
    BY <2>1 DEF HostFrame
  <2>3. QED
    BY SMT, <1>2, <2>1, <2>2 DEF SendRequest
<1>3. CASE SkipNoise
  <2>1. Tail(g2h) \in Seq(GuestFrame)
    BY <1>3, TailFacts DEF SkipNoise
  <2>2. QED
    BY <1>3, <2>1 DEF SkipNoise, ForwarderIdle
<1>4. CASE LoadConnected
  BY <1>4 DEF LoadConnected
<1>5. CASE Deliver
  <2>1. Decoded
    BY <1>5 DEF Deliver, DeliverShake, DeliverAnswer, DeliverNoise
  <2>2. Head(g2h) \in GuestFrame /\ Tail(g2h) \in Seq(GuestFrame)
    BY <2>1, TailFacts DEF Decoded
  <2>3. CASE DeliverShake
    BY SMT, <2>1, <2>2, <2>3, GuestFrameFields DEF Decoded, DeliverShake
  <2>4. CASE DeliverAnswer
    BY <2>1, <2>2, <2>4, GuestFrameFields DEF Decoded, DeliverAnswer
  <2>5. CASE DeliverNoise
    BY <2>1, <2>2, <2>5 DEF Decoded, DeliverNoise
  <2>6. QED
    BY <1>5, <2>3, <2>4, <2>5 DEF Deliver
<1>6. CASE LinkLost
  BY <1>6 DEF LinkLost
<1>7. QED
  BY <1>1, <1>2, <1>3, <1>4, <1>5, <1>6 DEF ForwarderNext

LEMMA StateGuest ==
  StateTypes /\ Decoding /\ GuestNext => StateTypes' /\ Decoding'
<1> SUFFICES ASSUME StateTypes, Decoding, GuestNext
             PROVE  StateTypes' /\ Decoding'
  OBVIOUS
<1> USE DEF StateTypes, Decoding, mgrVars, fwdVars, guestVars
<1>1. CASE RunnerRecv
  <2>1. Head(h2g) \in HostFrame /\ Tail(h2g) \in Seq(HostFrame)
    BY <1>1, TailFacts DEF RunnerRecv
  <2>2. pending' \in Nat /\ srv' \in SUBSET Request
    <3>1. pending + 1 \in Nat
      BY SMT
    <3>2. Head(h2g).kind = "TestRunner" => Head(h2g).req \in Request
      BY <2>1, HostFrameFields
    <3>3. QED
      BY <1>1, <3>1, <3>2 DEF RunnerRecv
  <2>3. /\ h2g' = Tail(h2g)
        /\ UNCHANGED <<mgrVars, fwdVars, g2h, vm, inst, done, doomed, restarts>>
    BY <1>1 DEF RunnerRecv
  <2>4. QED
    BY <2>1, <2>2, <2>3
<1>2. CASE SendShake
  <2>1. Shake(inst) \in GuestFrame
    BY DEF Shake, GuestFrame
  <2>2. /\ Append(g2h, Shake(inst)) \in Seq(GuestFrame)
        /\ Append(g2h, Shake(inst)) # <<>>
    BY SMT, <2>1, AppendFacts
  <2>3. QED
    BY SMT, <1>2, <2>2 DEF SendShake, ShakeQueued
<1>3. ASSUME NEW r \in srv, Serve(r) PROVE StateTypes' /\ Decoding'
  BY SMT, <1>3 DEF Serve, Answer, Request
<1>4. ASSUME NEW a \in done, SendReply(a) PROVE StateTypes' /\ Decoding'
  <2>1. Reply(inst, a) \in GuestFrame
    BY DEF Reply, GuestFrame
  <2>2. /\ Append(g2h, Reply(inst, a)) \in Seq(GuestFrame)
        /\ Append(g2h, Reply(inst, a)) # <<>>
    BY SMT, <2>1, AppendFacts
  <2>3. QED
    BY <1>4, <2>2 DEF SendReply
<1>5. CASE Shutdown
  BY SMT, <1>5 DEF Shutdown
<1>6. CASE ShutdownFails
  BY <1>6 DEF ShutdownFails
<1>7. CASE Firmware
  <2>1. Noise \in GuestFrame
    BY DEF Noise, GuestFrame
  <2>2. /\ Append(g2h, Noise) \in Seq(GuestFrame)
        /\ Append(g2h, Noise) # <<>>
    BY SMT, <2>1, AppendFacts
  <2>3. QED
    BY <1>7, <2>2 DEF Firmware
<1>8. CASE RunnerStart
  <2>1. h2g' \in Seq(HostFrame)
    BY <1>8, EmptyFacts DEF RunnerStart
  <2>2. QED
    BY SMT, <1>8, <2>1 DEF RunnerStart, FirstShake
<1>9. CASE ServerRestart
  BY SMT, <1>9 DEF ServerRestart, FirstShake
<1>10. QED
  BY <1>1, <1>2, <1>3, <1>4, <1>5, <1>6, <1>7, <1>8, <1>9 DEF GuestNext

LEMMA TypeStep ==
  TypeOK /\ Decoding /\ [Next]_vars => TypeOK' /\ Decoding'
<1>1. TypeOK /\ Decoding /\ UNCHANGED vars => TypeOK' /\ Decoding'
  BY DEF TypeOK, FlagTypes, StateTypes, Decoding, vars, mgrVars, fwdVars, guestVars
<1>2. TypeOK /\ Decoding /\ Next => TypeOK' /\ Decoding'
  BY FlagStep, StateManager, StateForwarder, StateGuest DEF Next, TypeOK
<1>3. QED
  BY <1>1, <1>2

(* Type correctness of the serial connection: every queue and flag of both  *)
(* ends keeps its type, and the codec never decodes from an empty link.     *)
THEOREM TypeCorrect == Spec => [](TypeOK /\ Decoding)
BY TypeInit, TypeStep, PTL DEF Spec

----------------------------------------------------------------------------
LEMMA LinkInit == Init => LinkInv
<1> SUFFICES ASSUME Init PROVE LinkInv
  OBVIOUS
<1>1. /\ Len(h2g) = 0
      /\ \A i \in 1..Len(g2h) : g2h[i] = Shake(1) /\ inst = 1
      /\ answered = 0 /\ srv = {} /\ done = {} /\ inst \in Nat
      /\ vm = "running" => inst > 0
  BY SMT, EmptyFacts DEF Init
<1>2. Shake(1).kind = "Handshake" /\ Shake(1).inst = 1
  BY DEF Shake
<1>3. InstBound /\ AnswerThenNewer
  BY SMT, <1>1, <1>2 DEF InstBound, AnswerThenNewer
<1>4. ~CurrentAnswered
  BY <1>1, <1>2 DEF CurrentAnswered
<1>5. PingBeforeRequest
  BY SMT, <1>1, <1>4 DEF PingBeforeRequest
<1>6. QED
  BY <1>3, <1>5 DEF LinkInv

(* Steps that touch neither the link nor the server. *)
LEMMA LinkQuiet ==
  ASSUME LinkInv,
         UNCHANGED <<h2g, g2h, inst, pending, srv, done, shakeOut, answered>>,
         vm' = "running" => vm = "running"
  PROVE  LinkInv'
<1>1. InstBound' /\ AnswerThenNewer'
  BY DEF LinkInv, InstBound, AnswerThenNewer
<1>2. CurrentAnswered' <=> CurrentAnswered
  BY DEF CurrentAnswered
<1>3. PingBeforeRequest'
  BY SMT, <1>2 DEF LinkInv, PingBeforeRequest
<1>4. QED
  BY <1>1, <1>3 DEF LinkInv

(* The manager reads a frame from the link; an answer may be accepted. *)
LEMMA LinkRead ==
  ASSUME StateTypes, LinkInv, g2h # <<>>, g2h' = Tail(g2h),
         UNCHANGED <<vm, h2g, inst, pending, srv, done, shakeOut>>,
         \/ answered' = answered
         \/ Head(g2h).kind = "TestRunner" /\ answered' = Head(g2h).inst
  PROVE  LinkInv'
<1>1. /\ Head(g2h) = g2h[1] /\ 1 \in 1..Len(g2h)
      /\ Len(g2h) \in Nat
      /\ Len(g2h') = Len(g2h) - 1
      /\ \A i \in 1..Len(g2h') : g2h'[i] = g2h[i + 1] /\ i + 1 \in 1..Len(g2h)
  BY SMT, TailFacts DEF StateTypes
<1>2. InstBound'
  BY <1>1 DEF LinkInv, InstBound
<1>3. AnswerThenNewer'
  <2> SUFFICES ASSUME NEW i \in 1..Len(g2h'), NEW j \in 1..Len(g2h'), i < j,
                      g2h'[i].kind = "TestRunner", g2h'[j].kind = "Handshake"
               PROVE  g2h'[j].inst > g2h'[i].inst
    BY DEF AnswerThenNewer
  <2>1. i + 1 < j + 1 /\ i + 1 \in 1..Len(g2h) /\ j + 1 \in 1..Len(g2h)
    BY SMT, <1>1
  <2>2. QED
    BY <1>1, <2>1 DEF LinkInv, AnswerThenNewer
<1>4. CurrentAnswered' => CurrentAnswered
  BY <1>1 DEF CurrentAnswered
<1>5. PingBeforeRequest'
  BY SMT, <1>4 DEF LinkInv, PingBeforeRequest
<1>6. QED
  BY <1>2, <1>3, <1>5 DEF LinkInv

LEMMA LinkManager ==
  StateTypes /\ LinkInv /\ ManagerNext => LinkInv'
<1> SUFFICES ASSUME LinkInv, ManagerNext
             PROVE  UNCHANGED <<vm, h2g, g2h, inst, pending, srv, done, shakeOut, answered>>
  BY LinkQuiet
<1> QED
  BY DEF ManagerNext, Call, CallFails, ResetDrain, ResetStore, WaitForServer, WaitTimeout,
     RebootReturns, mgrVars, fwdVars, guestVars

LEMMA LinkForwarder ==
  StateTypes /\ Decoding /\ LinkInv /\ ForwarderNext => LinkInv'
<1> SUFFICES ASSUME StateTypes, Decoding, LinkInv, ForwarderNext PROVE LinkInv'
  OBVIOUS
<1> USE DEF mgrVars, fwdVars, guestVars
<1>1. CASE SendPing
  <2>1. UNCHANGED <<vm, g2h, inst, pending, srv, done, answered>> /\ shakeOut
    BY <1>1 DEF SendPing
  <2>2. InstBound' /\ AnswerThenNewer'
    BY <2>1 DEF LinkInv, InstBound, AnswerThenNewer
  <2>3. ~(CurrentAnswered \/ done # {} \/ srv # {})'
    BY <2>1 DEF LinkInv, PingBeforeRequest, CurrentAnswered
  <2>4. /\ Len(h2g) \in Nat
        /\ Len(h2g') = Len(h2g) + 1
        /\ \A i \in 1..Len(h2g) : h2g'[i] = h2g[i]
        /\ h2g'[Len(h2g) + 1].kind = "Handshake"
    <3>1. Ping \in HostFrame /\ Ping.kind = "Handshake"
      BY DEF Ping, HostFrame
    <3>2. QED
      BY SMT, <1>1, <3>1, AppendFacts DEF SendPing, StateTypes
  <2>5. \A i \in 1..Len(h2g') : h2g'[i].kind # "TestRunner"
    BY SMT, <2>1, <2>4 DEF LinkInv, PingBeforeRequest
  <2>6. PingBeforeRequest'
    BY <2>3, <2>5 DEF PingBeforeRequest
  <2>7. QED
    BY <2>2, <2>6 DEF LinkInv
<1>2. CASE SendRequest
  <2>1. /\ UNCHANGED <<vm, g2h, inst, pending, srv, done, answered, shakeOut>>
        /\ ~shakeOut /\ out # <<>>
        /\ h2g' = Append(h2g, [kind |-> "TestRunner", req |-> Head(out)])
    BY <1>2 DEF SendRequest, PingFirst
  <2>2. InstBound' /\ AnswerThenNewer'
    BY <2>1 DEF LinkInv, InstBound, AnswerThenNewer
  <2>3. /\ Len(h2g) \in Nat
        /\ Len(h2g') = Len(h2g) + 1
        /\ \A i \in 1..Len(h2g) : h2g'[i] = h2g[i]
        /\ h2g'[Len(h2g) + 1].kind = "TestRunner"
    <3>1. [kind |-> "TestRunner", req |-> Head(out)] \in HostFrame
      BY <2>1, TailFacts DEF HostFrame, StateTypes
    <3>2. QED
      BY SMT, <2>1, <3>1, AppendFacts DEF StateTypes
  <2>4. CurrentAnswered' <=> CurrentAnswered
    BY <2>1 DEF CurrentAnswered
  <2>5. PingBeforeRequest'
    BY SMT, <2>1, <2>3, <2>4 DEF LinkInv, PingBeforeRequest
  <2>6. QED
    BY SMT, <2>2, <2>5 DEF LinkInv
<1>3. CASE SkipNoise
  <2>1. CASE g2h' = g2h
    BY <1>3, <2>1, LinkQuiet DEF SkipNoise
  <2>2. CASE g2h' = Tail(g2h)
    BY <1>3, <2>2, LinkRead DEF SkipNoise
  <2>3. QED
    BY <1>3, <2>1, <2>2 DEF SkipNoise
<1>4. CASE LoadConnected
  BY <1>4, LinkQuiet DEF LoadConnected
<1>5. CASE Deliver
  <2>1. /\ g2h # <<>> /\ g2h' = Tail(g2h)
        /\ UNCHANGED <<vm, h2g, inst, pending, srv, done, shakeOut>>
    BY <1>5 DEF Deliver, DeliverShake, DeliverAnswer, DeliverNoise, Decoded, Decoding
  <2>2. \/ answered' = answered
        \/ Head(g2h).kind = "TestRunner" /\ answered' = Head(g2h).inst
    BY <1>5 DEF Deliver, DeliverShake, DeliverAnswer, DeliverNoise
  <2>3. QED
    BY <2>1, <2>2, LinkRead
<1>6. CASE LinkLost
  BY <1>6, LinkQuiet DEF LinkLost
<1>7. QED
  BY <1>1, <1>2, <1>3, <1>4, <1>5, <1>6 DEF ForwarderNext

(* The guest puts a frame on the link. *)
LEMMA LinkWrite ==
  ASSUME StateTypes, LinkInv, NEW f \in GuestFrame, g2h' = Append(g2h, f),
         UNCHANGED <<h2g, inst, srv, shakeOut, answered>>,
         vm' = "running" => vm = "running",
         done' \subseteq done, pending' \in Nat, pending' <= pending,
         \/ f.kind = "Noise"
         \/ f.kind = "Handshake" /\ f.inst = inst /\ pending > 0
         \/ f.kind = "TestRunner" /\ f.inst = inst /\ pending = 0 /\ done # {}
  PROVE  LinkInv'
<1>1. /\ Len(g2h) \in Nat
      /\ Len(g2h') = Len(g2h) + 1
      /\ \A i \in 1..Len(g2h) : g2h'[i] = g2h[i]
      /\ g2h'[Len(g2h) + 1] = f
      /\ \A i \in 1..Len(g2h) : g2h[i] \in GuestFrame
  BY SMT, AppendFacts DEF StateTypes
<1>2. InstBound'
  BY SMT, <1>1 DEF LinkInv, InstBound, StateTypes
<1>3. AnswerThenNewer'
  <2> SUFFICES ASSUME NEW i \in 1..Len(g2h'), NEW j \in 1..Len(g2h'), i < j,
                      g2h'[i].kind = "TestRunner", g2h'[j].kind = "Handshake"
               PROVE  g2h'[j].inst > g2h'[i].inst
    BY DEF AnswerThenNewer
  <2>1. i \in 1..Len(g2h) /\ g2h'[i] = g2h[i]
    BY SMT, <1>1
  <2>2. CASE j \in 1..Len(g2h)
    BY <1>1, <2>1, <2>2 DEF LinkInv, AnswerThenNewer
  <2>3. CASE j = Len(g2h) + 1
    <3>1. f.kind = "Handshake" /\ f.inst = inst /\ pending > 0 /\ g2h'[j] = f
      BY <1>1, <2>3
    <3>2. g2h[i].inst \in Nat /\ g2h[i].inst <= inst /\ g2h[i].inst # inst
      BY SMT, <1>1, <2>1, <3>1, GuestFrameFields
         DEF LinkInv, InstBound, PingBeforeRequest, CurrentAnswered
    <3>3. QED
      BY SMT, <2>1, <3>1, <3>2 DEF StateTypes
  <2>4. QED
    BY SMT, <1>1, <2>2, <2>3
<1>4. CurrentAnswered' => CurrentAnswered \/ (done # {} /\ pending = 0)
  BY SMT, <1>1 DEF CurrentAnswered
<1>5. PingBeforeRequest'
  <2>1. done' # {} => done # {}
    OBVIOUS
  <2>2. CurrentAnswered' => pending' = 0
    BY SMT, <1>4 DEF LinkInv, PingBeforeRequest, StateTypes
  <2>3. QED
    BY SMT, <1>4, <2>1, <2>2 DEF LinkInv, PingBeforeRequest
<1>6. QED
  BY <1>2, <1>3, <1>5 DEF LinkInv

(* A new server starts: it has answered nothing yet. *)
LEMMA LinkNewServer ==
  ASSUME StateTypes, LinkInv, inst' = inst + 1, srv' = {}, done' = {},
         UNCHANGED <<g2h, shakeOut, answered>>,
         h2g' \in {h2g, <<>>}
  PROVE  LinkInv'
<1>1. \A i \in 1..Len(g2h) :
         g2h[i].kind \in {"Handshake", "TestRunner"} => g2h[i].inst \in Nat
  BY SMT, GuestFrameFields DEF StateTypes
<1>2. InstBound'
  BY SMT, <1>1 DEF LinkInv, InstBound, StateTypes
<1>3. AnswerThenNewer'
  BY DEF LinkInv, AnswerThenNewer
<1>4. ~CurrentAnswered'
  BY SMT, <1>1 DEF LinkInv, InstBound, CurrentAnswered, StateTypes
<1>5. \A i \in 1..Len(h2g') : h2g'[i].kind = "TestRunner" =>
         ~shakeOut' /\ \A j \in 1..Len(h2g') : i < j => h2g'[j].kind # "Handshake"
  <2>1. CASE h2g' = h2g
    BY SMT, <2>1 DEF LinkInv, PingBeforeRequest
  <2>2. CASE h2g' = <<>>
    BY SMT, <2>2, EmptyFacts
  <2>3. QED
    BY <2>1, <2>2
<1>6. PingBeforeRequest'
  BY <1>4, <1>5 DEF PingBeforeRequest
<1>7. QED
  BY <1>2, <1>3, <1>6 DEF LinkInv

LEMMA LinkGuest ==
  StateTypes /\ LinkInv /\ GuestNext => LinkInv'
<1> SUFFICES ASSUME StateTypes, LinkInv, GuestNext PROVE LinkInv'
  OBVIOUS
<1> USE DEF mgrVars, fwdVars, guestVars
<1>1. CASE RunnerRecv
  <2>1. /\ h2g # <<>> /\ h2g' = Tail(h2g)
        /\ UNCHANGED <<vm, g2h, inst, done, shakeOut, answered>>
        /\ \/ Head(h2g).kind = "Handshake" /\ srv' = srv
           \/ Head(h2g).kind = "TestRunner" /\ pending' = pending
    BY <1>1 DEF RunnerRecv
  <2>2. /\ Head(h2g) = h2g[1] /\ 1 \in 1..Len(h2g)
        /\ Len(h2g) \in Nat
        /\ \A i \in 1..Len(h2g') : h2g'[i] = h2g[i + 1] /\ i + 1 \in 1..Len(h2g)
    BY SMT, <2>1, TailFacts DEF StateTypes
  <2>3. InstBound' /\ AnswerThenNewer'
    BY <2>1 DEF LinkInv, InstBound, AnswerThenNewer
  <2>4. CurrentAnswered' <=> CurrentAnswered
    BY <2>1 DEF CurrentAnswered
  <2>5. \A i \in 1..Len(h2g') : h2g'[i].kind = "TestRunner" =>
           ~shakeOut' /\ \A j \in 1..Len(h2g') : i < j => h2g'[j].kind # "Handshake"
    BY SMT, <2>1, <2>2 DEF LinkInv, PingBeforeRequest
  <2>6. ASSUME Head(h2g).kind = "Handshake" PROVE PingBeforeRequest'
    <3>1. ~(CurrentAnswered \/ done # {} \/ srv # {})
      BY <2>2, <2>6 DEF LinkInv, PingBeforeRequest
    <3>2. srv' = srv /\ done' = done
      BY <2>1, <2>6
    <3>3. QED
      BY <2>4, <2>5, <3>1, <3>2 DEF PingBeforeRequest
  <2>7. ASSUME Head(h2g).kind = "TestRunner" PROVE PingBeforeRequest'
    <3>1. ~shakeOut /\ \A i \in 1..Len(h2g') : h2g'[i].kind # "Handshake"
      BY SMT, <2>2, <2>7 DEF LinkInv, PingBeforeRequest
    <3>2. QED
      BY <2>1, <2>4, <2>5, <2>7, <3>1 DEF LinkInv, PingBeforeRequest
  <2>8. QED
    BY <2>1, <2>3, <2>6, <2>7 DEF LinkInv
<1>2. CASE SendShake
  <2>1. Shake(inst) \in GuestFrame /\ Shake(inst).kind = "Handshake" /\ Shake(inst).inst = inst
    BY DEF Shake, GuestFrame, StateTypes
  <2>2. QED
    BY SMT, <1>2, <2>1, LinkWrite DEF SendShake, ShakeQueued, StateTypes
<1>3. ASSUME NEW r \in srv, Serve(r) PROVE LinkInv'
  <2>1. /\ UNCHANGED <<vm, h2g, g2h, inst, pending, shakeOut, answered>>
        /\ srv # {}
    BY <1>3 DEF Serve
  <2>2. InstBound' /\ AnswerThenNewer'
    BY <2>1 DEF LinkInv, InstBound, AnswerThenNewer
  <2>3. CurrentAnswered' <=> CurrentAnswered
    BY <2>1 DEF CurrentAnswered
  <2>4. PingBeforeRequest'
    BY <2>1, <2>3 DEF LinkInv, PingBeforeRequest
  <2>5. QED
    BY <2>2, <2>4 DEF LinkInv
<1>4. ASSUME NEW a \in done, SendReply(a) PROVE LinkInv'
  <2>1. /\ Reply(inst, a) \in GuestFrame
        /\ Reply(inst, a).kind = "TestRunner" /\ Reply(inst, a).inst = inst
    BY DEF Reply, GuestFrame, StateTypes
  <2>2. QED
    BY SMT, <1>4, <2>1, LinkWrite DEF SendReply, ShakeFirst, StateTypes
<1>5. CASE Shutdown
  <2>1. /\ UNCHANGED <<g2h, inst, shakeOut, answered>> /\ vm' = "off"
        /\ h2g' = <<>> /\ pending' = 0
    BY <1>5 DEF Shutdown
  <2>2. InstBound' /\ AnswerThenNewer'
    BY <2>1 DEF LinkInv, InstBound, AnswerThenNewer
  <2>3. CurrentAnswered' <=> CurrentAnswered
    BY <2>1 DEF CurrentAnswered
  <2>4. srv' = {} /\ done' = {} /\ 1..Len(h2g') = {}
    BY SMT, <1>5, <2>1, EmptyFacts DEF Shutdown
  <2>5. PingBeforeRequest'
    BY <2>1, <2>3, <2>4 DEF LinkInv, PingBeforeRequest
  <2>6. QED
    BY <2>2, <2>5 DEF LinkInv
<1>6. CASE ShutdownFails
  BY <1>6, LinkQuiet DEF ShutdownFails
<1>7. CASE Firmware
  <2>1. Noise \in GuestFrame /\ Noise.kind = "Noise"
    BY DEF Noise, GuestFrame
  <2>2. CASE g2h' = g2h
    BY <1>7, <2>2, LinkQuiet DEF Firmware
  <2>3. CASE g2h' = Append(g2h, Noise)
    BY SMT, <1>7, <2>1, <2>3, LinkWrite DEF Firmware, StateTypes
  <2>4. QED
    BY <1>7, <2>2, <2>3 DEF Firmware
<1>8. CASE RunnerStart
  BY <1>8, LinkNewServer DEF RunnerStart
<1>9. CASE ServerRestart
  BY <1>9, LinkNewServer DEF ServerRestart
<1>10. QED
  BY <1>1, <1>2, <1>3, <1>4, <1>5, <1>6, <1>7, <1>8, <1>9 DEF GuestNext

----------------------------------------------------------------------------
LEMMA FreshInit == Init => FreshInv
BY DEF Init, FreshInv, FreshLink, FreshQueue, FreshHandshake

LEMMA FreshManager ==
  StateTypes /\ FreshInv /\ ManagerNext => FreshInv'
<1> SUFFICES ASSUME StateTypes, FreshInv, ManagerNext PROVE FreshInv'
  OBVIOUS
<1> USE DEF FreshInv, FreshLink, FreshQueue, FreshHandshake, mgrVars, fwdVars, guestVars
<1>1. ASSUME NEW op \in Ops, Call(op) PROVE FreshInv'
  BY <1>1 DEF Call
<1>2. CASE CallFails
  BY <1>2 DEF CallFails
<1>3. CASE ResetDrain
  BY SMT, <1>3, EmptyFacts DEF ResetDrain, DrainShakes
<1>4. CASE ResetStore
  BY <1>4 DEF ResetStore
<1>5. CASE WaitForServer
  <2>1. CASE pc = "connecting"
    BY <1>5, <2>1 DEF WaitForServer
  <2>2. CASE pc = "waiting" /\ fwdRx # <<>>
    <3>1. Head(fwdRx) > answered
      BY SMT, <2>2, TailFacts DEF StateTypes
    <3>2. got' = Head(fwdRx) /\ pc' = "rebooted" /\ answered' = answered
      BY <1>5, <2>2 DEF WaitForServer
    <3>3. QED
      BY <3>1, <3>2
  <2>3. CASE pc = "waiting" /\ fwdRx = <<>>
    BY <1>5, <2>3 DEF WaitForServer
  <2>4. QED
    BY <1>5, <2>1, <2>2, <2>3 DEF WaitForServer
<1>6. CASE WaitTimeout
  BY <1>6 DEF WaitTimeout
<1>7. CASE RebootReturns
  BY <1>7 DEF RebootReturns
<1>8. QED
  BY <1>1, <1>2, <1>3, <1>4, <1>5, <1>6, <1>7 DEF ManagerNext

(* Steps of the others: what the link holds for a waiting reboot() stays    *)
(* newer than the answer, and so does what is forwarded from it.            *)
LEMMA FreshQuiet ==
  ASSUME FreshInv, UNCHANGED <<pc, answered, got>>,
         fwd = "stopped" => fwd' = "stopped",
         FreshLink', FreshQueue'
  PROVE  FreshInv'
BY DEF FreshInv, FreshHandshake

LEMMA FreshForwarder ==
  StateTypes /\ Decoding /\ LinkInv /\ FreshInv /\ ForwarderNext => FreshInv'
<1> SUFFICES ASSUME StateTypes, Decoding, LinkInv, FreshInv, ForwarderNext PROVE FreshInv'
  OBVIOUS
<1> USE DEF mgrVars, fwdVars, guestVars
<1>1. CASE SendPing \/ SendRequest \/ LoadConnected \/ LinkLost
  BY <1>1 DEF SendPing, SendRequest, LoadConnected, LinkLost, FreshInv, FreshLink,
     FreshQueue, FreshHandshake
<1>2. g2h # <<>> =>
        /\ Head(g2h) \in GuestFrame
        /\ Head(g2h) = g2h[1] /\ 1 \in 1..Len(g2h)
        /\ Len(g2h) \in Nat
        /\ \A i \in 1..Len(Tail(g2h)) : Tail(g2h)[i] = g2h[i + 1] /\ i + 1 \in 1..Len(g2h)
  BY SMT, TailFacts DEF StateTypes
<1>3. ASSUME g2h # <<>>, UNCHANGED <<pc, answered>>, g2h' = Tail(g2h) PROVE FreshLink'
  BY <1>2, <1>3 DEF FreshInv, FreshLink
<1>4. CASE SkipNoise
  <2>1. UNCHANGED <<pc, answered, got, fwd, fwdRx>> /\ g2h # <<>> /\ g2h' \in {g2h, Tail(g2h)}
    BY <1>4 DEF SkipNoise
  <2>2. FreshLink'
    BY <1>3, <2>1 DEF FreshInv, FreshLink
  <2>3. QED
    BY <2>1, <2>2 DEF FreshInv, FreshQueue, FreshHandshake
<1>5. CASE DeliverShake
  <2>1. /\ UNCHANGED <<pc, answered, got, fwd>> /\ g2h # <<>> /\ g2h' = Tail(g2h)
        /\ Head(g2h).kind = "Handshake" /\ fwdRx' = Append(fwdRx, Head(g2h).inst)
    BY <1>5 DEF DeliverShake, Decoded, Decoding
  <2>2. FreshLink'
    BY <1>3, <2>1
  <2>3. /\ Len(fwdRx) \in Nat
        /\ Len(fwdRx') = Len(fwdRx) + 1
        /\ \A i \in 1..Len(fwdRx) : fwdRx'[i] = fwdRx[i]
        /\ fwdRx'[Len(fwdRx) + 1] = Head(g2h).inst
    BY SMT, <1>2, <2>1, AppendFacts, GuestFrameFields DEF StateTypes
  <2>4. FreshQueue'
    <3>1. pc \in {"drained", "waiting"} => Head(g2h).inst > answered
      BY <1>2, <2>1 DEF FreshInv, FreshLink
    <3>2. QED
      BY SMT, <2>1, <2>3, <3>1 DEF FreshInv, FreshQueue
  <2>5. QED
    BY <2>1, <2>2, <2>4, FreshQuiet
<1>6. CASE DeliverAnswer
  <2>1. /\ UNCHANGED <<got, fwd, fwdRx>> /\ g2h # <<>> /\ g2h' = Tail(g2h)
        /\ Head(g2h).kind = "TestRunner"
    BY <1>6 DEF DeliverAnswer, Decoded, Decoding
  <2>2. CASE UNCHANGED <<pc, answered>>
    <3>1. FreshLink' /\ FreshQueue'
      BY <1>3, <2>1, <2>2 DEF FreshInv, FreshQueue
    <3>2. QED
      BY <2>1, <2>2, <3>1, FreshQuiet
  <2>3. CASE pc' = "idle"
    BY <2>3 DEF FreshInv, FreshLink, FreshQueue, FreshHandshake
  <2>4. CASE pc' = "replied" /\ answered' = Head(g2h).inst
    <3>1. \A i \in 1..Len(g2h') : g2h'[i].kind = "Handshake" => g2h'[i].inst > answered'
      BY SMT, <1>2, <2>1, <2>4 DEF LinkInv, AnswerThenNewer
    <3>2. QED
      BY <2>4, <3>1 DEF FreshInv, FreshLink, FreshQueue, FreshHandshake
  <2>5. QED
    BY <1>6, <2>2, <2>3, <2>4 DEF DeliverAnswer
<1>7. CASE DeliverNoise
  <2>1. /\ UNCHANGED <<pc, answered, got, fwdRx>> /\ fwd' = "stopped"
        /\ g2h # <<>> /\ g2h' = Tail(g2h)
    BY <1>7 DEF DeliverNoise, Decoded, Decoding
  <2>2. FreshLink' /\ FreshQueue'
    BY <1>3, <2>1 DEF FreshInv, FreshQueue
  <2>3. QED
    BY <2>1, <2>2, FreshQuiet
<1>8. QED
  BY <1>1, <1>4, <1>5, <1>6, <1>7 DEF ForwarderNext, Deliver

LEMMA FreshGuest ==
  StateTypes /\ LinkInv /\ FreshInv /\ GuestNext => FreshInv'
<1> SUFFICES ASSUME StateTypes, LinkInv, FreshInv, GuestNext PROVE FreshInv'
  OBVIOUS
<1> USE DEF mgrVars, fwdVars, guestVars
<1>1. UNCHANGED <<pc, answered, got, fwd, fwdRx>>
  BY DEF GuestNext, RunnerRecv, SendShake, Serve, SendReply, Shutdown, ShutdownFails,
     Firmware, RunnerStart, ServerRestart
<1>2. FreshQueue'
  BY <1>1 DEF FreshInv, FreshQueue
<1>3. ASSUME NEW f \in GuestFrame, g2h' = Append(g2h, f),
             f.kind = "Handshake" => f.inst > answered
      PROVE  FreshLink'
  <2>1. /\ Len(g2h) \in Nat
        /\ Len(g2h') = Len(g2h) + 1
        /\ \A i \in 1..Len(g2h) : g2h'[i] = g2h[i]
        /\ g2h'[Len(g2h) + 1] = f
    BY SMT, <1>3, AppendFacts DEF StateTypes
  <2>2. QED
    BY SMT, <1>1, <1>3, <2>1 DEF FreshInv, FreshLink
<1>4. CASE g2h' = g2h
  BY <1>1, <1>4 DEF FreshInv, FreshLink, FreshQueue, FreshHandshake
<1>5. CASE SendShake
  <2>1. Shake(inst) \in GuestFrame /\ Shake(inst).inst = inst
    BY DEF Shake, GuestFrame, StateTypes
  <2>2. inst > answered
    <3>1. pending # 0 /\ inst > 0
      BY SMT, <1>5 DEF SendShake, ShakeQueued, LinkInv, InstBound, StateTypes
    <3>2. answered # inst
      BY SMT, <3>1 DEF LinkInv, PingBeforeRequest, CurrentAnswered
    <3>3. QED
      BY SMT, <3>2 DEF LinkInv, InstBound, StateTypes
  <2>3. FreshLink'
    BY <1>3, <1>5, <2>1, <2>2 DEF SendShake
  <2>4. QED
    BY <1>1, <1>2, <2>3, FreshQuiet
<1>6. ASSUME NEW a \in done, SendReply(a) PROVE FreshInv'
  <2>1. Reply(inst, a) \in GuestFrame /\ Reply(inst, a).kind = "TestRunner"
    BY DEF Reply, GuestFrame, StateTypes
  <2>2. FreshLink'
    BY <1>3, <1>6, <2>1 DEF SendReply
  <2>3. QED
    BY <1>1, <1>2, <2>2, FreshQuiet
<1>7. CASE g2h' = Append(g2h, Noise)
  <2>1. Noise \in GuestFrame /\ Noise.kind = "Noise"
    BY DEF Noise, GuestFrame
  <2>2. FreshLink'
    BY <1>3, <1>7, <2>1
  <2>3. QED
    BY SMT, <1>1, <1>2, <2>2, FreshQuiet
<1>8. QED
  BY <1>4, <1>5, <1>6, <1>7 DEF GuestNext, RunnerRecv, Serve, Shutdown, ShutdownFails,
     Firmware, RunnerStart, ServerRestart

LEMMA IInvStep == IInv /\ [Next]_vars => IInv'
<1>1. IInv /\ UNCHANGED vars => IInv'
  <2> SUFFICES ASSUME IInv, UNCHANGED vars PROVE IInv'
    OBVIOUS
  <2>1. (TypeOK /\ Decoding)'
    BY TypeStep DEF IInv
  <2>2. LinkInv'
    BY LinkQuiet DEF IInv, vars, mgrVars, fwdVars, guestVars
  <2>3. FreshInv'
    BY DEF IInv, FreshInv, FreshLink, FreshQueue, FreshHandshake, vars, mgrVars, fwdVars
  <2>4. QED
    BY <2>1, <2>2, <2>3 DEF IInv
<1>2. IInv /\ Next => IInv'
  BY TypeStep, LinkManager, LinkForwarder, LinkGuest, FreshManager, FreshForwarder,
     FreshGuest DEF IInv, TypeOK, Next
<1>3. QED
  BY <1>1, <1>2

(* reboot() is fresh: for any number of calls and restarts, and whatever    *)
(* the timing, the handshake that lets ServiceClient::reboot return comes   *)
(* from a server transport younger than the one that answered the request.  *)
THEOREM RebootIsFresh == Spec => []FreshHandshake
<1>1. Init => IInv
  BY TypeInit, LinkInit, FreshInit DEF IInv
<1>2. IInv => FreshHandshake
  BY DEF IInv, FreshInv
<1>3. QED
  BY <1>1, <1>2, IInvStep, PTL DEF Spec

----------------------------------------------------------------------------
(* The connection when the timing assumptions hold and the server is only   *)
(* restarted by a reboot.                                                   *)
Calm == Timely /\ MaxRestarts = 0

NoRequest == \A i \in 1..Len(h2g) : h2g[i].kind # "TestRunner"
NoAnswer  == \A i \in 1..Len(g2h) : g2h[i].kind # "TestRunner"

(* Where the one RPC under way is: in the manager's channel, the last frame *)
(* to the guest, with the server, served, or the last frame to the host.    *)
(* A shutdown is scheduled exactly when it is a reboot that was granted.    *)
InChannel == out = <<call>> /\ NoRequest /\ srv = {} /\ done = {} /\ NoAnswer /\ ~doomed
InRequest ==
  /\ out = <<>> /\ srv = {} /\ done = {} /\ NoAnswer /\ ~doomed
  /\ h2g # <<>> /\ h2g[Len(h2g)].kind = "TestRunner" /\ h2g[Len(h2g)].req = call
  /\ \A i \in 1..Len(h2g) : i < Len(h2g) => h2g[i].kind # "TestRunner"
InServer == out = <<>> /\ NoRequest /\ srv = {call} /\ done = {} /\ NoAnswer /\ ~doomed
InDone ==
  /\ out = <<>> /\ NoRequest /\ srv = {} /\ NoAnswer
  /\ \E ok \in BOOLEAN :
       done = {[id |-> call.id, ok |-> ok]} /\ (doomed <=> call.op = "reboot" /\ ok)
InAnswer ==
  /\ out = <<>> /\ NoRequest /\ srv = {} /\ done = {}
  /\ g2h # <<>> /\ g2h[Len(g2h)].kind = "TestRunner" /\ g2h[Len(g2h)].ans.id = call.id
  /\ doomed <=> call.op = "reboot" /\ g2h[Len(g2h)].ans.ok
  /\ g2h[Len(g2h)].inst = inst
  /\ \A i \in 1..Len(g2h) : i < Len(g2h) => g2h[i].kind # "TestRunner"
Nowhere == out = <<>> /\ NoRequest /\ srv = {} /\ done = {} /\ NoAnswer

OneCall ==
  /\ pc = "calling" => InChannel \/ InRequest \/ InServer \/ InDone \/ InAnswer
  /\ pc # "calling" => Nowhere

(* Between the answer to a reboot request and the handshake of the next     *)
(* server nothing but noise comes over the link, and it comes when          *)
(* reset_connected_state is done.                                           *)
Quiet == ~isConnected /\ fwdRx = <<>>

Phases ==
  /\ fwd = "run" /\ vm # "dead" /\ pc # "aborted"
  /\ pc \in {"idle", "calling", "rebooted"} => vm = "running"
  /\ pc \in {"replied", "drained"} => vm = "running" /\ doomed
  /\ doomed => vm = "running" /\ pc \in {"calling", "replied", "drained", "waiting"}
  /\ doomed /\ pc # "calling" => inst # 0 /\ answered = inst /\ g2h = <<>>
  /\ pc = "drained" => fwdRx = <<>>
  /\ pc = "waiting" /\ doomed => Quiet
  /\ vm = "off" => g2h = <<>>
  /\ vm \in {"off", "firmware"} =>
       Quiet /\ \A i \in 1..Len(g2h) : g2h[i].kind = "Noise"
  /\ pc = "waiting" /\ fwdRx # <<>> => isConnected
  /\ pc = "rebooted" => isConnected

(* A codec that is connected finds no noise on the link; for one that is    *)
(* not, a handshake comes first, behind all noise and ahead of any answer.  *)
Announced == isConnected \/ \E i \in 1..Len(g2h) : g2h[i].kind = "Handshake"

NoiseFirst ==
  /\ dec # "idle" => isConnected
  /\ isConnected => \A i \in 1..Len(g2h) : g2h[i].kind # "Noise"
  /\ \A i, j \in 1..Len(g2h) : i < j /\ g2h[i].kind = "Handshake" => g2h[j].kind # "Noise"
  /\ ~isConnected => \A j \in 1..Len(g2h) : g2h[j].kind = "TestRunner" =>
       \E i \in 1..Len(g2h) : i < j /\ g2h[i].kind = "Handshake"
  /\ vm = "running" /\ ~(pc = "waiting" /\ doomed) =>
       \/ Announced \/ pending > 0 \/ shakeOut
       \/ \E i \in 1..Len(h2g) : h2g[i].kind = "Handshake"

CalmInv == OneCall /\ Phases /\ NoiseFirst

CalmContext == Calm /\ StateTypes /\ Decoding /\ LinkInv /\ CalmInv

LEMMA CalmInit == Init /\ Calm => CalmInv
<1> SUFFICES ASSUME Init, Calm PROVE CalmInv
  OBVIOUS
<1>1. /\ out = <<>> /\ h2g = <<>> /\ srv = {} /\ done = {} /\ ~doomed /\ Quiet
      /\ pc \in {"connecting", "idle"} /\ fwd = "run" /\ dec = "idle" /\ shakeOut
      /\ vm \in {"off", "running"}
      /\ pc = "idle" => vm = "running"
  BY DEF Init, Quiet, Calm
<1>2. g2h = <<>> \/ (g2h = <<Shake(1)>> /\ vm = "running")
  BY DEF Init
<1>3. /\ 1..Len(h2g) = {} /\ Len(g2h) \in {0, 1}
      /\ \A i \in 1..Len(g2h) : i = 1 /\ g2h[i].kind = "Handshake" /\ vm = "running"
  BY SMT, <1>1, <1>2 DEF Shake
<1>4. OneCall
  BY <1>1, <1>3 DEF OneCall, Nowhere, NoRequest, NoAnswer
<1>5. Phases
  BY <1>1, <1>2, <1>3 DEF Phases
<1>6. NoiseFirst
  BY <1>1, <1>3 DEF NoiseFirst, Quiet
<1> QED
  BY <1>4, <1>5, <1>6 DEF CalmInv

(* A call is nowhere but where it is. *)
LEMMA OneCallKept ==
  OneCall /\ UNCHANGED <<pc, call, out, h2g, g2h, srv, done, doomed, inst>> => OneCall'
BY SMT DEF OneCall, InChannel, InRequest, InServer, InDone, InAnswer, Nowhere, NoRequest, NoAnswer

LEMMA CalmManager == CalmContext /\ ManagerNext => CalmInv'
<1> SUFFICES ASSUME CalmContext, ManagerNext PROVE CalmInv'
  OBVIOUS
<1> USE DEF mgrVars, fwdVars, guestVars
<1>0. OneCall /\ Phases /\ NoiseFirst /\ Decoding /\ Timely
  BY DEF CalmContext, CalmInv, Calm
<1>1. ASSUME NEW op \in Ops, Call(op) PROVE CalmInv'
  <2>1. /\ pc = "idle" /\ pc' = "calling" /\ out' = Append(out, call')
        /\ UNCHANGED <<answered, got, fwdVars, h2g, g2h, guestVars>>
    BY <1>1 DEF Call
  <2>2. Nowhere /\ ~doomed /\ vm = "running"
    BY <1>0, <2>1 DEF OneCall, Phases
  <2>3. out' = <<call'>>
    BY SMT, <2>1, <2>2 DEF Nowhere
  <2>4. InChannel'
    BY <2>1, <2>2, <2>3 DEF Nowhere, NoRequest, NoAnswer, InChannel
  <2>5. OneCall'
    BY <2>1, <2>4 DEF OneCall
  <2>6. Phases' /\ NoiseFirst'
    BY SMT, <1>0, <2>1, <2>2 DEF Phases, NoiseFirst, Announced, Quiet
  <2> QED
    BY <2>5, <2>6 DEF CalmInv
<1>2. CASE CallFails \/ WaitTimeout
  BY <1>0, <1>2 DEF CallFails, WaitTimeout, Phases
<1>3. ASSUME pc # "calling", pc' # "calling",
             UNCHANGED <<call, out, h2g, g2h, guestVars>>
      PROVE  OneCall'
  BY <1>0, <1>3 DEF OneCall, Nowhere, NoRequest, NoAnswer
<1>4. CASE ResetDrain
  <2>1. /\ pc = "replied" /\ pc' = "drained" /\ fwdRx' = <<>>
        /\ UNCHANGED <<call, out, answered, got, shakeOut, fwd, dec, isConnected, h2g, g2h,
                       guestVars>>
    BY <1>4 DEF ResetDrain, DrainShakes
  <2>2. Phases' /\ NoiseFirst'
    BY SMT, <1>0, <2>1 DEF Phases, NoiseFirst, Announced, Quiet
  <2> QED
    BY <1>3, <2>1, <2>2 DEF CalmInv
<1>5. CASE ResetStore
  <2>1. /\ pc = "drained" /\ pc' = "waiting" /\ ~isConnected'
        /\ UNCHANGED <<call, out, answered, got, shakeOut, fwd, dec, fwdRx, h2g, g2h, guestVars>>
    BY <1>5 DEF ResetStore, ClearConnected
  <2>2. doomed /\ vm = "running" /\ fwdRx = <<>> /\ g2h = <<>> /\ 1..Len(g2h) = {}
    BY SMT, <1>0, <2>1, EmptyFacts DEF Phases
  <2>3. dec \notin {"skipped", "loaded"} /\ dec \in {"idle", "skipped", "loaded"}
    BY <1>0, <2>2 DEF Decoding, CalmContext, StateTypes
  <2>4. Phases' /\ NoiseFirst'
    BY <1>0, <2>1, <2>2, <2>3 DEF Phases, NoiseFirst, Quiet
  <2> QED
    BY <1>3, <2>1, <2>4 DEF CalmInv
<1>6. CASE WaitForServer
  <2>1. /\ pc \in {"connecting", "waiting"}
        /\ pc' = IF pc = "connecting" THEN "idle" ELSE "rebooted"
        /\ UNCHANGED <<call, out, answered, shakeOut, fwd, dec, isConnected, h2g, g2h,
                       guestVars>>
    BY <1>6 DEF WaitForServer
  <2>2. fwdRx # <<>>
    BY <1>0, <1>6 DEF WaitForServer, Phases
  <2>3. vm = "running" /\ ~doomed /\ (pc = "waiting" => isConnected)
    BY <1>0, <2>1, <2>2 DEF Phases, Quiet, CalmContext, StateTypes
  <2>4. Phases' /\ NoiseFirst'
    BY SMT, <1>0, <2>1, <2>3 DEF Phases, NoiseFirst, Announced
  <2> QED
    BY <1>3, <2>1, <2>4 DEF CalmInv
<1>7. CASE RebootReturns
  <2>1. /\ pc = "rebooted" /\ pc' = "idle"
        /\ UNCHANGED <<call, out, answered, got, fwdVars, h2g, g2h, guestVars>>
    BY <1>7 DEF RebootReturns
  <2>2. Phases' /\ NoiseFirst'
    BY <1>0, <2>1 DEF Phases, NoiseFirst, Announced, Quiet
  <2> QED
    BY <1>3, <2>1, <2>2 DEF CalmInv
<1> QED
  BY <1>1, <1>2, <1>4, <1>5, <1>6, <1>7 DEF ManagerNext

(* The codec takes the head of the link while it is connected. *)
LEMMA CalmRead ==
  ASSUME CalmContext, g2h # <<>>, isConnected, g2h' = Tail(g2h), isConnected', dec' = "idle"
  PROVE  NoiseFirst'
<1> DEFINE n == Len(g2h)
<1>1. /\ n \in Nat /\ Len(Tail(g2h)) = n - 1
      /\ \A i \in 1..(n - 1) : Tail(g2h)[i] = g2h[i + 1] /\ i + 1 \in 1..n
  BY TailFacts DEF CalmContext, StateTypes
<1>2. /\ \A i \in 1..n : g2h[i].kind # "Noise"
      /\ Len(g2h)' = n - 1 /\ (\A i \in 1..(n - 1) : g2h'[i].kind # "Noise")
  BY <1>1 DEF CalmContext, CalmInv, NoiseFirst
<1>3. QED
  BY <1>2 DEF NoiseFirst, Announced

LEMMA CalmForwarder == CalmContext /\ ForwarderNext => CalmInv'
<1> SUFFICES ASSUME CalmContext, ForwarderNext PROVE CalmInv'
  OBVIOUS
<1> USE DEF mgrVars, fwdVars, guestVars
<1>0. /\ OneCall /\ Phases /\ NoiseFirst /\ Decoding /\ Timely /\ PingBeforeRequest
      /\ out \in Seq(Request) /\ h2g \in Seq(HostFrame) /\ g2h \in Seq(GuestFrame)
  BY DEF CalmContext, CalmInv, Calm, LinkInv, StateTypes
<1>1. CASE SendPing
  <2>1. /\ shakeOut /\ h2g' = Append(h2g, Ping)
        /\ UNCHANGED <<mgrVars, fwd, dec, isConnected, fwdRx, g2h, guestVars>>
    BY <1>1 DEF SendPing
  <2>2. /\ Len(h2g) \in Nat /\ Len(h2g') = Len(h2g) + 1
        /\ \A i \in 1..Len(h2g) : h2g'[i] = h2g[i]
        /\ h2g'[Len(h2g) + 1].kind = "Handshake"
    BY SMT, <1>0, <2>1, AppendFacts DEF Ping, HostFrame
  <2>3. NoRequest /\ ~InRequest
    BY SMT, <1>0, <2>1, <2>2 DEF PingBeforeRequest, NoRequest, InRequest
  <2>4. NoRequest'
    BY SMT, <2>2, <2>3 DEF NoRequest
  <2>5. OneCall'
    BY <1>0, <2>1, <2>3, <2>4 DEF OneCall, InChannel, InServer, InDone, InAnswer, Nowhere,
       NoAnswer
  <2>6. Phases'
    BY <1>0, <2>1 DEF Phases, Quiet
  <2>7. NoiseFirst'
    BY SMT, <1>0, <2>1, <2>2 DEF NoiseFirst, Announced
  <2>8. QED
    BY <2>5, <2>6, <2>7 DEF CalmInv
<1>2. CASE SendRequest
  <2> DEFINE f == [kind |-> "TestRunner", req |-> Head(out)]
  <2>1. /\ out # <<>> /\ h2g' = Append(h2g, f) /\ out' = Tail(out)
        /\ UNCHANGED <<pc, call, answered, got, fwdVars, g2h, guestVars>>
    BY <1>2 DEF SendRequest
  <2>2. pc = "calling" /\ InChannel
    BY <1>0, <2>1 DEF OneCall, Nowhere, InRequest, InServer, InDone, InAnswer
  <2>3. Head(out) = call /\ out' = <<>> /\ f \in HostFrame
    <3>1. out = <<call>> /\ Head(out) \in Request
      BY <1>0, <2>1, <2>2, TailFacts DEF InChannel
    <3>2. f \in HostFrame
      BY <3>1 DEF HostFrame
    <3>3. QED
      BY SMT, <2>1, <3>1, <3>2
  <2> HIDE DEF f
  <2>4. /\ Len(h2g) \in Nat /\ Len(h2g') = Len(h2g) + 1 /\ h2g' # <<>>
        /\ \A i \in 1..Len(h2g) : h2g'[i] = h2g[i]
        /\ h2g'[Len(h2g) + 1] = f
    BY SMT, <1>0, <2>1, <2>3, AppendFacts
  <2>5. f.kind = "TestRunner" /\ f.req = call
    BY <2>3 DEF f
  <2>6. InRequest'
    BY SMT, <2>1, <2>2, <2>3, <2>4, <2>5 DEF InChannel, InRequest, NoRequest, NoAnswer
  <2>7. OneCall' /\ Phases'
    BY <1>0, <2>1, <2>2, <2>6 DEF OneCall, Phases, Quiet
  <2>8. NoiseFirst'
    BY SMT, <1>0, <2>1, <2>4 DEF NoiseFirst, Announced
  <2>9. QED
    BY <2>7, <2>8 DEF CalmInv
<1>3. CASE SkipNoise /\ g2h' = g2h
  <2>1. /\ g2h # <<>> /\ isConnected' /\ (isConnected \/ Head(g2h).kind = "Handshake")
        /\ UNCHANGED <<mgrVars, shakeOut, fwd, fwdRx, h2g, g2h, guestVars>>
    <3>1. g2h # Tail(g2h)
      BY SMT, <1>0, <1>3, TailFacts DEF SkipNoise
    <3>2. QED
      BY SMT, <1>3, <3>1 DEF SkipNoise
  <2>2. Head(g2h) = g2h[1] /\ Len(g2h) \in Nat /\ 1 \in 1..Len(g2h)
    BY SMT, <1>0, <2>1, TailFacts
  <2>3. OneCall'
    BY <1>0, <2>1, OneCallKept
  <2>4. vm = "running" /\ ~(pc = "waiting" /\ doomed)
    BY <1>0, <2>1, <2>2 DEF Phases, Quiet, CalmContext, StateTypes
  <2>5. Phases'
    BY <1>0, <2>1, <2>4 DEF Phases, Quiet
  <2>6. \A i \in 1..Len(g2h) : g2h[i].kind # "Noise"
    <3>1. CASE isConnected
      BY <1>0, <3>1 DEF NoiseFirst
    <3>2. CASE ~isConnected
      <4>1. g2h[1].kind = "Handshake"
        BY <2>1, <2>2, <3>2
      <4>2. \A j \in 1..Len(g2h) : 1 < j => g2h[j].kind # "Noise"
        BY <1>0, <2>2, <4>1 DEF NoiseFirst
      <4>3. \A j \in 1..Len(g2h) : j = 1 \/ 1 < j
        BY SMT, <2>2
      <4>4. QED
        BY <4>1, <4>2, <4>3
    <3>3. QED
      BY <3>1, <3>2
  <2>7. NoiseFirst'
    BY <2>1, <2>6, <1>0 DEF NoiseFirst, Announced
  <2>8. QED
    BY SMT, <2>3, <2>5, <2>7 DEF CalmInv
<1>4. CASE SkipNoise /\ g2h' # g2h
  <2>1. /\ g2h # <<>> /\ ~isConnected /\ Head(g2h).kind # "Handshake" /\ g2h' = Tail(g2h)
        /\ UNCHANGED <<mgrVars, shakeOut, fwd, fwdRx, h2g, guestVars, isConnected, dec>>
    BY <1>4 DEF SkipNoise
  <2> DEFINE n == Len(g2h)
  <2>2. /\ n \in Nat /\ n > 0 /\ Len(g2h') = n - 1 /\ Head(g2h) = g2h[1]
        /\ \A i \in 1..(n - 1) : g2h'[i] = g2h[i + 1] /\ i + 1 \in 1..n
    BY <1>0, <2>1, TailFacts
  <2> HIDE DEF n
  <2>3. /\ \A i \in 1..n : g2h[i].kind = "Handshake" => i - 1 \in 1..(n - 1) /\ g2h'[i - 1] = g2h[i]
        /\ g2h[1].kind # "TestRunner"
    <3>1. \A i \in 1..n : g2h[i].kind = "Handshake" => i # 1
      BY <2>1, <2>2
    <3>2. \A i \in 1..n : i # 1 => i - 1 \in 1..(n - 1) /\ g2h'[i - 1] = g2h[i]
      BY SMT, <2>2
    <3>3. g2h[1].kind # "TestRunner"
      BY SMT, <1>0, <2>1, <2>2 DEF NoiseFirst, n
    <3>4. QED
      BY <3>1, <3>2, <3>3
  <2>4. NoAnswer => NoAnswer'
    BY <2>2 DEF NoAnswer, n
  <2>5. InAnswer => InAnswer'
    <3> SUFFICES ASSUME InAnswer PROVE InAnswer'
      OBVIOUS
    <3>1. n # 1
      BY <2>3 DEF InAnswer, n
    <3>2. n - 1 \in 1..(n - 1) /\ g2h'[n - 1] = g2h[n] /\ Len(g2h') = n - 1
      BY SMT, <2>2, <3>1
    <3>3. g2h' # <<>>
      BY SMT, <2>2, <3>1, EmptyFacts
    <3>4. \A i \in 1..(n - 1) : i < n - 1 => g2h'[i].kind # "TestRunner"
      BY SMT, <2>2 DEF InAnswer, n
    <3>5. QED
      BY <2>1, <3>2, <3>3, <3>4 DEF InAnswer, NoRequest, n
  <2>6. OneCall'
    BY <1>0, <2>1, <2>4, <2>5 DEF OneCall, InChannel, InRequest, InServer, InDone, Nowhere,
       NoRequest
  <2>7. Phases'
    BY <1>0, <2>1, <2>2 DEF Phases, Quiet, n
  <2>8. NoiseFirst'
    <3>1. \A i, j \in 1..(n - 1) : i < j /\ g2h'[i].kind = "Handshake" => g2h'[j].kind # "Noise"
      BY SMT, <1>0, <2>2 DEF NoiseFirst, n
    <3>2. \A j \in 1..(n - 1) : g2h'[j].kind = "TestRunner" =>
            \E i \in 1..(n - 1) : i < j /\ g2h'[i].kind = "Handshake"
      <4> SUFFICES ASSUME NEW j \in 1..(n - 1), g2h'[j].kind = "TestRunner"
                   PROVE  \E i \in 1..(n - 1) : i < j /\ g2h'[i].kind = "Handshake"
        OBVIOUS
      <4>1. PICK i \in 1..n : i < j + 1 /\ g2h[i].kind = "Handshake"
        BY <1>0, <2>1, <2>2 DEF NoiseFirst, n
      <4>2. QED
        BY SMT, <2>3, <4>1, <2>2
    <3>3. ASSUME Announced PROVE Announced'
      <4>1. PICK i \in 1..n : g2h[i].kind = "Handshake"
        BY <2>1, <3>3 DEF Announced, n
      <4>2. i - 1 \in 1..Len(g2h') /\ g2h'[i - 1].kind = "Handshake"
        BY <2>2, <2>3, <4>1
      <4>3. QED
        BY <4>2 DEF Announced
    <3>4. QED
      BY SMT, <1>0, <2>1, <2>2, <3>1, <3>2, <3>3 DEF NoiseFirst
  <2>9. QED
    BY SMT, <2>6, <2>7, <2>8 DEF CalmInv
<1>5. CASE LoadConnected
  <2>1. /\ dec' = IF isConnected THEN "loaded" ELSE "idle"
        /\ UNCHANGED <<mgrVars, shakeOut, fwd, isConnected, fwdRx, h2g, g2h, guestVars>>
    BY <1>5 DEF LoadConnected
  <2>2. OneCall'
    BY <1>0, <2>1, OneCallKept
  <2>3. Phases'
    BY <1>0, <2>1 DEF Phases, Quiet
  <2>4. NoiseFirst'
    BY <1>0, <2>1 DEF NoiseFirst, Announced
  <2>5. QED
    BY SMT, <2>2, <2>3, <2>4 DEF CalmInv
<1>6. CASE Deliver
  <2> DEFINE n == Len(g2h)
  <2>1. /\ dec = "loaded" /\ dec' = "idle" /\ g2h' = Tail(g2h)
        /\ UNCHANGED <<call, out, got, shakeOut, isConnected, h2g, guestVars>>
    BY <1>6 DEF Deliver, DeliverShake, DeliverAnswer, DeliverNoise, Decoded
  <2>2. isConnected /\ g2h # <<>>
    BY <1>0, <2>1 DEF NoiseFirst, Decoding
  <2>3. NoiseFirst'
    BY <2>1, <2>2, CalmRead
  <2>4. /\ n \in Nat /\ n > 0 /\ Len(g2h') = n - 1 /\ Head(g2h) = g2h[1]
        /\ \A i \in 1..(n - 1) : g2h'[i] = g2h[i + 1] /\ i + 1 \in 1..n
    BY <1>0, <2>1, <2>2, TailFacts
  <2> HIDE DEF n
  <2>5. vm = "running" /\ ~(doomed /\ pc # "calling")
    BY <1>0, <2>2 DEF Phases, Quiet, CalmContext, StateTypes
  <2>6. NoAnswer => NoAnswer'
    BY SMT, <2>4 DEF NoAnswer, n
  <2>7. CASE DeliverShake
    <3>1. /\ Head(g2h).kind = "Handshake" /\ fwdRx' = Append(fwdRx, Head(g2h).inst)
          /\ UNCHANGED <<pc, answered, fwd>>
      BY <2>7 DEF DeliverShake
    <3>2. InAnswer => InAnswer'
      <4> SUFFICES ASSUME InAnswer PROVE InAnswer'
        BY SMT
      <4>1. n # 1
        BY <2>4, <3>1 DEF InAnswer, n
      <4>2. n - 1 \in 1..(n - 1) /\ g2h'[n - 1] = g2h[n] /\ Len(g2h') = n - 1
        BY SMT, <2>4, <4>1
      <4>3. g2h' # <<>>
        BY SMT, <2>4, <4>1, EmptyFacts
      <4>4. \A i \in 1..(n - 1) : i < n - 1 => g2h'[i].kind # "TestRunner"
        BY SMT, <2>4 DEF InAnswer, n
      <4>5. QED
        BY <2>1, <4>2, <4>3, <4>4 DEF InAnswer, NoRequest, n
    <3>3. OneCall'
      BY <1>0, <2>1, <2>6, <3>1, <3>2 DEF OneCall, InChannel, InRequest, InServer, InDone,
         Nowhere, NoRequest
    <3>4. Phases'
      BY <1>0, <2>1, <2>2, <2>5, <3>1 DEF Phases
    <3>5. QED
      BY <2>3, <3>3, <3>4 DEF CalmInv
  <2>8. CASE DeliverAnswer
    <3>1. Head(g2h).kind = "TestRunner" /\ UNCHANGED <<fwdRx, fwd>>
      BY <2>8 DEF DeliverAnswer
    <3>2. pc = "calling" /\ InAnswer
      <4>1. ~NoAnswer
        BY SMT, <2>4, <3>1 DEF NoAnswer, n
      <4>2. QED
        BY <1>0, <4>1 DEF OneCall, InChannel, InRequest, InServer, InDone, Nowhere
    <3>3. n = 1
      BY SMT, <2>4, <3>1, <3>2 DEF InAnswer, n
    <3>4. /\ answered' = inst /\ inst # 0
          /\ pc' = IF doomed THEN "replied" ELSE "idle"
      <4>1. g2h[1].ans.id = call.id /\ g2h[1].inst = inst
            /\ (doomed <=> call.op = "reboot" /\ g2h[1].ans.ok)
        BY <3>2, <3>3 DEF InAnswer, n
      <4>2. inst # 0
        BY SMT, <2>5 DEF CalmContext, LinkInv, InstBound, StateTypes
      <4>3. QED
        BY <2>4, <2>8, <3>2, <4>1, <4>2 DEF DeliverAnswer
    <3>5. g2h' = <<>>
      BY SMT, <1>0, <2>1, <2>2, <2>4, <3>3, TailFacts, EmptyFacts
    <3>6. OneCall'
      BY SMT, <2>1, <2>4, <3>2, <3>3, <3>4 DEF OneCall, InAnswer, Nowhere, NoRequest, NoAnswer
    <3>7. Phases'
      BY <1>0, <2>1, <2>2, <2>5, <3>1, <3>4, <3>5 DEF Phases
    <3>8. QED
      BY SMT, <2>3, <3>6, <3>7 DEF CalmInv
  <2>9. CASE DeliverNoise
    BY SMT, <1>0, <2>2, <2>4, <2>9 DEF NoiseFirst, DeliverNoise, n
  <2>10. QED
    BY <1>6, <2>7, <2>8, <2>9 DEF Deliver
<1>7. CASE LinkLost
  BY <1>0, <1>7 DEF LinkLost
<1>8. QED
  BY <1>1, <1>2, <1>3, <1>4, <1>5, <1>6, <1>7 DEF ForwarderNext

(* A frame is appended to the link: behind an answer none is but a later    *)
(* server's, so the link held no answer.                                    *)
LEMMA CalmWrite ==
  ASSUME CalmContext, NEW f \in GuestFrame, g2h' = Append(g2h, f)
  PROVE  /\ Len(g2h) \in Nat /\ Len(g2h') = Len(g2h) + 1 /\ g2h' # <<>>
         /\ \A i \in 1..Len(g2h) : g2h'[i] = g2h[i]
         /\ g2h'[Len(g2h) + 1] = f
         /\ NoAnswer /\ f.kind # "TestRunner" => NoAnswer'
         /\ isConnected' = isConnected /\ Announced => Announced'
<1>1. /\ Len(g2h) \in Nat /\ Len(g2h') = Len(g2h) + 1 /\ g2h' # <<>>
      /\ \A i \in 1..Len(g2h) : g2h'[i] = g2h[i]
      /\ g2h'[Len(g2h) + 1] = f
  <2>1. g2h \in Seq(GuestFrame)
    BY DEF CalmContext, StateTypes
  <2>2. QED
    BY SMT, <2>1, AppendFacts
<1>2. NoAnswer /\ f.kind # "TestRunner" => NoAnswer'
  BY SMT, <1>1 DEF NoAnswer
<1>3. QED
  BY SMT, <1>1, <1>2 DEF Announced

LEMMA CalmGuest == CalmContext /\ GuestNext => CalmInv'
<1> SUFFICES ASSUME CalmContext, GuestNext PROVE CalmInv'
  OBVIOUS
<1> USE DEF mgrVars, fwdVars, guestVars
<1>0. /\ OneCall /\ Phases /\ NoiseFirst /\ Decoding /\ Timely /\ PingBeforeRequest
      /\ h2g \in Seq(HostFrame) /\ g2h \in Seq(GuestFrame) /\ inst \in Nat /\ pending \in Nat
      /\ MaxRestarts = 0 /\ restarts \in Nat
  BY DEF CalmContext, CalmInv, Calm, LinkInv, StateTypes
<1>1. CASE RunnerRecv
  <2> DEFINE n == Len(h2g)
  <2>1. /\ vm = "running" /\ h2g # <<>> /\ h2g' = Tail(h2g)
        /\ UNCHANGED <<mgrVars, fwdVars, g2h, vm, inst, done, doomed, restarts>>
    BY <1>1 DEF RunnerRecv
  <2>2. /\ n \in Nat /\ n > 0 /\ Len(h2g') = n - 1 /\ Head(h2g) = h2g[1]
        /\ \A i \in 1..(n - 1) : h2g'[i] = h2g[i + 1] /\ i + 1 \in 1..n
    BY <1>0, <2>1, TailFacts
  <2> HIDE DEF n
  <2>3. Phases'
    BY <1>0, <2>1 DEF Phases, Quiet
  <2>4. CASE Head(h2g).kind = "Handshake"
    <3>1. pending' = pending + 1 /\ srv' = srv
      BY <1>1, <2>4 DEF RunnerRecv
    <3>2. NoRequest => NoRequest'
      BY <2>2 DEF NoRequest, n
    <3>3. InRequest => InRequest'
      <4> SUFFICES ASSUME InRequest PROVE InRequest'
        OBVIOUS
      <4>1. n # 1
        BY <2>2, <2>4 DEF InRequest, n
      <4>2. n - 1 \in 1..(n - 1) /\ h2g'[n - 1] = h2g[n] /\ Len(h2g') = n - 1
        BY SMT, <2>2, <4>1
      <4>3. h2g' # <<>>
        BY SMT, <2>2, <4>1, EmptyFacts
      <4>4. \A i \in 1..(n - 1) : i < n - 1 => h2g'[i].kind # "TestRunner"
        BY SMT, <2>2 DEF InRequest, n
      <4>5. QED
        BY <2>1, <3>1, <4>2, <4>3, <4>4 DEF InRequest, NoAnswer, n
    <3>4. OneCall'
      BY <1>0, <2>1, <3>1, <3>2, <3>3 DEF OneCall, InChannel, InServer, InDone, InAnswer,
         Nowhere, NoAnswer
    <3>5. pending' > 0
      BY SMT, <1>0, <3>1
    <3>6. NoiseFirst'
      BY SMT, <1>0, <2>1, <3>5 DEF NoiseFirst
    <3>7. QED
      BY <2>3, <3>4, <3>6 DEF CalmInv
  <2>5. CASE Head(h2g).kind # "Handshake"
    <3>1. /\ Head(h2g).kind = "TestRunner" /\ pending' = pending
          /\ srv' = srv \cup {Head(h2g).req}
      BY <1>1, <2>5 DEF RunnerRecv
    <3>2. pc = "calling" /\ InRequest
      <4>1. ~NoRequest
        BY SMT, <2>2, <3>1 DEF NoRequest, n
      <4>2. QED
        BY <1>0, <4>1 DEF OneCall, InChannel, InServer, InDone, InAnswer, Nowhere
    <3>3. n = 1
      BY SMT, <2>2, <3>1, <3>2 DEF InRequest, n
    <3>4. InServer'
      <4>1. NoRequest'
        BY SMT, <2>2, <3>3 DEF NoRequest, n
      <4>2. srv' = {call}
        BY <2>2, <3>1, <3>2, <3>3 DEF InRequest, n
      <4>3. QED
        BY <2>1, <3>2, <4>1, <4>2 DEF InRequest, InServer, NoAnswer
    <3>5. OneCall'
      BY <2>1, <3>2, <3>4 DEF OneCall
    <3>6. \A i \in 1..Len(h2g) : h2g[i].kind # "Handshake"
      BY SMT, <2>2, <2>5, <3>3 DEF n
    <3>7. NoiseFirst'
      BY <1>0, <2>1, <3>1, <3>6 DEF NoiseFirst, Announced
    <3>8. QED
      BY SMT, <2>3, <3>5, <3>7 DEF CalmInv
  <2>6. QED
    BY <2>4, <2>5
<1>2. CASE SendShake
  <2>1. /\ vm = "running" /\ pending > 0 /\ g2h' = Append(g2h, Shake(inst))
        /\ UNCHANGED <<mgrVars, fwdVars, h2g, vm, inst, srv, done, doomed, restarts>>
    BY <1>2 DEF SendShake, ShakeQueued
  <2>2. Shake(inst) \in GuestFrame /\ Shake(inst).kind = "Handshake"
    BY <1>0 DEF Shake, GuestFrame
  <2>3. ~CurrentAnswered
    BY SMT, <1>0, <2>1 DEF PingBeforeRequest
  <2>4. ~InAnswer /\ ~(doomed /\ pc # "calling")
    <3>1. Len(g2h) \in Nat /\ (g2h # <<>> => Len(g2h) \in 1..Len(g2h))
      BY SMT, <1>0, TailFacts
    <3>2. QED
      BY <1>0, <2>3, <3>1 DEF CurrentAnswered, InAnswer, Phases
  <2>5. NoAnswer /\ NoAnswer'
    <3>1. NoAnswer
      BY <1>0, <2>4 DEF OneCall, InChannel, InRequest, InServer, InDone, Nowhere
    <3>2. QED
      BY <2>1, <2>2, <3>1, CalmWrite
  <2>6. OneCall'
    BY <1>0, <2>1, <2>4, <2>5 DEF OneCall, InChannel, InRequest, InServer, InDone, Nowhere,
       NoRequest
  <2>7. Phases'
    BY <1>0, <2>1, <2>4 DEF Phases, Quiet
  <2>8. /\ Len(g2h) \in Nat /\ Len(g2h') = Len(g2h) + 1
        /\ \A i \in 1..Len(g2h) : g2h'[i] = g2h[i]
        /\ g2h'[Len(g2h) + 1].kind = "Handshake"
    BY <2>1, <2>2, CalmWrite
  <2>9. Announced'
    BY SMT, <2>8 DEF Announced
  <2>10. NoiseFirst'
    <3>1. \A i \in 1..Len(g2h') : g2h'[i].kind = "Noise" => i \in 1..Len(g2h)
      BY SMT, <2>8
    <3>2. NoAnswer'
      BY <2>5
    <3>3. QED
      BY SMT, <1>0, <2>1, <2>8, <2>9, <3>1, <3>2 DEF NoiseFirst, NoAnswer
  <2>11. QED
    BY <2>6, <2>7, <2>10 DEF CalmInv
<1>3. ASSUME NEW r \in srv, Serve(r) PROVE CalmInv'
  <2>1. /\ vm = "running" /\ srv' = srv \ {r}
        /\ UNCHANGED <<mgrVars, fwdVars, h2g, g2h, vm, inst, pending, restarts>>
    BY <1>3 DEF Serve
  <2>2. PICK ok \in BOOLEAN : /\ done' = done \cup {[id |-> r.id, ok |-> ok]}
                              /\ doomed' = (doomed \/ (r.op = "reboot" /\ ok))
    BY <1>3 DEF Serve
  <2>3. pc = "calling" /\ InServer
    BY <1>0, <1>3 DEF OneCall, InChannel, InRequest, InDone, InAnswer, Nowhere
  <2>4. r = call /\ srv' = {} /\ done' = {[id |-> call.id, ok |-> ok]}
        /\ (doomed' <=> call.op = "reboot" /\ ok)
    BY <2>1, <2>2, <2>3 DEF InServer
  <2>5. InDone'
    BY <2>1, <2>3, <2>4 DEF InServer, InDone, NoRequest, NoAnswer
  <2>6. OneCall'
    BY <2>1, <2>3, <2>5 DEF OneCall
  <2>7. Phases' /\ NoiseFirst'
    BY SMT, <1>0, <2>1, <2>3 DEF Phases, NoiseFirst, Announced, Quiet
  <2>8. QED
    BY <2>6, <2>7 DEF CalmInv
<1>4. ASSUME NEW a \in done, SendReply(a) PROVE CalmInv'
  <2>1. /\ vm = "running" /\ pending = 0 /\ done' = done \ {a}
        /\ g2h' = Append(g2h, Reply(inst, a))
        /\ UNCHANGED <<mgrVars, fwdVars, h2g, vm, inst, pending, srv, doomed, restarts>>
    BY <1>4 DEF SendReply, ShakeFirst
  <2>2. pc = "calling" /\ InDone
    BY <1>0 DEF OneCall, InChannel, InRequest, InServer, InAnswer, Nowhere
  <2>3. Reply(inst, a) \in GuestFrame
    BY <1>0 DEF Reply, GuestFrame, CalmContext, StateTypes
  <2>4. /\ Reply(inst, a).kind = "TestRunner" /\ Reply(inst, a).inst = inst
        /\ Reply(inst, a).ans = a
    BY DEF Reply
  <2>5. /\ Len(g2h) \in Nat /\ Len(g2h') = Len(g2h) + 1 /\ g2h' # <<>>
        /\ \A i \in 1..Len(g2h) : g2h'[i] = g2h[i]
        /\ g2h'[Len(g2h) + 1] = Reply(inst, a)
        /\ Announced => Announced'
    BY <2>1, <2>3, CalmWrite
  <2>6. InAnswer'
    <3>1. a.id = call.id /\ done' = {} /\ (doomed <=> call.op = "reboot" /\ a.ok)
      BY SMT, <2>1, <2>2 DEF InDone
    <3>2. \A i \in 1..Len(g2h') : i < Len(g2h') => g2h'[i].kind # "TestRunner"
      BY SMT, <2>2, <2>5 DEF InDone, NoAnswer
    <3>3. QED
      BY <2>1, <2>2, <2>4, <2>5, <3>1, <3>2 DEF InDone, InAnswer, NoRequest
  <2>7. OneCall' /\ Phases'
    BY <1>0, <2>1, <2>2, <2>6 DEF OneCall, Phases, Quiet
  <2>8. Announced
    BY SMT, <1>0, <2>1, <2>2 DEF PingBeforeRequest, NoiseFirst
  <2>9. NoiseFirst'
    <3>1. \A i \in 1..Len(g2h') : g2h'[i].kind # "TestRunner" => i \in 1..Len(g2h)
      BY SMT, <2>4, <2>5
    <3>2. ~isConnected => \A j \in 1..Len(g2h') : g2h'[j].kind = "TestRunner" =>
            \E i \in 1..Len(g2h') : i < j /\ g2h'[i].kind = "Handshake"
      <4> SUFFICES ASSUME ~isConnected, NEW j \in 1..Len(g2h'), g2h'[j].kind = "TestRunner"
                   PROVE  \E i \in 1..Len(g2h') : i < j /\ g2h'[i].kind = "Handshake"
        OBVIOUS
      <4>1. j = Len(g2h) + 1
        BY SMT, <2>2, <2>5 DEF InDone, NoAnswer
      <4>2. PICK i \in 1..Len(g2h) : g2h[i].kind = "Handshake"
        BY <2>8 DEF Announced
      <4>3. QED
        BY SMT, <2>5, <4>1, <4>2
    <3>3. \A i, j \in 1..Len(g2h') : i < j /\ g2h'[i].kind = "Handshake" => g2h'[j].kind # "Noise"
      BY <1>0, <2>4, <2>5, <3>1 DEF NoiseFirst
    <3>4. isConnected => \A i \in 1..Len(g2h') : g2h'[i].kind # "Noise"
      BY <1>0, <2>5, <3>1 DEF NoiseFirst
    <3>5. (dec # "idle" => isConnected) /\ Announced' /\ UNCHANGED <<dec, isConnected>>
      BY <1>0, <2>1, <2>5, <2>8 DEF NoiseFirst
    <3>6. QED
      BY <3>2, <3>3, <3>4, <3>5 DEF NoiseFirst
  <2>10. QED
    BY <2>7, <2>9 DEF CalmInv
<1>5. CASE Shutdown
  <2>1. /\ vm = "running" /\ doomed /\ pc \notin {"calling", "replied", "drained"}
        /\ vm' = "off" /\ ~doomed' /\ h2g' = <<>> /\ srv' = {} /\ done' = {}
        /\ UNCHANGED <<mgrVars, fwdVars, g2h, inst, restarts>>
    BY <1>0, <1>5 DEF Shutdown, ShutdownDelay
  <2>2. pc = "waiting" /\ Quiet /\ g2h = <<>> /\ Nowhere
    BY <1>0, <2>1 DEF Phases, OneCall
  <2>3. Len(g2h) = 0 /\ Len(h2g') = 0
    BY <2>1, <2>2, EmptyFacts
  <2>4. OneCall'
    BY <2>1, <2>2, <2>3 DEF OneCall, Nowhere, NoRequest, NoAnswer
  <2>5. Phases'
    BY SMT, <1>0, <2>1, <2>2, <2>3 DEF Phases, Quiet
  <2>6. NoiseFirst'
    BY SMT, <1>0, <2>1, <2>2, <2>3 DEF NoiseFirst, Quiet
  <2>7. QED
    BY SMT, <2>4, <2>5, <2>6 DEF CalmInv
<1>6. CASE ShutdownFails \/ ServerRestart
  BY SMT, <1>0, <1>6 DEF ShutdownFails, ServerRestart
<1>7. CASE Firmware
  <2>1. /\ vm = "off" /\ vm' = "firmware" /\ g2h' \in {g2h, Append(g2h, Noise)}
        /\ UNCHANGED <<mgrVars, fwdVars, h2g, inst, pending, srv, done, doomed, restarts>>
    BY <1>7 DEF Firmware
  <2>2. /\ pc \in {"connecting", "waiting"} /\ Quiet /\ ~doomed /\ Nowhere /\ dec = "idle"
        /\ g2h = <<>>
    BY <1>0, <2>1 DEF Phases, OneCall, NoiseFirst, Quiet, CalmContext, StateTypes
  <2>3. \A i \in 1..Len(g2h') : g2h'[i].kind = "Noise"
    <3>1. g2h' = <<>> \/ g2h' = <<Noise>>
      BY SMT, <2>1, <2>2
    <3>2. QED
      BY SMT, <3>1 DEF Noise
  <2>4. OneCall'
    BY <2>1, <2>2, <2>3 DEF OneCall, Nowhere, NoRequest, NoAnswer
  <2>5. Phases'
    BY <1>0, <2>1, <2>2, <2>3 DEF Phases, Quiet
  <2>6. NoiseFirst'
    BY <2>1, <2>2, <2>3 DEF NoiseFirst, Quiet
  <2>7. QED
    BY SMT, <2>4, <2>5, <2>6 DEF CalmInv
<1>8. CASE RunnerStart
  <2>1. /\ vm = "firmware" /\ vm' = "running" /\ pending' = 1 /\ srv' = {} /\ done' = {}
        /\ h2g' \in {h2g, <<>>} /\ UNCHANGED <<mgrVars, fwdVars, g2h, doomed, restarts>>
    BY <1>8 DEF RunnerStart, FirstShake
  <2>2. pc \in {"connecting", "waiting"} /\ Quiet /\ ~doomed /\ Nowhere
    BY <1>0, <2>1 DEF Phases, OneCall, CalmContext, StateTypes
  <2>3. NoRequest'
    BY SMT, <2>1, <2>2, EmptyFacts DEF Nowhere, NoRequest
  <2>4. OneCall'
    BY <2>1, <2>2, <2>3 DEF OneCall, Nowhere, NoAnswer
  <2>5. Phases'
    BY <1>0, <2>1, <2>2 DEF Phases, Quiet
  <2>6. NoiseFirst'
    BY SMT, <1>0, <2>1 DEF NoiseFirst
  <2>7. QED
    BY SMT, <2>4, <2>5, <2>6 DEF CalmInv
<1>9. QED
  BY <1>1, <1>2, <1>3, <1>4, <1>5, <1>6, <1>7, <1>8 DEF GuestNext

(* A frame leaves the link only when the codec skips or delivers it, and    *)
(* with the call's answer at the head it is delivered to the call.          *)
LEMMA CalmAnswer ==
  ASSUME CalmContext, Next, pc = "calling", g2h # <<>>, Head(g2h).kind = "TestRunner",
         Head(g2h).ans.id = call.id, g2h' = Tail(g2h)
  PROVE  pc' # "calling"
<1> USE DEF mgrVars, fwdVars, guestVars
<1>1. /\ g2h \in Seq(GuestFrame) /\ Head(g2h) = g2h[1] /\ Len(g2h) \in Nat /\ Len(g2h) > 0
      /\ Len(g2h') = Len(g2h) - 1
  BY TailFacts DEF CalmContext, StateTypes
<1> DEFINE n == Len(g2h)
           m == Len(g2h')
<1>11. n \in Nat /\ m = n - 1
  BY <1>1
<1>2. g2h' # g2h
  <2> HIDE DEF n, m
  <2>1. n # m
    BY SMT, <1>11
  <2>2. QED
    BY <2>1, Zenon DEF n, m
<1>3. ASSUME NEW f \in GuestFrame PROVE g2h' # Append(g2h, f)
  <2>1. Len(Append(g2h, f)) = n + 1
    BY SMT, <1>1, AppendFacts
  <2> HIDE DEF n, m
  <2>2. m # n + 1
    BY SMT, <1>11
  <2>3. QED
    BY <2>1, <2>2, Zenon DEF m
<1>4. CASE ManagerNext
  BY <1>2, <1>4 DEF ManagerNext, Call, CallFails, ResetDrain, ResetStore, WaitForServer,
     WaitTimeout, RebootReturns
<1>5. CASE ForwarderNext
  <2>1. isConnected
    <3>1. 1 \in 1..Len(g2h) /\ \A i \in 1..Len(g2h) : ~(i < 1)
      BY SMT, <1>1
    <3>2. QED
      BY <1>1, <3>1 DEF CalmContext, CalmInv, NoiseFirst
  <2>2. Deliver
    BY <1>2, <1>5, <2>1 DEF ForwarderNext, SendPing, SendRequest, SkipNoise, LoadConnected,
       LinkLost
  <2>3. DeliverAnswer
    BY <2>2 DEF Deliver, DeliverShake, DeliverNoise
  <2>4. QED
    BY <2>3 DEF DeliverAnswer
<1>6. CASE GuestNext
  <2>1. ~SendShake /\ ~Firmware /\ \A a \in done : ~SendReply(a)
    <3>1. /\ Shake(inst) \in GuestFrame /\ Noise \in GuestFrame
          /\ \A a \in done : Reply(inst, a) \in GuestFrame
      BY DEF Shake, Noise, Reply, GuestFrame, CalmContext, StateTypes
    <3>2. QED
      BY <1>2, <1>3, <3>1 DEF SendShake, Firmware, SendReply
  <2>2. QED
    BY <1>2, <1>6, <2>1 DEF GuestNext, RunnerRecv, Serve, Shutdown, ShutdownFails,
       RunnerStart, ServerRestart
<1>7. QED
  BY <1>4, <1>5, <1>6 DEF Next

(* What holds of a connection that is calm, for every Timely and            *)
(* MaxRestarts.                                                             *)
CalmIInv == IInv /\ (Calm => CalmInv)

LEMMA CalmStep == CalmIInv /\ [Next]_vars => CalmIInv'
<1> SUFFICES ASSUME CalmIInv, [Next]_vars PROVE CalmIInv'
  OBVIOUS
<1>1. IInv'
  BY IInvStep DEF CalmIInv
<1>2. ASSUME Calm PROVE CalmInv'
  <2>1. CalmContext /\ CalmInv
    BY <1>2 DEF CalmIInv, CalmContext, IInv, TypeOK
  <2>2. CASE Next
    BY <2>1, <2>2, CalmManager, CalmForwarder, CalmGuest DEF Next
  <2>3. CASE UNCHANGED vars
    <3>1. UNCHANGED <<pc, call, out, pending, answered, h2g, g2h, srv, done, doomed, inst,
                      vm, shakeOut, fwd, isConnected, fwdRx, dec>>
      BY <2>3 DEF vars, mgrVars, fwdVars, guestVars
    <3>2. OneCall'
      BY <2>1, <3>1, OneCallKept DEF CalmInv
    <3>3. Phases'
      BY <2>1, <3>1 DEF CalmInv, Phases, Quiet
    <3>4. NoiseFirst'
      BY SMT, <2>1, <3>1 DEF CalmInv, NoiseFirst, Announced
    <3>5. QED
      BY <3>2, <3>3, <3>4 DEF CalmInv
  <2>4. QED
    BY <2>2, <2>3
<1>3. QED
  BY <1>1, <1>2 DEF CalmIInv, Calm

LEMMA CalmIInit == Init => CalmIInv
BY CalmInit, TypeInit, LinkInit, FreshInit DEF IInv, CalmIInv

(* reboot() restores the connection: when it has its handshake, in time and *)
(* with no other restart, the codec is connected and forward_messages runs, *)
(* for any number of RPCs and reboots before it.                            *)
THEOREM RebootLeavesConnected == Spec => []RebootReconnects
<1>1. CalmIInv => RebootReconnects
  BY DEF CalmIInv, Calm, CalmInv, Phases, RebootReconnects
<1>2. QED
  BY <1>1, CalmIInit, CalmStep, PTL DEF Spec

(* No answer is taken for noise: the codec, whose flag reset_connected_state*)
(* clears while it runs, passes every answer an RPC waits for to that RPC.  *)
THEOREM AnswersAreDelivered == Spec => AnswerReachesCaller
<1> DEFINE Lost == /\ Timely /\ MaxRestarts = 0
                   /\ g2h # <<>> /\ Head(g2h).kind = "TestRunner"
                   /\ Head(g2h).ans.id = call.id
                   /\ g2h' = Tail(g2h)
                   /\ pc = "calling"
<1>1. CalmIInv /\ [Next]_vars => [Lost => pc' # "calling"]_vars
  <2> SUFFICES ASSUME CalmIInv, Next, Lost PROVE pc' # "calling"
    OBVIOUS
  <2>1. CalmContext
    BY DEF CalmIInv, Calm, CalmContext, IInv, TypeOK
  <2>2. QED
    BY <2>1, CalmAnswer
<1>2. QED
  BY <1>1, CalmIInit, CalmStep, PTL DEF Spec, AnswerReachesCaller
=============================================================================
