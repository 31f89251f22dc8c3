------------------------ MODULE PacketMonitorProofs ------------------------
(***************************************************************************)
(* For any tests, with probes and packets that come at any time: the       *)
(* result of a monitor has every matching packet that its capture held     *)
(* when it was told to end.  When they come in time, the verdict of every  *)
(* round is about the firewall of that round.                              *)
(***************************************************************************)
EXTENDS PacketMonitor, SequenceTheorems, FiniteSetTheorems, TLAPS

\* Zenon proves most steps; the others name the prover they need.
USE ZenonT(20)

Packets == [to : {"destination"}, round : Nat, protocol : Protocols] \cup {Other}

\* What is due has been read or is still to be read, and has been read when the
\* monitor polls what ends it; a monitor ends by itself, by the signal of a test
\* that sends one, or by the timer of one that does not.
MonitorInv ==
    /\ script \in Scripts
    /\ wire \subseteq Packets
    /\ queue \in Seq(Packets) /\ packets \in Seq(Packets)
    /\ mpc \in {"off", "packet", "stop", "timer", "asleep", "done", "lost"}
    /\ stop => script.stops
    /\ timer => ~script.stops
    /\ due \subseteq Matching(packets) \cup Matching(queue)
    /\ Polling => due \subseteq Matching(packets)
    /\ mpc = "done" =>
        \/ Len(packets) = script.stopAfter
        \/ (stop \/ timer) /\ due \subseteq Matching(packets)

----------------------------------------------------------------------------
(* Reading a queue *)

LEMMA MatchingEmpty == Matching(<<>>) = {}
  BY SMT DEF Matching

LEMMA MatchingAppend ==
    ASSUME NEW s \in Seq(Packets), NEW pkt \in Packets
    PROVE /\ Matching(s) \subseteq Matching(Append(s, pkt))
          /\ Matches(pkt) => pkt \in Matching(Append(s, pkt))
<1> DEFINE t == Append(s, pkt)
<1>1. t \in Seq(Packets) /\ Len(t) = Len(s) + 1 /\ t[Len(s) + 1] = pkt
      /\ \A i \in 1..Len(s) : t[i] = s[i]
  BY SMT
<1>2. DOMAIN s = 1..Len(s) /\ DOMAIN t = 1..(Len(s) + 1) /\ Len(s) \in Nat
  BY SMT, <1>1
<1> HIDE DEF t
<1>3. Matching(s) \subseteq Matching(t)
  BY SMT, <1>1, <1>2 DEF Matching
<1>4. Matches(pkt) => pkt \in Matching(t)
  BY SMT, <1>1, <1>2 DEF Matching
<1> QED
  BY <1>3, <1>4 DEF t

LEMMA MatchingTail ==
    ASSUME NEW s \in Seq(Packets), s # <<>>
    PROVE /\ Matching(s) \subseteq Matching(Tail(s)) \cup {Head(s)}
          /\ ~Matches(Head(s)) => Matching(s) \subseteq Matching(Tail(s))
<1> DEFINE t == Tail(s)
<1>1. t \in Seq(Packets) /\ Len(t) = Len(s) - 1 /\ Head(s) = s[1] /\ Len(s) \in Nat \ {0}
      /\ \A i \in 1..Len(t) : t[i] = s[i + 1]
  BY SMT
<1> HIDE DEF t
<1>2. DOMAIN s = 1..Len(s) /\ DOMAIN t = 1..(Len(s) - 1)
  BY SMT, <1>1
<1>3. ASSUME NEW i \in DOMAIN s, Matches(s[i]), i # 1
      PROVE s[i] \in Matching(t)
  <2>1. i - 1 \in DOMAIN t /\ t[i - 1] = s[i]
    BY SMT, <1>1, <1>2, <1>3
  <2> QED
    BY <1>3, <2>1 DEF Matching
<1> QED
  BY SMT, <1>1, <1>3 DEF Matching, t

----------------------------------------------------------------------------

LEMMA MonitorInit == Init => MonitorInv
  BY SMT, MatchingEmpty DEF Init, MonitorInv, Polling

\* A packet reaches the bridge.
LEMMA ArriveStep ==
    ASSUME MonitorInv, NEW pkt \in Packets, Arrive(pkt), wire' \subseteq wire,
           UNCHANGED <<script, packets, mpc, stop, timer, due>>
    PROVE MonitorInv'
<1>1. queue' \in Seq(Packets) /\ Matching(queue) \subseteq Matching(queue')
  BY SMT, MatchingAppend DEF Arrive, MonitorInv
<1>2. Matching(packets') = Matching(packets)
  OBVIOUS
<1> QED
  BY <1>1, <1>2 DEF MonitorInv, Polling

LEMMA PollPacketStep == MonitorInv /\ PollPacket => MonitorInv'
<1> SUFFICES ASSUME MonitorInv, PollPacket
             PROVE MonitorInv'
  OBVIOUS
<1> DEFINE pkt == Head(queue)
<1>1. /\ queue \in Seq(Packets) /\ queue # <<>> /\ packets \in Seq(Packets)
      /\ pkt \in Packets /\ Tail(queue) \in Seq(Packets) /\ queue' = Tail(queue)
  BY SMT DEF PollPacket, MonitorInv
<1>2. mpc = "packet" /\ UNCHANGED <<script, wire, stop, timer, due>>
  BY DEF PollPacket, network
<1> HIDE DEF pkt
<1>3. CASE Matches(pkt)
  <2>1. /\ packets' = Append(packets, pkt)
        /\ mpc' = IF Len(packets) + 1 = script.stopAfter THEN "done" ELSE "packet"
    BY <1>3 DEF PollPacket, pkt
  <2>2. packets' \in Seq(Packets) /\ Len(packets') = Len(packets) + 1
    BY SMT, <1>1, <2>1
  <2>3. Matching(packets) \subseteq Matching(packets') /\ pkt \in Matching(packets')
    BY <1>1, <1>3, <2>1, MatchingAppend
  <2>4. Matching(queue) \subseteq Matching(queue') \cup {pkt}
    BY <1>1, MatchingTail DEF pkt
  <2> QED
    BY <1>1, <1>2, <2>1, <2>2, <2>3, <2>4 DEF MonitorInv, Polling
<1>4. CASE ~Matches(pkt)
  <2>1. UNCHANGED <<packets, mpc>>
    BY <1>4 DEF PollPacket, pkt
  <2>2. Matching(queue) \subseteq Matching(queue')
    BY <1>1, <1>4, MatchingTail DEF pkt
  <2>3. Matching(packets') = Matching(packets)
    BY <2>1
  <2> QED
    BY <1>1, <1>2, <2>1, <2>2, <2>3 DEF MonitorInv, Polling
<1> QED
  BY <1>3, <1>4

\* A step that leaves alone what was captured.
LEMMA CaptureKept ==
    ASSUME MonitorInv, wire' \subseteq Packets,
           UNCHANGED <<script, queue, packets, mpc, stop, timer, due>>
    PROVE MonitorInv'
  BY DEF MonitorInv, Polling

LEMMA MonitorStep == MonitorInv /\ [Next]_vars => MonitorInv'
<1> SUFFICES ASSUME MonitorInv, [Next]_vars
             PROVE MonitorInv'
  OBVIOUS
<1>1. CASE Open \/ Finish \/ Panics
  <2>1. /\ UNCHANGED <<script, wire>> /\ mpc' \in {"packet", "off"}
        /\ queue' = <<>> /\ packets' = <<>> /\ ~stop' /\ ~timer' /\ due' = {}
    BY <1>1 DEF Open, Finish, Panics, Forget, network
  <2> QED
    BY SMT, <2>1 DEF MonitorInv, Polling
<1>2. CASE Started \/ SpawnProbes \/ Finished \/ UNCHANGED vars
  BY <1>2, CaptureKept DEF Started, SpawnProbes, Finished, vars, network, monitor, MonitorInv
<1>3. CASE Stop
  BY <1>3 DEF Stop, StopSignal, Captured, network, monitor, MonitorInv, Polling
<1>4. CASE TimerFires
  BY <1>4 DEF TimerFires, Captured, network, monitor, MonitorInv, Polling
<1>5. CASE \E r \in Rounds, p \in Protocols : SendProbe(r, p) \/ ProbeFails(r, p)
  <2>1. PICK r \in Rounds, p \in Protocols : SendProbe(r, p) \/ ProbeFails(r, p)
    BY <1>5
  <2>2. script.open \in Seq(BOOLEAN)
    BY MonitorAssumption DEF MonitorInv
  <2>3. Packet(r, p) \in Packets
    BY SMT, <2>1, <2>2 DEF Packet, Packets, Rounds
  <2>4. wire' \subseteq Packets
    BY <2>1, <2>3 DEF SendProbe, ProbeFails, MonitorInv
  <2> QED
    BY <2>1, <2>4, CaptureKept DEF SendProbe, ProbeFails, monitor
<1>6. CASE Bridge
  BY <1>6, ArriveStep DEF Bridge, monitor, MonitorInv
<1>7. CASE BridgeOther
  BY <1>7, ArriveStep DEF BridgeOther, monitor, MonitorInv, Packets
<1>8. CASE PollPacket
  BY <1>8, PollPacketStep
<1>9. CASE NoPacket
  BY <1>9, MatchingEmpty DEF NoPacket, network, MonitorInv, Polling
<1>10. CASE PollStop \/ PollTimer
  BY SMT, <1>10 DEF PollStop, PollTimer, network, MonitorInv, Polling
<1>11. CASE Wake
  BY <1>11 DEF Wake, WakeTo, network, MonitorInv, Polling
<1>12. CASE LostStream
  <2>1. UNCHANGED <<script, wire, queue, packets, stop, timer, due>> /\ mpc' = "lost"
    BY <1>12 DEF LostStream, network
  <2> QED
    BY <2>1 DEF MonitorInv, Polling
<1> QED
  BY <1>1, <1>2, <1>3, <1>4, <1>5, <1>6, <1>7, <1>8, <1>9, <1>10, <1>11, <1>12
     DEF Next, Monitor

\* Whatever the test, and however packets, probes and polls interleave, nothing
\* captured before the stop signal or the timeout is missing from the result of
\* a monitor that was not content earlier (network_monitor.rs 270-310).
THEOREM ResultIsWhole == Spec => []NothingMissed
<1>1. MonitorInv => NothingMissed
  BY DEF MonitorInv, NothingMissed
<1> QED
  BY <1>1, MonitorInit, MonitorStep, PTL DEF Spec

----------------------------------------------------------------------------
(* The verdict of a round *)

Probes == [to : {"destination"}, round : Nat, protocol : Protocols]
ProbeStates == {"none", "rpc", "sent", "failed", "aborted"}

RoundsInv ==
    /\ round \in Nat \ {0} /\ results \in Seq([Protocols -> Nat]) /\ Len(results) = round - 1
    /\ probe \in [Rounds \X Protocols -> ProbeStates]
    /\ cpc \in {"start", "address", "wait"} => round \in Rounds /\ mpc # "off"
    /\ cpc = "open" => mpc = "off"

Judged(r) == IF script.open[r] THEN All(results[r]) ELSE None(results[r])

\* With probes and packets that come in time: a round begins with nothing under
\* way; behind a closed firewall there is nothing to see; behind an open one a
\* probe that was sent is on its way, captured or read, and when the monitor
\* is told to end, all three are due.
TimelyInv ==
    /\ wire \subseteq Probes
    /\ ~FirewallOpen => wire = {} /\ packets = <<>> /\ Matching(queue) = {}
    /\ cpc # "wait" => wire = {} /\ ~stop /\ ~timer
    /\ \A i \in Rounds \X Protocols : probe[i] = "rpc" => cpc = "wait" /\ i[1] = round
    /\ cpc = "wait" /\ FirewallOpen =>
        \A p \in Protocols : probe[<<round, p>>] = "sent" =>
            Packet(round, p) \in wire \cup Matching(queue) \cup Matching(packets)
    /\ stop \/ timer =>
        /\ wire = {}
        /\ \A p \in Protocols : probe[<<round, p>>] = "sent"
        /\ FirewallOpen => \A p \in Protocols : Packet(round, p) \in due
    /\ mpc = "done" => (stop \/ timer) /\ due \subseteq Matching(packets)
    /\ mpc # "lost"
    /\ \A r \in 1..Len(results) : Judged(r)

\* A test that has lost its capture gets no more results.
Lost == mpc = "lost" \/ cpc = "panicked"
LostInv == Lost /\ \A r \in 1..Len(results) : Judged(r)

VerdictInv == RoundsInv /\ (script.timely => TimelyInv \/ LostInv)

LEMMA MatchingLess ==
    ASSUME NEW s \in Seq(Packets)
    PROVE /\ s # <<>> => Matching(Tail(s)) \subseteq Matching(s)
          /\ Matching(Append(s, Other)) \subseteq Matching(s)
<1>1. ASSUME s # <<>>
      PROVE Matching(Tail(s)) \subseteq Matching(s)
  <2> DEFINE t == Tail(s)
  <2>1. Len(t) = Len(s) - 1 /\ Len(s) \in Nat \ {0} /\ \A i \in 1..Len(t) : t[i] = s[i + 1]
    BY SMT, <1>1
  <2>2. DOMAIN s = 1..Len(s) /\ DOMAIN t = 1..Len(t)
    BY SMT, <1>1
  <2> HIDE DEF t
  <2>3. \A i \in DOMAIN t : i + 1 \in DOMAIN s /\ t[i] = s[i + 1]
    BY SMT, <2>1, <2>2
  <2>4. Matching(t) \subseteq Matching(s)
    BY <2>3 DEF Matching
  <2> QED
    BY <2>4 DEF t
<1>2. Matching(Append(s, Other)) \subseteq Matching(s)
  <2> DEFINE t == Append(s, Other)
  <2>1. /\ Len(t) = Len(s) + 1 /\ Len(s) \in Nat /\ t[Len(s) + 1] = Other
        /\ \A i \in 1..Len(s) : t[i] = s[i]
    BY SMT
  <2>2. DOMAIN s = 1..Len(s) /\ DOMAIN t = 1..Len(t)
    BY SMT
  <2> HIDE DEF t
  <2>3. \A i \in DOMAIN t : (i \in DOMAIN s /\ t[i] = s[i]) \/ t[i] = Other
    BY SMT, <2>1, <2>2
  <2>4. Matching(t) \subseteq Matching(s)
    BY SMT, <2>3 DEF Matching, Matches, Other
  <2> QED
    BY <2>4 DEF t
<1> QED
  BY <1>1, <1>2

\* What is counted of a result: nothing if it has no packet, and a protocol of
\* which it has one.
LEMMA CountPackets ==
    ASSUME NEW pkts \in Seq(Packets)
    PROVE /\ Count(pkts) \in [Protocols -> Nat]
          /\ pkts = <<>> => None(Count(pkts))
          /\ \A r \in Nat, p \in Protocols :
                Packet(r, p) \in Matching(pkts) => Count(pkts)[p] > 0
<1> DEFINE of(p) == {i \in DOMAIN pkts : pkts[i].protocol = p}
<1>1. DOMAIN pkts = 1..Len(pkts) /\ Len(pkts) \in Nat
  BY SMT
<1>2. IsFiniteSet(DOMAIN pkts)
  BY SMT, <1>1, FS_Interval
<1>3. ASSUME NEW p \in Protocols
      PROVE IsFiniteSet(of(p)) /\ Cardinality(of(p)) \in Nat
  <2>1. of(p) \in SUBSET DOMAIN pkts
    OBVIOUS
  <2> QED
    BY <1>2, <2>1, FS_Subset, FS_CardinalityType
<1>4. Count(pkts) = [p \in Protocols |-> Cardinality(of(p))]
  BY DEF Count
<1>5. ASSUME pkts = <<>>, NEW p \in Protocols
      PROVE Cardinality(of(p)) = 0
  <2>1. of(p) = {}
    BY SMT, <1>5
  <2> QED
    BY <2>1, FS_EmptySet
<1>6. ASSUME NEW r \in Nat, NEW p \in Protocols, Packet(r, p) \in Matching(pkts)
      PROVE Cardinality(of(p)) > 0
  <2>1. PICK i \in DOMAIN pkts : pkts[i] = Packet(r, p)
    BY <1>6 DEF Matching
  <2>2. i \in of(p)
    BY SMT, <2>1 DEF Packet
  <2> HIDE DEF of
  <2>3. Cardinality(of(p)) # 0
    BY <1>3, <2>2, FS_EmptySet
  <2> QED
    BY SMT, <1>3, <2>3
<1> HIDE DEF of
<1> QED
  BY <1>3, <1>4, <1>5, <1>6 DEF None

LEMMA VerdictInit == Init => VerdictInv
<1> SUFFICES ASSUME Init
             PROVE VerdictInv
  OBVIOUS
<1>1. script.open \in Seq(BOOLEAN) /\ round = 1
  BY MonitorAssumption DEF Init
<1>2. probe \in [Rounds \X Protocols -> ProbeStates] /\ \A i \in Rounds \X Protocols : probe[i] = "none"
  BY DEF Init, ProbeStates
<1>3. RoundsInv
  BY SMT, <1>1, <1>2 DEF Init, RoundsInv
<1>4. TimelyInv
  BY SMT, <1>2, MatchingEmpty DEF Init, TimelyInv
<1> QED
  BY <1>3, <1>4 DEF VerdictInv

LEMMA ScriptKept == [Next]_vars => script' = script
  BY DEF Next, Open, Started, SpawnProbes, Stop, Finish, SendProbe, ProbeFails, Bridge,
     BridgeOther, Monitor, PollPacket, NoPacket, PollStop, PollTimer, Wake, LostStream, TimerFires, Panics,
     Finished, vars

\* Only a test that begins a round has no monitor.
LEMMA RoundsStep ==
    ASSUME MonitorInv, RoundsInv, [Next]_vars
    PROVE RoundsInv'
<1>0. script' = script /\ Rounds' = Rounds
  BY ScriptKept DEF Rounds
<1> USE DEF ProbeStates
<1>1. CASE Open
  BY <1>0, <1>1 DEF Open, RoundsInv, network
<1>2. CASE Started \/ Stop \/ Bridge \/ BridgeOther \/ TimerFires \/ Finished \/ UNCHANGED vars
  <2>1. UNCHANGED <<round, results, probe, mpc>>
        /\ (cpc' = cpc \/ (cpc = "start" /\ cpc' = "address"))
    BY <1>2 DEF Started, Stop, Bridge, BridgeOther, TimerFires, Finished, vars, network, monitor
  <2> QED
    BY <1>0, <2>1 DEF RoundsInv
<1>3. CASE SpawnProbes
  <2>1. /\ UNCHANGED <<round, results, mpc>> /\ cpc = "address" /\ cpc' = "wait"
        /\ probe' = [i \in DOMAIN probe |-> IF i[1] = round THEN "rpc" ELSE probe[i]]
    BY <1>3 DEF SpawnProbes, monitor
  <2>2. probe' \in [Rounds \X Protocols -> ProbeStates]
    BY <2>1 DEF RoundsInv
  <2> QED
    BY <1>0, <2>1, <2>2 DEF RoundsInv
<1>4. CASE Finish
  <2>1. /\ results' = Append(results, Count(packets)) /\ round' = round + 1
        /\ cpc' \in {"open", "end"} /\ mpc' = "off"
        /\ probe' = [i \in DOMAIN probe |->
                        IF Aborts(i) /\ probe[i] = "rpc" THEN "aborted" ELSE probe[i]]
    BY <1>4 DEF Finish
  <2>2. Count(packets) \in [Protocols -> Nat]
    BY CountPackets DEF MonitorInv
  <2>3. probe' \in [Rounds \X Protocols -> ProbeStates]
    BY <2>1 DEF RoundsInv
  <2>4. results' \in Seq([Protocols -> Nat]) /\ Len(results') = Len(results) + 1
    BY SMT, <2>1, <2>2 DEF RoundsInv
  <2> QED
    BY SMT, <1>0, <2>1, <2>3, <2>4 DEF RoundsInv
<1>5. CASE \E r \in Rounds, p \in Protocols : SendProbe(r, p) \/ ProbeFails(r, p)
  <2>1. PICK r \in Rounds, p \in Protocols : SendProbe(r, p) \/ ProbeFails(r, p)
    BY <1>5
  <2>2. /\ UNCHANGED <<round, cpc, results, mpc>>
        /\ \E st \in {"sent", "failed"} : probe' = [probe EXCEPT ![<<r, p>>] = st]
    BY <2>1 DEF SendProbe, ProbeFails, monitor
  <2>3. probe' \in [Rounds \X Protocols -> ProbeStates]
    BY <2>2 DEF RoundsInv
  <2> QED
    BY <1>0, <2>2, <2>3 DEF RoundsInv
<1>6. CASE Monitor
  <2>1. UNCHANGED <<round, cpc, results, probe>> /\ mpc' # "off" /\ mpc # "off"
    BY <1>6 DEF Monitor, PollPacket, NoPacket, PollStop, PollTimer, Wake, WakeTo, network
  <2> QED
    BY <1>0, <2>1 DEF RoundsInv
<1>7. CASE Panics \/ LostStream
  <2>1. /\ UNCHANGED <<round, results, probe>>
        /\ cpc' = "panicked" \/ (cpc' = cpc /\ mpc # "off" /\ mpc' # "off")
    BY <1>7 DEF Panics, LostStream, network
  <2> QED
    BY <1>0, <2>1 DEF RoundsInv
<1> QED
  BY <1>1, <1>2, <1>3, <1>4, <1>5, <1>6, <1>7 DEF Next

----------------------------------------------------------------------------
(* The steps of a round in time *)

Timely == script.timely /\ MonitorInv /\ RoundsInv /\ TimelyInv

LEMMA RoundKept ==
    UNCHANGED <<script, round, results>> =>
        UNCHANGED <<FirewallOpen, Rounds>> /\ \A r : Judged(r)' <=> Judged(r)
  BY DEF FirewallOpen, Rounds, Judged

LEMMA OpenStep == ASSUME Timely, Open PROVE TimelyInv'
<1>1. /\ UNCHANGED <<script, round, probe, wire, results>> /\ cpc = "open" /\ cpc' = "start"
      /\ mpc' = "packet" /\ queue' = <<>> /\ packets' = <<>> /\ ~stop' /\ ~timer'
  BY DEF Open, Forget, network
<1>2. UNCHANGED <<FirewallOpen, Rounds>> /\ \A r : Judged(r)' <=> Judged(r)
  BY <1>1, RoundKept
<1> QED
  BY <1>1, <1>2, MatchingEmpty DEF Timely, TimelyInv

LEMMA StartedStep == ASSUME Timely, Started PROVE TimelyInv'
<1>1. /\ UNCHANGED <<script, round, network, monitor, queue, stop, timer, due, results>>
      /\ cpc = "start" /\ cpc' = "address"
  BY DEF Started
<1>2. UNCHANGED <<FirewallOpen, Rounds>> /\ \A r : Judged(r)' <=> Judged(r)
  BY <1>1, RoundKept
<1> QED
  BY <1>1, <1>2 DEF Timely, TimelyInv, network, monitor

LEMMA SpawnProbesStep == ASSUME Timely, SpawnProbes PROVE TimelyInv'
<1>1. /\ UNCHANGED <<script, round, wire, monitor, queue, stop, timer, due, results>>
      /\ cpc = "address" /\ cpc' = "wait"
      /\ probe' = [i \in Rounds \X Protocols |-> IF i[1] = round THEN "rpc" ELSE probe[i]]
  BY DEF SpawnProbes, Timely, RoundsInv
<1>2. UNCHANGED <<FirewallOpen, Rounds>> /\ \A r : Judged(r)' <=> Judged(r)
  BY <1>1, RoundKept
<1>3. round \in Rounds
  BY <1>1 DEF Timely, RoundsInv
<1>4. \A p \in Protocols : probe'[<<round, p>>] = "rpc"
  BY <1>1, <1>3
<1>5. \A i \in Rounds \X Protocols : probe'[i] = "rpc" => i[1] = round
  BY <1>1 DEF Timely, TimelyInv
<1> QED
  BY <1>1, <1>2, <1>4, <1>5 DEF Timely, TimelyInv, monitor

\* The monitor is told to end when everything has arrived.
LEMMA SignalStep == ASSUME Timely, Stop \/ TimerFires PROVE TimelyInv'
<1>1. /\ UNCHANGED <<script, round, cpc, network, monitor, queue, results>>
      /\ AllArrived /\ mpc # "off"
      /\ due' = (IF stop \/ timer THEN due ELSE Captured)
  BY DEF Stop, TimerFires, Timely, MonitorInv, RoundsInv, AllArrived
<1>2. UNCHANGED <<FirewallOpen, Rounds>> /\ \A r : Judged(r)' <=> Judged(r)
  BY <1>1, RoundKept
<1>3. mpc # "done"
  BY <1>1 DEF Stop, TimerFires, Timely, TimelyInv, MonitorInv
<1>4. FirewallOpen => \A p \in Protocols : Packet(round, p) \in due'
  BY <1>1 DEF AllArrived, Captured, Timely, TimelyInv
<1>5. wire = {} /\ cpc = "wait" /\ \A p \in Protocols : probe[<<round, p>>] = "sent"
  BY <1>1 DEF AllArrived
<1> QED
  BY <1>1, <1>2, <1>3, <1>4, <1>5 DEF Timely, TimelyInv, network, monitor

LEMMA FinishStep == ASSUME Timely, Finish PROVE TimelyInv'
<1>1. /\ UNCHANGED <<script, wire>> /\ cpc = "wait" /\ cpc' # "wait" /\ round' = round + 1
      /\ mpc = "done" /\ mpc' = "off" /\ queue' = <<>> /\ packets' = <<>> /\ ~stop' /\ ~timer'
      /\ results' = Append(results, Count(packets))
      /\ probe' = [i \in Rounds \X Protocols |->
                      IF Aborts(i) /\ probe[i] = "rpc" THEN "aborted" ELSE probe[i]]
  BY DEF Finish, Forget, Timely, RoundsInv
<1>2. /\ round \in Rounds /\ round \in Nat \ {0}
      /\ results \in Seq([Protocols -> Nat]) /\ Len(results) = round - 1
  BY <1>1 DEF Timely, RoundsInv
<1>3. /\ wire = {} /\ \A p \in Protocols : probe[<<round, p>>] = "sent"
      /\ FirewallOpen => \A p \in Protocols : Packet(round, p) \in Matching(packets)
      /\ ~FirewallOpen => packets = <<>>
  BY <1>1 DEF Timely, TimelyInv
<1>4. packets \in Seq(Packets)
  BY DEF Timely, MonitorInv
<1>5. IF script.open[round] THEN All(Count(packets)) ELSE None(Count(packets))
  BY <1>2, <1>3, <1>4, CountPackets DEF All, FirewallOpen
<1>6. Count(packets) \in [Protocols -> Nat]
  BY <1>4, CountPackets
<1>7. /\ Len(results') = round /\ results'[round] = Count(packets)
      /\ \A r \in 1..(round - 1) : results'[r] = results[r]
  BY SMT, <1>1, <1>2, <1>6
<1>8. ASSUME NEW r \in 1..round
      PROVE Judged(r)'
  <2>1. CASE r = round
    BY <1>1, <1>5, <1>7, <2>1 DEF Judged
  <2>2. CASE r # round
    <3>1. r \in 1..Len(results) /\ results'[r] = results[r]
      BY SMT, <1>2, <1>7, <2>2
    <3>2. Judged(r)
      BY <3>1 DEF Timely, TimelyInv
    <3> QED
      BY <1>1, <3>1, <3>2 DEF Judged
  <2> QED
    BY <2>1, <2>2
<1>9. \A i \in Rounds \X Protocols : probe'[i] # "rpc"
  <2> SUFFICES ASSUME NEW i \in Rounds \X Protocols, probe'[i] = "rpc"
               PROVE FALSE
    OBVIOUS
  <2>1. probe[i] = "rpc"
    BY <1>1
  <2>2. i[1] = round /\ i = <<i[1], i[2]>> /\ i[2] \in Protocols
    BY SMT, <2>1 DEF Timely, TimelyInv
  <2> QED
    BY <1>3, <2>1, <2>2
<1>10. Rounds' = Rounds
  BY <1>1 DEF Rounds
<1> QED
  BY <1>1, <1>3, <1>7, <1>8, <1>9, <1>10, MatchingEmpty DEF TimelyInv

LEMMA SendProbeStep ==
    ASSUME Timely, NEW r \in Rounds, NEW p \in Protocols, SendProbe(r, p) \/ ProbeFails(r, p)
    PROVE TimelyInv'
<1>1. /\ UNCHANGED <<script, round, cpc, monitor, queue, stop, timer, due, results>>
      /\ probe[<<r, p>>] = "rpc" /\ probe' = [probe EXCEPT ![<<r, p>>] = "sent"]
      /\ wire' = IF FirewallOpen THEN wire \cup {Packet(r, p)} ELSE wire
  BY DEF SendProbe, ProbeFails, Timely
<1>2. UNCHANGED <<FirewallOpen, Rounds>> /\ \A q : Judged(q)' <=> Judged(q)
  BY <1>1, RoundKept
<1>3. <<r, p>> \in Rounds \X Protocols /\ <<r, p>>[1] = r
  OBVIOUS
<1>4. cpc = "wait" /\ r = round /\ ~(stop \/ timer)
  BY <1>1, <1>3 DEF Timely, TimelyInv
<1>5. Packet(r, p) \in Probes
  BY <1>4 DEF Packet, Probes, Timely, RoundsInv
<1>6. \A i \in Rounds \X Protocols : probe'[i] = IF i = <<r, p>> THEN "sent" ELSE probe[i]
  BY <1>1, <1>3 DEF Timely, RoundsInv
<1>7. ASSUME FirewallOpen, NEW q \in Protocols, probe'[<<round, q>>] = "sent"
      PROVE Packet(round, q) \in wire' \cup Matching(queue) \cup Matching(packets)
  <2>1. CASE q = p
    BY <1>1, <1>4, <1>7, <2>1
  <2>2. CASE q # p
    <3>1. probe[<<round, q>>] = "sent"
      BY <1>4, <1>6, <1>7, <2>2
    <3> QED
      BY <1>1, <1>4, <1>7, <3>1 DEF Timely, TimelyInv
  <2> QED
    BY <2>1, <2>2
<1>8. \A i \in Rounds \X Protocols : probe'[i] = "rpc" => i[1] = round
  BY <1>6 DEF Timely, TimelyInv
<1>9. wire' \subseteq Probes /\ (~FirewallOpen => wire' = wire)
  BY <1>1, <1>5 DEF Timely, TimelyInv
<1> QED
  BY <1>1, <1>2, <1>4, <1>7, <1>8, <1>9 DEF Timely, TimelyInv, monitor

\* While a packet is on its way the monitor was not told to end: its capture
\* gets the packet.
LEMMA BridgeStep == ASSUME Timely, Bridge PROVE TimelyInv'
<1>1. PICK pkt \in wire : Arrive(pkt) /\ wire' = wire \ {pkt}
  BY DEF Bridge
<1>2. UNCHANGED <<script, round, cpc, probe, monitor, stop, timer, due, results>>
  BY DEF Bridge
<1>3. UNCHANGED <<FirewallOpen, Rounds>> /\ \A r : Judged(r)' <=> Judged(r)
  BY <1>2, RoundKept
<1>4. cpc = "wait" /\ ~stop /\ ~timer /\ FirewallOpen
  BY DEF Timely, TimelyInv
<1>5. mpc \notin {"off", "done", "lost"}
  BY <1>4 DEF Timely, TimelyInv, RoundsInv
<1>6. queue' = Append(queue, pkt)
  BY <1>1, <1>5 DEF Arrive
<1>7. pkt \in Packets /\ Matches(pkt) /\ queue \in Seq(Packets)
  BY DEF Timely, TimelyInv, MonitorInv, Probes, Matches
<1>8. Matching(queue) \subseteq Matching(queue') /\ pkt \in Matching(queue')
  BY <1>6, <1>7, MatchingAppend
<1> QED
  BY <1>1, <1>2, <1>3, <1>4, <1>5, <1>8 DEF Timely, TimelyInv, monitor

LEMMA BridgeOtherStep == ASSUME Timely, BridgeOther PROVE TimelyInv'
<1>1. /\ UNCHANGED <<script, round, cpc, probe, wire, monitor, stop, timer, due, results>>
      /\ queue' = queue \/ queue' = Append(queue, Other)
  BY DEF BridgeOther, Arrive
<1>2. UNCHANGED <<FirewallOpen, Rounds>> /\ \A r : Judged(r)' <=> Judged(r)
  BY <1>1, RoundKept
<1>3. queue \in Seq(Packets) /\ Other \in Packets
  BY DEF Timely, MonitorInv, Packets
<1>4. Matching(queue') = Matching(queue)
  <2>1. CASE queue' = queue
    BY <2>1
  <2>2. CASE queue' = Append(queue, Other)
    BY <1>3, <2>2, MatchingAppend, MatchingLess
  <2> QED
    BY <1>1, <2>1, <2>2
<1> QED
  BY <1>1, <1>2, <1>4 DEF Timely, TimelyInv, monitor

LEMMA ReadStep == ASSUME Timely, PollPacket PROVE TimelyInv'
<1> DEFINE pkt == Head(queue)
<1>1. /\ UNCHANGED <<script, round, cpc, network, stop, timer, due, results>>
      /\ mpc = "packet" /\ queue # <<>> /\ queue' = Tail(queue)
  BY DEF PollPacket
<1>2. UNCHANGED <<FirewallOpen, Rounds>> /\ \A r : Judged(r)' <=> Judged(r)
  BY <1>1, RoundKept
<1>3. queue \in Seq(Packets) /\ packets \in Seq(Packets)
  BY DEF Timely, MonitorInv
<1>4. pkt \in Packets
  BY SMT, <1>1, <1>3
<1>5. Matching(queue') \subseteq Matching(queue) /\ Matching(queue) \subseteq Matching(queue') \cup {pkt}
  BY <1>1, <1>3, MatchingLess, MatchingTail
<1> HIDE DEF pkt
<1>6. CASE Matches(pkt)
  <2>1. /\ packets' = Append(packets, pkt)
        /\ mpc' = IF Len(packets) + 1 = script.stopAfter THEN "done" ELSE "packet"
    BY <1>6 DEF PollPacket, pkt
  <2>2. Len(packets) \in Nat /\ script.stopAfter = 0
    BY SMT, <1>3, ProbesAssumption DEF Timely, MonitorInv
  <2>3. mpc' = "packet"
    BY SMT, <2>1, <2>2
  <2>4. Matching(packets) \subseteq Matching(packets') /\ pkt \in Matching(packets')
    BY <1>3, <1>4, <1>6, <2>1, MatchingAppend
  <2>5. FirewallOpen
    <3>1. pkt \in Matching(queue)
      BY SMT, <1>1, <1>3, <1>6 DEF Matching, pkt
    <3> QED
      BY <3>1 DEF Timely, TimelyInv
  <2> QED
    BY <1>1, <1>2, <1>5, <2>3, <2>4, <2>5 DEF Timely, TimelyInv, network
<1>7. CASE ~Matches(pkt)
  <2>1. UNCHANGED <<packets, mpc>>
    BY <1>7 DEF PollPacket, pkt
  <2>2. Matching(queue') = Matching(queue)
    BY <1>1, <1>3, <1>5, <1>7, MatchingTail DEF pkt
  <2> QED
    BY <1>1, <1>2, <2>1, <2>2 DEF Timely, TimelyInv, network
<1> QED
  BY <1>6, <1>7

\* A monitor ends by the signal or the timer, with what is due read.
LEMMA PollStep ==
    ASSUME Timely, NoPacket \/ PollStop \/ PollTimer \/ Wake
    PROVE TimelyInv'
<1>1. /\ UNCHANGED <<script, round, cpc, network, queue, packets, stop, timer, due, results>>
      /\ mpc' # "lost" /\ (mpc' = "done" => Polling /\ (stop \/ timer))
  BY DEF NoPacket, PollStop, PollTimer, Wake, WakeTo, Polling
<1>2. UNCHANGED <<FirewallOpen, Rounds>> /\ \A r : Judged(r)' <=> Judged(r)
  BY <1>1, RoundKept
<1>3. Polling => due \subseteq Matching(packets)
  BY DEF Timely, MonitorInv
<1> QED
  BY <1>1, <1>2, <1>3 DEF Timely, TimelyInv, network

\* Without the capture there are no more results, whatever else goes on.
LEMMA LostStep ==
    ASSUME RoundsInv, Lost \/ LostStream \/ Panics, \A r \in 1..Len(results) : Judged(r), [Next]_vars
    PROVE LostInv'
<1>1. ~Open
  BY DEF RoundsInv, Lost, LostStream, Panics, Open
<1>2. UNCHANGED <<script, round, results>> /\ Lost'
  BY <1>1 DEF Lost, Next, Started, SpawnProbes, Stop, Finish, Panics, SendProbe, ProbeFails,
     Bridge, BridgeOther, Monitor, PollPacket, NoPacket, PollStop, PollTimer, Wake, LostStream,
     TimerFires, Finished, vars, monitor
<1> QED
  BY <1>2, RoundKept DEF LostInv

LEMMA TimelyStep == ASSUME Timely, [Next]_vars PROVE TimelyInv' \/ LostInv'
<1>1. CASE Finished \/ UNCHANGED vars
  <2>1. UNCHANGED vars
    BY <1>1 DEF Finished
  <2>2. UNCHANGED <<FirewallOpen, Rounds>> /\ \A r : Judged(r)' <=> Judged(r)
    BY <2>1, RoundKept DEF vars
  <2> QED
    BY <2>1, <2>2 DEF vars, Timely, TimelyInv
<1>2. CASE LostStream \/ Panics
  BY <1>2, LostStep DEF Timely, TimelyInv
<1> QED
  BY <1>1, <1>2, OpenStep, StartedStep, SpawnProbesStep, SignalStep, FinishStep, SendProbeStep,
     BridgeStep, BridgeOtherStep, ReadStep, PollStep DEF Next, Monitor

\* For any number of rounds, in any order of firewall settings: when the probes
\* and their packets come before the monitor is told to end, all protocols are
\* seen in a round if the firewall is open in it, and none if it is closed; no
\* packet of a round is seen in a later one (helpers.rs 121-182; settings.rs
\* 51-80 and 138-176).
THEOREM VerdictIsOfItsRound == Spec => []Verdict
<1>1. VerdictInv => Verdict
  <2>1. RoundsInv => DOMAIN results = 1..Len(results)
    BY SMT DEF RoundsInv
  <2> QED
    BY <2>1 DEF VerdictInv, TimelyInv, LostInv, Judged, Verdict
<1>2. MonitorInv /\ VerdictInv /\ [Next]_vars => VerdictInv'
  BY RoundsStep, TimelyStep, LostStep, ScriptKept DEF VerdictInv, Timely, LostInv
<1> QED
  BY <1>1, <1>2, MonitorInit, MonitorStep, VerdictInit, PTL DEF Spec
=============================================================================
