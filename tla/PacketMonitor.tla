--------------------------- MODULE PacketMonitor ---------------------------
(***************************************************************************)
(* The leak tests' way of looking at the guest's traffic: the packet       *)
(* monitor (network_monitor.rs) and send_guest_probes (tests/helpers.rs),  *)
(* used for one destination in several rounds, between which the test lets *)
(* the app open or close its firewall (test_lan and test_lockdown).        *)
(*                                                                         *)
(* A probe is an RPC of a task of its own; the packet it makes the guest   *)
(* send crosses the firewall, travels, and reaches the capture of whatever *)
(* monitor is open by then.  The monitor polls its packets, the stop       *)
(* signal and the timer one after the other, and the other actors may act  *)
(* between two polls.                                                      *)
(***************************************************************************)
EXTENDS Integers, Sequences, FiniteSets

CONSTANTS
    Scripts,     \* the tests, see below
    MaxOther     \* bound on the packets to other destinations

\* A test: whether the firewall is open, round by round; whether it calls
\* into_result, or waits for the timeout; after how many matching packets
\* should_continue_fn says no, 0 for never; and whether probes and packets
\* arrive before the monitor ends, or any time.
ASSUME MonitorAssumption ==
    /\ \A s \in Scripts :
        /\ s.open \in Seq(BOOLEAN) /\ s.stops \in BOOLEAN
        /\ s.stopAfter \in Nat /\ s.timely \in BOOLEAN
    /\ MaxOther \in Nat

\* send_guest_probes starts its monitor without a should_continue_fn
\* (helpers.rs 126-134): a test whose rounds are judged by it has no limit.
ASSUME ProbesAssumption == \A s \in Scripts : s.timely => s.stopAfter = 0

Protocols == {"tcp", "udp", "icmp"}

VARIABLES
    script,    \* this test
    round,     \* the current round
    cpc,       \* send_guest_probes: "open", "start", "address", "wait"; "end", "panicked"
    probe,     \* of a round and protocol: "none", "rpc", "sent", "failed", "aborted"
    wire,      \* packets on their way from the guest to the bridge
    others,    \* packets to other destinations so far
    mpc,       \* the monitor: "off", "packet", "stop", "timer", "asleep", "done", "lost"
    notified,  \* is_receiving_tx has been sent
    queue,     \* what the capture has and the monitor has not yet read
    packets,   \* MonitorResult.packets
    discarded, \* MonitorResult.discarded_packets
    stop,      \* the stop signal was sent
    timer,     \* the timeout has expired
    due,       \* the matching packets captured before stop or timer
    results    \* the ProbeResult of every finished round

vars == <<script, round, cpc, probe, wire, others, mpc, notified, queue, packets,
          discarded, stop, timer, due, results>>

network == <<probe, wire, others>>
monitor == <<mpc, notified, packets, discarded>>

Other == [to |-> "other"]
Packet(r, p) == [to |-> "destination", round |-> r, protocol |-> p]
Matches(pkt) == pkt.to = "destination"
Rounds == 1..Len(script.open)

Init ==
    /\ script \in Scripts
    /\ round = 1 /\ cpc = "open"
    /\ probe = [i \in Rounds \X Protocols |-> "none"]
    /\ wire = {} /\ others = 0
    /\ mpc = "off" /\ notified = FALSE /\ queue = <<>>
    /\ packets = <<>> /\ discarded = 0
    /\ stop = FALSE /\ timer = FALSE /\ due = {}
    /\ results = <<>>

----------------------------------------------------------------------------
(* send_guest_probes *)

\* Nothing is left of a monitor, or a new one has nothing yet.
ForgetSignals ==
    /\ notified' = FALSE /\ stop' = FALSE /\ timer' = FALSE /\ due' = {}
    /\ UNCHANGED <<queue, packets, discarded>>
Forget ==
    /\ notified' = FALSE /\ queue' = <<>>
    /\ packets' = <<>> /\ discarded' = 0
    /\ stop' = FALSE /\ timer' = FALSE /\ due' = {}

\* start_packet_monitor_for_interface: the capture is opened, then the task
\* is spawned.
Open ==
    /\ cpc = "open" /\ round \in Rounds
    /\ mpc' = "packet" /\ Forget
    /\ cpc' = "start"
    /\ UNCHANGED <<script, round, network, results>>

\* is_receiving_rx: also when the task is gone.
Started ==
    /\ cpc = "start" /\ (notified \/ mpc \in {"done", "lost"})
    /\ cpc' = "address"
    /\ UNCHANGED <<script, round, network, monitor, queue, stop, timer, due, results>>

\* get_interface_ip has answered; the probes are spawned.
SpawnProbes ==
    /\ cpc = "address"
    /\ probe' = [i \in DOMAIN probe |-> IF i[1] = round THEN "rpc" ELSE probe[i]]
    /\ cpc' = "wait"
    /\ UNCHANGED <<script, round, wire, others, monitor, queue, stop, timer, due, results>>

Matching(pkts) == {pkts[i] : i \in {j \in DOMAIN pkts : Matches(pkts[j])}}

\* What a monitor that is told to end must still report: all it has captured,
\* unless it is between its poll of the packets and its poll of what ends it,
\* when it no longer looks at what came since.
Polling == mpc \in {"stop", "timer"}
Captured == Matching(packets) \cup IF Polling THEN {} ELSE Matching(queue)

\* What happens in the usual case before the monitor ends.
AllArrived ==
    /\ cpc = "wait" /\ wire = {} /\ ~Polling
    /\ \A p \in Protocols : probe[<<round, p>>] = "sent"

\* PacketMonitor::into_result
NoSignal == UNCHANGED stop
StopSignal == stop' = TRUE

Stop ==
    /\ script.stops /\ cpc = "wait" /\ ~stop
    /\ script.timely => AllArrived
    /\ StopSignal
    /\ due' = IF timer THEN due ELSE Captured
    /\ UNCHANGED <<script, round, cpc, network, monitor, queue, timer, results>>

\* The task with the ping is aborted, the two it has spawned are not.
Aborts(i) == i[1] = round /\ i[2] = "icmp"

Count(pkts) == [p \in Protocols |-> Cardinality({i \in DOMAIN pkts : pkts[i].protocol = p})]

\* The monitor's result is counted, and the test goes to its next round.
Finish ==
    /\ cpc = "wait" /\ mpc = "done"
    /\ probe' = [i \in DOMAIN probe |->
                    IF Aborts(i) /\ probe[i] = "rpc" THEN "aborted" ELSE probe[i]]
    /\ results' = Append(results, Count(packets))
    /\ round' = round + 1
    /\ cpc' = IF round + 1 \in Rounds THEN "open" ELSE "end"
    /\ mpc' = "off" /\ Forget
    /\ UNCHANGED <<script, wire, others>>

\* pktmon.wait().await.unwrap(): a monitor without a result ends the test, and
\* leaves the probes it has spawned to themselves.
Panics ==
    /\ cpc = "wait" /\ mpc = "lost"
    /\ cpc' = "panicked"
    /\ mpc' = "off" /\ Forget
    /\ UNCHANGED <<script, round, network, results>>

----------------------------------------------------------------------------
(* The guest and the bridge *)

FirewallOpen == round \in Rounds /\ script.open[round]

\* The runner serves the RPC of a probe.
SendProbe(r, p) ==
    /\ probe[<<r, p>>] = "rpc"
    /\ probe' = [probe EXCEPT ![<<r, p>>] = "sent"]
    /\ wire' = IF FirewallOpen THEN wire \cup {Packet(r, p)} ELSE wire
    /\ UNCHANGED <<script, round, cpc, others, monitor, queue, stop, timer, due, results>>

\* The runner cannot make or bind the socket; the manager ignores the error.
ProbeFails(r, p) ==
    /\ ~script.timely /\ probe[<<r, p>>] = "rpc"
    /\ probe' = [probe EXCEPT ![<<r, p>>] = "failed"]
    /\ UNCHANGED <<script, round, cpc, wire, others, monitor, queue, stop, timer, due,
                   results>>

\* A capture that is open gets the packet.
Arrive(pkt) ==
    queue' = IF mpc \in {"off", "done", "lost"} THEN queue ELSE Append(queue, pkt)

Bridge ==
    /\ \E pkt \in wire : Arrive(pkt) /\ wire' = wire \ {pkt}
    /\ UNCHANGED <<script, round, cpc, probe, others, monitor, stop, timer, due, results>>

BridgeOther ==
    /\ others < MaxOther
    /\ others' = others + 1
    /\ Arrive(Other)
    /\ UNCHANGED <<script, round, cpc, probe, wire, monitor, stop, timer, due, results>>

----------------------------------------------------------------------------
(* The monitor *)

\* One packet: counted as discarded, or kept, in which case should_continue_fn
\* decides.
PollPacket ==
    /\ mpc = "packet" /\ queue # <<>>
    /\ queue' = Tail(queue)
    /\ notified' = TRUE
    /\ IF Matches(Head(queue))
       THEN /\ packets' = Append(packets, Head(queue))
            /\ mpc' = IF Len(packets) + 1 = script.stopAfter THEN "done" ELSE "packet"
            /\ UNCHANGED discarded
       ELSE discarded' = discarded + 1 /\ UNCHANGED <<packets, mpc>>
    /\ UNCHANGED <<script, round, cpc, network, stop, timer, due, results>>

\* No packet: the first poll has told the caller that the monitor receives.
NoPacket ==
    /\ mpc = "packet" /\ queue = <<>>
    /\ mpc' = "stop" /\ notified' = TRUE
    /\ UNCHANGED <<script, round, cpc, network, queue, packets, discarded, stop, timer,
                   due, results>>

PollStop ==
    /\ mpc = "stop"
    /\ mpc' = IF stop THEN "done" ELSE "timer"
    /\ UNCHANGED <<script, round, cpc, network, notified, queue, packets, discarded,
                   stop, timer, due, results>>

PollTimer ==
    /\ mpc = "timer"
    /\ mpc' = IF timer THEN "done" ELSE "asleep"
    /\ UNCHANGED <<script, round, cpc, network, notified, queue, packets, discarded,
                   stop, timer, due, results>>

\* A waker has been called: all three are polled again, packets first.
WakeToStop == "stop"
WakeTo == "packet"

Wake ==
    /\ mpc = "asleep" /\ (queue # <<>> \/ stop \/ timer)
    /\ mpc' = WakeTo
    /\ UNCHANGED <<script, round, cpc, network, notified, queue, packets, discarded,
                   stop, timer, due, results>>

\* The poll of the packets finds that the capture has ended or failed: the
\* monitor ends without a result, whatever it has read.
LostStream ==
    /\ mpc \in {"packet", "asleep"}
    /\ mpc' = "lost" /\ notified' = TRUE
    /\ UNCHANGED <<script, round, cpc, network, queue, packets, discarded, stop, timer,
                   due, results>>

\* The timeout of the monitor, which runs from the spawn of the task.
TimerFires ==
    /\ ~script.stops /\ mpc \notin {"off", "done", "lost"} /\ ~timer
    /\ script.timely => AllArrived
    /\ timer' = TRUE
    /\ due' = IF stop THEN due ELSE Captured
    /\ UNCHANGED <<script, round, cpc, network, monitor, queue, stop, results>>

Monitor == PollPacket \/ NoPacket \/ PollStop \/ PollTimer \/ Wake

Finished == cpc \in {"end", "panicked"} /\ UNCHANGED vars

Next ==
    \/ Open \/ Started \/ SpawnProbes \/ Stop \/ Finish \/ Panics
    \/ \E r \in Rounds, p \in Protocols : SendProbe(r, p) \/ ProbeFails(r, p)
    \/ Bridge \/ BridgeOther
    \/ Monitor \/ LostStream \/ TimerFires \/ Finished

Spec == Init /\ [][Next]_vars

\* Tasks that are ready are run, RPCs are served, packets arrive and the timer
\* expires.
FairSpec ==
    /\ Spec
    /\ WF_vars(Open \/ Started \/ SpawnProbes \/ Finish \/ Panics) /\ WF_vars(Stop)
    /\ WF_vars(Monitor) /\ WF_vars(TimerFires) /\ WF_vars(Bridge)
    /\ WF_vars(\E r \in Rounds, p \in Protocols : SendProbe(r, p))

----------------------------------------------------------------------------
(* Properties *)

\* Every matching packet that the capture held when into_result was called, or
\* when the timeout expired, is in the result of the monitor, unless it came in
\* the middle of a poll: a leak that had happened by then is not overlooked
\* (network_monitor.rs 270-310, where select polls the packets before the stop
\* signal and the timer).
NothingMissed == mpc = "done" /\ Len(packets) # script.stopAfter => due \subseteq Matching(packets)

\* ProbeResult::all and ProbeResult::none
All(result) == \A p \in Protocols : result[p] > 0
None(result) == \A p \in Protocols : result[p] = 0

\* With an RPC and a network that are faster than the timeout, the verdict of
\* every round is about the firewall of that round: all protocols are seen if
\* it is open, none if it is closed, in whatever order the rounds come
\* (helpers.rs 121-182; settings.rs 51-80 and 138-176).
Verdict ==
    script.timely => \A r \in DOMAIN results :
        IF script.open[r] THEN All(results[r]) ELSE None(results[r])

\* The test gets through all of its rounds, or panics because it has lost the
\* capture; it never waits for good for a monitor (network_monitor.rs 257-263,
\* 297-300 and 313-316, helpers.rs 160).
RoundsEnd == <>(cpc = "end" \/ cpc = "panicked")
=============================================================================
