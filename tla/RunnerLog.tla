------------------------------ MODULE RunnerLog ------------------------------
(***************************************************************************)
(* The log of the test runner as the test manager sees it: a broadcast      *)
(* channel of tokio with one receiver (test-runner/src/logging.rs), polled   *)
(* by try_poll_output (test-runner/src/main.rs).  A log is a record of the   *)
(* entries the receiver has not read and of whether it lags: whether entries *)
(* it has not read were overwritten.  An entry is whatever the user of the   *)
(* module tags it with.                                                      *)
(***************************************************************************)
EXTENDS Naturals, Sequences

CONSTANT OutputBuffer  \* entries the channel holds: MAX_OUTPUT_BUFFER

ASSUME OutputBufferAssumption == OutputBuffer \in Nat \ {0}

NoEntries == [unread |-> <<>>, lag |-> FALSE]

\* StdOutBuffer::log, n times: a full channel drops its oldest entries.
Logged(log, entry, n) ==
    LET all  == log.unread \o [i \in 1..n |-> entry]
        over == IF Len(all) > OutputBuffer THEN Len(all) - OutputBuffer ELSE 0
    IN [unread |-> SubSeq(all, over + 1, Len(all)), lag |-> log.lag \/ over > 0]

\* Mutant: one entry is taken, as a single try_recv would.
PolledOne(log) ==
    IF log.lag \/ log.unread = <<>> THEN [log EXCEPT !.lag = FALSE]
    ELSE [log EXCEPT !.unread = Tail(@)]

\* The log after try_poll_output: a receiver that lags only moves on to the
\* oldest entry that is left, and reads none of those that are.
Polled(log) == IF log.lag THEN [log EXCEPT !.lag = FALSE] ELSE NoEntries

\* What it answers: the entries, or the error for the lag.
Answer(log) == IF log.lag THEN <<"error", <<>>>> ELSE <<"ok", log.unread>>
=============================================================================
