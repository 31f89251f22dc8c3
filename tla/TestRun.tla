------------------------------ MODULE TestRun ------------------------------
(***************************************************************************)
(* The test loop of the test manager: run_tests.rs, with the logger that   *)
(* buffers the records of a test (logging.rs), the reset of the daemon's   *)
(* settings after a test (tests/mod.rs), the report file (summary.rs) and  *)
(* the table made from it.                                                 *)
(*                                                                         *)
(* The loop is sequential; what varies is the order of tests of equal      *)
(* priority, what each test does to the guest, how it ends, and which of   *)
(* the fallible steps around it fails.  A test is abstracted to its        *)
(* metadata and to what it does to the guest: the app it installs or       *)
(* removes and the settings of the daemon it changes.                      *)
(***************************************************************************)
EXTENDS Integers, Sequences, FiniteSets, RunnerLog

CONSTANTS
    Tests,             \* the registered tests
    Priority,          \* [Tests -> Int], 0 when the attribute is absent
    Version,           \* [Tests -> Versions], the client the test takes
    Cleanup,           \* the tests with cleanup = true
    MustSucceed,       \* the tests with must_succeed = true
    AlwaysRun,         \* the tests with always_run = true
    Filters,           \* for each choice of test filters, the tests they match
    FailedOnly,        \* print_failed_tests_only
    Needs,             \* [Tests -> {"app", "noapp"}], checked by the test first
    AppAfter,          \* [Tests -> {"same", "installed", "removed"}]
    Touches,           \* [Tests -> SUBSET Fields], settings the test may change
    MaxEntries,        \* entries a test makes the runner log, at most
    Flaky              \* whether RPCs and file writes can fail by themselves

Versions == {"New", "Previous", "None"}

\* "relay": what reset_relay_settings sets to fixed values; "saved": what
\* cleanup_after_test writes back from DEFAULT_SETTINGS.
Fields == {"relay", "saved"}

Outcomes == {"pass", "error", "panic"}

ASSUME TestsAssumption ==
    /\ IsFiniteSet(Tests)
    /\ Priority \in [Tests -> Int]
    /\ Version \in [Tests -> Versions]
    /\ Cleanup \subseteq Tests /\ MustSucceed \subseteq Tests
    /\ AlwaysRun \subseteq Tests /\ Filters \subseteq SUBSET Tests
    /\ FailedOnly \in BOOLEAN /\ Flaky \in BOOLEAN /\ MaxEntries \in Nat
    /\ Needs \in [Tests -> {"app", "noapp"}]
    /\ AppAfter \in [Tests -> {"same", "installed", "removed"}]
    /\ Touches \in [Tests -> SUBSET Fields]

\* A test that takes no client of the new version changes at most what
\* reset_relay_settings resets: test_upgrade_app, through the client of the
\* previous version, sets the relay location, and the others call no setter
\* (install.rs 19-252 and 318-342, ui.rs 128-141).
ASSUME OldClientAssumption ==
    \A t \in Tests : Version[t] # "New" => "saved" \notin Touches[t]

NotSet == {"not set"}

VARIABLES
    plan,      \* the tests to run, in order
    pos,       \* the index of the current test
    pc,        \* the next step of the loop, or how it ended
    outcome,   \* how the current test ended
    app,       \* whether the guest has the app, and so a daemon
    changed,   \* the settings that differ from those of a fresh install
    defaults,  \* DEFAULT_SETTINGS: the value of "changed" when it was read
    buffer,    \* Logger.buffer
    stored,    \* Logger.stored_records, by the test that made them
    printed,   \* the records that reached the terminal
    log,       \* the log of the test runner, entries tagged by the test
    output,    \* error_messages of the current test, and what it should have
    results,   \* how each test that ended did, in the order they ran
    report,    \* the rows of the report file
    final      \* final_result

vars == <<plan, pos, pc, outcome, app, changed, defaults, buffer, stored,
          printed, log, output, results, report, final>>

guest  == <<app, changed>>
logger == <<buffer, stored, printed>>
runner == <<log, output>>

----------------------------------------------------------------------------
(* Which tests run, and in which order *)

\* Without filters all tests match.
Selected(matching) == AlwaysRun \cup matching

\* sort_by_key is stable, but the order in which the linker registered the
\* tests is not known: tests of equal priority come in any order.
Ordered(p) ==
    \A i, j \in DOMAIN p : i < j => Priority[p[i]] <= Priority[p[j]]

PlansFor(S) ==
    {p \in [1..Cardinality(S) -> S] :
        /\ \A i, j \in DOMAIN p : i # j => p[i] # p[j]
        /\ Ordered(p)}

Plans == UNION {PlansFor(Selected(matching)) : matching \in Filters}

\* answer: what was polled after a failure; flushed: the poll before the test
\* succeeded; made: how many entries the runner logged during the test.
NoOutput == [answer |-> <<"none", <<>>>>, flushed |-> TRUE, made |-> 0]

test == plan[pos]
Failed == outcome # "pass"

Init ==
    /\ plan \in Plans
    /\ pos = 1
    /\ pc = "connect"
    /\ outcome = "pass"
    /\ app = FALSE
    /\ changed = {}
    /\ defaults = NotSet
    /\ buffer = FALSE /\ stored = {} /\ printed = {}
    /\ log = NoEntries /\ output = NoOutput
    /\ results = <<>> /\ report = <<>>
    /\ final = "ok"

----------------------------------------------------------------------------
(* The steps around one test *)

\* A call of the daemon: certain to fail without one.
DaemonMayAnswer == app
DaemonMayFail == ~app \/ Flaky

\* init_default_settings, for a test that takes the new client.  A failure
\* panics, outside the catch_unwind of run_test.
CaptureNothing == UNCHANGED defaults
Capture ==
    \/ defaults # NotSet /\ defaults' = defaults
    \/ defaults = NotSet /\ DaemonMayAnswer /\ defaults' = changed

Connect ==
    /\ pc = "connect" /\ pos <= Len(plan)
    /\ IF Version[test] = "New" THEN Capture ELSE UNCHANGED defaults
    /\ buffer' = (buffer \/ FailedOnly)
    /\ pc' = "test"
    /\ UNCHANGED <<plan, pos, outcome, app, changed, stored, printed, runner, results,
                   report, final>>

ConnectPanics ==
    /\ pc = "connect" /\ pos <= Len(plan)
    /\ Version[test] = "New" /\ defaults = NotSet /\ DaemonMayFail
    /\ pc' = "panicked"
    /\ UNCHANGED <<plan, pos, outcome, guest, defaults, logger, runner, results,
                   report, final>>

\* Logger::log
Log(t) ==
    IF buffer THEN stored' = stored \cup {t} /\ UNCHANGED printed
    ELSE printed' = printed \cup {t} /\ UNCHANGED stored

\* What the test leaves in the guest; one that fails may have stopped before
\* or after it changed something.
Effect(t, o) ==
    \E done \in IF o = "pass" THEN {TRUE} ELSE BOOLEAN, fields \in SUBSET Touches[t] :
        IF ~done \/ AppAfter[t] = "same"
        THEN /\ app' = app
             /\ changed' = IF app THEN changed \cup fields ELSE changed
        ELSE /\ app' = (AppAfter[t] = "installed")
             /\ changed' = {}

\* run_test polls the runner's log before the test, and drops the answer, and
\* again after a test that failed.
PollAround(o) ==
    \E n \in 0..MaxEntries :
        LET before == Polled(log)
            after  == Logged(before, test, n)
        IN /\ log' = IF o = "pass" THEN after ELSE Polled(after)
           /\ output' = [answer |-> IF o = "pass" THEN NoOutput.answer ELSE Answer(after),
                         flushed |-> ~log.lag, made |-> n]

\* run_test: the test under catch_unwind.
RunTest ==
    /\ pc = "test"
    /\ \E o \in Outcomes :
        /\ o = "pass" => (Needs[test] = "app") = app
        /\ IF (Needs[test] = "app") = app THEN Effect(test, o) ELSE UNCHANGED guest
        /\ outcome' = o
        /\ PollAround(o)
    /\ Log(test)
    /\ pc' = "logs"
    /\ UNCHANGED <<plan, pos, defaults, buffer, results, report, final>>

\* run_test: the logs of the app, fetched from the runner, with "?".
FetchLogs ==
    /\ pc = "logs"
    /\ pc' \in IF Flaky THEN {"cleanup", "aborted"} ELSE {"cleanup"}
    /\ UNCHANGED <<plan, pos, outcome, guest, defaults, logger, runner, results,
                   report, final>>

CleanupNeeded ==
    Version[test] = "New" /\ (test \in Cleanup \/ Failed)

\* What cleanup_after_test leaves different from a fresh install.
RestoreOnly == defaults
Restored == defaults \ {"relay"}

CleanupSkipped ==
    /\ pc = "cleanup" /\ ~CleanupNeeded
    /\ pc' = "print"
    /\ UNCHANGED <<plan, pos, outcome, guest, defaults, logger, runner, results,
                   report, final>>

\* The "expect" on DEFAULT_SETTINGS panics when they were never read.
CleanupDone ==
    /\ pc = "cleanup" /\ CleanupNeeded
    /\ IF defaults = NotSet
       THEN pc' = "panicked" /\ UNCHANGED changed
       ELSE DaemonMayAnswer /\ pc' = "print" /\ changed' = Restored
    /\ UNCHANGED <<plan, pos, outcome, app, defaults, logger, runner, results, report,
                   final>>

\* A setter of the chain fails, and "?" leaves the run.
CleanupFails ==
    /\ pc = "cleanup" /\ CleanupNeeded /\ defaults # NotSet /\ DaemonMayFail
    /\ changed' \in {changed, changed \ {"relay"}}
    /\ pc' = "aborted"
    /\ UNCHANGED <<plan, pos, outcome, app, defaults, logger, runner, results, report,
                   final>>

\* print_stored_records, or flush_records, which drops them.
PrintAlways == printed \cup stored
PrintStored == IF Failed THEN printed \cup stored ELSE printed

PrintRecords ==
    /\ pc = "print"
    /\ IF FailedOnly
       THEN printed' = PrintStored /\ stored' = {} /\ buffer' = FALSE
       ELSE UNCHANGED logger
    /\ pc' = "report"
    /\ UNCHANGED <<plan, pos, outcome, guest, defaults, runner, results, report, final>>

Row(t, r) == [test |-> t, result |-> r]

\* maybe_log_test_result
WriteRow ==
    report' = Append(report, Row(test, IF Failed THEN "fail" ELSE "pass"))

Report ==
    /\ pc = "report"
    /\ WriteRow
    /\ pc' = "judge"
    /\ UNCHANGED <<plan, pos, outcome, guest, defaults, logger, runner, results, final>>

\* The file cannot be written: nothing of the row is there, or a part of it.
ReportFails ==
    /\ pc = "report" /\ Flaky
    /\ report' \in {report, Append(report, Row(test, "torn"))}
    /\ pc' = "aborted"
    /\ UNCHANGED <<plan, pos, outcome, guest, defaults, logger, runner, results, final>>

\* The last match of the loop.
LastResult == final' = IF Failed THEN "err" ELSE "ok"
Conclude == final' = IF Failed THEN "err" ELSE final

Break == Failed /\ test \in MustSucceed

Judge ==
    /\ pc = "judge"
    /\ results' = Append(results, Row(test, outcome))
    /\ Conclude
    /\ output' = NoOutput
    /\ IF Break THEN pc' = "done" /\ UNCHANGED pos
       ELSE pc' = "connect" /\ pos' = pos + 1
    /\ UNCHANGED <<plan, outcome, guest, defaults, logger, log, report>>

LoopEnds ==
    /\ pc = "connect" /\ pos > Len(plan)
    /\ pc' = "done"
    /\ UNCHANGED <<plan, pos, outcome, guest, defaults, logger, runner, results,
                   report, final>>

Ended == pc \in {"done", "aborted", "panicked"}

Terminated == Ended /\ UNCHANGED vars

Next ==
    \/ Connect \/ ConnectPanics \/ RunTest \/ FetchLogs
    \/ CleanupSkipped \/ CleanupDone \/ CleanupFails
    \/ PrintRecords \/ Report \/ ReportFails \/ Judge \/ LoopEnds
    \/ Terminated

Spec == Init /\ [][Next]_vars

----------------------------------------------------------------------------
(* The table of the report files *)

\* Summary::parse_log: a row without a result makes the whole file an error.
Parses(rows) == \A i \in DOMAIN rows : rows[i].result # "torn"

\* The cell of a test: TestResult::Unknown when the file has no row for it.
Cell(rows, t) ==
    LET at == {i \in DOMAIN rows : rows[i].test = t}
    IN IF at = {} THEN "unknown" ELSE rows[CHOOSE i \in at : \A j \in at : j <= i].result

\* The platform's counter shows that all tests passed.
NoneFailed(rows) == Parses(rows) /\ \A i \in DOMAIN rows : rows[i].result # "fail"
AllPassed(rows) ==
    Parses(rows) /\ Cardinality({t \in Tests : Cell(rows, t) = "pass"}) = Cardinality(Tests)

----------------------------------------------------------------------------
(* Properties *)

Passed(i) == results[i].result = "pass"

\* Whether the loop leaves the settings as the i-th test of the plan left
\* them: it takes no new client, or it passed and asked for no cleanup.
Exempt(i) ==
    Version[plan[i]] # "New" \/ (plan[i] \notin Cleanup /\ Passed(i))

\* When a test starts, every setting that differs from a fresh install was
\* changed by a test that ran after the last one that was cleaned up, although
\* DEFAULT_SETTINGS are read late and cleanup is skipped for some tests
\* (run_tests.rs 76-78, 97-104; tests/mod.rs 66-162).
Isolated ==
    pc = "test" =>
        \A f \in changed : \E i \in 1..(pos - 1) :
            /\ f \in Touches[plan[i]]
            /\ \A j \in i..(pos - 1) : Exempt(j)

\* cleanup_after_test never meets unset defaults, whichever tests the filter
\* leaves: every test that is cleaned up was preceded by init_default_settings
\* (run_tests.rs 76-78 and 97-102, tests/mod.rs 89-91).
CleanupFindsDefaults ==
    pc = "cleanup" /\ CleanupNeeded => defaults # NotSet

\* A run that ends by itself returns Ok exactly when no test failed, has a row
\* per test it ran with the result of that test, and leaves tests out
\* exactly after the failure of one that must succeed (run_tests.rs 118-151).
CompleteRun ==
    pc = "done" =>
        /\ (final = "ok") <=> (\A i \in DOMAIN results : Passed(i))
        /\ Len(report) = Len(results)
        /\ \A i \in DOMAIN results :
            /\ results[i].test = plan[i]
            /\ report[i] = Row(plan[i], IF Passed(i) THEN "pass" ELSE "fail")
            /\ ~Passed(i) /\ plan[i] \in MustSucceed => i = Len(results)
        /\ Len(results) < Len(plan) =>
            /\ Len(results) > 0 /\ ~Passed(Len(results))
            /\ plan[Len(results)] \in MustSucceed

\* Whatever ended the run, also half a row, a report that shows all tests as
\* passed belongs to a run that ran them all and returned Ok (summary.rs
\* 122-150 and 182-190, run_tests.rs 120-151).
TableIsHonest ==
    Ended /\ AllPassed(report) =>
        pc = "done" /\ final = "ok" /\ Len(results) = Cardinality(Tests)

\* With print_failed_tests_only, the records of a test whose result was
\* concluded were printed if and only if it failed (run_tests.rs 82-85,
\* 106-114; logging.rs 64-84).
FailuresPrinted ==
    FailedOnly => \A i \in DOMAIN results :
        results[i].test \in printed <=> ~Passed(i)

\* What is printed as the runner's output of a failed test is that test's, and
\* all of it, or an error that says it is not there.  It can only be mixed with
\* the output of earlier tests when the poll before the test failed, because
\* one of those overflowed the buffer: that poll takes nothing out
\* (logging.rs 203-224, main.rs 202-220).
OutputIsOwn ==
    LET entries == output.answer[2] IN
    output.answer[1] = "ok" /\ output.flushed =>
        Len(entries) = output.made /\ \A i \in DOMAIN entries : entries[i] = test
=============================================================================
