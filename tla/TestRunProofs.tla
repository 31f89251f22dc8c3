--------------------------- MODULE TestRunProofs ---------------------------
(***************************************************************************)
(* For any registered tests, with any attributes, filters and effects, and *)
(* for any size of the runner's log buffer: cleanup always finds the       *)
(* defaults it restores, a run that ends by itself has a complete and      *)
(* honest result, the output shown for a failed test is its own, failures  *)
(* and only they are printed, and tests are isolated from each other.      *)
(***************************************************************************)
EXTENDS TestRun, SequenceTheorems, FiniteSetTheorems, FunctionTheorems, TLAPS

\* Zenon proves most steps; the others name the prover they need.
USE ZenonT(20)

Rows == [test : Tests, result : Outcomes]
ReportRows == [test : Tests, result : {"pass", "fail", "torn"}]

\* The steps at which the loop is with the test at pos.
Within == {"test", "logs", "cleanup", "print", "report", "judge"}

----------------------------------------------------------------------------
(* The plan *)

\* What run_tests selects and sorts is a sequence of registered tests.
LEMMA PlansAreSequences == Plans \subseteq Seq(Tests)
<1> SUFFICES ASSUME NEW matching \in Filters, NEW p \in PlansFor(Selected(matching))
             PROVE p \in Seq(Tests)
  BY DEF Plans
<1> DEFINE S == Selected(matching)
<1>1. S \subseteq Tests
  BY TestsAssumption DEF Selected
<1>2. IsFiniteSet(S)
  BY <1>1, TestsAssumption, FS_Subset
<1>3. Cardinality(S) \in Nat
  BY <1>2, FS_CardinalityType
<1>4. p \in [1..Cardinality(S) -> S]
  BY DEF PlansFor
<1>5. p \in [1..Cardinality(S) -> Tests]
  BY <1>1, <1>4
<1> QED
  BY SMT, <1>3, <1>5

\* The position of the loop, the settings and the defaults are well formed, and
\* the defaults are known while a test with the new client is under way.
SettingsInv ==
    /\ plan \in Seq(Tests)
    /\ pos \in Nat \ {0}
    /\ pc \in Within \cup {"connect", "done", "aborted", "panicked"}
    /\ pc \in Within => pos <= Len(plan)
    /\ changed \in SUBSET Fields
    /\ defaults \in (SUBSET Fields) \cup {NotSet}
    /\ pc \in {"test", "logs", "cleanup"} /\ Version[test] = "New" => defaults # NotSet

LEMMA FieldsAreSet == NotSet \notin SUBSET Fields
  BY DEF NotSet, Fields

LEMMA SettingsInit == Init => SettingsInv
  BY SMT, PlansAreSequences DEF Init, SettingsInv, Within

LEMMA TestIsRegistered == SettingsInv /\ pc \in Within => test \in Tests
  BY SMT DEF SettingsInv, test

LEMMA SettingsStep == SettingsInv /\ [Next]_vars => SettingsInv'
<1> SUFFICES ASSUME SettingsInv, [Next]_vars
             PROVE SettingsInv'
  OBVIOUS
<1> USE DEF SettingsInv, Within, guest, logger, runner, test
<1>1. CASE Connect
  BY <1>1, FieldsAreSet DEF Connect, Capture
<1>2. CASE ConnectPanics
  BY <1>2 DEF ConnectPanics
<1>3. CASE RunTest
  <2>1. test \in Tests
    BY <1>3, TestIsRegistered DEF RunTest
  <2>2. changed' \in SUBSET Fields
    BY <1>3, <2>1, TestsAssumption DEF RunTest, Effect
  <2> QED
    BY <1>3, <2>2 DEF RunTest
<1>4. CASE FetchLogs
  BY <1>4 DEF FetchLogs
<1>5. CASE CleanupSkipped
  BY <1>5 DEF CleanupSkipped
<1>6. CASE CleanupDone
  BY <1>6 DEF CleanupDone, Restored
<1>7. CASE CleanupFails
  BY <1>7 DEF CleanupFails
<1>8. CASE PrintRecords
  BY <1>8 DEF PrintRecords
<1>9. CASE Report
  BY <1>9 DEF Report
<1>10. CASE ReportFails
  BY <1>10 DEF ReportFails
<1>11. CASE Judge
  BY SMT, <1>11 DEF Judge
<1>12. CASE LoopEnds
  BY <1>12 DEF LoopEnds
<1>13. CASE Terminated \/ UNCHANGED vars
  BY <1>13 DEF Terminated, vars
<1> QED
  BY <1>1, <1>2, <1>3, <1>4, <1>5, <1>6, <1>7, <1>8, <1>9, <1>10, <1>11, <1>12, <1>13 DEF Next

\* Whichever tests are selected and whatever they do, cleanup_after_test never
\* meets unset defaults (tests/mod.rs 89-91).
THEOREM DefaultsKnown == Spec => []CleanupFindsDefaults
<1>1. SettingsInv => CleanupFindsDefaults
  BY DEF SettingsInv, CleanupFindsDefaults, CleanupNeeded
<1> QED
  BY <1>1, SettingsInit, SettingsStep, PTL DEF Spec

----------------------------------------------------------------------------
(* The runner's output *)

\* A receiver that had read everything, and that does not lag after n entries,
\* has exactly those n to read.
LEMMA LoggedAlone ==
    ASSUME NEW t, NEW n \in Nat, ~Logged(NoEntries, t, n).lag
    PROVE /\ Len(Logged(NoEntries, t, n).unread) = n
          /\ \A i \in DOMAIN Logged(NoEntries, t, n).unread : Logged(NoEntries, t, n).unread[i] = t
<1> DEFINE made == [i \in 1..n |-> t]
           all  == NoEntries.unread \o made
           over == IF Len(all) > OutputBuffer THEN Len(all) - OutputBuffer ELSE 0
<1>1. made \in Seq({t}) /\ Len(made) = n
  BY SMT
<1>2. all = made
  BY SMT, <1>1 DEF NoEntries
<1>3. Logged(NoEntries, t, n) =
        [unread |-> SubSeq(all, over + 1, Len(all)), lag |-> NoEntries.lag \/ over > 0]
  BY DEF Logged
<1> HIDE DEF made, all, over
<1>4. ~(over > 0)
  <2> DEFINE some == NoEntries.lag \/ over > 0
  <2>1. Logged(NoEntries, t, n).lag = some
    <3> HIDE DEF some
    <3> QED BY SMT, <1>3 DEF some
  <2> QED
    BY <2>1
<1>5. over = 0
  BY SMT, <1>1, <1>2, <1>4, OutputBufferAssumption DEF over
<1>6. Logged(NoEntries, t, n).unread = SubSeq(made, 1, Len(made))
  BY SMT, <1>2, <1>3, <1>5
<1>7. SubSeq(made, 1, Len(made)) = made
  BY SMT, <1>1
<1> QED
  BY <1>1, <1>6, <1>7 DEF made

LEMMA OwnOutputStep == OutputIsOwn /\ [Next]_vars => OutputIsOwn'
<1> SUFFICES ASSUME OutputIsOwn, [Next]_vars
             PROVE OutputIsOwn'
  OBVIOUS
<1>1. CASE RunTest
  <2>1. PICK o \in Outcomes : PollAround(o)
    BY <1>1 DEF RunTest
  <2>2. PICK n \in 0..MaxEntries :
          output' = [answer |-> IF o = "pass" THEN NoOutput.answer
                                ELSE Answer(Logged(Polled(log), test, n)),
                     flushed |-> ~log.lag, made |-> n]
    BY <2>1 DEF PollAround
  <2>3. n \in Nat /\ test' = test
    BY SMT, <1>1, TestsAssumption DEF RunTest, test
  <2> SUFFICES ASSUME output'.answer[1] = "ok", output'.flushed
               PROVE /\ Len(output'.answer[2]) = output'.made
                     /\ \A i \in DOMAIN output'.answer[2] : output'.answer[2][i] = test'
    BY DEF OutputIsOwn
  <2> DEFINE after == Logged(NoEntries, test, n)
  <2>4. Polled(log) = NoEntries
    BY <2>2 DEF Polled
  <2>5. o # "pass"
    BY <2>2 DEF NoOutput
  <2>6. output'.answer = Answer(after) /\ output'.made = n
    BY <2>2, <2>4, <2>5
  <2> HIDE DEF after
  <2>7. ~after.lag /\ output'.answer[2] = after.unread
    BY SMT, <2>6 DEF Answer
  <2> QED
    BY SMT, <2>3, <2>6, <2>7, LoggedAlone DEF after
<1>2. CASE Judge
  BY <1>2 DEF Judge, OutputIsOwn, NoOutput
<1>3. CASE UNCHANGED <<output, plan, pos>>
  BY <1>3 DEF OutputIsOwn, test
<1> QED
  BY <1>1, <1>2, <1>3 DEF Next, Connect, ConnectPanics, FetchLogs, CleanupSkipped, CleanupDone,
     CleanupFails, PrintRecords, Report, ReportFails, LoopEnds, Terminated, vars, runner

\* For every size of the runner's log buffer, the output shown for a failed
\* test is all of it and only its own, unless an error is shown in its place or
\* the poll before the test failed (main.rs 202-220).
THEOREM OutputOwned == Spec => []OutputIsOwn
<1>1. Init => OutputIsOwn
  BY SMT DEF Init, OutputIsOwn, NoOutput
<1> QED
  BY <1>1, OwnOutputStep, PTL DEF Spec

----------------------------------------------------------------------------
(* The results and the report *)

Verdict(o) == IF o = "pass" THEN "pass" ELSE "fail"

\* The results are those of the first tests of the plan, the report has their
\* rows and, between its writing and the end of the test, one more; a failure
\* of a test that must succeed is the last result of a run that is done.
ResultsInv ==
    /\ outcome \in Outcomes /\ final \in {"ok", "err"}
    /\ results \in Seq(Rows) /\ report \in Seq(ReportRows)
    /\ (final = "ok") <=> (\A i \in 1..Len(results) : results[i].result = "pass")
    /\ Len(results) <= Len(report)
    /\ \A i \in 1..Len(results) :
        /\ results[i].test = plan[i]
        /\ report[i] = Row(plan[i], Verdict(results[i].result))
        /\ results[i].result # "pass" /\ plan[i] \in MustSucceed =>
            i = Len(results) /\ pc = "done"
    /\ pc \in Within \cup {"connect"} => Len(results) = pos - 1
    /\ pc \in (Within \ {"judge"}) \cup {"connect"} => Len(report) = pos - 1
    /\ pc = "judge" => Len(report) = pos /\ report[pos] = Row(test, Verdict(outcome))
    /\ pc = "done" =>
        /\ Len(report) = Len(results)
        /\ Len(results) < Len(plan) =>
            /\ Len(results) > 0 /\ results[Len(results)].result # "pass"
            /\ plan[Len(results)] \in MustSucceed

LEMMA ResultsInit == Init => ResultsInv
  BY SMT DEF Init, ResultsInv, Within, Outcomes

\* A step that leaves the results, the report and the test at pos alone.
LEMMA ResultsKept ==
    ASSUME ResultsInv, UNCHANGED <<plan, pos, results, report, final>>, outcome' \in Outcomes,
           \/ pc' \in {"aborted", "panicked"} /\ pc # "done"
           \/ pc' \in Within \ {"judge"} /\ pc \in (Within \ {"judge"}) \cup {"connect"}
    PROVE ResultsInv'
  BY DEF ResultsInv, Within, test

LEMMA ResultsStep == SettingsInv /\ ResultsInv /\ [Next]_vars => ResultsInv'
<1> SUFFICES ASSUME SettingsInv, ResultsInv, [Next]_vars
             PROVE ResultsInv'
  OBVIOUS
<1>1. CASE Connect \/ ConnectPanics \/ RunTest \/ FetchLogs \/ CleanupSkipped \/ CleanupDone
           \/ CleanupFails \/ PrintRecords
  <2>1. outcome' \in Outcomes
    BY <1>1 DEF ResultsInv, Connect, ConnectPanics, RunTest, FetchLogs, CleanupSkipped,
       CleanupDone, CleanupFails, PrintRecords
  <2>2. UNCHANGED <<plan, pos, results, report, final>>
    BY <1>1 DEF Connect, ConnectPanics, RunTest, FetchLogs, CleanupSkipped,
       CleanupDone, CleanupFails, PrintRecords
  <2>3. \/ pc' \in {"aborted", "panicked"} /\ pc # "done"
        \/ pc' \in Within \ {"judge"} /\ pc \in (Within \ {"judge"}) \cup {"connect"}
    BY <1>1 DEF Within, Connect, ConnectPanics, RunTest, FetchLogs, CleanupSkipped,
       CleanupDone, CleanupFails, PrintRecords
  <2> QED
    BY <2>1, <2>2, <2>3, ResultsKept
<1>2. CASE Report
  <2> DEFINE row == Row(test, Verdict(outcome))
  <2>1. test \in Tests
    BY <1>2, TestIsRegistered DEF Report, Within
  <2>2. row \in ReportRows
    BY <2>1 DEF Row, Verdict, ReportRows
  <2>3. report' = Append(report, row)
    BY <1>2 DEF Report, WriteRow, Failed, Verdict
  <2> HIDE DEF row
  <2>4. /\ report' \in Seq(ReportRows) /\ Len(report') = Len(report) + 1
        /\ report'[Len(report) + 1] = row
        /\ \A i \in 1..Len(report) : report'[i] = report[i]
    BY SMT, <2>2, <2>3 DEF ResultsInv
  <2>5. /\ UNCHANGED <<plan, pos, outcome, results, final>> /\ pc = "report" /\ pc' = "judge"
        /\ test' = test
    BY <1>2 DEF Report, test
  <2> QED
    BY SMT, <2>4, <2>5 DEF ResultsInv, SettingsInv, Within, row
<1>3. CASE ReportFails
  <2> DEFINE row == Row(test, "torn")
  <2>1. test \in Tests
    BY <1>3, TestIsRegistered DEF ReportFails, Within
  <2>2. row \in ReportRows
    BY <2>1 DEF Row, ReportRows
  <2>3. report' = report \/ report' = Append(report, row)
    BY <1>3 DEF ReportFails
  <2> HIDE DEF row
  <2>4. /\ report' \in Seq(ReportRows) /\ Len(report') >= Len(report)
        /\ \A i \in 1..Len(report) : report'[i] = report[i]
    <3> report \in Seq(ReportRows) /\ Len(report) \in Nat
      BY SMT DEF ResultsInv
    <3>1. CASE report' = report
      BY SMT, <3>1
    <3>2. CASE report' = Append(report, row)
      BY SMT, <2>2, <3>2
    <3> QED
      BY <2>3, <3>1, <3>2
  <2>5. /\ UNCHANGED <<plan, pos, outcome, results, final>> /\ pc = "report" /\ pc' = "aborted"
    BY <1>3 DEF ReportFails
  <2> QED
    BY <2>4, <2>5 DEF ResultsInv, Within
<1>4. CASE Judge
  <2> DEFINE row == Row(test, outcome)
  <2>1. test \in Tests /\ pos <= Len(plan) /\ pos \in Nat \ {0}
    BY <1>4, TestIsRegistered DEF Judge, Within, SettingsInv
  <2>2. row \in Rows /\ row.test = plan[pos] /\ row.result = outcome
    BY <2>1 DEF Row, Rows, ResultsInv, test
  <2>3. results' = Append(results, row)
    BY <1>4 DEF Judge
  <2> HIDE DEF row
  <2>4. Len(results) = pos - 1 /\ Len(report) = pos /\ report[pos] = Row(plan[pos], Verdict(outcome))
    BY <1>4 DEF Judge, ResultsInv, Within, test
  <2>5. /\ results' \in Seq(Rows) /\ Len(results') = pos /\ results'[pos] = row
        /\ \A i \in 1..(pos - 1) : results'[i] = results[i]
    BY SMT, <2>1, <2>2, <2>3, <2>4 DEF ResultsInv
  <2>6. UNCHANGED <<plan, outcome, report>> /\ pc = "judge"
    BY <1>4 DEF Judge
  <2>7. /\ final' \in {"ok", "err"}
        /\ (final' = "ok") <=> (\A i \in 1..Len(results') : results'[i].result = "pass")
    BY SMT, <1>4, <2>1, <2>2, <2>4, <2>5 DEF Judge, Conclude, Failed, ResultsInv
  <2>8. \/ pc' = "done" /\ outcome # "pass" /\ plan[pos] \in MustSucceed
        \/ pc' = "connect" /\ pos' = pos + 1 /\ ~(outcome # "pass" /\ plan[pos] \in MustSucceed)
    BY <1>4 DEF Judge, Break, Failed, test
  <2>9. \A i \in 1..Len(results') :
          /\ results'[i].test = plan'[i]
          /\ report'[i] = Row(plan'[i], Verdict(results'[i].result))
          /\ results'[i].result # "pass" /\ plan'[i] \in MustSucceed =>
              i = Len(results') /\ pc' = "done"
    <3> SUFFICES ASSUME NEW i \in 1..pos
                 PROVE /\ results'[i].test = plan[i]
                       /\ report[i] = Row(plan[i], Verdict(results'[i].result))
                       /\ results'[i].result # "pass" /\ plan[i] \in MustSucceed =>
                           i = pos /\ pc' = "done"
      BY <2>5, <2>6
    <3>1. CASE i = pos
      BY <3>1, <2>2, <2>4, <2>5, <2>8
    <3>2. CASE i # pos
      <4>1. i \in 1..Len(results) /\ results'[i] = results[i]
        BY SMT, <3>2, <2>1, <2>4, <2>5
      <4> QED
        BY <4>1, <2>6 DEF ResultsInv
    <3> QED
      BY <3>1, <3>2
  <2> QED
    BY SMT, <2>1, <2>2, <2>4, <2>5, <2>6, <2>7, <2>8, <2>9 DEF ResultsInv, Within
<1>5. CASE LoopEnds
  BY SMT, <1>5 DEF LoopEnds, ResultsInv, SettingsInv, Within
<1>6. CASE Terminated \/ UNCHANGED vars
  <2> UNCHANGED <<plan, pos, pc, outcome, results, report, final>>
    BY <1>6 DEF Terminated, vars
  <2> QED
    BY DEF ResultsInv, test
<1> QED
  BY <1>1, <1>2, <1>3, <1>4, <1>5, <1>6 DEF Next

\* A run of any tests that ends by itself is Ok exactly when no test failed,
\* its report has the row of every test it ran, and it leaves tests out exactly
\* after the failure of one that must succeed (run_tests.rs 118-151).
THEOREM ResultsComplete == Spec => []CompleteRun
<1>1. ResultsInv => CompleteRun
  <2> SUFFICES ASSUME ResultsInv, pc = "done"
               PROVE CompleteRun
    BY DEF CompleteRun
  <2>1. DOMAIN results = 1..Len(results)
    BY SMT DEF ResultsInv
  <2>2. \A i \in DOMAIN results :
          report[i] = Row(plan[i], IF Passed(i) THEN "pass" ELSE "fail")
    BY <2>1 DEF ResultsInv, Passed, Verdict
  <2> QED
    BY <2>1, <2>2 DEF ResultsInv, CompleteRun, Passed
<1> QED
  BY <1>1, SettingsInit, SettingsStep, ResultsInit, ResultsStep, PTL DEF Spec

----------------------------------------------------------------------------
(* The printed records *)

\* run_tests runs no test twice.
Distinct == \A i, j \in 1..Len(plan) : i # j => plan[i] # plan[j]

LEMMA PlansAreDistinct == Init => Distinct
<1> SUFFICES ASSUME Init
             PROVE Distinct
  OBVIOUS
<1>1. PICK matching \in Filters : plan \in PlansFor(Selected(matching))
  BY DEF Init, Plans
<1>2. plan \in Seq(Tests)
  BY PlansAreSequences DEF Init
<1>3. DOMAIN plan = 1..Len(plan)
  BY SMT, <1>2
<1> QED
  BY <1>1, <1>3 DEF Distinct, PlansFor

\* With print_failed_tests_only: the logger buffers exactly while a test is
\* under way and holds at most the records of that test, the tests that ended
\* are printed if they failed, and no later test is printed.
PrintedInv ==
    /\ pc = "connect" => ~buffer /\ stored = {}
    /\ pc = "test" => buffer /\ stored = {}
    /\ pc \in {"logs", "cleanup", "print"} => buffer /\ stored = {test}
    /\ pc \in {"report", "judge"} => ~buffer /\ stored = {} /\ (test \in printed <=> Failed)
    /\ \A i \in 1..Len(results) : plan[i] \in printed <=> results[i].result # "pass"
    /\ pc \in {"connect", "test", "logs", "cleanup", "print"} =>
        \A j \in 1..Len(plan) : j >= pos => plan[j] \notin printed
    /\ pc \in {"report", "judge"} =>
        \A j \in 1..Len(plan) : j > pos => plan[j] \notin printed

PrintedGuarded == Distinct /\ (FailedOnly => PrintedInv)

LEMMA PrintedInit == Init => PrintedGuarded
  BY SMT, PlansAreDistinct DEF Init, PrintedGuarded, PrintedInv

LEMMA PrintedStep ==
    SettingsInv /\ ResultsInv /\ PrintedGuarded /\ [Next]_vars => PrintedGuarded'
<1> SUFFICES ASSUME SettingsInv, ResultsInv, PrintedGuarded, [Next]_vars
             PROVE PrintedGuarded'
  OBVIOUS
<1>0. plan' = plan /\ Distinct'
  BY DEF PrintedGuarded, Distinct, Next, Connect, ConnectPanics, RunTest, FetchLogs,
     CleanupSkipped, CleanupDone, CleanupFails, PrintRecords, Report, ReportFails, Judge,
     LoopEnds, Terminated, vars
<1> SUFFICES ASSUME FailedOnly
             PROVE PrintedInv'
  BY <1>0 DEF PrintedGuarded
<1> PrintedInv /\ Distinct
  BY DEF PrintedGuarded
<1> HIDE DEF Distinct
<1>1. CASE Connect
  <2>1. /\ UNCHANGED <<plan, pos, outcome, stored, printed, results>>
        /\ pc = "connect" /\ pc' = "test" /\ buffer'
    BY <1>1 DEF Connect
  <2> QED
    BY <2>1 DEF PrintedInv
<1>2. CASE ConnectPanics \/ FetchLogs \/ CleanupSkipped \/ CleanupDone \/ CleanupFails
           \/ Report \/ ReportFails
  <2>1. /\ UNCHANGED <<plan, pos, outcome, buffer, stored, printed, results>>
        /\ \/ pc' \in {"panicked", "aborted"}
           \/ pc \in {"logs", "cleanup"} /\ pc' \in {"cleanup", "print"}
           \/ pc = "report" /\ pc' = "judge"
    BY <1>2 DEF ConnectPanics, FetchLogs, CleanupSkipped, CleanupDone, CleanupFails, Report,
       ReportFails, logger
  <2> QED
    BY <2>1 DEF PrintedInv, test, Failed
<1>3. CASE RunTest
  <2>1. /\ UNCHANGED <<plan, pos, buffer, results>> /\ pc = "test" /\ pc' = "logs"
        /\ Log(test)
    BY <1>3 DEF RunTest
  <2>2. stored' = {test} /\ printed' = printed
    BY <2>1 DEF Log, PrintedInv
  <2> QED
    BY <2>1, <2>2 DEF PrintedInv, test
<1>4. CASE PrintRecords
  <2>1. /\ UNCHANGED <<plan, pos, outcome, results>> /\ pc = "print" /\ pc' = "report"
        /\ ~buffer' /\ stored' = {} /\ stored = {test}
        /\ printed' = IF Failed THEN printed \cup {test} ELSE printed
    BY <1>4 DEF PrintRecords, PrintStored, PrintedInv
  <2>2. pos \in 1..Len(plan) /\ Len(results) = pos - 1
    BY SMT, <2>1 DEF SettingsInv, ResultsInv, Within
  <2>3. \A i \in 1..Len(plan) : i # pos => plan[i] # test
    BY <2>2 DEF Distinct, test
  <2>4. test \notin printed
    BY SMT, <2>1, <2>2 DEF PrintedInv, test
  <2>5. \A i \in 1..Len(results) : i \in 1..Len(plan) /\ i # pos
    BY SMT, <2>2
  <2> QED
    BY SMT, <2>1, <2>2, <2>3, <2>4, <2>5 DEF PrintedInv, test, Failed
<1>5. CASE Judge
  <2>1. /\ UNCHANGED <<plan, outcome, buffer, stored, printed>> /\ pc = "judge"
        /\ \/ pc' = "done"
           \/ pc' = "connect" /\ pos' = pos + 1
        /\ results' = Append(results, Row(test, outcome))
    BY <1>5 DEF Judge, logger
  <2>2. pos \in 1..Len(plan) /\ Len(results) = pos - 1 /\ test \in Tests /\ outcome \in Outcomes
    BY SMT, <2>1, TestIsRegistered DEF SettingsInv, ResultsInv, Within
  <2>3. Row(test, outcome) \in Rows
    BY <2>2 DEF Row, Rows
  <2>4. /\ Len(results') = pos /\ results'[pos].result = outcome
        /\ \A i \in 1..(pos - 1) : results'[i] = results[i]
    BY SMT, <2>1, <2>2, <2>3 DEF ResultsInv, Row
  <2>5. \A i \in 1..Len(results') : plan[i] \in printed <=> results'[i].result # "pass"
    <3> SUFFICES ASSUME NEW i \in 1..pos
                 PROVE plan[i] \in printed <=> results'[i].result # "pass"
      BY <2>4
    <3>1. CASE i = pos
      BY <3>1, <2>1, <2>4 DEF PrintedInv, test, Failed
    <3>2. CASE i # pos
      BY SMT, <3>2, <2>2, <2>4 DEF PrintedInv
    <3> QED
      BY <3>1, <3>2
  <2>6. \A j \in 1..Len(plan) : j >= pos + 1 => plan[j] \notin printed
    BY SMT, <2>1, <2>2 DEF PrintedInv
  <2> QED
    BY <2>1, <2>5, <2>6 DEF PrintedInv
<1>6. CASE LoopEnds
  BY <1>6 DEF LoopEnds, PrintedInv, logger
<1>7. CASE Terminated \/ UNCHANGED vars
  <2> UNCHANGED <<plan, pos, pc, outcome, buffer, stored, printed, results>>
    BY <1>7 DEF Terminated, vars
  <2> QED
    BY DEF PrintedInv, test, Failed
<1> QED
  BY <1>1, <1>2, <1>3, <1>4, <1>5, <1>6, <1>7 DEF Next

\* For any tests and any failures around them, print_failed_tests_only shows
\* the records of a test that ended if and only if it failed: nothing a test
\* logged is lost, printed for another one, or kept for the next
\* (run_tests.rs 82-85, 106-114; logging.rs 64-84).
THEOREM FailuresShown == Spec => []FailuresPrinted
<1>1. ResultsInv /\ PrintedGuarded => FailuresPrinted
  BY SMT DEF ResultsInv, PrintedGuarded, PrintedInv, FailuresPrinted, Passed
<1> QED
  BY <1>1, SettingsInit, SettingsStep, ResultsInit, ResultsStep, PrintedInit, PrintedStep, PTL
     DEF Spec

----------------------------------------------------------------------------
(* The table *)

\* The i-th row of the report is that of the i-th test, and a run that was cut
\* short lacks the row of the test it was at, or has a part of it.
RowsInv ==
    /\ \A i \in 1..Len(report) : i <= Len(plan) /\ report[i].test = plan[i]
    /\ pc \in {"aborted", "panicked"} =>
        /\ pos <= Len(plan) /\ Len(report) <= pos
        /\ Len(report) = pos => report[pos].result = "torn"

LEMMA RowsInit == Init => RowsInv
  BY SMT DEF Init, RowsInv

LEMMA RowsStep == SettingsInv /\ ResultsInv /\ RowsInv /\ [Next]_vars => RowsInv'
<1> SUFFICES ASSUME SettingsInv, ResultsInv, RowsInv, [Next]_vars
             PROVE RowsInv'
  OBVIOUS
<1>1. CASE Connect \/ ConnectPanics \/ RunTest \/ FetchLogs \/ CleanupSkipped \/ CleanupDone
           \/ CleanupFails \/ PrintRecords
  <2>1. /\ UNCHANGED <<plan, pos, report>> /\ pos <= Len(plan)
        /\ pc \in (Within \ {"judge"}) \cup {"connect"}
    BY <1>1 DEF SettingsInv, Within, Connect, ConnectPanics, RunTest, FetchLogs, CleanupSkipped,
       CleanupDone, CleanupFails, PrintRecords
  <2>2. Len(report) = pos - 1 /\ pos \in Nat
    BY <2>1 DEF ResultsInv, SettingsInv
  <2> QED
    BY SMT, <2>1, <2>2 DEF RowsInv
<1>2. CASE Report \/ ReportFails
  <2>1. /\ UNCHANGED <<plan, pos>> /\ pc = "report" /\ pc' \in {"judge", "aborted"}
        /\ \/ report' = report
           \/ \E r \in {"pass", "fail", "torn"} :
                report' = Append(report, Row(test, r)) /\ (r = "torn" \/ pc' = "judge")
    BY <1>2 DEF Report, ReportFails, WriteRow
  <2>2. pos \in 1..Len(plan) /\ Len(report) = pos - 1 /\ test \in Tests
    BY SMT, <2>1, TestIsRegistered DEF ResultsInv, SettingsInv, Within
  <2>3. CASE report' = report
    BY SMT, <2>1, <2>2, <2>3 DEF RowsInv
  <2>4. ASSUME NEW r \in {"pass", "fail", "torn"}, report' = Append(report, Row(test, r)),
               r = "torn" \/ pc' = "judge"
        PROVE RowsInv'
    <3>1. Row(test, r) \in ReportRows /\ Row(test, r).test = plan[pos] /\ Row(test, r).result = r
      BY <2>2 DEF ReportRows, Row, test
    <3>2. /\ Len(report') = pos /\ report'[pos] = Row(test, r)
          /\ \A i \in 1..(pos - 1) : report'[i] = report[i]
      BY SMT, <2>2, <2>4, <3>1 DEF ResultsInv
    <3> QED
      BY SMT, <2>1, <2>2, <2>4, <3>1, <3>2 DEF RowsInv
  <2> QED
    BY <2>1, <2>3, <2>4
<1>3. CASE Judge
  BY <1>3 DEF Judge, RowsInv
<1>4. CASE LoopEnds
  BY <1>4 DEF LoopEnds, RowsInv
<1>5. CASE Terminated \/ UNCHANGED vars
  BY <1>5 DEF Terminated, vars, RowsInv
<1> QED
  BY <1>1, <1>2, <1>3, <1>4, <1>5 DEF Next

\* When no test has two rows, the counter of a table says that all tests passed
\* only if every registered test has a row, and it is a pass.
LEMMA AllPassedMeans ==
    ASSUME AllPassed(report), NEW t \in Tests, report \in Seq(ReportRows),
           \A i, j \in DOMAIN report : report[i].test = report[j].test => i = j
    PROVE \E i \in DOMAIN report : report[i].test = t /\ report[i].result = "pass"
<1> DEFINE P == {u \in Tests : Cell(report, u) = "pass"}
           at == {i \in DOMAIN report : report[i].test = t}
           last == CHOOSE i \in at : \A j \in at : j <= i
<1>1. Cell(report, t) = "pass"
  <2>1. P \in SUBSET Tests /\ Cardinality(Tests) = Cardinality(P)
    BY DEF AllPassed
  <2> HIDE DEF P
  <2>2. Tests = P
    BY <2>1, TestsAssumption, FS_Subset
  <2> QED
    BY <2>2 DEF P
<1>2. at # {} /\ report[last].result = "pass"
  BY <1>1 DEF Cell
<1>3. PICK i \in at : TRUE
  BY <1>2
<1>4. at = {i} /\ i \in Nat
  BY SMT, <1>3
<1> HIDE DEF at
<1>5. last = i
  BY SMT, <1>4
<1> QED
  BY <1>2, <1>3, <1>5 DEF at

\* Whatever ended the run, and whatever was written of the last row, a report
\* whose counter shows that all tests passed belongs to a run that ran every
\* registered test and returned Ok (summary.rs 122-150 and 182-190,
\* run_tests.rs 120-151).
THEOREM TableHonest == Spec => []TableIsHonest
<1>1. SettingsInv /\ ResultsInv /\ Distinct /\ RowsInv => TableIsHonest
  <2> SUFFICES ASSUME SettingsInv, ResultsInv, Distinct, RowsInv, Ended, AllPassed(report)
               PROVE pc = "done" /\ final = "ok" /\ Len(results) = Cardinality(Tests)
    BY DEF TableIsHonest
  <2> DEFINE n == Len(report)
  <2>1. n \in Nat /\ DOMAIN report = 1..n
    BY SMT DEF ResultsInv
  <2>2. \A i \in 1..n : i \in 1..Len(plan) /\ report[i].test = plan[i] /\ plan[i] \in Tests
    <3> SUFFICES ASSUME NEW i \in 1..n
                 PROVE i \in 1..Len(plan) /\ report[i].test = plan[i] /\ plan[i] \in Tests
      OBVIOUS
    <3>1. plan \in Seq(Tests)
      BY DEF SettingsInv
    <3>2. i \in 1..Len(plan) /\ report[i].test = plan[i]
      BY SMT, <3>1 DEF RowsInv
    <3> QED
      BY SMT, <3>1, <3>2
  <2>3. \A i, j \in 1..n : report[i].test = report[j].test => i = j
    BY <2>2 DEF Distinct
  <2>4. \A t \in Tests : \E i \in 1..n : plan[i] = t /\ report[i].result = "pass"
    <3> SUFFICES ASSUME NEW t \in Tests
                 PROVE \E i \in 1..n : plan[i] = t /\ report[i].result = "pass"
      OBVIOUS
    <3>1. report \in Seq(ReportRows)
      BY DEF ResultsInv
    <3> HIDE DEF n
    <3>2. PICK i \in 1..n : report[i].test = t /\ report[i].result = "pass"
      BY <2>1, <2>3, <3>1, AllPassedMeans
    <3> QED
      BY <3>2, <2>2
  <2>5. \A i \in 1..n : report[i].result = "pass"
    BY SMT, <2>2, <2>3, <2>4
  <2>6. pc = "done"
    <3> SUFFICES ASSUME pc \in {"aborted", "panicked"}
                 PROVE FALSE
      BY DEF Ended
    <3>1. pos \in 1..Len(plan) /\ plan[pos] \in Tests
      BY SMT DEF RowsInv, SettingsInv
    <3>2. n <= pos /\ (n = pos => report[pos].result = "torn")
      BY DEF RowsInv
    <3> HIDE DEF n
    <3>3. PICK i \in 1..n : plan[i] = plan[pos]
      BY <2>4, <3>1
    <3>4. i = pos
      BY <2>2, <3>1, <3>3 DEF Distinct
    <3>5. n = pos
      BY SMT, <2>1, <3>1, <3>2, <3>4
    <3> QED
      BY <2>5, <3>2, <3>4, <3>5
  <2>7. Len(results) = n /\ \A i \in 1..n : results[i].result = "pass"
    <3>1. Len(results) = n
      BY <2>6 DEF ResultsInv
    <3>2. \A i \in 1..n : report[i] = Row(plan[i], Verdict(results[i].result))
      BY <3>1 DEF ResultsInv
    <3> HIDE DEF n
    <3>3. \A i \in 1..n : Verdict(results[i].result) = "pass"
      <4> TAKE i \in 1..n
      <4>1. report[i] = Row(plan[i], Verdict(results[i].result)) /\ report[i].result = "pass"
        BY <2>5, <3>2
      <4> QED
        BY SMT, <4>1 DEF Row
    <3> QED
      BY <3>1, <3>3 DEF Verdict
  <2>8. n = Cardinality(Tests)
    <3> DEFINE f == [i \in 1..n |-> plan[i]]
    <3> HIDE DEF n
    <3>1. f \in [1..n -> Tests]
      BY <2>2
    <3>2. \A i, j \in 1..n : f[i] = f[j] => i = j
      BY <2>2, <2>3
    <3>3. \A t \in Tests : \E i \in 1..n : f[i] = t
      BY <2>4
    <3> HIDE DEF f
    <3>4. f \in Bijection(1..n, Tests)
      BY <3>1, <3>2, <3>3, Fun_IsBij
    <3>5. ExistsBijection(1..n, Tests)
      BY <3>4 DEF ExistsBijection
    <3>6. IsFiniteSet(1..n) /\ Cardinality(1..n) = n
      BY SMT, <2>1, FS_Interval
    <3> QED
      BY <3>5, <3>6, FS_Bijection
  <2> QED
    BY <2>6, <2>7, <2>8 DEF ResultsInv
<1> QED
  BY <1>1, SettingsInit, SettingsStep, ResultsInit, ResultsStep, PrintedInit, PrintedStep,
     RowsInit, RowsStep, PTL DEF Spec, PrintedGuarded

----------------------------------------------------------------------------
(* What a test leaves to the next *)

\* f was changed by a test whose settings were left as they were, and so were
\* those of every test from it to the n-th.
LeftBy(f, n) ==
    \E i \in 1..n : f \in Touches[plan[i]] /\ \A j \in i..n : Exempt(j)

\* The settings that DEFAULT_SETTINGS holds are those of a fresh install, as
\* nothing but a relay can differ from it while they are not read; and what
\* differs was left by the tests before, or by the current one, of which
\* nothing is left once it was cleaned up.
IsolationInv ==
    /\ "saved" \notin defaults
    /\ defaults = NotSet => "saved" \notin changed
    /\ pc \in {"connect", "test"} => \A f \in changed : LeftBy(f, pos - 1)
    /\ pc \in {"logs", "cleanup", "print", "report", "judge"} =>
        \A f \in changed : f \in Touches[test] \/ LeftBy(f, pos - 1)
    /\ pc \in {"print", "report", "judge"} /\ CleanupNeeded => changed = {}

LEMMA IsolationInit == Init => IsolationInv
  BY DEF Init, IsolationInv, NotSet

LEMMA IsolationStep ==
    SettingsInv /\ ResultsInv /\ IsolationInv /\ [Next]_vars => IsolationInv'
<1> SUFFICES ASSUME SettingsInv, ResultsInv, IsolationInv, [Next]_vars
             PROVE IsolationInv'
  OBVIOUS
<1>0. ASSUME UNCHANGED <<plan, results>>, NEW f, NEW n
      PROVE LeftBy(f, n)' <=> LeftBy(f, n)
  BY <1>0 DEF LeftBy, Exempt, Passed
<1> USE DEF test, CleanupNeeded, Failed
<1>1. CASE Connect
  <2>1. /\ UNCHANGED <<plan, pos, changed, results>> /\ pc = "connect" /\ pc' = "test"
        /\ \/ defaults' = defaults
           \/ defaults = NotSet /\ defaults' = changed
    BY <1>1 DEF Connect, Capture
  <2> QED
    BY <1>0, <2>1 DEF IsolationInv
<1>2. CASE ConnectPanics \/ FetchLogs
  <2>1. /\ UNCHANGED <<plan, pos, changed, defaults, results>>
        /\ \/ pc' \in {"panicked", "aborted"}
           \/ pc = "logs" /\ pc' = "cleanup"
    BY <1>2 DEF ConnectPanics, FetchLogs, guest
  <2> QED
    BY <1>0, <2>1 DEF IsolationInv
<1>3. CASE RunTest
  <2>1. UNCHANGED <<plan, pos, defaults, results>> /\ pc = "test" /\ pc' = "logs"
    BY <1>3 DEF RunTest
  <2>2. test \in Tests
    BY <2>1, TestIsRegistered DEF Within
  <2>3. \E fields \in SUBSET Touches[test] : changed' \in {{}, changed, changed \cup fields}
    BY <1>3, <2>2, TestsAssumption DEF RunTest, Effect, guest
  <2>4. \A f \in changed' : f \in changed \/ f \in Touches[test]
    BY <2>3
  <2>5. defaults = NotSet => "saved" \notin Touches[test]
    BY <2>1, <2>2, OldClientAssumption DEF SettingsInv
  <2> QED
    BY <1>0, <2>1, <2>4, <2>5 DEF IsolationInv
<1>4. CASE CleanupSkipped
  <2>1. /\ UNCHANGED <<plan, pos, outcome, changed, defaults, results>>
        /\ pc = "cleanup" /\ pc' = "print" /\ ~CleanupNeeded
    BY <1>4 DEF CleanupSkipped, guest
  <2> QED
    BY <1>0, <2>1 DEF IsolationInv
<1>5. CASE CleanupDone
  <2>1. /\ UNCHANGED <<plan, pos, outcome, defaults, results>>
        /\ \/ pc' = "panicked" /\ UNCHANGED changed
           \/ pc' = "print" /\ defaults # NotSet /\ changed' = defaults \ {"relay"}
    BY <1>5 DEF CleanupDone, Restored
  <2>2. defaults # NotSet => defaults \ {"relay"} = {}
    BY DEF IsolationInv, SettingsInv, Fields
  <2> QED
    BY <2>1, <2>2 DEF IsolationInv
<1>6. CASE CleanupFails
  <2>1. UNCHANGED defaults /\ pc' = "aborted" /\ changed' \subseteq changed
    BY <1>6 DEF CleanupFails
  <2> QED
    BY <2>1 DEF IsolationInv
<1>7. CASE PrintRecords \/ Report \/ ReportFails
  <2>1. /\ UNCHANGED <<plan, pos, outcome, changed, defaults, results>>
        /\ \/ pc' = "aborted"
           \/ pc \in {"print", "report"} /\ pc' \in {"report", "judge"}
    BY <1>7 DEF PrintRecords, Report, ReportFails, guest
  <2> QED
    BY <1>0, <2>1 DEF IsolationInv
<1>8. CASE Judge
  <2>1. /\ UNCHANGED <<plan, outcome, changed, defaults>> /\ pc = "judge"
        /\ \/ pc' = "done"
           \/ pc' = "connect" /\ pos' = pos + 1
        /\ results' = Append(results, Row(test, outcome))
    BY <1>8 DEF Judge, guest
  <2>2. pos \in 1..Len(plan) /\ Len(results) = pos - 1 /\ test \in Tests /\ outcome \in Outcomes
    BY SMT, <2>1, TestIsRegistered DEF SettingsInv, ResultsInv, Within
  <2>3. Row(test, outcome) \in Rows /\ Row(test, outcome).result = outcome
    BY <2>2 DEF Row, Rows
  <2>4. /\ results'[pos].result = outcome
        /\ \A i \in 1..(pos - 1) : results'[i] = results[i]
    BY SMT, <2>1, <2>2, <2>3 DEF ResultsInv
  <2>5. \A i \in 1..(pos - 1) : Exempt(i) => Exempt(i)'
    BY <2>1, <2>4 DEF Exempt, Passed
  <2>6. PICK last \in 1..Len(plan) : last = pos
    BY <2>2
  <2>7. ~CleanupNeeded => Exempt(last)'
    BY <2>1, <2>4, <2>6 DEF Exempt, Passed
  <2>8. ASSUME NEW f \in changed
        PROVE LeftBy(f, last)'
    <3>1. ~CleanupNeeded
      BY <2>1, <2>8 DEF IsolationInv
    <3>2. CASE f \in Touches[test]
      <4>1. last \in 1..last /\ f \in Touches[plan'[last]] /\ \A j \in last..last : j = last
        BY SMT, <2>1, <2>6, <3>2
      <4> QED
        BY <2>7, <3>1, <4>1 DEF LeftBy
    <3>3. CASE LeftBy(f, pos - 1)
      <4>1. PICK i \in 1..(last - 1) :
              f \in Touches[plan[i]] /\ \A j \in i..(last - 1) : Exempt(j)
        BY <2>6, <3>3 DEF LeftBy
      <4>2. i \in 1..last /\ \A j \in i..last : j = last \/ j \in i..(last - 1)
        BY SMT
      <4>3. \A j \in i..last : Exempt(j)'
        BY SMT, <2>5, <2>6, <2>7, <3>1, <4>1, <4>2
      <4> QED
        BY <2>1, <4>1, <4>2, <4>3 DEF LeftBy
    <3> QED
      BY <2>1, <3>2, <3>3 DEF IsolationInv
  <2>9. CASE pc' = "done"
    BY <2>1, <2>9 DEF IsolationInv
  <2>10. CASE pc' = "connect"
    <3>1. (pos - 1)' = last
      BY SMT, <2>1, <2>6, <2>10
    <3>2. \A f \in changed : LeftBy(f, pos - 1)'
      BY <2>8, <3>1 DEF LeftBy
    <3> QED
      BY <2>1, <2>10, <3>2 DEF IsolationInv
  <2> QED
    BY <2>1, <2>9, <2>10
<1>9. CASE LoopEnds
  BY <1>9 DEF LoopEnds, IsolationInv, guest
<1>10. CASE Terminated \/ UNCHANGED vars
  <2> UNCHANGED <<plan, pos, pc, outcome, changed, defaults, results>>
    BY <1>10 DEF Terminated, vars
  <2> QED
    BY <1>0 DEF IsolationInv
<1> QED
  BY <1>1, <1>2, <1>3, <1>4, <1>5, <1>6, <1>7, <1>8, <1>9, <1>10 DEF Next

\* For any tests, of which only those with the new client change what
\* DEFAULT_SETTINGS restores, a test starts with the settings of a fresh
\* install except for what the tests since the last cleanup left (run_tests.rs
\* 76-78, 97-104; tests/mod.rs 66-162).
THEOREM TestsIsolated == Spec => []Isolated
<1>1. IsolationInv => Isolated
  BY DEF IsolationInv, Isolated, LeftBy
<1> QED
  BY <1>1, SettingsInit, SettingsStep, ResultsInit, ResultsStep, IsolationInit, IsolationStep, PTL
     DEF Spec
=============================================================================
