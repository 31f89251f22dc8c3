------------------------------ MODULE AppInstall ------------------------------
(***************************************************************************)
(* The tests that install, upgrade and remove the app (tests/install.rs),   *)
(* the requests they make of the test runner (test-runner/src/package.rs,   *)
(* app.rs) and the deadline of those requests (test-rpc/src/client.rs).     *)
(* The package managers, the installers and the app's daemon are external.  *)
(* The leaks test_upgrade_app looks for are in LeakTests.                   *)
(***************************************************************************)
EXTENDS Naturals, Sequences, FiniteSets, Functions

CONSTANTS
  Scenarios,           \* records [os, tests, app, prompt]
  MaxInstallAttempts,  \* MAX_INSTALL_ATTEMPTS of install_rpm
  MaxFaults            \* things that go wrong in the guest, at most

\* A run selects tests of the list, which is sorted by priority: the test that
\* installs the previous app comes before all others.
ASSUME ScenarioAssumption ==
  \A s \in Scenarios :
    /\ s.tests \in Seq({"previous", "upgrade", "uninstall", "new"}) /\ s.tests # <<>>
    /\ \A t \in 2..Len(s.tests) : s.tests[t] # "previous"
    /\ s.prompt \in BOOLEAN

ASSUME BoundsAssumption == MaxInstallAttempts \in Nat \ {0} /\ MaxFaults \in Nat

VARIABLES
  scn,      \* os; tests: those the run selects, in order; app: version found
            \* in the guest, if any; prompt: the daemon is up when its installer
            \* returns
  turn,     \* the current test
  pc,       \* index of the next step of its script; 0 once it is over
  verdicts, \* verdicts[t]: "none", "pass", "fail"
  version,  \* "none", "old", "new", or "torn": an installer did not finish
  files,    \* what is on the disk of the app
  daemon,   \* "down", "starting", "up"
  setup,    \* what was set up in the installed app: "cert", "env", "level"
  devices,  \* the guest's device is registered
  call,     \* the request: "none", "wait", "ok", "error"
  procs,    \* installers and uninstallers: [turn, op, version, attempt, at,
            \* child]; not a child: what a killed one had started goes on
  found,    \* answer of find_mullvad_app_traces
  began,    \* what the daemon was when this test began; "busy" if an installer
            \* was at work, "broken" if files of a daemon that runs were missing
  faults,   \* how many things went wrong
  reason    \* something went wrong in this test

guest == <<version, files, daemon, setup, devices>>
vars == <<scn, turn, pc, verdicts, guest, call, procs, found, began, faults, reason>>

Files == {"settings", "log", "program", "socket", "unit"}

-----------------------------------------------------------------------------
(* The tests: sequences of steps.                                           *)

Status(s) == [do |-> "status", arg |-> s]
Install(v) == [do |-> "install", arg |-> v]
SetUp(s) == [do |-> "set_up", arg |-> s]
Do(s) == [do |-> s, arg |-> "none"]

InstallPreviousApp ==
  <<Status("down"), Install("old"), Status("up"), SetUp("cert"), SetUp("env")>>

\* Outgoing traffic is blocked and watched during the upgrade, and three seconds
\* pass before the status; the settings are looked at again.
UpgradeApp ==
  <<Status("up"), Do("block"), Install("new"), Do("sleep"), Status("up"), Do("leaks"),
    Do("settings")>>

\* Mutant: the account's devices are not looked at.
UninstallAppDevice ==
  <<Status("up"), Do("login"), Do("uninstall"), Do("traces"), Status("down")>>

UninstallApp ==
  <<Status("up"), Do("login"), Do("uninstall"), Do("traces"), Status("down"), Do("devices")>>

InstallNewApp ==
  <<Status("down"), Install("new"), Status("up"), SetUp("level"), SetUp("cert"), SetUp("env")>>

Script == CASE scn.tests[turn] = "previous" -> InstallPreviousApp
            [] scn.tests[turn] = "upgrade" -> UpgradeApp
            [] scn.tests[turn] = "uninstall" -> UninstallApp
            [] scn.tests[turn] = "new" -> InstallNewApp

Doing(d) == pc > 0 /\ Script[pc].do = d
Arg == Script[pc].arg

-----------------------------------------------------------------------------
(* find_traces                                                              *)

TraceList ==
  CASE scn.os = "windows" -> <<"program", "log", "settings">>
    [] scn.os = "macos" -> <<"program", "log", "socket", "unit">>
    [] OTHER -> <<"settings", "log", "program", "socket", "unit">>

SwapRemove(s, k) == [j \in 1..Len(s) - 1 |-> IF j = k THEN s[Len(s)] ELSE s[j]]

\* Mutant: the loop goes forward, over the elements that are swapped in.
FilterForward(paths) ==
  LET f[i \in 0..Len(paths)] ==
        IF i = 0 THEN paths
        ELSE IF i > Len(f[i - 1]) \/ f[i - 1][i] \in files THEN f[i - 1]
        ELSE SwapRemove(f[i - 1], i)
  IN f[Len(paths)]

\* From the last path to the first, a path that does not exist is replaced by
\* the one that is last then.
FilterNonExistentPaths(paths) ==
  LET n == Len(paths)
      f[i \in 0..n] ==
        IF i = 0 THEN paths
        ELSE IF f[i - 1][n - i + 1] \in files THEN f[i - 1]
        ELSE SwapRemove(f[i - 1], n - i + 1)
  IN f[n]

-----------------------------------------------------------------------------

Init ==
  /\ scn \in Scenarios
  /\ turn = 1 /\ pc = 1 /\ verdicts = [t \in DOMAIN scn.tests |-> "none"]
  /\ version = scn.app
  /\ files = IF scn.app = "none" THEN {} ELSE Files
  /\ daemon = IF scn.app = "none" THEN "down" ELSE "up"
  /\ setup = {} /\ devices = FALSE
  /\ call = "none" /\ procs = {} /\ found = <<>>
  /\ faults = 0 /\ reason = FALSE /\ began = daemon

\* A fault; the current test has a reason to fail.
Fault == faults < MaxFaults /\ faults' = faults + 1 /\ reason' = TRUE
NoFault == UNCHANGED <<faults, reason>>

\* The step is done: the next one, or the test has passed.
Proceed ==
  IF pc < Len(Script)
  THEN pc' = pc + 1 /\ UNCHANGED verdicts
  ELSE pc' = 0 /\ verdicts' = [verdicts EXCEPT ![turn] = "pass"]

Fails == pc' = 0 /\ verdicts' = [verdicts EXCEPT ![turn] = "fail"]

\* mullvad_daemon_get_status looks for the daemon's socket.
CheckStatus ==
  /\ Doing("status")
  /\ IF (daemon = "up") = (Arg = "up") THEN Proceed ELSE Fails
  /\ UNCHANGED <<scn, turn, guest, call, procs, found, began, faults, reason>>

\* copy_file, set_daemon_environment, set_daemon_log_level: the last two start
\* the daemon again (DaemonService).
SetUpApp ==
  /\ Doing("set_up")
  /\ \/ NoFault /\ Proceed /\ setup' = setup \cup {Arg}
     \/ Fault /\ Fails /\ UNCHANGED setup
  /\ UNCHANGED <<scn, turn, version, files, daemon, devices, call, procs, found, began>>

\* clear_devices (a removal that fails is only logged), the relay settings, the
\* error state, and the monitor.
Block ==
  /\ Doing("block")
  /\ \/ NoFault /\ Proceed /\ devices' \in {FALSE, devices}
     \/ Fault /\ Fails /\ UNCHANGED devices
  /\ UNCHANGED <<scn, turn, version, files, daemon, setup, call, procs, found, began>>

\* The monitor has seen nothing (LeakTests).
CheckLeaks ==
  /\ Doing("leaks")
  /\ (NoFault /\ Proceed) \/ (Fault /\ Fails)
  /\ UNCHANGED <<scn, turn, guest, call, procs, found, began>>

\* The upgraded daemon has its time to start.
Sleep ==
  /\ Doing("sleep") /\ Proceed
  /\ scn.prompt => daemon # "starting"
  /\ UNCHANGED <<scn, turn, guest, call, procs, found, began, faults, reason>>

\* The relay location of the old app is still set: a torn app has lost it.
CheckSettings ==
  /\ Doing("settings")
  /\ \/ NoFault /\ (IF "settings" \in files THEN Proceed ELSE Fails)
     \/ Fault /\ Fails
  /\ UNCHANGED <<scn, turn, guest, call, procs, found, began>>

Login ==
  /\ Doing("login")
  /\ \/ NoFault /\ Proceed /\ devices' = TRUE
     \/ Fault /\ Fails /\ UNCHANGED devices
  /\ UNCHANGED <<scn, turn, version, files, daemon, setup, call, procs, found, began>>

\* The answer, or the error of a path that could not be looked at.
FindTraces ==
  /\ Doing("traces")
  /\ \/ /\ NoFault /\ found' = FilterNonExistentPaths(TraceList)
        /\ IF found' = <<>> THEN Proceed ELSE Fails
     \/ Fault /\ Fails /\ UNCHANGED found
  /\ UNCHANGED <<scn, turn, guest, call, procs, began>>

CheckDevices ==
  /\ Doing("devices")
  /\ \/ NoFault /\ (IF devices THEN Fails ELSE Proceed)
     \/ Fault /\ Fails
  /\ UNCHANGED <<scn, turn, guest, call, procs, found, began>>

-----------------------------------------------------------------------------
(* install_app and uninstall_app.                                           *)

\* get_distribution knows three systems; the Windows uninstaller is copied from
\* the program's directory, and macOS runs the one it finds there.
CanRun(op) ==
  /\ scn.os # "arch"
  /\ op = "uninstall" /\ scn.os \in {"windows", "macos"} => "program" \in files

Child(op) ==
  [turn |-> turn, op |-> op, version |-> Arg, attempt |-> 1, at |-> "start", child |-> TRUE]

\* Mutant: the request does not wait for the installer it has started.
BeginNoWait ==
  /\ Doing("install") \/ Doing("uninstall")
  /\ call = "none"
  /\ LET op == Script[pc].do IN
       IF CanRun(op) THEN call' = "ok" /\ procs' = procs \cup {Child(op)}
                     ELSE call' = "error" /\ UNCHANGED procs
  /\ UNCHANGED <<scn, turn, pc, verdicts, guest, found, began, faults, reason>>

Begin ==
  /\ Doing("install") \/ Doing("uninstall")
  /\ call = "none"
  /\ LET op == Script[pc].do IN
       IF CanRun(op) THEN call' = "wait" /\ procs' = procs \cup {Child(op)}
                     ELSE call' = "error" /\ UNCHANGED procs
  /\ UNCHANGED <<scn, turn, pc, verdicts, guest, found, began, faults, reason>>

\* The manager waits for the end of this one.
Serves(p) == p.child /\ p.turn = turn /\ call = "wait"

Becomes(p, q) == procs' = (procs \ {p}) \cup {q}
At(p, w) == p \in procs /\ p.at = w

\* The installer stops an old daemon and unpacks: until it is done the app is torn.
Unpack(p) ==
  /\ At(p, "start") /\ p.op = "install" /\ Becomes(p, [p EXCEPT !.at = "middle"])
  /\ version' = "torn" /\ daemon' = "down" /\ setup' = setup \cap {"env", "level"}
  /\ files' = (files \cup {"program", "log"}) \ {"socket"}
  /\ UNCHANGED <<scn, turn, pc, verdicts, devices, call, found, began, faults, reason>>

\* It registers the service and starts it.
Finish(p) ==
  /\ At(p, "middle") /\ p.op = "install" /\ Becomes(p, [p EXCEPT !.at = "exit"])
  /\ version' = p.version /\ daemon' = "starting" /\ files' = Files \ {"socket"}
  /\ UNCHANGED <<scn, turn, pc, verdicts, setup, devices, call, found, began, faults, reason>>

\* The uninstaller stops the daemon and removes the device ...
StopApp(p) ==
  /\ At(p, "start") /\ p.op = "uninstall" /\ Becomes(p, [p EXCEPT !.at = "middle"])
  /\ daemon' = "down" /\ version' = "torn" /\ files' = files \ {"socket"}
  /\ \/ devices' = FALSE /\ NoFault
     \/ devices /\ Fault /\ UNCHANGED devices
  /\ UNCHANGED <<scn, turn, pc, verdicts, setup, call, found, began>>

\* ... and then the files, of which it may leave some.
RemoveFiles(p) ==
  /\ At(p, "middle") /\ p.op = "uninstall" /\ Becomes(p, [p EXCEPT !.at = "exit"])
  /\ version' = "none" /\ setup' = {}
  /\ \/ files' = {} /\ NoFault
     \/ Fault /\ \E left \in (SUBSET files) \ {{}} : files' = left
  /\ UNCHANGED <<scn, turn, pc, verdicts, daemon, devices, call, found, began>>

\* result_from_output, for a child that the request waits for.
Exit(p) ==
  /\ At(p, "exit") /\ procs' = procs \ {p}
  /\ scn.prompt => daemon # "starting"
  /\ call' = IF Serves(p) THEN "ok" ELSE call
  /\ UNCHANGED <<scn, turn, pc, verdicts, guest, found, began, faults, reason>>

\* One stops half way.  It needs no fault of its own if it is what a killed one
\* had started, or if another holds the lock of the package manager.
ExitFailed(p) ==
  /\ At(p, "start") \/ At(p, "middle")
  /\ procs' = procs \ {p}
  /\ IF Serves(p) /\ procs = {p} THEN Fault ELSE NoFault
  /\ call' = IF Serves(p) THEN "error" ELSE call
  /\ UNCHANGED <<scn, turn, pc, verdicts, guest, found, began>>

\* Mutant: one attempt less.
RetriesOneLess(p) == p.attempt + 1 < MaxInstallAttempts

Retries(p) == p.attempt < MaxInstallAttempts

\* dnf "Failed to download": install_rpm runs it again, after a pause.  Only the
\* last failure of all is a reason for the test to fail.
DownloadFails(p) ==
  /\ scn.os = "fedora" /\ At(p, "start") /\ p.op = "install" /\ p.child
  /\ IF Retries(p)
     THEN Becomes(p, [p EXCEPT !.attempt = @ + 1]) /\ UNCHANGED call
     ELSE procs' = procs \ {p} /\ call' = IF Serves(p) THEN "error" ELSE call
  /\ reason' = (reason \/ p.attempt = MaxInstallAttempts)
  /\ UNCHANGED <<scn, turn, pc, verdicts, guest, found, began, faults>>

\* kill_on_drop: the child is killed; what it has started itself may go on, as a
\* script of the package does.
Killed(p) ==
  \/ procs' = procs \ {p} /\ NoFault
  \/ Becomes(p, [p EXCEPT !.child = FALSE]) /\ Fault

\* Each side reads its own clock.  When the deadline passes in the guest, the
\* request's future is dropped and no answer is sent.
GuestDeadline(p) ==
  /\ p.child /\ Killed(p)
  /\ UNCHANGED <<scn, turn, pc, verdicts, guest, call, found, began>>

\* Mutant: the request has no deadline.
DeadlineNever == FALSE /\ UNCHANGED vars

\* INSTALL_TIMEOUT on the manager's side, of which the guest is not told.
Deadline ==
  /\ call = "wait" /\ call' = "error" /\ reason' = TRUE
  /\ UNCHANGED <<scn, turn, pc, verdicts, guest, procs, found, began, faults>>

Return ==
  /\ call \in {"ok", "error"} /\ call' = "none"
  /\ IF call = "ok" THEN Proceed ELSE Fails
  /\ UNCHANGED <<scn, turn, guest, procs, found, began, faults, reason>>

DaemonUp ==
  /\ daemon = "starting" /\ daemon' = "up" /\ files' = files \cup {"socket"}
  /\ UNCHANGED <<scn, turn, pc, verdicts, version, setup, devices, call, procs, found, began, faults, reason>>

\* The next test, which a failure of one that must succeed prevents.
NextTest ==
  /\ pc = 0 /\ turn < Len(scn.tests)
  /\ ~(scn.tests[turn] = "new" /\ verdicts[turn] = "fail")
  /\ turn' = turn + 1 /\ pc' = 1 /\ reason' = FALSE /\ found' = <<>>
  /\ began' = IF procs # {} THEN "busy"
              ELSE IF daemon # "down" /\ ~(Files \ {"socket"} \subseteq files) THEN "broken"
              ELSE daemon
  /\ UNCHANGED <<scn, verdicts, guest, call, procs, faults>>

Test ==
  \/ CheckStatus \/ SetUpApp \/ Block \/ Sleep \/ CheckLeaks \/ CheckSettings \/ Login
  \/ FindTraces \/ CheckDevices \/ Begin \/ Return \/ NextTest

Installer(p) ==
  \/ Unpack(p) \/ Finish(p) \/ StopApp(p) \/ RemoveFiles(p) \/ Exit(p)
  \/ ExitFailed(p) \/ DownloadFails(p)

Next ==
  \/ Test \/ Deadline \/ DaemonUp
  \/ \E p \in procs : Installer(p) \/ GuestDeadline(p)

Spec == Init /\ [][Next]_vars

\* An installer may hang: nothing is assumed of it, only of the two deadlines.
FairSpec ==
  /\ Spec /\ WF_vars(Test) /\ WF_vars(Deadline) /\ WF_vars(DaemonUp)
  /\ WF_vars(\E p \in procs : GuestDeadline(p))

-----------------------------------------------------------------------------
(* Properties.                                                              *)

Over(test, verdict) == pc = 0 /\ scn.tests[turn] = test /\ verdicts[turn] = verdict

\* The tests that install need a guest without a daemon, the others one with it.
Needed == IF scn.tests[turn] \in {"previous", "new"} THEN "down" ELSE "up"

\* An installer outlives its request only in a test that fails, because of a
\* deadline: a test whose request was answered goes on with none of its own at
\* work (wait_with_output, NSIS's fork), and no request, retries included, ever
\* has two.
NoInstallerLeft ==
  \A p \in procs :
    /\ verdicts[p.turn] = "fail" \/ (p.turn = turn /\ call \in {"wait", "error"})
    /\ \A q \in procs : p.turn = q.turn => p = q

\* What a test that passes says is true of the guest, unless an installer of an
\* earlier test that ran into its deadline was still at work when it began.  The
\* tests that install leave the app they name running and set up, and began on a
\* guest without the app's daemon ("Install the app cleanly"); the one that
\* removes it leaves nothing it lists, no daemon, and no device in the account.
PassedRight ==
  began # "busy" =>
    /\ Over("previous", "pass") =>
         began # "up" /\ version = "old" /\ daemon = "up" /\ setup = {"cert", "env"}
    /\ Over("upgrade", "pass") => version = "new" /\ daemon = "up"
    /\ Over("uninstall", "pass") =>
         files \cap Range(TraceList) = {} /\ daemon = "down" /\ ~devices
    /\ Over("new", "pass") =>
         began # "up" /\ version = "new" /\ daemon = "up" /\ setup = {"cert", "env", "level"}

\* What find_traces answers, if it can look, is what is there, each path once:
\* removing by swapping neither skips a path nor looks at one twice.
TracesExact ==
  [][Doing("traces") /\ pc' # pc =>
       \/ Fault
       \/ /\ Range(found') = files \cap Range(TraceList)
          /\ Len(found') = Cardinality(Range(found'))]_vars

\* On a system that is supported a test fails only if something went wrong in
\* it, or an earlier test left the wrong guest to it, one with an installer still
\* at work included, or the daemon was slow to start: not for a download that
\* failed and can be tried again.
FailsForAReason ==
  pc = 0 /\ verdicts[turn] = "fail" /\ scn.prompt /\ scn.os # "arch" => reason \/ began # Needed

\* The tests end, even if an installer hangs, and then no child that the runner
\* has started is left: the guest's own deadline kills it.
TestsEnd ==
  <>(/\ pc = 0 /\ (turn = Len(scn.tests) \/ Over("new", "fail"))
     /\ \A p \in procs : ~p.child)
=============================================================================
