# Verification of the Mullvad VPN app test framework

TLA+ models of the programs that test the Mullvad VPN app in virtual machines:
the *test manager* on the host, the *test runner* in the guest, and the protocol
between them. Paths below are relative to the repository root, and `PROJECT.json`
maps each definition to the lines it models.

## The system and its parts

The manager (`test-manager`) starts a virtual machine, provisions it, runs the
tests one after the other and reports their results. The runner (`test-runner`)
executes what the tests ask for inside the guest. They share one serial port. Over
it, `test-rpc/src/transport.rs` multiplexes handshakes, tarpc calls to the runner,
and the gRPC bytes of a management client that the runner forwards to the daemon's
socket. The guest may reboot at a test's request, and the daemon may be stopped,
started, reconfigured and replaced, while the manager goes on.

| Part | Source | Module |
|---|---|---|
| Handshakes, runner RPCs, reboot | `test-rpc/src/transport.rs`, `client.rs` | `Transport` |
| Frame codec | `test-rpc/src/transport.rs` 354-492 | `MultiplexCodec` |
| Daemon RPC proxy | `mullvad_daemon.rs`, `test-runner/src/main.rs` 316-409 | `DaemonProxy`, implements `ManagementSession` |
| Test loop, log records, report | `run_tests.rs`, `logging.rs`, `summary.rs`, `tests/mod.rs` | `TestRun` |
| Runner log buffer | `test-runner/src/logging.rs`, `main.rs` | `RunnerLog`, composed into `TestRun` |
| Service control, Linux | `test-runner/src/sys.rs`, `test-rpc/src/client.rs` | `DaemonService` |
| Packet monitor and probes | `network_monitor.rs`, `tests/helpers.rs` | `PacketMonitor` |
| Tunnel state, tunnel and account tests | `tests/helpers.rs`, `tunnel_state.rs`, `tunnel.rs`, `account.rs` | `TunnelTests` |
| DNS tests, leaks during an upgrade | `tests/dns.rs`, `tests/install.rs` | `LeakTests` |
| Installation, upgrade, removal | `tests/install.rs`, `test-runner/src/package.rs`, `app.rs` | `AppInstall` |
| Virtual machines, host network, provisioning | `test-manager/src/vm/`, `main.rs`, `container.rs` | `VirtualMachine` |

Apart from `RunnerLog` in `TestRun`, modules do not share state. They meet where
one states what another assumes:

- `MultiplexCodec` works on bytes and yields frames; `Transport` and `DaemonProxy`
  take a FIFO of frames per direction as given. The codec's reset between boots
  assumes that no handshake of the old boot is still under way, which is
  `FreshLink` of `TransportProofs`.
- `Transport` carries handshakes and runner RPCs, `DaemonProxy` the daemon's bytes
  on the same link. `TestRun`, `TunnelTests` and `LeakTests` take management calls
  as calls of one session, which is what `ManagementSession` promises.
- `DaemonService`, `AppInstall` and `PacketMonitor` take runner RPCs as calls that
  are served, fail or run out of time.
- `LeakTests` takes a monitor's result to be what was captured while it was on,
  which is `NothingMissed` of `PacketMonitor`.
- `TestRun` runs tests as black boxes; `TunnelTests`, `LeakTests` and `AppInstall`
  are what some of them do, with the cleanup between them.

## The modules

**Transport.** `pc` is the manager's task: an RPC (`Call`, `CallFails`),
`reset_connected_state` in its two steps (`ResetDrain`, `ResetStore`),
`wait_for_server` (`WaitForServer`, `WaitTimeout`) and the return of `reboot()`.
The manager's `forward_messages` is `SendPing`, `SendRequest`, and, for one decoded
frame, `SkipNoise`, `LoadConnected` and `Deliver`, because the reset runs on another
thread and can fall between the two reads of the flag. The guest receives, serves
and answers (`RunnerRecv`, `Serve`, `SendShake`, `SendReply`), goes down and comes
back (`Shutdown`, `Firmware`, `RunnerStart`), and may restart its server without a
reboot (`ServerRestart`). `answered` and `got` are history: whose answer and whose
handshake the manager took. `Timely` leaves out timeouts, the death of the VM
process, and a shutdown that overtakes the answer (the runner sleeps five seconds
before it).

**MultiplexCodec.** The byte stream with the signature, sizes and encoding of the
code. `Decode` is one call of `decode_inner`: control pairs, the search for the
signature with its saturating subtractions, the length-delimited state and the
frame type. Reads cut the stream anywhere, the firmware writes garbage before a
boot, and a power-off cuts the old stream. A power-off is assumed not to separate
the two characters of a control pair, and payloads of a boot that is cut off do not
contain the signature.

**DaemonProxy.** A session per client. The test opens and drops clients; the proxy
task of `new_rpc_client` drains the channel and copies both ways; `forward_messages`
blocks when its pipe is full; the runner connects to the daemon on the first bytes
and copies until either side ends. Data frames carry session and number, so that a
frame in the wrong place is visible. A client may be opened at any time, also while
frames of the last one are under way, and its drop may meet a frame of the daemon.
Three history variables tell such sessions from others: `fresh` (it was opened on a
quiet link), `calm` (its client was not sending when the daemon stopped or started,
and has sent nothing after a stop), and `spoilt` (sessions whose end was not sent, or
whose bytes the runner took for those of another). A session is `Sound` when it is
fresh, calm and not spoilt. `Jammed` says that tasks wait for room in full pipes.

**ManagementSession.** What a client may believe: each session is a connection of
its own to the daemon, whole and in order. `DaemonProxy` is checked and proved to
implement it (`ImplementsSessions`), with a mapping that puts together what a session has in
pipes, on the link and at the daemon.

**TestRun** with **RunnerLog.** The loop of `run()`: client and default settings
(`Connect`), the test (`RunTest`), its logs, cleanup, records, report row and
verdict, with each `?` and each panic as an action of its own. A test is its
attributes and what it does to the guest: installing or removing the app and
changing settings, divided into those cleanup sets to fixed values ("relay") and
those it writes back ("saved"). `RunnerLog` is the runner's broadcast channel with
one receiver: entries beyond the buffer are lost, and the next poll gets an error
in their place and takes nothing out.

**DaemonService.** The manager's call (`Request`, `Deadline`, `Poll`), the runner's
handler (`WriteFile`, `Reload`, `Systemctl`, `SystemctlReturns`, `CheckUnit`), the
write that tokio leaves to its blocking pool (`PoolWrite`), and systemd with one job
at a time. Drop-in files are sequences of tokens, so that a file that is not
truncated keeps its tail.

**PacketMonitor.** `send_guest_probes` opens a monitor, spawns three probes, waits
and counts. The monitor polls packets, stop signal and timer in that order and
sleeps when none is ready; probes, packets and the timer act between any two polls.
`due` is what the capture held when the end was signalled. A monitor may lose its
capture (`LostStream`), and the test that unwraps its result then panics (`Panics`).

**TunnelTests.** A test is a script of operations, one per call of the test's
body; two tests run in a row, each followed by `cleanup_after_test`. A wait is four
steps (`WaitOrder`): the call, the subscription, the read, the events. The daemon
is external: it answers before its state machine has acted (`queue`), unless it is
`prompt`. `gen` numbers the settings, and tells a tunnel of older ones. The account
counts its devices; `clear_devices` removes the app's own with the others. `Orderly`
says which pairs of tests the priorities allow: the tests of the tunnel run after
`test_login` and before `test_logout`, and so with a device.

**LeakTests.** A test is a plan of steps, and rounds follow each other: requests
that nobody awaits stay `pending` and send their packets when a later round looks.
A scenario has the firewall's leaks, whether probes are `timely` and settings
`prompt`. `test_content_blockers` runs through all 31 sets of blockers, with the
address of each computed by the bit operations of the code.

**AppInstall.** The four tests as scripts over a guest (`version`, `files`,
`daemon`, `setup`, `devices`). A request starts an installer process, which ends,
fails, hangs or is retried (`install_rpm`). Manager and guest each keep the request's
deadline by a clock of their own (`Deadline`, `GuestDeadline`): the manager's failure
does not stop the installer, the guest's kills its child (`kill_on_drop`), and what
that child has started may still go on. So an installer can meet the next test.
`find_traces` is computed by the loop of `filter_non_existent_paths`.

**VirtualMachine.** A command is the sequence of its fallible steps (`Plan`).
`held` is what the manager owns, in the order in which Drop releases it. Any step
may fail, any process die, the manager be killed at any point; then the next command
starts on the same host. Any ssh session with the guest may hang (`SessionHangs`), and
a machine that saves its changes holds its image (`ImageInUse`). `wireguard-go` on
macOS is the `utun` link, not a process of its own: the code starts it and lets go.

## Runs

Each passing run takes under three minutes. States are distinct states.

| Run | Checks | States |
|---|---|---|
| `transport_untimed` | `FreshHandshake`: a handshake that lets `reboot()` go on is from a newer server than the one that answered | 402,305 |
| `transport_timely` | the codec is connected after a reboot, no awaited answer is dropped as noise, every call returns | 878 |
| `codec` | under all chunkings, and again after a reset and a boot, the decoder yields exactly the frames sent (`FramesIntact`) and holds none back (`Complete`) | 159,875 |
| `proxy` | the proxy implements separate sessions (`ImplementsSessions`): no frame of another one, none lost, in order; a reboot ends the session, requests are answered or refused, dropped clients release their connection; with exceptions, see below | 530,864 |
| `test_run` | with and without filters: isolation of tests, defaults set before cleanup, complete results and report, an honest table, printed records, output of the runner shown for the right test | 83,994 |
| `service` | Ok means that the daemon runs as asked until the next call; every call returns | 34,706 |
| `monitor` | nothing captured before the end is missing, each round's verdict is that of its firewall, rounds end or the test panics | 43,316 |
| `vm` | nothing is left on the host, a command fails because of an earlier one in two cases only, a running machine has all it needs and tests start in a provisioned guest (`Supported`), every command ends unless a session with the guest hangs | 236,894 |
| `tunnel` | a wait overlooks no state, `connect_and_wait` reports no older tunnel, a disconnected tunnel stays down, tests fail only for a reason of their own, and end | 348,283 |
| `leak` | no false alarm from late packets, a captured leak fails the test, a test that passes has seen both protocols | 216,875 |
| `install` | an installer outlives its request only in a test that fails, what a test that passes says is true of the guest, traces are exact, tests fail only for a reason, and end | 369,502 |

`service_no_truncate` shows where the code departs from what the repository says,
with an entry under `findings`: a lower verbosity leaves the tail of the old one in
the drop-in file.

Other disagreements met while modelling, which the models contain and no run is
about:

- `wait_for_server` logs the end of the handshake stream as "Server responded"
  (`transport.rs` 88).
- A test that need not succeed can end the suite, through a panic in
  `init_default_settings` before the next test (`tests/mod.rs` 72).
- "Fail if it transitions to some other state" (`account.rs` 178): the wait skips
  every other state.
- "Try multiple times, as the DNS config change may not take effect immediately"
  (`dns.rs` 592): the first packet decides, whatever the second attempt does.

The passing runs leave out, or their properties except, the following. They are real
exposures of the code, most of them listed under `hazards`:

- `FramesIntact` fails with `ResetMidFrame = TRUE`: the reset does not clear the
  length of a half received frame. `Complete` fails with a single caret as firmware
  output: the caret takes the first byte of the header with it.
- `ImplementsSessions` is about `Sound` sessions only. A client that is opened while the
  link is not quiet may receive frames of the last one: `new_client` sleeps 500 ms "to
  ensure that we don't receive stuff from a previous RPC session" (`mullvad_daemon.rs`
  67-69), and the task clears its pipe (117), but nothing makes sure that all frames
  have arrived by then. And when a daemon frame meets a dropped client, the failed
  write (148-150) leaves the loop without an empty frame: the old daemon connection
  goes on and takes the next client's bytes for its own. `Answered` and `Released`
  except `spoilt` sessions, and `Released` those that are not calm.
- `Answered` and `Released` except `Jammed`: full pipes on both sides, or a daemon pipe
  that is full while no client takes the channel. `forward_messages` is then blocked,
  and runner RPCs with it.
- `Applied` fails with the fault `late_write`: the drop-in file may be read before
  tokio's blocking pool has written it. `service` also uses no content that is
  shorter than one written before, the question of `service_no_truncate`.
- `Verdict` fails without `timely`: a round may end before its probes were sent, and
  reports no packets.
- `OutputIsOwn` excepts a test before which the poll failed: a log that overran the
  buffer is not flushed, and its end is shown for the next test.
- `NothingLeft` excepts a firmware copy that stopped half way or could not be wrapped,
  and a clone that could not be deleted twice. `NoSpuriousFailure` excepts QEMU as root,
  which meets the interfaces of the run before, and a machine whose image is held by
  that of a killed run. `RunEnds` excepts an ssh session that hangs: a silent server, a
  guest that died unnoticed, or a package manager that asks a question.
- `ConnectIsFresh` excepts a slow daemon that is asked to connect while a tunnel is
  up (`test_quantum_resistant_tunnel`); `FailsForAReason` of `TunnelTests` devices
  that `clear_devices` could not remove.
- `LeakCaught` excepts the DNS configuration tests, which look at the first packet;
  `BothProtocolsSeen` a monitor that ran into its timeout with two TCP packets.
- `FailsForAReason` of `AppInstall` excepts a daemon that is slow to start: the test
  looks once. It and `PassedRight` except a test that begins while an installer of an
  earlier test, which ran into its deadline, is still at work.

### Bounds

- Two RPCs and one server restart allow a handshake, a request or an answer of an
  older server to be in flight during a reboot.
- Two frames after the handshake, of three payloads each, cover every position of a
  chunk border in a frame and between two; the plan with a reboot has one frame per
  boot.
- Two sessions of two requests, one unasked frame and one stop of the daemon allow
  frames of one session to meet the next. Pipes and link hold one frame, so that they
  really fill: `Jammed` is reached.
- The tests of `MCTestRun` have the priorities and attributes of the source, one per
  combination that the loop tells apart; three log entries overrun a buffer of two.
- Four service calls allow a late job of the first to meet two others.
- Two rounds of probes or tests allow what one leaves to be met by the next. This
  holds for `PacketMonitor`, `TunnelTests`, `LeakTests` and the commands of
  `VirtualMachine`.
- Two faults allow one in an error path of the other. Faults are counted per
  command in `VirtualMachine`.
- `AppInstall` has the source's five attempts of `dnf`, and every selection of its
  four tests.

`CHECK_DEADLOCK FALSE` is set where the bounds on calls, frames, sessions or tests
stop the model, not the program, or where the program is over.

### Fairness

Weak fairness of each task's steps: tokio polls tasks that are ready, the guest and
its service manager keep running, packets and timers arrive, and the daemon works
off its commands. Nothing obliges a test to make a call, or a fault to happen.
`ManagerReturns` also assumes `Timely`; without it a call ends by its deadline.
Nothing is assumed of installers, which may hang, only of the two deadlines.
`RunEnds` assumes that tests end and that a user who asked for a window closes it, and `TestsEnd` of
`TunnelTests` that the API does not throttle a login for ever.

### Type invariants

`Transport` has one, which a run checks and a theorem proves. In the
other modules with proofs the types that matter are conjuncts of the proved
invariants. `MultiplexCodec`, `LeakTests` and `VirtualMachine` have none: what their
variables may hold is stated where they are declared.

## Proofs

TLAPS checks the following for all values of the constants. Most assumptions
(`TransportAssumption`, `TestsAssumption`, `ProxyAssumption` and so on) only say what
the constants are. Four say more, each from the source:

- `OldClientAssumption` (`TestRun`): a test with an older client changes no setting
  that cleanup writes back. `test_upgrade_app` is the only one that changes any, and
  sets the relay location.
- `ProbesAssumption` (`PacketMonitor`): `send_guest_probes` gives its monitor no
  limit on the number of packets.
- `ScenarioAssumption` (`TunnelTests`): the tests run are tests of the module.
  (`DevicesAssumption` only bounds the devices of the account.)
- `ScenarioAssumption` (`AppInstall`): the tests run are its four, and
  `test_install_previous_app`, which has the lowest priority number, comes first.

None of the properties is inductive as it stands. Each proof has an inductive
invariant of its own, which TLC has checked on the runs' instances as well.

**TransportProofs.** `TypeCorrect` is the type invariant, with `Decoding` (a frame
being decoded is still on the link), without which `Head` and `Tail` of the link
have no type. `RebootIsFresh` says that `FreshHandshake` always holds. It rests on
the order of frames. The manager pings once, before its first
request (`PingBeforeRequest`), and the runner sends queued handshakes before answers,
so that behind an answer the link holds only handshakes of later servers
(`AnswerThenNewer`, with `InstBound` for the numbering). Hence once the answer to the
reboot request has been taken, the link is fresh (`FreshLink`), once the channel has
been drained so is the channel (`FreshQueue`), and so is the handshake taken from it.
"Newer" is a newer server, not a newer boot: a server that restarts by itself between
answer and shutdown is taken for the rebooted one, and nothing in the code could tell.

`RebootLeavesConnected` (`RebootReconnects`) and `AnswersAreDelivered`
(`AnswerReachesCaller`) are about timely connections without other restarts, as the
properties are. Their invariant `CalmInv` says where the one call under way is
(`OneCall`: in the channel, on the link, at the server, done, or answered), what each
phase of a reboot leaves on the link (`Phases`), and that noise only comes before a
handshake (`NoiseFirst`). So the flag can only be clear when nothing that matters is
being decoded, and a handshake is announced that will set it.

**DaemonProxyProofs** and **DaemonSessionProofs.** `ProxyImplementsSessions` is the
refinement: `Spec` implies `ImplementsSessions`, with no hypothesis on pipes, links or
faults; what the property excepts is in its `Sound`. The invariant `ProxyInv` has types,
the places of the tasks (`Places`) and that no frame is of a session yet to come
(`Known`) for every session. If the session is `Sound` it also says that for some `b`,
the number of frames that have left it at the runner, `SessionInv(b)` holds:

- the frames on the way up are numbers `b + 1`, `b + 2` and so on of the current
  session, through link, `forward_messages`, pipe and proxy task, and its end is the
  last of them (`UpOrder`, `UpEnd`);
- the daemon's connection has heard exactly the first `b` (`Connection`);
- the frames on the way down are those after the ones received (`DownFrames`, with
  `DownOrder`), and none before the runner has read the first (`BeforeFirst`);
- a channel that waits for the proxy task meets an empty link (`Queued`).

A session that is not `Sound` never becomes so again (`SoundKept`), and `OpenStep` needs
of the state before only the quiet link, types, `Places` and `Known`: so nothing is
asked of earlier sessions. `InvStep` has a lemma for each action: those of `forward_messages`, the
client and the manager's proxy task are in `DaemonProxyProofs`, those of the runner and
the daemon in `DaemonSessionProofs`, which ends with the refinement. `RefineStep` shows
each action to be a step of `ManagementSession` or none: taking frames from one place to
the next is none, and `RunnerFirst` and `RunnerUp` are the daemon's receiving,
`ProxyDown` the client's. The number of frames under way, `Coming`, is the cardinality
of a set, and `Counting` states how it follows the pipes. `RebootIsNoticed`
(`RebootEndsSession`) has an invariant of its own, `Served`: a client which the proxy
task has not taken has its requests still in its own pipe.

**TestRunProofs.** For any tests, attributes, selections and buffer sizes:

- `DefaultsKnown` (`CleanupFindsDefaults`), by `SettingsInv`, which follows the client
  from the step that reads the defaults to the cleanup;
- `OutputOwned` (`OutputIsOwn`), with the lemma `LoggedAlone` on what a channel holds
  after a flush;
- `ResultsComplete` (`CompleteRun`), by `ResultsInv`, which relates the place in the
  loop, the rows written and the failures seen;
- `FailuresShown` (`FailuresPrinted`), by `PrintedInv`: the logger buffers exactly while
  a test is under way, and holds the records of that test alone. No test runs twice;
- `TableHonest` (`TableIsHonest`), by `RowsInv`: a run that was cut short lacks the row
  of the test it was at, or has a part of it that does not count as passed;
- `TestsIsolated` (`Isolated`), by `IsolationInv`: the defaults are read late, but until
  then nothing that is written back later can differ from a fresh install.

**DaemonServiceProofs.** `StateIsReached` (`StateReached`), by `ServiceInv`: once
systemctl has returned no job is left, and a unit that is off has no socket. Without
the first a late job could undo what the poll saw. `SettingsApplied` (`Applied`), by
`ConfigInv`: what a call asked for is in the pending write, then in the file, then in
what systemd has loaded, then in the daemon. It assumes that writes are in time, and
that the contents of a kind have the same length, as those of the tests do. A shorter
content leaves the tail of the old one, as `service_no_truncate` shows.

**PacketMonitorProofs.** `ResultIsWhole` (`NothingMissed`), by `MonitorInv`: what was
captured before the end is in the result or still in the queue, and all of it is in
the result once the queue has been found empty and the signal or the timer is polled.
The lemmas `MatchingAppend` and `MatchingTail` say what reading one packet changes.
`VerdictIsOfItsRound` (`Verdict`), by `TimelyInv`: a round begins with nothing under
way, and a probe that was sent is on the wire, captured or read, until all are due. A
test that has lost its capture gets no more results (`LostInv`).

**TunnelTestsProofs.** For any pair of its tests, any faults and any number of devices:

- `WaitsOverlookNothing` (`NothingOverlooked`), by `LookInv`: a state that was published
  since the wait subscribed is in its stream;
- `ConnectionsAreFresh` (`ConnectIsFresh`), by `FreshInv`;
- `DisconnectionsLast` (`StaysDisconnected`), by `DownInv`.

The last two share `Line`, which is about the commands that a prompt daemon has not
taken: there is at most one of the test's, and behind it only those that block a
revoked device. With it, the state of the tunnel tells what it is still going to be.
`FreshWait` and `DownWait` say the same of what a wait can still read.

`TestsFailForAReason` (`FailsForAReason`) assumes `Orderly`, which TLC evaluates for
the pairs of the run. Its invariant, `ReasonInv`, is about a test in which nothing has
gone wrong so far (`Clean`):

- `Tracks`: the settings are those of the place in the script (`KindOf`); without a
  target the tunnel is down or on its way down; with one it is on its way to the state
  that the settings lead to (`Comes`, `Outcome`), and an operation that waits for it or
  checks it leaves it there (`Left`, `Stands`); an accepted event still in the stream
  is of the state there is (`Hearing`);
- `Seen`: a state that is waited for does not come unnoticed, so a wait that times out
  is one for a tunnel that cannot come up;
- `Revoking`, `Rotating`, `Counted`: what each operation of the account tests finds;
- `CleanedUp`: what a test begins with, whatever became of the one before;
- `OwnDevice`, `Books`: the device, the number of devices and faults, and the verdicts.

What a script needs at each place is one predicate, `FitsAt`, which is shown for each
script (`TunnelFits`); the steps are then proved once for all of them. The one failure
that is left is the login of `test_revoked_device` to a full account.

**AppInstallProofs.** For any selection of tests and any faults and retries:
`InstallersEnd` (`NoInstallerLeft`), `PassesAreRight` (`PassedRight`),
`FailuresHaveReasons` (`FailsForAReason`) and `TracesAreExact` (`TracesExact`), by `IInv`.
It says whose each installer is, those that outlived their request included (`Owned`),
and that a request that failed gives its test a reason (`Excuses`). While no installer
but the one that the test waits for is at work (`Steady`), it also says what the guest
is (`Guest`): how far that installer has come (`Request`), and what each step of each
script has established (`Progress`), which the later steps keep. For `find_traces`, the
lemma on one round of the loop (`Kept`: the paths not yet looked at are in their places,
those behind exist) is applied as often as the source's lists are long, at most five
times.

Only model-checked:

- all liveness, with the fairness it rests on;
- `MultiplexCodec`, whose properties compare what was decoded with a byte stream that
  is put together frame by frame, which needs induction over its length;
- `LeakTests`, whose addresses are computed by bit operations;
- `VirtualMachine`, whose `NothingLeft`, `NoSpuriousFailure` and `Supported` depend on
  the order of steps in the plan of each command and on owners that are merged and
  closed with `SelectSeq`, of which the prover knows nothing.

## Not modelled

- Service control on Windows and macOS: straight sequences of commands whose result
  depends on what `net`, `launchctl` and the service manager wait for and do with
  overlapping requests. The source neither looks at their exit status nor polls a
  state, so a model would be an invention.
- Registry, privileges, sockets, interface look-ups, HTTP requests and packet headers:
  system calls and parsing without state of their own.
- The HTML of the report, command lines, the code generated by the test macro, the
  manager's configuration file and the choice of packages: data without interaction.
- User interface tests and the output of the virtual machine: an external program's
  exit status, and lines copied to the log.
- `ci-runtests.sh` and the other scripts: they start the programs. Tokens are handed
  out by job number, so a job that outlives a round shares its token with another.
- Throttled API calls as steps of their own: `login_with_retries` repeats them without
  a bound. What background tasks log between two tests. What `dnsmasq` does when the
  reader of its output is dropped at the first acknowledgement.
- One link with both the RPC and the daemon channel: that a blocked daemon pipe holds
  up runner RPCs as well is in neither module.

The `components` of `PROJECT.json` say the same part by part.
