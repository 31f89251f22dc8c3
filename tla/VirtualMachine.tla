--------------------------- MODULE VirtualMachine ---------------------------
(***************************************************************************)
(* One test-manager command that needs a virtual machine (`run-tests`,      *)
(* `run-vm`, `update`), from the first network command to the last Drop:    *)
(* test-manager/src/vm/{qemu,tart,util,provision,update,mod}.rs,            *)
(* vm/network/{linux,macos}.rs, container.rs and the commands of main.rs.   *)
(*                                                                          *)
(* A command is a PLAN: the sequence of its fallible steps, in the order of *)
(* the code.  A step that fails returns early with `?`, and what has been   *)
(* acquired is released by Drop.  `held' is what the manager owns: a        *)
(* sequence of owners (a local variable or a struct), each a sequence of    *)
(* resources in the order its fields are dropped; locals go in the reverse  *)
(* order of their declaration.  Commands are started one after the other on *)
(* the same host, so that what one leaves behind meets the next.            *)
(***************************************************************************)
EXTENDS Naturals, Sequences, FiniteSets, SequencesExt

CONSTANTS Scenarios,  \* records [cmd, vm, tpm, keep, shared, ssh, pkg, display]
          MaxRuns,    \* commands started one after the other on the host
          MaxFaults   \* failing steps, dying processes, timeouts in one run

VARIABLES
  scn,      \* the scenario, the same for every run
  run,      \* number of the current command
  phase,    \* "running", "releasing" (Drop), "ended"; "hung" in a session
  pc,       \* index of the next step of the plan
  held,     \* owners of the current run's resources, see above
  links,    \* network interfaces: <<name, run that made it>>
  host,     \* processes, files and clones: <<name, run that made it>>
  guest,    \* what provisioning has put into the guest
  result,   \* result[r]: "none", "ok", "err", "killed"
  faults,   \* faults met by the current run so far
  excused   \* files no handle got to own, clones whose release failed

vars == <<scn, run, phase, pc, held, links, host, guest, result, faults, excused>>

-----------------------------------------------------------------------------
(* The kinds of step.                                                       *)

Cmd(n)    == [kind |-> "cmd", name |-> n]     \* a command that leaves nothing
Link(n)   == [kind |-> "link", name |-> n]    \* `ip link add', `ip tuntap add'
Check(n, k) == [kind |-> "check", name |-> n, skip |-> k] \* skip k if it exists
Copy(n)   == [kind |-> "copy", name |-> n]    \* a file no handle owns yet
Own(n)    == [kind |-> "own", name |-> n]     \* the handle that deletes it
Take(n)   == [kind |-> "take", name |-> n]    \* file, process or clone + handle
Close(n)  == [kind |-> "close", name |-> n]   \* a local's scope ends
Pack(s)   == [kind |-> "pack", name |-> s]    \* locals moved into one struct
Await(n)  == [kind |-> "await", name |-> n]
Auth      == [kind |-> "auth", name |-> "ssh"] \* ssh handshake and password
Send(n)   == [kind |-> "send", name |-> n]    \* scp to the guest
Exec(n)   == [kind |-> "exec", name |-> n]    \* a command over ssh

Processes == {"dnsmasq", "swtpm", "vm"}

-----------------------------------------------------------------------------
(* The plans.                                                               *)

CreateLocalWireguardPeer ==
  <<Link("wg"), Cmd("addr"), Take("wgconf"), Cmd("write"), Cmd("setconf"),
    Cmd("up"), Close("wgconf")>>

\* Locals go in reverse order; DhcpProcHandle drops its fields in order.
StartDnsmasq ==
  <<Take("leases"), Take("pidfile"), Take("dnsmasq"),
    Pack(<<"dnsmasq", "leases", "pidfile">>)>>

SetupTestNetworkLinux ==
  <<Cmd("forwarding"), Link("bridge"), Cmd("addr"), Cmd("up"), Cmd("nft"),
    Link("lan"), Cmd("addr"), Link("inet"), Cmd("addr")>>
    \o CreateLocalWireguardPeer \o StartDnsmasq
    \o <<Link("tap"), Cmd("master"), Cmd("up")>>

\* Mutant: the copied variables are wrapped as borrowed, which deletes nothing.
OvmfHandleBorrowed == <<Copy("ovmf")>>

OvmfHandle == <<Copy("ovmf"), Own("ovmf")>>

\* The child and the directory move into the task that TpmEmulator aborts.
TpmEmulator ==
  <<Take("tpmdir"), Take("swtpm"), Pack(<<"swtpm", "tpmdir">>), Await("socket")>>

\* Mutant: the VM is the last field of QemuInstance.
QemuFieldsVmLast(tpm) ==
  <<"dnsmasq", "leases", "pidfile">>
    \o (IF tpm THEN <<"ovmf", "swtpm", "tpmdir">> ELSE <<>>) \o <<"vm">>

\* Drop order of QemuInstance: child, network handle, firmware, TPM.
QemuFields(tpm) ==
  <<"vm", "dnsmasq", "leases", "pidfile">>
    \o (IF tpm THEN <<"ovmf", "swtpm", "tpmdir">> ELSE <<>>)

\* qemu::run, started in a fresh network namespace unless the caller is root.
QemuRun(s) ==
  SetupTestNetworkLinux
    \o (IF s.tpm THEN OvmfHandle \o TpmEmulator ELSE <<>>)
    \o <<Take("vm"), Await("pty"), Await("ack"), Pack(QemuFields(s.tpm))>>

SetupTestNetworkMacos ==
  <<Cmd("sysctl"), Cmd("forwarding"), Check("utun", 1), Link("utun")>>

\* Mutant: the address is set without looking whether there is one.
ConfigureTunnelAlways ==
  <<Take("wgconf"), Cmd("write"), Cmd("setconf"), Link("utun address"),
    Close("wgconf")>>

ConfigureTunnel ==
  <<Check("utun address", 5), Take("wgconf"), Cmd("write"), Cmd("setconf"),
    Link("utun address"), Close("wgconf")>>

\* tart::run; MachineCopy::borrow_vm owns nothing that would be deleted.
TartRun(s) ==
  SetupTestNetworkMacos
    \o (IF s.keep THEN <<>> ELSE <<Take("clone")>>)
    \o <<Take("vm"), Await("pty"), Await("ip")>>
    \o ConfigureTunnel
    \o <<Pack(IF s.keep THEN <<"vm">> ELSE <<"vm", "clone">>)>>

VmRun(s) == IF s.vm = "qemu" THEN QemuRun(s) ELSE TartRun(s)

Payload == {"runner", "current", "previous", "ui", "cert", "script"}

\* get_ssh_options, one attempt to connect, handshake and authentication.
Session == <<Cmd("ssh options"), Await("connect"), Auth>>

\* blocking_ssh: six files, then the setup script.
BlockingSsh ==
  Session \o <<Send("runner"), Send("current"), Send("previous"), Send("ui"),
               Send("cert"), Send("script"), Exec("setup")>>

\* Noop only needs `artifacts_dir'.
Provision(s) == IF s.ssh THEN BlockingSsh ELSE <<Cmd("artifacts_dir")>>

\* update::packages: two commands for deb, one for rpm, none elsewhere.
UpdatePackages(s) ==
  CASE s.ssh /\ s.pkg = "deb" -> Session \o <<Exec("update"), Exec("upgrade")>>
    [] s.ssh /\ s.pkg = "rpm" -> Session \o <<Exec("update")>>
    [] OTHER -> <<>>

\* VmInstance::wait; Tart's also deletes the clone, before Drop tries to.
Wait(s) ==
  IF s.vm = "tart" /\ ~s.keep THEN <<Await("exit"), Close("clone")>>
                              ELSE <<Await("exit")>>

\* run_tests::run waits for the runner unless ssh has started it (skip_wait).
RunTestsSteps(s) ==
  <<Cmd("open pty")>> \o (IF s.ssh THEN <<>> ELSE <<Await("server")>>)
    \o <<Await("tests")>>

\* main: the three commands that start a virtual machine.
Plan(s) ==
  <<Cmd("config")>> \o
  CASE s.cmd = "run_vm" -> VmRun(s) \o Wait(s)
    [] s.cmd = "update" -> VmRun(s) \o UpdatePackages(s)
    [] s.cmd = "run_tests" ->
         <<Cmd("manifest")>> \o VmRun(s) \o Provision(s)
           \o <<Cmd("report"), Cmd("bridge name")>> \o RunTestsSteps(s)
           \o (IF s.display THEN Wait(s) ELSE <<>>)

Step == Plan(scn)[pc]
At(kind) == phase = "running" /\ pc <= Len(Plan(scn)) /\ Step.kind = kind
Waits(n) == At("await") /\ Step.name = n

-----------------------------------------------------------------------------

Init ==
  /\ scn \in Scenarios
  /\ run = 1 /\ phase = "running" /\ pc = 1 /\ held = <<>>
  /\ links = {} /\ host = {} /\ guest = {}
  /\ result = [r \in 1..MaxRuns |-> "none"]
  /\ faults = 0 /\ excused = {}

Exists(n) == <<n, run>> \in host
LinkNames == {l[1] : l \in links}

Advance == pc' = pc + 1 /\ UNCHANGED phase
\* `?': the command returns an error, and Drop runs.
Return(r) ==
  /\ phase' = "releasing" /\ UNCHANGED pc
  /\ result' = [result EXCEPT ![run] = IF @ = "none" THEN r ELSE @]
Fault == faults < MaxFaults /\ faults' = faults + 1

\* A step that fails for a reason of its own: the command, the file system,
\* the remote end.  No handle owns a copy yet that stops half way, or that
\* cannot be wrapped.
StepFails ==
  /\ phase = "running" /\ pc <= Len(Plan(scn)) /\ Step.kind # "await"
  /\ Step.kind \notin {"pack", "close"}
  /\ Fault /\ Return("err")
  /\ LET e == {<<Step.name, run>>} IN
     /\ host' \in {host} \cup (IF Step.kind = "copy" THEN {host \cup e} ELSE {})
     /\ excused' = IF Step.kind \in {"copy", "own"} THEN excused \cup e ELSE excused
  /\ UNCHANGED <<scn, run, held, links, guest>>

RunCmd ==
  /\ At("cmd") /\ Advance
  /\ UNCHANGED <<scn, run, held, links, host, guest, result, faults, excused>>

\* `ip link add' of a name that exists fails.
AddLink ==
  /\ At("link")
  /\ \/ /\ Step.name \notin LinkNames /\ Advance
        /\ links' = links \cup {<<Step.name, run>>} /\ UNCHANGED result
     \/ /\ Step.name \in LinkNames /\ Return("err") /\ UNCHANGED links
  /\ UNCHANGED <<scn, run, held, host, guest, faults, excused>>

CheckLink ==
  /\ At("check")
  /\ pc' = IF Step.name \in LinkNames THEN pc + 1 + Step.skip ELSE pc + 1
  /\ UNCHANGED <<scn, run, phase, held, links, host, guest, result, faults, excused>>

CopyFile ==
  /\ At("copy") /\ Advance
  /\ host' = host \cup {<<Step.name, run>>}
  /\ UNCHANGED <<scn, run, held, links, guest, result, faults, excused>>

OwnFile ==
  /\ At("own") /\ Advance
  /\ held' = Append(held, <<Step.name>>)
  /\ UNCHANGED <<scn, run, links, host, guest, result, faults, excused>>

\* A machine that saves its changes (QEMU without -snapshot, a borrowed Tart
\* machine) holds its image: while one of an earlier run is still there, another
\* ends as soon as it is started.
ImageInUse == scn.keep /\ \E r \in 1..(run - 1) : <<"vm", r>> \in host

TakeResource ==
  /\ At("take") /\ Advance
  /\ host' = IF Step.name = "vm" /\ ImageInUse THEN host
                                              ELSE host \cup {<<Step.name, run>>}
  /\ held' = Append(held, <<Step.name>>)
  /\ UNCHANGED <<scn, run, links, guest, result, faults, excused>>

\* The moved locals become one owner, the last that was declared.
PackOwner ==
  /\ At("pack") /\ Advance
  /\ held' = Append(SelectSeq(held, LAMBDA o : ToSet(o) \cap ToSet(Step.name) = {}),
                     Step.name)
  /\ UNCHANGED <<scn, run, links, host, guest, result, faults, excused>>

Dropped(n) == IF n = "tpmdir" THEN {n, "socket"} ELSE {n}
Without(n) == host \ {<<d, run>> : d \in Dropped(n)}

\* A scope ends; for the clone, MachineCopy::cleanup, whose failure leaves the
\* second attempt to Drop.
CloseResource ==
  /\ At("close") /\ Advance
  /\ \/ /\ held' = SelectSeq([i \in DOMAIN held |->
                               SelectSeq(held[i], LAMBDA n : n # Step.name)],
                             LAMBDA o : o # <<>>)
        /\ host' = Without(Step.name) /\ UNCHANGED faults
     \/ Step.name = "clone" /\ Fault /\ UNCHANGED <<held, host>>
  /\ UNCHANGED <<scn, run, links, guest, result, excused>>

\* The code looks for the socket once and sleeps a second: it goes on without
\* it when swtpm is slower than that.
AwaitSocket ==
  /\ Waits("socket") /\ Advance
  /\ \/ Exists("socket") /\ UNCHANGED faults
     \/ ~Exists("socket") /\ IF Exists("swtpm") THEN Fault ELSE UNCHANGED faults
  /\ UNCHANGED <<scn, run, held, links, host, guest, result, excused>>

\* What has to be there for the awaited line, address, server or end.  A
\* machine may have written the line before it ended; `tart ip' asks for the
\* address by name, which a machine of an earlier run may have too.
Arrives(n) ==
  CASE n = "pty" -> TRUE
    [] n = "ack" -> Exists("vm") /\ Exists("dnsmasq") /\ <<"tap", run>> \in links
    [] n = "ip" -> Exists("vm") \/ ImageInUse
    [] n \in {"connect", "server"} -> Exists("vm")
    [] n = "exit" -> ~Exists("vm")
    [] OTHER -> FALSE

AwaitArrives ==
  /\ At("await") /\ Arrives(Step.name) /\ Advance
  /\ UNCHANGED <<scn, run, held, links, host, guest, result, faults, excused>>

\* The output, the pipe or the port is closed: no line will come.
Closed(n) ==
  CASE n = "pty" -> ~Exists("vm")
    [] n = "ack" -> ~Exists("dnsmasq")
    [] n \in {"ip", "connect"} -> ~Exists("vm")
    [] OTHER -> FALSE

\* Mutant: the wait for the DHCP server's answer has no timeout.
AwaitFailsNoTimeout ==
  /\ At("await") /\ Step.name \in {"pty", "ack", "ip", "connect"}
  /\ \/ Closed(Step.name) /\ UNCHANGED faults
     \/ Step.name # "ack" /\ Fault
  /\ Return("err")
  /\ UNCHANGED <<scn, run, held, links, host, guest, excused>>

\* End of output, or the timeout (5 s for the pty, 60 s for the address, that
\* of TCP for the connection).  A dead VM asks for no address, and dnsmasq says nothing.
AwaitFails ==
  /\ At("await") /\ Step.name \in {"pty", "ack", "ip", "connect"}
  /\ \/ (Closed(Step.name) \/ (Step.name = "ack" /\ ~Exists("vm"))) /\ UNCHANGED faults
     \/ Fault
  /\ Return("err")
  /\ UNCHANGED <<scn, run, held, links, host, guest, excused>>

\* handshake and userauth_password.
Authenticate ==
  /\ At("auth") /\ Exists("vm") /\ Advance
  /\ UNCHANGED <<scn, run, held, links, host, guest, result, faults, excused>>

SendFile ==
  /\ At("send") /\ Exists("vm") /\ Advance
  /\ guest' = guest \cup {Step.name}
  /\ UNCHANGED <<scn, run, held, links, host, result, faults, excused>>

\* ssh_exec does not look at the exit status: a script that fails half way
\* counts as run, but the guest has no runner.
ExecCommand ==
  /\ At("exec") /\ Exists("vm") /\ Advance
  /\ \/ guest' = guest \cup {Step.name, "done"} /\ UNCHANGED faults
     \/ guest' = guest \cup {Step.name} /\ Fault
  /\ UNCHANGED <<scn, run, held, links, host, result, excused>>

InSession == At("auth") \/ At("send") \/ At("exec")

\* A session with a guest that has died ends with an error, if the TCP stack
\* finds out.
GuestLost ==
  /\ InSession /\ ~Exists("vm") /\ Return("err")
  /\ UNCHANGED <<scn, run, held, links, host, guest, faults, excused>>

\* No session has a timeout, and none closes the command's input: it waits for
\* ever for a server that is silent, a guest whose end goes unnoticed, or a
\* command that asks a question (`apt-get upgrade' without -y).
SessionHangs ==
  /\ InSession /\ phase' = "hung"
  /\ UNCHANGED <<scn, run, pc, held, links, host, guest, result, faults, excused>>

\* The error of run_tests::run is kept until after the wait for the window.
Fails == result' = [result EXCEPT ![run] = "err"]

AwaitServer ==
  /\ Waits("server")
  /\ IF Exists("vm") THEN Fault ELSE UNCHANGED faults
  /\ Fails /\ pc' = pc + 2
  /\ UNCHANGED <<scn, run, phase, held, links, host, guest, excused>>

\* The tests end well, with an error, or with a panic, which waits for nothing.
RunTests ==
  /\ Waits("tests")
  /\ \/ Exists("vm") /\ Advance /\ UNCHANGED <<result, faults>>
     \/ /\ IF Exists("vm") THEN Fault ELSE UNCHANGED faults
        /\ (Fails /\ Advance) \/ Return("err")
  /\ UNCHANGED <<scn, run, held, links, host, guest, excused>>

\* The plan is done: main returns, and the instance is dropped.
Finish ==
  /\ phase = "running" /\ pc > Len(Plan(scn))
  /\ Return("ok")
  /\ UNCHANGED <<scn, run, held, links, host, guest, faults, excused>>

\* One resource of the last owner is dropped.  Only `tart delete' can fail,
\* and that failure is logged.
Release ==
  /\ phase = "releasing" /\ held # <<>>
  /\ LET o == Last(held)
         n == Head(o) IN
     /\ held' = IF Len(o) = 1 THEN Front(held) ELSE Append(Front(held), Tail(o))
     /\ \/ host' = Without(n) /\ UNCHANGED <<faults, excused>>
        \/ /\ n = "clone" /\ Fault /\ UNCHANGED host
           /\ excused' = excused \cup {<<n, run>>}
  /\ UNCHANGED <<scn, run, phase, pc, links, guest, result>>

End ==
  /\ phase = "releasing" /\ held = <<>>
  /\ phase' = "ended"
  /\ UNCHANGED <<scn, run, pc, held, links, host, guest, result, faults, excused>>

\* The next command.  rootlesskit gives it a network namespace of its own
\* unless it runs as root (`shared'); macOS has only one.
StartNext ==
  /\ phase = "ended" /\ run < MaxRuns
  /\ run' = run + 1 /\ phase' = "running" /\ pc' = 1
  /\ links' = IF scn.shared THEN links ELSE {}
  /\ guest' = {} /\ faults' = 0
  /\ UNCHANGED <<scn, held, host, result, excused>>

-----------------------------------------------------------------------------
(* The processes and the user.                                              *)

SwtpmListens ==
  /\ Exists("swtpm") /\ ~Exists("socket")
  /\ host' = host \cup {<<"socket", run>>}
  /\ UNCHANGED <<scn, run, phase, pc, held, links, guest, result, faults, excused>>

VmGone ==
  ~Exists("vm") /\ (phase = "releasing" \/ \E i \in DOMAIN held : "vm" \in ToSet(held[i]))

\* A process ends on its own.  QEMU does so for want of the TPM's socket, and
\* swtpm (option -t) when QEMU has gone.
ProcessDies(p) ==
  /\ phase # "ended" /\ Exists(p)
  /\ \/ /\ \/ p = "vm" /\ scn.tpm /\ ~Exists("socket")
           \/ p = "swtpm" /\ VmGone
        /\ UNCHANGED faults
     \/ Fault
  /\ host' = Without(p)
  /\ UNCHANGED <<scn, run, phase, pc, held, links, guest, result, excused>>

\* The task that waits for swtpm deletes the directory, or is dropped with it.
SwtpmTaskEnds ==
  /\ ~Exists("swtpm") /\ Exists("tpmdir") /\ \E i \in DOMAIN held : "tpmdir" \in ToSet(held[i])
  /\ ~At("take") /\ ~At("pack")
  /\ host' = Without("tpmdir")
  /\ UNCHANGED <<scn, run, phase, pc, held, links, guest, result, faults, excused>>

\* The user shuts the machine down, which is what `wait' waits for.
UserCloses ==
  /\ Waits("exit") /\ Exists("vm")
  /\ host' = Without("vm")
  /\ UNCHANGED <<scn, run, phase, pc, held, links, guest, result, faults, excused>>

\* The manager is killed: no Drop runs.
Killed ==
  /\ phase # "ended" /\ Fault
  /\ phase' = "ended" /\ held' = <<>>
  /\ result' = [result EXCEPT ![run] = "killed"]
  /\ UNCHANGED <<scn, run, pc, links, host, guest, excused>>

Manager ==
  \/ RunCmd \/ AddLink \/ CheckLink \/ CopyFile \/ OwnFile \/ TakeResource
  \/ PackOwner \/ CloseResource \/ AwaitSocket \/ AwaitArrives \/ AwaitFails
  \/ Authenticate \/ SendFile \/ ExecCommand \/ GuestLost \/ SessionHangs
  \/ AwaitServer \/ RunTests \/ Finish \/ Release \/ End \/ StartNext

Next ==
  \/ Manager \/ StepFails \/ Killed
  \/ SwtpmListens \/ SwtpmTaskEnds \/ UserCloses
  \/ \E p \in Processes : ProcessDies(p)

Spec == Init /\ [][Next]_vars

\* The manager's steps end (commands on the host return, timeouts fire; only a
\* session with the guest may hang), swtpm gets to listen, and a user who asked
\* for a window closes it.
FairSpec ==
  Spec /\ WF_vars(Manager) /\ WF_vars(SwtpmListens) /\ WF_vars(UserCloses)

-----------------------------------------------------------------------------
(* Properties.                                                              *)

Files == {"wgconf", "leases", "pidfile", "ovmf", "tpmdir", "socket", "clone"}

\* Whatever step fails and whichever process dies, a command that returns
\* leaves no process, temporary file or cloned machine behind (kill_on_drop,
\* TempFile, TempDir, MachineCopy), except a firmware copy that stopped half
\* way or could not be wrapped and a clone that `tart delete' refused twice.
NothingLeft ==
  \A r \in 1..MaxRuns :
    /\ result[r] \in {"ok", "err"}
    /\ r < run \/ phase = "ended"
    => \A n \in Processes \cup Files : <<n, r>> \in host => <<n, r>> \in excused

\* A command fails only for a reason of its own run: what earlier commands,
\* killed ones included, left on the host stops it in two cases only.  QEMU
\* started as root meets the interfaces of an earlier run, because nothing
\* deletes them; and a machine that is to save its changes finds its image in
\* use by the one a killed command has left running.
NoSpuriousFailure ==
  result[run] = "err" /\ faults = 0
    => \/ scn.vm = "qemu" /\ scn.shared /\ \E l \in links : l[2] < run
       \/ ImageInUse /\ \E r \in 1..(run - 1) : result[r] = "killed"

\* While the machine runs and nothing has failed, all it was started with is
\* there: its network interfaces, the firmware variables, the TPM with its
\* directory, the DHCP server and the cloned disk; Drop takes the machine first.
\* Tests start only in a guest that has every file of the payload and in which
\* the setup script has been run to an end (main does not wait for the runner
\* then: skip_wait); a script that failed is not told from one that worked.
Supported ==
  /\ Exists("vm") /\ faults = 0 =>
       /\ scn.vm = "qemu" =>
            /\ {"bridge", "wg", "tap"} \subseteq LinkNames
            /\ Exists("dnsmasq") /\ Exists("leases")
            /\ scn.tpm => \A n \in {"ovmf", "swtpm", "tpmdir", "socket"} : Exists(n)
       /\ scn.vm = "tart" /\ ~scn.keep => Exists("clone")
  /\ Waits("tests") /\ scn.ssh =>
       Payload \subseteq guest /\ "setup" \in guest /\ (faults = 0 => "done" \in guest)

\* Every command ends: each wait of the start-up has a timeout or sees the end
\* of the process it waits for, and releasing never blocks.  The exception is
\* a session with the guest that hangs, which no timeout bounds.
RunEnds == (phase = "running") ~> (phase = "ended" \/ phase = "hung")
=============================================================================
