--------------------------- MODULE DaemonService ---------------------------
(***************************************************************************)
(* The operations that configure, restart, start and stop the daemon of a  *)
(* Linux guest: the calls of the manager (test-rpc/src/client.rs), their   *)
(* handlers in the runner (test-runner/src/sys.rs), and the service        *)
(* manager they drive, which is external and modelled by how the runner    *)
(* uses it: one job at a time, which systemctl waits for.                  *)
(*                                                                         *)
(* A drop-in file is a sequence of tokens: what follows the fixed text of  *)
(* override.conf, or the lines of env.conf.  The handlers open it without  *)
(* truncating it, and hand what they write to the blocking pool of the     *)
(* runtime, which writes it some time after write_all has returned.        *)
(***************************************************************************)
EXTENDS Integers, Sequences, FiniteSets

CONSTANTS
    Ops,             \* the calls the manager makes, see OpsAssumption
    MaxOps,          \* bound on their number
    RETRY_ATTEMPTS,  \* of wait_for_service_state
    MAX_ATTEMPTS,    \* of mullvad_daemon_wait_for_state
    Faults           \* subset of {"late_write", "deadline", "start_fails"}

Kinds == {"level", "env"}

\* A call sets the verbosity or the environment to a content, or turns the
\* service on or off.
ASSUME OpsAssumption ==
    /\ \A o \in Ops : \/ /\ o.kind \in Kinds
                         /\ o.content \in Seq({o.content[i] : i \in DOMAIN o.content})
                      \/ o.kind = "state" /\ o.on \in BOOLEAN
    /\ MaxOps \in Nat /\ RETRY_ATTEMPTS \in Nat \ {0} /\ MAX_ATTEMPTS \in Nat \ {0}
    /\ Faults \subseteq {"late_write", "deadline", "start_fails"}

VARIABLES
    nops,      \* calls made so far
    call,      \* the current or the last call
    mpc,       \* the manager: "idle", "rpc" or "poll"
    outcome,   \* how the last call ended
    tries,     \* polls, or checks of the unit, made so far
    hpc,       \* the handler: "none", "file", "reload", "command", "job", "wait"
    conf,      \* the drop-in files
    pending,   \* the write that the blocking pool has still to do
    loaded,    \* the drop-in files as the service manager last read them
    job,       \* the job of the service manager
    unit,      \* "inactive", "active" or "stopping"
    running,   \* the configuration the daemon was started with
    socket     \* whether the management socket exists

vars == <<nops, call, mpc, outcome, tries, hpc, conf, pending, loaded, job, unit,
          running, socket>>

manager == <<nops, call, mpc, outcome>>
handler == <<hpc, tries>>
files   == <<conf, pending>>
systemd == <<loaded, job, unit, running, socket>>

NoWrite == [kind |-> "none"]
NoCall  == [kind |-> "none"]

Init ==
    /\ nops = 0 /\ call = NoCall /\ mpc = "idle" /\ outcome = "none"
    /\ tries = 0 /\ hpc = "none"
    /\ conf = [k \in Kinds |-> <<>>] /\ pending = NoWrite
    /\ loaded = conf /\ running = conf
    /\ job = "none" /\ unit = "active" /\ socket = TRUE

----------------------------------------------------------------------------
(* The manager *)

Request(o) ==
    /\ mpc = "idle" /\ nops < MaxOps
    /\ nops' = nops + 1 /\ call' = o /\ mpc' = "rpc"
    /\ hpc' = IF o.kind = "state" THEN "command" ELSE "file"
    /\ tries' = 0
    /\ UNCHANGED <<outcome, files, systemd>>

Return(r) == mpc' = "idle" /\ outcome' = r

\* The deadline of the call, or of a poll: the handler is dropped, but neither
\* the write nor the systemctl it has started.
DropHandler == hpc' = "none"

Deadline ==
    /\ "deadline" \in Faults
    /\ mpc \in {"rpc", "poll"} /\ Return("err") /\ DropHandler
    /\ UNCHANGED <<nops, call, tries, files, systemd>>

\* mullvad_daemon_get_status: whether the socket is there.
AcceptState == socket \/ call.kind = "state"
Accepted == socket = (call.kind \in Kinds \/ call.on)

NotCounted(n) == n
Counted(n) == n + 1

\* mullvad_daemon_wait_for_state
Poll ==
    /\ mpc = "poll"
    /\ IF Accepted THEN Return("ok") /\ UNCHANGED tries
       ELSE IF tries = MAX_ATTEMPTS - 1 THEN Return("err") /\ UNCHANGED tries
       ELSE tries' = Counted(tries) /\ UNCHANGED <<mpc, outcome>>
    /\ UNCHANGED <<nops, call, hpc, files, systemd>>

----------------------------------------------------------------------------
(* The handlers *)

\* create, write, no truncate: what the old file has beyond the new content
\* stays.
Overwrite(old, new) == new \o SubSeq(old, Len(new) + 1, Len(old))

WriteFile ==
    /\ hpc = "file" /\ pending = NoWrite
    /\ pending' = [kind |-> call.kind, content |-> call.content]
    /\ hpc' = "reload"
    /\ UNCHANGED <<manager, tries, conf, systemd>>

\* The blocking pool does the write.
PoolWrite ==
    /\ pending # NoWrite
    /\ conf' = [conf EXCEPT ![pending.kind] = Overwrite(@, pending.content)]
    /\ pending' = NoWrite
    /\ UNCHANGED <<manager, handler, systemd>>

\* systemctl daemon-reload
ReadNothing == UNCHANGED loaded
ReadFiles == loaded' = conf

Reload ==
    /\ hpc = "reload"
    /\ pending = NoWrite \/ "late_write" \in Faults
    /\ ReadFiles
    /\ hpc' = "command"
    /\ UNCHANGED <<manager, tries, files, job, unit, running, socket>>

Command ==
    IF call.kind \in Kinds THEN "restart" ELSE IF call.on THEN "start" ELSE "stop"

\* A start joins a restart that is still under way; otherwise the new job
\* replaces the old one.
Systemctl ==
    /\ hpc = "command"
    /\ job' = IF Command = "start" /\ job = "restart" THEN job ELSE Command
    /\ hpc' = "job"
    /\ UNCHANGED <<manager, tries, files, loaded, unit, running, socket>>

JobAwaited == job = "none"

SystemctlReturns ==
    /\ hpc = "job" /\ JobAwaited
    /\ hpc' = "wait"
    /\ UNCHANGED <<manager, tries, files, systemd>>

Awaited == IF Command = "stop" THEN "inactive" ELSE "active"

\* wait_for_service_state
CheckUnit ==
    /\ hpc = "wait"
    /\ IF unit = Awaited
       THEN mpc' = "poll" /\ hpc' = "none" /\ tries' = 0 /\ UNCHANGED outcome
       ELSE IF tries = RETRY_ATTEMPTS - 1
       THEN Return("err") /\ hpc' = "none" /\ UNCHANGED tries
       ELSE tries' = Counted(tries) /\ UNCHANGED <<mpc, outcome, hpc>>
    /\ UNCHANGED <<nops, call, files, systemd>>

----------------------------------------------------------------------------
(* The service manager and the daemon *)

StopBegins ==
    /\ job \in {"stop", "restart"} /\ unit = "active"
    /\ unit' = "stopping"
    /\ UNCHANGED <<manager, handler, files, loaded, job, running, socket>>

\* The daemon removes its socket when it exits.
StopEnds ==
    /\ unit = "stopping"
    /\ unit' = "inactive" /\ socket' = FALSE
    /\ job' = IF job = "stop" THEN "none" ELSE job
    /\ UNCHANGED <<manager, handler, files, loaded, running>>

Start ==
    /\ job \in {"start", "restart"} /\ unit = "inactive"
    /\ unit' = "active" /\ running' = loaded /\ job' = "none"
    /\ UNCHANGED <<manager, handler, files, loaded, socket>>

StartFails ==
    /\ "start_fails" \in Faults
    /\ job \in {"start", "restart"} /\ unit = "inactive"
    /\ job' = "none"
    /\ UNCHANGED <<manager, handler, files, loaded, unit, running, socket>>

\* A job for the state the unit is in.
NothingToDo ==
    /\ <<job, unit>> \in {<<"start", "active">>, <<"stop", "inactive">>}
    /\ job' = "none"
    /\ UNCHANGED <<manager, handler, files, loaded, unit, running, socket>>

Listen ==
    /\ unit = "active" /\ ~socket
    /\ socket' = TRUE
    /\ UNCHANGED <<manager, handler, files, loaded, job, unit, running>>

Handler == WriteFile \/ Reload \/ Systemctl \/ SystemctlReturns \/ CheckUnit

Service == StopBegins \/ StopEnds \/ Start \/ StartFails \/ NothingToDo \/ Listen

Finished == mpc = "idle" /\ nops = MaxOps /\ UNCHANGED vars

Next ==
    \/ \E o \in Ops : Request(o)
    \/ Deadline \/ Poll \/ Handler \/ PoolWrite \/ Service \/ Finished

Spec == Init /\ [][Next]_vars

\* The runtime of the manager and of the runner run what is ready, and the
\* service manager works on its jobs.
FairSpec ==
    Spec /\ WF_vars(Poll) /\ WF_vars(Handler) /\ WF_vars(PoolWrite) /\ WF_vars(Service)

----------------------------------------------------------------------------
(* Properties *)

Done(kinds) == mpc = "idle" /\ outcome = "ok" /\ call.kind \in kinds

\* The number of v's of the verbosity argument, or the lines of env.conf.
Meaning(kind, s) ==
    IF kind = "level" THEN Cardinality({i \in DOMAIN s : s[i] = "v"})
    ELSE {s[i] : i \in DOMAIN s}

\* When set_daemon_log_level or set_daemon_environment returns Ok, the daemon
\* runs with what was asked for (lib.rs 158-159; sys.rs 154-204 and 284-329).
Applied ==
    Done(Kinds) =>
        /\ unit = "active" /\ socket
        /\ Meaning(call.kind, running[call.kind]) = Meaning(call.kind, call.content)

\* When set_mullvad_daemon_service_state returns Ok, the service is in the
\* state asked for (client.rs 267-282, sys.rs 431-448).  Like Applied this
\* holds until the next call: nothing that this call, or an earlier one that
\* ran out of time, has left to the service manager undoes it.
StateReached ==
    Done({"state"}) => socket = call.on /\ unit = (IF call.on THEN "active" ELSE "inactive")

\* Every call returns, also when the daemon does not come up (sys.rs 496-531,
\* client.rs 123-138).
Returns == mpc # "idle" ~> mpc = "idle"
=============================================================================
