------------------------ MODULE DaemonServiceProofs ------------------------
(***************************************************************************)
(* For any calls, any number of attempts and all faults: a call that turns *)
(* the service on or off and returns Ok has had its effect, and nothing    *)
(* that an earlier call left to the service manager undoes it.  So has one *)
(* that sets the verbosity or the environment, when the write is done      *)
(* before the reload and replaces the whole file.                          *)
(***************************************************************************)
EXTENDS DaemonService, TLAPS

\* Once systemctl has returned, the service manager has nothing left to do and
\* the unit does not change any more; a unit that is off has no socket.
ServiceInv ==
    /\ call \in Ops \cup {NoCall}
    /\ mpc \in {"idle", "rpc", "poll"}
    /\ hpc # "none" => mpc = "rpc"
    /\ job \in {"none", "start", "stop", "restart"}
    /\ unit \in {"inactive", "active", "stopping"}
    /\ socket \in BOOLEAN
    /\ job = "none" => unit # "stopping"
    /\ unit = "inactive" => ~socket
    /\ hpc = "wait" => job = "none"
    /\ mpc = "poll" => job = "none" /\ unit = Awaited
    /\ mpc = "idle" /\ outcome = "ok" => job = "none" /\ unit = Awaited /\ Accepted

LEMMA KindsOfCalls ==
    \A o \in Ops : o.kind \in Kinds \/ (o.kind = "state" /\ o.on \in BOOLEAN)
  BY OpsAssumption, Zenon

LEMMA ServiceInit == Init => ServiceInv
  BY DEF Init, ServiceInv, NoCall

LEMMA ManagerStep ==
    ASSUME ServiceInv, (\E o \in Ops : Request(o)) \/ Deadline \/ Poll
    PROVE ServiceInv'
<1> USE DEF ServiceInv, Awaited, Command, Accepted, manager, handler, files, systemd
<1>1. CASE \E o \in Ops : Request(o)
  BY <1>1 DEF Request
<1>2. CASE Deadline
  BY <1>2 DEF Deadline, Return, DropHandler
<1>3. CASE Poll
  BY <1>3 DEF Poll, Return
<1> QED
  BY <1>1, <1>2, <1>3

LEMMA HandlerStep ==
    ASSUME ServiceInv, Handler \/ PoolWrite
    PROVE ServiceInv'
<1> USE DEF ServiceInv, Awaited, Command, Accepted, manager, handler, files, systemd
<1>1. CASE WriteFile \/ PoolWrite \/ Reload
  BY <1>1 DEF WriteFile, PoolWrite, Reload
<1>2. CASE Systemctl
  BY <1>2 DEF Systemctl
<1>3. CASE SystemctlReturns
  BY <1>3 DEF SystemctlReturns, JobAwaited
<1>4. CASE CheckUnit
  BY <1>4 DEF CheckUnit, Return
<1> QED
  BY <1>1, <1>2, <1>3, <1>4 DEF Handler

LEMMA ServiceStep ==
    ASSUME ServiceInv, Service
    PROVE ServiceInv'
<1> USE DEF ServiceInv, Awaited, Command, Accepted, manager, handler, files
<1>1. CASE StopBegins
  BY <1>1 DEF StopBegins
<1>2. CASE StopEnds
  BY <1>2 DEF StopEnds
<1>3. CASE Start \/ StartFails \/ NothingToDo
  BY <1>3 DEF Start, StartFails, NothingToDo
<1>4. CASE Listen
  BY <1>4 DEF Listen
<1> QED
  BY <1>1, <1>2, <1>3, <1>4 DEF Service

LEMMA ServiceInductive == ServiceInv /\ [Next]_vars => ServiceInv'
<1> SUFFICES ASSUME ServiceInv, [Next]_vars
             PROVE ServiceInv'
  OBVIOUS
<1>1. CASE Finished \/ UNCHANGED vars
  BY <1>1 DEF Finished, vars, ServiceInv, Awaited, Command, Accepted
<1> QED
  BY <1>1, ManagerStep, HandlerStep, ServiceStep DEF Next

\* When set_mullvad_daemon_service_state has returned Ok, the service is in the
\* state asked for until the next call, for any history of calls, deadlines and
\* failed starts (client.rs 267-282, sys.rs 431-448 and 496-531).
THEOREM StateIsReached == Spec => []StateReached
<1>1. ServiceInv => StateReached
  <2> SUFFICES ASSUME ServiceInv, Done({"state"})
               PROVE socket = call.on /\ unit = (IF call.on THEN "active" ELSE "inactive")
    BY DEF StateReached
  <2>1. call \in Ops /\ call.kind = "state" /\ call.on \in BOOLEAN
    BY KindsOfCalls DEF ServiceInv, Done, NoCall, Kinds
  <2>2. unit = Awaited /\ Accepted
    BY DEF ServiceInv, Done
  <2> QED
    BY <2>1, <2>2 DEF Awaited, Command, Accepted, Kinds, ServiceInv
<1> QED
  BY <1>1, ServiceInit, ServiceInductive, PTL DEF Spec

----------------------------------------------------------------------------
(* The drop-in files *)

Contents(k) == {o.content : o \in {c \in Ops : c.kind = k}}

\* The calls of a kind all write as much, as those of the tests do: what a call
\* writes then covers all of the file that an earlier one wrote.
SameLength ==
    \A k \in Kinds : \A c, d \in Contents(k) : Len(c) = Len(d)

\* What follows the last byte of the new content is all there was before, which
\* is nothing when the old content is empty or of the same length.
LEMMA OverwriteReplaces ==
    ASSUME NEW S, NEW new \in Seq(S), NEW T, NEW old \in Seq(T),
           old = <<>> \/ Len(old) = Len(new)
    PROVE Overwrite(old, new) = new
<1>1. SubSeq(old, Len(new) + 1, Len(old)) = <<>>
  OBVIOUS
<1> QED
  BY <1>1 DEF Overwrite

\* The steps of a call that come after its restart.
Restarted ==
    \/ hpc = "job" /\ job # "restart"
    \/ hpc = "wait"
    \/ mpc = "poll"
    \/ mpc = "idle" /\ outcome = "ok"

Written(k, c) == [kind |-> k, content |-> c]

FilesInv ==
    /\ conf \in [Kinds -> {<<>>} \cup UNION {Contents(k) : k \in Kinds}]
    /\ \A k \in Kinds : conf[k] \in Contents(k) \cup {<<>>}
    /\ pending = NoWrite \/ \E k \in Kinds : \E c \in Contents(k) : pending = Written(k, c)

\* The content that a call has asked for is in the pending write, then in the
\* file, then in what the service manager has loaded, and then in the daemon,
\* once the restart has been done.
ConfigInv ==
    /\ FilesInv
    /\ hpc = "file" => call.kind \in Kinds
    /\ call.kind \in Kinds =>
        /\ hpc = "reload" => \/ pending = Written(call.kind, call.content)
                             \/ pending = NoWrite /\ conf[call.kind] = call.content
        /\ hpc \in {"command", "job", "wait"} => loaded[call.kind] = call.content
        /\ Restarted => job = "none"
        /\ Restarted /\ unit = "active" => running[call.kind] = call.content

LEMMA ConfigInit == Init => ConfigInv
<1> SUFFICES ASSUME Init
             PROVE ConfigInv
  OBVIOUS
<1>1. FilesInv
  <2> DEFINE texts == {<<>>} \cup UNION {Contents(k) : k \in Kinds}
  <2>1. <<>> \in texts
    OBVIOUS
  <2> HIDE DEF texts
  <2>2. conf \in [Kinds -> texts] /\ \A k \in Kinds : conf[k] = <<>>
    BY <2>1 DEF Init
  <2> QED
    BY <2>2 DEF Init, FilesInv, texts
<1> QED
  BY <1>1 DEF Init, ConfigInv, NoCall, Kinds

LEMMA FilesKept == FilesInv /\ UNCHANGED files => FilesInv'
  BY DEF FilesInv, files

\* The blocking pool replaces the file by what was to be written.
LEMMA PoolWrites ==
    ASSUME SameLength, FilesInv, PoolWrite,
           NEW k \in Kinds, NEW c \in Contents(k), pending = Written(k, c)
    PROVE conf' = [conf EXCEPT ![k] = c] /\ pending' = NoWrite
<1>1. pending.kind = k /\ pending.content = c
  BY DEF Written
<1>2. PICK o \in Ops : o.kind = k /\ o.content = c
  BY DEF Contents
<1>3. c \in Seq({c[i] : i \in DOMAIN c})
  BY <1>2, OpsAssumption DEF Kinds
<1>4. conf[k] = <<>> \/ conf[k] \in Contents(k)
  BY DEF FilesInv
<1>5. Overwrite(conf[k], c) = c
  <2>1. CASE conf[k] = <<>>
    <3>1. <<>> \in Seq({})
      OBVIOUS
    <3> QED
      BY <1>3, <2>1, <3>1, OverwriteReplaces
  <2>2. CASE conf[k] \in Contents(k)
    <3>1. PICK p \in Ops : p.kind = k /\ p.content = conf[k]
      BY <2>2 DEF Contents
    <3>2. conf[k] \in Seq({conf[k][i] : i \in DOMAIN conf[k]})
      BY <3>1, OpsAssumption DEF Kinds
    <3>3. Len(conf[k]) = Len(c)
      BY <2>2 DEF SameLength
    <3> QED
      BY <1>3, <3>2, <3>3, OverwriteReplaces
  <2> QED
    BY <1>4, <2>1, <2>2
<1>6. conf' = [conf EXCEPT ![k] = Overwrite(conf[k], c)] /\ pending' = NoWrite
  BY <1>1 DEF PoolWrite, FilesInv
<1> QED
  BY <1>5, <1>6

LEMMA ConfigStep ==
    ASSUME "late_write" \notin Faults, SameLength, ServiceInv, ConfigInv, [Next]_vars
    PROVE ConfigInv'
<1>1. CASE \E o \in Ops : Request(o)
  <2>1. PICK o \in Ops : Request(o)
    BY <1>1
  <2>2. o.kind = "state" <=> o.kind \notin Kinds
    BY KindsOfCalls DEF Kinds
  <2> QED
    BY <2>1, <2>2, FilesKept DEF Request, ConfigInv, Restarted
<1>2. CASE Deadline
  BY <1>2, FilesKept DEF Deadline, Return, DropHandler, ConfigInv, Restarted, systemd
<1>3. CASE Poll
  BY <1>3, FilesKept DEF Poll, Return, ConfigInv, Restarted, ServiceInv, systemd
<1>4. CASE WriteFile
  <2>1. /\ UNCHANGED <<manager, conf, systemd>> /\ hpc' = "reload" /\ hpc = "file"
        /\ pending' = Written(call.kind, call.content)
    BY <1>4 DEF WriteFile, Written
  <2>2. call.kind \in Kinds /\ call.content \in Contents(call.kind)
    BY <2>1 DEF ConfigInv, ServiceInv, NoCall, Kinds, Contents
  <2>3. FilesInv'
    BY <2>1, <2>2 DEF ConfigInv, FilesInv
  <2> QED
    BY <2>1, <2>3 DEF ConfigInv, Restarted, ServiceInv, manager
<1>5. CASE PoolWrite
  <2>0. PICK k \in Kinds : \E c \in Contents(k) : pending = Written(k, c)
    BY <1>5 DEF PoolWrite, ConfigInv, FilesInv
  <2>1. PICK c \in Contents(k) : pending = Written(k, c)
    BY <2>0
  <2>2. conf' = [conf EXCEPT ![k] = c] /\ pending' = NoWrite
    BY <1>5, <2>1, PoolWrites DEF ConfigInv
  <2>3. UNCHANGED <<manager, handler, systemd>>
    BY <1>5 DEF PoolWrite
  <2>4. FilesInv'
    BY <2>1, <2>2 DEF ConfigInv, FilesInv
  <2>5. ASSUME call.kind \in Kinds, hpc = "reload"
        PROVE conf'[call.kind] = call.content
    BY <2>1, <2>2, <2>5 DEF ConfigInv, FilesInv, Written, NoWrite
  <2> QED
    BY <2>2, <2>3, <2>4, <2>5 DEF ConfigInv, Restarted, manager, handler, systemd
<1> USE DEF manager, handler, files
<1>6. CASE Reload
  BY <1>6, FilesKept DEF Reload, ReadFiles, ConfigInv, Restarted, ServiceInv, Written, NoWrite
<1>7. CASE Systemctl
  BY <1>7, FilesKept DEF Systemctl, ConfigInv, Restarted, ServiceInv, Command
<1>8. CASE SystemctlReturns
  BY <1>8, FilesKept DEF SystemctlReturns, JobAwaited, ConfigInv, Restarted, ServiceInv, systemd
<1>9. CASE CheckUnit
  BY <1>9, FilesKept DEF CheckUnit, Return, ConfigInv, Restarted, ServiceInv, systemd
<1>10. CASE StopBegins
  BY <1>10, FilesKept DEF StopBegins, ConfigInv, Restarted
<1>11. CASE StopEnds
  BY <1>11, FilesKept DEF StopEnds, ConfigInv, Restarted, ServiceInv
<1>12. CASE Start
  BY <1>12, FilesKept DEF Start, ConfigInv, Restarted, ServiceInv
<1>13. CASE StartFails \/ NothingToDo
  BY <1>13, FilesKept DEF StartFails, NothingToDo, ConfigInv, Restarted, ServiceInv
<1>14. CASE Listen
  BY <1>14, FilesKept DEF Listen, ConfigInv, Restarted
<1>15. CASE Finished \/ UNCHANGED vars
  BY <1>15, FilesKept DEF Finished, vars, files, ConfigInv, Restarted
<1> QED
  BY <1>1, <1>2, <1>3, <1>4, <1>5, <1>6, <1>7, <1>8, <1>9, <1>10, <1>11, <1>12, <1>13, <1>14,
     <1>15 DEF Next, Handler, Service

\* When the write reaches the file before the reload, and the calls of a kind
\* write as much as each other, a call that sets the verbosity or the
\* environment and returns Ok has restarted the daemon with what it asked for,
\* whatever earlier calls that ran out of time have left behind (lib.rs
\* 158-159; sys.rs 154-204 and 284-329).
THEOREM SettingsApplied ==
    ASSUME "late_write" \notin Faults, SameLength
    PROVE Spec => []Applied
<1>1. ServiceInv /\ ConfigInv => Applied
  <2> SUFFICES ASSUME ServiceInv, ConfigInv, Done(Kinds)
               PROVE /\ unit = "active" /\ socket
                     /\ running[call.kind] = call.content
    BY DEF Applied
  <2> QED
    BY DEF ServiceInv, ConfigInv, Done, Restarted, Awaited, Accepted, Command
<1>2. ServiceInv /\ ConfigInv /\ [Next]_vars => ConfigInv'
  BY ConfigStep
<1> QED
  BY <1>1, <1>2, ServiceInit, ServiceInductive, ConfigInit, PTL DEF Spec
=============================================================================
