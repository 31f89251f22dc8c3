-------------------------- MODULE MCDaemonService --------------------------
(***************************************************************************)
(* Instances of DaemonService with the calls the tests make, and with the  *)
(* verbosities that set_daemon_log_level offers.                           *)
(***************************************************************************)
EXTENDS DaemonService

Verbosity == [Info |-> <<>>, Debug |-> <<"-", "v">>, Trace |-> <<"-", "v", "v">>]

Level(v) == [kind |-> "level", content |-> Verbosity[v]]

\* The lines of get_app_env, which come in the order of a HashMap.
Environment(lines) == [kind |-> "env", content |-> lines]

State(on) == [kind |-> "state", on |-> on]

\* test_install_previous_app, test_install_new_app and
\* test_automatic_wireguard_rotation.
MCOps == {Level("Trace"), Environment(<<"addr", "host">>), Environment(<<"host", "addr">>),
          State(TRUE), State(FALSE)}

MCLevels == {Level("Info"), Level("Trace")}
=============================================================================
