---------------------------- MODULE MCAppInstall ----------------------------
(* All four tests in a row; and, on every system, each of the first three     *)
(* before the one that always runs, with and without an app in the guest.     *)
EXTENDS AppInstall

Order == <<"previous", "upgrade", "uninstall", "new">>

Pairs == {<<t, "new">> : t \in {"previous", "upgrade", "uninstall"}}

MCScenarios ==
  { [os |-> "debian", tests |-> Order, app |-> "none", prompt |-> TRUE],
    [os |-> "arch", tests |-> Order, app |-> "none", prompt |-> TRUE] }
  \cup { [os |-> o, tests |-> t, app |-> a, prompt |-> o # "macos"] :
           o \in {"fedora", "macos", "windows"}, t \in Pairs, a \in {"none", "new"} }
=============================================================================
