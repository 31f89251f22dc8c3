----------------------------- MODULE MCTestRun -----------------------------
(***************************************************************************)
(* Instances of TestRun with the tests of tests/install.rs, test_login and *)
(* two tests of the daemon's settings, with the attributes they have in    *)
(* the source.                                                             *)
(***************************************************************************)
EXTENDS TestRun

MCTests == {"install_previous", "upgrade", "uninstall", "install_new", "login",
            "dns", "relay"}

MCPriority ==
    [t \in Tests |->
        CASE t = "install_previous" -> -200
          [] t = "upgrade" -> -190
          [] t = "uninstall" -> -170
          [] t = "install_new" -> -160
          [] t = "login" -> -100
          [] OTHER -> 0]

MCVersion ==
    [t \in Tests |->
        CASE t \in {"install_previous", "install_new"} -> "None"
          [] t = "upgrade" -> "Previous"
          [] OTHER -> "New"]

MCCleanup == Tests \ {"uninstall"}
MCMust == {"install_new", "login"}
MCFilters == {MCTests, {"install_previous", "upgrade", "dns"}}

MCNeeds ==
    [t \in Tests |-> IF t \in {"install_previous", "install_new"} THEN "noapp" ELSE "app"]

MCAppAfter ==
    [t \in Tests |->
        CASE t \in {"install_previous", "install_new"} -> "installed"
          [] t = "uninstall" -> "removed"
          [] OTHER -> "same"]

MCTouches ==
    [t \in Tests |->
        CASE t \in {"upgrade", "relay"} -> {"relay"}
          [] t = "dns" -> {"relay", "saved"}
          [] OTHER -> {}]
=============================================================================
