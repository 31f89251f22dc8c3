-------------------------- MODULE MCVirtualMachine --------------------------
(* Two commands in a row on one host, for QEMU with and without a TPM, as    *)
(* root and in a namespace of their own, and for Tart with and without a     *)
(* clone, through each of the three commands of main.                        *)
EXTENDS VirtualMachine

MCScenarios ==
  { [cmd |-> c[1], vm |-> c[2], tpm |-> c[3], keep |-> c[4], shared |-> c[5],
     ssh |-> c[6], pkg |-> c[7], display |-> c[8]] :
      c \in { <<"run_tests", "qemu", TRUE, FALSE, FALSE, TRUE, "deb", FALSE>>,
              <<"run_tests", "qemu", FALSE, FALSE, TRUE, FALSE, "deb", TRUE>>,
              <<"update", "qemu", FALSE, FALSE, FALSE, TRUE, "deb", FALSE>>,
              <<"update", "qemu", FALSE, FALSE, FALSE, TRUE, "rpm", FALSE>>,
              <<"update", "qemu", FALSE, FALSE, FALSE, FALSE, "rpm", FALSE>>,
              <<"run_vm", "qemu", TRUE, TRUE, FALSE, TRUE, "deb", TRUE>>,
              <<"run_tests", "tart", FALSE, FALSE, TRUE, TRUE, "none", TRUE>>,
              <<"run_vm", "tart", FALSE, TRUE, TRUE, TRUE, "none", TRUE>>,
              <<"run_tests", "tart", FALSE, FALSE, TRUE, FALSE, "none", FALSE>> } }
=============================================================================
