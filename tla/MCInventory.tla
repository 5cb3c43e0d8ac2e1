---------------------------- MODULE MCInventory ----------------------------
(* Instances of Inventory for TLC. *)
EXTENDS Inventory

MCVersions == 0..2
WholeOrNone == MCVersions \cup {Absent}

NoFaults == {}
AnyIoFault == IoFaultKinds

\* Without a failing check or a short copy the restore, which is not atomic, is
\* never reached; a failing boot copy or mkdir leaves what a start-up before may
\* have torn.
CrashFaults == {"copy", "fsync", "rename"}
=============================================================================
