--------------------------- MODULE MCFotaInstall ---------------------------
(* Instances of FotaInstall for TLC. *)
EXTENDS FotaInstall

NadPackage == [type |-> "NAD_ONLY", files |-> {"update.zip"}]
NadEmptyPackage == [type |-> "NAD_ONLY", files |-> {}]
NadIocPackage == [type |-> "NAD_IOC", files |-> Files]
IocPackage == [type |-> "IOC_ONLY", files |-> {"IOC_SWDL"}]
IocEmptyPackage == [type |-> "IOC_ONLY", files |-> {}]
InvalidPackage == [type |-> "INVALID_UPDATE_TYPE", files |-> {}]

\* Every package whose failure a branch of tmpl_updateagent.cpp:1170-1305 reports.
ReportedPackages == {NadPackage, NadEmptyPackage, NadIocPackage, IocEmptyPackage, InvalidPackage}
IocPackages == {IocPackage}
NadPackages == {NadPackage}

NoFaults == {}

\* The faults each of the checked properties is claimed under: the theorems of
\* FotaInstallProofs exclude the same ones.
WaitFaults == {"call_lost", "store_fails", "mv_fails"}
UpdateFaults == FaultKinds \ {"slow_begin", "mv_fails", "store_fails"}
=============================================================================
