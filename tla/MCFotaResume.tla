---------------------------- MODULE MCFotaResume ----------------------------
(* Instances of FotaResume for TLC. *)
EXTENDS FotaResume

NadPackage == [type |-> "NAD_ONLY", files |-> {"update.zip"}]
IocEmptyPackage == [type |-> "IOC_ONLY", files |-> {}]
LifePackages == {NadPackage, IocEmptyPackage}

AnyBuild == {"new", "other"}

\* What goes wrong in the timers only ends a wait early or never: it is left to
\* the instances of FotaInstall.
LifeFaults == FaultKinds \ {"timer_add", "tick_race"}
=============================================================================
