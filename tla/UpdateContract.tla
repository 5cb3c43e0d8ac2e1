--------------------------- MODULE UpdateContract ---------------------------
(***************************************************************************)
(* What the FOTA path promises libua and the driver, without timers, files *)
(* or manager states: one update at a time; the version that runs changes  *)
(* only when the device goes down after a switch that was requested, and a *)
(* switch is requested only while an update is open; an update is only     *)
(* confirmed while the deployed version runs, and then none is opened.     *)
(***************************************************************************)
CONSTANTS
    PartitionVersions,  \* what a partition may hold
    Deployed            \* the version to install

VARIABLES
    phase,      \* what became of the update
    runs,       \* the version that runs
    switching   \* a switch is requested

contractVars == <<phase, runs, switching>>

ContractInit == phase = "none" /\ runs \in PartitionVersions /\ switching = FALSE

Deploy ==
    /\ phase \in {"none", "failed"} /\ phase' = "open"
    /\ UNCHANGED <<runs, switching>>

RequestSwitch ==
    /\ phase = "open" /\ switching' = TRUE
    /\ UNCHANGED <<phase, runs>>

Confirm ==
    /\ phase = "open" /\ runs = Deployed /\ phase' = "confirmed"
    /\ UNCHANGED <<runs, switching>>

Abandon ==
    /\ phase = "open" /\ phase' = "failed"
    /\ UNCHANGED <<runs, switching>>

\* An update that is open may be lost when the device goes down.
Reboot ==
    /\ runs' \in IF switching THEN PartitionVersions ELSE {runs}
    /\ switching' = FALSE
    /\ UNCHANGED phase \/ (phase = "open" /\ phase' = "failed")

ContractNext == Deploy \/ RequestSwitch \/ Confirm \/ Abandon \/ Reboot

ContractSpec == ContractInit /\ [][ContractNext]_contractVars
=============================================================================
