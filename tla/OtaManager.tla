----------------------------- MODULE OtaManager -----------------------------
(***************************************************************************)
(* The OTA manager of the TCU, an external service that the update agent   *)
(* drives by CommonAPI calls through myProxy (tcu_updateagent.cpp).  Its   *)
(* code is not in the repository: the module keeps what the agent's calls  *)
(* and polls can observe and leaves every decision of the service open.    *)
(*                                                                         *)
(* The calls are actions of the caller's step.  The manager's own steps    *)
(* are OtaStep.  A failed call leaves the reply at the default literal of  *)
(* its enumeration, which the agent does not tell from an answer, because  *)
(* it never reads callSTATUS: fault "call_lost" is such a call.            *)
(***************************************************************************)
EXTENDS Naturals, FotaFaults

CONSTANT Packages    \* what an update package can turn out to be (PackageShape)

UpdateTypes == {"NAD_ONLY", "IOC_ONLY", "NAD_IOC", "INVALID_UPDATE_TYPE",
                "NO_UPDATE_AVAILABLE"}

\* The files the manager unpacks below <flash_directory>/DeltaPackage.
Files == {"update.zip", "IOC_SWDL"}

PackageShape == [type : UpdateTypes \ {"NO_UPDATE_AVAILABLE"}, files : SUBSET Files]

ASSUME PackagesAssumption == Packages \subseteq PackageShape

VARIABLES
    otaState,    \* getOta_state()
    otaExit,     \* getExit_code()
    otaType,     \* getUpdate_type()
    otaFiles,    \* what is unpacked below <flash_directory>/DeltaPackage
    otaJob,      \* the job taken and not yet finished
    otaFor,      \* the install whose selfTCUUpdate was taken last
    event        \* the percentage of the last OtaState event, until delivered

otaVars == <<otaState, otaExit, otaType, otaFiles, otaJob, otaFor, event>>

\* IDLE and IN_PROGRESS stand for the states that no line of the agent names.
OtaStates == {"IDLE", "IN_PROGRESS", "UPDATE_COMPLETE_SWITCH_PENDING",
              "ACTIVE_SYSTEM_SWITCHED_SYNC_PENDING", "SUCCEEDED_SYNCHRONIZED",
              "FAILED", "UPDATE_IOC_FAILED"}

\* The exit codes the agent tells apart when it polls one: none, the missing
\* package, and any other code of the list at tcu_updateagent.cpp:579.
ExitCodes == {"E_NO_ERROR", "E_UPDATE_PACKAGE_NOEXIST", "E_BSPATCHFAILED"}

Jobs == {"none", "update", "sync", "switch"}
Percents == {0, 100}

OtaTypeOK ==
    /\ otaState \in OtaStates
    /\ otaExit \in ExitCodes
    /\ otaType \in UpdateTypes
    /\ otaFiles \in SUBSET Files
    /\ otaJob \in Jobs
    /\ otaFor \in Nat
    /\ event \in SUBSET Percents

\* The manager is up before the agent and may have an older update behind it.
OtaInit ==
    /\ otaState \in {"IDLE", "SUCCEEDED_SYNCHRONIZED",
                     "ACTIVE_SYSTEM_SWITCHED_SYNC_PENDING",
                     "UPDATE_COMPLETE_SWITCH_PENDING"}
    /\ otaExit = "E_NO_ERROR"
    /\ otaType = "NO_UPDATE_AVAILABLE"
    /\ otaFiles = {}
    /\ otaJob = "none"
    /\ otaFor = 0
    /\ event = {}

-----------------------------------------------------------------------------
(* Calls.  ok tells whether the reply read by the agent is E_NO_ERROR (for *)
(* selfTCUUpdate: none of the codes tcu_StartFotaUpdate lists).            *)

\* The manager takes a job only when it has none.  State and exit code are
\* those of the new job, at once or, when it begins slowly, later.
TakesJob(job) ==
    /\ otaJob = "none"
    /\ otaJob' = job
    /\ \/ otaState' = "IN_PROGRESS" /\ otaExit' = "E_NO_ERROR"
       \/ "slow_begin" \in Faults /\ UNCHANGED <<otaState, otaExit>>

SelfTCUUpdate(n, ok) ==
    \/ /\ ok
       /\ TakesJob("update")
       /\ otaFor' = n
       /\ \E p \in Packages : otaType' = p.type /\ otaFiles' = p.files
       /\ UNCHANGED event
    \* a code outside the list of tcu_updateagent.cpp:550-562, or a lost call
    \/ ok /\ (otaJob = "none" \/ "call_lost" \in Faults) /\ UNCHANGED otaVars
    \/ ~ok /\ UNCHANGED otaVars

SynchronizePartition(ok) ==
    \/ /\ ok
       /\ TakesJob("sync")
       /\ UNCHANGED <<otaType, otaFiles, otaFor, event>>
    \/ ok /\ "call_lost" \in Faults /\ UNCHANGED otaVars
    \/ ~ok /\ UNCHANGED otaVars

SwitchPartition(ok) ==
    \/ /\ ok
       /\ otaJob = "none"
       /\ otaJob' = "switch"
       /\ UNCHANGED <<otaState, otaExit, otaType, otaFiles, otaFor, event>>
    \/ ok /\ "call_lost" \in Faults /\ UNCHANGED otaVars
    \/ ~ok /\ UNCHANGED otaVars

\* selfTCUUpdateCancel(NEXT_UPDATE_FROM_BEGINNING) ends a running update.
SelfTCUUpdateCancel ==
    \/ /\ otaJob = "update"
       /\ otaJob' = "none"
       /\ otaState' = "FAILED"
       /\ UNCHANGED <<otaExit, otaType, otaFiles, otaFor, event>>
    \/ (otaJob # "update" \/ "call_lost" \in Faults) /\ UNCHANGED otaVars

-----------------------------------------------------------------------------
(* The manager's own steps.  An event is lost when nobody is subscribed.   *)

Emit(subscribed, percent) == event' = IF subscribed THEN {percent} ELSE event

OtaBegins(subscribed) ==
    /\ otaJob \in {"update", "sync"} /\ otaState # "IN_PROGRESS"
    /\ otaState' = "IN_PROGRESS" /\ otaExit' = "E_NO_ERROR"
    /\ IF otaJob = "update" THEN Emit(subscribed, 0) ELSE UNCHANGED event
    /\ UNCHANGED <<otaType, otaFiles, otaJob, otaFor>>

OtaUpdateEnds(subscribed) ==
    /\ otaJob = "update" /\ otaState = "IN_PROGRESS"
    /\ otaJob' = "none"
    /\ \/ /\ otaState' = "UPDATE_COMPLETE_SWITCH_PENDING"
          /\ otaExit' = "E_NO_ERROR"
          /\ Emit(subscribed, 100)
       \/ /\ otaState' = "FAILED"
          /\ otaExit' \in {"E_UPDATE_PACKAGE_NOEXIST", "E_BSPATCHFAILED"}
          /\ UNCHANGED event
       \/ /\ otaState' = "UPDATE_IOC_FAILED"
          /\ otaExit' = "E_BSPATCHFAILED"
          /\ UNCHANGED event
    /\ UNCHANGED <<otaType, otaFiles, otaFor>>

OtaSyncEnds ==
    /\ otaJob = "sync" /\ otaState = "IN_PROGRESS"
    /\ otaJob' = "none"
    /\ \/ otaState' = "SUCCEEDED_SYNCHRONIZED" /\ otaExit' = "E_NO_ERROR"
       \/ otaState' = "FAILED" /\ otaExit' = "E_BSPATCHFAILED"
    /\ UNCHANGED <<otaType, otaFiles, otaFor, event>>

OtaTypeTurnsInvalid ==
    /\ "type_turns_invalid" \in Faults
    /\ otaJob = "update"
    /\ otaType' = "INVALID_UPDATE_TYPE"
    /\ UNCHANGED <<otaState, otaExit, otaFiles, otaJob, otaFor, event>>

OtaStep(subscribed) ==
    \/ OtaBegins(subscribed)
    \/ OtaUpdateEnds(subscribed)
    \/ OtaSyncEnds
    \/ OtaTypeTurnsInvalid

\* The device goes down: an accepted switch takes effect, a running job is lost.
OtaRestarts ==
    /\ otaJob' = "none"
    /\ otaState' = CASE otaJob = "switch" -> "ACTIVE_SYSTEM_SWITCHED_SYNC_PENDING"
                     [] otaJob \in {"update", "sync"} -> "FAILED"
                     [] OTHER -> otaState
    /\ event' = {}
    /\ otaExit' = "E_NO_ERROR"
    /\ UNCHANGED <<otaType, otaFiles, otaFor>>
=============================================================================
