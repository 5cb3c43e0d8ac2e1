----------------------------- MODULE FotaResume -----------------------------
(***************************************************************************)
(* An update over the reboots it causes: the install (FotaInstall), then,  *)
(* when libua finds its record of an unfinished update, the TCU branch of  *)
(* do_resume_from_reboot (tmpl_updateagent.cpp:1761-2022) on the partition *)
(* that came up.  It compares the version that runs with the one deployed  *)
(* and the one before, and confirms, reports or rolls back.                *)
(*                                                                         *)
(* libua is external: it keeps update.rec from the install to the verdict, *)
(* and deploys one version.  The resume runs before any other install.     *)
(***************************************************************************)
EXTENDS FotaInstall

CONSTANT Built      \* the versions the deployed package may really contain

Deployed == "new"               \* ctl->version
PartitionVersions == {"old", "new", "other"}
NoVersion == ""
BrokenPartition == "broken"     \* neither bootable nor of any version

ASSUME BuiltAssumption == Built \subseteq PartitionVersions

VARIABLES
    running, standby,   \* what the active and the other partition hold
    recFile,            \* update.rec exists
    original,           \* ctl->original_version, from update.rec
    resumePc,           \* where the resume is
    installed,          \* installed_version
    verdict             \* what the last resume returned

deviceVars == <<running, standby>>
resumeVars == <<recFile, original, resumePc, installed, verdict>>
lifeVars == <<vars, deviceVars, resumeVars>>

ResumePoints == {"none", "version", "dispatch", "switch_file", "unlink_rec", "undo",
                 "compare", "rollback", "switched", "confirmed", "wait", "done"}

\* The type invariant of the composition.
LifeTypeOK ==
    /\ TypeOK
    /\ running \in PartitionVersions
    /\ standby \in PartitionVersions \cup {BrokenPartition}
    /\ recFile \in BOOLEAN /\ original \in PartitionVersions
    /\ resumePc \in ResumePoints
    /\ installed \in PartitionVersions \cup {NoVersion}
    /\ verdict \in {"none", "E_UA_OK", "E_UA_ERR", "INSTALL_FAILED"}

LifeInit ==
    /\ Init
    /\ otaState \in {"IDLE", "SUCCEEDED_SYNCHRONIZED"} /\ rollbackInfo = FALSE
    /\ running = "old" /\ standby = "old"
    /\ recFile = FALSE /\ original = "old"
    /\ resumePc = "none" /\ installed = NoVersion /\ verdict = "none"

-----------------------------------------------------------------------------
(* Control of the resume.                                                  *)

ResumeAt(point) ==
    /\ resumePc' = point
    /\ UNCHANGED <<recFile, installed, verdict>>

\* libua ends the update with the verdict, and with it its record.
ResumeReturns(v) ==
    /\ resumePc' = "none" /\ installed' = NoVersion
    /\ verdict' = v
    /\ recFile' = FALSE

\* Accepted, the switch is followed by a sleep in which the device goes down.
SwitchBack ==
    \/ SwitchPartition(TRUE) /\ ResumeAt("switched") /\ UNCHANGED diskVars
    \/ SwitchPartition(FALSE) /\ ResumeReturns("INSTALL_FAILED") /\ RemoveCacheDir

-----------------------------------------------------------------------------
(* The steps of the resume.                                                *)

\* Mutant: the version is read from the other partition.
ResumeVersionOfStandby ==
    /\ resumePc = "version"
    /\ installed' = standby
    /\ resumePc' = "dispatch"
    /\ UNCHANGED <<otaVars, timerVars, diskVars, recFile, verdict>>

ResumeVersion ==
    /\ resumePc = "version"
    /\ \/ installed' = running
       \/ "sm_down" \in Faults /\ installed' = NoVersion
    /\ resumePc' = "dispatch"
    /\ UNCHANGED <<otaVars, timerVars, diskVars, recFile, verdict>>

\* Synchronise, whatever the call returns, and confirm: but only while the
\* manager still waits for it.
Confirm ==
    \/ /\ otaState = "ACTIVE_SYSTEM_SWITCHED_SYNC_PENDING"
       /\ \E ok \in BOOLEAN : SynchronizePartition(ok)
       /\ ResumeAt("confirmed") /\ UNCHANGED diskVars
    \/ /\ otaState # "ACTIVE_SYSTEM_SWITCHED_SYNC_PENDING"
       /\ ResumeReturns("E_UA_ERR")
       /\ UNCHANGED <<otaVars, diskVars>>

\* An IOC_ONLY update has a branch of its own, before SWITCH_FILE is looked at.
ResumeDispatch ==
    /\ resumePc = "dispatch"
    /\ \/ otaType # "IOC_ONLY" /\ ResumeAt("switch_file") /\ UNCHANGED <<otaVars, diskVars>>
       \/ otaType = "IOC_ONLY" /\ installed = Deployed /\ Confirm
       \/ otaType = "IOC_ONLY" /\ installed # Deployed /\ SwitchBack
    /\ UNCHANGED timerVars

\* The record of a switch is removed, then libua's of the update, then the switch
\* is undone: the device may go down after each of them.
ResumeSwitchFile ==
    /\ resumePc = "switch_file"
    /\ \/ switchFile /\ switchFile' = FALSE /\ ResumeAt("unlink_rec")
       \/ ~switchFile /\ UNCHANGED switchFile /\ ResumeAt("compare")
    /\ UNCHANGED <<otaVars, timerVars, rollbackInfo>>

ResumeUnlinkRec ==
    /\ resumePc = "unlink_rec" /\ resumePc' = "undo"
    /\ recFile' = FALSE
    /\ UNCHANGED <<otaVars, timerVars, diskVars, installed, verdict>>

\* Accepted, the comparison goes on beside the switch.
ResumeUndo ==
    /\ resumePc = "undo"
    /\ \/ SwitchPartition(TRUE) /\ ResumeAt("compare") /\ UNCHANGED diskVars
       \/ SwitchPartition(FALSE) /\ ResumeReturns("INSTALL_FAILED") /\ RemoveCacheDir
    /\ UNCHANGED timerVars

OldRuns ==
    /\ installed = original
    /\ \/ /\ rollbackInfo
          /\ StartTimer("sync")
          /\ \E ok \in BOOLEAN : SynchronizePartition(ok)
          /\ ResumeAt("wait") /\ UNCHANGED diskVars
       \/ /\ ~rollbackInfo
          /\ ResumeReturns("E_UA_ERR") /\ RemoveCacheDir
          /\ UNCHANGED <<otaVars, timerVars>>

\* Mutant: every version but the deployed one is rolled back.
OtherRunsOrOld ==
    /\ rollbackInfo' = TRUE
    /\ ResumeAt("rollback")
    /\ UNCHANGED <<otaVars, timerVars, switchFile>>

OtherRuns ==
    /\ installed # original
    /\ \/ rollbackInfo' = TRUE
       \/ "store_fails" \in Faults /\ UNCHANGED rollbackInfo
    /\ ResumeAt("rollback")
    /\ UNCHANGED <<otaVars, timerVars, switchFile>>

\* Mutant: whatever is not the version before is confirmed.
ResumeCompareOldOnly ==
    /\ resumePc = "compare"
    /\ \/ installed = NoVersion /\ SwitchBack /\ UNCHANGED timerVars
       \/ installed \notin {NoVersion, original} /\ Confirm /\ UNCHANGED timerVars
       \/ installed # NoVersion /\ OldRuns

ResumeCompare ==
    /\ resumePc = "compare"
    /\ \/ installed = NoVersion /\ SwitchBack /\ UNCHANGED timerVars
       \/ installed = Deployed /\ Confirm /\ UNCHANGED timerVars
       \/ installed \notin {NoVersion, Deployed} /\ (OldRuns \/ OtherRuns)

ResumeRollback ==
    /\ resumePc = "rollback" /\ SwitchBack /\ UNCHANGED timerVars

ResumeSwitched ==
    /\ resumePc = "switched" /\ ResumeReturns("E_UA_ERR")
    /\ UNCHANGED <<otaVars, timerVars, diskVars>>

ResumeConfirmed ==
    /\ resumePc = "confirmed" /\ ResumeReturns("E_UA_OK") /\ RemoveCacheDir
    /\ UNCHANGED <<otaVars, timerVars>>

\* The synchronisation loop of the rollback.
ResumeWait ==
    /\ resumePc = "wait"
    /\ \/ isSyncTimerExpired /\ UNCHANGED timerVars
       \/ ~isSyncTimerExpired /\ SyncEnded /\ ClearTimer("sync")
    /\ ResumeAt("done")
    /\ UNCHANGED <<otaVars, diskVars>>

ResumeDone ==
    /\ resumePc = "done"
    /\ \/ /\ isSyncTimerExpired /\ ~SyncEnded
          /\ ClearTimer("sync") /\ ResumeReturns("INSTALL_FAILED")
       \/ /\ otaState = "FAILED"
          /\ ResumeReturns("INSTALL_FAILED") /\ UNCHANGED timerVars
       \/ /\ otaState # "FAILED" /\ (isSyncTimerExpired => SyncEnded)
          /\ ResumeReturns("E_UA_ERR") /\ UNCHANGED timerVars
    /\ RemoveCacheDir
    /\ UNCHANGED otaVars

Resume ==
    /\ \/ ResumeVersion \/ ResumeDispatch
       \/ ResumeSwitchFile \/ ResumeUnlinkRec \/ ResumeUndo
       \/ ResumeCompare \/ ResumeRollback \/ ResumeSwitched \/ ResumeConfirmed
       \/ ResumeWait \/ ResumeDone
    /\ UNCHANGED <<pc, site, installs, restarts, result, seen, busVars, deviceVars, original>>

-----------------------------------------------------------------------------
(* The partitions, and libua.                                              *)

\* An update that ends has built the other partition, or left it broken unless
\* it found no package; a synchronisation copies the running one.
ManagerWrites ==
    /\ Manager
    /\ \/ /\ otaJob = "update" /\ otaState' = "UPDATE_COMPLETE_SWITCH_PENDING"
          /\ standby' \in Built
       \/ /\ otaJob = "update" /\ otaState' \in {"FAILED", "UPDATE_IOC_FAILED"}
          /\ standby' = IF otaExit' = "E_UPDATE_PACKAGE_NOEXIST" THEN standby
                        ELSE BrokenPartition
       \/ /\ otaJob = "sync" /\ otaState' = "SUCCEEDED_SYNCHRONIZED"
          /\ standby' = running
       \/ /\ otaJob = "sync" /\ otaState' = "FAILED"
          /\ standby' = BrokenPartition
       \/ /\ otaJob' = otaJob
          /\ UNCHANGED standby
    /\ UNCHANGED <<running, resumeVars>>

\* The timer thread's cancel breaks off an update like a power failure does.
Interrupted == IF otaJob \in {"update", "sync"} THEN BrokenPartition ELSE standby

TimerThreadRuns ==
    /\ TimerThread
    /\ standby' = IF otaJob' = otaJob THEN standby ELSE Interrupted
    /\ UNCHANGED <<running, resumeVars>>

\* A switch to a broken partition falls back to the one that ran.
LifeRestart ==
    /\ Restart
    /\ \/ /\ otaJob = "switch" /\ standby # BrokenPartition
          /\ running' = standby /\ standby' = running
       \/ /\ otaJob # "switch" \/ standby = BrokenPartition
          /\ standby' = Interrupted /\ UNCHANGED running
    /\ resumePc' = IF recFile THEN "version" ELSE "none"
    /\ installed' = NoVersion
    /\ UNCHANGED <<recFile, original, verdict>>

\* libua deploys until the update is confirmed, and records what it begins.
LifeBegin ==
    /\ resumePc = "none" /\ verdict # "E_UA_OK"
    /\ BeginInstall
    /\ recFile' = TRUE /\ original' = running /\ verdict' = "none"
    /\ UNCHANGED <<deviceVars, resumePc, installed>>

\* A failed install ends the update.
LifeWorker ==
    /\ Worker
    /\ recFile' = (recFile /\ result' # "INSTALL_FAILED")
    /\ UNCHANGED <<deviceVars, original, resumePc, installed, verdict>>

LifeNext ==
    \/ LifeBegin
    \/ LifeWorker
    \/ Resume
    \/ TimerThreadRuns
    \/ ManagerWrites
    \/ DeliverEvent /\ UNCHANGED <<deviceVars, resumeVars>>
    \/ LifeRestart

\* libua's worker runs the install or the resume; the timer thread beside it.  As
\* in FotaInstall, nothing obliges the system manager to tell the version.
LifeSpec ==
    /\ LifeInit /\ [][LifeNext]_lifeVars
    /\ WF_lifeVars(LifeWorker /\ pc # "version")
    /\ WF_lifeVars(Resume /\ resumePc # "version")
    /\ WF_lifeVars(TimerThreadRuns)

-----------------------------------------------------------------------------
(* Properties.                                                             *)

\* The rollback of tmpl_updateagent.cpp:2008 switches to the version that ran
\* before the update, whatever was installed, retried or synchronised since.
RollbackRestores == resumePc = "rollback" => standby = original

\* Every call of do_resume_from_reboot returns, as long as the system manager
\* does not leave it in readTOSVersion (tcu_updateagent.cpp:456-464) for ever.
ResumeEnds == []<>(resumePc # "version") => (resumePc # "none" ~> resumePc = "none")

\* The synchronisation loop of the rollback (tmpl_updateagent.cpp:1924-1946) is
\* watched like those of the install: whatever the resume went through before.
ResumeWaitWatched == resumePc = "wait" => WatchedBy("sync", isSyncTimerExpired)

\* A resume takes the deployed version down again only when it finds the record
\* of a switch on the disk or gets no version (tmpl_updateagent.cpp:1849, 1868):
\* never because a lost call or an earlier rollback changed what it compares.
DeployedTakenDown ==
    [][(resumePc # "none" /\ otaJob # "switch" /\ otaJob' = "switch" /\ running = Deployed)
        => resumePc = "undo" \/ installed = NoVersion]_lifeVars

\* The phase of the update as libua sees it: open from the install to its
\* failure or the verdict of the resume.
Phase ==
    CASE verdict = "E_UA_OK" -> "confirmed"
      [] verdict # "E_UA_OK" /\ (recFile \/ resumePc # "none") -> "open"
      [] verdict # "E_UA_OK" /\ ~recFile /\ resumePc = "none" ->
           IF installs = 0 THEN "none" ELSE "failed"

Contract == INSTANCE UpdateContract
            WITH phase <- Phase, runs <- running, switching <- (otaJob = "switch")

\* Install, resume, manager and reboots together keep the promises of
\* UpdateContract: what runs changes only by a switch asked for in an open
\* update, and only the deployed version is confirmed, however many restarts,
\* retries and lost calls lie between the install and the confirmation
\* (tmpl_updateagent.cpp:849-1357 and 1761-2022).
ImplementsContract == Contract!ContractSpec
=============================================================================
