-------------------------- MODULE FotaResumeProofs --------------------------
(* Theorems about FotaResume, for every set of packages, every build, every *)
(* bound and every set of faults.                                          *)
EXTENDS FotaResume, FotaInstallProofs

-----------------------------------------------------------------------------
(* The inductive invariant.                                                *)

\* An install runs from a record and from the version it found running, and a
\* resume beside no install; neither of a confirmed update.
OpenInv ==
    /\ pc # "idle" => recFile /\ result = "NONE" /\ running = original
    /\ resumePc # "none" => pc = "idle"
    /\ recFile \/ resumePc # "none" => installs > 0 /\ verdict # "E_UA_OK"

\* The places from the reading of the version to the comparison.
Comparing == {"dispatch", "switch_file", "unlink_rec", "undo", "compare"}

\* What the resume compares is what runs, while no other restart comes.
VersionInv ==
    /\ resumePc \in Comparing => installed \in {running, NoVersion}
    /\ resumePc = "confirmed" => running = Deployed
    /\ resumePc = "rollback" => running # original /\ running # Deployed

\* Once another version than that of the install runs, nothing is written over
\* the old one but by the synchronisation that follows a confirmation.
KeptInv ==
    running # original =>
      /\ otaJob # "update" /\ (otaJob = "sync" => running = Deployed)
      /\ \/ standby = original
         \/ running = Deployed /\ standby \in {Deployed, BrokenPartition}

LifeInv == LifeTypeOK /\ OpenInv /\ VersionInv /\ KeptInv

-----------------------------------------------------------------------------
(* Types.                                                                  *)

\* The resume makes at most one call of the manager and one use of its timer.
LEMMA ResumeShape ==
    ASSUME Resume
    PROVE  /\ \/ UNCHANGED otaVars
              \/ \E ok \in BOOLEAN : SynchronizePartition(ok) \/ SwitchPartition(ok)
           /\ StartTimer("sync") \/ ClearTimer("sync") \/ UNCHANGED timerVars
           /\ switchFile' \in {switchFile, FALSE}
           /\ rollbackInfo' \in {rollbackInfo, TRUE, FALSE}
<1>. USE DEF diskVars
<1>1. CASE ResumeVersion
  BY <1>1 DEF ResumeVersion
<1>2. CASE ResumeDispatch
  BY <1>2 DEF ResumeDispatch, Confirm, SwitchBack, RemoveCacheDir
<1>3. CASE ResumeSwitchFile \/ ResumeUnlinkRec \/ ResumeUndo
  BY <1>3 DEF ResumeSwitchFile, ResumeUnlinkRec, ResumeUndo, RemoveCacheDir
<1>4. CASE ResumeCompare
  BY <1>4 DEF ResumeCompare, Confirm, SwitchBack, RemoveCacheDir, OldRuns, OtherRuns
<1>5. CASE ResumeRollback
  BY <1>5 DEF ResumeRollback, SwitchBack, RemoveCacheDir
<1>6. CASE ResumeSwitched \/ ResumeConfirmed
  BY <1>6 DEF ResumeSwitched, ResumeConfirmed, RemoveCacheDir
<1>7. CASE ResumeWait \/ ResumeDone
  BY <1>7 DEF ResumeWait, ResumeDone, RemoveCacheDir
<1>. QED BY <1>1, <1>2, <1>3, <1>4, <1>5, <1>6, <1>7 DEF Resume

LEMMA ResumeKeepsTypeOK == ASSUME TypeOK, Resume PROVE TypeOK'
<1>1. /\ \/ UNCHANGED otaVars
         \/ \E ok \in BOOLEAN : SynchronizePartition(ok) \/ SwitchPartition(ok)
      /\ StartTimer("sync") \/ ClearTimer("sync") \/ UNCHANGED timerVars
      /\ switchFile' \in {switchFile, FALSE}
      /\ rollbackInfo' \in {rollbackInfo, TRUE, FALSE}
  BY ResumeShape
<1>2. OtaTypeOK'
  <2>1. CASE UNCHANGED otaVars
    BY <2>1 DEF TypeOK, OtaTypeOK, otaVars
  <2>2. ASSUME NEW ok \in BOOLEAN, SynchronizePartition(ok) \/ SwitchPartition(ok)
        PROVE  OtaTypeOK'
    BY <2>2, CallsType DEF TypeOK
  <2>. QED BY <1>1, <2>1, <2>2
<1>3. TimerTypeOK'
  <2>1. "sync" \in Timers
    BY DEF Timers
  <2>. QED BY <1>1, <2>1, WorkerTimerType DEF TypeOK
<1>4. switchFile' \in BOOLEAN /\ rollbackInfo' \in BOOLEAN
  BY <1>1, Zenon DEF TypeOK
<1>5. UNCHANGED <<pc, site, installs, restarts, result, seen, percentage, subscribed>>
  BY DEF Resume, busVars
<1>. QED BY <1>2, <1>3, <1>4, <1>5 DEF TypeOK

\* What the resume does to libua's record, its own place and what it read.
LEMMA ResumeVarsType == ASSUME LifeTypeOK, Resume PROVE LifeTypeOK'
<1>. DEFINE ResumeTypeOK ==
              /\ recFile \in BOOLEAN
              /\ resumePc \in ResumePoints
              /\ installed \in PartitionVersions \cup {NoVersion}
              /\ verdict \in {"none", "E_UA_OK", "E_UA_ERR", "INSTALL_FAILED"}
<1>1. ASSUME NEW point \in ResumePoints, ResumeAt(point) PROVE ResumeTypeOK'
  BY <1>1 DEF ResumeAt, LifeTypeOK
<1>2. ASSUME NEW v \in {"E_UA_OK", "E_UA_ERR", "INSTALL_FAILED"}, ResumeReturns(v)
      PROVE  ResumeTypeOK'
  BY <1>2 DEF ResumeReturns, ResumePoints
<1>3. \A point \in {"switch_file", "unlink_rec", "compare", "rollback", "switched", "confirmed",
                    "wait", "done"} : point \in ResumePoints
  BY DEF ResumePoints
<1>4. ResumeTypeOK'
  <2>1. CASE ResumeVersion
    BY <2>1 DEF ResumeVersion, LifeTypeOK, ResumePoints
  <2>2. CASE ResumeUnlinkRec
    BY <2>2 DEF ResumeUnlinkRec, LifeTypeOK, ResumePoints
  <2>3. CASE ~ResumeVersion /\ ~ResumeUnlinkRec
    <3>1. \/ \E point \in {"switch_file", "unlink_rec", "compare", "rollback", "switched", "confirmed",
                          "wait", "done"} : ResumeAt(point)
          \/ \E v \in {"E_UA_OK", "E_UA_ERR", "INSTALL_FAILED"} : ResumeReturns(v)
      BY <2>3 DEF Resume, ResumeDispatch, ResumeSwitchFile, ResumeUndo, ResumeCompare, ResumeRollback, ResumeSwitched,
                  ResumeConfirmed, ResumeWait, ResumeDone, Confirm, SwitchBack, OldRuns, OtherRuns
    <3>. QED BY <1>1, <1>2, <1>3, <3>1
  <2>. QED BY <2>1, <2>2, <2>3
<1>5. UNCHANGED <<running, standby, original>>
  BY DEF Resume, deviceVars
<1>. QED BY <1>4, <1>5, ResumeKeepsTypeOK DEF LifeTypeOK

LEMMA LifeInitType == LifeInit => LifeTypeOK
BY InitType DEF LifeInit, LifeTypeOK, PartitionVersions, ResumePoints

LEMMA LifeNextType == ASSUME LifeTypeOK, [LifeNext]_lifeVars PROVE LifeTypeOK'
<1>1. CASE LifeBegin
  BY <1>1, NextType DEF LifeBegin, Next, LifeTypeOK, deviceVars
<1>2. CASE LifeWorker
  <2>1. recFile' \in BOOLEAN
    BY <1>2, Zenon DEF LifeWorker, LifeTypeOK
  <2>. QED BY <1>2, <2>1, NextType DEF LifeWorker, Next, LifeTypeOK, deviceVars
<1>3. CASE Resume
  BY <1>3, ResumeVarsType
<1>4. CASE TimerThreadRuns
  BY <1>4, NextType DEF TimerThreadRuns, Interrupted, Next, LifeTypeOK, resumeVars
<1>5. CASE ManagerWrites
  BY <1>5, NextType, BuiltAssumption
  DEF ManagerWrites, Next, LifeTypeOK, resumeVars
<1>6. CASE DeliverEvent /\ UNCHANGED <<deviceVars, resumeVars>>
  BY <1>6, NextType DEF Next, LifeTypeOK, deviceVars, resumeVars
<1>7. CASE LifeRestart
  <2>1. TypeOK'
    BY <1>7, NextType DEF LifeRestart, Next, LifeTypeOK
  <2>2. running' \in PartitionVersions /\ standby' \in PartitionVersions \cup {BrokenPartition}
    BY <1>7 DEF LifeRestart, Interrupted, LifeTypeOK
  <2>. QED BY <1>7, <2>1, <2>2 DEF LifeRestart, LifeTypeOK, ResumePoints
<1>8. CASE UNCHANGED lifeVars
  <2>1. TypeOK'
    BY <1>8, NextType DEF LifeTypeOK, lifeVars
  <2>. QED BY <1>8, <2>1 DEF LifeTypeOK, lifeVars, deviceVars, resumeVars
<1>. QED BY <1>1, <1>2, <1>3, <1>4, <1>5, <1>6, <1>7, <1>8 DEF LifeNext

\* Every variable of the install, the resume and the partitions keeps its type
\* over any number of restarts, for every build and every set of faults.
THEOREM LifeTypeCorrect == LifeSpec => []LifeTypeOK
BY LifeInitType, LifeNextType, PTL DEF LifeSpec

-----------------------------------------------------------------------------
(* The steps of the invariant.                                             *)

\* Only an idle manager takes a job from the worker, and an install that had a
\* switch accepted does not fail in the same step.
LEMMA WorkerJobs ==
    ASSUME Worker, result = "NONE"
    PROVE  /\ otaJob' = otaJob \/ (otaJob = "none" /\ otaJob' \in {"update", "sync", "switch"})
           /\ otaJob' = "switch" => otaJob = "switch" \/ result' # "INSTALL_FAILED"
<1>1. otaJob' = otaJob \/ (otaJob = "none" /\ otaJob' \in {"update", "sync", "switch"})
  BY WorkerShape
  DEF Calls, SelfTCUUpdate, SynchronizePartition, SwitchPartition, TakesJob, otaVars
<1>2. CASE EntrySwitch \/ Switch
  BY <1>2 DEF EntrySwitch, Switch, SwitchPartition, FailAndClean, Goto, Return, otaVars
<1>3. CASE ~EntrySwitch /\ ~Switch
  <2>1. \/ UNCHANGED otaVars
        \/ UNCHANGED otaJob
        \/ \E ok \in BOOLEAN : SynchronizePartition(ok) \/ SelfTCUUpdate(installs, ok)
    BY <1>3 DEF Worker, Entry, Version, Pending, Package, Presync, PresyncCall, SyncWait,
                SyncDone, Start, StartPoll, ArmUpdate, UpdateWait, UpdateSleep, IocSync,
                MissingSync, UpdateDone
  <2>. QED BY <2>1 DEF SynchronizePartition, SelfTCUUpdate, TakesJob, otaVars
<1>. QED BY <1>1, <1>2, <1>3

\* The worker leaves its place only to idle when it sets the result.
LEMMA WorkerMoves ==
    ASSUME Worker, result = "NONE"
    PROVE  /\ installs' = installs
           /\ pc' # "idle" => result' = "NONE"
           /\ pc # "idle"
<1>1. installs' = installs /\ (pc' # "idle" => result' = "NONE")
  BY WorkerShape DEF Moves, Goto, EnterSyncLoop, Fail, Return
<1>2. pc # "idle"
  BY DEF Worker, Entry, EntrySwitch, Version, Pending, Package, Presync, PresyncCall, SyncWait,
         SyncDone, Start, StartPoll, ArmUpdate, UpdateWait, UpdateSleep, IocSync,
         MissingSync, UpdateDone, Switch
<1>. QED BY <1>1, <1>2

\* The timer thread only ends an update.
LEMMA TimerThreadJobs ==
    ASSUME TimerThread
    PROVE  /\ otaJob' = otaJob \/ (otaJob = "update" /\ otaJob' = "none")
           /\ UNCHANGED workerVars
BY DEF TimerThread, SelfTCUUpdateCancel, otaVars

\* The manager ends its own jobs.
LEMMA ManagerJobs ==
    ASSUME Manager
    PROVE  /\ otaJob' = otaJob \/ (otaJob \in {"update", "sync"} /\ otaJob' = "none")
           /\ UNCHANGED workerVars
BY DEF Manager, OtaStep, OtaBegins, OtaUpdateEnds, OtaSyncEnds, OtaTypeTurnsInvalid

\* A resume goes on from where it is, or ends; it has the manager synchronise
\* when the deployed version or the version before runs, or switch.
LEMMA ResumeSteps ==
    ASSUME LifeInv, Resume
    PROVE  /\ resumePc # "none"
           /\ \/ otaJob' = otaJob
              \/ otaJob' = "sync" /\ running \in {Deployed, original}
              \/ otaJob' = "switch" /\ resumePc' # "none"
           /\ \/ /\ resumePc' # "none" /\ verdict' = verdict
                 /\ resumePc' \in Comparing => installed' \in {running, NoVersion}
                 /\ resumePc' = "confirmed" => running = Deployed
                 /\ resumePc' = "rollback" => running # original /\ running # Deployed
              \/ /\ resumePc' = "none" /\ recFile' = FALSE
                 /\ verdict' = "E_UA_OK" => running = Deployed
<1>. USE DEF PartitionVersions, NoVersion, Deployed, Comparing
<1>0. LifeTypeOK /\ OpenInv /\ VersionInv
  BY DEF LifeInv
<1>1. CASE ResumeVersion
  BY <1>1 DEF ResumeVersion, otaVars
<1>2. CASE ResumeDispatch
  BY <1>0, <1>2 DEF ResumeDispatch, Confirm, SwitchBack, ResumeAt, ResumeReturns, VersionInv,
               LifeTypeOK, SynchronizePartition, SwitchPartition, TakesJob, otaVars
<1>3. CASE ResumeSwitchFile \/ ResumeUnlinkRec \/ ResumeUndo
  BY <1>0, <1>3 DEF ResumeSwitchFile, ResumeUnlinkRec, ResumeUndo, ResumeAt, ResumeReturns,
                    VersionInv, SwitchPartition, otaVars
<1>4. CASE ResumeCompare
  <2>1. installed \in {running, NoVersion}
    BY <1>0, <1>4 DEF ResumeCompare, VersionInv
  <2>2. CASE installed = NoVersion
    BY <1>0, <1>4, <2>2 DEF ResumeCompare, SwitchBack, OldRuns, OtherRuns, ResumeAt, ResumeReturns,
                            SwitchPartition, otaVars
  <2>3. CASE installed = running /\ running = Deployed
    BY <1>0, <1>4, <2>3 DEF ResumeCompare, Confirm, ResumeAt, ResumeReturns,
                            SynchronizePartition, TakesJob, otaVars
  <2>4. CASE installed = running /\ running # Deployed /\ OldRuns
    BY <1>0, <1>4, <2>4 DEF ResumeCompare, OldRuns, ResumeAt, ResumeReturns,
                            SynchronizePartition, TakesJob, otaVars
  <2>5. CASE installed = running /\ running # Deployed /\ OtherRuns
    BY <1>0, <1>4, <2>5 DEF ResumeCompare, OtherRuns, ResumeAt, otaVars
  <2>. QED BY <1>0, <1>4, <2>1, <2>2, <2>3, <2>4, <2>5 DEF ResumeCompare, LifeTypeOK
<1>5. CASE ResumeRollback
  BY <1>5 DEF ResumeRollback, SwitchBack, ResumeAt, ResumeReturns, SwitchPartition, otaVars
<1>6. CASE ResumeSwitched
  BY <1>6 DEF ResumeSwitched, ResumeReturns, otaVars
<1>7. CASE ResumeConfirmed
  BY <1>0, <1>7 DEF ResumeConfirmed, ResumeReturns, VersionInv, otaVars
<1>8. CASE ResumeWait \/ ResumeDone
  BY <1>8 DEF ResumeWait, ResumeDone, ResumeAt, ResumeReturns, otaVars
<1>. QED BY <1>1, <1>2, <1>3, <1>4, <1>5, <1>6, <1>7, <1>8 DEF Resume

LEMMA OpenNext == ASSUME LifeInv, [LifeNext]_lifeVars PROVE OpenInv'
<1>0. LifeTypeOK /\ OpenInv /\ installs \in Nat
  BY DEF LifeInv, LifeTypeOK, TypeOK
<1>1. CASE LifeBegin
  <2>1. installs' > 0
    BY <1>0, <1>1 DEF LifeBegin, BeginInstall
  <2>. QED BY <1>1, <2>1 DEF LifeBegin, BeginInstall, deviceVars, OpenInv
<1>2. CASE LifeWorker
  <2>1. result = "NONE" \/ pc = "idle"
    BY <1>0 DEF OpenInv
  <2>2. pc # "idle"
    BY <1>2 DEF LifeWorker, Worker, Entry, EntrySwitch, Version, Pending, Package, Presync,
                PresyncCall, SyncWait, SyncDone, Start, StartPoll, ArmUpdate, UpdateWait,
                UpdateSleep, IocSync, MissingSync, UpdateDone, Switch
  <2>3. installs' = installs /\ (pc' # "idle" => result' = "NONE")
    BY <1>2, <2>1, <2>2, WorkerMoves DEF LifeWorker
  <2>. QED BY <1>0, <1>2, <2>2, <2>3 DEF LifeWorker, OpenInv, deviceVars
<1>3. CASE Resume
  <2>1. /\ resumePc # "none" /\ UNCHANGED <<pc, installs, result, running, original>>
        /\ \/ resumePc' # "none" /\ verdict' = verdict
           \/ resumePc' = "none" /\ recFile' = FALSE
    BY <1>3, ResumeSteps DEF Resume, deviceVars
  <2>. QED BY <1>0, <2>1 DEF OpenInv
<1>4. CASE TimerThreadRuns
  BY <1>0, <1>4, TimerThreadJobs DEF TimerThreadRuns, workerVars, resumeVars, OpenInv
<1>5. CASE ManagerWrites
  BY <1>0, <1>5, ManagerJobs DEF ManagerWrites, workerVars, resumeVars, OpenInv
<1>6. CASE DeliverEvent /\ UNCHANGED <<deviceVars, resumeVars>>
  BY <1>0, <1>6 DEF DeliverEvent, workerVars, deviceVars, resumeVars, OpenInv
<1>7. CASE LifeRestart
  BY <1>0, <1>7 DEF LifeRestart, Restart, OpenInv
<1>8. CASE UNCHANGED lifeVars
  BY <1>0, <1>8 DEF lifeVars, vars, deviceVars, resumeVars, OpenInv
<1>. QED BY <1>1, <1>2, <1>3, <1>4, <1>5, <1>6, <1>7, <1>8 DEF LifeNext

LEMMA VersionNext == ASSUME LifeInv, [LifeNext]_lifeVars PROVE VersionInv'
<1>. USE DEF Comparing
<1>0. VersionInv
  BY DEF LifeInv
<1>1. CASE LifeBegin
  BY <1>1 DEF LifeBegin, VersionInv
<1>2. CASE LifeWorker
  BY <1>0, <1>2 DEF LifeWorker, VersionInv, deviceVars
<1>3. CASE Resume
  <2>1. UNCHANGED <<running, original>>
    BY <1>3 DEF Resume, deviceVars
  <2>. QED BY <1>3, <2>1, ResumeSteps DEF VersionInv
<1>4. CASE TimerThreadRuns \/ ManagerWrites
  BY <1>0, <1>4 DEF TimerThreadRuns, ManagerWrites, resumeVars, VersionInv
<1>5. CASE DeliverEvent /\ UNCHANGED <<deviceVars, resumeVars>>
  BY <1>0, <1>5 DEF deviceVars, resumeVars, VersionInv
<1>6. CASE LifeRestart
  BY <1>6 DEF LifeRestart, VersionInv
<1>7. CASE UNCHANGED lifeVars
  BY <1>0, <1>7 DEF lifeVars, deviceVars, resumeVars, VersionInv
<1>. QED BY <1>1, <1>2, <1>3, <1>4, <1>5, <1>6, <1>7 DEF LifeNext

LEMMA KeptNext == ASSUME LifeInv, [LifeNext]_lifeVars PROVE KeptInv'
<1>0. LifeTypeOK /\ OpenInv /\ KeptInv
  BY DEF LifeInv
<1>1. CASE LifeBegin
  BY <1>1 DEF LifeBegin, deviceVars, KeptInv
<1>2. CASE LifeWorker
  <2>1. running = original
    BY <1>0, <1>2 DEF LifeWorker, Worker, Entry, EntrySwitch, Version, Pending, Package, Presync,
                PresyncCall, SyncWait, SyncDone, Start, StartPoll, ArmUpdate, UpdateWait,
                UpdateSleep, IocSync, MissingSync, UpdateDone, Switch, OpenInv
  <2>. QED BY <1>2, <2>1 DEF LifeWorker, deviceVars, KeptInv
<1>3. CASE Resume
  <2>1. UNCHANGED <<running, standby, original>>
    BY <1>3 DEF Resume, deviceVars
  <2>2. \/ otaJob' = otaJob
        \/ otaJob' = "sync" /\ running \in {Deployed, original}
        \/ otaJob' = "switch"
    BY <1>3, ResumeSteps
  <2>. QED BY <1>0, <2>1, <2>2 DEF KeptInv
<1>4. CASE TimerThreadRuns
  BY <1>0, <1>4, TimerThreadJobs DEF TimerThreadRuns, Interrupted, resumeVars, KeptInv
<1>5. CASE ManagerWrites
  <2>1. UNCHANGED <<running, original>>
    BY <1>5 DEF ManagerWrites, resumeVars
  <2>2. otaJob' = otaJob \/ (otaJob \in {"update", "sync"} /\ otaJob' = "none")
    BY <1>5, ManagerJobs DEF ManagerWrites
  <2>3. \/ UNCHANGED standby
        \/ otaJob = "update"
        \/ otaJob = "sync" /\ standby' \in {running, BrokenPartition}
    BY <1>5 DEF ManagerWrites
  <2>. QED BY <1>0, <2>1, <2>2, <2>3 DEF KeptInv
<1>6. CASE DeliverEvent /\ UNCHANGED <<deviceVars, resumeVars>>
  BY <1>0, <1>6 DEF DeliverEvent, deviceVars, resumeVars, KeptInv
<1>7. CASE LifeRestart
  <2>1. otaJob' = "none" /\ original' = original
    BY <1>7 DEF LifeRestart, Restart, OtaRestarts
  <2>2. CASE otaJob = "switch" /\ standby # BrokenPartition /\ running' = standby /\ standby' = running
    BY <1>0, <2>1, <2>2 DEF KeptInv
  <2>3. CASE UNCHANGED running /\ standby' = Interrupted
    BY <1>0, <2>1, <2>3 DEF Interrupted, KeptInv
  <2>. QED BY <1>7, <2>2, <2>3 DEF LifeRestart
<1>8. CASE UNCHANGED lifeVars
  BY <1>0, <1>8 DEF lifeVars, vars, otaVars, deviceVars, resumeVars, KeptInv
<1>. QED BY <1>1, <1>2, <1>3, <1>4, <1>5, <1>6, <1>7, <1>8 DEF LifeNext

LEMMA LifeInvInit == LifeInit => LifeInv
<1>. SUFFICES ASSUME LifeInit PROVE LifeInv
  OBVIOUS
<1>1. OpenInv /\ VersionInv /\ KeptInv
  BY DEF LifeInit, Init, OpenInv, VersionInv, KeptInv
<1>. QED BY <1>1, LifeInitType DEF LifeInv

LEMMA LifeInvNext == ASSUME LifeInv, [LifeNext]_lifeVars PROVE LifeInv'
BY LifeNextType, OpenNext, VersionNext, KeptNext DEF LifeInv

LEMMA LifeInvariant == LifeSpec => []LifeInv
BY LifeInvInit, LifeInvNext, PTL DEF LifeSpec

\* When a resume rolls back, the partition it switches to holds the version that
\* ran before the update, for every build, package, bound and set of faults.
THEOREM RollbackRestoresOriginal == LifeSpec => []RollbackRestores
<1>1. LifeInv => RollbackRestores
  BY DEF LifeInv, VersionInv, KeptInv, RollbackRestores
<1>. QED BY <1>1, LifeInvariant, PTL

-----------------------------------------------------------------------------
(* The refinement of UpdateContract.                                       *)

LEMMA ContractHoldsAtFirst == LifeInit => Contract!ContractInit
BY DEF LifeInit, Init, OtaInit, Contract!ContractInit, Phase, PartitionVersions

LEMMA ResumeKeepsSwitch == ASSUME Resume, otaJob = "switch" PROVE otaJob' = "switch"
BY ResumeShape DEF SynchronizePartition, SwitchPartition, TakesJob, otaVars

\* A step that keeps the phase, the version and the request is a stutter.
LEMMA ContractStep == ASSUME LifeInv, [LifeNext]_lifeVars
                      PROVE  [Contract!ContractNext]_(Contract!contractVars)
<1>0. LifeTypeOK /\ OpenInv /\ VersionInv
  BY DEF LifeInv
<1>1. CASE LifeBegin
  <2>1. Phase' = "open" /\ UNCHANGED <<running, otaJob>> /\ Phase \in {"none", "failed", "open"}
    BY <1>0, <1>1 DEF LifeBegin, BeginInstall, Phase, deviceVars, otaVars
  <2>. QED BY <2>1 DEF Contract!ContractNext, Contract!Deploy, Contract!contractVars
<1>2. CASE LifeWorker
  <2>1. /\ recFile /\ verdict # "E_UA_OK" /\ result = "NONE" /\ installs > 0
        /\ recFile' = (result' # "INSTALL_FAILED")
        /\ UNCHANGED <<running, resumePc, verdict, installs>>
    <3>1. pc # "idle"
      BY <1>2 DEF LifeWorker, Worker, Entry, EntrySwitch, Version, Pending, Package, Presync,
                PresyncCall, SyncWait, SyncDone, Start, StartPoll, ArmUpdate, UpdateWait,
                UpdateSleep, IocSync, MissingSync, UpdateDone, Switch
    <3>. QED BY <1>0, <1>2, <3>1, WorkerMoves DEF LifeWorker, OpenInv, deviceVars
  <2>2. Phase = "open" /\ Phase' \in {"open", "failed"} /\ (recFile' => Phase' = "open")
    BY <2>1 DEF Phase
  <2>3. /\ otaJob = "switch" => otaJob' = "switch"
        /\ otaJob' = "switch" => otaJob = "switch" \/ recFile'
    BY <1>2, <2>1, WorkerJobs DEF LifeWorker
  <2>4. CASE otaJob' = "switch" /\ otaJob # "switch"
    BY <2>1, <2>2, <2>3, <2>4 DEF Contract!ContractNext, Contract!RequestSwitch
  <2>5. CASE (otaJob' = "switch") = (otaJob = "switch")
    BY <2>1, <2>2, <2>5 DEF Contract!ContractNext, Contract!Abandon, Contract!contractVars
  <2>. QED BY <2>3, <2>4, <2>5
<1>3. CASE Resume
  <2>1. /\ resumePc # "none" /\ verdict # "E_UA_OK" /\ installs > 0 /\ Phase = "open"
        /\ UNCHANGED <<running, installs>>
    BY <1>0, <1>3, ResumeSteps DEF Resume, deviceVars, OpenInv, Phase
  <2>2. CASE resumePc' # "none"
    <3>1. Phase' = "open"
      BY <1>3, <2>1, <2>2, ResumeSteps DEF Phase
    <3>2. otaJob = "switch" => otaJob' = "switch"
      BY <1>3, ResumeKeepsSwitch
    <3>3. CASE otaJob' = "switch"
      BY <2>1, <3>1, <3>3 DEF Contract!ContractNext, Contract!RequestSwitch
    <3>4. CASE otaJob' # "switch"
      BY <2>1, <3>1, <3>2, <3>4 DEF Contract!contractVars
    <3>. QED BY <3>3, <3>4
  <2>3. CASE resumePc' = "none"
    <3>1. /\ recFile' = FALSE /\ (verdict' = "E_UA_OK" => running = Deployed)
          /\ (otaJob' = "switch") = (otaJob = "switch")
      BY <1>3, <2>3, ResumeKeepsSwitch, ResumeSteps
    <3>2. CASE verdict' = "E_UA_OK"
      <4>1. Phase' = "confirmed"
        BY <3>2 DEF Phase
      <4>. QED BY <2>1, <3>1, <3>2, <4>1 DEF Contract!ContractNext, Contract!Confirm
    <3>3. CASE verdict' # "E_UA_OK"
      <4>1. Phase' = "failed"
        BY <2>1, <2>3, <3>1, <3>3 DEF Phase
      <4>. QED BY <2>1, <3>1, <4>1 DEF Contract!ContractNext, Contract!Abandon
    <3>. QED BY <3>2, <3>3
  <2>. QED BY <2>2, <2>3
<1>4. CASE TimerThreadRuns \/ ManagerWrites
  <2>1. UNCHANGED <<running, recFile, resumePc, verdict, installs>> /\ (otaJob' = "switch") = (otaJob = "switch")
    BY <1>4, TimerThreadJobs, ManagerJobs DEF TimerThreadRuns, ManagerWrites, resumeVars, workerVars
  <2>. QED BY <2>1 DEF Phase, Contract!contractVars
<1>5. CASE DeliverEvent /\ UNCHANGED <<deviceVars, resumeVars>>
  <2>1. UNCHANGED <<running, recFile, resumePc, verdict, installs, otaJob>>
    BY <1>5 DEF DeliverEvent, deviceVars, resumeVars, workerVars
  <2>. QED BY <2>1 DEF Phase, Contract!contractVars
<1>6. CASE LifeRestart
  <2>1. otaJob' = "none" /\ UNCHANGED <<installs, recFile, verdict>>
    BY <1>6 DEF LifeRestart, Restart, OtaRestarts
  <2>2. running' \in IF otaJob = "switch" THEN PartitionVersions ELSE {running}
    BY <1>0, <1>6 DEF LifeRestart, LifeTypeOK
  <2>3. Phase' = Phase \/ (Phase = "open" /\ Phase' = "failed")
    BY <1>0, <1>6, <2>1 DEF LifeRestart, Phase, OpenInv
  <2>. QED BY <2>1, <2>2, <2>3 DEF Contract!ContractNext, Contract!Reboot
<1>7. CASE UNCHANGED lifeVars
  BY <1>7 DEF lifeVars, vars, otaVars, deviceVars, resumeVars, Phase, Contract!contractVars
<1>. QED BY <1>1, <1>2, <1>3, <1>4, <1>5, <1>6, <1>7 DEF LifeNext

\* The install, the resume, the manager and the restarts implement the contract
\* with libua and the driver: for every build, package, bound and set of faults
\* the version that runs changes only by a switch requested in an open update,
\* and only the deployed version is confirmed.
THEOREM LifeImplementsContract == LifeSpec => ImplementsContract
<1>1. LifeInit => Contract!ContractInit
  BY ContractHoldsAtFirst
<1>2. LifeInv /\ [LifeNext]_lifeVars => [Contract!ContractNext]_(Contract!contractVars)
  BY ContractStep
<1>. QED BY <1>1, <1>2, LifeInvariant, PTL DEF LifeSpec, ImplementsContract, Contract!ContractSpec
=============================================================================
