---------------------------- MODULE FotaLifeProofs ----------------------------
(* Theorems about the composition LifeSpec of FotaResume: what is true of  *)
(* the install alone (FotaInstallProofs) stays true beside resumes, and    *)
(* what a resume waits for and takes down.                                 *)
EXTENDS FotaResumeProofs

-----------------------------------------------------------------------------
(* Every step is one of the resume or one of FotaInstall, and the resume   *)
(* runs beside no install.                                                 *)

LEMMA LifeSteps ==
    ASSUME LifeInv, [LifeNext]_lifeVars
    PROVE  \/ [Next]_vars
           \/ Resume /\ pc = "idle" /\ pc' = "idle" /\ resumePc # "none"
<1>1. CASE Resume
  <2>1. resumePc # "none"
    BY <1>1, ResumeSteps
  <2>. QED BY <1>1, <2>1 DEF LifeInv, OpenInv, Resume
<1>2. CASE ~Resume
  BY <1>2 DEF LifeNext, LifeBegin, LifeWorker, TimerThreadRuns, ManagerWrites, LifeRestart,
              Next, lifeVars
<1>. QED BY <1>1, <1>2

-----------------------------------------------------------------------------
(* The install beside the resume.                                          *)

LEMMA LifeOwnNext ==
    ASSUME "slow_begin" \notin Faults, LifeInv, OwnInv, [LifeNext]_lifeVars
    PROVE  OwnInv'
<1>1. CASE [Next]_vars
  BY <1>1, OwnNext
<1>2. CASE Resume /\ pc' = "idle"
  <2>1. ManagerInv'
    BY <1>2, ResumeShape
    DEF OwnInv, ManagerInv, SynchronizePartition, SwitchPartition, TakesJob, otaVars
  <2>. QED BY <1>2, <2>1 DEF OwnInv, StartOnlySynchronized, SwitchOwnUpdate, AfterStart
<1>. QED BY <1>1, <1>2, LifeSteps

LEMMA LifeOwnInit == LifeInit => OwnInv
BY DEF LifeInit, Init, OtaInit, OwnInv, ManagerInv, StartOnlySynchronized, SwitchOwnUpdate, AfterStart

\* Whatever resumes, rollbacks and restarts came before, an update is only started
\* on synchronised partitions or after one that found no package, ...
THEOREM LifeStartsSynchronized ==
    ASSUME "slow_begin" \notin Faults
    PROVE  LifeSpec => []StartOnlySynchronized
<1>1. LifeInv /\ OwnInv /\ [LifeNext]_lifeVars => OwnInv'
  BY LifeOwnNext
<1>2. OwnInv => StartOnlySynchronized
  BY DEF OwnInv
<1>. QED BY <1>1, <1>2, LifeOwnInit, LifeInvariant, PTL DEF LifeSpec

\* ... and an install only switches to the update it started itself.
THEOREM LifeSwitchesOwnUpdate ==
    ASSUME "slow_begin" \notin Faults, "mv_fails" \notin Faults
    PROVE  LifeSpec => []SwitchOwnUpdate
<1>1. LifeInv /\ OwnInv /\ [LifeNext]_lifeVars => OwnInv'
  BY LifeOwnNext
<1>2. OwnInv => SwitchOwnUpdate
  BY DEF OwnInv
<1>. QED BY <1>1, <1>2, LifeOwnInit, LifeInvariant, PTL DEF LifeSpec

-----------------------------------------------------------------------------
(* The wait of the resume.                                                 *)

\* A resume finds the timers as the restart left them, and arms one for its wait.
ResumeWatch ==
    /\ ResumeWaitWatched
    /\ leaked = NoneLeaked /\ callback = IdleCallback
    /\ armed # "update"
    /\ armed = "sync" => resumePc = "wait" /\ ~isSyncTimerExpired

TimersAtRest == armed = NoTimer /\ leaked = NoneLeaked /\ callback = IdleCallback

LEMMA ResumeTimers ==
    ASSUME NoneOf({"timer_add", "tick_race"}), LifeInv, ResumeWatch, Resume
    PROVE  ResumeWatch' /\ (resumePc' # "wait" => TimersAtRest')
<1>. USE DEF ResumeWatch, ResumeWaitWatched, WatchedBy, TimersAtRest, NoneOf, NoTimer, Ticks,
             ResumeAt, ResumeReturns
<1>1. armed \in {"sync", NoTimer}
  BY DEF LifeInv, LifeTypeOK, TypeOK, TimerTypeOK, Timers
<1>2. ASSUME UNCHANGED timerVars, resumePc # "wait", resumePc' # "wait"
      PROVE  ResumeWatch' /\ TimersAtRest'
  BY <1>1, <1>2 DEF timerVars
<1>3. CASE ResumeCompare /\ OldRuns /\ rollbackInfo
  <2>1. armed = NoTimer /\ StartTimer("sync") /\ resumePc' = "wait"
    BY <1>1, <1>3 DEF ResumeCompare, OldRuns
  <2>2. armed' = "sync" /\ timerCount' > 0 /\ isSyncTimerExpired' = FALSE /\ UNCHANGED <<leaked, callback>>
    BY <2>1 DEF StartTimer, InitiateTimer, DiagTimerAdd, LeakTimer
  <2>. QED BY <2>1, <2>2
<1>4. CASE ResumeWait
  <2>1. CASE isSyncTimerExpired /\ UNCHANGED timerVars
    BY <1>1, <1>4, <2>1 DEF ResumeWait, timerVars
  <2>2. CASE ClearTimer("sync")
    BY <1>4, <2>2 DEF ResumeWait, ClearTimer, ClearsLeaked
  <2>. QED BY <1>4, <2>1, <2>2 DEF ResumeWait
<1>5. CASE ResumeDone
  <2>1. CASE UNCHANGED timerVars
    BY <1>2, <1>5, <2>1 DEF ResumeDone
  <2>2. CASE ClearTimer("sync")
    BY <1>5, <2>2 DEF ResumeDone, ClearTimer, ClearsLeaked
  <2>. QED BY <1>5, <2>1, <2>2 DEF ResumeDone
<1>6. CASE ~(ResumeCompare /\ OldRuns /\ rollbackInfo) /\ ~ResumeWait /\ ~ResumeDone
  <2>1. UNCHANGED timerVars /\ resumePc # "wait" /\ resumePc' # "wait"
    BY <1>6 DEF Resume, ResumeVersion, ResumeDispatch, ResumeSwitchFile, ResumeUnlinkRec,
                ResumeUndo, ResumeCompare, ResumeRollback, ResumeSwitched, ResumeConfirmed, Confirm, SwitchBack,
                OldRuns, OtherRuns
  <2>. QED BY <1>2, <2>1
<1>. QED BY <1>3, <1>4, <1>5, <1>6

\* Beside a resume the timer thread only counts the timer of its wait down.
LEMMA ResumeTick ==
    ASSUME NoneOf({"timer_add", "tick_race"}), LifeInv, ResumeWatch, TimerThread,
           UNCHANGED resumePc
    PROVE  ResumeWatch' /\ callback' = callback
<1>. USE DEF ResumeWatch, ResumeWaitWatched, WatchedBy, NoneOf, NoTimer, IdleCallback
<1>1. timerCount \in 0..Ticks /\ armed \in {"sync", NoTimer}
  BY DEF LifeInv, LifeTypeOK, TypeOK, TimerTypeOK, Timers
<1>2. CASE TimerTick
  BY <1>1, <1>2 DEF TimerTick, Expire, RaiseFlag, Flags, Ticks
<1>3. ~LeakedTick /\ ~TickLoads /\ ~TickStores /\ ~CancelReturns /\ ~FlagExpiry
  BY DEF LeakedTick, NoneLeaked, TickLoads, TickStores, CancelReturns, FlagExpiry
<1>. QED BY <1>2, <1>3 DEF TimerThread

LEMMA ResumeWatchNext ==
    ASSUME NoneOf({"timer_add", "tick_race"}), LifeInv, resumePc # "none" => ResumeWatch,
           [LifeNext]_lifeVars
    PROVE  resumePc' # "none" => ResumeWatch'
<1>1. ASSUME UNCHANGED <<timerVars, resumePc>>
      PROVE  resumePc' # "none" => ResumeWatch'
  BY <1>1 DEF ResumeWatch, ResumeWaitWatched, WatchedBy, timerVars
<1>2. CASE LifeBegin
  BY <1>2 DEF LifeBegin
<1>3. CASE LifeWorker
  <2>1. pc # "idle"
    BY <1>3 DEF LifeWorker, Worker, Entry, EntrySwitch, Version, Pending, Package, Presync,
                PresyncCall, SyncWait, SyncDone, Start, StartPoll, ArmUpdate, UpdateWait,
                UpdateSleep, IocSync, MissingSync, UpdateDone, Switch
  <2>. QED BY <1>3, <2>1 DEF LifeInv, OpenInv, LifeWorker
<1>4. CASE Resume
  BY <1>4, ResumeTimers, ResumeSteps
<1>5. CASE TimerThreadRuns
  BY <1>5, ResumeTick DEF TimerThreadRuns, resumeVars
<1>6. CASE ManagerWrites \/ (DeliverEvent /\ UNCHANGED <<deviceVars, resumeVars>>)
  <2>1. timerVars' = timerVars /\ resumePc' = resumePc
    BY <1>6 DEF ManagerWrites, Manager, DeliverEvent, resumeVars
  <2>. QED BY <1>1, <2>1
<1>7. CASE LifeRestart
  BY <1>7 DEF LifeRestart, Restart, TimerRestarts, ResumeWatch, ResumeWaitWatched, NoTimer
<1>8. CASE UNCHANGED lifeVars
  <2>1. timerVars' = timerVars /\ resumePc' = resumePc
    BY <1>8 DEF lifeVars, vars, resumeVars
  <2>. QED BY <1>1, <2>1
<1>. QED BY <1>2, <1>3, <1>4, <1>5, <1>6, <1>7, <1>8 DEF LifeNext

\* The synchronisation wait of a resume never loses its timer, whatever the install
\* before it left behind.
THEOREM ResumeWaitsAreWatched ==
    ASSUME NoneOf({"timer_add", "tick_race"})
    PROVE  LifeSpec => []ResumeWaitWatched
<1>. DEFINE Watched == resumePc # "none" => ResumeWatch
<1>1. LifeInit => Watched
  BY DEF LifeInit
<1>2. LifeInv /\ Watched /\ [LifeNext]_lifeVars => Watched'
  BY ResumeWatchNext
<1>3. Watched => ResumeWaitWatched
  BY DEF ResumeWatch, ResumeWaitWatched
<1>. HIDE DEF Watched
<1>. QED BY <1>1, <1>2, <1>3, LifeInvariant, PTL DEF LifeSpec

-----------------------------------------------------------------------------
(* The waits of the install beside the resume.                             *)

\* The strengthening of the install, whose timers a resume gives back at rest.
LifeWatchInv ==
    /\ OwnInv /\ PackageInv
    /\ resumePc = "none" => WatchInv
    /\ resumePc # "none" => ResumeWatch

LEMMA LifeWatchNext ==
    ASSUME NoneOf(WatchFaults), AllReported, LifeInv, LifeWatchInv,
           [LifeNext]_lifeVars
    PROVE  /\ LifeWatchInv'
           /\ callback'.at = "cancel" /\ callback.at # "cancel"
              => armed = "update" /\ pc \in Updating
<1>. NoneOf({"timer_add", "tick_race"}) /\ NoneOf({"slow_begin", "type_turns_invalid"})
     /\ "slow_begin" \notin Faults
  BY DEF NoneOf, WatchFaults
<1>1. OwnInv'
  BY LifeOwnNext DEF LifeWatchInv
<1>2. PackageInv'
  <2>1. CASE [Next]_vars
    BY <2>1, PackageNext DEF LifeWatchInv
  <2>2. CASE pc' = "idle"
    BY <2>2 DEF PackageInv
  <2>. QED BY <2>1, <2>2, LifeSteps
<1>3. resumePc' # "none" => ResumeWatch'
  BY ResumeWatchNext DEF LifeWatchInv
<1>4. CASE resumePc = "none"
  <2>1. [Next]_vars
    BY <1>4, LifeSteps
  <2>2. TypeOK /\ PackageInv /\ WatchInv
    BY <1>4 DEF LifeWatchInv, LifeInv, LifeTypeOK
  <2>. QED BY <1>1, <1>2, <1>3, <2>1, <2>2, WatchNext DEF LifeWatchInv
<1>5. CASE resumePc # "none"
  <2>1. ResumeWatch /\ pc = "idle"
    BY <1>5 DEF LifeWatchInv, LifeInv, OpenInv
  <2>2. ASSUME TimersAtRest', pc' = "idle" PROVE WatchInv' /\ callback'.at # "cancel"
    BY <2>2 DEF TimersAtRest, WatchInv, WaitWatched, NoTimer, IdleCallback
  <2>3. CASE Resume
    <3>1. pc' = "idle" /\ (resumePc' # "wait" => TimersAtRest')
      BY <2>1, <2>3, ResumeTimers DEF Resume
    <3>2. ResumeWatch'
      BY <2>1, <2>3, ResumeTimers
    <3>. QED BY <1>1, <1>2, <1>3, <2>2, <3>1, <3>2 DEF LifeWatchInv, ResumeWatch, IdleCallback
  <2>4. CASE LifeRestart
    <3>1. TimersAtRest' /\ pc' = "idle"
      BY <2>4 DEF LifeRestart, Restart, TimerRestarts, TimersAtRest
    <3>. QED BY <1>1, <1>2, <1>3, <2>2, <3>1 DEF LifeWatchInv
  <2>5. CASE ~Resume /\ ~LifeRestart
    <3>1. resumePc' = resumePc
      BY <1>5, <2>5 DEF LifeNext, LifeBegin, LifeWorker, TimerThreadRuns, ManagerWrites,
                        resumeVars, lifeVars
    <3>2. ResumeWatch'
      BY <1>3, <1>5, <3>1
    <3>. QED BY <1>1, <1>2, <1>5, <3>1, <3>2 DEF LifeWatchInv, ResumeWatch, IdleCallback
  <2>. QED BY <2>3, <2>4, <2>5
<1>. QED BY <1>4, <1>5

LEMMA LifeWatchInit == LifeInit => LifeWatchInv
BY LifeOwnInit, InstallInvInit DEF LifeInit, LifeWatchInv, InstallInv

\* Every wait of an install keeps its timer, however many resumes came before it, ...
THEOREM LifeWaitsAreWatched ==
    ASSUME NoneOf(WatchFaults), AllReported
    PROVE  LifeSpec => []WaitWatched
<1>1. LifeInv /\ LifeWatchInv /\ [LifeNext]_lifeVars => LifeWatchInv'
  BY LifeWatchNext
<1>2. LifeInv /\ LifeWatchInv => WaitWatched
  BY DEF LifeInv, OpenInv, LifeWatchInv, WatchInv, WaitWatched
<1>. QED BY <1>1, <1>2, LifeWatchInit, LifeInvariant, PTL DEF LifeSpec

\* ... and no timer of a resume cancels an update.
THEOREM LifeCancelsOwnUpdate ==
    ASSUME NoneOf(WatchFaults), AllReported
    PROVE  LifeSpec => CancelOnlyAfterOwnTimer
<1>1. LifeInv /\ LifeWatchInv /\ [LifeNext]_lifeVars => LifeWatchInv'
  BY LifeWatchNext
<1>2. LifeInv /\ LifeWatchInv /\ [LifeNext]_lifeVars
      => [callback'.at = "cancel" /\ callback.at # "cancel"
            => armed = "update" /\ pc \in Updating]_vars
  BY LifeWatchNext
<1>. QED BY <1>1, <1>2, LifeWatchInit, LifeInvariant, PTL DEF LifeSpec, CancelOnlyAfterOwnTimer

-----------------------------------------------------------------------------
(* What a resume takes down.                                               *)

\* A resume has the deployed version switched away only when it finds SWITCH_FILE or
\* reads no version: for every build, package, bound and set of faults.
THEOREM DeployedTakenDownOnlyByRecord == LifeSpec => DeployedTakenDown
<1>1. ASSUME LifeInv, Resume, otaJob # "switch", otaJob' = "switch", running = Deployed
      PROVE  resumePc = "undo" \/ installed = NoVersion
  <2>. USE <1>1 DEF ResumeAt, ResumeReturns, VersionInv, Comparing
  <2>0. VersionInv
    BY DEF LifeInv
  <2>1. CASE ResumeVersion \/ ResumeSwitched \/ ResumeConfirmed \/ ResumeWait \/ ResumeDone
    BY <2>1 DEF ResumeVersion, ResumeSwitched, ResumeConfirmed, ResumeWait, ResumeDone, otaVars
  <2>2. CASE ResumeDispatch
    BY <2>0, <2>2 DEF ResumeDispatch, Confirm, SynchronizePartition, TakesJob, otaVars
  <2>3. CASE ResumeSwitchFile \/ ResumeUnlinkRec \/ ResumeUndo
    BY <2>3 DEF ResumeSwitchFile, ResumeUnlinkRec, ResumeUndo, otaVars
  <2>4. CASE ResumeCompare
    BY <2>0, <2>4 DEF ResumeCompare, Confirm, OldRuns, OtherRuns, SynchronizePartition, TakesJob, otaVars
  <2>5. CASE ResumeRollback
    BY <2>0, <2>5 DEF ResumeRollback
  <2>. QED BY <2>1, <2>2, <2>3, <2>4, <2>5 DEF Resume
<1>2. ASSUME LifeInv, [LifeNext]_lifeVars, resumePc # "none", otaJob # "switch", otaJob' = "switch"
      PROVE  Resume
  <2>1. pc = "idle"
    BY <1>2 DEF LifeInv, OpenInv
  <2>2. ~LifeWorker
    BY <2>1 DEF LifeWorker, Worker, Entry, EntrySwitch, Version, Pending, Package, Presync,
                PresyncCall, SyncWait, SyncDone, Start, StartPoll, ArmUpdate, UpdateWait,
                UpdateSleep, IocSync, MissingSync, UpdateDone, Switch
  <2>3. ~TimerThreadRuns /\ ~ManagerWrites
    BY <1>2, TimerThreadJobs, ManagerJobs DEF TimerThreadRuns, ManagerWrites
  <2>4. ~LifeBegin /\ ~DeliverEvent /\ ~LifeRestart /\ ~UNCHANGED lifeVars
    BY <1>2 DEF LifeBegin, DeliverEvent, LifeRestart, Restart, OtaRestarts, lifeVars, vars, otaVars
  <2>. QED BY <1>2, <2>2, <2>3, <2>4 DEF LifeNext
<1>3. LifeInv /\ [LifeNext]_lifeVars
      => [(resumePc # "none" /\ otaJob # "switch" /\ otaJob' = "switch" /\ running = Deployed)
            => resumePc = "undo" \/ installed = NoVersion]_lifeVars
  BY <1>1, <1>2
<1>. QED BY <1>3, LifeInvariant, PTL DEF LifeSpec, DeployedTakenDown
=============================================================================
