------------------------- MODULE FotaInstallProofs -------------------------
(* Theorems about FotaInstall, for every set of packages, every bound and  *)
(* every set of faults but those a theorem excludes.                       *)
EXTENDS FotaInstall, TLAPS

-----------------------------------------------------------------------------
(* Types.                                                                  *)

\* The calls of the manager keep its types.
LEMMA CallsType ==
    ASSUME OtaTypeOK, NEW n \in Nat, NEW ok \in BOOLEAN,
           \/ SelfTCUUpdate(n, ok) \/ SynchronizePartition(ok)
           \/ SwitchPartition(ok) \/ SelfTCUUpdateCancel
    PROVE  OtaTypeOK'
<1>1. CASE SelfTCUUpdate(n, ok)
  BY <1>1, PackagesAssumption
  DEF SelfTCUUpdate, TakesJob, OtaTypeOK, otaVars, PackageShape, UpdateTypes, OtaStates, ExitCodes, Jobs
<1>2. CASE SynchronizePartition(ok)
  BY <1>2 DEF SynchronizePartition, TakesJob, OtaTypeOK, otaVars, OtaStates, ExitCodes, Jobs
<1>3. CASE SwitchPartition(ok)
  BY <1>3 DEF SwitchPartition, OtaTypeOK, otaVars, Jobs
<1>4. CASE SelfTCUUpdateCancel
  BY <1>4 DEF SelfTCUUpdateCancel, OtaTypeOK, otaVars, OtaStates, Jobs
<1>. QED BY <1>1, <1>2, <1>3, <1>4

\* So do its own steps and its restart.
LEMMA ManagerType ==
    ASSUME OtaTypeOK, OtaStep(subscribed) \/ OtaRestarts
    PROVE  OtaTypeOK'
<1>1. CASE OtaBegins(subscribed)
  BY <1>1 DEF OtaBegins, Emit, OtaTypeOK, OtaStates, ExitCodes, Percents
<1>2. CASE OtaUpdateEnds(subscribed)
  BY <1>2 DEF OtaUpdateEnds, Emit, OtaTypeOK, OtaStates, ExitCodes, Jobs, Percents
<1>3. CASE OtaSyncEnds
  BY <1>3 DEF OtaSyncEnds, OtaTypeOK, OtaStates, ExitCodes, Jobs
<1>4. CASE OtaTypeTurnsInvalid
  BY <1>4 DEF OtaTypeTurnsInvalid, OtaTypeOK, UpdateTypes
<1>5. CASE OtaRestarts
  BY <1>5 DEF OtaRestarts, OtaTypeOK, OtaStates, ExitCodes, Jobs
<1>. QED BY <1>1, <1>2, <1>3, <1>4, <1>5 DEF OtaStep

\* What the worker does to the timer keeps its types.
LEMMA WorkerTimerType ==
    ASSUME TimerTypeOK, NEW kind \in Timers,
           \/ StartTimer(kind) \/ ClearTimer(kind) \/ AbandonTimer
           \/ InitiateTimer /\ UNCHANGED <<armed, leaked, callback>>
           \/ DiagTimerAdd(kind) /\ UNCHANGED <<timerCount, Flags, callback>>
           \/ UNCHANGED timerVars
    PROVE  TimerTypeOK'
<1>1. LeakTimer => leaked' \in [Timers -> Nat]
  BY DEF LeakTimer, TimerTypeOK, Timers, NoTimer
<1>2. ClearsLeaked => leaked' \in [Timers -> Nat]
  BY DEF ClearsLeaked, TimerTypeOK
<1>9. InitiateTimer => timerCount' \in 0..Ticks
  BY DEF InitiateTimer, Ticks
<1>3. CASE StartTimer(kind)
  <2>1. InitiateTimer /\ DiagTimerAdd(kind) /\ UNCHANGED callback
    BY <1>3 DEF StartTimer
  <2>2. armed' \in Timers \cup {NoTimer} /\ leaked' \in [Timers -> Nat]
    BY <1>1, <2>1 DEF DiagTimerAdd
  <2>3. isUpdateTimerExpired' \in BOOLEAN /\ isSyncTimerExpired' \in BOOLEAN
    BY <2>1 DEF InitiateTimer
  <2>. QED BY <1>9, <2>1, <2>2, <2>3, Zenon DEF TimerTypeOK
<1>4. CASE ClearTimer(kind)
  BY <1>2, <1>4 DEF ClearTimer, TimerTypeOK
<1>5. CASE AbandonTimer
  BY <1>1, <1>5 DEF AbandonTimer, TimerTypeOK
<1>6. CASE InitiateTimer /\ UNCHANGED <<armed, leaked, callback>>
  <2>1. isUpdateTimerExpired' \in BOOLEAN /\ isSyncTimerExpired' \in BOOLEAN
    BY <1>6 DEF InitiateTimer
  <2>. QED BY <1>6, <1>9, <2>1, Zenon DEF TimerTypeOK
<1>7. CASE DiagTimerAdd(kind) /\ UNCHANGED <<timerCount, Flags, callback>>
  BY <1>1, <1>7 DEF DiagTimerAdd, TimerTypeOK, Flags
<1>8. CASE UNCHANGED timerVars
  BY <1>8 DEF TimerTypeOK, timerVars
<1>. QED BY <1>3, <1>4, <1>5, <1>6, <1>7, <1>8

\* So does the timer thread.
LEMMA TimerThreadType ==
    ASSUME TimerTypeOK,
           \/ TimerTick \/ LeakedTick \/ TickLoads \/ TickStores
           \/ CancelReturns \/ FlagExpiry \/ TimerRestarts
    PROVE  TimerTypeOK'
<1>1. ASSUME NEW kind \in Timers, Expire(kind)
      PROVE  /\ callback' \in Callbacks
             /\ isUpdateTimerExpired' \in BOOLEAN /\ isSyncTimerExpired' \in BOOLEAN
  <2>1. callback' \in Callbacks
    BY <1>1 DEF Callbacks, Expire, At, IdleCallback
  <2>2. isUpdateTimerExpired' \in BOOLEAN /\ isSyncTimerExpired' \in BOOLEAN
    <3>1. CASE UNCHANGED Flags
      BY <3>1 DEF Flags, TimerTypeOK
    <3>2. CASE RaiseFlag(kind)
      BY <3>2 DEF RaiseFlag, TimerTypeOK
    <3>. QED BY <1>1, <3>1, <3>2 DEF Expire
  <2>. QED BY <2>1, <2>2
<1>2. CASE TimerTick
  BY <1>1, <1>2 DEF TimerTick, TimerTypeOK, Ticks, Flags
<1>3. CASE LeakedTick
  <2>1. timerCount' \in 0..Ticks
    BY <1>3 DEF LeakedTick, TimerTypeOK, Ticks
  <2>2. PICK kind \in Timers :
          /\ leaked[kind] > 0
          /\ armed' \in {armed, NoTimer}
          /\ leaked' \in {leaked, [leaked EXCEPT ![kind] = @ - 1]}
          /\ Expire(kind) \/ UNCHANGED <<callback, Flags>>
    BY <1>3 DEF LeakedTick
  <2>3. leaked' \in [Timers -> Nat]
    BY <2>2 DEF TimerTypeOK
  <2>4. callback' \in Callbacks /\ isUpdateTimerExpired' \in BOOLEAN /\ isSyncTimerExpired' \in BOOLEAN
    BY <1>1, <2>2 DEF TimerTypeOK, Flags
  <2>. QED BY <2>1, <2>2, <2>3, <2>4 DEF TimerTypeOK
<1>4. CASE TickLoads
  BY <1>4 DEF TickLoads, TimerTypeOK, Callbacks, Flags, NoTimer, Timers, Ticks
<1>5. CASE TickStores
  <2>1. callback.kind \in Timers /\ callback.seen \in 1..Ticks
    BY <1>5 DEF TickStores, TimerTypeOK, Callbacks
  <2>. QED BY <1>1, <1>5, <2>1 DEF TickStores, TimerTypeOK, Flags, IdleCallback, Ticks, Callbacks
<1>6. CASE CancelReturns
  BY <1>6 DEF CancelReturns, At, Callbacks, TimerTypeOK, Flags
<1>7. CASE FlagExpiry
  <2>1. callback' \in Callbacks
    BY <1>7 DEF FlagExpiry, IdleCallback, Callbacks
  <2>2. isUpdateTimerExpired' \in BOOLEAN /\ isSyncTimerExpired' \in BOOLEAN
    <3>1. CASE callback.kind = "update"
      BY <1>7, <3>1, Zenon DEF FlagExpiry, RaiseFlag, TimerTypeOK
    <3>2. CASE callback.kind # "update"
      BY <1>7, <3>2, Zenon DEF FlagExpiry, RaiseFlag, TimerTypeOK
    <3>. QED BY <3>1, <3>2
  <2>. QED BY <1>7, <2>1, <2>2, Zenon DEF FlagExpiry, TimerTypeOK
<1>8. CASE TimerRestarts
  <2>1. callback' \in Callbacks /\ timerCount' \in 0..Ticks
    BY <1>8 DEF TimerRestarts, IdleCallback, Callbacks, Ticks
  <2>2. leaked' \in [Timers -> Nat]
    BY <1>8 DEF TimerRestarts, NoneLeaked
  <2>. QED BY <1>8, <2>1, <2>2, Zenon DEF TimerRestarts, TimerTypeOK
<1>. QED BY <1>2, <1>3, <1>4, <1>5, <1>6, <1>7, <1>8

LEMMA InitType == Init => TypeOK
<1>. SUFFICES ASSUME Init PROVE TypeOK
  OBVIOUS
<1>1. OtaTypeOK
  BY DEF Init, OtaInit, OtaTypeOK, OtaStates, ExitCodes, UpdateTypes, Jobs
<1>2. TimerTypeOK
  <2>1. callback \in Callbacks /\ timerCount \in 0..Ticks
    BY DEF Init, TimerInit, IdleCallback, Callbacks, Ticks
  <2>2. leaked \in [Timers -> Nat]
    BY DEF Init, TimerInit, NoneLeaked
  <2>. QED BY <2>1, <2>2, Zenon DEF Init, TimerInit, TimerTypeOK
<1>3. pc \in Points /\ seen \in [perc : Percents, state : OtaStates] /\ percentage \in Percents
  BY DEF Init, Points, NoPoll, Percents, OtaStates
<1>. QED BY <1>1, <1>2, <1>3 DEF Init, TypeOK

\* The variables of the worker keep their types in each of its steps.
WorkTypeOK ==
    /\ pc \in Points
    /\ site \in Sites \cup {NoSite}
    /\ installs \in Nat
    /\ result \in {"NONE", "INSTALL_FAILED", "INSTALL_IN_PROGRESS"}
    /\ seen \in [perc : Percents, state : OtaStates]

LEMMA ControlType ==
    ASSUME WorkTypeOK, NEW point \in Points, NEW s \in Sites,
           NEW r \in {"NONE", "INSTALL_FAILED", "INSTALL_IN_PROGRESS"},
           Goto(point) \/ EnterSyncLoop(s) \/ Return(r) \/ Fail
    PROVE  WorkTypeOK'
<1>1. NoPoll \in [perc : Percents, state : OtaStates] /\ "idle" \in Points /\ "sync_wait" \in Points
  BY DEF NoPoll, Percents, OtaStates, Points
<1>. QED BY <1>1 DEF WorkTypeOK, Goto, EnterSyncLoop, Return, Fail

-----------------------------------------------------------------------------
(* What a step of the worker is made of: at most one call of the manager,  *)
(* one use of the timer, one move in the code, one write to the disk.      *)

Calls ==
    \/ UNCHANGED otaVars
    \/ otaFiles' = {} /\ UNCHANGED <<otaState, otaExit, otaType, otaJob, otaFor, event>>
    \/ \E ok \in BOOLEAN : \/ SelfTCUUpdate(installs, ok)
                          \/ SynchronizePartition(ok)
                          \/ SwitchPartition(ok)

Times ==
    \/ UNCHANGED timerVars
    \/ AbandonTimer
    \/ InitiateTimer /\ UNCHANGED <<armed, leaked, callback>>
    \/ \E kind \in Timers :
         \/ StartTimer(kind)
         \/ ClearTimer(kind)
         \/ DiagTimerAdd(kind) /\ UNCHANGED <<timerCount, Flags, callback>>

Moves ==
    \/ \E point \in Points : Goto(point)
    \/ \E s \in Sites : EnterSyncLoop(s)
    \/ Fail
    \/ Return("INSTALL_IN_PROGRESS")
    \/ /\ seen' = [perc |-> percentage, state |-> otaState]
       /\ pc' = "update_sleep" /\ UNCHANGED <<site, installs, result>>

Writes ==
    \/ UNCHANGED diskVars
    \/ RemoveCacheDir
    \/ switchFile' = TRUE /\ UNCHANGED rollbackInfo

LEMMA WorkerShape ==
    ASSUME Worker
    PROVE  Calls /\ Times /\ Moves /\ Writes /\ UNCHANGED <<restarts, percentage>>
           /\ (subscribed' = TRUE \/ UNCHANGED subscribed)
<1>. USE DEF busVars
<1>1. CASE Entry
  BY <1>1 DEF Entry, Calls, Times, Moves, Writes, Points, diskVars
<1>2. CASE EntrySwitch
  BY <1>2 DEF EntrySwitch, FailAndClean, Calls, Times, Moves, Writes, Points
<1>3. CASE Version
  BY <1>3 DEF Version, Calls, Times, Moves, Writes, Points
<1>4. CASE Pending
  BY <1>4 DEF Pending, Calls, Times, Moves, Writes, Points, timerVars, Timers, Sites
<1>5. CASE Package
  BY <1>5 DEF Package, FailAndClean, Calls, Times, Moves, Writes, Points, otaVars
<1>6. CASE Presync
  BY <1>6 DEF Presync, Calls, Times, Moves, Writes, Points, timerVars, Flags
<1>7. CASE PresyncCall
  BY <1>7 DEF PresyncCall, FailAndClean, Calls, Times, Moves, Writes, Points, timerVars, Timers, Flags, Sites
<1>8. CASE SyncWait
  BY <1>8 DEF SyncWait, Calls, Times, Moves, Writes, Points, Timers
<1>9. CASE SyncDone
  BY <1>9 DEF SyncDone, SyncTimesOut, SyncFails, SyncSucceeds, FailAndClean,
              Calls, Times, Moves, Writes, Points, Timers
<1>10. CASE Start
  BY <1>10 DEF Start, FailAndClean, Calls, Times, Moves, Writes, Points
<1>11. CASE StartPoll
  BY <1>11 DEF StartPoll, FailAndClean, Calls, Times, Moves, Writes, Points
<1>12. CASE ArmUpdate
  BY <1>12 DEF ArmUpdate, Calls, Times, Moves, Writes, Points, Timers
<1>13. CASE UpdateWait
  BY <1>13 DEF UpdateWait, Calls, Times, Moves, Writes, Points
<1>14. CASE UpdateSleep
  BY <1>14 DEF UpdateSleep, UpdateFailed, IocFailed, FailAndClean,
               Calls, Times, Moves, Writes, Points, Timers
<1>15. CASE IocSync
  BY <1>15 DEF IocSync, Calls, Times, Moves, Writes, Points, Timers, Sites
<1>16. CASE MissingSync
  BY <1>16 DEF MissingSync, FailAndClean, Calls, Times, Moves, Writes, Points, Timers, Sites
<1>17. CASE UpdateDone
  BY <1>17 DEF UpdateDone, FailAndClean, Calls, Times, Moves, Writes, Points, Timers
<1>18. CASE Switch
  BY <1>18 DEF Switch, FailAndClean, Calls, Times, Moves, Writes, Points
<1>. QED
  BY <1>1, <1>2, <1>3, <1>4, <1>5, <1>6, <1>7, <1>8, <1>9, <1>10, <1>11, <1>12,
     <1>13, <1>14, <1>15, <1>16, <1>17, <1>18 DEF Worker

LEMMA WorkerType == ASSUME TypeOK, Worker PROVE TypeOK'
<1>1. /\ Calls /\ Times /\ Moves /\ Writes /\ UNCHANGED <<restarts, percentage>>
      /\ subscribed' = TRUE \/ UNCHANGED subscribed
  BY WorkerShape
<1>2. OtaTypeOK'
  <2>1. CASE UNCHANGED otaVars
    BY <2>1 DEF TypeOK, OtaTypeOK, otaVars
  <2>2. CASE otaFiles' = {} /\ UNCHANGED <<otaState, otaExit, otaType, otaJob, otaFor, event>>
    BY <2>2 DEF TypeOK, OtaTypeOK
  <2>3. ASSUME NEW ok \in BOOLEAN,
               \/ SelfTCUUpdate(installs, ok) \/ SynchronizePartition(ok) \/ SwitchPartition(ok)
        PROVE  OtaTypeOK'
    BY <2>3, CallsType DEF TypeOK
  <2>. QED BY <1>1, <2>1, <2>2, <2>3 DEF Calls
<1>3. TimerTypeOK'
  <2>1. "sync" \in Timers
    BY DEF Timers
  <2>. QED BY <1>1, <2>1, WorkerTimerType DEF Times, TypeOK
<1>4. WorkTypeOK'
  <2>1. CASE /\ seen' = [perc |-> percentage, state |-> otaState]
             /\ pc' = "update_sleep" /\ UNCHANGED <<site, installs, result>>
    BY <2>1 DEF TypeOK, OtaTypeOK, WorkTypeOK, Points
  <2>2. "idle" \in Points /\ "presync" \in Sites
    BY DEF Points, Sites
  <2>. QED BY <1>1, <2>1, <2>2, ControlType DEF Moves, TypeOK, WorkTypeOK
<1>5. switchFile' \in BOOLEAN /\ rollbackInfo' \in BOOLEAN
  <2>1. CASE UNCHANGED diskVars
    BY <2>1 DEF TypeOK, diskVars
  <2>2. CASE RemoveCacheDir
    BY <2>2, Zenon DEF TypeOK, RemoveCacheDir
  <2>3. CASE switchFile' = TRUE /\ UNCHANGED rollbackInfo
    BY <2>3, Zenon DEF TypeOK
  <2>. QED BY <1>1, <2>1, <2>2, <2>3 DEF Writes
<1>6. subscribed' \in BOOLEAN
  BY <1>1, Zenon DEF TypeOK
<1>. QED BY <1>1, <1>2, <1>3, <1>4, <1>5, <1>6 DEF TypeOK, WorkTypeOK

LEMMA NextType == ASSUME TypeOK, [Next]_vars PROVE TypeOK'
<1>1. CASE BeginInstall
  <2>1. OtaTypeOK' /\ TimerTypeOK'
    BY <1>1 DEF TypeOK, BeginInstall, OtaTypeOK, otaVars, TimerTypeOK, timerVars
  <2>. QED BY <1>1, <2>1 DEF TypeOK, BeginInstall, busVars, diskVars, Points
<1>2. CASE Worker
  BY <1>2, WorkerType
<1>3. CASE TimerThread
  <2>1. TimerTypeOK'
    BY <1>3, TimerThreadType DEF TimerThread, TypeOK
  <2>2. OtaTypeOK'
    <3>1. CASE UNCHANGED otaVars
      BY <3>1 DEF TypeOK, OtaTypeOK, otaVars
    <3>2. CASE SelfTCUUpdateCancel
      BY <3>2, CallsType DEF TypeOK
    <3>. QED BY <1>3, <3>1, <3>2 DEF TimerThread
  <2>. QED BY <1>3, <2>1, <2>2 DEF TypeOK, TimerThread, workerVars, busVars, diskVars
<1>4. CASE DeliverEvent
  <2>1. TimerTypeOK'
    BY <1>4 DEF TypeOK, DeliverEvent, TimerTypeOK, timerVars
  <2>2. OtaTypeOK' /\ percentage' \in Percents
    BY <1>4 DEF TypeOK, DeliverEvent, OtaTypeOK
  <2>. QED BY <1>4, <2>1, <2>2 DEF TypeOK, DeliverEvent, workerVars, diskVars
<1>5. CASE Manager
  <2>1. TimerTypeOK'
    BY <1>5 DEF TypeOK, Manager, TimerTypeOK, timerVars
  <2>2. OtaTypeOK'
    BY <1>5, ManagerType DEF TypeOK, Manager
  <2>. QED BY <1>5, <2>1, <2>2 DEF TypeOK, Manager, workerVars, busVars, diskVars
<1>6. CASE Restart
  <2>1. TimerTypeOK' /\ OtaTypeOK'
    BY <1>6, ManagerType, TimerThreadType DEF TypeOK, Restart
  <2>2. pc' \in Points /\ seen' \in [perc : Percents, state : OtaStates] /\ percentage' \in Percents
    BY <1>6 DEF Restart, Points, NoPoll, Percents, OtaStates
  <2>3. subscribed' \in BOOLEAN /\ switchFile' \in BOOLEAN /\ rollbackInfo' \in BOOLEAN
    BY <1>6 DEF TypeOK, Restart, diskVars
  <2>. QED BY <1>6, <2>1, <2>2, <2>3 DEF TypeOK, Restart
<1>7. CASE UNCHANGED vars
  <2>1. OtaTypeOK' /\ TimerTypeOK'
    BY <1>7 DEF TypeOK, vars, OtaTypeOK, otaVars, TimerTypeOK, timerVars
  <2>. QED BY <1>7, <2>1 DEF TypeOK, vars, busVars, diskVars
<1>. QED BY <1>1, <1>2, <1>3, <1>4, <1>5, <1>6, <1>7 DEF Next

\* Every variable of the worker, the timer thread, the disk and the manager keeps
\* its type, with any faults.
THEOREM TypeCorrect == Spec => []TypeOK
BY InitType, NextType, PTL DEF Spec

-----------------------------------------------------------------------------
(* The inductive invariants.                                               *)

\* A switch under way was called with its record on the disk, or by an install
\* that returned INSTALL_IN_PROGRESS and has not been followed by another.
AccountInv ==
    /\ SwitchAccounted
    /\ pc = "entry_switch" => switchFile
    /\ result = "INSTALL_IN_PROGRESS" => pc = "idle"

\* A manager that begins at once shows its job; E_UPDATE_PACKAGE_NOEXIST is only
\* left by an update that failed.
ManagerInv ==
    /\ otaJob \in {"update", "sync"} => otaState = "IN_PROGRESS"
    /\ otaExit = "E_UPDATE_PACKAGE_NOEXIST" => otaState = "FAILED"

AfterStart == {"start_poll", "arm_update", "update_wait", "update_sleep", "update_done"}

\* From the call of selfTCUUpdate to that of SwitchPartition, an update that runs
\* or is complete is the worker's own.
OwnInv ==
    /\ ManagerInv
    /\ StartOnlySynchronized
    /\ pc = "sync_done" => isSyncTimerExpired \/ SyncEnded
    /\ /\ pc \in AfterStart
       /\ otaState = "UPDATE_COMPLETE_SWITCH_PENDING" \/ otaJob = "update"
       => otaFor = installs
    /\ pc = "update_done" => \/ isUpdateTimerExpired
                            \/ otaState = "UPDATE_COMPLETE_SWITCH_PENDING"
    /\ "mv_fails" \notin Faults => SwitchOwnUpdate

FromPackage == \E p \in Packages : otaType = p.type /\ otaFiles = p.files

\* During the update loop a failure is that of a package.
PackageInv ==
    /\ pc \in {"start_poll", "arm_update", "update_wait", "update_sleep"} => otaJob # "sync"
    /\ /\ pc = "start_poll"
       /\ otaJob = "update" \/ (otaState = "FAILED" /\ otaExit = "E_NO_ERROR")
       => FromPackage
    /\ pc \in {"arm_update", "update_wait", "update_sleep"} =>
         /\ otaType # "INVALID_UPDATE_TYPE"
         /\ (otaJob = "update" \/ otaState = "FAILED") => FromPackage

\* A timer is armed only for the wait the worker is in, and none is leaked.
WatchInv ==
    /\ WaitWatched
    /\ leaked = NoneLeaked
    /\ callback = IdleCallback \/ callback \in {At("cancel", "update"), At("flag", "update")}
    /\ armed = "sync" => pc = "sync_wait" /\ ~isSyncTimerExpired
    /\ armed = "update" => /\ timerCount > 0
                           /\ \/ pc \in {"update_wait", "update_sleep"}
                              \/ pc = "update_done" /\ isUpdateTimerExpired
    /\ pc = "presync_call" => timerCount > 0 /\ ~isSyncTimerExpired

-----------------------------------------------------------------------------
(* SwitchAccounted.                                                        *)

LEMMA AccountWorker ==
    ASSUME "store_fails" \notin Faults, AccountInv, Worker
    PROVE  AccountInv'
<1>. USE DEF AccountInv, SwitchAccounted, Goto, EnterSyncLoop, Return, Fail, RemoveCacheDir, diskVars
<1>1. CASE Entry
  BY <1>1 DEF Entry, otaVars
<1>2. CASE EntrySwitch
  BY <1>2 DEF EntrySwitch, FailAndClean, SwitchPartition, otaVars
<1>3. CASE Version
  BY <1>3 DEF Version, otaVars
<1>4. CASE Pending
  BY <1>4 DEF Pending, SynchronizePartition, TakesJob, otaVars
<1>5. CASE Package
  BY <1>5 DEF Package, FailAndClean
<1>6. CASE Presync
  BY <1>6 DEF Presync, otaVars
<1>7. CASE PresyncCall
  BY <1>7 DEF PresyncCall, FailAndClean, SynchronizePartition, TakesJob, otaVars
<1>8. CASE SyncWait
  BY <1>8 DEF SyncWait, otaVars
<1>9. CASE SyncDone
  BY <1>9 DEF SyncDone, SyncTimesOut, SyncFails, SyncSucceeds, FailAndClean, otaVars
<1>10. CASE Start
  BY <1>10 DEF Start, FailAndClean, SelfTCUUpdate, TakesJob, otaVars
<1>11. CASE StartPoll
  BY <1>11 DEF StartPoll, FailAndClean, otaVars
<1>12. CASE ArmUpdate
  BY <1>12 DEF ArmUpdate, otaVars
<1>13. CASE UpdateWait
  BY <1>13 DEF UpdateWait, otaVars
<1>14. CASE UpdateSleep
  BY <1>14 DEF UpdateSleep, UpdateFailed, IocFailed, FailAndClean, otaVars
<1>15. CASE IocSync
  BY <1>15 DEF IocSync, SynchronizePartition, TakesJob, otaVars
<1>16. CASE MissingSync
  BY <1>16 DEF MissingSync, FailAndClean, SynchronizePartition, TakesJob, otaVars
<1>17. CASE UpdateDone
  BY <1>17 DEF UpdateDone, FailAndClean, otaVars
<1>18. CASE Switch
  BY <1>18 DEF Switch, FailAndClean, SwitchPartition, otaVars
<1>. QED
  BY <1>1, <1>2, <1>3, <1>4, <1>5, <1>6, <1>7, <1>8, <1>9, <1>10, <1>11, <1>12,
     <1>13, <1>14, <1>15, <1>16, <1>17, <1>18 DEF Worker

LEMMA AccountNext ==
    ASSUME "store_fails" \notin Faults, AccountInv, [Next]_vars
    PROVE  AccountInv'
<1>. USE DEF AccountInv, SwitchAccounted
<1>1. CASE BeginInstall
  BY <1>1 DEF BeginInstall, otaVars, diskVars
<1>2. CASE Worker
  BY <1>2, AccountWorker
<1>3. CASE TimerThread
  BY <1>3 DEF TimerThread, SelfTCUUpdateCancel, otaVars, workerVars, diskVars
<1>4. CASE DeliverEvent
  BY <1>4 DEF DeliverEvent, workerVars, diskVars
<1>5. CASE Manager
  BY <1>5 DEF Manager, OtaStep, OtaBegins, OtaUpdateEnds, OtaSyncEnds, OtaTypeTurnsInvalid,
              workerVars, diskVars
<1>6. CASE Restart
  BY <1>6 DEF Restart, OtaRestarts
<1>7. CASE UNCHANGED vars
  BY <1>7 DEF vars, otaVars, diskVars
<1>. QED BY <1>1, <1>2, <1>3, <1>4, <1>5, <1>6, <1>7 DEF Next

\* As long as the record can be written, every accepted switch has something to
\* resume from after the reboot: lost calls, races and restarts included.
THEOREM SwitchIsAccounted ==
    ASSUME "store_fails" \notin Faults
    PROVE  Spec => []SwitchAccounted
<1>1. Init => AccountInv
  BY DEF Init, OtaInit, AccountInv, SwitchAccounted
<1>2. AccountInv /\ [Next]_vars => AccountInv'
  BY AccountNext
<1>3. AccountInv => SwitchAccounted
  BY DEF AccountInv
<1>. QED BY <1>1, <1>2, <1>3, PTL DEF Spec

-----------------------------------------------------------------------------
(* StartOnlySynchronized and SwitchOwnUpdate.                              *)

LEMMA OwnWorker ==
    ASSUME "slow_begin" \notin Faults, OwnInv, Worker
    PROVE  OwnInv'
<1>. USE DEF OwnInv, ManagerInv, StartOnlySynchronized, SwitchOwnUpdate, AfterStart, SyncEnded,
             Goto, EnterSyncLoop, Return, Fail, otaVars, timerVars
<1>1. CASE Entry
  BY <1>1 DEF Entry
<1>2. CASE EntrySwitch
  BY <1>2 DEF EntrySwitch, FailAndClean, SwitchPartition
<1>3. CASE Version
  BY <1>3 DEF Version
<1>4. CASE Pending
  BY <1>4 DEF Pending, SynchronizePartition, TakesJob, StartTimer, InitiateTimer
<1>5. CASE Package
  BY <1>5 DEF Package, FailAndClean
<1>6. CASE Presync
  BY <1>6 DEF Presync, MustSync, Flags, InitiateTimer
<1>7. CASE PresyncCall
  BY <1>7 DEF PresyncCall, FailAndClean, SynchronizePartition, TakesJob, Flags
<1>8. CASE SyncWait
  BY <1>8 DEF SyncWait, ClearTimer
<1>9. CASE SyncDone
  BY <1>9 DEF SyncDone, SyncTimesOut, SyncFails, SyncSucceeds, FailAndClean, ClearTimer
<1>10. CASE Start
  BY <1>10 DEF Start, FailAndClean, SelfTCUUpdate, TakesJob
<1>11. CASE StartPoll
  BY <1>11 DEF StartPoll, FailAndClean
<1>12. CASE ArmUpdate
  BY <1>12 DEF ArmUpdate, StartTimer, InitiateTimer
<1>13. CASE UpdateWait
  BY <1>13 DEF UpdateWait
<1>14. CASE UpdateSleep
  BY <1>14 DEF UpdateSleep, FoundComplete, UpdateFailed, IocFailed, FailAndClean, ClearTimer, AbandonTimer
<1>15. CASE IocSync
  BY <1>15 DEF IocSync, SynchronizePartition, TakesJob
<1>16. CASE MissingSync
  BY <1>16 DEF MissingSync, FailAndClean, SynchronizePartition, TakesJob
<1>17. CASE UpdateDone
  BY <1>17 DEF UpdateDone, FailAndClean, ClearTimer
<1>18. CASE Switch
  BY <1>18 DEF Switch, FailAndClean, SwitchPartition
<1>. QED
  BY <1>1, <1>2, <1>3, <1>4, <1>5, <1>6, <1>7, <1>8, <1>9, <1>10, <1>11, <1>12,
     <1>13, <1>14, <1>15, <1>16, <1>17, <1>18 DEF Worker

\* The timer thread never takes a flag back.
LEMMA FlagsStay ==
    ASSUME TimerThread
    PROVE  /\ isSyncTimerExpired => isSyncTimerExpired'
           /\ isUpdateTimerExpired => isUpdateTimerExpired'
<1>1. ASSUME NEW kind, Expire(kind) \/ RaiseFlag(kind) \/ UNCHANGED Flags
      PROVE  /\ isSyncTimerExpired => isSyncTimerExpired'
             /\ isUpdateTimerExpired => isUpdateTimerExpired'
  <2>1. CASE UNCHANGED Flags
    BY <2>1 DEF Flags
  <2>2. CASE RaiseFlag(kind)
    <3>1. CASE kind = "update"
      BY <2>2, <3>1, Zenon DEF RaiseFlag
    <3>2. CASE kind # "update"
      BY <2>2, <3>2, Zenon DEF RaiseFlag
    <3>. QED BY <3>1, <3>2
  <2>. QED BY <1>1, <2>1, <2>2 DEF Expire
<1>2. \/ Expire(armed) \/ Expire(callback.kind) \/ RaiseFlag(callback.kind)
      \/ UNCHANGED Flags \/ \E kind \in Timers : Expire(kind)
  BY DEF TimerThread, TimerTick, LeakedTick, TickLoads, TickStores, FlagExpiry, CancelReturns, Flags
<1>. QED BY <1>1, <1>2

LEMMA OwnNext ==
    ASSUME "slow_begin" \notin Faults, OwnInv, [Next]_vars
    PROVE  OwnInv'
<1>. USE DEF OwnInv, ManagerInv, StartOnlySynchronized, SwitchOwnUpdate, AfterStart, SyncEnded
<1>1. CASE BeginInstall
  BY <1>1 DEF BeginInstall, otaVars, timerVars
<1>2. CASE Worker
  BY <1>2, OwnWorker
<1>3. CASE TimerThread
  BY <1>3, FlagsStay DEF TimerThread, SelfTCUUpdateCancel, otaVars, workerVars
<1>4. CASE DeliverEvent
  BY <1>4 DEF DeliverEvent, workerVars, timerVars
<1>5. CASE Manager
  BY <1>5 DEF Manager, OtaStep, OtaBegins, OtaUpdateEnds, OtaSyncEnds, OtaTypeTurnsInvalid,
              workerVars, timerVars
<1>6. CASE Restart
  BY <1>6 DEF Restart, OtaRestarts
<1>7. CASE UNCHANGED vars
  BY <1>7 DEF vars, otaVars, timerVars
<1>. QED BY <1>1, <1>2, <1>3, <1>4, <1>5, <1>6, <1>7 DEF Next

\* When the manager shows a job as soon as it takes it, an update is only started
\* on synchronised partitions or after one that found no package, ...
THEOREM StartsSynchronized ==
    ASSUME "slow_begin" \notin Faults
    PROVE  Spec => []StartOnlySynchronized
<1>1. Init => OwnInv
  BY DEF Init, OtaInit, OwnInv, ManagerInv, StartOnlySynchronized, SwitchOwnUpdate, AfterStart
<1>2. OwnInv /\ [Next]_vars => OwnInv'
  BY OwnNext
<1>3. OwnInv => StartOnlySynchronized
  BY DEF OwnInv
<1>. QED BY <1>1, <1>2, <1>3, PTL DEF Spec

\* ... and the switch at the end of an install is to the update of that install,
\* complete: with lost calls, races of the timer and restarts at any point.
THEOREM SwitchesOwnUpdate ==
    ASSUME "slow_begin" \notin Faults, "mv_fails" \notin Faults
    PROVE  Spec => []SwitchOwnUpdate
<1>1. Init => OwnInv
  BY DEF Init, OtaInit, OwnInv, ManagerInv, StartOnlySynchronized, SwitchOwnUpdate, AfterStart
<1>2. OwnInv /\ [Next]_vars => OwnInv'
  BY OwnNext
<1>3. OwnInv => SwitchOwnUpdate
  BY DEF OwnInv
<1>. QED BY <1>1, <1>2, <1>3, PTL DEF Spec

-----------------------------------------------------------------------------
(* WaitWatched and CancelOnlyAfterOwnTimer.                                *)

NoneOf(kinds) == Faults \cap kinds = {}

LEMMA PackageWorker ==
    ASSUME NoneOf({"slow_begin", "type_turns_invalid"}), OwnInv, PackageInv, Worker
    PROVE  PackageInv'
<1>. USE DEF PackageInv, FromPackage, OwnInv, ManagerInv, StartOnlySynchronized,
             Goto, EnterSyncLoop, Return, Fail, otaVars
<1>1. CASE Entry
  BY <1>1 DEF Entry
<1>2. CASE EntrySwitch
  BY <1>2 DEF EntrySwitch, FailAndClean, SwitchPartition
<1>3. CASE Version
  BY <1>3 DEF Version
<1>4. CASE Pending
  BY <1>4 DEF Pending, SynchronizePartition, TakesJob
<1>5. CASE Package
  BY <1>5 DEF Package, FailAndClean
<1>6. CASE Presync
  BY <1>6 DEF Presync
<1>7. CASE PresyncCall
  BY <1>7 DEF PresyncCall, FailAndClean, SynchronizePartition, TakesJob
<1>8. CASE SyncWait
  BY <1>8 DEF SyncWait
<1>9. CASE SyncDone
  BY <1>9 DEF SyncDone, SyncTimesOut, SyncFails, SyncSucceeds, FailAndClean
<1>10. CASE Start
  BY <1>10 DEF Start, FailAndClean, SelfTCUUpdate, TakesJob
<1>11. CASE StartPoll
  BY <1>11 DEF StartPoll, FailAndClean, StartAccepted
<1>12. CASE ArmUpdate
  BY <1>12 DEF ArmUpdate
<1>13. CASE UpdateWait
  BY <1>13 DEF UpdateWait
<1>14. CASE UpdateSleep
  BY <1>14 DEF UpdateSleep, UpdateFailed, IocFailed, FailAndClean
<1>15. CASE IocSync
  BY <1>15 DEF IocSync, SynchronizePartition, TakesJob
<1>16. CASE MissingSync
  BY <1>16 DEF MissingSync, FailAndClean, SynchronizePartition, TakesJob
<1>17. CASE UpdateDone
  BY <1>17 DEF UpdateDone, FailAndClean
<1>18. CASE Switch
  BY <1>18 DEF Switch, FailAndClean, SwitchPartition
<1>. QED
  BY <1>1, <1>2, <1>3, <1>4, <1>5, <1>6, <1>7, <1>8, <1>9, <1>10, <1>11, <1>12,
     <1>13, <1>14, <1>15, <1>16, <1>17, <1>18 DEF Worker

LEMMA PackageNext ==
    ASSUME NoneOf({"slow_begin", "type_turns_invalid"}), OwnInv, PackageInv, [Next]_vars
    PROVE  PackageInv'
<1>. USE DEF PackageInv, FromPackage
<1>1. CASE BeginInstall
  BY <1>1 DEF BeginInstall
<1>2. CASE Worker
  BY <1>2, PackageWorker
<1>3. CASE TimerThread
  BY <1>3 DEF OwnInv, ManagerInv, TimerThread, SelfTCUUpdateCancel, otaVars, workerVars
<1>4. CASE DeliverEvent
  BY <1>4 DEF DeliverEvent, workerVars
<1>5. CASE Manager
  BY <1>5 DEF OwnInv, ManagerInv, NoneOf, Manager, OtaStep, OtaBegins, OtaUpdateEnds, OtaSyncEnds,
              OtaTypeTurnsInvalid, workerVars
<1>6. CASE Restart
  BY <1>6 DEF Restart
<1>7. CASE UNCHANGED vars
  BY <1>7 DEF vars, otaVars
<1>. QED BY <1>1, <1>2, <1>3, <1>4, <1>5, <1>6, <1>7 DEF Next

WatchFaults == {"slow_begin", "type_turns_invalid", "timer_add", "tick_race"}

AllReported ==
    \A p \in Packages : ZipMissing(p.type, p.files) \/ FailureReported(p.type, p.files)

LEMMA WatchWorker ==
    ASSUME NoneOf(WatchFaults), AllReported, TypeOK, PackageInv, WatchInv, Worker
    PROVE  WatchInv'
<1>. USE DEF WatchInv, WaitWatched, WatchedBy, NoneOf, WatchFaults,
             Goto, EnterSyncLoop, Return, Fail, timerVars, NoTimer, Ticks
<1>a. armed \in {"sync", "update", NoTimer}
  BY DEF TypeOK, TimerTypeOK, Timers
<1>b. ASSUME NEW kind \in Timers, DiagTimerAdd(kind), armed = NoTimer
      PROVE  armed' = kind /\ leaked' = leaked
  BY <1>b DEF DiagTimerAdd, LeakTimer
<1>c. "sync" \in Timers /\ "update" \in Timers
  BY DEF Timers
<1>1. CASE Entry
  BY <1>1 DEF Entry
<1>2. CASE EntrySwitch
  BY <1>2 DEF EntrySwitch, FailAndClean
<1>3. CASE Version
  BY <1>3 DEF Version
<1>4. CASE Pending
  BY <1>a, <1>b, <1>c, <1>4 DEF Pending, StartTimer, InitiateTimer
<1>5. CASE Package
  BY <1>5 DEF Package, FailAndClean
<1>6. CASE Presync
  BY <1>6 DEF Presync, Flags, InitiateTimer
<1>7. CASE PresyncCall
  <2>1. armed = NoTimer
    BY <1>a, <1>7 DEF PresyncCall
  <2>2. CASE DiagTimerAdd("sync") /\ EnterSyncLoop("presync")
    BY <1>b, <1>c, <1>7, <2>1, <2>2 DEF PresyncCall, Flags
  <2>3. CASE Fail /\ UNCHANGED <<armed, leaked>>
    BY <1>7, <2>1, <2>3 DEF PresyncCall, Flags
  <2>. QED BY <1>7, <2>2, <2>3 DEF PresyncCall, FailAndClean
<1>8. CASE SyncWait
  BY <1>8 DEF SyncWait, ClearTimer, ClearsLeaked
<1>9. CASE SyncDone
  BY <1>9 DEF SyncDone, FailAndClean, SyncTimesOut, SyncFails, SyncSucceeds, ClearTimer, ClearsLeaked
<1>10. CASE Start
  BY <1>10 DEF Start, FailAndClean
<1>11. CASE StartPoll
  BY <1>11 DEF StartPoll, FailAndClean
<1>12. CASE ArmUpdate
  BY <1>a, <1>b, <1>c, <1>12 DEF ArmUpdate, StartTimer, InitiateTimer
<1>13. CASE UpdateWait
  BY <1>13 DEF UpdateWait
<1>14. CASE UpdateSleep
  BY <1>14 DEF UpdateSleep, FailAndClean, UpdateFailed, IocFailed, PackageInv, FromPackage, AllReported, FoundInvalid, FoundFailed, FoundComplete, FoundIocFailed, ClearTimer, ClearsLeaked, AbandonTimer, LeakTimer
<1>15. CASE IocSync
  BY <1>a, <1>b, <1>c, <1>15 DEF IocSync, StartTimer, InitiateTimer
<1>16. CASE MissingSync
  <2>1. armed = NoTimer
    BY <1>a, <1>16 DEF MissingSync
  <2>2. CASE StartTimer("sync") /\ EnterSyncLoop("missing")
    BY <1>b, <1>c, <2>1, <2>2 DEF StartTimer, InitiateTimer
  <2>3. CASE Fail /\ UNCHANGED timerVars
    BY <2>1, <2>3
  <2>. QED BY <1>16, <2>2, <2>3 DEF MissingSync, FailAndClean
<1>17. CASE UpdateDone
  BY <1>17 DEF UpdateDone, FailAndClean, ClearTimer, ClearsLeaked
<1>18. CASE Switch
  BY <1>18 DEF Switch, FailAndClean
<1>. QED
  BY <1>1, <1>2, <1>3, <1>4, <1>5, <1>6, <1>7, <1>8, <1>9, <1>10, <1>11, <1>12,
     <1>13, <1>14, <1>15, <1>16, <1>17, <1>18 DEF Worker

\* With no timer leaked and no callback torn apart, the timer thread counts the
\* timer of the wait down, or is past its expiry.
LEMMA WatchTimer ==
    ASSUME NoneOf(WatchFaults), TypeOK, WatchInv, TimerThread
    PROVE  /\ WatchInv'
           /\ callback'.at = "cancel" /\ callback.at # "cancel"
              => armed = "update" /\ pc \in Updating
<1>. USE DEF WatchInv, WaitWatched, WatchedBy, NoneOf, WatchFaults, At, IdleCallback, NoTimer
<1>1. UNCHANGED <<pc, site>> /\ timerCount \in 0..Ticks /\ armed \in {"sync", "update", NoTimer}
  BY DEF TimerThread, workerVars, TypeOK, TimerTypeOK, Timers
<1>2. CASE TimerTick
  <2>1. CASE armed = "update"
    BY <1>1, <1>2, <2>1 DEF TimerTick, Expire, Flags, Updating, Ticks
  <2>2. CASE armed = "sync"
    BY <1>1, <1>2, <2>2 DEF TimerTick, Expire, RaiseFlag, Flags, Ticks
  <2>. QED BY <1>1, <1>2, <2>1, <2>2 DEF TimerTick
<1>3. ~LeakedTick /\ ~TickLoads /\ ~TickStores
  BY DEF LeakedTick, NoneLeaked, TickLoads, TickStores
<1>4. CASE CancelReturns
  BY <1>1, <1>4 DEF CancelReturns, Flags
<1>5. CASE FlagExpiry
  BY <1>1, <1>5 DEF FlagExpiry, RaiseFlag
<1>. QED BY <1>2, <1>3, <1>4, <1>5 DEF TimerThread

LEMMA WatchNext ==
    ASSUME NoneOf(WatchFaults), AllReported, TypeOK, PackageInv, WatchInv, [Next]_vars
    PROVE  /\ WatchInv'
           /\ callback'.at = "cancel" /\ callback.at # "cancel"
              => armed = "update" /\ pc \in Updating
<1>1. ASSUME UNCHANGED timerVars,
             UNCHANGED pc \/ (pc' = "entry" /\ pc = "idle")
      PROVE  WatchInv' /\ callback' = callback
  BY <1>1 DEF WatchInv, WaitWatched, WatchedBy, timerVars
<1>2. CASE BeginInstall
  BY <1>1, <1>2 DEF BeginInstall
<1>3. CASE Worker
  <2>1. WatchInv'
    BY <1>3, WatchWorker
  <2>2. UNCHANGED callback
    BY <1>3, WorkerShape DEF Times, timerVars, AbandonTimer, StartTimer, ClearTimer
  <2>. QED BY <2>1, <2>2
<1>4. CASE TimerThread
  BY <1>4, WatchTimer
<1>5. CASE DeliverEvent \/ Manager
  <2>1. timerVars' = timerVars /\ pc' = pc
    BY <1>5 DEF DeliverEvent, Manager, workerVars
  <2>. QED BY <1>1, <2>1
<1>6. CASE Restart
  BY <1>6 DEF Restart, TimerRestarts, WatchInv, WaitWatched, IdleCallback, NoTimer, NoneLeaked
<1>7. CASE UNCHANGED vars
  <2>1. timerVars' = timerVars /\ pc' = pc
    BY <1>7 DEF vars
  <2>. QED BY <1>1, <2>1
<1>. QED BY <1>2, <1>3, <1>4, <1>5, <1>6, <1>7 DEF Next

\* The whole strengthening.
InstallInv == TypeOK /\ OwnInv /\ PackageInv /\ WatchInv

LEMMA InstallInvInit == Init => InstallInv
<1>. SUFFICES ASSUME Init PROVE InstallInv
  OBVIOUS
<1>1. OwnInv /\ PackageInv
  BY DEF Init, OtaInit, OwnInv, ManagerInv, StartOnlySynchronized, SwitchOwnUpdate, AfterStart, PackageInv
<1>2. WatchInv
  BY DEF Init, TimerInit, WatchInv, WaitWatched, NoTimer
<1>. QED BY InitType, <1>1, <1>2 DEF InstallInv

LEMMA InstallInvNext ==
    ASSUME NoneOf(WatchFaults), AllReported, InstallInv, [Next]_vars
    PROVE  InstallInv'
<1>1. "slow_begin" \notin Faults /\ NoneOf({"slow_begin", "type_turns_invalid"})
  BY DEF NoneOf, WatchFaults
<1>. QED BY <1>1, NextType, OwnNext, PackageNext, WatchNext DEF InstallInv

\* No wait of the handler is ever left without a timer that will end it, when every
\* package is one whose failure the code reports.
THEOREM WaitsAreWatched ==
    ASSUME NoneOf(WatchFaults), AllReported
    PROVE  Spec => []WaitWatched
<1>1. InstallInv => WaitWatched
  BY DEF InstallInv, WatchInv
<1>. QED BY InstallInvInit, InstallInvNext, <1>1, PTL DEF Spec

\* An update is only cancelled by the expiry of the timer of its own install.
THEOREM CancelsOwnUpdate ==
    ASSUME NoneOf(WatchFaults), AllReported
    PROVE  Spec => CancelOnlyAfterOwnTimer
<1>1. InstallInv /\ [Next]_vars
      => [callback'.at = "cancel" /\ callback.at # "cancel"
            => armed = "update" /\ pc \in Updating]_vars
  BY WatchNext DEF InstallInv
<1>. QED BY InstallInvInit, InstallInvNext, <1>1, PTL DEF Spec, CancelOnlyAfterOwnTimer
=============================================================================
