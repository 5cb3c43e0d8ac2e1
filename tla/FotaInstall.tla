---------------------------- MODULE FotaInstall ----------------------------
(***************************************************************************)
(* The TCU branch of do_tcu_install (tmpl_updateagent.cpp:849-1357): one   *)
(* worker of libua installs an update package on the inactive partition    *)
(* and switches to it.  Beside it run the OTA manager (OtaManager), the    *)
(* timer thread (TmlTimer), the bus thread that delivers the percentage    *)
(* events, and a power loss or reboot at any moment.                       *)
(*                                                                         *)
(* pc names the point of the handler the worker is at: one step for the    *)
(* code between two of its remote calls, waits or sleeps.                  *)
(***************************************************************************)
EXTENDS OtaManager, TmlTimer

CONSTANTS
    MaxInstalls,    \* bound on the calls of the handler
    MaxRestarts     \* bound on the restarts

ASSUME BoundsAssumption == MaxInstalls \in Nat /\ MaxRestarts \in Nat

VARIABLES
    pc, site,       \* the worker's place; the wait for a sync it is in
    installs,       \* the number of the install under way or last done
    restarts,       \* the restarts so far
    result,         \* what the last install returned
    seen,           \* perc and state, the locals of the update loop
    percentage,     \* percentage (tcu_updateagent.cpp:48), set by the events
    subscribed,     \* subscribe_ota_event() has been called
    switchFile,     \* <cache>/backup/SWITCH_FILE exists
    rollbackInfo    \* <cache>/tmp/ROLLBACK_INFO exists

busVars == <<percentage, subscribed>>
diskVars == <<switchFile, rollbackInfo>>
vars == <<otaVars, timerVars, pc, site, installs, restarts, result, seen, busVars, diskVars>>

Points == {"idle", "entry", "entry_switch", "version", "pending", "package",
           "presync", "presync_call", "sync_wait", "sync_done", "start",
           "start_poll", "arm_update", "update_wait", "update_sleep",
           "ioc_sync", "missing_sync", "update_done", "switch"}

\* The four loops that wait for a synchronisation, in the order of the code.
Sites == {"pending", "presync", "ioc", "missing"}
NoSite == "none"
NoPoll == [perc |-> 0, state |-> "IDLE"]

\* The type invariant: every variable of the composition keeps its type.
TypeOK ==
    /\ OtaTypeOK
    /\ TimerTypeOK
    /\ pc \in Points
    /\ site \in Sites \cup {NoSite}
    /\ installs \in Nat
    /\ restarts \in Nat
    /\ result \in {"NONE", "INSTALL_FAILED", "INSTALL_IN_PROGRESS"}
    /\ seen \in [perc : Percents, state : OtaStates]
    /\ percentage \in Percents
    /\ subscribed \in BOOLEAN
    /\ switchFile \in BOOLEAN
    /\ rollbackInfo \in BOOLEAN

Init ==
    /\ OtaInit
    /\ TimerInit
    /\ pc = "idle" /\ site = NoSite
    /\ installs = 0 /\ restarts = 0
    /\ result = "NONE"
    /\ seen = NoPoll
    /\ percentage = 0 /\ subscribed = FALSE
    /\ switchFile = FALSE
    /\ rollbackInfo \in BOOLEAN

-----------------------------------------------------------------------------
(* Control of the worker.                                                  *)

Goto(point) == pc' = point /\ UNCHANGED <<site, installs, result, seen>>

EnterSyncLoop(s) ==
    /\ pc' = "sync_wait" /\ site' = s
    /\ UNCHANGED <<installs, result, seen>>

Return(r) ==
    /\ pc' = "idle" /\ site' = NoSite /\ seen' = NoPoll
    /\ result' = r
    /\ UNCHANGED installs

Fail == Return("INSTALL_FAILED")

\* remove_cache_dir takes ROLLBACK_INFO with it.
RemoveCacheDir == rollbackInfo' = FALSE /\ UNCHANGED switchFile

FailAndClean == Fail /\ RemoveCacheDir

\* libua calls the handler again once the last call has failed; after
\* INSTALL_IN_PROGRESS it waits for the reboot.
BeginInstall ==
    /\ pc = "idle" /\ result # "INSTALL_IN_PROGRESS"
    /\ installs < MaxInstalls
    /\ installs' = installs + 1
    /\ pc' = "entry" /\ result' = "NONE"
    /\ UNCHANGED <<otaVars, timerVars, site, restarts, seen, busVars, diskVars>>

-----------------------------------------------------------------------------
(* From the entry of the handler to the package in the flash directory.    *)

\* Mutant: the switch is called without its record.
EntryWithoutRecord ==
    /\ pc = "entry"
    /\ \/ otaState = "UPDATE_COMPLETE_SWITCH_PENDING" /\ Goto("entry_switch")
       \/ otaState # "UPDATE_COMPLETE_SWITCH_PENDING" /\ Goto("version")
    /\ UNCHANGED <<otaVars, timerVars, restarts, busVars, diskVars>>

\* The result of store_package_info is not looked at.
Entry ==
    /\ pc = "entry"
    /\ \/ /\ otaState = "UPDATE_COMPLETE_SWITCH_PENDING"
          /\ \/ switchFile' = TRUE
             \/ "store_fails" \in Faults /\ UNCHANGED switchFile
          /\ Goto("entry_switch")
       \/ /\ otaState # "UPDATE_COMPLETE_SWITCH_PENDING"
          /\ UNCHANGED switchFile
          /\ Goto("version")
    /\ UNCHANGED <<otaVars, timerVars, restarts, busVars, rollbackInfo>>

\* The record stays when the switch is refused.
EntrySwitch ==
    /\ pc = "entry_switch"
    /\ \/ SwitchPartition(TRUE) /\ Goto("version") /\ UNCHANGED diskVars
       \/ SwitchPartition(FALSE) /\ FailAndClean
    /\ UNCHANGED <<timerVars, restarts, busVars>>

\* readTOSVersion repeats its call until the system manager answers, and nothing
\* checks before that there is one: the worker may stay here for ever.
Version ==
    /\ pc = "version"
    /\ Goto("pending") \/ Fail
    /\ UNCHANGED <<otaVars, timerVars, restarts, busVars, diskVars>>

Pending ==
    /\ pc = "pending"
    /\ \/ /\ otaState = "ACTIVE_SYSTEM_SWITCHED_SYNC_PENDING"
          /\ \E ok \in BOOLEAN : SynchronizePartition(ok)
          /\ StartTimer("sync")
          /\ EnterSyncLoop("pending")
       \/ /\ otaState # "ACTIVE_SYSTEM_SWITCHED_SYNC_PENDING"
          /\ Goto("package")
          /\ UNCHANGED <<otaVars, timerVars>>
    /\ UNCHANGED <<restarts, busVars, diskVars>>

\* A package that is missing, does not unzip or holds no DeltaPackage.zip
\* fails.  Otherwise what an older update left in the flash directory goes.
\* When the move fails the code goes on with the switch.
Package ==
    /\ pc = "package"
    /\ \/ FailAndClean /\ UNCHANGED otaFiles
       \/ /\ \/ Goto("presync")
             \/ "mv_fails" \in Faults /\ Goto("switch")
          /\ otaFiles' = {}
          /\ RemoveCacheDir
    /\ UNCHANGED <<otaState, otaExit, otaType, otaJob, otaFor, event,
                   timerVars, restarts, busVars>>

\* Synchronise first, unless the last update found no package.
MustSync ==
    /\ otaExit # "E_UPDATE_PACKAGE_NOEXIST"
    /\ otaState # "SUCCEEDED_SYNCHRONIZED"

Presync ==
    /\ pc = "presync"
    /\ \/ MustSync /\ Goto("presync_call") /\ InitiateTimer
       \/ /\ ~MustSync /\ Goto("start")
          /\ UNCHANGED <<timerCount, Flags>>
    /\ UNCHANGED <<otaVars, armed, leaked, callback, restarts, busVars, diskVars>>

PresyncCall ==
    /\ pc = "presync_call"
    /\ \/ /\ SynchronizePartition(TRUE)
          /\ DiagTimerAdd("sync")
          /\ EnterSyncLoop("presync")
          /\ UNCHANGED diskVars
       \/ SynchronizePartition(FALSE) /\ FailAndClean /\ UNCHANGED <<armed, leaked>>
    /\ UNCHANGED <<timerCount, Flags, callback, restarts, busVars>>

-----------------------------------------------------------------------------
(* The four copies of the synchronisation loop.                            *)

SyncEnded == otaState \in {"SUCCEEDED_SYNCHRONIZED", "FAILED"}

SyncWait ==
    /\ pc = "sync_wait"
    /\ \/ isSyncTimerExpired /\ UNCHANGED timerVars
       \/ ~isSyncTimerExpired /\ SyncEnded /\ ClearTimer("sync")
    /\ Goto("sync_done")
    /\ UNCHANGED <<otaVars, restarts, busVars, diskVars>>

SyncTimesOut ==
    /\ isSyncTimerExpired /\ ~SyncEnded
    /\ ClearTimer("sync")
    /\ FailAndClean

SyncFails ==
    /\ otaState = "FAILED"
    /\ IF site = "pending" THEN Fail /\ UNCHANGED diskVars ELSE FailAndClean
    /\ UNCHANGED timerVars

\* Mutant: the end of the loop is taken for success whatever the state.
SyncSucceedsUnchecked ==
    /\ \/ site = "pending" /\ Goto("package") /\ UNCHANGED diskVars
       \/ site = "presync" /\ Goto("start") /\ UNCHANGED diskVars
       \/ site = "ioc" /\ Fail /\ UNCHANGED diskVars
       \/ site = "missing" /\ FailAndClean
    /\ UNCHANGED timerVars

\* The waits before the update go on, those after a failed update report it.
SyncSucceeds ==
    /\ otaState # "FAILED" /\ (isSyncTimerExpired => SyncEnded)
    /\ \/ site = "pending" /\ Goto("package") /\ UNCHANGED diskVars
       \/ site = "presync" /\ Goto("start") /\ UNCHANGED diskVars
       \/ site = "ioc" /\ Fail /\ UNCHANGED diskVars
       \/ site = "missing" /\ FailAndClean
    /\ UNCHANGED timerVars

SyncDone ==
    /\ pc = "sync_done"
    /\ SyncTimesOut \/ SyncFails \/ SyncSucceeds
    /\ UNCHANGED <<otaVars, restarts, busVars>>

-----------------------------------------------------------------------------
(* The update and the switch.                                              *)

\* tcu_StartFotaUpdate: the call, and the poll that follows it.
Start ==
    /\ pc = "start"
    /\ \/ SelfTCUUpdate(installs, TRUE) /\ Goto("start_poll") /\ UNCHANGED diskVars
       \/ SelfTCUUpdate(installs, FALSE) /\ FailAndClean
    /\ UNCHANGED <<timerVars, restarts, busVars>>

StartAccepted == otaType # "INVALID_UPDATE_TYPE" /\ otaExit = "E_NO_ERROR"

StartPoll ==
    /\ pc = "start_poll"
    /\ \/ StartAccepted /\ Goto("arm_update") /\ UNCHANGED diskVars
       \/ ~StartAccepted /\ FailAndClean
    /\ UNCHANGED <<otaVars, timerVars, restarts, busVars>>

ArmUpdate ==
    /\ pc = "arm_update"
    /\ StartTimer("update")
    /\ subscribed' = TRUE
    /\ Goto("update_wait")
    /\ UNCHANGED <<otaVars, restarts, percentage, diskVars>>

UpdateWait ==
    /\ pc = "update_wait"
    /\ \/ isUpdateTimerExpired /\ Goto("update_done")
       \/ /\ ~isUpdateTimerExpired
          /\ seen' = [perc |-> percentage, state |-> otaState]
          /\ pc' = "update_sleep"
          /\ UNCHANGED <<site, installs, result>>
    /\ UNCHANGED <<otaVars, timerVars, restarts, busVars, diskVars>>

\* Mutant: the percentage alone ends the update.
FoundFullPercentage == seen.perc = 100

\* What the loop finds after its sleep, in the order of its tests.  The state
\* is polled again, but IOC_FAILED is looked for in the poll before the sleep.
FoundComplete == otaState = "UPDATE_COMPLETE_SWITCH_PENDING" /\ seen.perc = 100
FoundIocFailed == ~FoundComplete /\ seen.state = "UPDATE_IOC_FAILED"
FoundFailed == ~FoundComplete /\ ~FoundIocFailed /\ otaState = "FAILED"
FoundInvalid == /\ ~FoundComplete /\ ~FoundIocFailed /\ ~FoundFailed
                /\ otaType = "INVALID_UPDATE_TYPE"

\* The branches of a FAILED update.  error_state is NULL here, so the second
\* never synchronises, and the fourth compares the state with an exit code.
ZipMissing(type, files) ==
    "update.zip" \notin files /\ type \in {"NAD_ONLY", "NAD_IOC"}
ZipPresent(type, files) ==
    "update.zip" \in files /\ type # "INVALID_UPDATE_TYPE"
SwdlMissing(type, files) ==
    "IOC_SWDL" \notin files /\ type \in {"IOC_ONLY", "NAD_IOC"}

FailureReported(type, files) ==
    ZipPresent(type, files) \/ (~ZipMissing(type, files) /\ SwdlMissing(type, files))

UpdateFailed ==
    /\ FoundFailed
    /\ ClearTimer("update")
    /\ \/ ZipMissing(otaType, otaFiles) /\ Goto("missing_sync") /\ UNCHANGED diskVars
       \/ FailureReported(otaType, otaFiles) /\ FailAndClean
       \/ /\ ~ZipMissing(otaType, otaFiles) /\ ~FailureReported(otaType, otaFiles)
          /\ Goto("update_wait") /\ UNCHANGED diskVars

IocFailed ==
    /\ FoundIocFailed
    /\ ClearTimer("update")
    /\ \/ otaType = "NAD_IOC" /\ Goto("ioc_sync")
       \/ otaType # "NAD_IOC" /\ Fail
    /\ UNCHANGED diskVars

UpdateSleep ==
    /\ pc = "update_sleep"
    /\ \/ FoundComplete /\ ClearTimer("update") /\ Goto("update_done") /\ UNCHANGED diskVars
       \/ IocFailed
       \/ UpdateFailed
       \/ FoundInvalid /\ AbandonTimer /\ FailAndClean
       \/ /\ ~FoundComplete /\ ~FoundIocFailed /\ ~FoundFailed /\ ~FoundInvalid
          /\ Goto("update_wait") /\ UNCHANGED <<timerVars, diskVars>>
    /\ UNCHANGED <<otaVars, restarts, busVars>>

IocSync ==
    /\ pc = "ioc_sync"
    /\ \E ok \in BOOLEAN : SynchronizePartition(ok)
    /\ StartTimer("sync")
    /\ EnterSyncLoop("ioc")
    /\ UNCHANGED <<restarts, busVars, diskVars>>

MissingSync ==
    /\ pc = "missing_sync"
    /\ \/ /\ SynchronizePartition(TRUE)
          /\ StartTimer("sync")
          /\ EnterSyncLoop("missing")
          /\ UNCHANGED diskVars
       \/ SynchronizePartition(FALSE) /\ FailAndClean /\ UNCHANGED timerVars
    /\ UNCHANGED <<restarts, busVars>>

UpdateDone ==
    /\ pc = "update_done"
    /\ \/ isUpdateTimerExpired /\ ClearTimer("update") /\ FailAndClean
       \/ /\ ~isUpdateTimerExpired /\ Goto("switch")
          /\ UNCHANGED <<timerVars, diskVars>>
    /\ UNCHANGED <<otaVars, restarts, busVars>>

Switch ==
    /\ pc = "switch"
    /\ \/ SwitchPartition(TRUE) /\ Return("INSTALL_IN_PROGRESS") /\ UNCHANGED diskVars
       \/ SwitchPartition(FALSE) /\ FailAndClean
    /\ UNCHANGED <<timerVars, restarts, busVars>>

Worker ==
    \/ Entry \/ EntrySwitch \/ Version \/ Pending \/ Package \/ Presync \/ PresyncCall
    \/ SyncWait \/ SyncDone
    \/ Start \/ StartPoll \/ ArmUpdate \/ UpdateWait \/ UpdateSleep
    \/ IocSync \/ MissingSync \/ UpdateDone \/ Switch

-----------------------------------------------------------------------------
(* The other threads, the manager and the power supply.                    *)

workerVars == <<pc, site, installs, restarts, result, seen, diskVars>>

TimerThread ==
    /\ \/ /\ TimerTick \/ LeakedTick \/ TickLoads \/ TickStores \/ FlagExpiry
          /\ UNCHANGED otaVars
       \/ CancelReturns /\ SelfTCUUpdateCancel
    /\ UNCHANGED <<workerVars, busVars>>

\* The handler of the OtaState event.
DeliverEvent ==
    /\ subscribed /\ percentage' \in event
    /\ event' = {}
    /\ UNCHANGED <<otaState, otaExit, otaType, otaFiles, otaJob, otaFor, timerVars,
                   workerVars, subscribed>>

Manager == OtaStep(subscribed) /\ UNCHANGED <<timerVars, workerVars, busVars>>

\* The agent and the manager go down and come up; the files stay.
Restart ==
    /\ restarts < MaxRestarts
    /\ restarts' = restarts + 1
    /\ OtaRestarts /\ TimerRestarts
    /\ pc' = "idle" /\ site' = NoSite /\ seen' = NoPoll /\ result' = "NONE"
    /\ percentage' = 0 /\ subscribed' = FALSE
    /\ UNCHANGED <<installs, diskVars>>

Next == BeginInstall \/ Worker \/ TimerThread \/ DeliverEvent \/ Manager \/ Restart

\* The worker and the timer thread are threads of a preemptive scheduler.
\* Nothing obliges the manager, the bus, libua or the power supply to act, nor
\* the system manager to answer readTOSVersion, which asks it without limit.
Fairness == WF_vars(Worker /\ pc # "version") /\ WF_vars(TimerThread)

Spec == Init /\ [][Next]_vars /\ Fairness

-----------------------------------------------------------------------------
(* Properties.                                                             *)

Updating == {"update_wait", "update_sleep", "update_done"}

\* An update is only started on synchronised partitions, or after an update
\* that found no package and so wrote none: whatever the manager did during
\* the waits of tmpl_updateagent.cpp:899-943 and 1005-1073.
StartOnlySynchronized ==
    pc = "start" => \/ otaState = "SUCCEEDED_SYNCHRONIZED"
                    \/ otaExit = "E_UPDATE_PACKAGE_NOEXIST"

\* The switch at tmpl_updateagent.cpp:1327 is only called for a complete update,
\* and for the update this very install started: never on a percentage, a state
\* or a job left by an earlier install.
SwitchOwnUpdate ==
    pc = "switch" => /\ otaState = "UPDATE_COMPLETE_SWITCH_PENDING"
                     /\ otaFor = installs

\* Every wait of the worker is watched: the flag it looks at is up, or a timer
\* that still counts is armed, or the callback that raises it is under way.
WatchedBy(kind, expired) ==
    \/ expired
    \/ armed = kind /\ timerCount > 0
    \/ callback.kind = kind /\ callback.at \in {"store", "cancel", "flag"}

WaitWatched ==
    /\ pc = "sync_wait" => WatchedBy("sync", isSyncTimerExpired)
    /\ pc \in {"update_wait", "update_sleep"} => WatchedBy("update", isUpdateTimerExpired)

\* The cancel of update_timer_cb is only sent when the update timer of the wait
\* under way runs out, never by a timer that outlived its handler.
CancelOnlyAfterOwnTimer ==
    [][callback'.at = "cancel" /\ callback.at # "cancel"
        => armed = "update" /\ pc \in Updating]_vars

\* When the switch takes the agent down there is something to resume from: the
\* record of tmpl_updateagent.cpp:859 or the result INSTALL_IN_PROGRESS.
SwitchAccounted ==
    otaJob = "switch" => switchFile \/ result = "INSTALL_IN_PROGRESS"

\* Every call of the handler returns, whatever the OTA manager does: each wait
\* for it has a timer (-U and -s of main_updateagent.cpp:55-56).  The wait for the
\* version (tcu_updateagent.cpp:456-464) has none, and must be over some time.
InstallReturns == []<>(pc # "version") => (pc # "idle" ~> pc = "idle")
=============================================================================
