# Verification of the TCU update agent

The program is the eSync update agent of a telematics control unit (`src/src`). It runs as a handler
of libua, installs four kinds of packages by driving vendor services over CommonAPI, reports versions, answers
diagnostics requests, and must come out right whatever those services, its timers and the power supply do. This directory
holds TLA+ models of its core, the TLC instances that check them, and TLAPS proofs about them.

Paths below: T = `src/src/tmpl_updateagent.cpp`, C = `src/src/tcu_updateagent.cpp`,
U = `src/src/util.cpp`, M = `src/src/main_updateagent.cpp`. `PROJECT.json` maps every definition to its lines.

## 1. Inventory of the system

| Component | State | Operations | Talks to | What is hard | What makes it correct |
|---|---|---|---|---|---|
| FOTA install, `do_tcu_install` branch `/TML/TCU/TCU` (T:849-1357) | place in the handler, `percentage`, the records on disk | synchronise, start, wait for, switch to an update | OTA manager (calls, polls, event), timer thread, libua | 5 polled waits, state shared with two threads, stale state between installs, reboots in the middle | starts on synchronised partitions only; switches only for its own, complete update; every wait ends; a switch leaves something to resume from |
| Wait timers (T:63-65, 796-847) | `timer_count`, two flags, the timer on the stack | `initiate_timer`, `clear_timer`, two callbacks | diag timer library, OTA manager (cancel) | no lock; a remote call inside a callback | every wait is watched; only the wait's own timer cancels or times out |
| OTA manager proxy, FOTA calls (C:523-690) | state, exit code, update type of the manager | `selfTCUUpdate`, synchronise, switch, cancel, polls | external manager | `callSTATUS` is never read, replies default to "no error" | - (external; everything above must hold against it) |
| FOTA resume, `do_resume_from_reboot` (T:1761-2022) | `SWITCH_FILE`, `ROLLBACK_INFO`, `update.rec`, both partitions | compare versions, confirm, roll back | OTA manager, system manager, libua | the procedure spans several boots; files survive the update they belong to | rolls back to what ran before; confirms what runs; takes the deployed version down only for a record or for want of a version |
| ECU inventory, `/TML/TCU/ECUI` (T:138-342, 1522-1552, U:112-138) | inventory, temporary and backup files, `inventory_file_location` | boot synchronisation, install, post-install | file system, UDS agent | power failures inside the replacement, failing file operations | the old or the new inventory, never a torn one; a refused one changes nothing; the OEM inventory is followed |
| COTA (T:428-521, 576-606, 1446-1521, 2100-2170, C:385-438, 803-892) | status file | version query, install, completion | configuration manager, message thread | the status file and a static buffer are shared by two threads, and the file outlives the process; answers get lost | completed means applied; a completion is told once |
| Containers (T:395-426, 607-636, 675-794, 1358-1445, C:358-383, 483-516) | parsed package details in globals, unzipped directory | version query, install | container manager | globals and directory outlive the install that wrote them | a request describes its own package; completed means installed |
| Current report and messages (T:1674-1759, 2039-2063, 2172-2264) | `send_current_report_flag`, `REC_FILE` | report, dispatch of messages | libua, OEM server, system manager | two callbacks test, set and reset a flag without a lock | reports are never shut off |
| Diagnostics (T:2065-2098, 2178-2251, C:723-801) | the request under way | wait, call, answer | self-diagnostic manager | a wait without a limit on the message thread | every callback returns once its service stays |
| Proxy initialisation (C:106-356) | four proxies | build, wait for availability | CommonAPI | waits with and without limit | the start-up ends |
| Version queries (T:173-187, 524-653, C:441-481) | - | dispatch by type, `readTOSVersion`, `compare_versions` | system manager | loops without a limit | end, and give the right order |
| Start-up and options (M, T:2281-2347) | paths, handle | parse, register, synchronise | libua | callbacks before the paths are set | ends with or without the services |
| Utilities (U) | - | copy, remove, MD5, commands | file system | - | - |

The generated CommonAPI code (`src/cont`, `src/cota`, `src/sdm`, `src/sm`) holds no logic of this program: its
synchronous calls and the defaults of its enumerations are modelled where the agent uses them. `utlist.h` and
`json-c-rename.h` are left aside. `PROJECT.json` lists the hazards at their lines.

## 2. Modules

```
FotaFaults            the kinds of fault, CONSTANT Faults
  OtaManager          external manager: calls, its own steps, restart
  TmlTimer            worker's and timer thread's use of the timers
    FotaInstall       the handler; composes both, with events and restarts
      FotaInstallProofs
      MCFotaInstall
      FotaResume      resume after reboot, two partitions, libua's record
        MCFotaResume
        FotaResumeProofs
          FotaLifeProofs    the install and the resume beside each other
UpdateContract        what the FOTA path promises; FotaResume INSTANCEs it
DurableInventory      what the inventory's install promises; Inventory INSTANCEs it
Inventory             ECU inventory on a file system with power failures
  InventoryProofs
  MCInventory
VersionCompare        compare_versions, turn by turn
  VersionCompareProofs
  MCVersionCompare
Services              the vendor services as the proxies see them
  StartUp             main thread: waits, registration, paths
  CurrentReport       the report and its flag, readTOSVersion
    Agent             all threads of the process; diagnostics
      AgentProofs
      MCAgent
Cota                  configuration updates and their completion
Container             container updates and their globals
  Handlers            both under libua's one worker, with restarts
    HandlersProofs
    MCHandlers
```

**OtaManager.** `otaState`, `otaExit`, `otaType` are what the agent polls (C:618-644); `otaJob` and `otaFor` are
the job the manager really has and the install that asked for it. A call is an operator used in the caller's
step: it is taken, refused, or - fault `call_lost` - fails with a reply that reads `E_NO_ERROR`. The comparison
of `toString()` results with literals by address (C:550-562), which lets a refusal pass, is the same
fault for the caller. A job ends in any way at any time, or never. Two of the agent's states
(`IDLE`, `IN_PROGRESS`) stand for all that no line of the agent names.

**TmlTimer.** `timerCount` and the flags are the globals; `armed` is the timer of the wait under way, `leaked`
those left in the library by code that went on (it counts with the same global). `callback` is the place of the
timer thread: its decrement is atomic unless `tick_race` tears it apart, its cancel is always a step of its own
between the deletion of the timer and the flag (T:799-804). A timer expires at its second callback
(`count_ = 2`).

**FotaInstall.** `pc` is the worker's place; an action is the code between two remote calls, sleeps or
waits. `sync_wait`/`sync_done` with `site` are the four copies of the synchronisation loop (T:910-943,
1036-1074, 1128-1164, 1184-1234), whose ends differ as the code's do. `update_wait`/`update_sleep` are the two
halves of the update loop: `seen` holds what was polled before its sleep, because T:1116 tests that and T:1111,
1170 poll again. `switchFile` and `rollbackInfo` are the two records. `version`
is the one wait without a timer: `readTOSVersion` repeats its call until the system manager answers (C:456-464), and
no fairness moves the worker on from there.

**FotaResume.** Adds the partitions (`running`, `standby`), libua's record (`recFile`, `original`), and the resume
as a second program counter `resumePc`; the two removals and the switch of T:1851-1854 are three steps, between which the
device may restart. A restart after an accepted switch swaps the partitions; a
job broken off, by a restart or by the timer's cancel, leaves the other partition broken, and a switch
to a broken partition falls back.

**UpdateContract.** The abstract update: `phase` is none, open, failed or confirmed, `runs` the version that
runs, `switching` whether a switch is requested. What runs changes only when the device goes down after a switch
that was requested while an update was open, and only the deployed version is confirmed. FotaResume instantiates
it with `phase <- Phase` (libua's record, the resume and its verdict), `runs <- running` and
`switching <- (otaJob = "switch")`; timers, files and the other states of the manager disappear.

**Inventory.** `file` gives the content of each path: a version, absent, or broken (does not parse). `unsynced`
are the files a power failure may tear, `replaced` what a rename not yet on the medium may bring back. A copy is a
truncation and a fill (U:112-138), which may leave a torn file with an error (fault `copy`) or, as a read error and
a failed `fclose` are not looked at, without one (`short_copy`); the result of the restoring copy (T:336) is not
looked at either. `location` is `inventory_file_location`.

**DurableInventory.** The abstract install: one inventory is in use, it is replaced as a whole, a power failure may
take back the replacement still on its way to the medium and nothing else, and complete is reported only of the
inventory in use once nothing can take it back. Inventory instantiates it with `inUse <- InUse` (the OEM file when
there is one, else the data file: what the start-up makes of them), `undo <- replaced` and `complete <- Reported`;
the temporary and the backup file, the torn contents and the places in the code disappear.

**VersionCompare.** Two strings of numbers, dots and other characters; one step is one turn of the loop
(T:175-185). `rest` are the pointers `a` and `b`. The reference is the order of the first parts that differ, a
part being the number between two dots and 0 where there is none.

**Services, StartUp, CurrentReport, Agent.** `up` are the services that are available; they come and go at any
time, and a call fails when its service is away and may fail when it is not. `main` is the place of the main
thread: the waits of C:106-301, `ua_init`, `ua_register`, the paths, the synchronisation. From the registration on,
libua's threads run: `at` is the place of the presence callback, of the message callback and of the worker with a
version query, `left` how many versions a thread still has to read. The flag is tested, set and reset in steps
of their own. A message is an ignition, a diagnostics request (of a known type or not) or a vehicle status.

**Cota, Container, Handlers.** `record` is the `type_handler` in `COTA_STATUS_FILE`; the version query reads it
and writes it in two steps, the completion reads it twice, calls and removes it. `buffer` is the static buffer of
`extractCotaType` (T:453-463): query, install and completion each clear it in one step and fill it in the next, and
whoever fills it beside another may leave what is neither type. The call of an install is made for what the buffer
holds then (`called`); `alone` is a history: no completion wrote the buffer beside this install. A call reaches the manager or
not and its answer comes back or not; without an answer the out parameter is at its default, which both
enumerations give to success. `globals` are T:53-57, `detailsFile` what lies in the unzip directory; a field that
a package lacks keeps its value. Two check sums stand for those of less than 64 characters and the longer ones,
which T:733 cuts. `Handlers` lets the one worker of libua run either kind, with the completion beside it.

## 3. Assumptions of the models

- libua runs one handler at a time, does not call the install again after `INSTALL_IN_PROGRESS` until the
  reboot, runs the resume before any other install, keeps `update.rec` from the start of an install until its
  verdict (T:2319 gives its path), and deploys until an update is confirmed.
- The manager takes a job only when it has none, and resets its exit code with it.
- Nothing is assumed of the system manager: `readTOSVersion` waits for it without a limit, and may never end. In
  FotaResume fault `sm_down` is the check before it that says no (T:1775); the install has no such check (T:880).
- A poll returns what the manager shows: a lost or NULL poll is not modelled.
- The device starts with the manager idle or synchronised and no record of a rollback (`LifeInit`); FotaInstall
  alone starts with any of four states and any record.
- A message to the server, a log line and a progress report change nothing here and are left out.
- The inventory's install begins after the boot synchronisation; Inventory takes versions as an order, which
  `ComparisonIsOrder` justifies for strings of numbers and dots of any length.
- A configuration package carries the file its type names (`<table>.json`), and removing the status file
  succeeds; `told` is what one process did, as the agent keeps nothing of it over a restart.
- A diagnostics message carries a reply-id and the mode `TCU`: T:2076-2086 dereference both unchecked.
- The boot synchronisation of StartUp returns: whether it does is the question of VersionCompare.
- A report that the resume sends (T:1913) is left out of Agent: libua's worker is in a query there.

## 4. Runs

| Run | Instance | Checks | Shows |
|---|---|---|---|
| `fota_waits` | 5 packages, 3 installs, 1 restart, lost calls, failing records and moves; 221k states | `WaitWatched`, `CancelOnlyAfterOwnTimer`, `InstallReturns` | every wait with a limit has a timer of its own that still counts; only that one cancels; the handler returns unless it waits for the version for ever |
| `fota_updates` | 2 installs, 1 restart, also all timer faults and a type that turns invalid; 525k states | `TypeOK`, `StartOnlySynchronized`, `SwitchOwnUpdate`, `SwitchAccounted` | no update on partitions that differ; no switch for a stale 100 % or another install's update; no switch that nobody remembers |
| `fota_hang` | 1 install of an IOC_ONLY package | `InstallReturns`: violated | a failure no branch reports leaves a loop without timer or end |
| `resume_reboots` | 2 packages, any build, 2 installs, 3 restarts, all faults but the timers'; 953k states | `LifeTypeOK`, `RollbackRestores`, `ResumeWaitWatched`, `DeployedTakenDown`, `ResumeEnds`, `ImplementsContract` | the rollback goes back to what ran before, across retries and restarts; the deployed version is taken down only for a `SWITCH_FILE` or for want of a version; the wait of the resume keeps its timer and the resume ends; the whole keeps the contract |
| `inventory_crash` | 3 versions, 3 installs, 2 power failures, failing copy, fsync, rename; 132k states | `InventoryTypeOK`, `OldOrNew`, `ImplementsDurable` | the inventory is the old or the new one; files, copies and synchronisations are one replacement that is kept or taken back |
| `inventory_failures` | every file operation and the check may fail, a copy may come out short, 1 power failure; 323k states | `FailedUpdateKeeps`, `CompletedSurvives` | an update that `update_inventory_file` refuses changes nothing, unless the restoring copy fails as well: then the backup still has the inventory; one reported complete is still there after a power failure |
| `inventory_sync` | no install, no fault | `DataFollowsOem`: violated | the boot synchronisation never replaces an older data inventory |
| `agent` | all threads, 3 services that come and go, both settings of -p; 112k states | `AgentTypeOK`, `FlagHeld`, `StartUpEnds`, `CallbacksReturn` | no order of the callbacks leaves the flag up for good; only `-p 0` makes the boot wait for a service; the two waits without a limit are the only ones |
| `handlers` | 3 types (one unknown), 2 versions, 4 packages, lost calls and answers, restarts; 3110k states | `HandlersTypeOK`, `CotaCompletedMeansApplied`, `RequestDescribesPackage`, `ContCompletedMeansInstalled`, `CompletionOnce` | a lost answer is never a success, and the type updated is that of the install if no completion ran beside it; nothing left in the globals gets into the request of a complete package; a completion is told once |
| `cota_refused` | the same | `AcknowledgedMeansSuccess`: violated | C:877 never reads the answer: a refused completion is taken for acknowledged |
| `cota_buffer` | the same, without symmetry | `CotaUpdateSuccessful`: violated | a completion beside an install rewrites the buffer of its type: another type is updated, and the install is completed |
| `versions` | every two strings of up to 4 tokens over 0, 1, 2, dot, other; 217k states | `VersionsTypeOK`, `CompareRight`, `TurnsAdvance`, `CompareEnds` | on numbers and dots every turn gets on in both strings, and the comparison ends and is right, empty parts and different lengths included |

**Bounds.** A stale flag, percentage, timer or record needs one install to leave it and one to meet it: two
installs, and a third in `fota_waits` so that a timer can outlive one in between. A rollback takes an install, a
restart into the new partition, and a restart back; the third restart interrupts any of them. In the inventory
two power failures hit an install and the start-up after it; three versions are an older, the present and a
newer one. `Ticks` is the code's own 2. Agent has no bound: its state is finite. In Handlers two known types and an
unknown one, two versions, and packages that are complete, cut or lack something make every field of the globals
differ from the package's; types and versions are symmetric. Four tokens a string give unequal lengths, empty
parts at either end and in the middle, and characters that stop the loop.

**Deadlock** is not checked: the bounds end every behaviour, and an agent that waits for libua stops by right.

**Fairness.** `WF(Worker)`, `WF(TimerThread)`, `WF(Resume)`: threads of a preemptive scheduler, which sleep and
poll. Nothing is assumed of the two managers, the bus, libua or the power supply. The worker and
the resume have no fairness at `version` and `resumePc = "version"`, the one wait without a timer; that the thread is
elsewhere again and again is the hypothesis of `InstallReturns` and `ResumeEnds`, which say that all the other waits end,
by their timers, whatever the OTA manager does; the mutants that drop a flag or keep an old count break them. In Agent
`WF(Starts)` is the main thread and `WF(Thread(t))` each thread of libua: a call that is repeated is answered once
while its service stays up. That the services do stay up at last is a hypothesis of `CallbacksReturn`, and that
the system manager does, with `-p 0` only, one of `StartUpEnds`. `WF(CompareNext)` is the loop of one thread.

**Which fault is excluded where.** `WaitWatched` and `CancelOnlyAfterOwnTimer` fail when a timer cannot be added,
when a decrement is torn, when the type turns invalid or when the manager answers before its
state shows the job. `StartOnlySynchronized` and `SwitchOwnUpdate` exclude that slow manager, the second also a
failing move, after which the code calls the switch without an update (T:1003). `SwitchAccounted` excludes a
record that cannot be written, whose error T:859 ignores. `OldOrNew` excludes the check that fails, because the
restore after it is not atomic, failing boot copies and, in the run, short ones, and `ImplementsDurable` with it. `ImplementsContract`,
`RollbackRestores`, `DeployedTakenDown`, `CompletedSurvives` and `FailedUpdateKeeps` exclude none in the proofs;
`ResumeWaitWatched` excludes a timer that cannot be added and a torn decrement.

**Behaviours the models contain and no run is spent on.** An update type that turns invalid makes T:1307 return
without `clear_timer`, and that timer cancels the next update (fault `type_turns_invalid` violates
`CancelOnlyAfterOwnTimer`). A callback whose decrement of `timer_count` (T:798) is torn leaves the next wait without
its time-out (`tick_race` violates `InstallReturns`). The flag raised after the remote cancel (T:804) may time out an
install that has just begun. A `SWITCH_FILE` that a refused switch leaves behind (T:864-872) makes a later resume switch
back, as T:1849 does for any such file. A restart between the synchronisation of the resume and its verdict makes an update
that runs an error (T:1907). A version query of COTA names the type whose completion is sent (T:581). A callback
between the registration and the paths (T:2313-2319) finds no record. `PROJECT.json` has them among the hazards.

## 5. Proofs

The seven `*Proofs` modules are checked by TLAPS, for every set of packages, versions, types, details and strings, and
all bounds and faults but those a theorem names. They use only the named assumptions of the modules
(`PackagesAssumption`, `FaultsAssumption`, `BoundsAssumption`, `BuiltAssumption`, `InventoryAssumption`,
`CotaAssumption`, `NamesAssumption`, `DetailsAssumption`, `StringsAssumption`).

| Theorem | States | Strengthening, and why |
|---|---|---|
| `TypeCorrect` | `[]TypeOK` | inductive; `WorkerShape` first splits a step of the worker into one call, one use of the timer, one move and one write |
| `SwitchIsAccounted` | `[]SwitchAccounted` if records can be written | `AccountInv`: at `entry_switch` the record is already there; after `INSTALL_IN_PROGRESS` no handler runs |
| `StartsSynchronized` | `[]StartOnlySynchronized` if no slow manager | `OwnInv`: what ends a wait still holds when the worker looks again, because a manager with a job shows `IN_PROGRESS` |
| `SwitchesOwnUpdate` | `[]SwitchOwnUpdate`, also no failing move | the same: from the start on, an update that runs or is complete is this install's |
| `WaitsAreWatched` | `[]WaitWatched` if the timers work, the type stays, and every package's failure is reported (`AllReported`) | `WatchInv`: a timer is armed only for the wait the worker is in, and none is leaked; `PackageInv`: a failure met in the update loop is that of a package |
| `CancelsOwnUpdate` | `CancelOnlyAfterOwnTimer`, same assumptions | from the same invariants |
| `LifeTypeCorrect` | `[]LifeTypeOK` | inductive, over `TypeCorrect`'s lemmas |
| `RollbackRestoresOriginal` | `[]RollbackRestores` | `LifeInv`: `OpenInv`, an install runs from a record and from the original version, and a resume beside no install; `VersionInv`, what was read is what runs; `KeptInv`, while another version than the original runs, the other partition holds the original - it got there by the swap - and only the synchronisation after a confirmation writes over it |
| `LifeImplementsContract` | `ImplementsContract` | from `LifeInv`: a switch is requested only in an open update, a confirmation needs `installed = Deployed` and `installed = running`; every other step keeps `Phase`, `running` and the request |
| `DeployedTakenDownOnlyByRecord` | `DeployedTakenDown`, all faults | from `VersionInv` alone: a version that was read is the one that runs, so a resume that does not find it to be `Deployed` has read none |
| `ResumeWaitsAreWatched` | `[]ResumeWaitWatched` if timers can be added and count | `ResumeWatch`: a resume finds the timers as the restart left them, none armed or leaked and no callback under way; it arms one for its wait and clears it before it returns |
| `LifeStartsSynchronized`, `LifeSwitchesOwnUpdate` | `[]StartOnlySynchronized`, `[]SwitchOwnUpdate` of `LifeSpec`, same faults | `OwnInv` beside `LifeInv`: every step is one of FotaInstall or one of a resume that has no install beside it (`LifeSteps`); a resume asks the manager only for a synchronisation or a switch, never for an update |
| `LifeWaitsAreWatched`, `LifeCancelsOwnUpdate` | `[]WaitWatched`, `CancelOnlyAfterOwnTimer` of `LifeSpec`, same assumptions | `LifeWatchInv`: `WatchInv` while no resume runs, `ResumeWatch` while one does; each hands the timers over at rest |
| `InventoryTypeCorrect` | `[]InventoryTypeOK` | inductive |
| `InventoryOldOrNew` | `[]OldOrNew` if the check and the start-ups do not fail and the OEM file is whole | `AtomicInv`: how far the new inventory has come (parsed, copied, on the medium, in place) and what a power failure can undo at each point |
| `RefusedUpdateKeeps` | `FailedUpdateKeeps`, all faults | `KeptInv`: the inventory is the one before until the rename, the backup is it afterwards, or torn by a short copy; what the restoring copy may leave is part of the property |
| `CompletedInstallSurvives` | `CompletedSurvives`, all faults | `SettledInv`: between the sync and the report nothing is left to be torn or taken back, and a result of complete is only there at rest, names the inventory in place, and finds it on the medium |
| `InventoryImplementsDurable` | `ImplementsDurable`, same assumptions as `InventoryOldOrNew` | `AtomicInv` and `SettledInv`: the rename maps to the replacement, the sync to its settlement, the check to the report, a power failure to one; every copy writes a file that is not in use, the start-up's only while the OEM file is in use |
| `AgentTypeCorrect` | `[]AgentTypeOK` | inductive, component by component |
| `FlagIsHeld` | `[]FlagHeld` | with the type: who leaves the held places does so by the reset, which lowers the flag |
| `HandlersTypeCorrect` | `[]HandlersTypeOK` | inductive |
| `CotaCompletedIsApplied`, `CompletesOnce` | `[]CotaCompletedMeansApplied`, `[]CompletionOnce` | `CotaInv`: `InstallInv`, an install has a type and a version; `WorkerInv`, no query runs beside it; `BufferInv`, until a completion writes the buffer it is clear before it is filled and holds the type at the call; `ToldInv`, once told the completion is at its removal or there is none |
| `RequestsDescribePackages`, `ContCompletedIsInstalled` | `[]RequestDescribesPackage`, `[]ContCompletedMeansInstalled` | `ContInv`: `DetailsInv`, at the parse of a complete package the directory holds its details |
| `ComparisonTypeCorrect` | `[]VersionsTypeOK` | inductive: what is left is a suffix |
| `ComparisonIsRight` | `[]CompareRight`, strings of any length | `TurnsInv`: after k turns the first k parts are equal and what is left of each string is what follows them; lemmas give the part a turn looks at by counting dots |
| `ComparisonAdvances` | `TurnsAdvance`, strings of any length | none but the type: what is left is a suffix, and of a clean string a turn takes a number, a dot or both; with it termination only needs that the loop goes on |
| `ComparisonIsOrder` | the result is the order of the first differing parts, in both directions; it is a strict weak order (lemma `VersionsAreOrdered`) | `FirstDifference`: versions that differ have a first part in which they do (well-founded `<`); parts beyond the longer string are 0 |

`AllReported` is exactly what the package of `fota_hang` does not satisfy.

Every safety invariant, action property and refinement of a passing run is proved. Only model-checked: the liveness
properties (`InstallReturns`, `ResumeEnds`, `StartUpEnds`, `CallbacksReturn`, `CompareEnds`), which need `ENABLED`.

## 6. Not modelled, and why

- Options: the parsing of the command line, beyond `-p 0`. The other numbers are durations, and time is abstract.
- The messages of the TCU version query and of the resume, progress reports, logs, and the layout of reports: no
  property is about them.
- `tcu_ua_deinit` beyond the end of the process, `xl4_run_cmd`, `remove_dir` beyond its effect on the files above, MD5
  as an algorithm.
- The proxies, stubs, adapters and deployments that CommonAPI generates, and `utlist.h`: two thirds of the lines of
  the repository. The agent uses a handful of their synchronous calls, which are modelled; the rest is the
  asynchronous and the server side of the same interfaces, or is not used. A model of it would say nothing about
  this program, which is why the share of mapped lines stays low.
- A message without reply-id, mode or record, which T:2076-2086 dereference; a proxy that cannot be built.
