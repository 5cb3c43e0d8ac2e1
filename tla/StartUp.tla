------------------------------- MODULE StartUp -------------------------------
(***************************************************************************)
(* The start of the agent: tcu_ua_agent_init (tmpl_updateagent.cpp:2281-   *)
(* 2336) with tcu_updateagent_init (tcu_updateagent.cpp:303-356), and the  *)
(* end of main.  The proxies are waited for one after the other; of the    *)
(* time-out given with -p only the last wait takes notice, and what the    *)
(* initialisation returns is printed and forgotten.                        *)
(***************************************************************************)
EXTENDS Services

VARIABLES
    main,       \* where the main thread is
    unlimited   \* the agent was started with -p 0

startVars == <<main, unlimited>>

Stages == {"ota_wait", "sm_wait", "poll", "init", "register", "paths", "sync",
           "running", "exited", "stopped"}

StartInit == main = "ota_wait" /\ unlimited \in BOOLEAN

StartAt(stage, next) ==
    /\ main = stage /\ main' = next
    /\ UNCHANGED unlimited

\* Mutant: -p 0 also takes the limit from the first wait.
WaitForOtaAsGiven ==
    /\ unlimited => IsAvailable("OTA")
    /\ StartAt("ota_wait", "sm_wait")

\* set_shared_ptr replaces the limit it is given by one of 1800 s; the container
\* and configuration proxies, built next, are not waited for.
WaitForOta == StartAt("ota_wait", "sm_wait")

WaitForSm ==
    /\ unlimited => IsAvailable("SM")
    /\ StartAt("sm_wait", "poll")

\* Two calls of the OTA manager, whose replies are only printed.
PollOta == StartAt("poll", "init")

UaInit == StartAt("init", "register") \/ StartAt("init", "exited")

\* From here on libua may run the callbacks.
UaRegister == StartAt("register", "paths")

SetPaths == StartAt("paths", "sync")

SyncInventoryOnBoot == StartAt("sync", "running")

StartStep ==
    \/ WaitForOta \/ WaitForSm \/ PollOta \/ UaInit \/ UaRegister \/ SetPaths
    \/ SyncInventoryOnBoot

Registered == main \in {"paths", "sync", "running"}
PathsSet == main \in {"sync", "running"}

\* Any handled signal ends pause(), and with main the process.
Stop == StartAt("running", "stopped")

-----------------------------------------------------------------------------
(* Properties.                                                             *)

\* The start-up ends, in service or with exit(1), although the services may
\* never come: only -p 0 makes it depend on one, the system manager, and on no
\* other (tcu_updateagent.cpp:106-148, 249-301).
StartUpEnds ==
    (unlimited => <>[]IsAvailable("SM")) => <>(main \in {"running", "exited"})
=============================================================================
