-------------------------------- MODULE Agent --------------------------------
(***************************************************************************)
(* The threads of one agent process around its services: the main thread   *)
(* starts it up (StartUp); libua's presence and message threads and its    *)
(* worker, once registered, send reports and query versions                *)
(* (CurrentReport); the message thread also answers requests for           *)
(* diagnostics (tmpl_updateagent.cpp:2172-2264) and reports a completed    *)
(* configuration (module Cota), one message after the other.               *)
(***************************************************************************)
EXTENDS StartUp, CurrentReport

VARIABLES
    recFile,    \* update.rec exists
    request,    \* the kind of diagnostics request being handled
    answer      \* callstatus, the status of its answer

vars == <<up, startVars, reportVars, recFile, request, answer>>

\* Requests name a record the agent knows, or one it does not.
Requests == {"known", "unknown"}

MessagePlaces == {"sdm_wait", "sdm_type", "sdm_call", "sdm_answer", "cota"}

\* The type invariant of the process.
AgentTypeOK ==
    /\ ServicesTypeOK
    /\ main \in Stages /\ unlimited \in BOOLEAN
    /\ flag \in {0, 1}
    /\ at \in [Threads -> ReportPlaces \cup MessagePlaces]
    /\ left \in [Threads -> 0..VersionsOfReport]
    /\ recFile \in BOOLEAN
    /\ request \in Requests \cup {"none"}
    /\ answer \in {"none", "SUCCESS", "FAILURE"}

AgentInit ==
    /\ up \in SUBSET Names
    /\ StartInit
    /\ ReportInit
    /\ recFile \in BOOLEAN
    /\ request = "none" /\ answer = "none"

noRequest == <<request, answer>>

-----------------------------------------------------------------------------
(* What libua calls.                                                       *)

\* on_dmc_presence: a connection is reported unless an update is recorded.  As
\* long as the paths are not set no record is found.
DmcConnects ==
    /\ at["presence"] = "out"
    /\ ~(PathsSet /\ recFile)
    /\ Goes("presence", "test")
    /\ UNCHANGED <<flag, left, noRequest>>

\* on_message, tbox-ignition: parse_json_message looks at the flag by itself.
IgnitionOn ==
    /\ at["message"] = "out" /\ flag = 0
    /\ Goes("message", "test")
    /\ UNCHANGED <<flag, left, noRequest>>

\* on_message, tcu-dignostics-query.
DiagnosticsQuery ==
    /\ at["message"] = "out"
    /\ Goes("message", "sdm_wait")
    /\ request' \in Requests /\ answer' = "none"
    /\ UNCHANGED <<flag, left>>

\* on_message, vehicle-update-status.
VehicleUpdateStatus ==
    /\ at["message"] = "out"
    /\ Goes("message", "cota")
    /\ UNCHANGED <<flag, left, noRequest>>

\* on_get_version
GetVersion ==
    /\ at["worker"] = "out"
    /\ Goes("worker", "service")
    /\ UNCHANGED <<flag, left, noRequest>>

Callback ==
    /\ Registered
    /\ DmcConnects \/ IgnitionOn \/ DiagnosticsQuery \/ VehicleUpdateStatus \/ GetVersion
    /\ UNCHANGED <<up, startVars, recFile>>

-----------------------------------------------------------------------------
(* Diagnostics: TCUDiagnostics and the answer.                             *)

\* The wait for the service has no limit, and comes before the type is looked at.
SdmWait ==
    /\ at["message"] = "sdm_wait" /\ IsAvailable("SDM")
    /\ Goes("message", "sdm_type")
    /\ UNCHANGED <<request, answer>>

SdmType ==
    /\ at["message"] = "sdm_type"
    /\ \/ request = "known" /\ Goes("message", "sdm_call") /\ UNCHANGED answer
       \/ request = "unknown" /\ Goes("message", "sdm_answer") /\ answer' = "FAILURE"
    /\ UNCHANGED request

\* Mutant: a failed call is made again, after another wait for the service.
SdmCallRepeated ==
    /\ at["message"] = "sdm_call"
    /\ \E ok \in CallStatus("SDM") :
         /\ Goes("message", IF ok THEN "sdm_answer" ELSE "sdm_wait")
         /\ answer' = IF ok THEN "SUCCESS" ELSE answer
    /\ UNCHANGED request

SdmCall ==
    /\ at["message"] = "sdm_call"
    /\ \E ok \in CallStatus("SDM") : answer' = IF ok THEN "SUCCESS" ELSE "FAILURE"
    /\ Goes("message", "sdm_answer")
    /\ UNCHANGED request

\* An answer that cannot be sent is given up.
SdmAnswer ==
    /\ at["message"] = "sdm_answer"
    /\ Goes("message", "out")
    /\ request' = "none" /\ answer' = "none"

Diagnostics == (SdmWait \/ SdmType \/ SdmCall \/ SdmAnswer) /\ UNCHANGED <<flag, left>>

\* The call of the configuration manager has a time-out.
CotaReported ==
    /\ at["message"] = "cota" /\ Goes("message", "out")
    /\ UNCHANGED <<flag, left, noRequest>>

-----------------------------------------------------------------------------
(* The threads.                                                            *)

Steps(t) ==
    \/ t \in Callers /\ Report(t) /\ UNCHANGED noRequest
    \/ t = "worker" /\ QueryVersion(t) /\ UNCHANGED noRequest
    \/ t = "message" /\ (Diagnostics \/ CotaReported)

Thread(t) == Steps(t) /\ Registered /\ UNCHANGED <<up, startVars, recFile>>

Starts == StartStep /\ UNCHANGED <<up, reportVars, recFile, noRequest>>

\* The threads end with the process.
Stops ==
    /\ Stop
    /\ ReportEnds /\ request' = "none" /\ answer' = "none"
    /\ UNCHANGED <<up, recFile>>

\* libua begins and ends updates; the services come and go.
Environment ==
    \/ ServiceChanges /\ UNCHANGED recFile
    \/ recFile' = ~recFile /\ UNCHANGED up

AgentNext ==
    \/ Starts
    \/ Callback
    \/ \E t \in Threads : Thread(t)
    \/ Stops
    \/ Environment /\ UNCHANGED <<startVars, reportVars, noRequest>>

\* The main thread and the callbacks are threads of a preemptive scheduler.  A
\* thread that repeats a call has it answered once while its service stays up.
AgentSpec ==
    /\ AgentInit /\ [][AgentNext]_vars
    /\ WF_vars(Starts)
    /\ \A t \in Threads : WF_vars(Thread(t))

-----------------------------------------------------------------------------
(* Properties.                                                             *)

\* When the services stay up from some time on, every callback returns, so that
\* the next message can be delivered: the waits without a limit at
\* tcu_updateagent.cpp:456 and 744 are the only ones, and neither a failed call
\* nor an unknown request keeps the thread.
CallbacksReturn ==
    <>[](up = Names) => \A t \in Threads : at[t] # "out" ~> at[t] = "out"
=============================================================================
