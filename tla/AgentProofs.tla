----------------------------- MODULE AgentProofs -----------------------------
(* Theorems about Agent: its threads in any order, its services coming and *)
(* going.                                                                  *)
EXTENDS Agent, TLAPS

-----------------------------------------------------------------------------
(* Types.                                                                  *)

AllPlaces == ReportPlaces \cup MessagePlaces

\* The places and the versions left, which every step of a report or a query keeps.
ReportTypeOK ==
    /\ flag \in {0, 1}
    /\ at \in [Threads -> AllPlaces]
    /\ left \in [Threads -> 0..VersionsOfReport]

LEMMA CheckServiceKeepsType ==
    ASSUME ReportTypeOK, NEW t \in Threads, NEW n \in 0..VersionsOfReport,
           NEW p \in AllPlaces, CheckService(t, n, p)
    PROVE  ReportTypeOK'
<1>1. "read" \in AllPlaces
  BY DEF AllPlaces, ReportPlaces
<1>. QED BY <1>1 DEF CheckService, Goes, ReportTypeOK, VersionsOfReport

LEMMA ReadKeepsType ==
    ASSUME ReportTypeOK, NEW t \in Threads, ReadTOSVersion(t)
    PROVE  ReportTypeOK'
<1>1. {"send", "out"} \subseteq AllPlaces
  BY DEF AllPlaces, ReportPlaces
<1>2. left[t] \in 1..VersionsOfReport
  BY DEF ReadTOSVersion, ReportTypeOK, VersionsOfReport
<1>3. left' \in [Threads -> 0..VersionsOfReport]
  BY <1>2 DEF ReadTOSVersion, ReportTypeOK, VersionsOfReport
<1>4. at' \in [Threads -> AllPlaces]
  BY <1>1 DEF ReadTOSVersion, Goes, ReportTypeOK
<1>. QED BY <1>3, <1>4 DEF ReadTOSVersion, ReportTypeOK

LEMMA StepsKeepType ==
    ASSUME ReportTypeOK, NEW t \in Threads, Steps(t)
    PROVE  ReportTypeOK'
<1>1. {"out", "set", "reset", "service", "send", "sdm_type", "sdm_call", "sdm_answer"}
        \subseteq AllPlaces /\ VersionsOfReport \in 0..VersionsOfReport /\ 1 \in 0..VersionsOfReport
  BY DEF AllPlaces, ReportPlaces, MessagePlaces, VersionsOfReport
<1>2. CASE TestFlag(t) \/ SetFlag(t) \/ SendReport(t) \/ ResetFlag(t)
  BY <1>1, <1>2 DEF TestFlag, SetFlag, SendReport, ResetFlag, Goes, ReportTypeOK
<1>3. CASE ReportService(t) \/ CheckService(t, 1, "out")
  BY <1>1, <1>3, CheckServiceKeepsType DEF ReportService
<1>4. CASE ReadTOSVersion(t)
  BY <1>4, ReadKeepsType
<1>5. CASE Diagnostics \/ CotaReported
  BY <1>1, <1>5 DEF Diagnostics, SdmWait, SdmType, SdmCall, SdmAnswer, CotaReported, Goes,
     ReportTypeOK, Threads, Callers
<1>. QED BY <1>2, <1>3, <1>4, <1>5 DEF Steps, Report, QueryVersion

\* The rest of the types.
RestTypeOK ==
    /\ ServicesTypeOK
    /\ main \in Stages /\ unlimited \in BOOLEAN
    /\ recFile \in BOOLEAN
    /\ request \in Requests \cup {"none"}
    /\ answer \in {"none", "SUCCESS", "FAILURE"}

LEMMA TypeParts == AgentTypeOK <=> RestTypeOK /\ ReportTypeOK
  BY DEF AgentTypeOK, RestTypeOK, ReportTypeOK, AllPlaces

LEMMA ReportTypePreserved == ReportTypeOK /\ [AgentNext]_vars => ReportTypeOK'
<1>. SUFFICES ASSUME ReportTypeOK, [AgentNext]_vars PROVE ReportTypeOK'
  OBVIOUS
<1>1. {"out", "test", "sdm_wait", "cota", "service"} \subseteq AllPlaces
  BY DEF AllPlaces, ReportPlaces, MessagePlaces
<1>2. CASE UNCHANGED reportVars
  BY <1>2 DEF reportVars, ReportTypeOK
<1>3. CASE Callback
  BY <1>1, <1>3 DEF Callback, DmcConnects, IgnitionOn, DiagnosticsQuery, VehicleUpdateStatus,
     GetVersion, Goes, ReportTypeOK
<1>4. ASSUME NEW t \in Threads, Thread(t) PROVE ReportTypeOK'
  BY <1>4, StepsKeepType DEF Thread
<1>5. CASE Stops
  BY <1>1, <1>5 DEF Stops, ReportEnds, ReportTypeOK, VersionsOfReport
<1>. QED BY <1>2, <1>3, <1>4, <1>5 DEF AgentNext, Starts, vars

LEMMA RestTypePreserved == RestTypeOK /\ [AgentNext]_vars => RestTypeOK'
<1>. SUFFICES ASSUME RestTypeOK, [AgentNext]_vars PROVE RestTypeOK'
  OBVIOUS
<1>. USE DEF RestTypeOK, startVars
<1>1. CASE UNCHANGED vars
  BY <1>1 DEF vars, ServicesTypeOK
<1>2. CASE Starts
  BY <1>2 DEF Starts, StartStep, WaitForOta, WaitForSm, PollOta, UaInit, UaRegister, SetPaths,
     SyncInventoryOnBoot, StartAt, noRequest, ServicesTypeOK, Stages
<1>3. CASE Callback
  BY <1>3 DEF Callback, DmcConnects, IgnitionOn, DiagnosticsQuery, VehicleUpdateStatus,
     GetVersion, noRequest, ServicesTypeOK
<1>4. ASSUME NEW t \in Threads, Thread(t) PROVE RestTypeOK'
  BY <1>4 DEF Thread, Steps, noRequest, Diagnostics, SdmWait, SdmType, SdmCall, SdmAnswer,
     CotaReported, ServicesTypeOK
<1>5. CASE Stops
  BY <1>5 DEF Stops, Stop, StartAt, Stages, ServicesTypeOK
<1>6. CASE Environment /\ UNCHANGED <<startVars, reportVars, noRequest>>
  BY <1>6 DEF Environment, ServiceChanges, noRequest, ServicesTypeOK
<1>. QED BY <1>1, <1>2, <1>3, <1>4, <1>5, <1>6 DEF AgentNext

LEMMA AgentInitially == AgentInit => AgentTypeOK /\ FlagHeld
  BY DEF AgentInit, AgentTypeOK, FlagHeld, StartInit, ReportInit, ServicesTypeOK, Stages,
     ReportPlaces, VersionsOfReport

\* Every variable of the process keeps its type: at most six versions are left to
\* read, whoever reports (tmpl_updateagent.cpp:1680-1759).
THEOREM AgentTypeCorrect == AgentSpec => []AgentTypeOK
<1>1. RestTypeOK' /\ ReportTypeOK' => AgentTypeOK'
  BY DEF AgentTypeOK, RestTypeOK, ReportTypeOK, AllPlaces, ServicesTypeOK
<1>2. AgentTypeOK /\ [AgentNext]_vars => AgentTypeOK'
  BY <1>1, TypeParts, ReportTypePreserved, RestTypePreserved
<1>. QED BY <1>2, AgentInitially, PTL DEF AgentSpec

-----------------------------------------------------------------------------
(* The flag of the report.                                                 *)

LEMMA FlagPreserved == AgentTypeOK /\ FlagHeld /\ [AgentNext]_vars => FlagHeld'
<1>. SUFFICES ASSUME AgentTypeOK, FlagHeld, [AgentNext]_vars PROVE FlagHeld'
  OBVIOUS
<1>. USE DEF Goes
<1>a. ReportTypeOK
  BY TypeParts
<1>1. CASE UNCHANGED reportVars
  BY <1>1 DEF reportVars, FlagHeld
<1>2. CASE Callback
  \* A callback begins where its thread is out, and holds nothing.
  BY <1>2, <1>a DEF Callback, DmcConnects, IgnitionOn, DiagnosticsQuery, VehicleUpdateStatus,
     GetVersion, FlagHeld, ReportTypeOK, Threads, Callers
<1>3. ASSUME NEW c \in Callers, Report(c) PROVE FlagHeld'
  <2>. c \in Threads
    BY DEF Threads
  <2>1. CASE TestFlag(c)
    BY <1>3, <2>1, <1>a DEF TestFlag, FlagHeld, ReportTypeOK
  <2>2. CASE SetFlag(c)
    BY <1>3, <2>2, <1>a DEF SetFlag, FlagHeld, ReportTypeOK
  <2>3. CASE ReportService(c)
    BY <1>3, <2>3, <1>a DEF ReportService, CheckService, FlagHeld, ReportTypeOK
  <2>4. CASE ReadTOSVersion(c)
    BY <1>3, <2>4, <1>a DEF ReadTOSVersion, FlagHeld, ReportTypeOK
  <2>5. CASE SendReport(c)
    BY <1>3, <2>5, <1>a DEF SendReport, FlagHeld, ReportTypeOK
  <2>6. CASE ResetFlag(c)
    BY <2>6 DEF ResetFlag, FlagHeld
  <2>. QED BY <1>3, <2>1, <2>2, <2>3, <2>4, <2>5, <2>6 DEF Report
<1>4. CASE QueryVersion("worker")
  BY <1>4, <1>a DEF QueryVersion, CheckService, ReadTOSVersion, FlagHeld, ReportTypeOK, Threads, Callers
<1>5. CASE Diagnostics \/ CotaReported
  BY <1>5, <1>a DEF Diagnostics, SdmWait, SdmType, SdmCall, SdmAnswer, CotaReported, FlagHeld,
     ReportTypeOK, Threads, Callers
<1>6. CASE Stops
  BY <1>6 DEF Stops, ReportEnds, FlagHeld
<1>. QED BY <1>1, <1>2, <1>3, <1>4, <1>5, <1>6 DEF AgentNext, Starts, vars, Thread, Steps

\* Whoever sets the flag of the report is on the way to take it down, or another
\* caller is, in every order of the callbacks (tmpl_updateagent.cpp:1682-1758).
THEOREM FlagIsHeld == AgentSpec => []FlagHeld
<1>1. AgentTypeOK /\ FlagHeld /\ [AgentNext]_vars => FlagHeld'
  BY FlagPreserved
<1>. QED BY <1>1, AgentInitially, AgentTypeCorrect, PTL DEF AgentSpec
=============================================================================
