---------------------------- MODULE CurrentReport ----------------------------
(***************************************************************************)
(* send_current_report (tmpl_updateagent.cpp:1674-1738), which the presence *)
(* callback and the message callback run in threads of their own.  They    *)
(* share send_current_report_flag: tested, set and reset one by one.       *)
(* Beside them the version query of a worker: all of them wait in          *)
(* readTOSVersion.                                                         *)
(***************************************************************************)
EXTENDS Naturals, Services

VARIABLES
    flag,       \* send_current_report_flag
    at,         \* where each thread is
    left        \* the versions it still has to read

reportVars == <<flag, at, left>>

Callers == {"presence", "message"}
Threads == Callers \cup {"worker"}

VersionsOfReport == 6   \* get_version_from_tos_file(1) to (5), and (0)

ReportPlaces == {"out", "test", "set", "service", "read", "send", "reset"}

ReportInit ==
    /\ flag = 0
    /\ at = [t \in Threads |-> "out"]
    /\ left = [t \in Threads |-> 0]

\* The threads and their variables go with the process.
ReportEnds ==
    /\ flag' = 0
    /\ at' = [t \in Threads |-> "out"]
    /\ left' = [t \in Threads |-> 0]

Goes(t, place) == at' = [at EXCEPT ![t] = place]

-----------------------------------------------------------------------------
(* readTOSVersion repeats its call until it succeeds: a call that fails is *)
(* a stuttering step.                                                      *)

ReadTOSVersion(t) ==
    /\ at[t] = "read" /\ TRUE \in CallStatus("SM")
    /\ left' = [left EXCEPT ![t] = @ - 1]
    /\ \/ left[t] > 1 /\ UNCHANGED at
       \/ left[t] = 1 /\ Goes(t, IF t \in Callers THEN "send" ELSE "out")
    /\ UNCHANGED flag

\* Without the system manager neither the report nor the query reads a version.
CheckService(t, versions, otherwise) ==
    /\ at[t] = "service"
    /\ \/ /\ IsAvailable("SM") /\ Goes(t, "read")
          /\ left' = [left EXCEPT ![t] = versions]
       \/ ~IsAvailable("SM") /\ Goes(t, otherwise) /\ UNCHANGED left
    /\ UNCHANGED flag

-----------------------------------------------------------------------------
(* The report.                                                             *)

\* Who finds a report under way sends none, but goes on to the reset.
TestFlag(c) ==
    /\ at[c] = "test"
    /\ Goes(c, IF flag = 0 THEN "set" ELSE "reset")
    /\ UNCHANGED <<flag, left>>

SetFlag(c) ==
    /\ at[c] = "set" /\ Goes(c, "service")
    /\ flag' = 1
    /\ UNCHANGED left

\* Mutant: the branch without a system manager returns before the reset.
ReportServiceReturns(c) == CheckService(c, VersionsOfReport, "out")

\* Mutant: one version too many is read.
ReportServiceOneMore(c) == CheckService(c, VersionsOfReport + 1, "send")

ReportService(c) == CheckService(c, VersionsOfReport, "send")

SendReport(c) ==
    /\ at[c] = "send" /\ Goes(c, "reset")
    /\ UNCHANGED <<flag, left>>

ResetFlag(c) ==
    /\ at[c] = "reset" /\ Goes(c, "out")
    /\ flag' = 0
    /\ UNCHANGED left

Report(c) ==
    \/ TestFlag(c) \/ SetFlag(c) \/ ReportService(c) \/ ReadTOSVersion(c)
    \/ SendReport(c) \/ ResetFlag(c)

\* get_tcu_version of type /TML/TCU/TCU.
QueryVersion(t) == CheckService(t, 1, "out") \/ ReadTOSVersion(t)

-----------------------------------------------------------------------------
(* Properties.                                                             *)

\* The flag of send_current_report is only up while some caller that will take
\* it down is on its way: the reports are never shut off for good, whatever the
\* order in which presence and message callbacks test, set and reset it
\* (tmpl_updateagent.cpp:1678-1737).
FlagHeld ==
    flag = 1 => \E c \in Callers : at[c] \in {"service", "read", "send", "reset"}
=============================================================================
