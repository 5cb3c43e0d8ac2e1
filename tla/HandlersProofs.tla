--------------------------- MODULE HandlersProofs ---------------------------
(* Theorems about Handlers, for every set of types, versions and package   *)
(* details.                                                                *)
EXTENDS Handlers, TLAPS

-----------------------------------------------------------------------------
(* The inductive invariant.                                                *)

\* An install is one of a type and a version.
InstallInv ==
    cotaInstall.result \in Installing \cup {"INSTALL_COMPLETED"}
      => cotaInstall.type \in CotaTypes /\ cotaInstall.version \in Versions

\* The worker does one thing at a time, and a completed install was called for a type.
WorkerInv ==
    /\ cotaInstall.result \in Installing => asking.at = "out"
    /\ cotaInstall.result = "INSTALL_COMPLETED" => cotaInstall.called \in CotaTypes

\* With no completion beside it, an install has the buffer to itself.
BufferInv ==
    cotaInstall.alone =>
      /\ cotaInstall.result = "fill" => buffer = NoType
      /\ cotaInstall.result = "call" => buffer = cotaInstall.type

\* Once the manager was told, the record is about to be removed or is gone.
ToldInv ==
    /\ completion.at \in {"clear", "fill", "check", "call"} => ~told
    /\ told => completion.at = "remove" \/ record = NoType

\* Complete details are what the directory holds when they are parsed.
DetailsInv == contInstall = "parse" /\ Complete(package) => detailsFile = package

CotaInv ==
    /\ CotaTypeOK /\ InstallInv /\ WorkerInv /\ BufferInv
    /\ ToldInv /\ CotaCompletedMeansApplied
ContInv == ContTypeOK /\ DetailsInv /\ RequestDescribesPackage /\ ContCompletedMeansInstalled

HandlersInv == CotaInv /\ ContInv

-----------------------------------------------------------------------------
(* Configurations.                                                         *)

LEMMA CotaInitially == CotaInit => CotaInv
<1>. SUFFICES ASSUME CotaInit PROVE CotaInv
  OBVIOUS
<1>1. NoAck \in [reply : StateReplies, result : {"none", "E_UA_OK", "E_UA_ERR"}]
  BY DEF NoAck, StateReplies, Replies
<1>2. CotaTypeOK
  BY <1>1 DEF CotaInit, CotaTypeOK, NoCotaInstall, InstallOf, NoQuery, NoCompletion
<1>3. /\ InstallInv /\ WorkerInv /\ BufferInv
      /\ CotaCompletedMeansApplied
  BY DEF CotaInit, NoCotaInstall, InstallOf, Installing, InstallInv, WorkerInv, BufferInv,
     CotaCompletedMeansApplied
<1>4. ToldInv
  BY DEF CotaInit, NoCompletion, ToldInv
<1>. QED BY <1>2, <1>3, <1>4 DEF CotaInv

\* The shape of an install's record.
CotaInstalls ==
    [type : CotaTypes \cup {NoType}, version : Versions \cup {NoCotaVersion},
     result : Installing \cup {"none", "INSTALL_COMPLETED", "INSTALL_FAILED"},
     called : CotaTypes \cup {NoType}, alone : BOOLEAN]

LEMMA InstallTyped ==
    ASSUME NEW t \in CotaTypes \cup {NoType}, NEW v \in Versions \cup {NoCotaVersion},
           NEW r \in {"clear", "none", "INSTALL_FAILED"}
    PROVE  InstallOf(t, v, r) \in CotaInstalls
  BY DEF InstallOf, CotaInstalls, Installing

\* A step that leaves the file, what was told and the place of the completion alone
\* does not disturb ToldInv; one that leaves the install, the query, the buffer and
\* the manager's versions alone does not disturb the rest.
LEMMA ToldKept ==
    ToldInv /\ UNCHANGED <<record, told, completion>> => ToldInv'
  BY DEF ToldInv

LEMMA InstallKept ==
    ASSUME InstallInv, WorkerInv, BufferInv, CotaCompletedMeansApplied,
           UNCHANGED <<cotaInstall, config>>,
           cotaInstall.result \in Installing => UNCHANGED <<asking, buffer>>
    PROVE  InstallInv' /\ WorkerInv' /\ BufferInv' /\ CotaCompletedMeansApplied'
  BY DEF InstallInv, WorkerInv, BufferInv, CotaCompletedMeansApplied, Installing

\* An install that ended as failed, or none, asks nothing of the rest.
LEMMA NoInstallLeft ==
    ASSUME \E r \in {"none", "INSTALL_FAILED"} : cotaInstall' = InstallOf(NoType, NoCotaVersion, r)
    PROVE  InstallInv' /\ WorkerInv' /\ BufferInv' /\ CotaCompletedMeansApplied'
  BY DEF InstallOf, InstallInv, WorkerInv, BufferInv, CotaCompletedMeansApplied, Installing

\* The completion's writes to the buffer take an install's claim to it away.
LEMMA InstallDisturbed ==
    ASSUME CotaTypeOK, InstallInv, WorkerInv, BufferInv, CotaCompletedMeansApplied,
           Disturb, UNCHANGED <<config, asking>>
    PROVE  InstallInv' /\ WorkerInv' /\ BufferInv' /\ CotaCompletedMeansApplied'
  BY DEF CotaTypeOK, Disturb, InstallInv, WorkerInv, BufferInv, CotaCompletedMeansApplied,
     Installing

\* Only a query, an install, a completion, a restart, or the begin of a container's
\* handler changes what CotaInv speaks of.
LEMMA CotaPreserved == CotaInv /\ [HandlersNext]_handlerVars => CotaInv'
<1>. SUFFICES ASSUME CotaInv, [HandlersNext]_handlerVars PROVE CotaInv'
  OBVIOUS
<1>. USE DEF CotaInv, queryVars, completionVars
<1>a. NoAck \in [reply : StateReplies, result : {"none", "E_UA_OK", "E_UA_ERR"}]
  BY DEF NoAck, StateReplies, Replies
<1>b. ASSUME NEW t \in CotaTypes \cup {NoType}, FillBuffer(t)
      PROVE  buffer' \in CotaTypes \cup {NoType} /\ (buffer = NoType => buffer' = t)
  BY <1>b DEF FillBuffer
<1>1. CASE UNCHANGED cotaVars
  <2>1. CotaTypeOK'
    BY <1>1 DEF cotaVars, CotaTypeOK
  <2>. QED BY <1>1, <2>1, ToldKept, InstallKept DEF cotaVars
<1>2. ASSUME NEW t \in CotaTypes, Free, AskVersion(t) PROVE CotaInv'
  <2>1. CotaTypeOK'
    BY <1>2 DEF AskVersion, CotaTypeOK
  <2>. QED BY <1>2, <2>1, ToldKept, InstallKept DEF AskVersion, Free
<1>3. ASSUME NEW t \in CotaTypes, NEW v \in Versions, Free, BeginCotaInstall(t, v)
      PROVE  CotaInv'
  <2>1. CotaTypeOK'
    <3>1. cotaInstall' \in CotaInstalls
      BY <1>3, InstallTyped DEF BeginCotaInstall, CotaFails
    <3>. QED BY <1>3, <3>1 DEF BeginCotaInstall, CotaTypeOK, CotaInstalls
  <2>2. CASE CotaFails
    <3>1. InstallInv' /\ WorkerInv' /\ BufferInv' /\ CotaCompletedMeansApplied'
      BY <2>2, NoInstallLeft DEF CotaFails
    <3>. QED BY <1>3, <2>1, <3>1, ToldKept DEF BeginCotaInstall
  <2>3. CASE cotaInstall' = InstallOf(t, v, "clear")
    <3>1. InstallInv' /\ WorkerInv' /\ BufferInv' /\ CotaCompletedMeansApplied'
      BY <1>3, <2>3 DEF BeginCotaInstall, Free, InstallOf, Installing, InstallInv, WorkerInv,
         BufferInv, CotaCompletedMeansApplied
    <3>. QED BY <1>3, <2>1, <3>1, ToldKept DEF BeginCotaInstall
  <2>. QED BY <1>3, <2>2, <2>3 DEF BeginCotaInstall
<1>4. CASE WriteStatus
  <2>1. CotaTypeOK'
    <3>1. asking.type \in CotaTypes \cup {NoType}
      BY DEF CotaTypeOK
    <3>2. record' \in CotaTypes \cup {NoType} /\ told' \in BOOLEAN
      BY <1>4, <3>1 DEF WriteStatus, CotaTypeOK
    <3>3. asking' \in [at : {"out", "write", "clear", "fill"}, type : CotaTypes \cup {NoType},
                      read : CotaTypes \cup {NoType}]
      BY <1>4 DEF WriteStatus, CotaTypeOK
    <3>. QED BY <1>4, <3>2, <3>3 DEF WriteStatus, CotaTypeOK
  <2>2. InstallInv' /\ WorkerInv' /\ BufferInv' /\ CotaCompletedMeansApplied'
    <3>1. cotaInstall.result \notin Installing
      BY <1>4 DEF WriteStatus, WorkerInv
    <3>. QED BY <1>4, <3>1, InstallKept DEF WriteStatus
  <2>3. ToldInv'
    <3>1. CASE told' = FALSE
      BY <3>1 DEF ToldInv
    <3>2. CASE UNCHANGED <<record, told>>
      BY <1>4, <3>2, ToldKept DEF WriteStatus
    <3>. QED BY <1>4, <3>1, <3>2 DEF WriteStatus
  <2>. QED BY <2>1, <2>2, <2>3
<1>5. CASE ClearForQuery
  <2>1. CotaTypeOK'
    BY <1>5 DEF ClearForQuery, ClearBuffer, CotaTypeOK
  <2>. QED BY <1>5, <2>1, ToldKept, InstallKept DEF ClearForQuery, WorkerInv
<1>6. CASE ReportVersion
  <2>1. CotaTypeOK'
    BY <1>6, <1>b DEF ReportVersion, NoQuery, CotaTypeOK
  <2>. QED BY <1>6, <2>1, ToldKept, InstallKept DEF ReportVersion, WorkerInv
<1>7. CASE ClearForInstall
  <2>1. CotaTypeOK'
    BY <1>7 DEF ClearForInstall, ClearBuffer, Installing, CotaTypeOK
  <2>2. InstallInv' /\ WorkerInv' /\ BufferInv' /\ CotaCompletedMeansApplied'
    BY <1>7 DEF ClearForInstall, ClearBuffer, Installing, CotaTypeOK, InstallInv, WorkerInv,
       BufferInv, CotaCompletedMeansApplied
  <2>. QED BY <1>7, <2>1, <2>2, ToldKept DEF ClearForInstall
<1>8. CASE FillForInstall
  <2>1. CotaTypeOK'
    BY <1>8, <1>b DEF FillForInstall, Installing, CotaTypeOK
  <2>2. InstallInv' /\ WorkerInv' /\ CotaCompletedMeansApplied'
    BY <1>8 DEF FillForInstall, Installing, CotaTypeOK, InstallInv, WorkerInv,
       CotaCompletedMeansApplied
  <2>3. BufferInv'
    BY <1>8, <1>b DEF FillForInstall, CotaTypeOK, BufferInv
  <2>. QED BY <1>8, <2>1, <2>2, <2>3, ToldKept DEF FillForInstall
<1>9. CASE UpdateRefused
  <2>1. CotaTypeOK'
    BY <1>9 DEF UpdateRefused, CotaFails, InstallOf, CotaTypeOK
  <2>. QED BY <1>9, <2>1, ToldKept, NoInstallLeft DEF UpdateRefused, CotaFails
<1>10. CASE UpdateConfig
  <2>1. buffer \in CotaTypes /\ cotaInstall.version \in Versions
    BY <1>10, CotaAssumption DEF UpdateConfig, InstallInv, Installing
  <2>2. CotaTypeOK'
    <3>1. cotaInstall' \in CotaInstalls
      <4>1. CASE CotaFails
        BY <4>1, InstallTyped DEF CotaFails
      <4>2. CASE cotaInstall' = [cotaInstall EXCEPT !.result = "INSTALL_COMPLETED", !.called = buffer]
        BY <2>1, <4>2 DEF CotaTypeOK, CotaInstalls
      <4>. QED BY <1>10, <4>1, <4>2 DEF UpdateConfig
    <3>2. config' \in [CotaTypes -> Versions]
      BY <1>10, <2>1 DEF UpdateConfig, CotaTypeOK
    <3>. QED BY <1>10, <3>1, <3>2 DEF UpdateConfig, CotaTypeOK, CotaInstalls
  <2>3. CASE CotaFails
    BY <1>10, <2>2, <2>3, ToldKept, NoInstallLeft DEF UpdateConfig, CotaFails
  <2>4. CASE cotaInstall' = [cotaInstall EXCEPT !.result = "INSTALL_COMPLETED", !.called = buffer]
    <3>1. CASE ~CotaFails
      <4>1. config' = [config EXCEPT ![buffer] = cotaInstall.version]
        BY <1>10, <3>1 DEF UpdateConfig, UpdateSucceeded
      <4>2. InstallInv' /\ WorkerInv' /\ BufferInv'
        BY <1>10, <2>1, <2>4 DEF UpdateConfig, Installing, CotaTypeOK, InstallInv, WorkerInv,
           BufferInv
      <4>3. CotaCompletedMeansApplied'
        BY <1>10, <2>1, <2>4, <4>1 DEF UpdateConfig, CotaTypeOK, BufferInv,
           CotaCompletedMeansApplied
      <4>. QED BY <1>10, <2>2, <4>2, <4>3, ToldKept DEF UpdateConfig
    <3>. QED BY <2>3, <3>1
  <2>. QED BY <1>10, <2>3, <2>4 DEF UpdateConfig
<1>11. CASE ReadTypeHandler
  <2>1. CotaTypeOK'
    BY <1>11 DEF ReadTypeHandler, CotaTypeOK
  <2>2. ToldInv'
    BY <1>11 DEF ReadTypeHandler, CotaTypeOK, ToldInv
  <2>. QED BY <1>11, <2>1, <2>2, InstallKept DEF ReadTypeHandler
<1>12. CASE ClearForCompletion
  <2>1. CotaTypeOK'
    BY <1>12 DEF ClearForCompletion, ClearBuffer, Disturb, CotaTypeOK
  <2>2. ToldInv'
    BY <1>12 DEF ClearForCompletion, CotaTypeOK, ToldInv
  <2>. QED BY <1>12, <2>1, <2>2, InstallDisturbed DEF ClearForCompletion
<1>13. CASE FillForCompletion
  <2>1. CotaTypeOK'
    BY <1>13, <1>b DEF FillForCompletion, Disturb, CotaTypeOK
  <2>2. ToldInv'
    BY <1>13 DEF FillForCompletion, CotaTypeOK, ToldInv
  <2>. QED BY <1>13, <2>1, <2>2, InstallDisturbed DEF FillForCompletion
<1>14. CASE IsCotaAlreadySet
  <2>1. CotaTypeOK'
    BY <1>14 DEF IsCotaAlreadySet, NoCompletion, CotaTypeOK
  <2>2. ToldInv'
    BY <1>14 DEF IsCotaAlreadySet, NoCompletion, CotaTypeOK, ToldInv
  <2>. QED BY <1>14, <2>1, <2>2, InstallKept DEF IsCotaAlreadySet
<1>15. CASE SetCotaCompletionStatus
  <2>1. CotaTypeOK'
    BY <1>15 DEF SetCotaCompletionStatus, AfterCompletion, CotaTypeOK
  <2>2. ToldInv'
    BY <1>15 DEF SetCotaCompletionStatus, AfterCompletion, CotaTypeOK, ToldInv
  <2>. QED BY <1>15, <2>1, <2>2, InstallKept DEF SetCotaCompletionStatus
<1>16. CASE RemoveStatus
  <2>1. CotaTypeOK'
    BY <1>16, <1>a DEF RemoveStatus, NoCompletion, CotaTypeOK
  <2>2. ToldInv'
    BY <1>16 DEF RemoveStatus, NoCompletion, ToldInv
  <2>. QED BY <1>16, <2>1, <2>2, InstallKept DEF RemoveStatus
<1>17. CASE CotaRestarts
  <2>1. CotaTypeOK'
    BY <1>17, <1>a DEF CotaRestarts, NoQuery, NoCotaInstall, InstallOf, NoCompletion, CotaTypeOK
  <2>2. ToldInv'
    BY <1>17 DEF CotaRestarts, NoCompletion, ToldInv
  <2>. QED BY <1>17, <2>1, <2>2, NoInstallLeft DEF CotaRestarts, NoCotaInstall
<1>18. CASE cotaInstall' = NoCotaInstall /\ UNCHANGED <<queryVars, buffer, config, completionVars>>
  <2>1. CotaTypeOK'
    BY <1>18 DEF NoCotaInstall, InstallOf, CotaTypeOK
  <2>. QED BY <1>18, <2>1, ToldKept, NoInstallLeft DEF NoCotaInstall
<1>. QED
  BY <1>1, <1>2, <1>3, <1>4, <1>5, <1>6, <1>7, <1>8, <1>9, <1>10, <1>11, <1>12, <1>13, <1>14,
     <1>15, <1>16, <1>17, <1>18
     DEF HandlersNext, handlerVars, Begin, CotaBegins, CotaWorker, Completion, Restart

-----------------------------------------------------------------------------
(* Containers.                                                             *)

LEMMA ContInitially == ContInit => ContInv
<1>1. NoGlobals \in Globals /\ NoDetails \in DetailsShape
  BY DEF NoGlobals, NoDetails, Globals, DetailsShape, Unset, Absent
<1>. QED
  BY <1>1 DEF ContInit, ContInv, ContTypeOK, DetailsInv, RequestDescribesPackage,
     ContCompletedMeansInstalled

\* A parsed package fits the globals, and complete details are all of the request.
LEMMA ParsedRight ==
    ASSUME globals \in Globals, NEW d \in DetailsShape
    PROVE  Parsed(d) \in Globals /\ (Complete(d) => Parsed(d) = RequestOf(d))
  BY DEF Parsed, Keep, CheckSum, Complete, RequestOf, Globals, DetailsShape, Absent, Unset,
     ContainerNames, ContainerVersions, CheckSums, CutCheckSum

LEMMA ContPreserved == ContInv /\ [HandlersNext]_handlerVars => ContInv'
<1>. SUFFICES ASSUME ContInv, [HandlersNext]_handlerVars PROVE ContInv'
  OBVIOUS
<1>. USE DEF ContInv
<1>a. NoGlobals \in Globals /\ NoDetails \in DetailsShape
  BY DEF NoGlobals, NoDetails, Globals, DetailsShape, Unset, Absent
<1>1. CASE UNCHANGED contVars
  BY <1>1 DEF contVars, ContTypeOK, DetailsInv, RequestDescribesPackage, ContCompletedMeansInstalled
<1>2. CASE QueryContainer
  <2>1. globals' \in Globals
    BY <1>2 DEF QueryContainer, Keep, ContTypeOK, Globals
  <2>. QED
    BY <1>2, <2>1 DEF QueryContainer, ContTypeOK, DetailsInv, RequestDescribesPackage,
       ContCompletedMeansInstalled
<1>3. ASSUME NEW d \in Details, BeginContInstall(d) PROVE ContInv'
  <2>1. d \in DetailsShape
    BY DetailsAssumption
  <2>2. ContTypeOK'
    BY <1>3, <2>1, <1>a DEF BeginContInstall, ContTypeOK
  <2>3. DetailsInv'
    BY <1>3 DEF BeginContInstall, DetailsInv, Complete, NoDetails, Absent
  <2>. QED
    BY <1>3, <2>2, <2>3 DEF BeginContInstall, RequestDescribesPackage, ContCompletedMeansInstalled
<1>4. CASE ParseDetails
  <2>1. sent' \in Globals /\ globals' \in Globals
    BY <1>4, ParsedRight DEF ParseDetails, ContTypeOK
  <2>2. ContTypeOK' /\ DetailsInv' /\ ContCompletedMeansInstalled'
    BY <1>4, <2>1 DEF ParseDetails, ContTypeOK, DetailsInv, ContCompletedMeansInstalled
  <2>3. RequestDescribesPackage'
    <3>1. SUFFICES ASSUME Complete(package) PROVE sent' = RequestOf(package)
      BY <1>4 DEF ParseDetails, RequestDescribesPackage, Complete, RequestOf
    <3>2. detailsFile = package /\ sent' = Parsed(detailsFile)
      BY <1>4, <3>1 DEF ParseDetails, DetailsInv
    <3>. QED
      BY <3>1, <3>2, ParsedRight DEF ContTypeOK
  <2>. QED BY <2>2, <2>3
<1>5. CASE UpdateContainer
  <2>1. ContTypeOK' /\ DetailsInv' /\ RequestDescribesPackage'
    BY <1>5, <1>a DEF UpdateContainer, ContTypeOK, DetailsInv, RequestDescribesPackage
  <2>2. ContCompletedMeansInstalled'
    <3>1. SUFFICES ASSUME contInstall' = "INSTALL_COMPLETED", Complete(package)
                   PROVE  installed' = RequestOf(package)
      BY <1>5 DEF UpdateContainer, ContCompletedMeansInstalled, Complete, RequestOf
    <3>2. sent = RequestOf(package)
      BY <1>5, <3>1 DEF UpdateContainer, RequestDescribesPackage
    <3>3. installed' = sent
      BY <1>5, <3>1 DEF UpdateContainer, StatusOf
    <3>. QED BY <3>2, <3>3
  <2>. QED BY <2>1, <2>2
<1>6. CASE PostInstall
  BY <1>6, <1>a DEF PostInstall, ContTypeOK, DetailsInv, RequestDescribesPackage,
     ContCompletedMeansInstalled
<1>7. CASE NoInstall /\ UNCHANGED detailsFile /\ (globals' = NoGlobals \/ UNCHANGED globals)
  BY <1>7, <1>a DEF NoInstall, ContTypeOK, DetailsInv, RequestDescribesPackage,
     ContCompletedMeansInstalled
<1>. QED
  BY <1>1, <1>2, <1>3, <1>4, <1>5, <1>6, <1>7
     DEF HandlersNext, handlerVars, Begin, ContBegins, Restart, ContRestarts

-----------------------------------------------------------------------------
(* The theorems.                                                           *)

LEMMA HandlersInvariant == HandlersSpec => []HandlersInv
<1>1. HandlersInit => HandlersInv
  BY CotaInitially, ContInitially DEF HandlersInit, HandlersInv
<1>2. HandlersInv /\ [HandlersNext]_handlerVars => HandlersInv'
  BY CotaPreserved, ContPreserved DEF HandlersInv
<1>. QED BY <1>1, <1>2, PTL DEF HandlersSpec

\* Every variable of the handlers keeps its type (tmpl_updateagent.cpp:53-57,
\* 487-521), whatever the types, versions and details.
THEOREM HandlersTypeCorrect == HandlersSpec => []HandlersTypeOK
<1>1. HandlersInv => HandlersTypeOK
  BY DEF HandlersInv, CotaInv, ContInv, HandlersTypeOK
<1>. QED BY <1>1, HandlersInvariant, PTL

\* When a configuration install ends as completed, the manager has its version for
\* the type in the buffer shared with the message thread, which is the type of the
\* install when no completion ran beside it (tmpl_updateagent.cpp:453-464, 1462-1520).
THEOREM CotaCompletedIsApplied == HandlersSpec => []CotaCompletedMeansApplied
<1>1. HandlersInv => CotaCompletedMeansApplied
  BY DEF HandlersInv, CotaInv
<1>. QED BY <1>1, HandlersInvariant, PTL

\* No process tells the manager twice of the completion of one record
\* (tcu_updateagent.cpp:877-889).
THEOREM CompletesOnce == HandlersSpec => []CompletionOnce
<1>1. HandlersInv => CompletionOnce
  BY DEF HandlersInv, CotaInv, ToldInv, CompletionOnce
<1>. QED BY <1>1, HandlersInvariant, PTL

\* The request for a complete package is made of that package alone
\* (tmpl_updateagent.cpp:716-793).
THEOREM RequestsDescribePackages == HandlersSpec => []RequestDescribesPackage
<1>1. HandlersInv => RequestDescribesPackage
  BY DEF HandlersInv, ContInv
<1>. QED BY <1>1, HandlersInvariant, PTL

\* A container install that ends as completed was carried out as requested
\* (tmpl_updateagent.cpp:1391-1445).
THEOREM ContCompletedIsInstalled == HandlersSpec => []ContCompletedMeansInstalled
<1>1. HandlersInv => ContCompletedMeansInstalled
  BY DEF HandlersInv, ContInv
<1>. QED BY <1>1, HandlersInvariant, PTL
=============================================================================
