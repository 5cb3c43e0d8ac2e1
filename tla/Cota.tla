-------------------------------- MODULE Cota --------------------------------
(***************************************************************************)
(* Configuration updates over the air: the version query and the install   *)
(* of the types /TML/TCU/COTA/... (tmpl_updateagent.cpp:487-521, 576-606,  *)
(* 1446-1521) by the worker, and the completion that the message thread    *)
(* reports to the configuration manager (2100-2170, tcu_updateagent.cpp:   *)
(* 803-892) after a vehicle-update-status message.  The two threads share  *)
(* the status file, which outlives the process, and the static buffer in   *)
(* which extractCotaType (428-464) hands both of them their type.          *)
(*                                                                         *)
(* The configuration manager is external: a call reaches it or not, and    *)
(* its answer comes back or not.  A call without an answer leaves the out  *)
(* parameter at the default literal, which is the one of success.          *)
(***************************************************************************)
EXTENDS Naturals

CONSTANTS
    CotaTypes,      \* the types that libua knows
    KnownTypes,     \* those among them that getCotaTypeFromString knows
    Versions        \* the versions of a configuration

ASSUME CotaAssumption == KnownTypes \subseteq CotaTypes

NoType == "none"
NoCotaVersion == "dummy"

ASSUME NamesAssumption == NoType \notin CotaTypes /\ NoCotaVersion \notin Versions

VARIABLES
    record,         \* the type_handler in COTA_STATUS_FILE, if the file exists
    buffer,         \* cotaType, the static buffer extractCotaType returns
    asking,         \* the query under way: its place, type and what it read of the file
    config,         \* the configuration manager: the version of each type
    cotaInstall,    \* the last install, or the one under way
    completion,     \* the completion under way: its place and type
    told,           \* this process told the manager since the record was written
    ack             \* the manager's answer to the completion, and what the agent makes of it

cotaVars == <<record, buffer, asking, config, cotaInstall, completion, told, ack>>

\* A reply of the manager: whether the call succeeded, and the value read.
Replies(success, failure) ==
    {[ok |-> TRUE, value |-> success], [ok |-> TRUE, value |-> failure],
     [ok |-> FALSE, value |-> success]}

UpdateReplies == Replies("UPDATE_SUCCESS", "UPDATE_FAILED")
StateReplies == Replies("SETCOTASTATE_SUCCESS", "SETCOTASTATE_FAILURE")

NoQuery == [at |-> "out", type |-> NoType, read |-> NoType]
NoCompletion == [at |-> "out", type |-> NoType]
NoAck == [reply |-> [ok |-> TRUE, value |-> "SETCOTASTATE_SUCCESS"], result |-> "none"]

\* An install, with the type updateConfig was called for and, for the history,
\* whether no completion wrote the buffer beside it.
InstallOf(t, v, result) ==
    [type |-> t, version |-> v, result |-> result, called |-> NoType, alone |-> TRUE]

NoCotaInstall == InstallOf(NoType, NoCotaVersion, "none")

\* The places of an install, before it has a result.
Installing == {"clear", "fill", "call"}

CotaTypeOK ==
    /\ record \in CotaTypes \cup {NoType}
    /\ buffer \in CotaTypes \cup {NoType}
    /\ asking \in [at : {"out", "write", "clear", "fill"}, type : CotaTypes \cup {NoType},
                   read : CotaTypes \cup {NoType}]
    /\ config \in [CotaTypes -> Versions]
    /\ cotaInstall \in [type : CotaTypes \cup {NoType}, version : Versions \cup {NoCotaVersion},
                        result : Installing \cup {"none", "INSTALL_COMPLETED", "INSTALL_FAILED"},
                        called : CotaTypes \cup {NoType}, alone : BOOLEAN]
    /\ completion \in [at : {"out", "clear", "fill", "check", "call", "remove"},
                       type : CotaTypes \cup {NoType}]
    /\ told \in BOOLEAN
    /\ ack \in [reply : StateReplies, result : {"none", "E_UA_OK", "E_UA_ERR"}]

CotaInit ==
    /\ record = NoType /\ buffer = NoType
    /\ asking = NoQuery
    /\ config \in [CotaTypes -> Versions]
    /\ cotaInstall = NoCotaInstall
    /\ completion = NoCompletion
    /\ told = FALSE /\ ack = NoAck

queryVars == <<record, asking, told>>
completionVars == <<completion, ack>>

-----------------------------------------------------------------------------
(* extractCotaType: it clears its buffer, fills it, and returns a pointer to *)
(* it.  The worker and the message thread share the buffer without a lock. *)

ClearBuffer == buffer' = NoType

\* A buffer that is not clear any more is being filled by the other thread too:
\* what comes out may be neither type, and then reads as none.
FillBuffer(t) == buffer' \in {t} \cup (IF buffer = NoType THEN {} ELSE {NoType})

-----------------------------------------------------------------------------
(* The version query.                                                      *)

\* write_cota_status_if_needed reads the file ...
AskVersion(t) ==
    /\ asking.at = "out"
    /\ asking' = [at |-> "write", type |-> t, read |-> record]
    /\ UNCHANGED <<record, buffer, told, config, cotaInstall, completionVars>>

\* ... and writes it when it is missing or names another type.
WriteStatus ==
    /\ asking.at = "write"
    /\ asking' = [asking EXCEPT !.at = "clear", !.read = NoType]
    /\ \/ asking.read # asking.type /\ record' = asking.type /\ told' = FALSE
       \/ asking.read = asking.type /\ UNCHANGED <<record, told>>
    /\ UNCHANGED <<buffer, config, cotaInstall, completionVars>>

ClearForQuery ==
    /\ asking.at = "clear"
    /\ asking' = [asking EXCEPT !.at = "fill"]
    /\ ClearBuffer
    /\ UNCHANGED <<record, told, config, cotaInstall, completionVars>>

\* cota_get_version answers the version of the type or, when its call fails or the
\* type is not known, none: the default is reported then.
ReportVersion ==
    /\ asking.at = "fill"
    /\ FillBuffer(asking.type)
    /\ asking' = NoQuery
    /\ UNCHANGED <<record, told, config, cotaInstall, completionVars>>

-----------------------------------------------------------------------------
(* The install.                                                            *)

CotaFails == cotaInstall' = InstallOf(NoType, NoCotaVersion, "INSTALL_FAILED")

\* A package that is missing or does not unzip fails before its type is looked at.
BeginCotaInstall(t, v) ==
    /\ cotaInstall.result \notin Installing
    /\ cotaInstall' = InstallOf(t, v, "clear") \/ CotaFails
    /\ UNCHANGED <<queryVars, buffer, config, completionVars>>

ClearForInstall ==
    /\ cotaInstall.result = "clear"
    /\ cotaInstall' = [cotaInstall EXCEPT !.result = "fill"]
    /\ ClearBuffer
    /\ UNCHANGED <<queryVars, config, completionVars>>

FillForInstall ==
    /\ cotaInstall.result = "fill"
    /\ cotaInstall' = [cotaInstall EXCEPT !.result = "call"]
    /\ FillBuffer(cotaInstall.type)
    /\ UNCHANGED <<queryVars, config, completionVars>>

\* Without the manager, or with a type it does not know in the buffer.
UpdateRefused ==
    /\ cotaInstall.result = "call"
    /\ CotaFails
    /\ UNCHANGED <<queryVars, buffer, config, completionVars>>

\* Mutant: updateConfig looks at the update status alone.
UpdateSucceededByStatus(reply) == reply.value = "UPDATE_SUCCESS"

\* updateConfig returns 0 for this reply, -2 or -3 for the others.
UpdateSucceeded(reply) == reply.ok /\ reply.value = "UPDATE_SUCCESS"

\* The manager applies the file, to the type the buffer holds by now, or does not;
\* it says so, unless the answer is lost.  A failure is written to
\* cota_update_status.txt, which nothing reads.
UpdateConfig ==
    /\ cotaInstall.result = "call" /\ buffer \in KnownTypes
    /\ \E reply \in UpdateReplies, applied \in BOOLEAN :
         /\ reply.ok => applied = (reply.value = "UPDATE_SUCCESS")
         /\ config' = IF applied THEN [config EXCEPT ![buffer] = cotaInstall.version] ELSE config
         /\ \/ /\ UpdateSucceeded(reply)
               /\ cotaInstall' = [cotaInstall EXCEPT !.result = "INSTALL_COMPLETED",
                                                     !.called = buffer]
            \/ ~UpdateSucceeded(reply) /\ CotaFails
    /\ UNCHANGED <<queryVars, buffer, completionVars>>

-----------------------------------------------------------------------------
(* The completion: set_cota_reboot_API.                                    *)

\* Without a record nothing is sent.
ReadTypeHandler ==
    /\ completion.at = "out"
    /\ record # NoType
    /\ completion' = [at |-> "clear", type |-> record]
    /\ UNCHANGED <<queryVars, buffer, config, cotaInstall, ack>>

\* The buffer is written beside whatever install is under way.
Disturb == cotaInstall' = [cotaInstall EXCEPT !.alone = @ /\ cotaInstall.result \notin Installing]

ClearForCompletion ==
    /\ completion.at = "clear"
    /\ completion' = [completion EXCEPT !.at = "fill"]
    /\ ClearBuffer /\ Disturb
    /\ UNCHANGED <<queryVars, config, ack>>

FillForCompletion ==
    /\ completion.at = "fill"
    /\ completion' = [at |-> "check", type |-> NoType]
    /\ FillBuffer(completion.type) /\ Disturb
    /\ UNCHANGED <<queryVars, config, ack>>

\* is_cota_already_set reads the file again; handleCOTAStatusUpdate takes the type
\* from the buffer, and sends nothing for one it does not know.
IsCotaAlreadySet ==
    /\ completion.at = "check"
    /\ \/ /\ record # NoType /\ buffer \in KnownTypes
          /\ completion' = [completion EXCEPT !.at = "call"]
       \/ (record = NoType \/ buffer \notin KnownTypes) /\ completion' = NoCompletion
    /\ UNCHANGED <<queryVars, buffer, config, cotaInstall, ack>>

\* Mutant: a failed call keeps the file for another try.
AfterCompletionKeeps(reply) == IF reply.ok THEN "remove" ELSE "out"

AfterCompletion(reply) == "remove"

\* The result is that of the call; what the manager answered is not looked at.
SetCotaCompletionStatus ==
    /\ completion.at = "call"
    /\ \E reply \in StateReplies, reached \in BOOLEAN :
         /\ reply.ok => reached
         /\ told' = (told \/ reached)
         /\ ack' = [reply |-> reply, result |-> IF reply.ok THEN "E_UA_OK" ELSE "E_UA_ERR"]
         /\ completion' = [completion EXCEPT !.at = AfterCompletion(reply)]
    /\ UNCHANGED <<record, buffer, asking, config, cotaInstall>>

RemoveStatus ==
    /\ completion.at = "remove"
    /\ completion' = NoCompletion
    /\ record' = NoType
    /\ ack' = NoAck
    /\ UNCHANGED <<buffer, asking, told, config, cotaInstall>>

Completion ==
    \/ ReadTypeHandler \/ ClearForCompletion \/ FillForCompletion
    \/ IsCotaAlreadySet \/ SetCotaCompletionStatus \/ RemoveStatus

CotaWorker ==
    \/ WriteStatus \/ ClearForQuery \/ ReportVersion
    \/ ClearForInstall \/ FillForInstall \/ UpdateRefused \/ UpdateConfig

\* The process goes down; the file and the manager's configuration stay.
CotaRestarts ==
    /\ asking' = NoQuery /\ completion' = NoCompletion
    /\ cotaInstall' = NoCotaInstall /\ buffer' = NoType
    /\ told' = FALSE /\ ack' = NoAck
    /\ UNCHANGED <<record, config>>

-----------------------------------------------------------------------------
(* Properties.                                                             *)

\* An install ends as completed only when the manager has the deployed version,
\* whatever call is refused, lost, or applied without its answer coming back
\* (tmpl_updateagent.cpp:1482-1520): a lost answer reads UPDATE_SUCCESS.  It has
\* it for the type in the buffer, which is that of the install unless a completion
\* wrote the buffer beside it: never a type left by a query or by another install.
CotaCompletedMeansApplied ==
    cotaInstall.result = "INSTALL_COMPLETED" =>
      /\ config[cotaInstall.called] = cotaInstall.version
      /\ cotaInstall.alone => cotaInstall.called = cotaInstall.type

\* "COTA update successful!" (tmpl_updateagent.cpp:1487): an install that ends as
\* completed has updated the type of its package.
CotaUpdateSuccessful ==
    cotaInstall.result = "INSTALL_COMPLETED"
      => config[cotaInstall.type] = cotaInstall.version

\* A process tells the manager of a completion at most once for a record, also
\* when the call fails after it reached the manager, and however a version query
\* writes the record in between (tcu_updateagent.cpp:877-889).
CompletionOnce == completion.at = "call" => ~told

\* "CMS acknowledged COTA completion: SUCCESS" (tcu_updateagent.cpp:885): the
\* completion is taken for done only when the manager's answer says success
\* ("param[out] : value : Enumeration containing the status of the response",
\* ConfigurationManagerProxy.hpp:234).
AcknowledgedMeansSuccess ==
    ack.result = "E_UA_OK" => ack.reply.value = "SETCOTASTATE_SUCCESS"
=============================================================================
