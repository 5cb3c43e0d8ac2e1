------------------------------- MODULE Handlers -------------------------------
(***************************************************************************)
(* The handlers of the types that are not firmware: libua's worker runs    *)
(* one version query or install at a time, of a configuration (Cota) or a  *)
(* container (Container), as get_tcu_version and do_tcu_install dispatch   *)
(* by type; the message thread reports completed configurations beside it. *)
(***************************************************************************)
EXTENDS Cota, Container

handlerVars == <<cotaVars, contVars>>

\* The type invariant of both.
HandlersTypeOK == CotaTypeOK /\ ContTypeOK

HandlersInit == CotaInit /\ ContInit

\* The worker is in no handler.
Free == /\ asking.at = "out" /\ cotaInstall.result \notin Installing
        /\ contInstall \notin {"parse", "call"}

CotaBegins == \E t \in CotaTypes : AskVersion(t) \/ \E v \in Versions : BeginCotaInstall(t, v)

ContBegins == QueryContainer \/ \E d \in Details : BeginContInstall(d)

\* A handler begins; what is known of the last install of the other kind goes.
Begin ==
    /\ Free
    /\ \/ CotaBegins /\ NoInstall /\ UNCHANGED <<globals, detailsFile>>
       \/ /\ ContBegins
          /\ cotaInstall' = NoCotaInstall
          /\ UNCHANGED <<queryVars, buffer, config, completionVars>>

\* post_install of a configuration removes <cache>/cms_config, that of a container
\* its directory.
PostInstall ==
    /\ Free /\ contInstall \in {"INSTALL_COMPLETED", "INSTALL_FAILED"}
    /\ detailsFile' = NoDetails
    /\ UNCHANGED <<globals, package, contInstall, sent, installed>>

Restart == CotaRestarts /\ ContRestarts

HandlersNext ==
    \/ Begin
    \/ (CotaWorker \/ Completion) /\ UNCHANGED contVars
    \/ (ParseDetails \/ UpdateContainer \/ PostInstall) /\ UNCHANGED cotaVars
    \/ Restart

HandlersSpec == HandlersInit /\ [][HandlersNext]_handlerVars
=============================================================================
