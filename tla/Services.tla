------------------------------ MODULE Services ------------------------------
(***************************************************************************)
(* The vendor services behind the proxies of tcu_updateagent.cpp, as the   *)
(* agent's waits and calls find them.  A service comes and goes on its     *)
(* own.  A synchronous call of the generated proxies fails at once while   *)
(* the service is away, and may fail, by a time-out or a broken            *)
(* connection, while it is there.                                          *)
(***************************************************************************)
VARIABLE up     \* the services that are available

Names == {"OTA", "SM", "SDM"}

ServicesTypeOK == up \subseteq Names

\* isAvailable() of a proxy.
IsAvailable(service) == service \in up

\* The ways a call can end: with callStatus SUCCESS (TRUE), or another (FALSE).
CallStatus(service) == {FALSE} \cup {ok \in {TRUE} : IsAvailable(service)}

ServiceChanges ==
    \E service \in Names : up' \in {up \cup {service}, up \ {service}} \ {up}
=============================================================================
