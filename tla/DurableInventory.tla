-------------------------- MODULE DurableInventory --------------------------
(***************************************************************************)
(* What the install of an inventory promises, without files: one inventory *)
(* is in use; it is replaced as a whole; a power failure may take back a   *)
(* replacement that is still on its way to the medium, and nothing else;   *)
(* and an install is reported complete only for the inventory in use, once *)
(* no power failure can take it back.                                      *)
(***************************************************************************)
CONSTANTS
    Versions,       \* the inventories
    NoInventory,    \* in use while there is none
    Nothing         \* no replacement to take back, no report

VARIABLES
    inUse,      \* the inventory the agent answers from
    undo,       \* the one a power failure may still bring back
    complete    \* the inventory the last install was reported complete for

durableVars == <<inUse, undo, complete>>

DurableInit == inUse \in Versions \cup {NoInventory} /\ undo = Nothing /\ complete = Nothing

Begin == complete' = Nothing /\ UNCHANGED <<inUse, undo>>

Replace ==
    /\ complete = Nothing /\ undo = Nothing /\ inUse \in Versions
    /\ undo' = inUse /\ inUse' \in Versions
    /\ UNCHANGED complete

Settle == undo' = Nothing /\ UNCHANGED <<inUse, complete>>

Report == undo = Nothing /\ complete' = inUse /\ UNCHANGED <<inUse, undo>>

PowerFails ==
    /\ inUse' = inUse \/ (undo # Nothing /\ inUse' = undo)
    /\ undo' = Nothing /\ complete' = Nothing

DurableNext == Begin \/ Replace \/ Settle \/ Report \/ PowerFails

DurableSpec == DurableInit /\ [][DurableNext]_durableVars
=============================================================================
