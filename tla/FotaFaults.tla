----------------------------- MODULE FotaFaults -----------------------------
(***************************************************************************)
(* The faults around the TCU update path.  Each instance chooses which of  *)
(* them may happen (Faults); a property says which ones it excludes.       *)
(*                                                                         *)
(* call_lost           a call fails and its reply reads as E_NO_ERROR, or  *)
(*                     a refusal is not recognised (the status list at     *)
(*                     tcu_updateagent.cpp:550-562 compares addresses)     *)
(* slow_begin          the manager answers a call before its state shows   *)
(*                     that it took the job                                *)
(* type_turns_invalid  the manager finds the type invalid after it took    *)
(*                     the update                                          *)
(* timer_add           diag_timer_add fails                                *)
(* tick_race           a timer callback is preempted inside timer_count--  *)
(* store_fails         a status file cannot be written                     *)
(* mv_fails            DeltaPackage.zip cannot be moved to the flash       *)
(*                     directory                                           *)
(* sm_down             the system manager gives no version after a reboot  *)
(***************************************************************************)
FaultKinds == {"call_lost", "slow_begin", "type_turns_invalid", "timer_add",
               "tick_race", "store_fails", "mv_fails", "sm_down"}

CONSTANT Faults

ASSUME FaultsAssumption == Faults \subseteq FaultKinds
=============================================================================
