------------------------------ MODULE TmlTimer ------------------------------
(***************************************************************************)
(* The watchdog of the agent's waits (tmpl_updateagent.cpp:63-65,796-847). *)
(* The worker that runs a handler arms one timer for a wait, on its stack; *)
(* the thread of the diag timer library runs the callbacks.  Both threads  *)
(* share timer_count and the two flags, without a lock.                    *)
(*                                                                         *)
(* A callback counts timer_count down and acts on the step from 1 to 0: it *)
(* deletes its timer, cancels the update (update timer only) and raises    *)
(* the flag.  The cancel is a remote call, so the worker runs in between;  *)
(* the rest is a few instructions, which fault "tick_race" tears apart.    *)
(* At 0 or below a callback does nothing: 0 stands for every such count.   *)
(***************************************************************************)
EXTENDS Naturals, FotaFaults

VARIABLES
    timerCount,             \* timer_count
    isUpdateTimerExpired,   \* is_update_timer_expired
    isSyncTimerExpired,     \* is_sync_timer_expired
    armed,                  \* the timer of the wait under way
    leaked,                 \* timers left armed by code that went on, by kind
    callback                \* where the timer thread is

timerVars == <<timerCount, isUpdateTimerExpired, isSyncTimerExpired, armed,
               leaked, callback>>

Ticks == 2                  \* timer.count_, tmpl_updateagent.cpp:824
Timers == {"update", "sync"}
NoTimer == "none"
NoneLeaked == [kind \in Timers |-> 0]
IdleCallback == [at |-> "idle", kind |-> NoTimer, seen |-> 0]

Callbacks ==
    [at : {"idle", "cancel", "flag"}, kind : Timers \cup {NoTimer}, seen : {0}]
    \cup [at : {"store"}, kind : Timers, seen : 1..Ticks]

TimerTypeOK ==
    /\ timerCount \in 0..Ticks
    /\ isUpdateTimerExpired \in BOOLEAN
    /\ isSyncTimerExpired \in BOOLEAN
    /\ armed \in Timers \cup {NoTimer}
    /\ leaked \in [Timers -> Nat]
    /\ callback \in Callbacks

TimerInit ==
    /\ timerCount = 0
    /\ isUpdateTimerExpired = FALSE
    /\ isSyncTimerExpired = FALSE
    /\ armed = NoTimer
    /\ leaked = NoneLeaked
    /\ callback = IdleCallback

\* The timers go with the process.
TimerRestarts ==
    /\ timerCount' = 0
    /\ isUpdateTimerExpired' = FALSE
    /\ isSyncTimerExpired' = FALSE
    /\ armed' = NoTimer
    /\ leaked' = NoneLeaked
    /\ callback' = IdleCallback

-----------------------------------------------------------------------------
(* What the worker does.                                                   *)

\* Mutant: the count is not set again for the next wait.
InitiateTimerKeepsCount ==
    /\ UNCHANGED timerCount
    /\ isUpdateTimerExpired' = FALSE
    /\ isSyncTimerExpired' = FALSE

\* Mutant: one callback too many is counted.
InitiateTimerOneMore ==
    /\ timerCount' = Ticks + 1
    /\ isUpdateTimerExpired' = FALSE
    /\ isSyncTimerExpired' = FALSE

InitiateTimer ==
    /\ timerCount' = Ticks
    /\ isUpdateTimerExpired' = FALSE
    /\ isSyncTimerExpired' = FALSE

\* The stack variable that held a timer still armed is gone.
LeakTimer ==
    leaked' = IF armed = NoTimer THEN leaked ELSE [leaked EXCEPT ![armed] = @ + 1]

\* A failed add is logged and the wait goes on without a timer.
DiagTimerAdd(kind) ==
    /\ LeakTimer
    /\ \/ armed' = kind
       \/ "timer_add" \in Faults /\ armed' = NoTimer

StartTimer(kind) == InitiateTimer /\ DiagTimerAdd(kind) /\ UNCHANGED callback

\* The fd of a timer whose add failed is never set: clear_timer may delete
\* another timer with it.
ClearsLeaked ==
    \/ UNCHANGED leaked
    \/ /\ "timer_add" \in Faults /\ armed = NoTimer
       /\ \E kind \in Timers : /\ leaked[kind] > 0
                               /\ leaked' = [leaked EXCEPT ![kind] = @ - 1]

\* Mutant: the flag is reset but the timer is not deleted.
ClearTimerKeepsArmed(kind) ==
    /\ UNCHANGED armed
    /\ IF kind = "update"
       THEN isUpdateTimerExpired' = FALSE /\ UNCHANGED isSyncTimerExpired
       ELSE isSyncTimerExpired' = FALSE /\ UNCHANGED isUpdateTimerExpired
    /\ UNCHANGED <<timerCount, callback, leaked>>

ClearTimer(kind) ==
    /\ armed' = NoTimer
    /\ IF kind = "update"
       THEN isUpdateTimerExpired' = FALSE /\ UNCHANGED isSyncTimerExpired
       ELSE isSyncTimerExpired' = FALSE /\ UNCHANGED isUpdateTimerExpired
    /\ ClearsLeaked
    /\ UNCHANGED <<timerCount, callback>>

\* The handler returns and leaves its timer in the library.
AbandonTimer ==
    /\ LeakTimer
    /\ armed' = NoTimer
    /\ UNCHANGED <<timerCount, isUpdateTimerExpired, isSyncTimerExpired, callback>>

-----------------------------------------------------------------------------
(* What the timer thread does.                                             *)

Flags == <<isUpdateTimerExpired, isSyncTimerExpired>>

\* Mutant: the update callback forgets its flag.
RaiseFlagSyncOnly(kind) ==
    IF kind = "update"
    THEN UNCHANGED Flags
    ELSE isSyncTimerExpired' = TRUE /\ UNCHANGED isUpdateTimerExpired

RaiseFlag(kind) ==
    IF kind = "update"
    THEN isUpdateTimerExpired' = TRUE /\ UNCHANGED isSyncTimerExpired
    ELSE isSyncTimerExpired' = TRUE /\ UNCHANGED isUpdateTimerExpired

At(point, kind) == [at |-> point, kind |-> kind, seen |-> 0]

\* What a callback does once timer_count-- == 1 held and its timer is deleted.
Expire(kind) ==
    \/ kind = "update" /\ callback' = At("cancel", kind) /\ UNCHANGED Flags
    \/ kind = "sync" /\ callback' = IdleCallback /\ RaiseFlag(kind)
    \/ "tick_race" \in Faults /\ kind = "sync" /\ callback' = At("flag", kind) /\ UNCHANGED Flags

TimerTick ==
    /\ armed # NoTimer /\ callback = IdleCallback /\ timerCount > 0
    /\ timerCount' = timerCount - 1
    /\ \/ timerCount = 1 /\ armed' = NoTimer /\ Expire(armed)
       \/ timerCount # 1 /\ UNCHANGED <<armed, callback, Flags>>
    /\ UNCHANGED leaked

\* The callback of a leaked timer reads the fd to delete from a dead stack
\* frame: its own, that of the wait under way, or none.
LeakedTick ==
    /\ callback = IdleCallback /\ timerCount > 0
    /\ timerCount' = timerCount - 1
    /\ \E kind \in Timers :
        /\ leaked[kind] > 0
        /\ \/ /\ timerCount = 1 /\ Expire(kind)
              /\ \/ leaked' = [leaked EXCEPT ![kind] = @ - 1] /\ UNCHANGED armed
                 \/ armed' = NoTimer /\ UNCHANGED leaked
                 \/ UNCHANGED <<armed, leaked>>
           \/ timerCount # 1 /\ UNCHANGED <<armed, leaked, callback, Flags>>

\* The unsynchronised decrement: loaded here, stored by TickStores, with any
\* step of the worker in between, which may have replaced the timer to delete.
TickLoads ==
    /\ "tick_race" \in Faults
    /\ armed # NoTimer /\ callback = IdleCallback /\ timerCount > 0
    /\ callback' = [at |-> "store", kind |-> armed, seen |-> timerCount]
    /\ UNCHANGED <<timerCount, Flags, armed, leaked>>

TickStores ==
    /\ callback.at = "store"
    /\ timerCount' = callback.seen - 1
    /\ \/ callback.seen = 1 /\ armed' \in {armed, NoTimer} /\ Expire(callback.kind)
       \/ callback.seen # 1 /\ callback' = IdleCallback /\ UNCHANGED <<armed, Flags>>
    /\ UNCHANGED leaked

\* The cancel call of update_timer_cb has returned; the action that composes
\* this one with the OTA manager makes the call.
CancelReturns ==
    /\ callback.at = "cancel"
    /\ callback' = At("flag", callback.kind)
    /\ UNCHANGED <<timerCount, Flags, armed, leaked>>

FlagExpiry ==
    /\ callback.at = "flag"
    /\ callback' = IdleCallback
    /\ RaiseFlag(callback.kind)
    /\ UNCHANGED <<timerCount, armed, leaked>>
=============================================================================
