------------------------------ MODULE Scheduler ------------------------------
(***************************************************************************)
(* The domain scheduler (src/src/system/core/scheduler.h) as a function of *)
(* the time at which it is asked.  Times are 32-bit counts of milliseconds *)
(* that wrap around after 49 days; here they count modulo Cycle.           *)
(***************************************************************************)
EXTENDS Integers

CONSTANTS
  Cycle,     \* 2^32
  Interval   \* interval_ms; 0, which is always due, is not used

ASSUME CycleAssumption    == Cycle \in Nat \ {0} /\ Cycle % 2 = 0
ASSUME IntervalAssumption == Interval \in Nat \ {0}

Time == 0 .. Cycle - 1

\* TimeMonotonicMs32 after a while.
After(time, while) == (time + while) % Cycle

\* (int32_t) of a 32-bit difference.
Signed(diff) == IF diff < Cycle \div 2 THEN diff ELSE diff - Cycle

\* HxSchedulerInit without a phase offset, and HxSchedulerDue when it fires:
\* the next deadline is counted from now.
FirstDue(now) == now
NextDue(now)  == After(now, Interval)

\* Mistake: times are compared as they are.
DuePlain(next, now) == now >= next

\* HxSchedulerDue.
Due(next, now) == Signed((now - next) % Cycle) >= 0
=============================================================================
