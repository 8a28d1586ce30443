----------------------------- MODULE Ros1Polling -----------------------------
(***************************************************************************)
(* How long the ROS 1 nodelet waits between two updates of the topics: the *)
(* end of updateAdvertisedTopics (ros1_foxglove_bridge_nodelet.cpp), which *)
(* arms the update timer with a period that backs off from                 *)
(* MIN_UPDATE_PERIOD_MS to max_update_ms.                                  *)
(*                                                                         *)
(* What an update does, with the timer fired and armed and the master that *)
(* may fail to answer, is in Ros1Bridge.                                   *)
(***************************************************************************)
EXTENDS Integers

CONSTANTS
  MaxUpdateParams, \* values of the parameter max_update_ms, an int
  Bits             \* width of size_t

MIN_UPDATE_PERIOD_MS == 100
INT_MAX == 2147483647

ASSUME PollingAssumption ==
  /\ MaxUpdateParams \subseteq (-INT_MAX - 1)..INT_MAX
  /\ Bits \in Nat \ {0}

VARIABLES
  maxUpdateMs,     \* _maxUpdateMs
  updateCount,     \* _updateCount, which stops at Bits: see Shifted
  nextUpdateMs     \* the period of the timer, 0 before there is one

pollingVars == <<maxUpdateMs, updateCount, nextUpdateMs>>

-----------------------------------------------------------------------------
AtMost(x, y) == IF x < y THEN x ELSE y
AtLeast(x, y) == IF x > y THEN x ELSE y

\* static_cast<size_t>(n) of an int, as far as it is compared with the result of
\* a shift: what a negative one becomes is not below any of them.
SizeT(n) == IF n < 0 THEN INT_MAX ELSE n

\* 2^k, as far as it is compared with an int.
PowerOfTwo(k) == IF k < 31 THEN 2^k ELSE INT_MAX

\* Mutant: the shift is made in an int.
ShiftedInt(n) ==
  IF n < 32 THEN {PowerOfTwo(n)} ELSE {0} \union {PowerOfTwo(k) : k \in 0..31}

\* What size_t(1) << n may be.  Shifting by the width or more is undefined: the
\* machine masks the shift count, or the result is 0.  No count beyond the
\* width is told from another.
Shifted(n) ==
  IF n < Bits THEN {PowerOfTwo(n)}
              ELSE {0} \union {PowerOfTwo(k) : k \in 0..(Bits - 1)}

\* Mutant: the backoff is not truncated.
NextPeriodsUntruncated(n) ==
  {AtLeast(MIN_UPDATE_PERIOD_MS, x) : x \in Shifted(n)}

NextPeriods(n) ==
  {AtLeast(MIN_UPDATE_PERIOD_MS, AtMost(x, maxUpdateMs)) : x \in Shifted(n)}

-----------------------------------------------------------------------------
\* onInit reads the parameter and calls updateAdvertisedTopics the first time.
PollingInit ==
  /\ maxUpdateMs \in {SizeT(n) : n \in MaxUpdateParams}
  /\ updateCount = 0
  /\ nextUpdateMs = 0

\* An update has been made: the timer is armed for the next one.
ScheduleNextUpdate ==
  /\ updateCount' = AtMost(updateCount + 1, Bits)
  /\ nextUpdateMs' \in NextPeriods(updateCount')
  /\ UNCHANGED maxUpdateMs

PollingNext == ScheduleNextUpdate

PollingSpec == PollingInit /\ [][PollingNext]_pollingVars

-----------------------------------------------------------------------------
(* Properties. *)

\* The comment on the schedule: between MIN_UPDATE_PERIOD_MS and _maxUpdateMs
\* (or the minimum, if the maximum is smaller), for every count, those included
\* for which the shift is undefined, and for a parameter of 0, below the minimum
\* or negative.
PeriodInRange ==
  updateCount > 0 =>
    nextUpdateMs \in MIN_UPDATE_PERIOD_MS ..
                       AtLeast(MIN_UPDATE_PERIOD_MS, maxUpdateMs)

\* The same comment: a truncated exponential backoff.  Its period never gets
\* shorter while the shift is defined; from the 64th update on, when the count
\* has reached the width of size_t, it may fall back to any period in range.
BackoffGrows ==
  [][updateCount' < Bits => nextUpdateMs' >= nextUpdateMs]_pollingVars
=============================================================================
