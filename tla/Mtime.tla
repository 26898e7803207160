--------------------------------- MODULE Mtime ---------------------------------
(***************************************************************************)
(* rust/src/mtime.rs: file times as they go over the wire.  A SystemTime   *)
(* is a number of nanoseconds from 1970 on, negative before; ticks count   *)
(* NanosPerTick each from the year 1 on, EpochDiffSecs earlier.  The three *)
(* constants of the code are parameters.                                   *)
(***************************************************************************)
EXTENDS Integers

CONSTANTS TicksPerSec, NanosPerTick, EpochDiffSecs

ASSUME MtimeAssumption ==
    /\ TicksPerSec \in Nat \ {0}
    /\ NanosPerTick \in Nat \ {0}
    /\ EpochDiffSecs \in Nat

NanosPerSec == TicksPerSec * NanosPerTick
EpochTicks == EpochDiffSecs * TicksPerSec

\* Variant: the ticks that are no whole second are lost.
FromTicksWhole(ticks) == (ticks \div TicksPerSec - EpochDiffSecs) * NanosPerSec

\* ticks_to_systemtime, of ticks from the year 1 on: a whole number of seconds
\* from 1970, before or after it, and the rest of the ticks on top.
FromTicks(ticks) ==
    (ticks \div TicksPerSec - EpochDiffSecs) * NanosPerSec
        + (ticks % TicksPerSec) * NanosPerTick

\* systemtime_to_ticks: after 1970 by seconds and nanoseconds, before it by the
\* distance to 1970; both drop what is less than a tick, towards 1970.
ToTicks(nanos) ==
    IF nanos >= 0
    THEN (nanos \div NanosPerSec + EpochDiffSecs) * TicksPerSec
             + (nanos % NanosPerSec) \div NanosPerTick
    ELSE -((-nanos) \div NanosPerTick) - EpochDiffSecs * TicksPerSec
================================================================================
