------------------------------- MODULE DbLaw -------------------------------
(***************************************************************************)
(* The range-and-step arithmetic of crates/core/src/law.rs, on whole units *)
(* of a tenth (or any other fraction) of a decibel.  A law is a record     *)
(* [min, max, step]: a control that holds min, min + step, ..., max.       *)
(***************************************************************************)
EXTENDS Integers

\* A law the adapters declare: a non-empty grid anchored at min.
IsLaw(law) == /\ law.min \in Int /\ law.max \in Int /\ law.step \in Int
              /\ law.step > 0 /\ law.min < law.max
              /\ (law.max - law.min) % law.step = 0

Clamp(lo, hi, x) == IF x < lo THEN lo ELSE IF x > hi THEN hi ELSE x

\* Mutant: truncates to the grid point below.
IndexBelow(law, x) == (Clamp(law.min, law.max, x) - law.min) \div law.step

\* DbLaw::index - the grid point x lands on, counted from min.  f64::round
\* rounds a half away from zero, and the operand is never negative.
Index(law, x) ==
    (2 * (Clamp(law.min, law.max, x) - law.min) + law.step) \div (2 * law.step)

\* DbLaw::at - the value of a grid point.
At(law, i) == Clamp(law.min, law.max, law.min + i * law.step)

\* DbLaw::quantize - the nearest value the control can hold.
Quantize(law, x) == At(law, Index(law, x))

\* DbLaw::nudge - where a relative move lands, and the move that really is.
NudgeSteps(law, current, delta) ==
    Index(law, At(law, Index(law, current)) + delta) - Index(law, current)
NudgeTarget(law, current, delta) ==
    At(law, Index(law, current) + NudgeSteps(law, current, delta))

\* Mutant: takes the move asked for as the move made.
NudgeAppliedAsAsked(law, current, delta) == delta
NudgeApplied(law, current, delta) == NudgeSteps(law, current, delta) * law.step

\* DbLaw::moves - whether the move is at least half a step.
Moves(law, delta) == 2 * (IF delta < 0 THEN -delta ELSE delta) >= law.step
=============================================================================
