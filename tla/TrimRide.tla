------------------------------ MODULE TrimRide ------------------------------
(***************************************************************************)
(* One follower's books while the leader rides its gain: settle() in       *)
(* gain_lock.rs over DbLaw::nudge in law.rs, on a trim with a coarse step  *)
(* and a range the ride goes beyond.                                       *)
(***************************************************************************)
EXTENDS DbLaw

CONSTANTS Law,      \* the trim's grid
          Starts,   \* where the trim may stand at the lock
          Steps,   \* the moves the leader makes, turned round
          Reach     \* bound: how far the leader strays from where it started

ASSUME LawAssumption == /\ IsLaw(Law) /\ Reach \in Nat /\ Steps \subseteq Int
                        /\ \A x \in Starts : x \in Int /\ Quantize(Law, x) = x

VARIABLES start, trim, ridden, owed
rideVars == <<start, trim, ridden, owed>>

RideInit == start \in Starts /\ trim = start /\ ridden = 0 /\ owed = 0

\* Mutant: what the trim could not take is forgotten.
Forgotten(due) == 0
Unpaid(due) == due - NudgeApplied(Law, trim, due)

\* observe() adds a move to what is owed, and settle() offers all of that.
Offer(move) ==
    LET due == owed + move IN
    /\ ridden + move \in -Reach..Reach
    /\ ridden' = ridden + move
    /\ trim' = NudgeTarget(Law, trim, due)
    /\ owed' = Unpaid(due)
    /\ UNCHANGED start

Ride == \E move \in Steps : Offer(move)
RideSpec == RideInit /\ [][Ride]_rideVars

Size(x) == IF x < 0 THEN -x ELSE x

\* The change DbLaw::nudge reports is the change it made: what was asked for
\* is what the trim moved and what is still owed.
Accounted == trim - start = ridden - owed

\* DbLaw::nudge is "short of delta_db at a range limit and differs by up to
\* half a step everywhere else".
ShortOnlyAtALimit ==
    \/ 2 * Size(owed) <= Law.step
    \/ owed > 0 /\ trim = Law.max
    \/ owed < 0 /\ trim = Law.min

\* "When the leader comes back down, a trim that was pinned at its limit is
\* not pushed past where it started", whatever the ride in between: not by
\* more than the half step the grid costs.
NoCreep == ridden = 0 => 2 * Size(trim - start) <= Law.step

\* Through any ride of the leader the books are kept, what the trim is short of is
\* what its range or its grid costs, and nothing creeps.
KeepsAccounts == Accounted /\ ShortOnlyAtALimit /\ NoCreep
=============================================================================
