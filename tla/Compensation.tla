---------------------------- MODULE Compensation ----------------------------
(***************************************************************************)
(* What the gain lock promises, desks and messages aside: a ledger of what *)
(* each follower was given and is owed against the leader gain heard since *)
(* the lock.  Abstract specification of gain_lock.rs, implemented by       *)
(* GainLock.                                                               *)
(***************************************************************************)
EXTENDS Integers

CONSTANTS Signals, Followers, SignalOf, None

VARIABLES engaged,  \* the lock is on
          heard,    \* heard[s]: the leader's gain, None before it is known
          since,    \* since[s]: its gain when the lock was engaged, None if unarmed
          given,    \* given[f]: the net move the lock has made on f
          owed      \* owed[f]: the move f is still to be given

ledger == <<engaged, heard, since, given, owed>>

Size(x) == IF x < 0 THEN -x ELSE x

Init ==
    /\ engaged = FALSE
    /\ heard = [s \in Signals |-> None] /\ since = heard
    /\ given = [f \in Followers |-> 0] /\ owed = given

\* The books of a lock start empty, every armed signal at the gain heard.
Engage ==
    /\ engaged'
    /\ given' = [f \in Followers |-> 0] /\ owed' = given'
    /\ \A s \in Signals : since'[s] \in {None, heard'[s]}

Release == engaged /\ ~engaged' /\ UNCHANGED <<heard, since, given, owed>>

\* Another desk is to lead: what was known of the old one may be forgotten,
\* and so may the books of a desk that no longer follows.
Elect ==
    /\ ~engaged /\ ~engaged'
    /\ \A s \in Signals : \/ heard'[s] = heard[s] /\ since'[s] = since[s]
                          \/ heard'[s] = None /\ since'[s] = None
    /\ \A f \in Followers : \/ given'[f] = given[f] /\ owed'[f] = owed[f]
                            \/ given'[f] = 0 /\ owed'[f] = 0

\* A follower that is due a move is given some of it: never the wrong way,
\* never so much that it ends up owed more, and the rest stays owed.
Pays(f, due) ==
    /\ given'[f] + owed'[f] = given[f] + due
    /\ Size(owed'[f]) <= Size(due)
Keeps(f) == given'[f] = given[f] /\ owed'[f] = owed[f]

OnlyHears(s) ==
    /\ \A t \in Signals \ {s} : heard'[t] = heard[t] /\ since'[t] = since[t]
    /\ engaged' = engaged

Note(s) == ~engaged /\ OnlyHears(s) /\ since'[s] = since[s] /\ UNCHANGED <<given, owed>>
Arm(s) ==
    /\ engaged /\ since[s] = None
    /\ OnlyHears(s) /\ since'[s] = heard'[s] /\ UNCHANGED <<given, owed>>

\* The leader moves: every follower of the signal, and no other, is due the
\* opposite move.
Compensate(s) ==
    /\ engaged /\ since[s] # None
    /\ OnlyHears(s) /\ since'[s] = since[s]
    /\ \A f \in Followers : IF SignalOf[f] = s
                            THEN \/ Pays(f, owed[f] - (heard'[s] - heard[s]))
                                 \/ given[f] = 0 /\ owed[f] = 0 /\ Keeps(f)  \* f leads
                            ELSE Keeps(f)

\* What is owed is offered again.
PayBack ==
    /\ engaged
    /\ \A f \in Followers : Pays(f, owed[f])
    /\ UNCHANGED <<engaged, heard, since>>

Next == \/ Engage \/ Release \/ Elect \/ PayBack
        \/ \E s \in Signals : Note(s) \/ Arm(s) \/ Compensate(s)

Spec == Init /\ [][Next]_ledger
=============================================================================
