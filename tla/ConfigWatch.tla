----------------------------- MODULE ConfigWatch ------------------------------
(***************************************************************************)
(* The config file while the bridge runs: config::watch, whose thread      *)
(* reads the file again on every change and keeps what it can read, and    *)
(* watch_and_apply_mappings, which applies what the thread kept last.      *)
(***************************************************************************)
EXTENDS Integers, Sequences

CONSTANTS None, MaxTurns   \* bound: edits of the file

VARIABLES file,     \* what the file says: the number of an edit, None when it is not valid
          edits,
          phase,    \* "connects", "loads", "arms", "watches", "deaf"
          notices,  \* changes the file system has reported and the thread not seen
          cell,     \* the value of the watch channel
          fresh,    \* the task has not seen that value
          applied,  \* the edit whose mappings the Router has
          heard     \* ghost: the file has changed since it was watched
vars == <<file, edits, phase, notices, cell, fresh, applied, heard>>

\* Config::load has read the file, and the devices are being connected.
Init ==
    /\ file = 0 /\ edits = 0 /\ applied = 0
    /\ phase = "connects" /\ notices = 0
    /\ cell = None /\ fresh = FALSE /\ heard = FALSE

\* An editor leaves the file valid, or half-way.
Edit ==
    /\ edits < MaxTurns /\ edits' = edits + 1
    /\ file' \in {edits + 1, None}
    /\ notices' = IF phase = "watches" THEN notices + 1 ELSE notices
    /\ heard' = (heard \/ phase = "watches")
    /\ UNCHANGED <<phase, cell, fresh, applied>>

Connected ==
    /\ phase = "connects" /\ phase' = "loads"
    /\ UNCHANGED <<file, edits, notices, cell, fresh, applied, heard>>

\* The thread's own first reading is the channel's initial value, which the task
\* never applies; without it there is no watch at all.
Load ==
    /\ phase = "loads"
    /\ IF file = None THEN phase' = "deaf" /\ UNCHANGED cell
       ELSE phase' = "arms" /\ cell' = file
    /\ UNCHANGED <<file, edits, notices, fresh, applied, heard>>
Arm ==
    /\ phase = "arms" /\ phase' = "watches"
    /\ UNCHANGED <<file, edits, notices, cell, fresh, applied, heard>>

Reread ==
    /\ notices > 0 /\ notices' = notices - 1
    /\ IF file = None THEN UNCHANGED <<cell, fresh>> ELSE cell' = file /\ fresh' = TRUE
    /\ UNCHANGED <<file, edits, phase, applied, heard>>

\* changed() and borrow(): the latest value, however many were sent.
Apply ==
    /\ fresh /\ fresh' = FALSE /\ applied' = cell
    /\ UNCHANGED <<file, edits, phase, notices, cell, heard>>

Serve == Connected \/ Load \/ Arm \/ Reread \/ Apply
Next == Edit \/ Serve

-----------------------------------------------------------------------------
\* What the file says after its last change is what the Router does, if the
\* change came while the file was watched and left it valid.
Applied == heard /\ file # None => applied = file
\* Until then the Router keeps to something the file has said.
KeepsTheLast == applied \in 0..edits /\ (applied # file /\ heard /\ file # None => notices > 0 \/ fresh)

\* What makes it so at every step: nothing is reported before the watch is on,
\* and the last value kept is the file's, unless a change is still to be read.
WatchInv ==
    /\ edits \in Nat /\ notices \in Nat
    /\ file # None => file \in 0..edits
    /\ applied \in 0..edits /\ (fresh => cell \in 0..edits)
    /\ fresh \/ heard \/ notices > 0 => phase = "watches"
    /\ heard /\ file # None /\ notices = 0 => file = IF fresh THEN cell ELSE applied
=============================================================================
