------------------------------- MODULE WebView --------------------------------
(***************************************************************************)
(* What a browser sees of the bridge: push_state of crates/preamp-web,     *)
(* which sends the state to one websocket client on connect and whenever   *)
(* it has changed.                                                         *)
(***************************************************************************)
EXTENDS Integers, Sequences, FiniteSets

CONSTANTS None, MaxTurns   \* bound: changes of the bridge's state

Parts == {"lock", "devices", "mappings"}

VARIABLES now,     \* the bridge's state, by part
          loop,    \* what the client's task is about to read, or "waits", "ended"
          taken,   \* the snapshot under way
          last,    \* the body last sent
          seen,    \* the body the client last got
          client,  \* the client is there
          turns
vars == <<now, loop, taken, last, seen, client, turns>>

Init ==
    /\ now = [p \in Parts |-> 0] /\ turns = 0
    /\ loop = "lock" /\ taken = None
    /\ last = None /\ seen = None /\ client = TRUE

\* A request, the file or the gain lock changes one part.
Change ==
    /\ turns < MaxTurns /\ turns' = turns + 1
    /\ \E p \in Parts : now' = [now EXCEPT ![p] = 1 - @]
    /\ UNCHANGED <<loop, taken, last, seen, client>>

\* snapshot(): each part is read under a lock of its own.
Status ==
    /\ loop = "lock" /\ loop' = "devices"
    /\ taken' = [lock |-> now.lock]
    /\ UNCHANGED <<now, last, seen, client, turns>>
Devices ==
    /\ loop = "devices" /\ loop' = "mappings"
    /\ taken' = [lock |-> taken.lock, devices |-> now.devices]
    /\ UNCHANGED <<now, last, seen, client, turns>>

\* The body is sent if it is not the last; a client that has gone may be noticed.
Push ==
    LET body == [lock |-> taken.lock, devices |-> taken.devices, mappings |-> now.mappings]
    IN /\ loop = "mappings" /\ taken' = None
       /\ \/ body = last /\ loop' = "waits" /\ UNCHANGED <<last, seen>>
          \/ body # last /\ loop' = "waits" /\ last' = body /\ seen' = IF client THEN body ELSE seen
          \/ body # last /\ ~client /\ loop' = "ended" /\ UNCHANGED <<last, seen>>
       /\ UNCHANGED <<now, client, turns>>

\* PUSH_POLL_INTERVAL passes, or the client says anything.
Again ==
    /\ loop = "waits" /\ loop' = "lock"
    /\ UNCHANGED <<now, taken, last, seen, client, turns>>
\* recv() answers that the connection is gone; it is ready from then on.
Gone ==
    /\ loop = "waits" /\ ~client /\ loop' = "ended"
    /\ UNCHANGED <<now, taken, last, seen, client, turns>>
Leave ==
    /\ client /\ client' = FALSE
    /\ UNCHANGED <<now, loop, taken, last, seen, turns>>

Task == Status \/ Devices \/ Push \/ Again
Next == Change \/ Task \/ Gone \/ Leave

-----------------------------------------------------------------------------
\* The page comes to show what is, if it stays; and its task ends with it.
Shown == client => seen = now
Ended == ~client => loop = "ended"
=============================================================================
