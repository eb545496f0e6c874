------------------------------ MODULE PluginHost ------------------------------
(***************************************************************************)
(* A device behind a plugin: DylibAdapter (crates/core/src/               *)
(* plugin_registry.rs), whose callers put commands in a channel that one   *)
(* thread serves, and LegacyPluginBridge (legacy_plugin_bridge.rs), whose  *)
(* event task queues the adapter's reports until that thread polls.        *)
(***************************************************************************)
EXTENDS Integers, Sequences

CONSTANTS None, Callers,
          Fields,      \* the controls of one channel: its gain, its phantom switch
          BusCap,      \* the adapter's broadcast channel (256 in the code)
          MaxTurns,    \* bound: changes of the desk
          MaxAbandoned \* bound: calls given up

VARIABLES turns,     \* bound: changes so far; a change is known by its number
          latest,    \* ghost: the last change reported, [field, n]
          bus,       \* reports the bridge's event task has not received
          lagged,    \* the bus dropped reports since the task last received
          listens,   \* the event task runs
          events,    \* LegacyPluginBridge::events
          commands,  \* the command channel
          thread,    \* "runs", "ended"
          calls,     \* by caller: None, "waits" for an answer, "joins" the thread
          abandoned, \* bound: calls given up so far
          gone,      \* the host has dropped the adapter
          told       \* by field: the last change an OcaEvent told the host of
vars == <<turns, latest, bus, lagged, listens, events, commands, thread, calls,
          abandoned, gone, told>>

Init ==
    /\ turns = 0 /\ latest = None
    /\ bus = <<>> /\ lagged = FALSE /\ listens = TRUE
    /\ events = <<>> /\ commands = <<>>
    /\ thread = "runs" /\ gone = FALSE /\ abandoned = 0
    /\ calls = [c \in Callers |-> None]
    /\ told = [f \in Fields |-> 0]

-----------------------------------------------------------------------------
\* The adapter hears its desk and reports the field that changed.  The bus
\* keeps the newest BusCap reports; a receiver behind them is told it lagged.
Report ==
    /\ turns < MaxTurns /\ turns' = turns + 1
    /\ \E f \in Fields : LET report == [field |-> f, n |-> turns + 1] IN
          /\ latest' = report
          /\ bus' = IF Len(bus) = BusCap THEN Append(Tail(bus), report) ELSE Append(bus, report)
    /\ lagged' = (lagged \/ Len(bus) = BusCap)
    /\ UNCHANGED <<abandoned, listens, events, commands, thread, calls, gone, told>>

\* LegacyPluginBridge::new - a lagged receiver goes on with what the bus holds.
OutlivesLag == TRUE

EventTask ==
    /\ listens
    /\ IF lagged
       THEN lagged' = FALSE /\ listens' = OutlivesLag /\ UNCHANGED <<bus, events>>
       ELSE /\ bus # <<>> /\ bus' = Tail(bus) /\ events' = Append(events, Head(bus))
            /\ UNCHANGED <<lagged, listens>>
    /\ UNCHANGED <<abandoned, turns, latest, commands, thread, calls, gone, told>>

-----------------------------------------------------------------------------
\* The adapter sits behind one mutex: one caller at a time is inside a call.
Free == \A c \in Callers : calls[c] = None

\* DylibAdapter::call - the command is sent; a thread that is gone refuses it.
Call(c) ==
    /\ Free /\ ~gone
    /\ \E op \in {"call", "disconnect"} :
          /\ calls' = [calls EXCEPT ![c] =
                IF thread = "runs" THEN "waits" ELSE None]
          /\ commands' = IF thread = "runs"
                         THEN Append(commands, [op |-> op, by |-> c]) ELSE commands
    /\ UNCHANGED <<abandoned, turns, latest, bus, lagged, listens, events, thread, gone, told>>

\* The caller's future is dropped, a timeout or a closed connection; what it
\* asked for stays in the channel and is carried out.
GiveUp(c) ==
    /\ calls[c] # None /\ calls' = [calls EXCEPT ![c] = None]
    /\ commands' = [i \in DOMAIN commands |-> [commands[i] EXCEPT !.by = None]]
    /\ abandoned < MaxAbandoned /\ abandoned' = abandoned + 1
    /\ UNCHANGED <<turns, latest, bus, lagged, listens, events, thread, gone, told>>

\* The adapter is dropped, and with it the sending end of the channel.
Release ==
    /\ Free /\ ~gone /\ gone' = TRUE
    /\ UNCHANGED <<abandoned, turns, latest, bus, lagged, listens, events, commands, thread, calls, told>>

\* Mutants: Disconnect is answered and the thread goes on; a closed channel is
\* taken for a timeout.
StaysOpen == FALSE
GoesOn == FALSE
EndsAfterDisconnect == TRUE
EndsWhenLetGo == TRUE

\* The answer to a disconnect makes its caller join the thread.
Answered(command) ==
    IF command.by = None THEN calls
    ELSE [calls EXCEPT ![command.by] = IF command.op = "disconnect" THEN "joins" ELSE None]
\* The thread ends: what is left in the channel is dropped unanswered.
Serve ==
    /\ thread = "runs" /\ commands # <<>>
    /\ LET command == Head(commands)
           ends == command.op = "disconnect" /\ EndsAfterDisconnect IN
       /\ thread' = IF ends THEN "ended" ELSE "runs"
       /\ commands' = IF ends THEN <<>> ELSE Tail(commands)
       /\ calls' = [c \in Callers |->
             IF ends /\ c # command.by /\ \E i \in DOMAIN commands : commands[i].by = c
             THEN None ELSE Answered(command)[c]]
    /\ UNCHANGED <<abandoned, turns, latest, bus, lagged, listens, events, gone, told>>

\* DylibAdapter::disconnect returns once the thread has ended.
Joined(c) ==
    /\ calls[c] = "joins" /\ thread = "ended"
    /\ calls' = [calls EXCEPT ![c] = None]
    /\ UNCHANGED <<abandoned, turns, latest, bus, lagged, listens, events, commands, thread, gone, told>>

\* No command for POLL_INTERVAL: poll_events drains the queue, and each event
\* is published in turn.
Newest(f) == LET of == {i \in DOMAIN events : events[i].field = f} IN
             IF of = {} THEN told[f] ELSE events[CHOOSE i \in of : \A j \in of : j <= i].n
Poll ==
    /\ thread = "runs" /\ commands = <<>> /\ ~gone
    /\ events' = <<>> /\ told' = [f \in Fields |-> Newest(f)]
    /\ UNCHANGED <<abandoned, turns, latest, bus, lagged, listens, commands, thread, calls, gone>>

\* recv_timeout finds the channel empty and its sender gone.
Disconnected ==
    /\ thread = "runs" /\ commands = <<>> /\ gone
    /\ thread' = IF EndsWhenLetGo THEN "ended" ELSE "runs"
    /\ UNCHANGED <<abandoned, turns, latest, bus, lagged, listens, events, commands, calls, gone, told>>

Next == Report \/ EventTask \/ Release \/ Serve \/ Poll \/ Disconnected
        \/ \E c \in Callers : Call(c) \/ GiveUp(c) \/ Joined(c)
Spec == Init /\ [][Next]_vars

-----------------------------------------------------------------------------
\* Every call returns, also one made while the device is being disconnected:
\* Waits(c) ~> ~Waits(c).
Waits(c) == calls[c] # None

\* An adapter the host dropped, connected or not, leaves no thread behind:
\* gone ~> Ended.
Ended == thread = "ended"

\* The last change reaches the host, however many were dropped before it,
\* while there is a thread to poll for it: <>[]Arrived.
Arrived == Ended \/ gone \/ latest = None \/ told[latest.field] = latest.n
=============================================================================
