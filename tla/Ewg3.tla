-------------------------------- MODULE Ewg3 --------------------------------
(***************************************************************************)
(* Ewg3Adapter (crates/preamp-adapter-sennheiser-ewg3/src/adapter.rs): one *)
(* analog output level over UDP.  A keep-alive holds the one slot whose    *)
(* owner may write; the receiver pushes its whole config when it changes.  *)
(***************************************************************************)
EXTENDS ConsoleLink

\* External: a write is honoured from the client that holds the slot only.
ReceiverTakes ==
    IF power /\ up # <<>> /\ Head(up).op = "set" /\ ~pushes
    THEN /\ up' = Tail(up) /\ clean' = FALSE
         /\ UNCHANGED <<rig, desk, power, pushes, down, loops, mind, waiter, call>>
    ELSE DeskTakes

\* Registers at once and asks for the config.
Connect ==
    /\ link = "new"
    /\ link' = "open" /\ ears' = TRUE /\ beat' = TRUE
    /\ Send(<<Renew, Get("gain")>>)
    /\ UNCHANGED <<rig, desk, power, pushes, down, mind, waiter, call, clean>>

\* The socket is dropped too.
Disconnect == Closes("disconnect")

\* Asks for a config but does not wait for it: the answer is fixed.
Identify ==
    /\ Idle("identify") /\ Send(<<Get("gain")>>)
    /\ UNCHANGED <<rig, desk, power, pushes, down, loops, mind, waiter, call, clean>>

\* Mutant: the keep-alive ends with a send that fails.
StopsKeeping(refused) == ~refused
KeepsKeeping(refused) == TRUE
Keepalive == Beats(<<Renew>>, KeepsKeeping)

Cached(v) == [gain |-> Quantize(GainLaw, v), phantom |-> FALSE, pad |-> None]

\* The cache takes the level at once, read before or not.
SetGain == Idle("gain") /\ \E v \in rig.asks : WritesGain(Quantize(GainLaw, v), Cached(v))

GetState == cache = None /\ Polls(<<Get("gain")>>)

\* A config: the whole state, and an event only if the level differs from the
\* cached one.  Mutant: the cache keeps the level it took from a write.
KeepsOwn(m) == IF cache = None THEN m.v ELSE cache.gain
Level(m) == m.v
Changed(m) == cache = None \/ cache.gain # m.v
HandleConfig(m) ==
    LET entry == [gain |-> Level(m), phantom |-> FALSE, pad |-> None] IN
    Reported(entry, IF Changed(m) THEN {"gain"} ELSE {})

\* An error is logged and the loop goes on.
ReceiveLoop == Receives(FALSE, HandleConfig)

Next == \/ Turn \/ ReceiverTakes \/ Lose \/ PowerOff \/ PowerOn \/ Lapse
        \/ Connect \/ Disconnect \/ Keepalive \/ Identify
        \/ SetGain \/ GetState \/ PollEnds \/ ReceiveLoop
=============================================================================
