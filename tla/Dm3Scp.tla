------------------------------- MODULE Dm3Scp -------------------------------
(***************************************************************************)
(* Dm3ScpAdapter (crates/preamp-adapter-yamaha/src/dm3_scp.rs): SCP lines  *)
(* over TCP, every write answered OK with its value, every other change    *)
(* notified while the session lives.                                       *)
(***************************************************************************)
EXTENDS ConsoleLink

Connect == Opens(TRUE, TRUE)

\* The writer is dropped too: nothing can be sent any more.
Disconnect == Closes("disconnect")
Identify == Identifies(<<Get("info")>>)

\* devstatus every twenty seconds, its reply of no interest: the first write
\* that fails ends the loop.
EndsWithTheLink(refused) == ~refused
Heartbeat == Beats(<<>>, EndsWithTheLink)

SetGain == Idle("gain") /\ \E v \in rig.asks : WritesGain(Quantize(GainLaw, v), cache)
SetPhantom == WritesPhantom

\* Always asks, and then answers the first entry there is.
GetState == Polls(<<Get("gain"), Get("phantom")>>)

\* An entry made by a phantom report has a gain of 0 dB.
FirstEntry == [gain |-> 0, phantom |-> FALSE, pad |-> None]
\* Mutant: an OK is only looked at while a call waits for it.
HandleAwaited(m) == IF call = None THEN UNCHANGED <<mind, waiter>>
                    ELSE LET entry == Heard(FirstEntry, m) IN Reported(entry, {m.k})
HandleLine(m) == LET entry == Heard(FirstEntry, m) IN Reported(entry, {m.k})

\* The loop ends when the peer closes or the read fails.
ReceiveLoop == Receives(TRUE, HandleLine)

Next == \/ Session
        \/ Connect \/ Disconnect \/ Heartbeat \/ Identify \/ IdentifyEnds
        \/ SetGain \/ SetPhantom \/ GetState \/ PollEnds \/ ReceiveLoop

\* A read answers a gain the desk was at: a gain nobody read "can't pass for a
\* reading of 0 dB" (PreampState::UNREAD).
ScpReadsAreReadings == cache # None => cache.gain \in Turned("gain")
=============================================================================
