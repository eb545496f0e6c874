--------------------------------- MODULE Ahm ---------------------------------
(***************************************************************************)
(* AhmAdapter (crates/preamp-adapter-ah/src/ahm.rs): MIDI over TCP, values *)
(* set and reported with the same three control changes.  The bytes are in *)
(* MidiStream; here a message is what NrpnTracker makes of three of them.  *)
(***************************************************************************)
EXTENDS ConsoleLink

Connect == Opens(FALSE, TRUE)
Disconnect == Closes("disconnect")
Identify == Identifies(<<Get("info")>>)

\* The cache waits for the desk's report.
SetGain == Idle("gain") /\ \E v \in rig.asks : WritesGain(Quantize(GainLaw, v), cache)
SetPhantom == WritesPhantom
GetState == ~Known(cache) /\ Polls(<<Get("gain"), Get("phantom")>>)

\* Mutant: a new entry has a gain of 0 dB.
ZeroEntry == [gain |-> 0, phantom |-> FALSE, pad |-> None]
BlankEntry == Unread
\* Mutant: a report of what the entry was just asked for is skipped.
HandleWhileIdle(m) == IF call # None /\ m.k = "gain" /\ cache # None THEN UNCHANGED <<mind, waiter>>
                      ELSE LET entry == Heard(BlankEntry, m) IN Reported(entry, {m.k})
Handle(m) == LET entry == Heard(BlankEntry, m) IN Reported(entry, {m.k})
ReceiveLoop == Receives(TRUE, Handle)

Next == \/ Session
        \/ Connect \/ Disconnect \/ Identify \/ IdentifyEnds
        \/ SetGain \/ SetPhantom \/ GetState \/ PollEnds \/ ReceiveLoop
=============================================================================
