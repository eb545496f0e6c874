-------------------------------- MODULE Dlive --------------------------------
(***************************************************************************)
(* DliveAdapter (crates/preamp-adapter-ah/src/dlive.rs): MIDI over TCP, a  *)
(* gain in one pitchbend, 48 V and pad in SysEx.  The bytes are in         *)
(* MidiStream, the socket numbers in DeskWires.                          *)
(***************************************************************************)
EXTENDS ConsoleLink

Connect == Opens(FALSE, TRUE)
Disconnect == Closes("disconnect")
Identify == Identifies(<<Get("info")>>)

SetGain == Idle("gain") /\ \E v \in rig.asks : WritesGain(Quantize(GainLaw, v), cache)
SetPhantom == WritesPhantom

\* 48 V and pad are asked for before the gain: their replies make the entry.
GetState == ~Known(cache) /\ Polls(<<Get("phantom"), Get("pad"), Get("gain")>>)

\* Mutant: an event carries every field.
EveryField(field) == {"gain", "phantom", "pad"}
OneField(field) == {field}
HandleMessage(m) == LET entry == Heard(Unread, m) IN Reported(entry, OneField(m.k))
ReceiveLoop == Receives(TRUE, HandleMessage)

Next == \/ Session
        \/ Connect \/ Disconnect \/ Identify \/ IdentifyEnds
        \/ SetGain \/ SetPhantom \/ GetState \/ PollEnds \/ ReceiveLoop
=============================================================================
