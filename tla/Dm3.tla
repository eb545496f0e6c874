--------------------------------- MODULE Dm3 ---------------------------------
(***************************************************************************)
(* Dm3Adapter (crates/preamp-adapter-yamaha/src/dm3.rs): OSC over UDP, no  *)
(* keep-alive and no trim.  Whether the desk reports what nobody asked for *)
(* is open, so it may or may not, and a write leaves the cache alone.      *)
(***************************************************************************)
EXTENDS ConsoleLink

\* The console may turn out to push what changes, or not.
Connect == \E push \in BOOLEAN : Opens(FALSE, push)
Disconnect == Closes("disconnect")
Identify == Identifies(<<Get("info")>>)

SetGain == Idle("gain") /\ \E v \in rig.asks : WritesGain(Quantize(GainLaw, v), cache)
SetPhantom == WritesPhantom
GetState == ~Known(cache) /\ Polls(<<Get("gain"), Get("phantom")>>)

\* Mutant: an entry a phantom report makes has a gain of 0 dB.
ZeroEntry == [gain |-> 0, phantom |-> FALSE, pad |-> None]
BlankEntry == Unread
HandleMessage(m) == LET entry == Heard(BlankEntry, m) IN Reported(entry, {m.k})

\* A refused datagram ends the loop: the adapter is deaf from then on.
ReceiveLoop == Receives(TRUE, HandleMessage)

Next == \/ Datagrams
        \/ Connect \/ Disconnect \/ Identify \/ IdentifyEnds
        \/ SetGain \/ SetPhantom \/ GetState \/ PollEnds \/ ReceiveLoop
=============================================================================
