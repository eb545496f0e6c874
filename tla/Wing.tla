-------------------------------- MODULE Wing --------------------------------
(***************************************************************************)
(* WingAdapter (crates/preamp-adapter-osc/src/wing.rs): OSC over UDP, one  *)
(* subscription that any other client can take over, no echo of a write.   *)
(***************************************************************************)
EXTENDS ConsoleLink

Connect == Opens(TRUE, FALSE)
Disconnect == Closes("disconnect")
Identify == Identifies(<<Get("info")>>)

KeepsRenewing(refused) == TRUE
SubscriptionRenewal == Beats(<<Renew>>, KeepsRenewing)

\* Mutant: the cache waits for an echo that never comes.
CacheAsItWas(v) == cache
\* The cache takes the gain as it was asked.
CacheAfterSet(v) == IF cache = None THEN None ELSE [cache EXCEPT !.gain = v]

SetGain == Idle("gain") /\ \E v \in rig.asks : WritesGain(v, CacheAfterSet(v))
SetPhantom == WritesPhantom
GetState == ~Known(cache) /\ Polls(<<Get("gain"), Get("phantom")>>)

\* Mutant: a gain report makes the event carry the entry's phantom as well.
BothFields(field) == {"gain", "phantom", "pad"}
OneField(field) == {field}

HandleMessage(m) ==
    IF m.k = "trim" THEN trim' = m.v /\ UNCHANGED <<cache, told, waiter>>
    ELSE LET entry == Heard(Unread, m) IN Reported(entry, OneField(m.k))
ReceiveLoop == Receives(FALSE, HandleMessage)

GetTrim == AsksTrim("read", 0, None)
NudgeTrim == \E by \in Deltas : Moves(TrimLaw, by) /\ AsksTrim("nudge", by, None)
SetTrim == \E v \in TrimAsks : WritesTrim(Quantize(TrimLaw, v), Quantize(TrimLaw, v))

Next == \/ Datagrams \/ Lapse
        \/ Connect \/ Disconnect \/ SubscriptionRenewal \/ Identify \/ IdentifyEnds
        \/ SetGain \/ SetPhantom \/ GetState \/ PollEnds \/ ReceiveLoop
        \/ GetTrim \/ NudgeTrim \/ TrimFound \/ TrimMissed \/ SetTrim
=============================================================================
