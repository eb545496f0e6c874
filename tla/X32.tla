--------------------------------- MODULE X32 ---------------------------------
(***************************************************************************)
(* X32Adapter (crates/preamp-adapter-osc/src/x32.rs): OSC over UDP, pushes *)
(* only for who renews /xremote, writes kept in the adapter's own cache.   *)
(***************************************************************************)
EXTENDS ConsoleLink

Connect == Opens(TRUE, FALSE)
Disconnect == Closes("disconnect")
Identify == Identifies(<<Get("info")>>)

\* Mutant: the heartbeat ends with the first send that fails.
StopsBeating(refused) == ~refused
KeepsBeating(refused) == TRUE
\* /xremote, every nine seconds, through an outage.
Heartbeat == Beats(<<Renew>>, KeepsBeating)

\* Mutant: the cache keeps the gain as it was asked.
CacheAsAsked(v) == IF cache = None THEN None ELSE [cache EXCEPT !.gain = v]
CacheAfterSet(v) == IF cache = None THEN None ELSE [cache EXCEPT !.gain = Quantize(GainLaw, v)]

SetGain == Idle("gain") /\ \E v \in rig.asks : WritesGain(v, CacheAfterSet(v))
SetPhantom == WritesPhantom
GetState == ~Known(cache) /\ Polls(<<Get("gain"), Get("phantom")>>)

\* Mutant: a first phantom report makes up a gain of 0 dB.
ZeroEntry == [gain |-> 0, phantom |-> FALSE, pad |-> None]
BlankEntry == Unread
OneField(field) == {field}

HandleMessage(m) ==
    IF m.k = "trim" THEN trim' = m.v /\ UNCHANGED <<cache, told, waiter>>
    ELSE LET entry == Heard(BlankEntry, m) IN Reported(entry, OneField(m.k))

\* Mutant: an ICMP refusal ends the loop.
RefusalEnds == TRUE
RefusalIsFatal == FALSE
ReceiveLoop == Receives(RefusalIsFatal, HandleMessage)

\* Mutant: the trim the cache has is kept while the desk is asked.
KeepTrim == trim
ForgetTrim == None
GetTrim == AsksTrim("read", 0, ForgetTrim)
NudgeTrim == \E by \in Deltas : Moves(TrimLaw, by) /\ AsksTrim("nudge", by, ForgetTrim)
SetTrim == \E v \in TrimAsks : WritesTrim(v, Quantize(TrimLaw, v))

Next == \/ Datagrams \/ Lapse
        \/ Connect \/ Disconnect \/ Heartbeat \/ Identify \/ IdentifyEnds
        \/ SetGain \/ SetPhantom \/ GetState \/ PollEnds \/ ReceiveLoop
        \/ GetTrim \/ NudgeTrim \/ TrimFound \/ TrimMissed \/ SetTrim
=============================================================================
