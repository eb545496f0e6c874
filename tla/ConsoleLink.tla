----------------------------- MODULE ConsoleLink -----------------------------
(***************************************************************************)
(* What the console adapters have in common: one preamp and one channel    *)
(* trim of a desk, the wire to it, and the state an adapter keeps of both. *)
(* One module per adapter extends this one with the adapter's handlers.    *)
(* The desk and the wire are not the repository's: they do what the code   *)
(* takes them to do, may lose a datagram, stop pushing or lose power.      *)
(***************************************************************************)
EXTENDS DbLaw, Sequences

CONSTANTS None,       \* no value; NaN where a gain is concerned
          GainLaw,    \* the grid of the preamp's gain
          TrimLaw,    \* the grid of the channel trim
          TrimAsks,   \* the trims a caller asks for
          Deltas,     \* the moves nudge_trim is asked for
          Rigs        \* the set-ups, each a record of
                      \*   dialect  the adapter
                      \*   ops      the operations its callers use
                      \*   asks     the gains they ask for
                      \*   hands    what people turn at the desk: gain, trim
                      \*   faults   lose: a datagram may be lost; off: the
                      \*            desk may lose power
                      \*   cap      bound: messages under way in each direction
                      \*   echoes   whether the desk tells a writer its write

VARIABLES rig,      \* the set-up, fixed
          desk,     \* what the desk holds: gain, phantom and trim
          power,    \* the desk is switched on
          pushes,   \* the desk tells the adapter what changes
          up, down, \* the messages to the desk and from it, oldest first
          link,     \* "new", "open" or "closed", by the caller
          ears,     \* the receive loop runs
          beat,     \* the keep-alive loop runs
          cache,    \* the channel's PreampState, None before its first message
          trim,     \* the cached trim, or None
          waiter,   \* pending_identify: None, "live", or "dead" once timed out
          call,     \* the call under way: &mut self lets there be one
          told,     \* what the events have told a mapped peer of each field
          clean     \* ghost: nothing lost, no set crossed a report

\* The laws are laws, what is asked for is a number of units, and nobody asks
\* for the 0 dB nobody turns to.
ValueAssumption ==
    /\ IsLaw(GainLaw) /\ IsLaw(TrimLaw)
    /\ TrimAsks \subseteq Int /\ Deltas \subseteq Int
    /\ \A r \in Rigs : r.asks \subseteq {v \in Int : Quantize(GainLaw, v) # 0}
ASSUME ValueAssumption

\* Two adapters know of a trim; a desk at the end of a TCP session tells every
\* write; and a Wing, whose cache keeps a gain as it was asked for, is asked
\* for gains it has.
RigAssumption ==
    \A r \in Rigs :
        /\ r.dialect \in {"x32", "wing", "dm3", "scp", "ahm", "dlive", "ewg3"}
        /\ r.hands \subseteq (IF r.dialect \in {"x32", "wing"} THEN {"gain", "trim"} ELSE {"gain"})
        /\ r.dialect \in {"scp", "ahm", "dlive"} => r.echoes = {TRUE}
        /\ r.dialect = "wing" => \A v \in r.asks : Quantize(GainLaw, v) = v
ASSUME RigAssumption

wire == <<up, down>>
mind == <<cache, trim, told>>
loops == <<link, ears, beat>>
vars == <<rig, desk, power, pushes, wire, loops, mind, waiter, call, clean>>

Get(k) == [op |-> "get", k |-> k, v |-> None, by |-> 0]
Put(k, v) == [op |-> "set", k |-> k, v |-> v, by |-> 0]
Move(v, by) == [op |-> "set", k |-> "trim", v |-> v, by |-> by]
Renew == [op |-> "renew", k |-> "renew", v |-> None, by |-> 0]
Tell(k, v) == [k |-> k, v |-> v]

Quiet(k) == \A q \in {up, down} : \A i \in DOMAIN q : q[i].k # k
Grid(law) == {At(law, i) : i \in 0..((law.max - law.min) \div law.step)}
\* Where a hand leaves the preamp: anywhere but at 0 dB, the value of a gain
\* nobody read, which then nobody can have read either.
Turned(k) == IF k = "gain" THEN Grid(GainLaw) \ {0} ELSE Grid(TrimLaw)
Unread == [gain |-> None, phantom |-> FALSE, pad |-> None]
Known(entry) == entry # None /\ entry.gain # None

Init ==
    /\ rig \in Rigs
    /\ desk \in [gain : Turned("gain"), phantom : {1}, pad : {1}, trim : {TrimLaw.min + TrimLaw.step}]
    /\ power = TRUE /\ pushes = FALSE
    /\ up = <<>> /\ down = <<>>
    /\ link = "new" /\ ears = FALSE /\ beat = FALSE
    /\ cache = None /\ trim = None /\ waiter = None /\ call = None
    /\ told = [gain |-> None, phantom |-> None, pad |-> None] /\ clean = TRUE

-----------------------------------------------------------------------------
\* The desk and the wire.

Push(msgs) == Len(down) + Len(msgs) <= rig.cap /\ down' = down \o msgs

\* Somebody at the desk turns a control while nobody nudges it.
Turn ==
    \E k \in rig.hands : \E v \in Turned(k) \ {desk[k]} :
        /\ power
        /\ k = "trim" => Quiet("trim") /\ call = None
        /\ desk' = [desk EXCEPT ![k] = v]
        /\ IF pushes THEN Push(<<Tell(k, v)>>) ELSE UNCHANGED down
        /\ clean' = (clean /\ (k = "gain" =>
                        /\ pushes \/ (cache = None /\ Quiet("gain"))
                        /\ \A i \in DOMAIN up : ~(up[i].op = "set" /\ up[i].k = "gain")))
        /\ UNCHANGED <<rig, power, pushes, up, loops, mind, waiter, call>>

Holds(k, v) == CASE k = "gain" -> Quantize(GainLaw, v)
                 [] k = "trim" -> Quantize(TrimLaw, v)
                 [] OTHER -> v

DeskTakes ==
    /\ up # <<>> /\ up' = Tail(up)
    /\ LET m == Head(up) IN
       CASE ~power -> /\ \E refusal \in {<<>>, <<Tell("refused", None)>>} : Push(refusal)
                      /\ UNCHANGED <<desk, pushes>>
         [] power /\ m.op = "get" ->
                      /\ Push(<<Tell(m.k, IF m.k = "info" THEN None ELSE desk[m.k])>>)
                      /\ UNCHANGED <<desk, pushes>>
         [] power /\ m.op = "set" ->
                      /\ desk' = [desk EXCEPT ![m.k] = Holds(m.k, m.v)]
                      /\ \E echo \in rig.echoes :
                            Push(IF echo THEN <<Tell(m.k, Holds(m.k, m.v))>> ELSE <<>>)
                      /\ UNCHANGED pushes
         [] OTHER -> pushes' = TRUE /\ UNCHANGED <<desk, down>>
    /\ UNCHANGED <<rig, power, loops, mind, waiter, call, clean>>

\* A subscription expires, or another client takes it over.
Lapse == /\ pushes /\ pushes' = FALSE
         /\ UNCHANGED <<rig, desk, power, wire, loops, mind, waiter, call, clean>>

Lose ==
    /\ "lose" \in rig.faults
    /\ \/ up # <<>> /\ up' = Tail(up) /\ UNCHANGED down
       \/ down # <<>> /\ down' = Tail(down) /\ UNCHANGED up
    /\ clean' = FALSE
    /\ UNCHANGED <<rig, desk, power, pushes, loops, mind, waiter, call>>

PowerOff == /\ "off" \in rig.faults /\ power /\ power' = FALSE /\ pushes' = FALSE /\ clean' = FALSE
            /\ UNCHANGED <<rig, desk, wire, loops, mind, waiter, call>>
PowerOn == /\ ~power /\ power' = TRUE
           /\ UNCHANGED <<rig, desk, pushes, wire, loops, mind, waiter, call, clean>>

-----------------------------------------------------------------------------
\* What the adapters' handlers are made of.

\* Whether a set leaves now that a report it can cross is under way.
Crossed == ~Quiet("gain")

Send(msgs) == Len(up) + Len(msgs) <= rig.cap /\ up' = up \o msgs
Idle(op) == link = "open" /\ call = None /\ op \in rig.ops
Calling(op) == [op |-> op, by |-> 0]

\* A socket and the loops that serve it; push: the desk pushes from now on.
Opens(beats, push) ==
    /\ link = "new" /\ power
    /\ link' = "open" /\ ears' = TRUE /\ beat' = beats
    /\ pushes' = (pushes \/ push)
    /\ UNCHANGED <<rig, desk, power, wire, mind, waiter, call, clean>>

\* The token is cancelled: every loop ends.
Closes(op) ==
    /\ Idle(op)
    /\ link' = "closed" /\ ears' = FALSE /\ beat' = FALSE
    /\ UNCHANGED <<rig, desk, power, pushes, wire, mind, waiter, call, clean>>

Identifies(probe) ==
    /\ Idle("identify")
    /\ waiter' = "live" /\ call' = Calling("identify")
    /\ Send(probe)
    /\ UNCHANGED <<rig, desk, power, pushes, down, loops, mind, clean>>

\* The reply took the sender, or the two seconds passed and left it behind.
IdentifyEnds ==
    /\ call = Calling("identify") /\ call' = None
    /\ waiter' = IF waiter = "live" THEN "dead" ELSE waiter
    /\ UNCHANGED <<rig, desk, power, pushes, wire, loops, mind, clean>>

\* A gain is sent as v; entry is the cache the call leaves behind.
WritesGain(v, entry) ==
    /\ Send(<<Put("gain", v)>>)
    /\ cache' = entry
    /\ clean' = (clean /\ ~Crossed)
    /\ UNCHANGED <<rig, desk, power, pushes, down, loops, trim, told, waiter, call>>

WritesPhantom ==
    /\ Idle("phantom")
    /\ Send(<<Put("phantom", 1)>>)
    /\ UNCHANGED <<rig, desk, power, pushes, down, loops, mind, waiter, call, clean>>

\* get_state that the cache does not answer.
Polls(gets) ==
    /\ Idle("state")
    /\ Send(gets)
    /\ call' = Calling("state")
    /\ UNCHANGED <<rig, desk, power, pushes, down, loops, mind, waiter, clean>>

\* The poll finds the entry, or gives up: either way the call is over.
PollEnds ==
    /\ call = Calling("state") /\ call' = None
    /\ UNCHANGED <<rig, desk, power, pushes, wire, loops, mind, waiter, clean>>

\* The entry after a report: a blank one is made for a channel without one.
Read(m) == IF m.k = "gain" THEN m.v ELSE m.v # 0
Heard(blank, m) == [(IF cache = None THEN blank ELSE cache) EXCEPT ![m.k] = Read(m)]

\* An event says which fields it carries; a peer takes those and no other.
Relayed(entry, fields) == [f \in DOMAIN told |-> IF f \in fields THEN entry[f] ELSE told[f]]

Reported(entry, fields) ==
    /\ cache' = entry /\ told' = Relayed(entry, fields)
    /\ UNCHANGED <<trim, waiter>>

\* The receive loop takes a message: deaf says whether a refusal ends it.
Receives(deaf, Handled(_)) ==
    /\ ears /\ down # <<>> /\ down' = Tail(down)
    /\ ears' = (ears /\ ~(deaf /\ Head(down).k = "refused"))
    /\ IF Head(down).k = "refused" THEN UNCHANGED <<mind, waiter>>
       ELSE IF Head(down).k = "info" THEN waiter' = None /\ UNCHANGED mind
       ELSE Handled(Head(down))
    /\ UNCHANGED <<rig, desk, power, pushes, up, link, beat, call, clean>>

\* The keep-alive: goesOn says whether a send that fails leaves the loop alive.
Beats(msg, GoesOn(_)) ==
    /\ beat
    /\ \E refused \in {FALSE, ~power} :
          /\ IF refused THEN UNCHANGED up ELSE Send(msg)
          /\ beat' = GoesOn(refused)
    /\ UNCHANGED <<rig, desk, power, pushes, down, link, ears, mind, waiter, call, clean>>

\* A read of the trim, alone or as the first half of a nudge; left is what the
\* cache keeps of it.  Callers are slower than the network: none asks while
\* a report of the trim is under way.
AsksTrim(op, by, left) ==
    /\ Idle(op) /\ Quiet("trim")
    /\ trim' = left
    /\ \/ Send(<<Get("trim")>>) /\ call' = [op |-> op, by |-> by]
       \/ ~power /\ UNCHANGED <<up, call>>        \* the send fails
    /\ UNCHANGED <<rig, desk, power, pushes, down, loops, cache, told, waiter, clean>>

AwaitsTrim == call # None /\ call.op \in {"read", "nudge"}

\* A poll finds the trim: what was under way has arrived within READ_POLL.
TrimFound ==
    /\ AwaitsTrim /\ trim # None /\ Quiet("trim")
    /\ call' = None
    /\ LET by == NudgeApplied(TrimLaw, trim, call.by)
           target == NudgeTarget(TrimLaw, trim, call.by) IN
       IF call.op = "nudge" /\ by # 0
       THEN Send(<<Move(target, by)>>) /\ trim' = target
       ELSE UNCHANGED <<up, trim>>
    /\ UNCHANGED <<rig, desk, power, pushes, down, loops, cache, told, waiter, clean>>

\* READ_ATTEMPTS polls found none.
TrimMissed ==
    /\ AwaitsTrim /\ trim = None /\ Quiet("trim")
    /\ call' = None
    /\ UNCHANGED <<rig, desk, power, pushes, wire, loops, mind, waiter, clean>>

WritesTrim(sent, cached) ==
    /\ Idle("trim")
    /\ Send(<<Put("trim", sent)>>) /\ trim' = cached
    /\ UNCHANGED <<rig, desk, power, pushes, down, loops, cache, told, waiter, call, clean>>

\* A session over TCP ends with the desk: its peer reads the end of it.
HangUp == /\ ~power /\ Quiet("refused") /\ Push(<<Tell("refused", None)>>)
          /\ UNCHANGED <<rig, desk, power, pushes, up, loops, mind, waiter, call, clean>>

Datagrams == Turn \/ DeskTakes \/ Lose \/ PowerOff \/ PowerOn
Session == Turn \/ DeskTakes \/ PowerOff \/ HangUp

-----------------------------------------------------------------------------
\* No event told a peer a value the desk was never at: a field an event does
\* not carry stays as the peer has it (ChangedFields, PreampState::UNREAD).
NothingInvented == told.gain \in {None} \cup Turned("gain") /\ told.phantom \in {None, TRUE} /\ told.pad \in {None, TRUE}

\* get_state answers from the cache only a gain somebody set or turned.
ReadsAreReadings == Known(cache) => cache.gain \in Turned("gain")

\* Unless a message was lost or a write crossed a report, the cache has the
\* desk's gain once no message about it is under way.
CacheSettles == clean /\ Quiet("gain") /\ Known(cache) => cache.gain = desk.gain

\* nudge_trim moves the desk by what it answers: the value it writes is the
\* desk's own trim moved by that much, also after a lost write or push.
NudgeIsRelative ==
    up # <<>> /\ Head(up).op = "set" /\ Head(up).by # 0 => Head(up).v = desk.trim + Head(up).by

\* Over TCP no order of sets, turns and reads leaves a peer with an old gain:
\* while the session lasts, what the last event told is what the desk has.
PeerSettles == pushes /\ Quiet("gain") /\ told.gain # None => told.gain = desk.gain
=============================================================================
