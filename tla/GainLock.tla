------------------------------ MODULE GainLock ------------------------------
(***************************************************************************)
(* The gain-lock engine of crates/core/src/gain_lock.rs with the desks it  *)
(* drives: one desk leads (it owns the preamps), the others follow (their  *)
(* digital trims take the opposite move).                                  *)
(*                                                                         *)
(* The engine's state is `Inner`: leader, locked, live, down.  A follower  *)
(* is named <<signal, position in the signal's member list>>.  `Inner` is  *)
(* behind one mutex that its operations hold across their awaits, so an    *)
(* operation is one action as far as the other operations can tell; the    *)
(* work it still has to do under the mutex is in `batch`, and Free says    *)
(* the mutex can be taken.  nudge_preamp and retry_failed release it       *)
(* half-way: they are several actions.                                     *)
(*                                                                         *)
(* Gains and trims are whole numbers of a unit coarser than EPSILON_DB.    *)
(***************************************************************************)
EXTENDS Integers, Sequences, FiniteSets, DbLaw

CONSTANTS
    Desks,        \* device ids
    Members,      \* the configured signals: Members[s][k] = [device, preamp, input],
                  \* 0 for a preamp or an input the member does not have
    PreampsOf,    \* PreampsOf[d]: the preamp numbers d's adapter describes
    TrimsOf,      \* TrimsOf[d]: the input numbers whose trim it describes
    Kind,         \* Kind[d] = [pushes, read, keeps, echoes]: how the adapter
                  \* reports changes (see the desk actions)
    GainMin, GainMax,   \* the range of every preamp
    TrimLaw,      \* TrimLaw[d]: the grid of d's trims
    FirstLeader,  \* the configured leader
    SetValues,    \* the gains a client asks set_preamp for
    Deltas,       \* the moves a client asks nudge_preamp for
    SurfaceGains, \* the gains an engineer may turn a preamp to on the desk
    LocalTrims,   \* the values an engineer may move a trim to on the desk
    MayFail,      \* desks that may stop answering, and come back
    MayLeave,     \* desks that may be removed from the Router, and added again
    Clients,      \* concurrent callers of nudge_preamp
    Poll,         \* whether poll_ms is set
    SlowEchoes,   \* whether an echo may take longer than ECHO_TTL to arrive
    MayLag,       \* whether the engine may fall behind the event stream
    LateMoves,    \* whether a move that timed out may still be carried out
    WireCap,      \* bound: reports under way per preamp
    MaxExpected,  \* bound: entries of one signal's `expected`
    None,         \* Option::None
    Reread        \* a signal read_leader has yet to read

Signals == DOMAIN Members
Knobs == UNION {{<<d, p>> : p \in PreampsOf[d]} : d \in Desks}
Followers == UNION {{<<s, k>> : k \in {j \in DOMAIN Members[s] : Members[s][j].input # 0}}
                      : s \in Signals}
DeskOf(f) == Members[f[1]][f[2]].device
InputOf(f) == Members[f[1]][f[2]].input

\* What GainLockConfig::validate has checked before an engine exists.
ASSUME ConfigAssumption ==
    /\ Members \in Seq(Seq([device : Desks, preamp : Nat, input : Nat]))
    /\ \A f, g \in Followers : DeskOf(f) = DeskOf(g) /\ InputOf(f) = InputOf(g) => f = g
    /\ FirstLeader \in Desks

ASSUME ValueAssumption ==
    /\ GainMin \in Int /\ GainMax \in Int /\ GainMin <= GainMax
    /\ SurfaceGains \subseteq GainMin..GainMax
    /\ SetValues \subseteq Int /\ Deltas \subseteq Int
    /\ \A d \in Desks : IsLaw(TrimLaw[d])
    /\ LocalTrims \subseteq Int /\ MayFail \subseteq Desks /\ MayLeave \subseteq Desks
    /\ None \notin Int /\ Reread \notin Int /\ None # Reread
    /\ \A d \in Desks : PreampsOf[d] \subseteq Nat \ {0}

VARIABLES
    \* Inner
    leader, locked, live, fol, down,
    \* the engine task and its callers
    batch,      \* batch[s]: a gain to observe(), Reread, or None
    taking,     \* the batch is still being taken off the event stream
    lagged,     \* the next recv() answers Lagged
    probes,     \* retry_failed: desks still to probe
    back,       \* retry_failed: desks that answered
    client,     \* client[c]: a nudge_preamp between its two halves
    \* the desks
    connected,  \* devices registered with the Router
    answering,  \* desks that answer
    knob,       \* knob[<<d, p>>]: the preamp's gain on the desk
    cache,      \* cache[<<d, p>>]: the gain d's adapter has last heard of
    wire,       \* wire[<<d, p>>]: reports on their way to the engine
    trim,       \* trim[f]: the follower's trim on the desk
    base,       \* base[f]: where its engineer wants it, this lock's moves aside
    late        \* late[f]: a move whose caller has given up on it, or 0

inner == <<leader, locked, live, fol, down>>
task == <<batch, taking, lagged, probes, back>>
preampDesk == <<knob, cache, wire>>
trimDesk == <<trim, base, late>>
network == <<connected, answering>>
vars == <<inner, task, client, network, preampDesk, trimDesk>>

Up(d) == d \in connected /\ d \in answering
Free == \A s \in Signals : batch[s] = None
TaskIdle == probes = {} /\ back = {}
FollowersOf(s) == {f \in Followers : f[1] = s /\ DeskOf(f) # leader}
Following == {f \in Followers : DeskOf(f) # leader}
LeaderKnob(s) == <<leader, live[s].ono>>
\* Bounds: the gains nudge_preamp may ask for (it does not limit them itself);
\* room for one more expectation; a stream short enough to read into.
Askable == (GainMin - 1)..(GainMax + 1)
Room(s) == Len(live[s].expected) < MaxExpected
Uncrowded == \A n \in Knobs : Len(wire[n]) < WireCap

----------------------------------------------------------------------------
(* resolve() *)

\* The leader's preamp for a signal: its first member on that device.
LeaderPreamp(s, l) ==
    LET on == {k \in DOMAIN Members[s] : Members[s][k].device = l}
        first == CHOOSE k \in on : \A j \in on : k <= j
    IN IF on = {} \/ Members[s][first].preamp = 0 THEN None ELSE Members[s][first].preamp

LeaderOno(s, l) ==
    IF LeaderPreamp(s, l) # None /\ l \in connected /\ LeaderPreamp(s, l) \in PreampsOf[l]
    THEN LeaderPreamp(s, l) ELSE None

LeaderProblem(s, l) ==
    IF LeaderPreamp(s, l) = None THEN "no preamp"
    ELSE IF l \notin connected THEN "not connected"
    ELSE IF LeaderOno(s, l) = None THEN "no such preamp" ELSE "none"

\* Mutant: whatever was known of a signal carries over.
AnyLeader(s, l) == TRUE

SameLeader(s, l) == live[s].ono = LeaderOno(s, l) /\ live[s].preamp = LeaderPreamp(s, l)

ResolvedLive(l) ==
    [s \in Signals |->
        [preamp    |-> LeaderPreamp(s, l),
         ono       |-> LeaderOno(s, l),
         gain      |-> IF SameLeader(s, l) THEN live[s].gain ELSE None,
         reference |-> IF SameLeader(s, l) THEN live[s].reference ELSE None,
         problem   |-> LeaderProblem(s, l),
         expected  |-> IF SameLeader(s, l) THEN live[s].expected ELSE <<>>]]

HasTrim(f) == DeskOf(f) \in connected /\ InputOf(f) \in TrimsOf[DeskOf(f)]
TrimError(f) == IF DeskOf(f) \notin connected THEN "not connected"
                ELSE IF InputOf(f) \notin TrimsOf[DeskOf(f)] THEN "no trim" ELSE "none"
NotFollowing == [ono |-> FALSE, applied |-> 0, owed |-> 0, error |-> "none"]

\* Mutant: the owed amounts do not carry over with the applied ones.
ResolvedFolHalf(l) ==
    [f \in Followers |->
        IF DeskOf(f) = l THEN NotFollowing
        ELSE [ono |-> HasTrim(f), applied |-> fol[f].applied, owed |-> 0, error |-> TrimError(f)]]

\* A member on the leader is no follower; one that was following carries over.
ResolvedFol(l) ==
    [f \in Followers |->
        IF DeskOf(f) = l THEN NotFollowing
        ELSE [ono |-> HasTrim(f), applied |-> fol[f].applied, owed |-> fol[f].owed,
              error |-> TrimError(f)]]

----------------------------------------------------------------------------
(* Reading the leader.  A desk whose adapter has read = "cache" is asked    *)
(* once and then answers from the adapter's cache; "ask" asks every time;   *)
(* both put the desk's reply on the event stream.  "rpc" answers the caller *)
(* alone.                                                                   *)

Cached(n) == Kind[n[1]].read = "cache" /\ cache[n] # None
Answer(n) == IF Cached(n) THEN cache[n] ELSE knob[n]

\* Mutant: the reply is published as the cache stood before it came.
RepliesUnread(n, readers) == [i \in 1..readers |-> cache[n]]

\* The replies that n readers in one go put on the stream.
Replies(n, readers) ==
    IF readers = 0 \/ Cached(n) \/ Kind[n[1]].read = "rpc" THEN <<>>
    ELSE IF Kind[n[1]].read = "cache" THEN <<knob[n]>>
    ELSE [i \in 1..readers |-> knob[n]]

ReadBy(readers) ==      \* readers[n]: how many signals read knob n
    /\ wire' = [n \in Knobs |-> wire[n] \o Replies(n, readers[n])]
    /\ cache' = [n \in Knobs |->
                    IF readers[n] > 0 /\ Kind[n[1]].read = "cache" THEN Answer(n) ELSE cache[n]]

----------------------------------------------------------------------------
(* settle(): offer each follower of F what it is due, the desks of dn left  *)
(* alone.  A desk that does not answer may still have taken some of the     *)
(* moves sent to it in parallel before it fell silent.                      *)

\* Mutant: a failed move is only logged.
RefusalUnnoticed(f, why, isHeld) ==
    IF why = "failed" THEN fol[f].error
    ELSE IF why # "none" THEN why
    ELSE IF isHeld /\ fol[f].error = "none" THEN "held" ELSE fol[f].error

\* The error of a follower that was not given a move.
Refusal(f, why, isHeld) ==
    IF why # "none" THEN why
    ELSE IF isHeld /\ fol[f].error = "none" THEN "held" ELSE fol[f].error

Settle(F, due, dn) ==
    LET open == {f \in F : due[f] # 0 /\ DeskOf(f) \notin dn /\ fol[f].ono}
        gone == {f \in open : DeskOf(f) \notin connected}
        sent == open \ gone
        took(f) == NudgeApplied(TrimLaw[DeskOf(f)], trim[f], due[f])
        held(f) == due[f] # 0 /\ DeskOf(f) \in dn
    IN \E failed \in SUBSET {f \in sent : DeskOf(f) \notin answering} :
        /\ fol' = [f \in Followers |->
             IF f \notin F THEN fol[f]
             ELSE IF f \in sent \ failed
             THEN [fol[f] EXCEPT !.applied = @ + took(f), !.owed = due[f] - took(f), !.error = "none"]
             ELSE [fol[f] EXCEPT !.owed = due[f],
                     !.error = Refusal(f, IF f \in failed THEN "failed"
                                          ELSE IF f \in gone THEN "not connected" ELSE "none",
                                       held(f))]]
        /\ trim' = [f \in Followers |->
             IF f \in sent \ failed THEN NudgeTarget(TrimLaw[DeskOf(f)], trim[f], due[f]) ELSE trim[f]]
        /\ down' = dn \union {DeskOf(f) : f \in failed}
        /\ \E stray \in SUBSET {f \in failed : LateMoves /\ late[f] = 0} :
              late' = [f \in Followers |-> IF f \in stray THEN due[f] ELSE late[f]]
        /\ UNCHANGED base

----------------------------------------------------------------------------
(* GainLock::new, on the devices registered by then *)

Init ==
    /\ connected \in {Desks \ gone : gone \in SUBSET MayLeave}
    /\ answering = Desks
    /\ knob \in [Knobs -> {GainMin}]
    /\ cache = [n \in Knobs |-> None]
    /\ wire = [n \in Knobs |-> <<>>]
    /\ trim = [f \in Followers |-> Quantize(TrimLaw[DeskOf(f)], 0)]
    /\ base = trim
    /\ late = [f \in Followers |-> 0]
    /\ leader = FirstLeader
    /\ locked = FALSE
    /\ down = {}
    /\ live = [s \in Signals |->
                 [preamp |-> LeaderPreamp(s, FirstLeader), ono |-> LeaderOno(s, FirstLeader),
                  gain |-> None, reference |-> None,
                  problem |-> LeaderProblem(s, FirstLeader), expected |-> <<>>]]
    /\ fol = [f \in Followers |->
                IF DeskOf(f) = FirstLeader THEN NotFollowing
                ELSE [ono |-> HasTrim(f), applied |-> 0, owed |-> 0, error |-> TrimError(f)]]
    /\ batch = [s \in Signals |-> None]
    /\ taking = FALSE /\ lagged = FALSE
    /\ probes = {} /\ back = {}
    /\ client = [c \in Clients |-> None]

----------------------------------------------------------------------------
(* What clients ask for *)

\* Mutant: locking again goes on with what was owed.
NewBooksOwing ==
    [f \in Followers |-> [ono |-> ResolvedFol(leader)[f].ono, applied |-> 0,
                          owed |-> ResolvedFol(leader)[f].owed, error |-> "none"]]

NewBooks ==
    [f \in Followers |-> [ono |-> ResolvedFol(leader)[f].ono, applied |-> 0, owed |-> 0,
                          error |-> "none"]]

\* lock(): resolve, forget the last lock's books, read every leader gain.  A
\* leader that falls silent meanwhile has answered only some of the reads.
Lock ==
    LET now == ResolvedLive(leader)
        leads == {s \in Signals : now[s].ono # None}
        at(s) == <<leader, now[s].ono>>
    IN /\ Free
       /\ \A s \in leads : Len(now[s].expected) < MaxExpected
       /\ Uncrowded
       /\ \E answered \in IF leader \in answering THEN {leads} ELSE SUBSET leads :
           /\ ReadBy([n \in Knobs |-> Cardinality({s \in answered : at(s) = n})])
           /\ live' = [s \in Signals |->
                IF s \in answered
                THEN [now[s] EXCEPT !.gain = Answer(at(s)), !.reference = Answer(at(s)),
                                    !.expected = Append(@, Answer(at(s)))]
                ELSE IF s \in leads /\ now[s].gain # None
                THEN [now[s] EXCEPT !.reference = now[s].gain]
                ELSE [now[s] EXCEPT !.reference = None,
                                    !.problem = IF s \in leads THEN "not armed" ELSE @]]
       /\ fol' = NewBooks
       /\ base' = trim
       /\ down' = {}
       /\ locked' = TRUE
       /\ UNCHANGED <<leader, task, client, network, knob, trim, late>>

Unlock ==
    /\ Free
    /\ locked' = FALSE
    /\ UNCHANGED <<leader, live, fol, down, task, client, network, preampDesk, trimDesk>>

SetLeader(d) ==
    /\ Free
    /\ ~locked
    /\ \E s \in Signals : \E k \in DOMAIN Members[s] :
          Members[s][k].device = d /\ Members[s][k].preamp # 0
    /\ leader' = d
    /\ live' = ResolvedLive(d)
    /\ fol' = ResolvedFol(d)
    /\ base' = [f \in Followers |-> IF DeskOf(f) = d THEN trim[f] ELSE base[f]]
    /\ UNCHANGED <<locked, down, task, client, network, preampDesk, trim, late>>

\* The leader takes a gain: it clamps it, and tells the adapter if it echoes.
\* One that has fallen silent does not get it, though a datagram to it counts
\* as sent.  An adapter that `keeps` what it sets refreshes its cache.
TakesGain(n, v) ==
    LET held == Clamp(GainMin, GainMax, v)
    IN IF leader \in answering
       THEN /\ knob' = [knob EXCEPT ![n] = held]
            /\ Len(wire[n]) < WireCap \/ ~Kind[leader].echoes
            /\ wire' = IF Kind[leader].echoes THEN [wire EXCEPT ![n] = Append(@, held)] ELSE wire
            /\ cache' = IF cache[n] # None /\ (Kind[leader].keeps \/ Kind[leader].echoes)
                        THEN [cache EXCEPT ![n] = held] ELSE cache
       ELSE /\ cache' = IF cache[n] # None /\ Kind[leader].keeps
                        THEN [cache EXCEPT ![n] = held] ELSE cache
            /\ UNCHANGED <<knob, wire>>

\* expect()
Expecting(s, v) == Append(live[s].expected, v)

\* set_preamp() up to its observe(), which is Observe below.
SetGain(s, v) ==
    /\ live[s].ono # None
    /\ leader \in connected
    /\ Room(s)
    /\ TakesGain(LeaderKnob(s), v)
    /\ live' = [live EXCEPT ![s].expected = Expecting(s, v)]
    /\ batch' = [batch EXCEPT ![s] = v]
    /\ UNCHANGED <<leader, locked, fol, down, taking, lagged, probes, back, network, trimDesk>>

SetPreamp(s, v) ==
    /\ Free
    /\ SetGain(s, v)
    /\ UNCHANGED client

\* nudge_preamp() takes the mutex to read the gain, and again to set it.
NudgePreamp(c, s, delta) ==
    /\ Free
    /\ client[c] = None
    /\ live[s].gain # None
    /\ live[s].gain + delta \in Askable
    /\ client' = [client EXCEPT ![c] = [signal |-> s, from |-> live[s].gain,
                                        to |-> live[s].gain + delta]]
    /\ UNCHANGED <<inner, task, network, preampDesk, trimDesk>>

NudgePreampSets(c) ==
    /\ Free
    /\ client[c] # None
    /\ client' = [client EXCEPT ![c] = None]
    /\ \/ SetGain(client[c].signal, client[c].to)
       \/ /\ ~Up(leader) \/ live[client[c].signal].ono = None
          /\ UNCHANGED <<inner, task, network, preampDesk, trimDesk>>

----------------------------------------------------------------------------
(* The engine task, run(): one of its branches at a time *)

\* on_events(), one report at a time: is_expected() settles the signal's
\* expectations, and an unexpected value replaces an earlier one of the batch.
Position(seq, v) == CHOOSE i \in DOMAIN seq : seq[i] = v /\ \A j \in 1..(i - 1) : seq[j] # v
IsExpected(s, v) == \E i \in DOMAIN live[s].expected : live[s].expected[i] = v

\* Mutant: an unexpected report leaves the expectations as they are.
SettledKeeping(s, v) ==
    IF IsExpected(s, v)
    THEN SubSeq(live[s].expected, Position(live[s].expected, v) + 1, Len(live[s].expected))
    ELSE live[s].expected

Settled(s, v) == IF IsExpected(s, v)
                 THEN SubSeq(live[s].expected, Position(live[s].expected, v) + 1, Len(live[s].expected))
                 ELSE <<>>

Hear(n) ==
    LET v == Head(wire[n])
        about == {s \in Signals : n = LeaderKnob(s)}
        news == {s \in about : ~IsExpected(s, v)}
    IN /\ TaskIdle
       /\ Free \/ taking
       /\ ~lagged
       /\ wire[n] # <<>>
       /\ wire' = [wire EXCEPT ![n] = Tail(@)]
       /\ live' = [s \in Signals |->
                     IF s \in about THEN [live[s] EXCEPT !.expected = Settled(s, v)] ELSE live[s]]
       /\ batch' = [s \in Signals |-> IF s \in news THEN v ELSE batch[s]]
       /\ taking' = (taking \/ news # {})
       /\ UNCHANGED <<leader, locked, fol, down, lagged, probes, back, client, network, knob,
                      cache, trimDesk>>

\* Mutant: falling behind is only logged.
NoRereads == [s \in Signals |-> None]

\* read_leader(): every signal that has an object, one after the other.
Rereads == [s \in Signals |-> IF live[s].ono # None THEN Reread ELSE None]

RecvLagged ==
    /\ TaskIdle /\ Free
    /\ lagged
    /\ lagged' = FALSE
    /\ batch' = Rereads
    /\ UNCHANGED <<inner, taking, probes, back, client, network, preampDesk, trimDesk>>

PollTick ==
    /\ Poll
    /\ TaskIdle /\ Free
    /\ Uncrowded
    /\ batch' = Rereads
    /\ UNCHANGED <<inner, taking, lagged, probes, back, client, network, preampDesk, trimDesk>>

\* The read of one signal; the gain it answers is then observed.
ReadLeader(s) ==
    /\ batch[s] = Reread
    /\ IF Up(leader)
       THEN /\ Room(s)
            /\ ReadBy([n \in Knobs |-> IF n = LeaderKnob(s) THEN 1 ELSE 0])
            /\ live' = [live EXCEPT ![s].expected = Expecting(s, Answer(LeaderKnob(s)))]
            /\ batch' = [batch EXCEPT ![s] = Answer(LeaderKnob(s))]
       ELSE /\ batch' = [batch EXCEPT ![s] = None]
            /\ UNCHANGED <<live, wire, cache>>
    /\ UNCHANGED <<leader, locked, fol, down, taking, lagged, probes, back, client, network,
                   knob, trimDesk>>

\* Mutant: the move replaces what was still owed.
DueAfresh(s, gain) == [f \in FollowersOf(s) |-> live[s].gain - gain]

\* The opposite of the leader's move, on top of what is owed already.
Due(s, gain) == [f \in FollowersOf(s) |-> fol[f].owed - (gain - live[s].gain)]

\* Mutant: arming leaves the problem standing.
ArmedAtStillAProblem(s, gain) == [live[s] EXCEPT !.gain = gain, !.reference = gain]

ArmedAt(s, gain) == [live[s] EXCEPT !.gain = gain, !.reference = gain, !.problem = "none"]

\* observe(): the one place a leader gain becomes compensation.
Observe(s) ==
    LET gain == batch[s]
    IN /\ gain \notin {None, Reread}
       /\ batch' = [batch EXCEPT ![s] = None]
       /\ taking' = FALSE
       /\ \/ /\ ~locked \/ (live[s].gain = gain /\ live[s].reference # None)
             /\ live' = [live EXCEPT ![s].gain = gain]
             /\ UNCHANGED <<fol, down, trimDesk>>
          \/ /\ locked /\ (live[s].gain = None \/ live[s].reference = None)
             /\ live' = [live EXCEPT ![s] = ArmedAt(s, gain)]
             /\ UNCHANGED <<fol, down, trimDesk>>
          \/ /\ locked /\ live[s].reference # None /\ live[s].gain \notin {None, gain}
             /\ live' = [live EXCEPT ![s].gain = gain]
             /\ Settle(FollowersOf(s), Due(s, gain), down)
       /\ UNCHANGED <<leader, locked, lagged, probes, back, client, network, preampDesk>>

\* retry_failed(): the desks to probe are picked under the mutex, each by the
\* first of its followers, and probed outside it.
Before(f, g) == f[1] < g[1] \/ (f[1] = g[1] /\ f[2] <= g[2])
FirstOn(d) == {f \in Following : DeskOf(f) = d /\ \A g \in Following : DeskOf(g) = d => Before(f, g)}
Probes == {d \in down : \E f \in FirstOn(d) : fol[f].ono}

RetryTick ==
    /\ TaskIdle /\ Free
    /\ locked
    /\ Probes # {}
    /\ probes' = Probes
    /\ UNCHANGED <<inner, batch, taking, lagged, back, client, network, preampDesk, trimDesk>>

Probe(d) ==
    /\ d \in probes
    /\ probes' = probes \ {d}
    /\ back' = IF Up(d) THEN back \union {d} ELSE back
    /\ UNCHANGED <<inner, batch, taking, lagged, client, network, preampDesk, trimDesk>>

\* Mutant: the lock is not looked at again after the probes.
LockedBefore == TRUE
StillLocked == locked

\* Mutant: a desk that answers again stays marked down.
StillDown == down
NotBack == down \ back

RetryFailed ==
    LET F == {f \in Following : DeskOf(f) \in back}
    IN /\ probes = {} /\ back # {}
       /\ Free
       /\ back' = {}
       /\ \/ /\ ~StillLocked
             /\ UNCHANGED <<fol, down, trimDesk>>
          \/ /\ StillLocked
             /\ Settle(F, [f \in F |-> fol[f].owed], NotBack)
       /\ UNCHANGED <<leader, locked, live, batch, taking, lagged, probes, client, network,
                      preampDesk>>

----------------------------------------------------------------------------
(* The desks, the network and time *)

\* An engineer turns a preamp on the desk's own surface.
SurfaceMove(n, v) ==
    LET d == n[1]
        heard == Up(d) /\ Kind[d].pushes
    IN /\ v # knob[n]
       /\ knob' = [knob EXCEPT ![n] = v]
       /\ heard => Len(wire[n]) < WireCap
       /\ wire' = IF heard THEN [wire EXCEPT ![n] = Append(@, v)] ELSE wire
       /\ cache' = IF heard /\ Kind[d].read = "cache" THEN [cache EXCEPT ![n] = v] ELSE cache
       /\ UNCHANGED <<inner, task, client, network, trimDesk>>

\* An engineer moves a trim on the desk's own surface.
LocalMove(f, v) ==
    /\ v # trim[f]
    /\ trim' = [trim EXCEPT ![f] = v]
    /\ base' = [base EXCEPT ![f] = @ + v - trim[f]]
    /\ UNCHANGED <<inner, task, client, network, preampDesk, late>>

\* A move the engine gave up on reaches the desk after all.
LateMove(f) ==
    /\ late[f] # 0
    /\ Up(DeskOf(f))
    /\ trim' = [trim EXCEPT ![f] = NudgeTarget(TrimLaw[DeskOf(f)], trim[f], late[f])]
    /\ late' = [late EXCEPT ![f] = 0]
    /\ UNCHANGED <<inner, task, client, network, preampDesk, base>>

Fail(d) ==
    /\ d \in answering
    /\ answering' = answering \ {d}
    /\ UNCHANGED <<inner, task, client, connected, preampDesk, trimDesk>>

Recover(d) ==
    /\ d \notin answering
    /\ answering' = answering \union {d}
    /\ UNCHANGED <<inner, task, client, connected, preampDesk, trimDesk>>

\* deregister_device: reports the Router's listener has not taken are lost.
Leave(d) ==
    /\ d \in connected
    /\ connected' = connected \ {d}
    /\ \E lost \in SUBSET {n \in Knobs : n[1] = d} :
          wire' = [n \in Knobs |-> IF n \in lost THEN <<>> ELSE wire[n]]
    /\ cache' = [n \in Knobs |-> IF n[1] = d THEN None ELSE cache[n]]
    /\ UNCHANGED <<inner, task, client, answering, knob, trimDesk>>

Join(d) ==
    /\ d \in Desks \ connected
    /\ connected' = connected \union {d}
    /\ UNCHANGED <<inner, task, client, answering, preampDesk, trimDesk>>

\* The tap's ring overwrites the oldest report; the next recv() says so.
Lag(n) ==
    /\ MayLag
    /\ wire[n] # <<>>
    /\ wire' = [wire EXCEPT ![n] = Tail(@)]
    /\ lagged' = TRUE
    /\ UNCHANGED <<inner, batch, taking, probes, back, client, network, knob, cache, trimDesk>>

\* ECHO_TTL passes: the oldest expectation is dropped by the next retain().
OnTheWire(s, v) ==
    \E n \in Knobs : n = LeaderKnob(s) /\ \E i \in DOMAIN wire[n] : wire[n][i] = v

ExpireEcho(s) ==
    /\ live[s].expected # <<>>
    /\ SlowEchoes \/ ~OnTheWire(s, Head(live[s].expected))
    /\ live' = [live EXCEPT ![s].expected = Tail(@)]
    /\ UNCHANGED <<leader, locked, fol, down, task, client, network, preampDesk, trimDesk>>

----------------------------------------------------------------------------
Client ==
    \/ Lock \/ Unlock
    \/ \E d \in Desks : SetLeader(d)
    \/ \E s \in Signals : \E v \in SetValues : SetPreamp(s, v)
    \/ \E c \in Clients : \/ \E s \in Signals : \E delta \in Deltas : NudgePreamp(c, s, delta)
                          \/ NudgePreampSets(c)

Engine ==
    \/ \E n \in Knobs : Hear(n)
    \/ RecvLagged \/ PollTick
    \/ \E s \in Signals : ReadLeader(s) \/ Observe(s)
    \/ RetryTick \/ RetryFailed
    \/ \E d \in Desks : Probe(d)

World ==
    \/ \E n \in Knobs : \E v \in SurfaceGains : SurfaceMove(n, v)
    \/ \E f \in Followers : LateMove(f) \/ \E v \in LocalTrims : LocalMove(f, v)
    \/ \E d \in MayFail : Fail(d) \/ Recover(d)
    \/ \E d \in MayLeave : Leave(d) \/ Join(d)
    \/ \E n \in Knobs : Lag(n)
    \/ \E s \in Signals : ExpireEcho(s)

Next == Client \/ Engine \/ World

Spec == Init /\ [][Next]_vars

\* Fairness.  The engine is one task of a running executor; it waits for the
\* mutex in turn (tokio's Mutex is first come, first served) and select! picks
\* among ready branches at random, so a branch that is ready again and again
\* is taken.  Expectations expire because time passes.  Nothing is assumed of
\* clients, engineers or the network.
Fairness ==
    /\ \A n \in Knobs : SF_vars(Hear(n))
    /\ SF_vars(RecvLagged) /\ SF_vars(PollTick)
    /\ \A s \in Signals : WF_vars(ReadLeader(s)) /\ WF_vars(Observe(s)) /\ WF_vars(ExpireEcho(s))
    /\ SF_vars(RetryTick) /\ SF_vars(RetryFailed)
    /\ \A d \in Desks : WF_vars(Probe(d))

FairSpec == Spec /\ Fairness

----------------------------------------------------------------------------
(* Type invariant *)

Optional(S) == S \union {None}
Problems == {"none", "no preamp", "not connected", "no such preamp", "not armed"}
Errors == {"none", "not connected", "no trim", "held", "failed"}
Live == [preamp : Optional(Int), ono : Optional(Int), gain : Optional(Int),
         reference : Optional(Int), problem : Problems, expected : Seq(Int)]
Follower == [ono : BOOLEAN, applied : Int, owed : Int, error : Errors]

\* Every variable keeps its type: gains and books are integers, a batch entry
\* is a gain, a pending read or nothing.
TypeOK ==
    /\ leader \in Desks /\ locked \in BOOLEAN
    /\ live \in [Signals -> Live]
    /\ fol \in [Followers -> Follower]
    /\ down \subseteq Desks
    /\ batch \in [Signals -> Int \union {None, Reread}]
    /\ taking \in BOOLEAN /\ lagged \in BOOLEAN
    /\ probes \subseteq Desks /\ back \subseteq Desks
    /\ client \in [Clients -> Optional([signal : Signals, from : Int, to : Int])]
    /\ connected \subseteq Desks /\ answering \subseteq Desks
    /\ knob \in [Knobs -> Int] /\ cache \in [Knobs -> Optional(Int)]
    /\ wire \in [Knobs -> Seq(Int)]
    /\ trim \in [Followers -> Int] /\ base \in [Followers -> Int] /\ late \in [Followers -> Int]

----------------------------------------------------------------------------
(* Safety *)

Armed(s) == locked /\ live[s].reference # None

\* "Nothing is dropped" (module comment of gain_lock.rs): while locked, what a
\* follower was given and what it is still owed add up to the opposite of the
\* leader's move since the lock - and to nothing before the signal is armed.
Conservation ==
    \A f \in Following : locked =>
        LET s == f[1] IN
        IF live[s].reference = None THEN fol[f].applied = 0 /\ fol[f].owed = 0
        ELSE /\ live[s].gain # None
             /\ fol[f].applied + fol[f].owed = live[s].reference - live[s].gain

\* FollowerStatus::applied_db is "Net trim change this lock has made on the
\* follower": the desk's trim is where its engineer left it plus that change.
AppliedIsReal == \A f \in Followers : trim[f] = base[f] + fol[f].applied

\* The point of the lock, end to end.  Once the leader's reports have been
\* acted on, a follower that is owed nothing hears the leader's gain plus its
\* own trim at the level its engineer set, wherever the leader's gain now is.
CaughtUp(s) == Armed(s) /\ live[s].ono # None /\ Free /\ ~lagged /\ wire[LeaderKnob(s)] = <<>>
LevelsHold ==
    \A f \in Following : CaughtUp(f[1]) /\ fol[f].owed = 0 =>
        knob[LeaderKnob(f[1])] + trim[f] = live[f[1]].reference + base[f]

\* FollowerStatus::owed_db: what is owed and reported without an error is
\* "under half a trim step, or beyond the trim's range" (stated for desks whose
\* trims only the lock moves: a local move can free a pinned trim).
Size(x) == IF x < 0 THEN -x ELSE x
Served(f) ==
    LET law == TrimLaw[DeskOf(f)] IN
    \/ 2 * Size(fol[f].owed) <= law.step
    \/ fol[f].owed > 0 /\ trim[f] = law.max
    \/ fol[f].owed < 0 /\ trim[f] = law.min
OwedIsExplained == \A f \in Following : locked /\ fol[f].error = "none" => Served(f)

\* SignalStatus::problem says "Why this signal isn't being compensated, if it
\* isn't": a locked signal has a problem exactly when it has no reference.
ProblemIsTruthful ==
    locked => \A s \in Signals : live[s].problem = "none" <=> live[s].reference # None

----------------------------------------------------------------------------
(* Action properties *)

\* unlock(): "The trims stay where the lock left them."  Released, a trim moves
\* only under its engineer's hand.
ReleasedTrimsStay ==
    [][~locked => \A f \in Followers :
          trim'[f] # trim[f] => trim'[f] - trim[f] = base'[f] - base[f]]_vars

\* Live::expected: swallowing a report never loses a move.  When the last
\* report under way is swallowed, the engine goes by the gain the desk holds.
SwallowLosesNothing ==
    [][\A s \in Signals : \A n \in Knobs :
          n = LeaderKnob(s) /\ Len(wire[n]) = 1 /\ wire'[n] = <<>> /\ ~lagged' /\ ~taking
             /\ batch' = batch /\ connected' = connected
          => live[s].gain = knob[n]]_vars

\* resolve(): a new leader is a new gain, "nothing the old
\* leader reported carries over".
NothingCarriesOver ==
    [][leader' # leader => \A s \in Signals : live'[s].gain = None /\ live'[s].expected = <<>>]_vars

\* The engine implements the ledger of Compensation: no step of any operation
\* touches the books except as the ledger allows.
Ledger == INSTANCE Compensation WITH
    SignalOf <- [f \in Followers |-> f[1]],
    engaged  <- locked,
    heard    <- [s \in Signals |-> live[s].gain],
    since    <- [s \in Signals |-> live[s].reference],
    given    <- [f \in Followers |-> fol[f].applied],
    owed     <- [f \in Followers |-> fol[f].owed]
Compensates == Ledger!Spec

----------------------------------------------------------------------------
(* Liveness *)

\* "when it answers it gets everything it missed in one move": a follower desk
\* that stays connected and answering under a lasting lock is served again and
\* again, whatever it missed before.
OwedIsServed ==
    \A f \in Followers :
        <>[](locked /\ DeskOf(f) # leader /\ Up(DeskOf(f))) => []<>(Served(f) /\ DeskOf(f) \notin down)

\* A leader left alone and answering is followed: the engine comes to know the
\* gain its preamp really has.
LeaderIsFollowed ==
    \A n \in Knobs : \A s \in Signals :
        <>[][knob' = knob]_vars /\ <>[](locked /\ Up(leader) /\ live[s].ono # None /\ LeaderKnob(s) = n)
            => <>[](live[s].gain = knob[n])
=============================================================================
