---------------------------- MODULE ConsoleProofs ----------------------------
(***************************************************************************)
(* For any desk, any callers, any loss and any outage: what the seven      *)
(* console adapters tell a peer and answer from their caches.  Each step   *)
(* of an adapter is first shown to be one of a dozen kinds of step; the    *)
(* invariants are then proved of the kinds.                                *)
(***************************************************************************)
EXTENDS MCConsoles, DbLawProofs, SequenceTheorems

\* The adapters, and what they have in common.
Dialects == {"x32", "wing", "dm3", "scp", "ahm", "dlive", "ewg3"}
Trimmed == rig.dialect \in {"x32", "wing"}            \* has a trim
Kept == rig.dialect \in {"x32", "wing", "ewg3"}       \* caches what it writes
Tcp == rig.dialect \in {"scp", "ahm", "dlive"}        \* is told everything

----------------------------------------------------------------------------
(* What is under way *)

\* What there is to ask and to report: a gain somebody can have turned to, 48V
\* and pad switched on, a trim where there is one, the name of the desk.
Gains == Turned("gain")
Switched == IF rig.dialect = "ewg3" THEN {} ELSE {"phantom", "pad"}
Ridden == IF Trimmed THEN {"trim"} ELSE {}
Infos == IF rig.dialect = "ewg3" THEN {} ELSE {"info"}

Gets == [op : {"get"}, k : {"gain"} \cup Switched \cup Ridden \cup Infos, v : {None}, by : {0}]
GainPuts == [op : {"set"}, k : {"gain"}, v : {v \in Int : Quantize(GainLaw, v) # 0}, by : {0}]
SwitchPuts == [op : {"set"}, k : Switched, v : {1}, by : {0}]
TrimPuts == [op : {"set"}, k : Ridden, v : Int, by : Int]
Renewals == IF Kept THEN {Renew} ELSE {}
Requests == Gets \cup GainPuts \cup SwitchPuts \cup TrimPuts \cup Renewals

Reports == [k : {"gain"}, v : Gains] \cup [k : Switched, v : {1}]
           \cup [k : Ridden, v : Grid(TrimLaw)] \cup [k : {"refused"} \cup Infos, v : {None}]

\* What an adapter keeps of one input.
Entries == [gain : {None, 0} \cup Gains, phantom : BOOLEAN, pad : {None} \cup BOOLEAN]

\* What a step finds: messages of these kinds in both directions, a desk
\* somebody could have turned there, and the peer told nothing else.
Types ==
    /\ rig \in Rigs /\ rig.dialect \in Dialects
    /\ desk \in [gain : Gains, phantom : {1}, pad : {1}, trim : Grid(TrimLaw)]
    /\ up \in Seq(Requests) /\ down \in Seq(Reports)
    /\ cache \in {None} \cup Entries
    /\ cache # None => cache.gain \in {None} \cup Gains \/ rig.dialect = "scp"
    /\ told \in [gain : {None} \cup Gains, phantom : {None, TRUE}, pad : {None, TRUE}]

----------------------------------------------------------------------------
(* Queues *)

\* Nothing of k is under way in q.
Free(q, k) == \A i \in 1..Len(q) : q[i].k # k

\* The last message about k, if there is one, says v.
Ends(q, k, v) ==
    \A i \in 1..Len(q) :
        q[i].k = k /\ (\A j \in 1..Len(q) : i < j => q[j].k # k) => q[i].v = v

\* The desk takes or the adapter hears the oldest message.
LEMMA Taken ==
    ASSUME NEW M, NEW q \in Seq(M), q # <<>>
    PROVE  /\ Tail(q) \in Seq(M) /\ Head(q) \in M /\ Head(q) = q[1]
           /\ 1 \in 1..Len(q) /\ Len(Tail(q)) = Len(q) - 1
           /\ \A i \in 1..Len(Tail(q)) : i + 1 \in 1..Len(q) /\ Tail(q)[i] = q[i + 1]
           /\ \A j \in 1..Len(q) : j # 1 => j - 1 \in 1..Len(Tail(q)) /\ q[j] = Tail(q)[j - 1]
<1>1. Len(q) \in Nat /\ Len(q) > 0  BY EmptySeq, LenProperties
<1>2. /\ Tail(q) \in Seq(M) /\ Head(q) \in M /\ Head(q) = q[1] /\ Len(Tail(q)) = Len(q) - 1
      /\ \A i \in 1..Len(Tail(q)) : Tail(q)[i] = q[i + 1]
  BY HeadTailProperties
<1>3. \A i \in 1..Len(Tail(q)) : i + 1 \in 1..Len(q)  BY <1>1, <1>2
<1>4. ASSUME NEW j \in 1..Len(q), j # 1
      PROVE  j - 1 \in 1..Len(Tail(q)) /\ q[j] = Tail(q)[j - 1]
  <2>1. j - 1 \in 1..Len(Tail(q)) /\ (j - 1) + 1 = j  BY <1>1, <1>2, <1>4
  <2> QED  BY <1>2, <2>1
<1> QED  BY <1>1, <1>2, <1>3, <1>4

\* One more message is sent.
LEMMA Sent ==
    ASSUME NEW M, NEW q \in Seq(M), NEW m \in M
    PROVE  /\ q \o <<m>> \in Seq(M) /\ Len(q \o <<m>>) = Len(q) + 1 /\ Len(q) \in Nat
           /\ \A i \in 1..Len(q) : i \in 1..Len(q \o <<m>>) /\ (q \o <<m>>)[i] = q[i]
           /\ Len(q) + 1 \in 1..Len(q \o <<m>>) /\ (q \o <<m>>)[Len(q) + 1] = m
           /\ \A j \in 1..Len(q \o <<m>>) : j \in 1..Len(q) \/ j = Len(q) + 1
<1>1. <<m>> \in Seq(M) /\ Len(<<m>>) = 1 /\ <<m>>[1] = m  OBVIOUS
<1>2. /\ q \o <<m>> \in Seq(M) /\ Len(q \o <<m>>) = Len(q) + 1
      /\ \A i \in 1..Len(q) + 1 :
            (q \o <<m>>)[i] = IF i <= Len(q) THEN q[i] ELSE <<m>>[i - Len(q)]
  BY <1>1, ConcatProperties
<1>3. Len(q) \in Nat  BY LenProperties
<1>4. Len(q) + 1 \in 1..Len(q) + 1 /\ ~(Len(q) + 1 <= Len(q)) /\ (Len(q) + 1) - Len(q) = 1
  BY <1>3
<1>5. (q \o <<m>>)[Len(q) + 1] = m  BY <1>1, <1>2, <1>4
<1>6. \A i \in 1..Len(q) : i \in 1..Len(q) + 1 /\ i <= Len(q)  BY <1>3
<1>7. \A j \in 1..Len(q) + 1 : j \in 1..Len(q) \/ j = Len(q) + 1  BY <1>3
<1> QED  BY <1>2, <1>3, <1>4, <1>5, <1>6, <1>7

\* What a queue says of k once its oldest message is gone.
LEMMA TakenSays ==
    ASSUME NEW M, NEW q \in Seq(M), q # <<>>, NEW k, NEW v
    PROVE  /\ Free(q, k) => Free(Tail(q), k) /\ Head(q).k # k
           /\ Free(Tail(q), k) /\ Head(q).k # k => Free(q, k)
           /\ Ends(q, k, v) => Ends(Tail(q), k, v)
           /\ Ends(q, k, v) /\ Free(Tail(q), k) /\ Head(q).k = k => Head(q).v = v
<1> DEFINE t == Tail(q)
<1>1. /\ Head(q) = q[1] /\ 1 \in 1..Len(q)
      /\ \A i \in 1..Len(t) : i + 1 \in 1..Len(q) /\ t[i] = q[i + 1]
      /\ \A j \in 1..Len(q) : j # 1 => j - 1 \in 1..Len(t) /\ q[j] = t[j - 1]
  BY Taken
<1>2. Free(q, k) => Free(t, k) /\ Head(q).k # k  BY <1>1 DEF Free
<1>3. Free(t, k) /\ Head(q).k # k => Free(q, k)  BY <1>1 DEF Free
<1>4. ASSUME Ends(q, k, v), NEW i \in 1..Len(t), t[i].k = k,
             \A j \in 1..Len(t) : i < j => t[j].k # k
      PROVE  t[i].v = v
  <2>1. i + 1 \in 1..Len(q) /\ q[i + 1] = t[i]  BY <1>1
  <2>2. ASSUME NEW j \in 1..Len(q), i + 1 < j PROVE q[j].k # k
    <3>1. j # 1 /\ i < j - 1  BY <2>2
    <3> QED  BY <1>1, <1>4, <3>1
  <2> QED  BY <1>4, <2>1, <2>2 DEF Ends
<1>5. Ends(q, k, v) => Ends(t, k, v)  BY <1>4 DEF Ends
<1>6. ASSUME Ends(q, k, v), Free(t, k), Head(q).k = k PROVE Head(q).v = v
  <2>1. ASSUME NEW j \in 1..Len(q), 1 < j PROVE q[j].k # k
    <3>1. j - 1 \in 1..Len(t) /\ q[j] = t[j - 1]  BY <1>1, <2>1
    <3> QED  BY <1>6, <3>1 DEF Free
  <2> QED  BY <1>1, <1>6, <2>1 DEF Ends
<1> QED  BY <1>2, <1>3, <1>5, <1>6

\* What a queue says of k once one more message is under way.
LEMMA SentSays ==
    ASSUME NEW M, NEW q \in Seq(M), NEW m \in M, NEW k, NEW v
    PROVE  /\ Free(q, k) /\ m.k # k <=> Free(q \o <<m>>, k)
           /\ Ends(q, k, v) /\ m.k # k => Ends(q \o <<m>>, k, v)
           /\ m.k = k /\ m.v = v => Ends(q \o <<m>>, k, v)
<1> DEFINE a == q \o <<m>>
           l == Len(q) + 1
<1>1. /\ l \in Nat /\ \A i \in 1..Len(q) : i \in 1..Len(a) /\ a[i] = q[i] /\ i < l
      /\ l \in 1..Len(a) /\ a[l] = m
      /\ \A j \in 1..Len(a) : j \in 1..Len(q) \/ j = l
  BY Sent
<1>2. Free(q, k) /\ m.k # k <=> Free(a, k)  BY <1>1 DEF Free
<1>3. ASSUME Ends(q, k, v), m.k # k, NEW i \in 1..Len(a), a[i].k = k,
             \A j \in 1..Len(a) : i < j => a[j].k # k
      PROVE  a[i].v = v
  <2>1. i \in 1..Len(q)  BY <1>1, <1>3
  <2>2. \A j \in 1..Len(q) : i < j => q[j].k # k  BY <1>1, <1>3
  <2> QED  BY <1>1, <1>3, <2>1, <2>2 DEF Ends
<1>4. ASSUME m.k = k, m.v = v, NEW i \in 1..Len(a), a[i].k = k,
             \A j \in 1..Len(a) : i < j => a[j].k # k
      PROVE  a[i].v = v
  <2>1. i = l  BY <1>1, <1>4
  <2> QED  BY <1>1, <1>4, <2>1
<1> QED  BY <1>2, <1>3, <1>4 DEF Ends

\* While a trim is waited for the desk's stays as it is, the cache has it or
\* nothing, and what is under way to the adapter says it; and a nudge sets it
\* off the trim it meets.
Rides ==
    /\ AwaitsTrim =>
          /\ call.by \in Int /\ trim \in {None, desk.trim}
          /\ \A i \in 1..Len(up) : up[i].k = "trim" => up[i].op = "get"
          /\ \A i \in 1..Len(down) : down[i].k = "trim" => down[i].v = desk.trim
    /\ \A i \in 1..Len(up) : up[i].op = "set" /\ up[i].by # 0 =>
          /\ up[i].v = desk.trim + up[i].by
          /\ \A j \in 1..Len(up) : j < i => up[j].k # "trim"

\* Over TCP: while the desk tells what changes, its last report under way, or
\* else what the peer was told, is its gain; before the session nothing is.
Follows ==
    Tcp =>
      /\ link = "new" => up = <<>> /\ told.gain = None /\ Free(down, "gain") /\ ~pushes /\ ~ears
      /\ pushes => /\ Ends(down, "gain", desk.gain)
                   /\ Free(down, "gain") => told.gain \in {None, desk.gain}

\* The request writes a gain.
IsPut(m) == m.op = "set" /\ m.k = "gain"

\* Over UDP, while nothing was lost and no write crossed a report: a write on
\* its way is the only news of the gain, and the cache has it; without one
\* the last report, or else the cache, has the desk's gain.
NoPut(q) == \A i \in 1..Len(q) : ~IsPut(q[i])
News(q, d, c, g) ==
    /\ \A i \in 1..Len(q) : IsPut(q[i]) =>
          /\ Free(d, "gain")
          /\ \A j \in 1..Len(q) : j < i => q[j].k # "gain"
          /\ Known(c) => c.gain = Quantize(GainLaw, q[i].v)
    /\ NoPut(q) =>
          /\ Ends(d, "gain", g)
          /\ Free(d, "gain") /\ Known(c) => c.gain = g
Settled == Kept /\ clean => power /\ News(up, down, cache, desk.gain)

----------------------------------------------------------------------------
(* The kinds of step *)

\* What is asked without changing anything.
Polite == Gets \cup Renewals

\* Nothing moves but the power, the loops, and calls that end.
Stands ==
    /\ UNCHANGED <<rig, desk, wire, mind>>
    /\ pushes' => pushes
    /\ clean' => clean /\ (power => power')
    /\ call' = call \/ ~AwaitsTrim'
    /\ link' = "new" => link = "new" /\ (ears' => ears)

\* The socket opens.
Opening ==
    /\ link = "new" /\ link' # "new"
    /\ UNCHANGED <<rig, desk, power, wire, mind, call, clean>>

\* A datagram is lost, or a write ignored.
Loses ==
    /\ ~Tcp /\ clean' = FALSE
    /\ \/ up # <<>> /\ up' = Tail(up) /\ UNCHANGED down
       \/ down # <<>> /\ down' = Tail(down) /\ UNCHANGED up
    /\ UNCHANGED <<rig, desk, power, pushes, loops, mind, call>>

\* Things are asked of the desk, or the subscription renewed.
Asks ==
    /\ \E msgs \in Seq(Polite) : up' = up \o msgs
    /\ call' = call \/ ~AwaitsTrim'
    /\ Tcp => link # "new" /\ link' # "new"
    /\ UNCHANGED <<rig, desk, power, pushes, down, mind, clean>>

\* A gain is sent; the adapters that keep it keep what the desk makes of it.
Puts ==
    /\ link = "open" /\ call = None
    /\ \E v \in {v \in Int : Quantize(GainLaw, v) # 0} :
          /\ up' = up \o <<Put("gain", v)>>
          /\ \/ UNCHANGED cache /\ (Kept => cache = None)
             \/ Kept /\ cache' \in Entries /\ cache'.gain = Quantize(GainLaw, v)
    /\ clean' = (clean /\ ~Crossed)
    /\ UNCHANGED <<rig, desk, power, pushes, down, loops, trim, told, call>>

\* Phantom power is switched on.
Switches48V ==
    /\ link = "open" /\ rig.dialect # "ewg3"
    /\ up' = up \o <<Put("phantom", 1)>>
    /\ UNCHANGED <<rig, desk, power, pushes, down, loops, mind, call, clean>>

\* The adapter hears the oldest report.
Hears ==
    /\ ears /\ down # <<>> /\ down' = Tail(down)
    /\ LET m == Head(down) IN
       \/ m.k \in {"refused"} \cup Infos /\ UNCHANGED mind
       \/ m.k \in Ridden /\ trim' = m.v /\ UNCHANGED <<cache, told>>
       \/ /\ m.k = "gain" /\ UNCHANGED trim
          /\ cache' \in Entries /\ cache'.gain = m.v
          /\ told' \in {told, [told EXCEPT !.gain = m.v]} /\ (Tcp => told'.gain = m.v)
       \/ /\ m.k \in Switched /\ UNCHANGED trim
          /\ cache' \in Entries
          /\ IF cache = None THEN cache'.gain = None \/ (cache'.gain = 0 /\ rig.dialect = "scp")
             ELSE cache'.gain = cache.gain
          /\ told' = [told EXCEPT ![m.k] = TRUE]
    /\ (ears' => ears)
    /\ UNCHANGED <<rig, desk, power, pushes, up, link, call, clean>>

\* A trim is asked for, and forgotten until the answer comes.
AsksForTrim ==
    /\ Trimmed /\ link = "open" /\ call = None /\ Quiet("trim") /\ trim' = None
    /\ \/ up' = up \o <<Get("trim")>> /\ call'.by \in Int
       \/ UNCHANGED <<up, call>>
    /\ UNCHANGED <<rig, desk, power, pushes, down, loops, cache, told, clean>>

\* A trim is set outright.
PutsTrim ==
    /\ Trimmed /\ link = "open" /\ call = None
    /\ \E v \in Int : up' = up \o <<Put("trim", v)>>
    /\ UNCHANGED <<rig, desk, power, pushes, down, loops, cache, told, call, clean>>

\* Every step of every adapter is one of these.
Step == \/ Turn \/ DeskTakes \/ (Tcp /\ HangUp) \/ (Trimmed /\ TrimFound)
        \/ Stands \/ Opening \/ Loses \/ Asks \/ Puts \/ Switches48V \/ Hears
        \/ AsksForTrim \/ PutsTrim

----------------------------------------------------------------------------
(* What the handlers are made of *)

\* What a law makes of a value is a value of the control.
LEMMA Grids ==
    /\ \A v \in Int : Quantize(GainLaw, v) \in Grid(GainLaw) /\ Quantize(TrimLaw, v) \in Grid(TrimLaw)
    /\ \A x \in Grid(GainLaw) : x \in Int /\ OnGrid(GainLaw, x) /\ Quantize(GainLaw, x) = x
    /\ \A x \in Grid(TrimLaw) : x \in Int /\ OnGrid(TrimLaw, x) /\ Quantize(TrimLaw, x) = x
<1>1. ASSUME NEW law, IsLaw(law)
      PROVE  /\ \A v \in Int : Quantize(law, v) \in Grid(law)
             /\ \A x \in Grid(law) : x \in Int /\ OnGrid(law, x) /\ Quantize(law, x) = x
  <2>1. Points(law) \in Nat  BY <1>1, TopIsOnGrid
  <2>2. ASSUME NEW v \in Int PROVE Quantize(law, v) \in Grid(law)
    <3>1. Index(law, v) \in 0..Points(law)  BY <1>1, Landing
    <3> QED  BY <3>1 DEF Quantize, Grid, Points
  <2>3. ASSUME NEW x \in Grid(law) PROVE x \in Int /\ OnGrid(law, x) /\ Quantize(law, x) = x
    <3>1. PICK i \in 0..Points(law) : x = At(law, i)  BY DEF Grid, Points
    <3>2. x = law.min + i * law.step  BY <1>1, <3>1, InRange
    <3>3. Index(law, x) = i  BY <1>1, <3>2, GridPointIsItsOwn
    <3>4. x \in Int  BY <1>1, <2>1, <3>1, AtType
    <3> QED  BY <3>1, <3>2, <3>3, <3>4 DEF Quantize, OnGrid
  <2> QED  BY <2>2, <2>3
<1> QED  BY <1>1, ValueAssumption DEF ValueAssumption

\* A gain sent and a gain kept are gains the desk has.
LEMMA Gained ==
    /\ \A v \in Int : Quantize(GainLaw, v) # 0 => Quantize(GainLaw, v) \in Gains
    /\ Types => rig.asks \subseteq {v \in Int : Quantize(GainLaw, v) # 0}
    /\ Gains \subseteq {v \in Int : Quantize(GainLaw, v) # 0} /\ 0 \notin Gains
    /\ \A v \in Gains : Quantize(GainLaw, v) = v
  BY Grids, ValueAssumption DEF Gains, Turned, Types, ValueAssumption

\* What the handlers read of a report, and what an event then says.
LEMMA Hearing ==
    ASSUME Types, NEW m \in Reports, m.k \in {"gain"} \cup Switched, m.k # "trim",
           NEW blank \in Entries,
           blank.gain = None \/ (blank.gain = 0 /\ rig.dialect = "scp"),
           Reported(Heard(blank, m), {m.k})
    PROVE  /\ UNCHANGED trim /\ cache' \in Entries
           /\ m.k = "gain" => cache'.gain = m.v /\ told' = [told EXCEPT !.gain = m.v]
           /\ m.k \in Switched =>
                 /\ IF cache = None THEN cache'.gain = None \/ (cache'.gain = 0 /\ rig.dialect = "scp")
                    ELSE cache'.gain = cache.gain
                 /\ told' = [told EXCEPT ![m.k] = TRUE]
<1> DEFINE e == IF cache = None THEN blank ELSE cache
<1>1. e \in Entries  BY DEF Types
<1>2. /\ cache' = [e EXCEPT ![m.k] = Read(m)] /\ UNCHANGED trim
      /\ told' = [f \in DOMAIN told |-> IF f \in {m.k} THEN cache'[f] ELSE told[f]]
  BY DEF Reported, Heard, Relayed
<1>3. told \in [gain : {None} \cup Gains, phantom : {None, TRUE}, pad : {None, TRUE}]  BY DEF Types
<1> HIDE DEF e
<1>4. CASE m.k = "gain"
  <2>1. m.v \in Gains  BY <1>4 DEF Reports, Switched, Ridden, Infos
  <2>2. cache' = [e EXCEPT !.gain = m.v]  BY <1>2, <1>4 DEF Read
  <2>3. cache' \in Entries /\ cache'.gain = m.v  BY <1>1, <2>1, <2>2 DEF Entries
  <2>4. told' = [told EXCEPT !.gain = m.v]  BY <1>2, <1>3, <1>4, <2>3
  <2> QED  BY <1>2, <1>4, <2>3, <2>4 DEF Switched
<1>5. CASE m.k \in Switched
  <2>1. m.k \in {"phantom", "pad"} /\ m.v = 1  BY <1>5 DEF Reports, Switched, Ridden, Infos
  <2>2. m.k # "gain" /\ m.v # 0  BY <2>1
  <2>3. Read(m) = TRUE  BY <2>2 DEF Read
  <2>4. cache' = [e EXCEPT ![m.k] = TRUE]  BY <1>2, <2>3
  <2>5. cache' \in Entries /\ cache'.gain = e.gain /\ cache'[m.k] = TRUE  BY <1>1, <2>1, <2>4 DEF Entries
  <2>6. told' = [told EXCEPT ![m.k] = TRUE]  BY <1>2, <1>3, <2>1, <2>5
  <2> QED  BY <1>2, <2>1, <2>5, <2>6 DEF e
<1> QED  BY <1>4, <1>5

\* What is asked of a desk.
LEMMA Questions ==
    /\ rig.dialect # "ewg3" =>
          /\ <<Get("info")>> \in Seq(Polite) /\ <<Get("gain"), Get("phantom")>> \in Seq(Polite)
          /\ <<Get("phantom"), Get("pad"), Get("gain")>> \in Seq(Polite)
    /\ <<Get("gain")>> \in Seq(Polite)
    /\ Kept => <<Renew>> \in Seq(Polite) /\ <<Renew, Get("gain")>> \in Seq(Polite)
  BY DEF Polite, Gets, Renewals, Get, Renew, Switched, Infos

\* A receive loop that hands what it hears to such a handler.
LEMMA Listening ==
    ASSUME Types, NEW blank \in Entries, rig.dialect # "ewg3",
           blank.gain = None \/ (blank.gain = 0 /\ rig.dialect = "scp"),
           ears, down # <<>>, down' = Tail(down), ears' => ears,
           UNCHANGED <<rig, desk, power, pushes, up, link, call, clean>>,
           Head(down).k \in {"refused", "info"} => UNCHANGED mind,
           Head(down).k = "trim" /\ Trimmed => trim' = Head(down).v /\ UNCHANGED <<cache, told>>,
           Head(down).k \notin {"refused", "info", "trim"} =>
               Reported(Heard(blank, Head(down)), {Head(down).k})
    PROVE  Hears
<1> DEFINE m == Head(down)
<1>1. m \in Reports  BY Taken DEF Types
<1>2. m.k \in {"refused", "info", "gain"} \cup Ridden \cup Switched
  BY <1>1 DEF Reports, Infos
<1>3. CASE m.k \in {"refused", "info"}
  BY <1>3 DEF Hears, Infos
<1>4. CASE m.k \in Ridden
  BY <1>4 DEF Hears, Ridden
<1>5. CASE m.k \in {"gain"} \cup Switched
  <2>1. m.k \notin {"refused", "info", "trim"}  BY <1>5 DEF Switched
  <2>2. Reported(Heard(blank, m), {m.k})  BY <2>1
  <2> HIDE DEF m
  <2>3. /\ UNCHANGED trim /\ cache' \in Entries
        /\ m.k = "gain" => cache'.gain = m.v /\ told' = [told EXCEPT !.gain = m.v]
        /\ m.k \in Switched =>
              /\ IF cache = None THEN cache'.gain = None \/ (cache'.gain = 0 /\ rig.dialect = "scp")
                 ELSE cache'.gain = cache.gain
              /\ told' = [told EXCEPT ![m.k] = TRUE]
    BY <1>1, <1>5, <2>1, <2>2, Hearing
  <2>4. Tcp /\ m.k = "gain" => told'.gain = m.v
    BY <2>3 DEF Types
  <2> QED  BY <1>5, <2>3, <2>4 DEF Hears, m
<1> QED  BY <1>2, <1>3, <1>4, <1>5

----------------------------------------------------------------------------
(* Types *)

\* Somebody turns a control: to a value it has.
LEMMA TurnsTo ==
    ASSUME Types, Turn
    PROVE  /\ \E k \in {"gain"} \cup Ridden, v \in (Gains \cup Grid(TrimLaw)) :
                 /\ k = "gain" => v \in Gains
                 /\ k = "trim" => v \in Grid(TrimLaw) /\ Quiet("trim") /\ call = None
                 /\ desk' = [desk EXCEPT ![k] = v]
                 /\ IF pushes THEN down' = down \o <<Tell(k, v)>> ELSE down' = down
                 /\ clean' = (clean /\ (k = "gain" =>
                        /\ pushes \/ (cache = None /\ Quiet("gain"))
                        /\ \A i \in DOMAIN up : ~(up[i].op = "set" /\ up[i].k = "gain")))
           /\ UNCHANGED <<rig, power, pushes, up, loops, mind, waiter, call>>
<1>1. rig.hands \subseteq {"gain"} \cup Ridden
  BY RigAssumption DEF RigAssumption, Types, Ridden, Trimmed
<1> QED  BY <1>1 DEF Turn, Push, Turned, Gains, Ridden

\* What the desk does with the oldest request.
LEMMA Takes ==
    ASSUME Types, DeskTakes
    PROVE  /\ up # <<>> /\ up' = Tail(up) /\ Head(up) \in Requests
           /\ \/ /\ ~power /\ UNCHANGED <<desk, pushes>>
                 /\ down' = down \/ down' = down \o <<Tell("refused", None)>>
              \/ /\ power /\ Head(up) \in Gets /\ UNCHANGED <<desk, pushes>>
                 /\ down' = down \o <<Tell(Head(up).k, IF Head(up).k = "info" THEN None ELSE desk[Head(up).k])>>
              \/ /\ power /\ Head(up) \in GainPuts \cup SwitchPuts \cup TrimPuts /\ UNCHANGED pushes
                 /\ desk' = [desk EXCEPT ![Head(up).k] = Holds(Head(up).k, Head(up).v)]
                 /\ \/ down' = down \o <<Tell(Head(up).k, Holds(Head(up).k, Head(up).v))>>
                    \/ down' = down /\ ~Tcp
              \/ /\ power /\ Kept /\ Head(up) = Renew /\ UNCHANGED <<desk, down>> /\ pushes'
           /\ UNCHANGED <<rig, power, loops, mind, waiter, call, clean>>
<1>1. up # <<>> /\ up' = Tail(up) /\ UNCHANGED <<rig, power, loops, mind, waiter, call, clean>>
  BY DEF DeskTakes
<1>2. Head(up) \in Requests  BY <1>1, Taken DEF Types
<1> DEFINE m == Head(up)
<1>3. CASE ~power
  <2>1. \E refusal \in {<<>>, <<Tell("refused", None)>>} : Push(refusal)  BY <1>3 DEF DeskTakes
  <2>2. UNCHANGED <<desk, pushes>>  BY <1>3 DEF DeskTakes
  <2>3. down \o <<>> = down  BY DEF Types
  <2> QED  BY <1>1, <1>2, <1>3, <2>1, <2>2, <2>3 DEF Push
<1>4. CASE power /\ m \in Gets
  <2>1. m.op = "get"  BY <1>4 DEF Gets
  <2> QED  BY <1>1, <1>2, <1>4, <2>1 DEF DeskTakes, Push
<1>5. CASE power /\ m \in GainPuts \cup SwitchPuts \cup TrimPuts
  <2>1. m.op = "set"  BY <1>5 DEF GainPuts, SwitchPuts, TrimPuts
  <2>2. /\ desk' = [desk EXCEPT ![m.k] = Holds(m.k, m.v)] /\ UNCHANGED pushes
        /\ \E echo \in rig.echoes : Push(IF echo THEN <<Tell(m.k, Holds(m.k, m.v))>> ELSE <<>>)
    BY <1>5, <2>1 DEF DeskTakes
  <2>3. down \o <<>> = down  BY DEF Types
  <2>4. Tcp => rig.echoes = {TRUE}  BY RigAssumption DEF RigAssumption, Types, Tcp
  <2>5. PICK echo \in rig.echoes : Push(IF echo THEN <<Tell(m.k, Holds(m.k, m.v))>> ELSE <<>>)
    BY <2>2
  <2>6. \/ down' = down \o <<Tell(m.k, Holds(m.k, m.v))>>
        \/ down' = down /\ ~Tcp
    <3>1. CASE echo  BY <2>5, <3>1 DEF Push
    <3>2. CASE ~echo
      <4>1. down' = down  BY <2>3, <2>5, <3>2 DEF Push
      <4>2. ASSUME Tcp PROVE FALSE
        <5>1. echo \in {TRUE}  BY <2>4, <4>2
        <5> QED  BY <3>2, <5>1
      <4> QED  BY <4>1, <4>2
    <3> QED  BY <3>1, <3>2
  <2> QED  BY <1>1, <1>2, <1>5, <2>2, <2>6
<1>6. CASE power /\ m \in Renewals
  <2>1. m = Renew /\ Kept /\ m.op = "renew"  BY <1>6 DEF Renewals, Renew
  <2> QED  BY <1>1, <1>2, <1>6, <2>1 DEF DeskTakes
<1> QED  BY <1>2, <1>3, <1>4, <1>5, <1>6 DEF Requests

\* The rig, and with it what kinds of message there are, is fixed.
LEMMA RigStays ==
    ASSUME Step
    PROVE  rig' = rig /\ Requests' = Requests /\ Reports' = Reports
<1>1. rig' = rig
  BY DEF Step, Turn, DeskTakes, HangUp, TrimFound, Stands, Opening, Loses, Asks, Puts, Switches48V,
         Hears, AsksForTrim, PutsTrim
<1> QED
  BY <1>1 DEF Requests, Gets, GainPuts, SwitchPuts, TrimPuts, Renewals, Reports, Switched, Ridden, Infos,
              Trimmed, Kept

\* What is sent and what is reported is of the kinds there are.
LEMMA Kinds ==
    ASSUME Types
    PROVE  /\ Polite \subseteq Requests
           /\ \A v \in Int : Quantize(GainLaw, v) # 0 => Put("gain", v) \in Requests
           /\ rig.dialect # "ewg3" => Put("phantom", 1) \in Requests
           /\ Trimmed => \A v \in Int : Put("trim", v) \in Requests /\ \A by \in Int : Move(v, by) \in Requests
           /\ Trimmed => Get("trim") \in Requests
           /\ \A v \in Gains : Tell("gain", v) \in Reports
           /\ \A v \in Grid(TrimLaw) : Trimmed => Tell("trim", v) \in Reports
           /\ \A k \in Switched : Tell(k, 1) \in Reports
           /\ \A k \in {"refused"} \cup Infos : Tell(k, None) \in Reports
<1>1. Polite \subseteq Requests  BY DEF Polite, Requests
<1>2. \A v \in Int : Quantize(GainLaw, v) # 0 => Put("gain", v) \in Requests  BY DEF Put, Requests, GainPuts
<1>3. rig.dialect # "ewg3" => Put("phantom", 1) \in Requests  BY DEF Put, Requests, SwitchPuts, Switched
<1>4. Trimmed => \A v \in Int : Put("trim", v) \in Requests /\ \A by \in Int : Move(v, by) \in Requests
  BY DEF Put, Move, Requests, TrimPuts, Ridden
<1>5. Trimmed => Get("trim") \in Requests  BY DEF Get, Requests, Gets, Ridden
<1>6. \A v \in Gains : Tell("gain", v) \in Reports  BY DEF Tell, Reports
<1>7. \A v \in Grid(TrimLaw) : Trimmed => Tell("trim", v) \in Reports  BY DEF Tell, Reports, Ridden
<1>8. \A k \in Switched : Tell(k, 1) \in Reports  BY DEF Tell, Reports
<1>9. \A k \in {"refused"} \cup Infos : Tell(k, None) \in Reports  BY DEF Tell, Reports
<1> QED  BY <1>1, <1>2, <1>3, <1>4, <1>5, <1>6, <1>7, <1>8, <1>9

\* What a desk makes of a write, and what it says it holds.
LEMMA Answers ==
    ASSUME Types
    PROVE  /\ \A m \in GainPuts \cup SwitchPuts \cup TrimPuts :
                 /\ [desk EXCEPT ![m.k] = Holds(m.k, m.v)] \in
                       [gain : Gains, phantom : {1}, pad : {1}, trim : Grid(TrimLaw)]
                 /\ Tell(m.k, Holds(m.k, m.v)) \in Reports
                 /\ m.k = "gain" => Holds(m.k, m.v) = Quantize(GainLaw, m.v)
           /\ \A m \in Gets : Tell(m.k, IF m.k = "info" THEN None ELSE desk[m.k]) \in Reports
<1>1. desk \in [gain : Gains, phantom : {1}, pad : {1}, trim : Grid(TrimLaw)]  BY DEF Types
<1>2. ASSUME NEW m \in GainPuts
      PROVE  m.k = "gain" /\ Holds(m.k, m.v) \in Gains /\ Holds(m.k, m.v) = Quantize(GainLaw, m.v)
  <2>1. m.k = "gain" /\ m.v \in Int /\ Quantize(GainLaw, m.v) # 0  BY DEF GainPuts
  <2>2. Holds(m.k, m.v) = Quantize(GainLaw, m.v)  BY <2>1 DEF Holds
  <2> QED  BY <2>1, <2>2, Gained
<1>3. ASSUME NEW m \in SwitchPuts
      PROVE  m.k \in Switched /\ m.k \in {"phantom", "pad"} /\ Holds(m.k, m.v) = 1
  <2>1. m.k \in Switched /\ m.v = 1  BY DEF SwitchPuts
  <2>2. m.k \in {"phantom", "pad"}  BY <2>1 DEF Switched
  <2> QED  BY <2>1, <2>2 DEF Holds
<1>4. ASSUME NEW m \in TrimPuts
      PROVE  m.k = "trim" /\ Trimmed /\ Holds(m.k, m.v) \in Grid(TrimLaw)
  <2>1. m.k = "trim" /\ Trimmed /\ m.v \in Int  BY DEF TrimPuts, Ridden
  <2>2. Holds(m.k, m.v) = Quantize(TrimLaw, m.v)  BY <2>1 DEF Holds
  <2> QED  BY <2>1, <2>2, Grids
<1>5. ASSUME NEW m \in GainPuts \cup SwitchPuts \cup TrimPuts
      PROVE  /\ [desk EXCEPT ![m.k] = Holds(m.k, m.v)] \in
                   [gain : Gains, phantom : {1}, pad : {1}, trim : Grid(TrimLaw)]
             /\ Tell(m.k, Holds(m.k, m.v)) \in Reports
             /\ m.k = "gain" => Holds(m.k, m.v) = Quantize(GainLaw, m.v)
  <2>1. CASE m \in GainPuts  BY <1>1, <1>2, <2>1, Kinds
  <2>2. CASE m \in SwitchPuts  BY <1>1, <1>3, <2>2, Kinds
  <2>3. CASE m \in TrimPuts  BY <1>1, <1>4, <2>3, Kinds
  <2> QED  BY <1>5, <2>1, <2>2, <2>3
<1>6. ASSUME NEW m \in Gets
      PROVE  Tell(m.k, IF m.k = "info" THEN None ELSE desk[m.k]) \in Reports
  <2>1. m.k \in {"gain"} \cup Switched \cup Ridden \cup Infos  BY DEF Gets
  <2>2. CASE m.k = "gain"  BY <1>1, <2>2, Kinds
  <2>3. CASE m.k \in Switched
    <3>1. m.k \in {"phantom", "pad"}  BY <2>3 DEF Switched
    <3>2. desk[m.k] = 1  BY <1>1, <3>1
    <3> QED  BY <2>3, <3>1, <3>2, Kinds
  <2>4. CASE m.k \in Ridden  BY <1>1, <2>4, Kinds DEF Ridden
  <2>5. CASE m.k \in Infos  BY <2>5, Kinds DEF Infos
  <2> QED  BY <2>1, <2>2, <2>3, <2>4, <2>5
<1> QED  BY <1>5, <1>6

\* A queue of these kinds, one message shorter or longer, is one.
LEMMA Queues ==
    ASSUME Types
    PROVE  /\ up \in Seq(Requests) /\ down \in Seq(Reports)
           /\ up # <<>> => Tail(up) \in Seq(Requests) /\ Head(up) \in Requests
           /\ down # <<>> => Tail(down) \in Seq(Reports) /\ Head(down) \in Reports
           /\ \A m \in Requests : up \o <<m>> \in Seq(Requests)
           /\ \A m \in Reports : down \o <<m>> \in Seq(Reports)
<1>1. up \in Seq(Requests) /\ down \in Seq(Reports)  BY DEF Types
<1>2. up # <<>> => Tail(up) \in Seq(Requests) /\ Head(up) \in Requests  BY <1>1, Taken
<1>3. down # <<>> => Tail(down) \in Seq(Reports) /\ Head(down) \in Reports  BY <1>1, Taken
<1>4. \A m \in Requests : up \o <<m>> \in Seq(Requests)  BY <1>1, Sent
<1>5. \A m \in Reports : down \o <<m>> \in Seq(Reports)  BY <1>1, Sent
<1> QED  BY <1>1, <1>2, <1>3, <1>4, <1>5

\* A nudge answers the move it makes, from the trim the desk is at.
LEMMA Nudged ==
    ASSUME Types, Rides, TrimFound
    PROVE  /\ call' = None /\ Quiet("trim") /\ UNCHANGED <<rig, desk, down>>
           /\ \/ UNCHANGED up
              \/ \E by \in Int : desk.trim + by \in Int /\ up' = up \o <<Move(desk.trim + by, by)>>
<1> DEFINE by == NudgeApplied(TrimLaw, trim, call.by)
           target == NudgeTarget(TrimLaw, trim, call.by)
<1>1. /\ AwaitsTrim /\ trim # None /\ Quiet("trim") /\ call' = None
      /\ up' = up \o <<Move(target, by)>> \/ up' = up
      /\ UNCHANGED <<rig, desk, down>>
  BY DEF TrimFound, Send
<1>2. trim = desk.trim /\ call.by \in Int  BY <1>1 DEF Rides
<1>3. desk.trim \in Grid(TrimLaw)  BY DEF Types
<1>4. trim \in Int /\ OnGrid(TrimLaw, trim)  BY <1>2, <1>3, Grids
<1>5. IsLaw(TrimLaw)  BY ValueAssumption DEF ValueAssumption
<1>6. by \in Int /\ target \in Int  BY <1>2, <1>4, <1>5, NudgeType
<1>7. by = target - trim  BY <1>2, <1>4, <1>5, NudgeIsWhatItSays
<1> HIDE DEF by, target
<1>8. target = desk.trim + by  BY <1>2, <1>4, <1>6, <1>7
<1> QED  BY <1>1, <1>6, <1>8

\* What is under way, cached and told stays of these kinds, whatever a handler
\* sends, keeps or hears: no default ever becomes a gain.
LEMMA TypesKept ==
    ASSUME Types, Rides, Step
    PROVE  Types'
<1>1. rig' = rig /\ Requests' = Requests /\ Reports' = Reports  BY RigStays
<1> SUFFICES /\ desk' \in [gain : Gains, phantom : {1}, pad : {1}, trim : Grid(TrimLaw)]
             /\ up' \in Seq(Requests) /\ down' \in Seq(Reports)
             /\ cache' \in {None} \cup Entries
             /\ cache' # None => cache'.gain \in {None} \cup Gains \/ rig.dialect = "scp"
             /\ told' \in [gain : {None} \cup Gains, phantom : {None, TRUE}, pad : {None, TRUE}]
  BY <1>1 DEF Types
<1> USE DEF mind, wire
<1>2. CASE Turn
  <2>1. UNCHANGED <<up, cache, told>>  BY <1>2, TurnsTo
  <2>2. PICK k \in {"gain"} \cup Ridden, v \in (Gains \cup Grid(TrimLaw)) :
              /\ k = "gain" => v \in Gains
              /\ k = "trim" => v \in Grid(TrimLaw)
              /\ desk' = [desk EXCEPT ![k] = v]
              /\ down' \in {down \o <<Tell(k, v)>>, down}
    BY <1>2, TurnsTo
  <2>3. Tell(k, v) \in Reports  BY <2>2, Kinds DEF Ridden
  <2>4. down' \in Seq(Reports)  BY <2>2, <2>3, Queues DEF Types
  <2>5. desk' \in [gain : Gains, phantom : {1}, pad : {1}, trim : Grid(TrimLaw)]
    BY <2>2 DEF Types, Ridden
  <2> QED  BY <2>1, <2>4, <2>5 DEF Types
<1>3. CASE DeskTakes
  <2>1. /\ up # <<>> /\ up' = Tail(up) /\ UNCHANGED <<cache, told>>
    BY <1>3, Takes
  <2>2. up' \in Seq(Requests)  BY <2>1, Queues DEF Types
  <2>3. /\ down' = down \/ \E m \in Reports : down' = down \o <<m>>
        /\ desk' \in [gain : Gains, phantom : {1}, pad : {1}, trim : Grid(TrimLaw)]
    BY <1>3, Takes, Answers, Kinds DEF Types
  <2>4. down' \in Seq(Reports)  BY <2>3, Queues DEF Types
  <2> QED  BY <2>1, <2>2, <2>3, <2>4 DEF Types
<1>4. CASE HangUp
  <2>1. down' = down \o <<Tell("refused", None)>> /\ UNCHANGED <<desk, up, cache, told>>
    BY <1>4 DEF HangUp, Push
  <2> QED  BY <2>1, Queues, Kinds DEF Types
<1>5. CASE Trimmed /\ TrimFound
  <2>1. UNCHANGED <<desk, down, cache, told>>  BY <1>5 DEF TrimFound
  <2>2. up' = up \/ \E v \in Int, by \in Int : up' = up \o <<Move(v, by)>>
    BY <1>5, Nudged
  <2>3. up' \in Seq(Requests)  BY <1>5, <2>2, Queues, Kinds DEF Types
  <2> QED  BY <2>1, <2>3 DEF Types
<1>6. CASE Stands  BY <1>6 DEF Stands, Types
<1>7. CASE Opening  BY <1>7 DEF Opening, Types
<1>8. CASE Loses
  <2>1. UNCHANGED <<desk, cache, told>>  BY <1>8 DEF Loses
  <2>2. up' \in Seq(Requests) /\ down' \in Seq(Reports)  BY <1>8, Queues DEF Loses
  <2> QED  BY <2>1, <2>2 DEF Types
<1>9. CASE Asks
  <2>1. UNCHANGED <<desk, down, cache, told>>  BY <1>9 DEF Asks
  <2>2. PICK msgs \in Seq(Polite) : up' = up \o msgs  BY <1>9 DEF Asks
  <2>3. msgs \in Seq(Requests)
    <3>1. Len(msgs) \in Nat /\ msgs = [i \in 1..Len(msgs) |-> msgs[i]] /\ \A i \in 1..Len(msgs) : msgs[i] \in Polite
      BY SeqDef, LenProperties
    <3>2. \A i \in 1..Len(msgs) : msgs[i] \in Requests  BY <3>1, Kinds
    <3> QED  BY <3>1, <3>2, SeqDef
  <2>4. up' \in Seq(Requests)  BY <2>2, <2>3 DEF Types
  <2> QED  BY <2>1, <2>4 DEF Types
<1>10. CASE Puts
  <2>1. UNCHANGED <<desk, down, told>>  BY <1>10 DEF Puts
  <2>2. PICK v \in {v \in Int : Quantize(GainLaw, v) # 0} :
          /\ up' = up \o <<Put("gain", v)>>
          /\ \/ UNCHANGED cache
             \/ cache' \in Entries /\ cache'.gain = Quantize(GainLaw, v)
    BY <1>10 DEF Puts
  <2>3. up' \in Seq(Requests)  BY <2>2, Queues, Kinds DEF Types
  <2>4. Quantize(GainLaw, v) \in Gains  BY <2>2, Gained
  <2> QED  BY <2>1, <2>2, <2>3, <2>4 DEF Types
<1>11. CASE Switches48V
  <2>1. UNCHANGED <<desk, down, cache, told>> /\ up' = up \o <<Put("phantom", 1)>> /\ rig.dialect # "ewg3"
    BY <1>11 DEF Switches48V
  <2> QED  BY <2>1, Queues, Kinds DEF Types
<1>12. CASE Hears
  <2> DEFINE m == Head(down)
  <2>1. UNCHANGED <<desk, up>> /\ down # <<>> /\ down' = Tail(down)  BY <1>12 DEF Hears
  <2>2. down' \in Seq(Reports) /\ m \in Reports  BY <2>1, Queues DEF Types
  <2>3. \/ UNCHANGED <<cache, told>>
        \/ /\ m.k = "gain" /\ cache' \in Entries /\ cache'.gain = m.v
           /\ told' \in {told, [told EXCEPT !.gain = m.v]}
        \/ /\ m.k \in Switched /\ cache' \in Entries
           /\ IF cache = None THEN cache'.gain = None \/ (cache'.gain = 0 /\ rig.dialect = "scp")
              ELSE cache'.gain = cache.gain
           /\ told' = [told EXCEPT ![m.k] = TRUE]
    BY <1>12 DEF Hears
  <2> HIDE DEF m
  <2>4. CASE UNCHANGED <<cache, told>>  BY <2>1, <2>2, <2>4 DEF Types
  <2>5. CASE /\ m.k = "gain" /\ cache' \in Entries /\ cache'.gain = m.v
             /\ told' \in {told, [told EXCEPT !.gain = m.v]}
    <3>1. m.v \in Gains  BY <2>2, <2>5, Gained DEF Reports, Switched, Ridden, Infos
    <3>2. told' \in [gain : {None} \cup Gains, phantom : {None, TRUE}, pad : {None, TRUE}]
      BY <2>5, <3>1 DEF Types
    <3> QED  BY <2>1, <2>2, <2>5, <3>1, <3>2 DEF Types
  <2>6. CASE /\ m.k \in Switched /\ cache' \in Entries
             /\ IF cache = None THEN cache'.gain = None \/ (cache'.gain = 0 /\ rig.dialect = "scp")
                ELSE cache'.gain = cache.gain
             /\ told' = [told EXCEPT ![m.k] = TRUE]
    <3>1. m.k \in {"phantom", "pad"}  BY <2>6 DEF Switched
    <3>2. told' \in [gain : {None} \cup Gains, phantom : {None, TRUE}, pad : {None, TRUE}]
      BY <2>6, <3>1 DEF Types
    <3> QED  BY <2>1, <2>2, <2>6, <3>2 DEF Types
  <2> QED  BY <2>3, <2>4, <2>5, <2>6
<1>13. CASE AsksForTrim
  <2>1. UNCHANGED <<desk, down, cache, told>> /\ Trimmed /\ (up' = up \/ up' = up \o <<Get("trim")>>)
    BY <1>13 DEF AsksForTrim
  <2> QED  BY <2>1, Queues, Kinds DEF Types
<1>14. CASE PutsTrim
  <2>1. UNCHANGED <<desk, down, cache, told>> /\ Trimmed /\ (\E v \in Int : up' = up \o <<Put("trim", v)>>)
    BY <1>14 DEF PutsTrim
  <2> QED  BY <2>1, Queues, Kinds DEF Types
<1> QED
  BY <1>2, <1>3, <1>4, <1>5, <1>6, <1>7, <1>8, <1>9, <1>10, <1>11, <1>12, <1>13, <1>14 DEF Step

----------------------------------------------------------------------------
(* Trims *)

\* A longer queue to the desk changes nothing unless what is new is about a trim.
LEMMA RidesOn ==
    ASSUME Types, Types', Rides, NEW u \in Seq(Requests), up' = up \o u,
           \A i \in 1..Len(u) : u[i].op = "set" => u[i].by = 0,
           AwaitsTrim' => \A i \in 1..Len(u) : u[i].k = "trim" => u[i].op = "get",
           AwaitsTrim' => AwaitsTrim /\ call' = call /\ trim' = trim,
           UNCHANGED <<desk, down>>
    PROVE  Rides'
<1>1. /\ Len(up) \in Nat /\ Len(u) \in Nat /\ Len(up') = Len(up) + Len(u)
      /\ \A i \in 1..Len(up') : up'[i] = IF i <= Len(up) THEN up[i] ELSE u[i - Len(up)]
  BY ConcatProperties, LenProperties DEF Types
<1>2. ASSUME NEW i \in 1..Len(up')
      PROVE  \/ i \in 1..Len(up) /\ up'[i] = up[i]
             \/ i > Len(up) /\ \E j \in 1..Len(u) : up'[i] = u[j]
  <2>1. CASE i <= Len(up)  BY <1>1, <2>1
  <2>2. CASE i > Len(up)
    <3>1. i - Len(up) \in 1..Len(u)  BY <1>1, <2>2
    <3> QED  BY <1>1, <2>2, <3>1
  <2> QED  BY <1>1, <2>1, <2>2
<1>3. \A i \in 1..Len(up) : i \in 1..Len(up') /\ up'[i] = up[i]  BY <1>1
<1>4. AwaitsTrim' =>
          /\ call'.by \in Int /\ trim' \in {None, desk.trim}
          /\ \A i \in 1..Len(up') : up'[i].k = "trim" => up'[i].op = "get"
          /\ \A i \in 1..Len(down) : down[i].k = "trim" => down[i].v = desk.trim
  BY <1>2 DEF Rides
<1>5. ASSUME NEW i \in 1..Len(up'), up'[i].op = "set", up'[i].by # 0
      PROVE  /\ up'[i].v = desk.trim + up'[i].by
             /\ \A j \in 1..Len(up') : j < i => up'[j].k # "trim"
  <2>1. i \in 1..Len(up) /\ up'[i] = up[i]  BY <1>2, <1>5
  <2>2. ASSUME NEW j \in 1..Len(up'), j < i PROVE up'[j].k # "trim"
    <3>1. j \in 1..Len(up) /\ up'[j] = up[j]  BY <1>1, <2>1, <2>2
    <3> QED  BY <1>5, <2>1, <2>2, <3>1 DEF Rides
  <2> QED  BY <1>5, <2>1, <2>2 DEF Rides
<1> QED  BY <1>4, <1>5 DEF Rides

\* A shorter queue to the desk, and a trim that stays, change nothing.
LEMMA RidesThrough ==
    ASSUME Types, Rides, (up # <<>> /\ up' = Tail(up)) \/ up' = up, desk'.trim = desk.trim,
           UNCHANGED <<trim, call>>,
           AwaitsTrim => \A i \in 1..Len(down') : down'[i].k = "trim" => down'[i].v = desk.trim
    PROVE  Rides'
<1>1. CASE up' = up
  BY <1>1 DEF Rides, AwaitsTrim
<1>2. CASE up # <<>> /\ up' = Tail(up)
  <2>1. /\ Len(up') = Len(up) - 1 /\ Len(up) \in Nat
        /\ \A i \in 1..Len(up') : i + 1 \in 1..Len(up) /\ up'[i] = up[i + 1]
    BY <1>2, Taken, LenProperties DEF Types
  <2>2. AwaitsTrim => \A i \in 1..Len(up') : up'[i].k = "trim" => up'[i].op = "get"
    BY <2>1 DEF Rides
  <2>3. ASSUME NEW i \in 1..Len(up'), up'[i].op = "set", up'[i].by # 0
        PROVE  /\ up'[i].v = desk.trim + up'[i].by
               /\ \A j \in 1..Len(up') : j < i => up'[j].k # "trim"
    <3>1. i + 1 \in 1..Len(up) /\ up'[i] = up[i + 1]  BY <2>1
    <3>2. ASSUME NEW j \in 1..Len(up'), j < i PROVE up'[j].k # "trim"
      <4>1. j + 1 \in 1..Len(up) /\ up'[j] = up[j + 1] /\ j + 1 < i + 1  BY <2>1, <3>2
      <4> QED  BY <2>3, <3>1, <4>1 DEF Rides
    <3> QED  BY <2>3, <3>1, <3>2 DEF Rides
  <2> QED  BY <2>2, <2>3 DEF Rides, AwaitsTrim
<1> QED  BY <1>1, <1>2

\* What is under way of k is under way in one direction or the other.
LEMMA QuietIsFree ==
    ASSUME Types, NEW k
    PROVE  Quiet(k) <=> Free(up, k) /\ Free(down, k)
<1>1. DOMAIN up = 1..Len(up) /\ DOMAIN down = 1..Len(down)  BY DEF Types
<1> QED  BY <1>1 DEF Quiet, Free

\* The same of a queue from the desk in which every trim is the desk's.
LEMMA TrimsTold ==
    ASSUME Types, NEW m \in Reports, NEW v,
           \A i \in 1..Len(down) : down[i].k = "trim" => down[i].v = v
    PROVE  /\ (m.k = "trim" => m.v = v) =>
                \A i \in 1..Len(down \o <<m>>) : (down \o <<m>>)[i].k = "trim" => (down \o <<m>>)[i].v = v
           /\ down # <<>> => \A i \in 1..Len(Tail(down)) : Tail(down)[i].k = "trim" => Tail(down)[i].v = v
<1>1. down \in Seq(Reports)  BY DEF Types
<1>2. /\ \A i \in 1..Len(down) : (down \o <<m>>)[i] = down[i]
      /\ (down \o <<m>>)[Len(down) + 1] = m
      /\ \A j \in 1..Len(down \o <<m>>) : j \in 1..Len(down) \/ j = Len(down) + 1
  BY <1>1, Sent
<1>3. down # <<>> => \A i \in 1..Len(Tail(down)) : i + 1 \in 1..Len(down) /\ Tail(down)[i] = down[i + 1]
  BY <1>1, Taken
<1> QED  BY <1>2, <1>3

\* From the read of a trim to the nudge the desk takes, nothing else moves it:
\* the trim is forgotten before it is asked for, and a caller waits.
LEMMA RidesKept ==
    ASSUME Types, Types', Rides, Step
    PROVE  Rides'
<1> USE DEF mind, wire, loops
<1>1. up \in Seq(Requests) /\ down \in Seq(Reports) /\ desk.trim \in Grid(TrimLaw)
  BY DEF Types
<1>2. CASE Turn
  <2>1. UNCHANGED <<up, trim, call>>  BY <1>2, TurnsTo
  <2>2. PICK k \in {"gain"} \cup Ridden, v \in (Gains \cup Grid(TrimLaw)) :
              /\ k = "gain" => v \in Gains
              /\ k = "trim" => v \in Grid(TrimLaw) /\ Quiet("trim") /\ call = None
              /\ desk' = [desk EXCEPT ![k] = v]
              /\ down' \in {down \o <<Tell(k, v)>>, down}
    BY <1>2, TurnsTo
  <2>3. CASE k = "gain"
    <3>1. desk'.trim = desk.trim  BY <2>2, <2>3 DEF Types
    <3>2. Tell(k, v) \in Reports /\ Tell(k, v).k # "trim"  BY <2>2, <2>3, Kinds DEF Tell
    <3>3. AwaitsTrim => \A i \in 1..Len(down') : down'[i].k = "trim" => down'[i].v = desk.trim
      BY <2>2, <3>2, TrimsTold DEF Rides
    <3> QED  BY <2>1, <3>1, <3>3, RidesThrough
  <2>4. CASE k = "trim"
    <3>1. ~AwaitsTrim /\ ~AwaitsTrim' /\ Free(up, "trim")
      BY <2>1, <2>2, <2>4, QuietIsFree DEF AwaitsTrim
    <3>2. \A i \in 1..Len(up) : ~(up[i].op = "set" /\ up[i].by # 0)
      <4>1. \A m \in Requests : m.op = "set" /\ m.by # 0 => m.k = "trim"
        BY DEF Requests, Gets, GainPuts, SwitchPuts, TrimPuts, Renewals, Ridden, Renew
      <4>2. \A i \in 1..Len(up) : up[i] \in Requests  BY <1>1
      <4> QED  BY <3>1, <4>1, <4>2 DEF Free
    <3> QED  BY <2>1, <3>1, <3>2 DEF Rides
  <2> QED  BY <2>2, <2>3, <2>4 DEF Ridden
<1>3. CASE DeskTakes
  <2> DEFINE m == Head(up)
  <2>1. /\ up # <<>> /\ up' = Tail(up) /\ UNCHANGED <<trim, call>> /\ m \in Requests
        /\ m = up[1] /\ 1 \in 1..Len(up)
    BY <1>1, <1>3, Takes, Taken
  <2>2. CASE m \in TrimPuts
    <3>1. m.k = "trim" /\ m.op = "set"  BY <2>2 DEF TrimPuts, Ridden
    <3>2. ~AwaitsTrim  BY <2>1, <3>1 DEF Rides
    <3>3. ~AwaitsTrim'  BY <2>1, <3>2 DEF AwaitsTrim
    <3>4. ASSUME NEW i \in 1..Len(up'), up'[i].op = "set", up'[i].by # 0 PROVE FALSE
      <4>1. i + 1 \in 1..Len(up) /\ up'[i] = up[i + 1]  BY <1>1, <2>1, Taken
      <4>2. 1 < i + 1  OBVIOUS
      <4> QED  BY <2>1, <3>1, <3>4, <4>1, <4>2 DEF Rides
    <3> QED  BY <3>3, <3>4 DEF Rides
  <2>3. CASE m \notin TrimPuts
    <3>1. \/ desk' = desk
          \/ m \in GainPuts \cup SwitchPuts /\ desk' = [desk EXCEPT ![m.k] = Holds(m.k, m.v)]
      BY <1>3, <2>3, Takes
    <3>2. desk'.trim = desk.trim
      BY <3>1 DEF Types, GainPuts, SwitchPuts, Switched
    <3>3. \/ down' = down
          \/ \E r \in Reports : down' = down \o <<r>> /\ (r.k = "trim" => r.v = desk.trim)
      <4>1. \/ down' = down
            \/ down' = down \o <<Tell("refused", None)>>
            \/ m \in Gets /\ down' = down \o <<Tell(m.k, IF m.k = "info" THEN None ELSE desk[m.k])>>
            \/ m \in GainPuts \cup SwitchPuts /\ down' = down \o <<Tell(m.k, Holds(m.k, m.v))>>
        BY <1>3, <2>3, Takes
      <4>2. m \in GainPuts \cup SwitchPuts => m.k # "trim"  BY DEF GainPuts, SwitchPuts, Switched
      <4>3. /\ Tell("refused", None) \in Reports /\ Tell("refused", None).k # "trim"
            /\ \A k, x : Tell(k, x).k = k /\ Tell(k, x).v = x
        BY Kinds DEF Tell
      <4>4. CASE m \in Gets /\ down' = down \o <<Tell(m.k, IF m.k = "info" THEN None ELSE desk[m.k])>>
        <5> DEFINE r == Tell(m.k, IF m.k = "info" THEN None ELSE desk[m.k])
        <5>1. r \in Reports  BY <4>4, Answers
        <5>2. r.k = "trim" => r.v = desk.trim  BY <4>3
        <5> QED  BY <4>4, <5>1, <5>2
      <4>5. CASE m \in GainPuts \cup SwitchPuts /\ down' = down \o <<Tell(m.k, Holds(m.k, m.v))>>
        <5>1. Tell(m.k, Holds(m.k, m.v)) \in Reports  BY <4>5, Answers
        <5> QED  BY <4>2, <4>3, <4>5, <5>1
      <4> QED  BY <4>1, <4>3, <4>4, <4>5
    <3>4. AwaitsTrim => \A i \in 1..Len(down') : down'[i].k = "trim" => down'[i].v = desk.trim
      <4>1. CASE down' = down  BY <4>1 DEF Rides
      <4>2. CASE \E r \in Reports : down' = down \o <<r>> /\ (r.k = "trim" => r.v = desk.trim)
        BY <4>2, TrimsTold DEF Rides
      <4> QED  BY <3>3, <4>1, <4>2
    <3> QED  BY <2>1, <3>2, <3>4, RidesThrough
  <2> QED  BY <2>2, <2>3
<1>4. CASE HangUp
  <2>1. down' = down \o <<Tell("refused", None)>> /\ UNCHANGED <<desk, up, trim, call>>
    BY <1>4 DEF HangUp, Push
  <2>2. Tell("refused", None) \in Reports /\ Tell("refused", None).k # "trim"  BY Kinds DEF Tell
  <2>3. AwaitsTrim => \A i \in 1..Len(down') : down'[i].k = "trim" => down'[i].v = desk.trim
    BY <2>1, <2>2, TrimsTold DEF Rides
  <2> QED  BY <2>1, <2>3, RidesThrough
<1>5. CASE Trimmed /\ TrimFound
  <2>1. ~AwaitsTrim' /\ Free(up, "trim") /\ UNCHANGED desk
    BY <1>5, Nudged, QuietIsFree DEF AwaitsTrim
  <2>2. CASE UNCHANGED up  BY <2>1, <2>2 DEF Rides
  <2>3. CASE \E by \in Int : desk.trim + by \in Int /\ up' = up \o <<Move(desk.trim + by, by)>>
    <3>1. PICK by \in Int : desk.trim + by \in Int /\ up' = up \o <<Move(desk.trim + by, by)>>
      BY <2>3
    <3>2. Move(desk.trim + by, by) \in Requests  BY <1>5, <3>1, Kinds
    <3>3. /\ Len(up) \in Nat
          /\ \A i \in 1..Len(up) : up'[i] = up[i]
          /\ up'[Len(up) + 1] = Move(desk.trim + by, by)
          /\ \A j \in 1..Len(up') : j \in 1..Len(up) \/ j = Len(up) + 1
      BY <1>1, <3>1, <3>2, Sent
    <3>4. ASSUME NEW i \in 1..Len(up'), up'[i].op = "set", up'[i].by # 0
          PROVE  up'[i].v = desk.trim + up'[i].by /\ \A j \in 1..Len(up') : j < i => up'[j].k # "trim"
      <4>1. CASE i \in 1..Len(up)
        <5>1. \A j \in 1..Len(up') : j < i => j \in 1..Len(up)  BY <3>3, <4>1
        <5> QED  BY <3>3, <3>4, <4>1, <5>1 DEF Rides
      <4>2. CASE i = Len(up) + 1
        <5>1. \A j \in 1..Len(up') : j < i => j \in 1..Len(up)  BY <3>3, <4>2
        <5> QED  BY <2>1, <3>3, <4>2, <5>1 DEF Move, Free
      <4> QED  BY <3>3, <4>1, <4>2
    <3> QED  BY <2>1, <3>4 DEF Rides
  <2> QED  BY <1>5, <2>2, <2>3, Nudged
<1>6. CASE Stands
  <2>1. UNCHANGED <<desk, up, down, trim>> /\ (AwaitsTrim' => AwaitsTrim /\ call' = call)
    BY <1>6 DEF Stands, AwaitsTrim
  <2> QED  BY <2>1 DEF Rides
<1>7. CASE Opening
  BY <1>7, RidesThrough DEF Opening, Rides
<1>8. CASE Loses
  <2>1. /\ UNCHANGED <<desk, trim, call>>
        /\ (up # <<>> /\ up' = Tail(up)) \/ up' = up
        /\ down' = down \/ (down # <<>> /\ down' = Tail(down))
    BY <1>8 DEF Loses
  <2>2. Tell("refused", None) \in Reports  BY Kinds
  <2>3. AwaitsTrim => \A i \in 1..Len(down') : down'[i].k = "trim" => down'[i].v = desk.trim
    BY <2>1, <2>2, TrimsTold DEF Rides
  <2> QED  BY <2>1, <2>3, RidesThrough
<1>9. CASE Asks
  <2>1. PICK msgs \in Seq(Polite) : up' = up \o msgs  BY <1>9 DEF Asks
  <2>2. \A i \in 1..Len(msgs) : msgs[i] \in Polite  OBVIOUS
  <2>3. \A m \in Polite : m.op # "set"  BY DEF Polite, Gets, Renewals, Renew
  <2>4. \A m \in Polite : m.k = "trim" => m.op = "get"  BY DEF Polite, Gets, Renewals, Renew
  <2>5. msgs \in Seq(Requests)  BY Kinds
  <2>6. /\ AwaitsTrim' => AwaitsTrim /\ call' = call /\ trim' = trim
        /\ UNCHANGED <<desk, down>>
    BY <1>9 DEF Asks, AwaitsTrim
  <2> QED  BY <2>1, <2>2, <2>3, <2>4, <2>5, <2>6, RidesOn
<1>10. CASE Puts
  <2>1. PICK v \in {v \in Int : Quantize(GainLaw, v) # 0} : up' = up \o <<Put("gain", v)>>
    BY <1>10 DEF Puts
  <2>2. ~AwaitsTrim' /\ UNCHANGED <<desk, down>>  BY <1>10 DEF Puts, AwaitsTrim
  <2>3. <<Put("gain", v)>> \in Seq(Requests)  BY Kinds
  <2>4. \A i \in 1..Len(<<Put("gain", v)>>) : <<Put("gain", v)>>[i].by = 0  BY DEF Put
  <2> QED  BY <2>1, <2>2, <2>3, <2>4, RidesOn
<1>11. CASE Switches48V
  <2> DEFINE u == <<Put("phantom", 1)>>
  <2>1. up' = up \o u /\ UNCHANGED <<desk, down, trim, call>> /\ rig.dialect # "ewg3"
    BY <1>11 DEF Switches48V
  <2>2. u \in Seq(Requests)  BY <2>1, Kinds
  <2>3. \A i \in 1..Len(u) : u[i].by = 0 /\ u[i].k # "trim"  BY DEF Put
  <2>4. AwaitsTrim' => AwaitsTrim  BY <2>1 DEF AwaitsTrim
  <2> QED  BY <2>1, <2>2, <2>3, <2>4, RidesOn
<1>12. CASE Hears
  <2> DEFINE m == Head(down)
  <2>1. UNCHANGED <<desk, up, call>> /\ down # <<>> /\ down' = Tail(down)  BY <1>12 DEF Hears
  <2>2. m = down[1] /\ 1 \in 1..Len(down) /\ m \in Reports  BY <1>1, <2>1, Taken
  <2>3. trim' = trim \/ (m.k = "trim" /\ trim' = m.v)  BY <1>12 DEF Hears, Ridden
  <2>4. AwaitsTrim => trim' \in {None, desk.trim}  BY <2>2, <2>3 DEF Rides
  <2>5. AwaitsTrim => \A i \in 1..Len(down') : down'[i].k = "trim" => down'[i].v = desk.trim
    BY <2>1, <2>2, TrimsTold DEF Rides
  <2>6. AwaitsTrim' <=> AwaitsTrim  BY <2>1 DEF AwaitsTrim
  <2> QED  BY <2>1, <2>4, <2>5, <2>6 DEF Rides
<1>13. CASE AsksForTrim
  <2> DEFINE u == IF up' = up THEN <<>> ELSE <<Get("trim")>>
  <2>1. /\ UNCHANGED <<desk, down>> /\ trim' = None
        /\ up' = up \/ (up' = up \o <<Get("trim")>> /\ call'.by \in Int)
        /\ call' = call \/ call'.by \in Int
        /\ Trimmed /\ Free(up, "trim") /\ Free(down, "trim") /\ call = None
    BY <1>13, QuietIsFree DEF AsksForTrim
  <2>2. CASE up' = up
    <3>1. AwaitsTrim' => call'.by \in Int  BY <2>1 DEF AwaitsTrim
    <3> QED  BY <2>1, <2>2, <3>1 DEF Rides, Free
  <2>3. CASE up' = up \o <<Get("trim")>>
    <3>1. Get("trim") \in Requests  BY <2>1, Kinds
    <3>2. /\ Len(up) \in Nat
          /\ \A i \in 1..Len(up) : up'[i] = up[i]
          /\ up'[Len(up) + 1] = Get("trim")
          /\ \A j \in 1..Len(up') : j \in 1..Len(up) \/ j = Len(up) + 1
      BY <1>1, <2>3, <3>1, Sent
    <3>3. AwaitsTrim' => call'.by \in Int  BY <2>1 DEF AwaitsTrim
    <3>4. \A i \in 1..Len(up') : up'[i].k = "trim" => up'[i].op = "get"
      BY <2>1, <3>2 DEF Free, Get
    <3>5. ASSUME NEW i \in 1..Len(up'), up'[i].op = "set", up'[i].by # 0 PROVE FALSE
      <4>1. i \in 1..Len(up)  BY <3>2, <3>5 DEF Get
      <4>2. up[i] \in Requests  BY <1>1, <4>1
      <4>3. up[i].k = "trim"
        BY <3>2, <3>5, <4>1, <4>2 DEF Requests, Gets, GainPuts, SwitchPuts, TrimPuts, Renewals, Ridden, Renew
      <4> QED  BY <2>1, <4>1, <4>3 DEF Free
    <3> QED  BY <2>1, <3>3, <3>4, <3>5 DEF Rides, Free
  <2> QED  BY <2>1, <2>2, <2>3
<1>14. CASE PutsTrim
  <2>1. PICK v \in Int : up' = up \o <<Put("trim", v)>>
    BY <1>14 DEF PutsTrim
  <2>2. ~AwaitsTrim' /\ UNCHANGED <<desk, down>> /\ Trimmed  BY <1>14 DEF PutsTrim, AwaitsTrim
  <2>3. <<Put("trim", v)>> \in Seq(Requests)  BY <2>2, Kinds
  <2>4. \A i \in 1..Len(<<Put("trim", v)>>) : <<Put("trim", v)>>[i].by = 0  BY DEF Put
  <2> QED  BY <2>1, <2>2, <2>3, <2>4, RidesOn
<1> QED
  BY <1>2, <1>3, <1>4, <1>5, <1>6, <1>7, <1>8, <1>9, <1>10, <1>11, <1>12, <1>13, <1>14 DEF Step

----------------------------------------------------------------------------
(* Over TCP *)

\* What is on its way from the desk, after it has moved or spoken.
LEMMA Spoken ==
    ASSUME Types, NEW m \in Reports, NEW g, NEW h
    PROVE  /\ m.k = "gain" /\ m.v = h => Ends(down \o <<m>>, "gain", h) /\ ~Free(down \o <<m>>, "gain")
           /\ m.k # "gain" /\ Ends(down, "gain", g) => Ends(down \o <<m>>, "gain", g)
           /\ m.k # "gain" => (Free(down \o <<m>>, "gain") <=> Free(down, "gain"))
<1>1. down \in Seq(Reports)  BY DEF Types
<1> QED  BY <1>1, SentSays

\* A desk that does not move says its gain or nothing about it.
LEMMA DeskSays ==
    ASSUME Types, DeskTakes
    PROVE  /\ \/ down' = down /\ (desk'.gain = desk.gain \/ (IsPut(Head(up)) /\ ~Tcp))
              \/ \E m \in Reports :
                    /\ down' = down \o <<m>>
                    /\ m.k = "gain" => m.v = desk'.gain /\ Head(up).k = "gain"
                    /\ m.k # "gain" => desk'.gain = desk.gain
           /\ power /\ IsPut(Head(up)) => desk'.gain = Quantize(GainLaw, Head(up).v)
           /\ ~IsPut(Head(up)) => desk'.gain = desk.gain
<1> DEFINE m == Head(up)
<1>1. /\ desk \in [gain : Gains, phantom : {1}, pad : {1}, trim : Grid(TrimLaw)]
      /\ \A k, x : Tell(k, x).k = k /\ Tell(k, x).v = x
      /\ Tell("refused", None) \in Reports
  BY Kinds DEF Types, Tell
<1>2. CASE ~power
  <2>1. desk' = desk /\ (down' = down \/ down' = down \o <<Tell("refused", None)>>)
    BY <1>2, Takes
  <2> QED  BY <1>1, <1>2, <2>1
<1>3. CASE power /\ m \in Gets
  <2> DEFINE r == Tell(m.k, IF m.k = "info" THEN None ELSE desk[m.k])
  <2>1. m.op = "get" /\ ~IsPut(m)  BY <1>3 DEF Gets, IsPut
  <2>2. desk' = desk /\ down' = down \o <<r>>
    BY <1>3, <2>1, Takes DEF GainPuts, SwitchPuts, TrimPuts, Renew
  <2>3. r \in Reports  BY <1>3, Answers
  <2>4. r.k = m.k /\ (m.k = "gain" => r.v = desk.gain)  BY <1>1
  <2> QED  BY <2>1, <2>2, <2>3, <2>4
<1>4. CASE power /\ m \in GainPuts \cup SwitchPuts \cup TrimPuts
  <2> DEFINE r == Tell(m.k, Holds(m.k, m.v))
  <2>1. m.op = "set"  BY <1>4 DEF GainPuts, SwitchPuts, TrimPuts
  <2>2. desk' = [desk EXCEPT ![m.k] = Holds(m.k, m.v)] /\ (down' = down \o <<r>> \/ (down' = down /\ ~Tcp))
    BY <1>4, <2>1, Takes DEF Gets, Renew
  <2>3. r \in Reports /\ (m.k = "gain" => Holds(m.k, m.v) = Quantize(GainLaw, m.v))  BY <1>4, Answers
  <2>4. r.k = m.k /\ r.v = Holds(m.k, m.v)  BY <1>1
  <2>5. m.k = "gain" => desk'.gain = Holds(m.k, m.v)  BY <1>1, <2>2
  <2>6. m.k # "gain" => desk'.gain = desk.gain  BY <1>1, <2>2
  <2>7. IsPut(m) <=> m.k = "gain"  BY <2>1 DEF IsPut
  <2> HIDE DEF r
  <2> QED  BY <2>2, <2>3, <2>4, <2>5, <2>6, <2>7
<1>5. CASE power /\ m \in Renewals
  <2>1. m = Renew /\ m.op = "renew"  BY <1>5 DEF Renewals, Renew
  <2>2. UNCHANGED <<desk, down>> /\ ~IsPut(m)
    BY <1>5, <2>1, Takes DEF Gets, GainPuts, SwitchPuts, TrimPuts, IsPut
  <2> QED  BY <2>2
<1> QED  BY <1>2, <1>3, <1>4, <1>5, Takes DEF Requests

\* The TCP receive loops tell the peer every report in the order it came, so
\* the peer is behind the desk by what is under way and no more.
LEMMA FollowsKept ==
    ASSUME Types, Types', Follows, Step
    PROVE  Follows'
<1>1. rig' = rig /\ (Tcp' <=> Tcp)  BY RigStays DEF Tcp
<1> SUFFICES ASSUME Tcp
             PROVE  /\ link' = "new" => up' = <<>> /\ told'.gain = None /\ Free(down', "gain") /\ ~pushes' /\ ~ears'
                    /\ pushes' => /\ Ends(down', "gain", desk'.gain)
                                  /\ Free(down', "gain") => told'.gain \in {None, desk'.gain}
  BY <1>1 DEF Follows, Free, Ends
<1> USE DEF mind, wire, loops
<1>2. /\ link = "new" => up = <<>> /\ told.gain = None /\ Free(down, "gain") /\ ~pushes /\ ~ears
      /\ pushes => /\ Ends(down, "gain", desk.gain)
                   /\ Free(down, "gain") => told.gain \in {None, desk.gain}
      /\ ~Trimmed /\ ~Kept /\ Ridden = {}
  BY DEF Follows, Tcp, Trimmed, Kept, Ridden
<1>3. CASE Turn
  <2>1. UNCHANGED <<up, pushes, link, ears, told>>  BY <1>3, TurnsTo
  <2>2. PICK v \in Gains :
              /\ desk' = [desk EXCEPT !.gain = v]
              /\ IF pushes THEN down' = down \o <<Tell("gain", v)>> ELSE down' = down
    BY <1>2, <1>3, TurnsTo
  <2>3. desk'.gain = v /\ Tell("gain", v) \in Reports /\ Tell("gain", v).k = "gain" /\ Tell("gain", v).v = v
    BY <2>2, Kinds DEF Types, Tell
  <2>4. pushes => Ends(down', "gain", desk'.gain) /\ ~Free(down', "gain")  BY <2>2, <2>3, Spoken
  <2> QED  BY <1>2, <2>1, <2>2, <2>4
<1>4. CASE DeskTakes
  <2>1. UNCHANGED <<link, ears, told>> /\ up # <<>>  BY <1>4, Takes
  <2>2. pushes' = pushes  BY <1>2, <1>4, Takes
  <2>3. CASE down' = down /\ desk'.gain = desk.gain  BY <1>2, <2>1, <2>2, <2>3
  <2>4. CASE \E m \in Reports :
                /\ down' = down \o <<m>>
                /\ m.k = "gain" => m.v = desk'.gain /\ Head(up).k = "gain"
                /\ m.k # "gain" => desk'.gain = desk.gain
    <3>1. PICK m \in Reports :
                /\ down' = down \o <<m>>
                /\ m.k = "gain" => m.v = desk'.gain
                /\ m.k # "gain" => desk'.gain = desk.gain
      BY <2>4
    <3>2. CASE m.k = "gain"  BY <1>2, <2>1, <2>2, <3>1, <3>2, Spoken
    <3>3. CASE m.k # "gain"  BY <1>2, <2>1, <2>2, <3>1, <3>3, Spoken
    <3> QED  BY <3>2, <3>3
  <2> QED  BY <1>4, <2>3, <2>4, DeskSays
<1>5. CASE HangUp
  <2>1. down' = down \o <<Tell("refused", None)>> /\ UNCHANGED <<desk, up, pushes, link, ears, told>>
    BY <1>5 DEF HangUp, Push
  <2>2. Tell("refused", None) \in Reports /\ Tell("refused", None).k # "gain"  BY Kinds DEF Tell
  <2> QED  BY <1>2, <2>1, <2>2, Spoken
<1>6. CASE Stands  BY <1>2, <1>6 DEF Stands
<1>7. CASE Opening  BY <1>2, <1>7 DEF Opening, Ends, Free
<1>8. CASE Asks  BY <1>2, <1>8 DEF Asks
<1>9. CASE Puts  BY <1>2, <1>9 DEF Puts
<1>10. CASE Switches48V  BY <1>2, <1>10 DEF Switches48V
<1>11. CASE Hears
  <2> DEFINE m == Head(down)
  <2>1. /\ UNCHANGED <<desk, pushes, link>> /\ down # <<>> /\ down' = Tail(down) /\ ears
        /\ \/ m.k # "gain" /\ told'.gain = told.gain
           \/ m.k = "gain" /\ told'.gain = m.v
    BY <1>2, <1>11 DEF Hears, Infos, Switched, Types
  <2>2. /\ Ends(down, "gain", desk.gain) => Ends(down', "gain", desk.gain)
        /\ Ends(down, "gain", desk.gain) /\ Free(down', "gain") /\ m.k = "gain" => m.v = desk.gain
        /\ Free(down', "gain") /\ m.k # "gain" => Free(down, "gain")
    BY <2>1, TakenSays DEF Types
  <2> HIDE DEF m
  <2> QED  BY <1>2, <2>1, <2>2
<1> QED
  BY <1>2, <1>3, <1>4, <1>5, <1>6, <1>7, <1>8, <1>9, <1>10, <1>11 DEF Step, Loses, AsksForTrim, PutsTrim

----------------------------------------------------------------------------
(* Over UDP *)

\* Polls, renewals and nudges are no news of the gain.
LEMMA NewsAsked ==
    ASSUME NEW q \in Seq(Requests), NEW u \in Seq(Requests), NEW d, NEW c, NEW g,
           NoPut(u), News(q, d, c, g)
    PROVE  News(q \o u, d, c, g)
<1> DEFINE a == q \o u
<1>1. /\ Len(q) \in Nat /\ Len(u) \in Nat /\ Len(a) = Len(q) + Len(u)
      /\ \A i \in 1..Len(a) : a[i] = IF i <= Len(q) THEN q[i] ELSE u[i - Len(q)]
  BY ConcatProperties, LenProperties
<1> HIDE DEF a
<1>2. \A i \in 1..Len(q) : i \in 1..Len(a) /\ a[i] = q[i]  BY <1>1
<1>3. ASSUME NEW i \in 1..Len(a), IsPut(a[i]) PROVE i \in 1..Len(q)
  <2>1. CASE i <= Len(q)  BY <1>1, <2>1
  <2>2. CASE i > Len(q)
    <3>1. i - Len(q) \in 1..Len(u) /\ a[i] = u[i - Len(q)]  BY <1>1, <2>2
    <3> QED  BY <1>3, <3>1 DEF NoPut
  <2> QED  BY <1>1, <2>1, <2>2
<1>4. ASSUME NEW i \in 1..Len(a), IsPut(a[i])
      PROVE  /\ Free(d, "gain")
             /\ \A j \in 1..Len(a) : j < i => a[j].k # "gain"
             /\ Known(c) => c.gain = Quantize(GainLaw, a[i].v)
  <2>1. i \in 1..Len(q) /\ a[i] = q[i]  BY <1>2, <1>3, <1>4
  <2>2. \A j \in 1..Len(a) : j < i => j \in 1..Len(q)  BY <1>1, <2>1
  <2> QED  BY <1>2, <1>4, <2>1, <2>2 DEF News
<1>5. NoPut(a) => NoPut(q)  BY <1>2 DEF NoPut
<1> QED  BY <1>4, <1>5 DEF News, a

\* The same of one such message.
LEMMA OneMore ==
    ASSUME NEW q \in Seq(Requests), NEW m \in Requests, ~IsPut(m), NEW d, NEW c, NEW g, News(q, d, c, g)
    PROVE  News(q \o <<m>>, d, c, g)
<1>1. <<m>> \in Seq(Requests)  OBVIOUS
<1>2. NoPut(<<m>>)  BY DEF NoPut
<1> QED  BY <1>1, <1>2, NewsAsked

\* The desk reports the gain it has, or something else.
LEMMA NewsTold ==
    ASSUME NEW q, NEW d \in Seq(Reports), NEW m \in Reports, NEW c, NEW g, NEW h, News(q, d, c, g)
    PROVE  /\ m.k # "gain" => News(q, d \o <<m>>, c, g)
           /\ m.k = "gain" /\ m.v = h /\ NoPut(q) => News(q, d \o <<m>>, c, h)
<1>1. /\ m.k # "gain" => (Free(d \o <<m>>, "gain") <=> Free(d, "gain"))
      /\ m.k # "gain" /\ Ends(d, "gain", g) => Ends(d \o <<m>>, "gain", g)
      /\ m.k = "gain" => ~Free(d \o <<m>>, "gain")
      /\ m.k = "gain" /\ m.v = h => Ends(d \o <<m>>, "gain", h)
  BY SentSays
<1> QED  BY <1>1 DEF News, NoPut

\* The desk takes the oldest request: the only write there is, or none.
LEMMA NewsTaken ==
    ASSUME NEW q \in Seq(Requests), q # <<>>, NEW d, NEW c, NEW g, News(q, d, c, g)
    PROVE  /\ ~IsPut(Head(q)) => News(Tail(q), d, c, g)
           /\ ~IsPut(Head(q)) /\ Head(q).k = "gain" => NoPut(q) /\ NoPut(Tail(q))
           /\ IsPut(Head(q)) => NoPut(Tail(q)) /\ Free(d, "gain")
           /\ IsPut(Head(q)) /\ Known(c) => c.gain = Quantize(GainLaw, Head(q).v)
<1> DEFINE t == Tail(q)
<1>1. /\ Head(q) = q[1] /\ 1 \in 1..Len(q)
      /\ \A i \in 1..Len(t) : i + 1 \in 1..Len(q) /\ t[i] = q[i + 1] /\ 1 < i + 1
      /\ \A j \in 1..Len(q) : j # 1 => j - 1 \in 1..Len(t) /\ q[j] = t[j - 1]
  BY Taken
<1> HIDE DEF t
<1>2. ASSUME NEW i \in 1..Len(t), IsPut(t[i]) PROVE Head(q).k # "gain"
  BY <1>1, <1>2 DEF News
<1>3. ASSUME NEW i \in 1..Len(t), IsPut(t[i])
      PROVE  /\ Free(d, "gain")
             /\ \A j \in 1..Len(t) : j < i => t[j].k # "gain"
             /\ Known(c) => c.gain = Quantize(GainLaw, t[i].v)
  <2>1. ASSUME NEW j \in 1..Len(t), j < i PROVE t[j].k # "gain"
    <3>1. j + 1 < i + 1  BY <2>1
    <3> QED  BY <1>1, <1>3, <3>1 DEF News
  <2> QED  BY <1>1, <1>3, <2>1 DEF News
<1>4. ~IsPut(Head(q)) /\ NoPut(t) => NoPut(q)  BY <1>1 DEF NoPut
<1>5. ~IsPut(Head(q)) => News(t, d, c, g)  BY <1>3, <1>4 DEF News
<1>6. Head(q).k = "gain" => NoPut(t)  BY <1>2 DEF NoPut
<1>7. /\ IsPut(Head(q)) => Free(d, "gain")
      /\ IsPut(Head(q)) /\ Known(c) => c.gain = Quantize(GainLaw, Head(q).v)
  BY <1>1 DEF News
<1> QED  BY <1>4, <1>5, <1>6, <1>7 DEF t, IsPut

\* A gain is written while nothing about it is under way; the cache has what
\* the desk will make of it, or has nothing.
LEMMA NewsPut ==
    ASSUME NEW q \in Seq(Requests), NEW d, NEW c, NEW g, NEW v, Put("gain", v) \in Requests,
           Free(q, "gain"), Free(d, "gain"), Known(c) => c.gain = Quantize(GainLaw, v)
    PROVE  News(q \o <<Put("gain", v)>>, d, c, g)
<1> DEFINE a == q \o <<Put("gain", v)>>
           l == Len(q) + 1
<1>1. /\ \A i \in 1..Len(q) : a[i] = q[i]
      /\ l \in 1..Len(a) /\ a[l] = Put("gain", v) /\ Len(q) \in Nat
      /\ \A j \in 1..Len(a) : j \in 1..Len(q) \/ j = l
  BY Sent
<1> HIDE DEF a
<1>2. Put("gain", v).v = v /\ IsPut(Put("gain", v))  BY DEF Put, IsPut
<1>3. ~NoPut(a)  BY <1>1, <1>2 DEF NoPut
<1>4. ASSUME NEW i \in 1..Len(a), IsPut(a[i])
      PROVE  i = l /\ a[i].v = v /\ \A j \in 1..Len(a) : j < i => a[j].k # "gain"
  <2>1. i = l  BY <1>1, <1>4 DEF Free, IsPut
  <2>2. \A j \in 1..Len(a) : j < l => j \in 1..Len(q)  BY <1>1
  <2> QED  BY <1>1, <1>2, <2>1, <2>2 DEF Free
<1> QED  BY <1>3, <1>4 DEF News, a

\* The adapter hears the oldest report: a gain, which it caches, or something
\* else, which leaves the gain in its cache alone.
LEMMA NewsHeard ==
    ASSUME NEW q, NEW d \in Seq(Reports), d # <<>>, NEW c, NEW k, NEW g, News(q, d, c, g)
    PROVE  /\ Head(d).k # "gain" /\ (Known(k) => Known(c) /\ k.gain = c.gain) => News(q, Tail(d), k, g)
           /\ Head(d).k = "gain" /\ k.gain = Head(d).v => News(q, Tail(d), k, g)
<1>1. /\ Free(d, "gain") => Free(Tail(d), "gain") /\ Head(d).k # "gain"
      /\ Free(Tail(d), "gain") /\ Head(d).k # "gain" => Free(d, "gain")
      /\ Ends(d, "gain", g) => Ends(Tail(d), "gain", g)
      /\ Ends(d, "gain", g) /\ Free(Tail(d), "gain") /\ Head(d).k = "gain" => Head(d).v = g
  BY TakenSays
<1>2. ASSUME Head(d).k # "gain", Known(k) => Known(c) /\ k.gain = c.gain
      PROVE  News(q, Tail(d), k, g)
  BY <1>1, <1>2 DEF News
<1>3. ASSUME Head(d).k = "gain", k.gain = Head(d).v
      PROVE  News(q, Tail(d), k, g)
  <2>1. NoPut(q)  BY <1>1, <1>3 DEF News, NoPut
  <2> QED  BY <1>1, <1>3, <2>1 DEF News, NoPut
<1> QED  BY <1>2, <1>3

\* Where no datagram was lost and no write crossed a report, the adapters that
\* cache their writes know the desk's gain or have news of it under way.
LEMMA SettledKept ==
    ASSUME Types, Types', Rides, Settled, Step
    PROVE  Settled'
<1> USE DEF mind, wire, loops
<1>1. rig' = rig /\ (Kept' <=> Kept)  BY RigStays DEF Kept
<1> SUFFICES ASSUME Kept, clean' PROVE power' /\ News(up', down', cache', desk'.gain)
  <2>1. News(up, down, cache, desk.gain)' <=> News(up', down', cache', desk'.gain)
    BY DEF News, Free, Ends, NoPut, Known, IsPut
  <2> QED  BY <1>1, <2>1 DEF Settled
<1>2. clean /\ power /\ News(up, down, cache, desk.gain)
  <2>1. clean
    BY DEF Step, Turn, DeskTakes, HangUp, TrimFound, Stands, Opening, Loses, Asks, Puts, Switches48V,
           Hears, AsksForTrim, PutsTrim
  <2> QED  BY <2>1 DEF Settled
<1>3. up \in Seq(Requests) /\ down \in Seq(Reports)  BY DEF Types
<1>4. CASE Turn
  <2>1. UNCHANGED <<up, cache, power>>  BY <1>4, TurnsTo
  <2>2. PICK k \in {"gain"} \cup Ridden, v \in (Gains \cup Grid(TrimLaw)) :
              /\ k = "gain" => v \in Gains
              /\ k = "trim" => v \in Grid(TrimLaw)
              /\ desk' = [desk EXCEPT ![k] = v]
              /\ IF pushes THEN down' = down \o <<Tell(k, v)>> ELSE down' = down
              /\ clean' = (clean /\ (k = "gain" =>
                        /\ pushes \/ (cache = None /\ Quiet("gain"))
                        /\ \A i \in DOMAIN up : ~(up[i].op = "set" /\ up[i].k = "gain")))
    BY <1>4, TurnsTo
  <2>3. Tell(k, v) \in Reports /\ Tell(k, v).k = k /\ Tell(k, v).v = v
    BY <2>2, Kinds DEF Tell, Ridden
  <2>4. CASE k = "trim"
    <3>1. desk'.gain = desk.gain  BY <2>2, <2>4 DEF Types
    <3> QED  BY <1>2, <1>3, <2>1, <2>2, <2>3, <2>4, <3>1, NewsTold
  <2>5. CASE k = "gain"
    <3>1. desk'.gain = v  BY <2>2, <2>5 DEF Types
    <3>2. NoPut(up) /\ (pushes \/ (cache = None /\ Quiet("gain")))
      <4>1. DOMAIN up = 1..Len(up)  BY <1>3
      <4> QED  BY <2>2, <2>5, <4>1 DEF NoPut, IsPut
    <3>3. CASE pushes
      <4>1. down' = down \o <<Tell(k, v)>>  BY <2>2, <3>3
      <4>2. News(up, down', cache, v)  BY <1>2, <1>3, <2>3, <2>5, <3>2, <4>1, NewsTold
      <4> QED  BY <1>2, <2>1, <3>1, <4>2
    <3>4. CASE ~pushes
      <4>1. cache = None /\ Free(down, "gain") /\ down' = down  BY <2>2, <3>2, <3>4, QuietIsFree
      <4> QED  BY <1>2, <2>1, <3>2, <4>1 DEF News, Ends, Free, Known, NoPut
    <3> QED  BY <3>3, <3>4
  <2> QED  BY <2>2, <2>4, <2>5 DEF Ridden
<1>5. CASE DeskTakes
  <2> DEFINE m == Head(up)
  <2>1. UNCHANGED <<cache, power>> /\ up # <<>> /\ up' = Tail(up)  BY <1>5, Takes
  <2>2. CASE IsPut(m)
    <3>1. NoPut(up') /\ Free(down, "gain") /\ (Known(cache) => cache.gain = desk'.gain)
      BY <1>2, <1>3, <1>5, <2>1, <2>2, NewsTaken, DeskSays
    <3>2. News(up', down, cache, desk'.gain)  BY <3>1 DEF News, Ends, Free, NoPut
    <3>3. CASE down' = down  BY <1>2, <2>1, <3>2, <3>3
    <3>4. CASE \E r \in Reports : down' = down \o <<r>> /\ (r.k = "gain" => r.v = desk'.gain)
      BY <1>2, <1>3, <2>1, <3>1, <3>2, <3>4, NewsTold
    <3> QED  BY <1>5, <3>3, <3>4, DeskSays
  <2>3. CASE ~IsPut(m)
    <3>1. News(up', down, cache, desk.gain) /\ (m.k = "gain" => NoPut(up'))
      BY <1>2, <1>3, <2>1, <2>3, NewsTaken
    <3>2. desk'.gain = desk.gain  BY <1>5, <2>3, DeskSays
    <3>3. CASE down' = down  BY <1>2, <2>1, <3>1, <3>2, <3>3
    <3>4. CASE \E r \in Reports :
                  /\ down' = down \o <<r>>
                  /\ r.k = "gain" => r.v = desk'.gain /\ m.k = "gain"
      BY <1>2, <1>3, <2>1, <3>1, <3>2, <3>4, NewsTold
    <3> QED  BY <1>5, <3>3, <3>4, DeskSays
  <2> QED  BY <2>2, <2>3
<1>6. CASE Trimmed /\ TrimFound
  <2>1. UNCHANGED <<desk, power, down, cache>>  BY <1>6 DEF TrimFound
  <2>2. up' = up \/ \E v \in Int, by \in Int : up' = up \o <<Move(v, by)>>
    BY <1>6, Nudged
  <2> QED  BY <1>2, <1>3, <1>6, <2>1, <2>2, OneMore, Kinds DEF Move, IsPut
<1>7. CASE Stands  BY <1>2, <1>7 DEF Stands
<1>8. CASE Opening  BY <1>2, <1>8 DEF Opening
<1>9. CASE Asks
  <2>1. PICK msgs \in Seq(Polite) : up' = up \o msgs  BY <1>9 DEF Asks
  <2>2. UNCHANGED <<desk, power, down, cache>>  BY <1>9 DEF Asks
  <2>3. msgs \in Seq(Requests)  BY Kinds
  <2>4. NoPut(msgs)
    <3>1. \A i \in 1..Len(msgs) : msgs[i] \in Polite  OBVIOUS
    <3> QED  BY <3>1 DEF NoPut, IsPut, Polite, Gets, Renewals, Renew
  <2> QED  BY <1>2, <1>3, <2>1, <2>2, <2>3, <2>4, NewsAsked
<1>10. CASE Puts
  <2>1. PICK v \in {v \in Int : Quantize(GainLaw, v) # 0} :
          /\ up' = up \o <<Put("gain", v)>>
          /\ cache' = None \/ cache'.gain = Quantize(GainLaw, v)
    BY <1>10 DEF Puts
  <2>2. UNCHANGED <<desk, power, down>> /\ Quiet("gain")  BY <1>10 DEF Puts, Crossed
  <2>3. Free(up, "gain") /\ Free(down, "gain")  BY <2>2, QuietIsFree
  <2>4. Put("gain", v) \in Requests  BY Kinds
  <2>5. Known(cache') => cache'.gain = Quantize(GainLaw, v)  BY <2>1 DEF Known
  <2> QED  BY <1>2, <1>3, <2>1, <2>2, <2>3, <2>4, <2>5, NewsPut
<1>11. CASE Switches48V
  <2>1. UNCHANGED <<desk, power, down, cache>> /\ up' = up \o <<Put("phantom", 1)>> /\ rig.dialect # "ewg3"
    BY <1>11 DEF Switches48V
  <2> QED  BY <1>2, <1>3, <2>1, OneMore, Kinds DEF Put, IsPut
<1>12. CASE Hears
  <2> DEFINE m == Head(down)
  <2>1. UNCHANGED <<desk, power, up>> /\ down # <<>> /\ down' = Tail(down)  BY <1>12 DEF Hears
  <2>2. CASE m.k = "gain" /\ cache'.gain = m.v
    BY <1>2, <1>3, <2>1, <2>2, NewsHeard
  <2>3. CASE m.k # "gain" /\ (Known(cache') => Known(cache) /\ cache'.gain = cache.gain)
    BY <1>2, <1>3, <2>1, <2>3, NewsHeard
  <2>4. rig.dialect # "scp"  BY DEF Kept
  <2>5. \/ m.k = "gain" /\ cache'.gain = m.v
        \/ m.k # "gain" /\ (Known(cache') => Known(cache) /\ cache'.gain = cache.gain)
    BY <1>12, <2>4 DEF Hears, Infos, Ridden, Switched, Known
  <2> QED  BY <2>2, <2>3, <2>5
<1>13. CASE AsksForTrim
  <2>1. /\ UNCHANGED <<desk, power, down, cache>> /\ Trimmed
        /\ up' = up \/ up' = up \o <<Get("trim")>>
    BY <1>13 DEF AsksForTrim
  <2> QED  BY <1>2, <1>3, <2>1, OneMore, Kinds DEF Get, IsPut
<1>14. CASE PutsTrim
  <2>1. PICK v \in Int : up' = up \o <<Put("trim", v)>>
    BY <1>14 DEF PutsTrim
  <2>2. UNCHANGED <<desk, power, down, cache>> /\ Trimmed  BY <1>14 DEF PutsTrim
  <2> QED  BY <1>2, <1>3, <2>1, <2>2, OneMore, Kinds DEF Put, IsPut
<1>15. ~Tcp  BY DEF Kept, Tcp
<1> QED
  BY <1>4, <1>5, <1>6, <1>7, <1>8, <1>9, <1>10, <1>11, <1>12, <1>13, <1>14, <1>15 DEF Step, Loses

----------------------------------------------------------------------------
(* The adapters *)

\* Each step of the X32 adapter, from /xremote to a trim that was asked for.
LEMMA X32Steps ==
    ASSUME Types, Is("x32"), X!Next
    PROVE  Step
<1> USE DEF X!loops, loops, X!mind, mind, X!wire, wire
<1>1. rig.dialect = "x32" /\ Trimmed /\ Kept /\ ~Tcp
  BY DEF Is, Trimmed, Kept, Tcp
<1>2. /\ \A k : X!Get(k) = Get(k)
      /\ \A k, v : X!Put(k, v) = Put(k, v)
      /\ \A law, v : X!Quantize(law, v) = Quantize(law, v)
      /\ \A k, v : X!Tell(k, v) = Tell(k, v)
      /\ X!Renew = Renew
  BY DEF X!Get, Get, X!Put, Put, X!Tell, Tell, X!Quantize, Quantize, X!At, At, X!Clamp, Clamp,
         X!Index, Index, X!Renew, Renew
<1>3. X!Turn => Turn
  BY DEF X!Turn, Turn, X!Quiet, Quiet, X!Turned, Turned, X!Grid, Grid, X!At, At, X!Clamp, Clamp,
         X!Push, Push, X!Tell, Tell
<1>4. X!DeskTakes => DeskTakes
  BY DEF X!DeskTakes, DeskTakes, X!Push, Push, X!Tell, Tell, X!Holds, Holds, X!Quantize, Quantize,
         X!At, At, X!Clamp, Clamp, X!Index, Index
<1>5. X!PowerOff \/ X!PowerOn \/ X!IdentifyEnds \/ X!PollEnds \/ X!Disconnect \/ X!Lapse \/ X!TrimMissed => Stands
  BY DEF X!PowerOff, X!PowerOn, X!IdentifyEnds, X!PollEnds, X!Disconnect, X!Closes, X!Idle, X!Calling, X!Lapse, X!TrimMissed, Stands, AwaitsTrim
<1>6. X!Lose => Loses
  BY <1>1 DEF X!Lose, Loses
<1>7. X!Connect => Opening
  BY DEF X!Connect, X!Opens, Opening
<1>8. X!Identify \/ X!GetState \/ X!Heartbeat => Asks \/ Stands
  <2>1. ASSUME X!Identify PROVE Asks
    <3>1. /\ up' = up \o <<Get("info")>> /\ ~AwaitsTrim' /\ link = "open"
          /\ UNCHANGED <<rig, desk, power, pushes, down, link, mind, clean>>
      BY <1>2, <2>1 DEF X!Identify, X!Identifies, X!Idle, X!Send, X!Calling, AwaitsTrim
    <3> QED  BY <1>1, <3>1, Questions DEF Asks
  <2>2. ASSUME X!GetState PROVE Asks
    <3>1. /\ up' = up \o <<Get("gain"), Get("phantom")>> /\ ~AwaitsTrim' /\ link = "open"
          /\ UNCHANGED <<rig, desk, power, pushes, down, link, mind, clean>>
      BY <1>2, <2>2 DEF X!GetState, X!Polls, X!Idle, X!Send, X!Calling, AwaitsTrim
    <3> QED  BY <1>1, <3>1, Questions DEF Asks
  <2>3. ASSUME X!Heartbeat PROVE Asks \/ Stands
    <3>1. /\ UNCHANGED <<rig, desk, power, pushes, down, link, ears, mind, call, clean>>
          /\ up' = up \o <<Renew>> \/ up' = up
      BY <1>2, <2>3 DEF X!Heartbeat, X!Beats, X!Send
    <3>2. CASE up' = up \o <<Renew>>  BY <1>1, <3>1, <3>2, Questions DEF Asks
    <3>3. CASE up' = up  BY <3>1, <3>3 DEF Stands
    <3> QED  BY <3>1, <3>2, <3>3
  <2> QED  BY <2>1, <2>2, <2>3
<1>9. X!SetGain => Puts
  <2> SUFFICES ASSUME X!SetGain PROVE Puts
    OBVIOUS
  <2>1. PICK v \in rig.asks : X!WritesGain(v, X!CacheAfterSet(v))
    BY DEF X!SetGain
  <2>2. /\ v \in Int /\ Quantize(GainLaw, v) # 0 /\ Quantize(GainLaw, v) \in Gains
    BY Gained
  <2>3. \/ cache' = cache /\ cache = None
        \/ cache' = [cache EXCEPT !.gain = Quantize(GainLaw, v)] /\ cache \in Entries
    BY <1>2, <2>1 DEF X!WritesGain, X!CacheAfterSet, Types
  <2>4. \/ cache' = cache /\ cache = None
        \/ cache' \in Entries /\ cache'.gain = Quantize(GainLaw, v)
    BY <2>2, <2>3 DEF Entries
  <2>5. /\ up' = up \o <<Put("gain", v)>> /\ link = "open" /\ call = None
        /\ clean' = (clean /\ ~Crossed)
        /\ UNCHANGED <<rig, desk, power, pushes, down, loops, trim, told, call>>
    BY <1>2, <2>1 DEF X!SetGain, X!Idle, X!WritesGain, X!Send, X!Crossed, Crossed, X!Quiet, Quiet
  <2> QED  BY <1>1, <2>2, <2>4, <2>5 DEF Puts
<1>10. X!SetPhantom => Switches48V
  BY <1>1, <1>2 DEF X!SetPhantom, X!WritesPhantom, X!Idle, X!Send, Switches48V
<1>11. X!ReceiveLoop => Hears
  <2> SUFFICES ASSUME X!ReceiveLoop PROVE Hears
    OBVIOUS
  <2> DEFINE m == Head(down)
  <2>1. /\ ears /\ down # <<>> /\ down' = Tail(down) /\ (ears' => ears)
        /\ m.k \in {"refused", "info"} => UNCHANGED mind
        /\ m.k \notin {"refused", "info"} => X!HandleMessage(m)
        /\ UNCHANGED <<rig, desk, power, pushes, up, link, beat, call, clean>>
    BY DEF X!ReceiveLoop, X!Receives
  <2> HIDE DEF m
  <2>2. X!Heard(X!BlankEntry, m) = Heard(Unread, m) /\ Unread \in Entries
    BY DEF X!Heard, Heard, X!BlankEntry, X!Unread, Unread, X!Read, Read, Entries
  <2>3. m.k \notin {"refused", "info", "trim"} => Reported(Heard(Unread, m), {m.k})
    <3> SUFFICES ASSUME m.k \notin {"refused", "info", "trim"} PROVE Reported(Heard(Unread, m), {m.k})
      OBVIOUS
    <3>1. X!Reported(Heard(Unread, m), {m.k})  BY <2>1, <2>2 DEF X!HandleMessage, X!OneField
    <3> QED  BY <3>1 DEF X!Reported, Reported, X!Relayed, Relayed
  <2>4. m.k = "trim" => trim' = m.v /\ UNCHANGED <<cache, told>>
    BY <2>1 DEF X!HandleMessage
  <2>5. Unread.gain = None  BY DEF Unread
  <2> QED  BY <1>1, <2>1, <2>2, <2>3, <2>4, <2>5, Listening DEF m
<1>12. X!TrimFound => TrimFound
  BY DEF X!TrimFound, TrimFound, X!AwaitsTrim, AwaitsTrim, X!Quiet, Quiet, X!NudgeApplied, NudgeApplied,
         X!NudgeTarget, NudgeTarget, X!NudgeSteps, NudgeSteps, X!At, At, X!Clamp, Clamp, X!Index, Index,
         X!Send, Send, X!Move, Move
<1>13. X!GetTrim \/ X!NudgeTrim => AsksForTrim
  BY <1>1, <1>2, ValueAssumption DEF ValueAssumption, X!GetTrim, X!NudgeTrim, X!AsksTrim, X!ForgetTrim, X!Idle, X!Send,
         X!Quiet, Quiet, AsksForTrim
<1>14. X!SetTrim => PutsTrim
  BY <1>1, <1>2, Grids, ValueAssumption DEF ValueAssumption, X!SetTrim, X!WritesTrim, X!Idle, X!Send, PutsTrim
<1> QED
  BY <1>1, <1>3, <1>4, <1>5, <1>6, <1>7, <1>8, <1>9, <1>10, <1>11, <1>12, <1>13, <1>14
     DEF X!Next, X!Datagrams, Step

\* Each step of the Wing adapter, which caches what it is asked for.
LEMMA WingSteps ==
    ASSUME Types, Is("wing"), W!Next
    PROVE  Step
<1> USE DEF W!loops, loops, W!mind, mind, W!wire, wire
<1>1. rig.dialect = "wing" /\ Trimmed /\ Kept /\ ~Tcp
  BY DEF Is, Trimmed, Kept, Tcp
<1>2. /\ \A k : W!Get(k) = Get(k)
      /\ \A k, v : W!Put(k, v) = Put(k, v)
      /\ \A law, v : W!Quantize(law, v) = Quantize(law, v)
      /\ \A k, v : W!Tell(k, v) = Tell(k, v)
      /\ W!Renew = Renew
  BY DEF W!Get, Get, W!Put, Put, W!Tell, Tell, W!Quantize, Quantize, W!At, At, W!Clamp, Clamp,
         W!Index, Index, W!Renew, Renew
<1>3. W!Turn => Turn
  BY DEF W!Turn, Turn, W!Quiet, Quiet, W!Turned, Turned, W!Grid, Grid, W!At, At, W!Clamp, Clamp,
         W!Push, Push, W!Tell, Tell
<1>4. W!DeskTakes => DeskTakes
  BY DEF W!DeskTakes, DeskTakes, W!Push, Push, W!Tell, Tell, W!Holds, Holds, W!Quantize, Quantize,
         W!At, At, W!Clamp, Clamp, W!Index, Index
<1>5. W!PowerOff \/ W!PowerOn \/ W!IdentifyEnds \/ W!PollEnds \/ W!Disconnect \/ W!Lapse \/ W!TrimMissed => Stands
  BY DEF W!PowerOff, W!PowerOn, W!IdentifyEnds, W!PollEnds, W!Disconnect, W!Closes, W!Idle, W!Calling, W!Lapse, W!TrimMissed, Stands, AwaitsTrim
<1>6. W!Lose => Loses
  BY <1>1 DEF W!Lose, Loses
<1>7. W!Connect => Opening
  BY DEF W!Connect, W!Opens, Opening
<1>8. W!Identify \/ W!GetState \/ W!SubscriptionRenewal => Asks \/ Stands
  <2>1. ASSUME W!Identify PROVE Asks
    <3>1. /\ up' = up \o <<Get("info")>> /\ ~AwaitsTrim' /\ link = "open"
          /\ UNCHANGED <<rig, desk, power, pushes, down, link, mind, clean>>
      BY <1>2, <2>1 DEF W!Identify, W!Identifies, W!Idle, W!Send, W!Calling, AwaitsTrim
    <3> QED  BY <1>1, <3>1, Questions DEF Asks
  <2>2. ASSUME W!GetState PROVE Asks
    <3>1. /\ up' = up \o <<Get("gain"), Get("phantom")>> /\ ~AwaitsTrim' /\ link = "open"
          /\ UNCHANGED <<rig, desk, power, pushes, down, link, mind, clean>>
      BY <1>2, <2>2 DEF W!GetState, W!Polls, W!Idle, W!Send, W!Calling, AwaitsTrim
    <3> QED  BY <1>1, <3>1, Questions DEF Asks
  <2>3. ASSUME W!SubscriptionRenewal PROVE Asks \/ Stands
    <3>1. /\ UNCHANGED <<rig, desk, power, pushes, down, link, ears, mind, call, clean>>
          /\ up' = up \o <<Renew>> \/ up' = up
      BY <1>2, <2>3 DEF W!SubscriptionRenewal, W!Beats, W!Send
    <3>2. CASE up' = up \o <<Renew>>  BY <1>1, <3>1, <3>2, Questions DEF Asks
    <3>3. CASE up' = up  BY <3>1, <3>3 DEF Stands
    <3> QED  BY <3>1, <3>2, <3>3
  <2> QED  BY <2>1, <2>2, <2>3
<1>9. W!SetGain => Puts
  <2> SUFFICES ASSUME W!SetGain PROVE Puts
    OBVIOUS
  <2>1. PICK v \in rig.asks : W!WritesGain(v, W!CacheAfterSet(v))
    BY DEF W!SetGain
  <2>2. /\ v \in Int /\ Quantize(GainLaw, v) # 0 /\ Quantize(GainLaw, v) \in Gains
        /\ Quantize(GainLaw, v) = v
    BY <1>1, Gained, RigAssumption DEF RigAssumption, Types
  <2>3. \/ cache' = cache /\ cache = None
        \/ cache' = [cache EXCEPT !.gain = v] /\ cache \in Entries
    BY <1>2, <2>1 DEF W!WritesGain, W!CacheAfterSet, Types
  <2>4. \/ cache' = cache /\ cache = None
        \/ cache' \in Entries /\ cache'.gain = Quantize(GainLaw, v)
    BY <2>2, <2>3 DEF Entries
  <2>5. /\ up' = up \o <<Put("gain", v)>> /\ link = "open" /\ call = None
        /\ clean' = (clean /\ ~Crossed)
        /\ UNCHANGED <<rig, desk, power, pushes, down, loops, trim, told, call>>
    BY <1>2, <2>1 DEF W!SetGain, W!Idle, W!WritesGain, W!Send, W!Crossed, Crossed, W!Quiet, Quiet
  <2> QED  BY <1>1, <2>2, <2>4, <2>5 DEF Puts
<1>10. W!SetPhantom => Switches48V
  BY <1>1, <1>2 DEF W!SetPhantom, W!WritesPhantom, W!Idle, W!Send, Switches48V
<1>11. W!ReceiveLoop => Hears
  <2> SUFFICES ASSUME W!ReceiveLoop PROVE Hears
    OBVIOUS
  <2> DEFINE m == Head(down)
  <2>1. /\ ears /\ down # <<>> /\ down' = Tail(down) /\ (ears' => ears)
        /\ m.k \in {"refused", "info"} => UNCHANGED mind
        /\ m.k \notin {"refused", "info"} => W!HandleMessage(m)
        /\ UNCHANGED <<rig, desk, power, pushes, up, link, beat, call, clean>>
    BY DEF W!ReceiveLoop, W!Receives
  <2> HIDE DEF m
  <2>2. W!Heard(W!Unread, m) = Heard(Unread, m) /\ Unread \in Entries
    BY DEF W!Heard, Heard, W!Unread, Unread, W!Read, Read, Entries
  <2>3. m.k \notin {"refused", "info", "trim"} => Reported(Heard(Unread, m), {m.k})
    <3> SUFFICES ASSUME m.k \notin {"refused", "info", "trim"} PROVE Reported(Heard(Unread, m), {m.k})
      OBVIOUS
    <3>1. W!Reported(Heard(Unread, m), {m.k})  BY <2>1, <2>2 DEF W!HandleMessage, W!OneField
    <3> QED  BY <3>1 DEF W!Reported, Reported, W!Relayed, Relayed
  <2>4. m.k = "trim" => trim' = m.v /\ UNCHANGED <<cache, told>>
    BY <2>1 DEF W!HandleMessage
  <2>5. Unread.gain = None  BY DEF Unread
  <2> QED  BY <1>1, <2>1, <2>2, <2>3, <2>4, <2>5, Listening DEF m
<1>12. W!TrimFound => TrimFound
  BY DEF W!TrimFound, TrimFound, W!AwaitsTrim, AwaitsTrim, W!Quiet, Quiet, W!NudgeApplied, NudgeApplied,
         W!NudgeTarget, NudgeTarget, W!NudgeSteps, NudgeSteps, W!At, At, W!Clamp, Clamp, W!Index, Index,
         W!Send, Send, W!Move, Move
<1>13. W!GetTrim \/ W!NudgeTrim => AsksForTrim
  BY <1>1, <1>2, ValueAssumption DEF ValueAssumption, W!GetTrim, W!NudgeTrim, W!AsksTrim, W!Idle, W!Send,
         W!Quiet, Quiet, AsksForTrim
<1>14. W!SetTrim => PutsTrim
  BY <1>1, <1>2, Grids, ValueAssumption DEF ValueAssumption, W!SetTrim, W!WritesTrim, W!Idle, W!Send, PutsTrim
<1> QED
  BY <1>1, <1>3, <1>4, <1>5, <1>6, <1>7, <1>8, <1>9, <1>10, <1>11, <1>12, <1>13, <1>14
     DEF W!Next, W!Datagrams, Step

\* Each step of the DM3's OSC adapter, which caches replies only.
LEMMA Dm3Steps ==
    ASSUME Types, Is("dm3"), D!Next
    PROVE  Step
<1> USE DEF D!loops, loops, D!mind, mind, D!wire, wire
<1>1. rig.dialect = "dm3" /\ ~Trimmed /\ ~Kept /\ ~Tcp
  BY DEF Is, Trimmed, Kept, Tcp
<1>2. /\ \A k : D!Get(k) = Get(k)
      /\ \A k, v : D!Put(k, v) = Put(k, v)
      /\ \A law, v : D!Quantize(law, v) = Quantize(law, v)
      /\ \A k, v : D!Tell(k, v) = Tell(k, v)
  BY DEF D!Get, Get, D!Put, Put, D!Tell, Tell, D!Quantize, Quantize, D!At, At, D!Clamp, Clamp,
         D!Index, Index
<1>3. D!Turn => Turn
  BY DEF D!Turn, Turn, D!Quiet, Quiet, D!Turned, Turned, D!Grid, Grid, D!At, At, D!Clamp, Clamp,
         D!Push, Push, D!Tell, Tell
<1>4. D!DeskTakes => DeskTakes
  BY DEF D!DeskTakes, DeskTakes, D!Push, Push, D!Tell, Tell, D!Holds, Holds, D!Quantize, Quantize,
         D!At, At, D!Clamp, Clamp, D!Index, Index
<1>5. D!PowerOff \/ D!PowerOn \/ D!IdentifyEnds \/ D!PollEnds \/ D!Disconnect => Stands
  BY DEF D!PowerOff, D!PowerOn, D!IdentifyEnds, D!PollEnds, D!Disconnect, D!Closes, D!Idle, D!Calling, Stands, AwaitsTrim
<1>6. D!Lose => Loses
  BY <1>1 DEF D!Lose, Loses
<1>7. D!Connect => Opening
  BY DEF D!Connect, D!Opens, Opening
<1>8. D!Identify \/ D!GetState => Asks \/ Stands
  <2>1. ASSUME D!Identify PROVE Asks
    <3>1. /\ up' = up \o <<Get("info")>> /\ ~AwaitsTrim' /\ link = "open"
          /\ UNCHANGED <<rig, desk, power, pushes, down, link, mind, clean>>
      BY <1>2, <2>1 DEF D!Identify, D!Identifies, D!Idle, D!Send, D!Calling, AwaitsTrim
    <3> QED  BY <1>1, <3>1, Questions DEF Asks
  <2>2. ASSUME D!GetState PROVE Asks
    <3>1. /\ up' = up \o <<Get("gain"), Get("phantom")>> /\ ~AwaitsTrim' /\ link = "open"
          /\ UNCHANGED <<rig, desk, power, pushes, down, link, mind, clean>>
      BY <1>2, <2>2 DEF D!GetState, D!Polls, D!Idle, D!Send, D!Calling, AwaitsTrim
    <3> QED  BY <1>1, <3>1, Questions DEF Asks
  <2> QED  BY <2>1, <2>2
<1>9. D!SetGain => Puts
  <2> SUFFICES ASSUME D!SetGain PROVE Puts
    OBVIOUS
  <2>1. PICK v \in rig.asks : D!WritesGain(D!Quantize(GainLaw, v), cache)
    BY DEF D!SetGain
  <2> DEFINE g == Quantize(GainLaw, v)
  <2>2. g \in Int /\ Quantize(GainLaw, g) # 0
    BY Gained, Grids
  <2>3. /\ up' = up \o <<Put("gain", g)>> /\ UNCHANGED cache /\ link = "open" /\ call = None
        /\ clean' = (clean /\ ~Crossed)
        /\ UNCHANGED <<rig, desk, power, pushes, down, loops, trim, told, call>>
    BY <1>2, <2>1 DEF D!SetGain, D!Idle, D!WritesGain, D!Send, D!Crossed, Crossed, D!Quiet, Quiet
  <2> HIDE DEF g
  <2> QED  BY <1>1, <2>2, <2>3 DEF Puts
<1>10. D!SetPhantom => Switches48V
  BY <1>1, <1>2 DEF D!SetPhantom, D!WritesPhantom, D!Idle, D!Send, Switches48V
<1>11. D!ReceiveLoop => Hears
  <2> SUFFICES ASSUME D!ReceiveLoop PROVE Hears
    OBVIOUS
  <2> DEFINE m == Head(down)
  <2>1. /\ ears /\ down # <<>> /\ down' = Tail(down) /\ (ears' => ears)
        /\ m.k \in {"refused", "info"} => UNCHANGED mind
        /\ m.k \notin {"refused", "info"} => D!HandleMessage(m)
        /\ UNCHANGED <<rig, desk, power, pushes, up, link, beat, call, clean>>
    BY DEF D!ReceiveLoop, D!Receives
  <2> HIDE DEF m
  <2>2. D!Heard(D!BlankEntry, m) = Heard(Unread, m) /\ Unread \in Entries
    BY DEF D!Heard, Heard, D!BlankEntry, D!Unread, Unread, D!Read, Read, Entries
  <2>3. m.k \notin {"refused", "info", "trim"} => Reported(Heard(Unread, m), {m.k})
    <3> SUFFICES ASSUME m.k \notin {"refused", "info", "trim"} PROVE Reported(Heard(Unread, m), {m.k})
      OBVIOUS
    <3>1. D!Reported(Heard(Unread, m), {m.k})  BY <2>1, <2>2 DEF D!HandleMessage
    <3> QED  BY <3>1 DEF D!Reported, Reported, D!Relayed, Relayed
  <2>4. Unread.gain = None  BY DEF Unread
  <2> QED  BY <1>1, <2>1, <2>2, <2>3, <2>4, Listening DEF m
<1> QED
  BY <1>1, <1>3, <1>4, <1>5, <1>6, <1>7, <1>8, <1>9, <1>10, <1>11
     DEF D!Next, D!Datagrams, Step

\* Each step of the DM3's SCP adapter, whose callers read the stream too.
LEMMA Dm3ScpSteps ==
    ASSUME Types, Is("scp"), S!Next
    PROVE  Step
<1> USE DEF S!loops, loops, S!mind, mind, S!wire, wire
<1>1. rig.dialect = "scp" /\ ~Trimmed /\ ~Kept /\ Tcp
  BY DEF Is, Trimmed, Kept, Tcp
<1>2. /\ \A k : S!Get(k) = Get(k)
      /\ \A k, v : S!Put(k, v) = Put(k, v)
      /\ \A law, v : S!Quantize(law, v) = Quantize(law, v)
      /\ \A k, v : S!Tell(k, v) = Tell(k, v)
  BY DEF S!Get, Get, S!Put, Put, S!Tell, Tell, S!Quantize, Quantize, S!At, At, S!Clamp, Clamp,
         S!Index, Index
<1>3. S!Turn => Turn
  BY DEF S!Turn, Turn, S!Quiet, Quiet, S!Turned, Turned, S!Grid, Grid, S!At, At, S!Clamp, Clamp,
         S!Push, Push, S!Tell, Tell
<1>4. S!DeskTakes => DeskTakes
  BY DEF S!DeskTakes, DeskTakes, S!Push, Push, S!Tell, Tell, S!Holds, Holds, S!Quantize, Quantize,
         S!At, At, S!Clamp, Clamp, S!Index, Index
<1>5. S!PowerOff \/ S!PowerOn \/ S!IdentifyEnds \/ S!PollEnds \/ S!Disconnect => Stands
  BY DEF S!PowerOff, S!PowerOn, S!IdentifyEnds, S!PollEnds, S!Disconnect, S!Closes, S!Idle, S!Calling, Stands, AwaitsTrim
<1>6. S!HangUp => HangUp
  BY DEF S!HangUp, HangUp, S!Quiet, Quiet, S!Push, Push, S!Tell, Tell
<1>7. S!Connect => Opening
  BY DEF S!Connect, S!Opens, Opening
<1>8. S!Identify \/ S!GetState \/ S!Heartbeat => Asks \/ Stands
  <2>1. ASSUME S!Identify PROVE Asks
    <3>1. /\ up' = up \o <<Get("info")>> /\ ~AwaitsTrim' /\ link = "open"
          /\ UNCHANGED <<rig, desk, power, pushes, down, link, mind, clean>>
      BY <1>2, <2>1 DEF S!Identify, S!Identifies, S!Idle, S!Send, S!Calling, AwaitsTrim
    <3> QED  BY <1>1, <3>1, Questions DEF Asks
  <2>2. ASSUME S!GetState PROVE Asks
    <3>1. /\ up' = up \o <<Get("gain"), Get("phantom")>> /\ ~AwaitsTrim' /\ link = "open"
          /\ UNCHANGED <<rig, desk, power, pushes, down, link, mind, clean>>
      BY <1>2, <2>2 DEF S!GetState, S!Polls, S!Idle, S!Send, S!Calling, AwaitsTrim
    <3> QED  BY <1>1, <3>1, Questions DEF Asks
  <2>3. S!Heartbeat => Stands
    <3>1. up \o <<>> = up  BY DEF Types
    <3> QED  BY <3>1 DEF S!Heartbeat, S!Beats, S!Send, Stands
  <2> QED  BY <2>1, <2>2, <2>3
<1>9. S!SetGain => Puts
  <2> SUFFICES ASSUME S!SetGain PROVE Puts
    OBVIOUS
  <2>1. PICK v \in rig.asks : S!WritesGain(S!Quantize(GainLaw, v), cache)
    BY DEF S!SetGain
  <2> DEFINE g == Quantize(GainLaw, v)
  <2>2. g \in Int /\ Quantize(GainLaw, g) # 0
    BY Gained, Grids
  <2>3. /\ up' = up \o <<Put("gain", g)>> /\ UNCHANGED cache /\ link = "open" /\ call = None
        /\ clean' = (clean /\ ~Crossed)
        /\ UNCHANGED <<rig, desk, power, pushes, down, loops, trim, told, call>>
    BY <1>2, <2>1 DEF S!SetGain, S!Idle, S!WritesGain, S!Send, S!Crossed, Crossed, S!Quiet, Quiet
  <2> HIDE DEF g
  <2> QED  BY <1>1, <2>2, <2>3 DEF Puts
<1>10. S!SetPhantom => Switches48V
  BY <1>1, <1>2 DEF S!SetPhantom, S!WritesPhantom, S!Idle, S!Send, Switches48V
<1>11. S!ReceiveLoop => Hears
  <2> SUFFICES ASSUME S!ReceiveLoop PROVE Hears
    OBVIOUS
  <2> DEFINE m == Head(down)
  <2>1. /\ ears /\ down # <<>> /\ down' = Tail(down) /\ (ears' => ears)
        /\ m.k \in {"refused", "info"} => UNCHANGED mind
        /\ m.k \notin {"refused", "info"} => S!HandleLine(m)
        /\ UNCHANGED <<rig, desk, power, pushes, up, link, beat, call, clean>>
    BY DEF S!ReceiveLoop, S!Receives
  <2> HIDE DEF m
  <2>2. S!Heard(S!FirstEntry, m) = Heard(S!FirstEntry, m) /\ S!FirstEntry \in Entries
    BY DEF S!Heard, Heard, S!FirstEntry, S!Read, Read, Entries
  <2>3. m.k \notin {"refused", "info", "trim"} => Reported(Heard(S!FirstEntry, m), {m.k})
    <3> SUFFICES ASSUME m.k \notin {"refused", "info", "trim"} PROVE Reported(Heard(S!FirstEntry, m), {m.k})
      OBVIOUS
    <3>1. S!Reported(Heard(S!FirstEntry, m), {m.k})  BY <2>1, <2>2 DEF S!HandleLine
    <3> QED  BY <3>1 DEF S!Reported, Reported, S!Relayed, Relayed
  <2>4. S!FirstEntry.gain = 0  BY DEF S!FirstEntry
  <2> QED  BY <1>1, <2>1, <2>2, <2>3, <2>4, Listening DEF m
<1> QED
  BY <1>1, <1>3, <1>4, <1>5, <1>6, <1>7, <1>8, <1>9, <1>10, <1>11
     DEF S!Next, S!Session, Step

\* Each step of the AHM adapter, MIDI over a TCP session.
LEMMA AhmSteps ==
    ASSUME Types, Is("ahm"), A!Next
    PROVE  Step
<1> USE DEF A!loops, loops, A!mind, mind, A!wire, wire
<1>1. rig.dialect = "ahm" /\ ~Trimmed /\ ~Kept /\ Tcp
  BY DEF Is, Trimmed, Kept, Tcp
<1>2. /\ \A k : A!Get(k) = Get(k)
      /\ \A k, v : A!Put(k, v) = Put(k, v)
      /\ \A law, v : A!Quantize(law, v) = Quantize(law, v)
      /\ \A k, v : A!Tell(k, v) = Tell(k, v)
  BY DEF A!Get, Get, A!Put, Put, A!Tell, Tell, A!Quantize, Quantize, A!At, At, A!Clamp, Clamp,
         A!Index, Index
<1>3. A!Turn => Turn
  BY DEF A!Turn, Turn, A!Quiet, Quiet, A!Turned, Turned, A!Grid, Grid, A!At, At, A!Clamp, Clamp,
         A!Push, Push, A!Tell, Tell
<1>4. A!DeskTakes => DeskTakes
  BY DEF A!DeskTakes, DeskTakes, A!Push, Push, A!Tell, Tell, A!Holds, Holds, A!Quantize, Quantize,
         A!At, At, A!Clamp, Clamp, A!Index, Index
<1>5. A!PowerOff \/ A!PowerOn \/ A!IdentifyEnds \/ A!PollEnds \/ A!Disconnect => Stands
  BY DEF A!PowerOff, A!PowerOn, A!IdentifyEnds, A!PollEnds, A!Disconnect, A!Closes, A!Idle, A!Calling, Stands, AwaitsTrim
<1>6. A!HangUp => HangUp
  BY DEF A!HangUp, HangUp, A!Quiet, Quiet, A!Push, Push, A!Tell, Tell
<1>7. A!Connect => Opening
  BY DEF A!Connect, A!Opens, Opening
<1>8. A!Identify \/ A!GetState => Asks \/ Stands
  <2>1. ASSUME A!Identify PROVE Asks
    <3>1. /\ up' = up \o <<Get("info")>> /\ ~AwaitsTrim' /\ link = "open"
          /\ UNCHANGED <<rig, desk, power, pushes, down, link, mind, clean>>
      BY <1>2, <2>1 DEF A!Identify, A!Identifies, A!Idle, A!Send, A!Calling, AwaitsTrim
    <3> QED  BY <1>1, <3>1, Questions DEF Asks
  <2>2. ASSUME A!GetState PROVE Asks
    <3>1. /\ up' = up \o <<Get("gain"), Get("phantom")>> /\ ~AwaitsTrim' /\ link = "open"
          /\ UNCHANGED <<rig, desk, power, pushes, down, link, mind, clean>>
      BY <1>2, <2>2 DEF A!GetState, A!Polls, A!Idle, A!Send, A!Calling, AwaitsTrim
    <3> QED  BY <1>1, <3>1, Questions DEF Asks
  <2> QED  BY <2>1, <2>2
<1>9. A!SetGain => Puts
  <2> SUFFICES ASSUME A!SetGain PROVE Puts
    OBVIOUS
  <2>1. PICK v \in rig.asks : A!WritesGain(A!Quantize(GainLaw, v), cache)
    BY DEF A!SetGain
  <2> DEFINE g == Quantize(GainLaw, v)
  <2>2. g \in Int /\ Quantize(GainLaw, g) # 0
    BY Gained, Grids
  <2>3. /\ up' = up \o <<Put("gain", g)>> /\ UNCHANGED cache /\ link = "open" /\ call = None
        /\ clean' = (clean /\ ~Crossed)
        /\ UNCHANGED <<rig, desk, power, pushes, down, loops, trim, told, call>>
    BY <1>2, <2>1 DEF A!SetGain, A!Idle, A!WritesGain, A!Send, A!Crossed, Crossed, A!Quiet, Quiet
  <2> HIDE DEF g
  <2> QED  BY <1>1, <2>2, <2>3 DEF Puts
<1>10. A!SetPhantom => Switches48V
  BY <1>1, <1>2 DEF A!SetPhantom, A!WritesPhantom, A!Idle, A!Send, Switches48V
<1>11. A!ReceiveLoop => Hears
  <2> SUFFICES ASSUME A!ReceiveLoop PROVE Hears
    OBVIOUS
  <2> DEFINE m == Head(down)
  <2>1. /\ ears /\ down # <<>> /\ down' = Tail(down) /\ (ears' => ears)
        /\ m.k \in {"refused", "info"} => UNCHANGED mind
        /\ m.k \notin {"refused", "info"} => A!Handle(m)
        /\ UNCHANGED <<rig, desk, power, pushes, up, link, beat, call, clean>>
    BY DEF A!ReceiveLoop, A!Receives
  <2> HIDE DEF m
  <2>2. A!Heard(A!BlankEntry, m) = Heard(Unread, m) /\ Unread \in Entries
    BY DEF A!Heard, Heard, A!BlankEntry, A!Unread, Unread, A!Read, Read, Entries
  <2>3. m.k \notin {"refused", "info", "trim"} => Reported(Heard(Unread, m), {m.k})
    <3> SUFFICES ASSUME m.k \notin {"refused", "info", "trim"} PROVE Reported(Heard(Unread, m), {m.k})
      OBVIOUS
    <3>1. A!Reported(Heard(Unread, m), {m.k})  BY <2>1, <2>2 DEF A!Handle
    <3> QED  BY <3>1 DEF A!Reported, Reported, A!Relayed, Relayed
  <2>4. Unread.gain = None  BY DEF Unread
  <2> QED  BY <1>1, <2>1, <2>2, <2>3, <2>4, Listening DEF m
<1> QED
  BY <1>1, <1>3, <1>4, <1>5, <1>6, <1>7, <1>8, <1>9, <1>10, <1>11
     DEF A!Next, A!Session, Step

\* Each step of the dLive adapter, NRPNs over a TCP session.
LEMMA DliveSteps ==
    ASSUME Types, Is("dlive"), L!Next
    PROVE  Step
<1> USE DEF L!loops, loops, L!mind, mind, L!wire, wire
<1>1. rig.dialect = "dlive" /\ ~Trimmed /\ ~Kept /\ Tcp
  BY DEF Is, Trimmed, Kept, Tcp
<1>2. /\ \A k : L!Get(k) = Get(k)
      /\ \A k, v : L!Put(k, v) = Put(k, v)
      /\ \A law, v : L!Quantize(law, v) = Quantize(law, v)
      /\ \A k, v : L!Tell(k, v) = Tell(k, v)
  BY DEF L!Get, Get, L!Put, Put, L!Tell, Tell, L!Quantize, Quantize, L!At, At, L!Clamp, Clamp,
         L!Index, Index
<1>3. L!Turn => Turn
  BY DEF L!Turn, Turn, L!Quiet, Quiet, L!Turned, Turned, L!Grid, Grid, L!At, At, L!Clamp, Clamp,
         L!Push, Push, L!Tell, Tell
<1>4. L!DeskTakes => DeskTakes
  BY DEF L!DeskTakes, DeskTakes, L!Push, Push, L!Tell, Tell, L!Holds, Holds, L!Quantize, Quantize,
         L!At, At, L!Clamp, Clamp, L!Index, Index
<1>5. L!PowerOff \/ L!PowerOn \/ L!IdentifyEnds \/ L!PollEnds \/ L!Disconnect => Stands
  BY DEF L!PowerOff, L!PowerOn, L!IdentifyEnds, L!PollEnds, L!Disconnect, L!Closes, L!Idle, L!Calling, Stands, AwaitsTrim
<1>6. L!HangUp => HangUp
  BY DEF L!HangUp, HangUp, L!Quiet, Quiet, L!Push, Push, L!Tell, Tell
<1>7. L!Connect => Opening
  BY DEF L!Connect, L!Opens, Opening
<1>8. L!Identify \/ L!GetState => Asks \/ Stands
  <2>1. ASSUME L!Identify PROVE Asks
    <3>1. /\ up' = up \o <<Get("info")>> /\ ~AwaitsTrim' /\ link = "open"
          /\ UNCHANGED <<rig, desk, power, pushes, down, link, mind, clean>>
      BY <1>2, <2>1 DEF L!Identify, L!Identifies, L!Idle, L!Send, L!Calling, AwaitsTrim
    <3> QED  BY <1>1, <3>1, Questions DEF Asks
  <2>2. ASSUME L!GetState PROVE Asks
    <3>1. /\ up' = up \o <<Get("phantom"), Get("pad"), Get("gain")>> /\ ~AwaitsTrim' /\ link = "open"
          /\ UNCHANGED <<rig, desk, power, pushes, down, link, mind, clean>>
      BY <1>2, <2>2 DEF L!GetState, L!Polls, L!Idle, L!Send, L!Calling, AwaitsTrim
    <3> QED  BY <1>1, <3>1, Questions DEF Asks
  <2> QED  BY <2>1, <2>2
<1>9. L!SetGain => Puts
  <2> SUFFICES ASSUME L!SetGain PROVE Puts
    OBVIOUS
  <2>1. PICK v \in rig.asks : L!WritesGain(L!Quantize(GainLaw, v), cache)
    BY DEF L!SetGain
  <2> DEFINE g == Quantize(GainLaw, v)
  <2>2. g \in Int /\ Quantize(GainLaw, g) # 0
    BY Gained, Grids
  <2>3. /\ up' = up \o <<Put("gain", g)>> /\ UNCHANGED cache /\ link = "open" /\ call = None
        /\ clean' = (clean /\ ~Crossed)
        /\ UNCHANGED <<rig, desk, power, pushes, down, loops, trim, told, call>>
    BY <1>2, <2>1 DEF L!SetGain, L!Idle, L!WritesGain, L!Send, L!Crossed, Crossed, L!Quiet, Quiet
  <2> HIDE DEF g
  <2> QED  BY <1>1, <2>2, <2>3 DEF Puts
<1>10. L!SetPhantom => Switches48V
  BY <1>1, <1>2 DEF L!SetPhantom, L!WritesPhantom, L!Idle, L!Send, Switches48V
<1>11. L!ReceiveLoop => Hears
  <2> SUFFICES ASSUME L!ReceiveLoop PROVE Hears
    OBVIOUS
  <2> DEFINE m == Head(down)
  <2>1. /\ ears /\ down # <<>> /\ down' = Tail(down) /\ (ears' => ears)
        /\ m.k \in {"refused", "info"} => UNCHANGED mind
        /\ m.k \notin {"refused", "info"} => L!HandleMessage(m)
        /\ UNCHANGED <<rig, desk, power, pushes, up, link, beat, call, clean>>
    BY DEF L!ReceiveLoop, L!Receives
  <2> HIDE DEF m
  <2>2. L!Heard(L!Unread, m) = Heard(Unread, m) /\ Unread \in Entries
    BY DEF L!Heard, Heard, L!Unread, Unread, L!Read, Read, Entries
  <2>3. m.k \notin {"refused", "info", "trim"} => Reported(Heard(Unread, m), {m.k})
    <3> SUFFICES ASSUME m.k \notin {"refused", "info", "trim"} PROVE Reported(Heard(Unread, m), {m.k})
      OBVIOUS
    <3>1. L!Reported(Heard(Unread, m), {m.k})  BY <2>1, <2>2 DEF L!HandleMessage, L!OneField
    <3> QED  BY <3>1 DEF L!Reported, Reported, L!Relayed, Relayed
  <2>4. Unread.gain = None  BY DEF Unread
  <2> QED  BY <1>1, <2>1, <2>2, <2>3, <2>4, Listening DEF m
<1> QED
  BY <1>1, <1>3, <1>4, <1>5, <1>6, <1>7, <1>8, <1>9, <1>10, <1>11
     DEF L!Next, L!Session, Step

\* Each step of the EW-G3 adapter, whose receiver may ignore a write.
LEMMA Ewg3Steps ==
    ASSUME Types, Is("ewg3"), E!Next
    PROVE  Step
<1> USE DEF E!loops, loops, E!mind, mind, E!wire, wire
<1>1. rig.dialect = "ewg3" /\ ~Trimmed /\ Kept /\ ~Tcp
  BY DEF Is, Trimmed, Kept, Tcp
<1>2. /\ \A k : E!Get(k) = Get(k)
      /\ \A k, v : E!Put(k, v) = Put(k, v)
      /\ \A law, v : E!Quantize(law, v) = Quantize(law, v)
      /\ E!Renew = Renew
  BY DEF E!Get, Get, E!Put, Put, E!Quantize, Quantize, E!At, At, E!Clamp, Clamp, E!Index, Index, E!Renew, Renew
<1>3. E!Turn => Turn
  BY DEF E!Turn, Turn, E!Quiet, Quiet, E!Turned, Turned, E!Grid, Grid, E!At, At, E!Clamp, Clamp,
         E!Push, Push, E!Tell, Tell
<1>4. E!ReceiverTakes => DeskTakes \/ Loses
  <2>1. E!DeskTakes => DeskTakes
    BY DEF E!DeskTakes, DeskTakes, E!Push, Push, E!Tell, Tell, E!Holds, Holds, E!Quantize, Quantize,
           E!At, At, E!Clamp, Clamp, E!Index, Index
  <2> QED  BY <1>1, <2>1 DEF E!ReceiverTakes, Loses
<1>5. E!PowerOff \/ E!PowerOn \/ E!PollEnds \/ E!Disconnect \/ E!Lapse => Stands
  BY DEF E!PowerOff, E!PowerOn, E!PollEnds, E!Disconnect, E!Closes, E!Idle, E!Calling, E!Lapse, Stands, AwaitsTrim
<1>6. E!Lose => Loses
  BY <1>1 DEF E!Lose, Loses
<1>7. ASSUME E!Connect PROVE Asks
  <2>1. /\ up' = up \o <<Renew, Get("gain")>> /\ UNCHANGED <<rig, desk, power, pushes, down, mind, call, clean>>
    BY <1>2, <1>7 DEF E!Connect, E!Send
  <2> QED  BY <1>1, <2>1, Questions DEF Asks
<1>8. ASSUME E!Identify PROVE Asks
  <2>1. up' = up \o <<Get("gain")>> /\ UNCHANGED <<rig, desk, power, pushes, down, mind, call, clean>>
    BY <1>2, <1>8 DEF E!Identify, E!Send
  <2> QED  BY <1>1, <2>1, Questions DEF Asks
<1>9. ASSUME E!GetState PROVE Asks
  <2>1. /\ up' = up \o <<Get("gain")>> /\ ~AwaitsTrim'
        /\ UNCHANGED <<rig, desk, power, pushes, down, mind, clean>>
    BY <1>2, <1>9 DEF E!GetState, E!Polls, E!Send, E!Calling, AwaitsTrim
  <2> QED  BY <1>1, <2>1, Questions DEF Asks
<1>10. ASSUME E!Keepalive PROVE Asks \/ Stands
  <2>1. /\ UNCHANGED <<rig, desk, power, pushes, down, link, ears, mind, call, clean>>
        /\ up' = up \o <<Renew>> \/ up' = up
    BY <1>2, <1>10 DEF E!Keepalive, E!Beats, E!Send
  <2>2. CASE up' = up \o <<Renew>>  BY <1>1, <2>1, <2>2, Questions DEF Asks
  <2>3. CASE up' = up  BY <2>1, <2>3 DEF Stands
  <2> QED  BY <2>1, <2>2, <2>3
<1>11. ASSUME E!SetGain PROVE Puts
  <2>1. PICK v \in rig.asks : E!WritesGain(E!Quantize(GainLaw, v), E!Cached(v))
    BY <1>11 DEF E!SetGain
  <2> DEFINE g == Quantize(GainLaw, v)
  <2>2. g \in Int /\ g \in Gains /\ Quantize(GainLaw, g) = g /\ g # 0
    BY Gained, Grids
  <2>3. E!Cached(v) = [gain |-> g, phantom |-> FALSE, pad |-> None]
    BY <1>2 DEF E!Cached
  <2>4. /\ up' = up \o <<Put("gain", g)>> /\ cache' = [gain |-> g, phantom |-> FALSE, pad |-> None]
        /\ link = "open" /\ call = None /\ clean' = (clean /\ ~Crossed)
        /\ UNCHANGED <<rig, desk, power, pushes, down, loops, trim, told, call>>
    BY <1>2, <1>11, <2>1, <2>3 DEF E!SetGain, E!Idle, E!WritesGain, E!Send, E!Crossed, Crossed, E!Quiet, Quiet
  <2> HIDE DEF g
  <2>5. cache' \in Entries /\ cache'.gain = Quantize(GainLaw, g)  BY <2>2, <2>4 DEF Entries
  <2> QED  BY <1>1, <2>2, <2>4, <2>5 DEF Puts
<1>12. ASSUME E!ReceiveLoop PROVE Hears
  <2> DEFINE m == Head(down)
             entry == [gain |-> m.v, phantom |-> FALSE, pad |-> None]
  <2>1. /\ ears /\ down # <<>> /\ down' = Tail(down) /\ (ears' => ears)
        /\ m.k = "refused" => UNCHANGED mind
        /\ m.k \notin {"refused", "info"} => E!HandleConfig(m)
        /\ UNCHANGED <<rig, desk, power, pushes, up, link, beat, call, clean>>
    BY <1>12 DEF E!ReceiveLoop, E!Receives
  <2>2. m \in Reports  BY <2>1, Taken DEF Types
  <2>3. m.k = "refused" \/ (m.k = "gain" /\ m.v \in Gains)
    BY <1>1, <2>2 DEF Reports, Switched, Ridden, Infos
  <2> HIDE DEF m
  <2>4. CASE m.k = "refused"
    BY <2>1, <2>4 DEF Hears, m
  <2>5. CASE m.k = "gain"
    <3>1. E!Reported(entry, {"gain"}) \/ E!Reported(entry, {})
      BY <2>1, <2>5 DEF E!HandleConfig, E!Level
    <3>2. cache' = entry /\ UNCHANGED trim
      BY <3>1 DEF E!Reported
    <3>3. told' = [f \in DOMAIN told |-> IF f \in {"gain"} THEN entry[f] ELSE told[f]]
          \/ told' = [f \in DOMAIN told |-> told[f]]
      BY <3>1 DEF E!Reported, E!Relayed
    <3>4. told' \in {told, [told EXCEPT !.gain = m.v]}
      BY <3>3 DEF Types
    <3>5. cache' \in Entries /\ cache'.gain = m.v
      BY <2>3, <2>5, <3>2 DEF Entries
    <3> QED  BY <1>1, <2>1, <2>5, <3>2, <3>4, <3>5 DEF Hears, m
  <2> QED  BY <2>3, <2>4, <2>5
<1> QED
  BY <1>3, <1>4, <1>5, <1>6, <1>7, <1>8, <1>9, <1>10, <1>11, <1>12 DEF E!Next, Step

\* Every handler of the seven adapters takes one of the kinds of step.
LEMMA AdaptersStep ==
    ASSUME Types, Next
    PROVE  Step
  BY X32Steps, WingSteps, Dm3Steps, Dm3ScpSteps, AhmSteps, DliveSteps, Ewg3Steps DEF Next

----------------------------------------------------------------------------
(* The theorems *)

\* The inductive invariant.
ConsoleInv == Types /\ Rides /\ Follows /\ Settled

\* A desk nobody talks to yet, and an adapter that knows nothing.
LEMMA ConsoleInit == Init => ConsoleInv
<1> SUFFICES ASSUME Init PROVE ConsoleInv
  OBVIOUS
<1>1. up = <<>> /\ down = <<>> /\ Len(<<>>) = 0 /\ 1..0 = {}  BY DEF Init
<1>2. Types
  <2>1. TrimLaw.min + TrimLaw.step \in Grid(TrimLaw)
    <3>1. IsLaw(TrimLaw)  BY ValueAssumption DEF ValueAssumption
    <3>2. Points(TrimLaw) \in Nat /\ TrimLaw.max = TrimLaw.min + Points(TrimLaw) * TrimLaw.step
      BY <3>1, TopIsOnGrid
    <3>3. Points(TrimLaw) # 0  BY <3>1, <3>2 DEF IsLaw
    <3>4. 1 \in 0..Points(TrimLaw)  BY <3>2, <3>3
    <3>5. At(TrimLaw, 1) = TrimLaw.min + TrimLaw.step
      <4>1. At(TrimLaw, 1) = TrimLaw.min + 1 * TrimLaw.step  BY <3>1, <3>4, InRange
      <4> QED  BY <3>1, <4>1 DEF IsLaw
    <3> QED  BY <3>4, <3>5 DEF Grid, Points
  <2>2. rig \in Rigs /\ rig.dialect \in Dialects  BY RigAssumption DEF RigAssumption, Init, Dialects
  <2>3. up \in Seq(Requests) /\ down \in Seq(Reports)  BY <1>1
  <2> QED  BY <2>1, <2>2, <2>3 DEF Init, Types, Gains
<1>3. Rides  BY <1>1 DEF Init, Rides, AwaitsTrim
<1>4. Follows  BY <1>1 DEF Init, Follows, Free
<1>5. Settled  BY <1>1 DEF Init, Settled, News, Ends, Free, NoPut, Known
<1> QED  BY <1>2, <1>3, <1>4, <1>5 DEF ConsoleInv

\* No handler of any adapter, and nothing desk or network do, breaks the invariant.
LEMMA ConsoleStep == ConsoleInv /\ [Next]_vars => ConsoleInv'
<1> SUFFICES ASSUME ConsoleInv, [Next]_vars PROVE ConsoleInv'
  OBVIOUS
<1>1. CASE Next
  <2>1. Step  BY <1>1, AdaptersStep DEF ConsoleInv
  <2>2. Types'  BY <2>1, TypesKept DEF ConsoleInv
  <2>3. Rides'  BY <2>1, <2>2, RidesKept DEF ConsoleInv
  <2>4. Follows'  BY <2>1, <2>2, FollowsKept DEF ConsoleInv
  <2>5. Settled'  BY <2>1, <2>2, SettledKept DEF ConsoleInv
  <2> QED  BY <2>2, <2>3, <2>4, <2>5 DEF ConsoleInv
<1>2. CASE UNCHANGED vars
  <2> USE <1>2 DEF vars, wire, loops, mind
  <2>1. Types'  BY DEF ConsoleInv, Types, Requests, Gets, GainPuts, SwitchPuts, TrimPuts, Renewals, Reports,
                         Switched, Ridden, Infos, Trimmed, Kept
  <2>2. Rides'  BY DEF ConsoleInv, Rides, AwaitsTrim
  <2>3. Follows'  BY DEF ConsoleInv, Follows, Tcp, Free, Ends
  <2>4. Settled'  BY DEF ConsoleInv, Settled, Kept, News, Free, Ends, NoPut, Known, IsPut
  <2> QED  BY <2>1, <2>2, <2>3, <2>4 DEF ConsoleInv
<1> QED  BY <1>1, <1>2

\* The inductive invariant of all seven adapters holds throughout.
THEOREM ConsolesAlways == Spec => []ConsoleInv
  BY ConsoleInit, ConsoleStep, PTL DEF Spec

\* A peer is never told a gain, a 48V or a pad that no desk was at: the event a
\* handler sends names only the fields of the report it read.
THEOREM NothingIsInvented == Spec => []NothingInvented
<1>1. ConsoleInv => NothingInvented  BY DEF ConsoleInv, Types, NothingInvented, Gains
<1> QED  BY <1>1, ConsolesAlways, PTL

\* What get_gain and its like answer from a cache entry was read from the desk
\* or written to it: an entry made for another field is not read as 0 dB (but for the SCP
\* adapter, whose entries are made with 0).
THEOREM ReadsAreSound == Spec => []Reads
<1>1. ConsoleInv => Reads  BY DEF ConsoleInv, Types, Reads, ReadsAreReadings, Known, Is, Gains, Entries
<1> QED  BY <1>1, ConsolesAlways, PTL

\* A nudge sets the trim off where the desk's trim is when it takes it: the
\* adapters read the trim first and never reckon from a cached one.
THEOREM NudgesAreRelative == Spec => []NudgeIsRelative
<1>1. ConsoleInv => NudgeIsRelative
  <2> SUFFICES ASSUME ConsoleInv, up # <<>> PROVE NudgeIsRelative
    BY DEF NudgeIsRelative
  <2>1. Head(up) = up[1] /\ 1 \in 1..Len(up)  BY Taken DEF ConsoleInv, Types
  <2> QED  BY <2>1 DEF ConsoleInv, Rides, NudgeIsRelative
<1> QED  BY <1>1, ConsolesAlways, PTL

\* Over TCP, with nothing about the gain under way, the peer was told the gain
\* the desk has, whoever turned it and whoever's reply the report was.
THEOREM PeersFollow == Spec => []PeersSettle
<1>1. ConsoleInv => PeersSettle
  BY QuietIsFree DEF ConsoleInv, Follows, PeersSettle, PeerSettles, Tcp
<1> QED  BY <1>1, ConsolesAlways, PTL

\* With nothing about the gain under way, nothing lost and no write crossed by
\* a report, an adapter that caches its writes answers the gain the desk has.
THEOREM CachesSettle == Spec => []Settles
<1>1. ConsoleInv => Settles
  <2> SUFFICES ASSUME ConsoleInv, Kept, clean, Quiet("gain"), Known(cache) PROVE cache.gain = desk.gain
    BY DEF Settles, CacheSettles, Kept
  <2>1. Free(up, "gain") /\ Free(down, "gain")  BY QuietIsFree DEF ConsoleInv
  <2>2. NoPut(up)  BY <2>1 DEF NoPut, IsPut, Free
  <2> QED  BY <2>1, <2>2 DEF ConsoleInv, Settled, News
<1> QED  BY <1>1, ConsolesAlways, PTL
=============================================================================
