--------------------------------- MODULE Mbc ---------------------------------
(***************************************************************************)
(* MbcAdapter (crates/preamp-adapter-yamaha/src/mbc/mod.rs): head amps over *)
(* multicast.  A write carries the gains, or the 48 V switches, of every   *)
(* channel, made from the array last heard; all who joined the group hear  *)
(* what anybody says there, the adapter its own writes among it.           *)
(***************************************************************************)
EXTENDS Integers, Sequences, SequenceTheorems, TLAPS

CONSTANTS None, Channels,
          Gains,      \* the gains anybody sets
          AirCap,     \* bound: blocks on their way in each direction
          Rebroadcasts  \* whether the device may repeat what it was told

Kinds == {"gain", "phantom"}

VARIABLES amps,     \* external: what the head amps hold, by kind and channel
          toAmps,   \* blocks on their way to the device
          toUs,     \* blocks on their way to the adapter
          joined,   \* the receive loop runs
          open,     \* the caller has not disconnected
          heard,    \* HeadampState: the array last heard of each kind, or None
          told,     \* what the events told a mapped peer of each channel
          intact    \* ghost: nothing lost, no write crossed a change
vars == <<amps, toAmps, toUs, joined, open, heard, told, intact>>

\* by: the channel a write is for, None in what the device says.
Block(kind, array, by) == [kind |-> kind, array |-> array, by |-> by]
Still == toAmps = <<>> /\ toUs = <<>>
Values(kind) == IF kind = "gain" THEN Gains ELSE {TRUE}

Init ==
    /\ amps \in [gain : [Channels -> Gains], phantom : {[c \in Channels |-> TRUE]}]
    /\ toAmps = <<>> /\ toUs = <<>>
    /\ joined = FALSE /\ open = TRUE
    /\ heard = [k \in Kinds |-> None]
    /\ told = [c \in Channels |-> [gain |-> None, phantom |-> None]]
    /\ intact = TRUE

-----------------------------------------------------------------------------
\* External: somebody turns a channel, and the device says all of the kind.
Turn ==
    /\ toAmps = <<>>
    /\ \E c \in Channels : \E v \in Gains \ {amps.gain[c]} :
          amps' = [amps EXCEPT !.gain[c] = v]
    /\ IF Len(toUs) < AirCap
       THEN toUs' = Append(toUs, Block("gain", amps'.gain, None)) /\ UNCHANGED intact
       ELSE intact' = FALSE /\ UNCHANGED toUs
    /\ UNCHANGED <<toAmps, joined, open, heard, told>>

\* External: the device says all of a kind, as on a resync.
Broadcast ==
    /\ Len(toUs) < AirCap
    /\ \E k \in Kinds : toUs' = Append(toUs, Block(k, amps[k], None))
    /\ intact' = (intact /\ toAmps = <<>>)
    /\ UNCHANGED <<amps, toAmps, joined, open, heard, told>>

\* External: the device takes a write, the whole array of it.
AmpsTake ==
    /\ toAmps # <<>> /\ toAmps' = Tail(toAmps)
    /\ LET b == Head(toAmps) IN
       /\ amps' = [amps EXCEPT ![b.kind] = b.array]
       /\ \E repeats \in Rebroadcasts :
             IF repeats /\ Len(toUs) < AirCap
             THEN toUs' = Append(toUs, Block(b.kind, b.array, None)) ELSE UNCHANGED toUs
    /\ UNCHANGED <<joined, open, heard, told, intact>>

Lose ==
    /\ \/ toAmps # <<>> /\ toAmps' = Tail(toAmps) /\ UNCHANGED toUs
       \/ toUs # <<>> /\ toUs' = Tail(toUs) /\ UNCHANGED toAmps
    /\ intact' = FALSE
    /\ UNCHANGED <<amps, joined, open, heard, told>>

-----------------------------------------------------------------------------
Connect == /\ open /\ ~joined /\ joined' = TRUE
           /\ UNCHANGED <<amps, toAmps, toUs, open, heard, told, intact>>

\* The loop is cancelled and the socket dropped.
Disconnect == /\ joined /\ joined' = FALSE /\ open' = FALSE
              /\ UNCHANGED <<amps, toAmps, toUs, heard, told, intact>>

\* Mutant: with no array heard, one with the value for every channel is made up.
ArrayOrMadeUp(kind, v) == IF heard[kind] = None THEN [c \in Channels |-> v] ELSE heard[kind]
\* require_gains, require_phantom: no array to start from, no write.
ArrayHeard(kind, v) == heard[kind]

\* set_gain, set_phantom: the array last heard with one channel changed.
\* heard is left alone until the block comes back from the group.
Write ==
    /\ joined
    /\ \E kind \in Kinds : \E c \in Channels, v \in Values(kind) :
          LET array == ArrayHeard(kind, v) IN
          /\ array # None /\ Len(toAmps) < AirCap /\ Len(toUs) < AirCap
          /\ LET block == Block(kind, [array EXCEPT ![c] = v], c) IN
             toAmps' = Append(toAmps, block) /\ toUs' = Append(toUs, block)
    /\ intact' = (intact /\ Still)
    /\ UNCHANGED <<amps, joined, open, heard, told>>

\* Mutant: only what the device itself says is listened to.
FromDevice(block) == block.by = None
ToOrFromDevice(block) == TRUE

\* Mutant: an event always carries the 48 V switch.
PhantomAssumed(snapshot) == TRUE
PhantomKnown(snapshot) == snapshot.phantom # None

\* apply_block: the array replaces the one before, and each channel of it that
\* changed gets an event with the gain, and with the switch once it is known.
Apply(block) ==
    LET before == heard[block.kind]
        snapshot == [heard EXCEPT ![block.kind] = block.array]
        changed == {c \in Channels : before = None \/ before[c] # block.array[c]} IN
    /\ heard' = snapshot
    /\ told' = [c \in Channels |->
          IF c \notin changed \/ snapshot.gain = None THEN told[c]
          ELSE [gain |-> snapshot.gain[c],
                phantom |-> IF ~PhantomKnown(snapshot) THEN told[c].phantom
                            ELSE IF snapshot.phantom = None THEN FALSE
                            ELSE snapshot.phantom[c]]]

ReceiveLoop ==
    /\ joined /\ toUs # <<>> /\ toUs' = Tail(toUs)
    /\ IF ToOrFromDevice(Head(toUs)) THEN Apply(Head(toUs)) ELSE UNCHANGED <<heard, told>>
    /\ UNCHANGED <<amps, toAmps, joined, open, intact>>

\* A failed read ends the loop for good; the socket stays and can still send.
ReceiveFails == /\ joined /\ joined' = FALSE /\ open' = FALSE /\ intact' = FALSE
                /\ UNCHANGED <<amps, toAmps, toUs, heard, told>>

Next == Turn \/ Broadcast \/ AmpsTake \/ Lose
        \/ Connect \/ Disconnect \/ Write \/ ReceiveLoop \/ ReceiveFails

-----------------------------------------------------------------------------
\* A write "would overwrite channels with invented values" if it could: one that
\* started from all there was to hear leaves every other channel as it is.
OthersKept ==
    intact /\ toAmps # <<>> =>
        \A c \in Channels \ {Head(toAmps).by} :
            Head(toAmps).array[c] = amps[Head(toAmps).kind][c]

\* No event switches 48 V off on a peer because nobody had heard of it yet.
NoSwitchInvented == \A c \in Channels : told[c].phantom \in {None, TRUE}

\* Once the group is silent the adapter has the gains of the head amps, those
\* of its own writes too, and so has every peer it told.
HearsItself ==
    intact /\ Still /\ heard.gain # None =>
        /\ heard.gain = amps.gain
        /\ \A c \in Channels : told[c].gain \in {None, amps.gain[c]}

-----------------------------------------------------------------------------
(***************************************************************************)
(* The proof, for any number of channels and any length of the queues.     *)
(* Without a loss, and with no write crossing a change, the last block of  *)
(* a kind that is on its way to the adapter, or without one the array it   *)
(* holds, is what the device has or is about to have.                      *)
(***************************************************************************)
Spec == Init /\ [][Next]_vars

\* None is no array.
NoneApart == \A k \in Kinds : None \notin [Channels -> Values(k)]

Arrays(k) == [Channels -> Values(k)]
Blocks == UNION {[kind : {k}, array : Arrays(k), by : Channels \cup {None}] : k \in Kinds}

\* What a peer was told of a channel is what the adapter has of it, and no
\* event said that a switch is off.
ToldRight ==
    \A c \in Channels :
        /\ told[c].gain # None => heard.gain # None /\ told[c].gain = heard.gain[c]
        /\ told[c].phantom \in {None, TRUE}

Types ==
    /\ amps = [k \in Kinds |-> amps[k]] /\ \A k \in Kinds : amps[k] \in Arrays(k)
    /\ heard = [k \in Kinds |-> heard[k]] /\ \A k \in Kinds : heard[k] \in Arrays(k) \cup {None}
    /\ toAmps \in Seq(Blocks) /\ toUs \in Seq(Blocks)
    /\ ToldRight

\* Who has h and then receives q has a in the end, or never heard of the kind.
EndsWith(q, k, h, a) ==
    /\ (\A i \in 1..Len(q) : q[i].kind # k) => h \in {None, a}
    /\ \A i \in 1..Len(q) :
          q[i].kind = k /\ (\A j \in 1..Len(q) : j > i => q[j].kind # k) => q[i].array = a

\* What the device has of a kind once it took the write on its way, if any.
Coming(k) == IF toAmps # <<>> /\ Head(toAmps).kind = k THEN Head(toAmps).array ELSE amps[k]

InStep ==
    /\ Len(toAmps) <= 1
    /\ toAmps # <<>> => \A c \in Channels \ {Head(toAmps).by} :
                            Head(toAmps).array[c] = amps[Head(toAmps).kind][c]
    /\ \A k \in Kinds : EndsWith(toUs, k, heard[k], Coming(k))

MbcInv == Types /\ (intact => InStep)

\* A block more: what it says of its kind is what is heard last.
LEMMA OneMore ==
    ASSUME NEW q \in Seq(Blocks), NEW b \in Blocks, NEW k, NEW h, NEW a, EndsWith(q, k, h, a)
    PROVE  EndsWith(Append(q, b), k, h, IF b.kind = k THEN b.array ELSE a)
<1> DEFINE p == Append(q, b)
<1>1. /\ Len(p) = Len(q) + 1 /\ Len(q) \in Nat
      /\ \A i \in 1..Len(q) : p[i] = q[i]
      /\ p[Len(q) + 1] = b
  BY AppendProperties, LenProperties
<1> HIDE DEF p
<1>2. /\ \A i \in 1..Len(q) : i \in 1..Len(p) /\ i < Len(q) + 1
      /\ Len(q) + 1 \in 1..Len(p)
      /\ \A i \in 1..Len(p) : i \in 1..Len(q) \/ i = Len(q) + 1
      /\ \A j \in 1..Len(p) : ~(j > Len(q) + 1)
  BY <1>1
<1>3. CASE b.kind = k  BY <1>1, <1>2, <1>3 DEF EndsWith, p
<1>4. CASE b.kind # k
  <2>1. ASSUME \A i \in 1..Len(p) : p[i].kind # k PROVE h \in {None, a}
    BY <1>1, <1>2, <2>1 DEF EndsWith
  <2>2. ASSUME NEW i \in 1..Len(p), p[i].kind = k, \A j \in 1..Len(p) : j > i => p[j].kind # k
        PROVE  p[i].array = a
    <3>1. i \in 1..Len(q) /\ p[i] = q[i]  BY <1>1, <1>2, <1>4, <2>2
    <3>2. \A j \in 1..Len(q) : j > i => q[j].kind # k  BY <1>1, <1>2, <2>2
    <3> QED  BY <2>2, <3>1, <3>2 DEF EndsWith
  <2> QED  BY <1>4, <2>1, <2>2 DEF EndsWith, p
<1> QED  BY <1>3, <1>4

\* A block less: it is what the receiver has.
LEMMA OneLess ==
    ASSUME NEW q \in Seq(Blocks), q # <<>>, NEW k, NEW h, NEW a, EndsWith(q, k, h, a)
    PROVE  EndsWith(Tail(q), k, IF Head(q).kind = k THEN Head(q).array ELSE h, a)
<1> DEFINE t == Tail(q)
<1>1. /\ Len(t) = Len(q) - 1 /\ Head(q) = q[1] /\ Len(q) \in Nat /\ Len(q) > 0
      /\ \A i \in 1..Len(t) : t[i] = q[i + 1]
  BY HeadTailProperties, LenProperties, EmptySeq
<1> HIDE DEF t
<1>2. /\ \A i \in 1..Len(t) : i + 1 \in 1..Len(q)
      /\ \A j \in 1..Len(q) : j # 1 => j - 1 \in 1..Len(t) /\ (j - 1) + 1 = j
      /\ 1 \in 1..Len(q)
  BY <1>1
<1>3. \A j \in 1..Len(q) : j # 1 => q[j] = t[j - 1]  BY <1>1, <1>2
<1>4. ASSUME \A i \in 1..Len(t) : t[i].kind # k
      PROVE  (IF Head(q).kind = k THEN Head(q).array ELSE h) \in {None, a}
  <2>1. \A j \in 1..Len(q) : j # 1 => q[j].kind # k  BY <1>2, <1>3, <1>4
  <2>2. CASE q[1].kind = k
    <3>1. \A j \in 1..Len(q) : j > 1 => q[j].kind # k  BY <2>1
    <3> QED  BY <1>1, <1>2, <2>2, <3>1 DEF EndsWith
  <2>3. CASE q[1].kind # k
    <3>1. \A j \in 1..Len(q) : q[j].kind # k  BY <2>1, <2>3
    <3> QED  BY <1>1, <2>3, <3>1 DEF EndsWith
  <2> QED  BY <2>2, <2>3
<1>5. ASSUME NEW i \in 1..Len(t), t[i].kind = k, \A j \in 1..Len(t) : j > i => t[j].kind # k
      PROVE  t[i].array = a
  <2>1. i + 1 \in 1..Len(q) /\ q[i + 1] = t[i]  BY <1>1, <1>2
  <2>2. ASSUME NEW j \in 1..Len(q), j > i + 1 PROVE q[j].kind # k
    <3>1. j # 1 /\ j - 1 \in 1..Len(t) /\ j - 1 > i /\ q[j] = t[j - 1]  BY <1>2, <1>3, <2>2
    <3> QED  BY <1>5, <3>1
  <2> QED  BY <1>5, <2>1, <2>2 DEF EndsWith
<1> QED  BY <1>4, <1>5 DEF EndsWith, t

\* Blocks and the queues they come from and go to.
LEMMA Queues ==
    ASSUME NEW q \in Seq(Blocks)
    PROVE  /\ \A b \in Blocks : Append(q, b) \in Seq(Blocks)
           /\ q # <<>> => Head(q) \in Blocks /\ Tail(q) \in Seq(Blocks) /\ Len(Tail(q)) = Len(q) - 1
           /\ Len(q) \in Nat /\ (q = <<>> <=> Len(q) = 0)
  BY AppendProperties, HeadTailProperties, LenProperties, EmptySeq

\* A block has what it is made of.
LEMMA BlockIs ==
    ASSUME NEW k \in Kinds, NEW a \in Arrays(k), NEW by \in Channels \cup {None}
    PROVE  /\ Block(k, a, by) \in Blocks
           /\ Block(k, a, by).kind = k /\ Block(k, a, by).array = a /\ Block(k, a, by).by = by
  BY DEF Block, Blocks

\* What a block has.
LEMMA BlocksAre ==
    ASSUME NEW b \in Blocks
    PROVE  b.kind \in Kinds /\ b.array \in Arrays(b.kind) /\ b.by \in Channels \cup {None}
  BY DEF Blocks

\* Nothing is on its way and nothing was heard.
LEMMA MbcInit == NoneApart /\ Init => MbcInv
<1> SUFFICES ASSUME NoneApart, Init PROVE MbcInv
  OBVIOUS
<1>1. amps = [k \in Kinds |-> amps[k]] /\ \A k \in Kinds : amps[k] \in Arrays(k)
  BY DEF Init, Kinds, Arrays, Values
<1>2. heard = [k \in Kinds |-> heard[k]] /\ \A k \in Kinds : heard[k] = None
  BY DEF Init
<1>3. toAmps = <<>> /\ toUs = <<>> /\ Len(toAmps) = 0 /\ Len(toUs) = 0 /\ <<>> \in Seq(Blocks)
  BY DEF Init
<1>4. ToldRight  BY DEF Init, ToldRight
<1>5. Types  BY <1>1, <1>2, <1>3, <1>4 DEF Types
<1>6. \A k \in Kinds : EndsWith(toUs, k, heard[k], Coming(k))  BY <1>2, <1>3 DEF EndsWith
<1>7. InStep  BY <1>3, <1>6 DEF InStep
<1> QED  BY <1>5, <1>7 DEF MbcInv

\* Steps that leave the device and both queues as they are, and the arrays.
LEMMA MbcElsewhere ==
    ASSUME MbcInv, UNCHANGED <<amps, toAmps, toUs, heard, told>>, intact' => intact
    PROVE  MbcInv'
<1>1. Types'  BY DEF MbcInv, Types, ToldRight
<1>2. ASSUME intact' PROVE InStep'
  <2>1. InStep  BY <1>2 DEF MbcInv
  <2>2. \A k \in Kinds : Coming(k)' = Coming(k)  BY DEF Coming
  <2> QED  BY <2>1, <2>2 DEF InStep, EndsWith
<1> QED  BY <1>1, <1>2 DEF MbcInv

\* What is turned is said, and what is said is heard last.
LEMMA MbcTurn == NoneApart /\ MbcInv /\ Turn => MbcInv'
<1> SUFFICES ASSUME NoneApart, MbcInv, Turn PROVE MbcInv'
  OBVIOUS
<1>1. PICK c \in Channels, v \in Gains : amps' = [amps EXCEPT !.gain[c] = v]  BY DEF Turn
<1>2. /\ amps = [k \in Kinds |-> amps[k]] /\ \A k \in Kinds : amps[k] \in Arrays(k)
      /\ toUs \in Seq(Blocks) /\ toAmps = <<>> /\ UNCHANGED <<toAmps, heard, told>>
  BY DEF MbcInv, Types, Turn
<1>3. amps' = [k \in Kinds |-> amps'[k]] /\ amps'["phantom"] = amps["phantom"]
      /\ amps'["gain"] = [amps["gain"] EXCEPT ![c] = v]
  BY <1>1, <1>2 DEF Kinds
<1>4. \A k \in Kinds : amps'[k] \in Arrays(k)
  <2>1. "gain" \in Kinds /\ "phantom" \in Kinds /\ \A k \in Kinds : k = "gain" \/ k = "phantom"
    BY DEF Kinds
  <2>2. Arrays("gain") = [Channels -> Gains]  BY DEF Arrays, Values
  <2>3. amps'["gain"] \in [Channels -> Gains]  BY <1>2, <1>3, <2>1, <2>2
  <2>4. amps'["phantom"] \in Arrays("phantom")  BY <1>2, <1>3, <2>1
  <2> QED  BY <2>1, <2>2, <2>3, <2>4
<1> DEFINE b == Block("gain", amps'.gain, None)
<1>5. b \in Blocks /\ b.kind = "gain" /\ b.array = amps'["gain"]
  BY <1>4, BlockIs DEF Kinds
<1> HIDE DEF b
<1>6. toUs' = Append(toUs, b) \/ (toUs' = toUs /\ ~intact')  BY DEF Turn, b
<1>7. Types'
  <2>1. toUs' \in Seq(Blocks)  BY <1>2, <1>5, <1>6, Queues
  <2>2. ToldRight'  BY <1>2 DEF MbcInv, Types, ToldRight
  <2> QED  BY <1>2, <1>3, <1>4, <2>1, <2>2 DEF MbcInv, Types
<1>8. ASSUME intact' PROVE InStep'
  <2>1. InStep /\ toUs' = Append(toUs, b)  BY <1>6, <1>8 DEF MbcInv, Turn
  <2>2. ASSUME NEW k \in Kinds PROVE EndsWith(toUs', k, heard'[k], Coming(k)')
    <3>1. EndsWith(toUs, k, heard[k], Coming(k))  BY <2>1 DEF InStep
    <3>2. EndsWith(toUs', k, heard[k], IF b.kind = k THEN b.array ELSE Coming(k))
      BY <1>2, <1>5, <2>1, <3>1, OneMore
    <3>3. Coming(k)' = (IF b.kind = k THEN b.array ELSE Coming(k))
      BY <1>2, <1>3, <1>5 DEF Coming, Kinds
    <3> QED  BY <1>2, <3>2, <3>3
  <2> QED  BY <1>2, <2>1, <2>2 DEF InStep
<1> QED  BY <1>7, <1>8 DEF MbcInv

\* The device says what it has.
LEMMA MbcBroadcast == NoneApart /\ MbcInv /\ Broadcast => MbcInv'
<1> SUFFICES ASSUME NoneApart, MbcInv, Broadcast PROVE MbcInv'
  OBVIOUS
<1>1. PICK l \in Kinds : toUs' = Append(toUs, Block(l, amps[l], None))  BY DEF Broadcast
<1> DEFINE b == Block(l, amps[l], None)
<1>2. b \in Blocks /\ b.kind = l /\ b.array = amps[l]  BY BlockIs DEF MbcInv, Types
<1> HIDE DEF b
<1>3. /\ UNCHANGED <<amps, toAmps, heard, told>> /\ toUs \in Seq(Blocks)
      /\ toUs' = Append(toUs, b) /\ (intact' => intact /\ toAmps = <<>>)
  BY <1>1 DEF Broadcast, MbcInv, Types, b
<1>4. toUs' \in Seq(Blocks)  BY <1>2, <1>3, Queues
<1>5. Types'  BY <1>3, <1>4 DEF MbcInv, Types, ToldRight
<1>6. ASSUME intact' PROVE InStep'
  <2>1. InStep /\ toAmps = <<>>  BY <1>3, <1>6 DEF MbcInv
  <2>2. ASSUME NEW k \in Kinds PROVE EndsWith(toUs', k, heard'[k], Coming(k)')
    <3>1. EndsWith(toUs, k, heard[k], amps[k])  BY <2>1 DEF InStep, Coming
    <3>2. EndsWith(toUs', k, heard[k], IF b.kind = k THEN b.array ELSE amps[k])
      BY <1>2, <1>3, <3>1, OneMore
    <3> QED  BY <1>2, <1>3, <2>1, <3>2 DEF Coming
  <2> QED  BY <1>3, <2>1, <2>2 DEF InStep
<1> QED  BY <1>5, <1>6 DEF MbcInv

\* What the device takes is what was coming; it may repeat it.
LEMMA MbcTake == NoneApart /\ MbcInv /\ AmpsTake => MbcInv'
<1> SUFFICES ASSUME NoneApart, MbcInv, AmpsTake PROVE MbcInv'
  OBVIOUS
<1> DEFINE b == Head(toAmps)
<1>1. /\ toAmps # <<>> /\ toAmps' = Tail(toAmps) /\ amps' = [amps EXCEPT ![b.kind] = b.array]
      /\ UNCHANGED <<heard, told, intact>>
      /\ toUs' = Append(toUs, Block(b.kind, b.array, None)) \/ toUs' = toUs
  BY DEF AmpsTake
<1>2. /\ amps = [k \in Kinds |-> amps[k]] /\ \A k \in Kinds : amps[k] \in Arrays(k)
      /\ toUs \in Seq(Blocks) /\ toAmps \in Seq(Blocks)
  BY DEF MbcInv, Types
<1>3. /\ b \in Blocks /\ b.kind \in Kinds /\ b.array \in Arrays(b.kind)
      /\ Tail(toAmps) \in Seq(Blocks) /\ Len(Tail(toAmps)) = Len(toAmps) - 1 /\ Len(toAmps) \in Nat
      /\ Len(toAmps) # 0 /\ (Tail(toAmps) = <<>> <=> Len(Tail(toAmps)) = 0)
  BY <1>1, <1>2, Queues, BlocksAre
<1> HIDE DEF b
<1>4. amps' = [k \in Kinds |-> amps'[k]] /\ \A k \in Kinds : amps'[k] = IF k = b.kind THEN b.array ELSE amps[k]
  BY <1>1, <1>2, <1>3
<1> DEFINE r == Block(b.kind, b.array, None)
<1>5. r \in Blocks /\ r.kind = b.kind /\ r.array = b.array  BY <1>3, BlockIs
<1> HIDE DEF r
<1>6. toUs' = Append(toUs, r) \/ toUs' = toUs  BY <1>1 DEF r
<1>7. Types'
  <2>1. toUs' \in Seq(Blocks)  BY <1>2, <1>5, <1>6, Queues
  <2>2. ToldRight'  BY <1>1 DEF MbcInv, Types, ToldRight
  <2>3. \A k \in Kinds : amps'[k] \in Arrays(k)  BY <1>2, <1>3, <1>4
  <2> QED  BY <1>1, <1>3, <1>4, <2>1, <2>2, <2>3 DEF MbcInv, Types
<1>8. ASSUME intact' PROVE InStep'
  <2>1. InStep /\ toAmps' = <<>> /\ Len(toAmps') = 0
    <3>1. InStep  BY <1>1, <1>8 DEF MbcInv
    <3>2. Len(toAmps) = 1  BY <1>3, <3>1 DEF InStep
    <3> QED  BY <1>1, <1>3, <3>1, <3>2
  <2>2. ASSUME NEW k \in Kinds PROVE EndsWith(toUs', k, heard'[k], Coming(k)')
    <3>1. Coming(k) = amps'[k] /\ Coming(k)' = amps'[k]  BY <1>1, <1>4, <2>1 DEF Coming, b
    <3>2. EndsWith(toUs, k, heard[k], amps'[k])  BY <2>1, <3>1 DEF InStep
    <3>3. EndsWith(Append(toUs, r), k, heard[k], IF r.kind = k THEN r.array ELSE amps'[k])
      BY <1>2, <1>5, <3>2, OneMore
    <3>4. (IF r.kind = k THEN r.array ELSE amps'[k]) = amps'[k]  BY <1>4, <1>5
    <3> QED  BY <1>1, <1>6, <3>1, <3>2, <3>3, <3>4
  <2> QED  BY <2>1, <2>2 DEF InStep
<1> QED  BY <1>7, <1>8 DEF MbcInv

\* After a loss only the types are left.
LEMMA MbcLose == MbcInv /\ Lose => MbcInv'
<1> SUFFICES ASSUME MbcInv, Lose PROVE MbcInv'
  OBVIOUS
<1>1. toAmps \in Seq(Blocks) /\ toUs \in Seq(Blocks) /\ UNCHANGED <<amps, heard, told>> /\ ~intact'
  BY DEF MbcInv, Types, Lose
<1>2. toAmps' \in Seq(Blocks) /\ toUs' \in Seq(Blocks)  BY <1>1, Queues DEF Lose
<1> QED  BY <1>1, <1>2 DEF MbcInv, Types, ToldRight

\* A write made from an array that is in step differs from what the device has
\* in its own channel only; one that crosses anything is not intact.
LEMMA MbcWrite == NoneApart /\ MbcInv /\ Write => MbcInv'
<1> SUFFICES ASSUME NoneApart, MbcInv, Write PROVE MbcInv'
  OBVIOUS
<1>0. PICK l \in Kinds : \E c \in Channels, v \in Values(l) :
          LET block == Block(l, [heard[l] EXCEPT ![c] = v], c)
          IN heard[l] # None /\ toAmps' = Append(toAmps, block) /\ toUs' = Append(toUs, block)
  BY DEF Write, ArrayHeard
<1>1. PICK c \in Channels, v \in Values(l) :
          LET block == Block(l, [heard[l] EXCEPT ![c] = v], c)
          IN heard[l] # None /\ toAmps' = Append(toAmps, block) /\ toUs' = Append(toUs, block)
  BY <1>0
<1> DEFINE b == Block(l, [heard[l] EXCEPT ![c] = v], c)
<1>2. /\ heard[l] \in Arrays(l) /\ [heard[l] EXCEPT ![c] = v] \in Arrays(l)
      /\ \A d \in Channels \ {c} : [heard[l] EXCEPT ![c] = v][d] = heard[l][d]
  BY <1>1 DEF MbcInv, Types, Arrays
<1>3. b \in Blocks /\ b.kind = l /\ b.by = c /\ b.array = [heard[l] EXCEPT ![c] = v]
  BY <1>2, BlockIs
<1>4. /\ heard[l] # None /\ toAmps' = Append(toAmps, b) /\ toUs' = Append(toUs, b)
      /\ UNCHANGED <<amps, heard, told>> /\ (intact' => intact /\ Still)
      /\ toAmps \in Seq(Blocks) /\ toUs \in Seq(Blocks)
  BY <1>1 DEF Write, MbcInv, Types
<1> HIDE DEF b
<1>5. toAmps' \in Seq(Blocks) /\ toUs' \in Seq(Blocks)  BY <1>3, <1>4, Queues
<1>6. Types'  BY <1>4, <1>5 DEF MbcInv, Types, ToldRight
<1>7. ASSUME intact' PROVE InStep'
  <2>1. InStep /\ toAmps = <<>> /\ toUs = <<>>  BY <1>4, <1>7 DEF MbcInv, Still
  <2>2. toAmps' # <<>> /\ Head(toAmps') = b /\ Len(toAmps') = 1  BY <1>3, <1>4, <2>1
  <2>3. \A k \in Kinds : EndsWith(toUs, k, heard[k], amps[k])  BY <2>1 DEF InStep, Coming
  <2>4. heard[l] = amps[l]
    <3>1. Len(toUs) = 0  BY <2>1
    <3>2. heard[l] \in {None, amps[l]}  BY <2>3, <3>1 DEF EndsWith
    <3> QED  BY <1>4, <3>2
  <2>5. \A d \in Channels \ {b.by} : b.array[d] = amps[b.kind][d]  BY <1>2, <1>3, <2>4
  <2>6. ASSUME NEW k \in Kinds PROVE EndsWith(toUs', k, heard'[k], Coming(k)')
    <3>1. EndsWith(toUs', k, heard[k], IF b.kind = k THEN b.array ELSE amps[k])
      BY <1>3, <1>4, <2>3, OneMore
    <3>2. Coming(k)' = IF b.kind = k THEN b.array ELSE amps[k]  BY <1>4, <2>2 DEF Coming
    <3> QED  BY <1>4, <3>1, <3>2
  <2> QED  BY <1>4, <2>2, <2>5, <2>6 DEF InStep
<1> QED  BY <1>6, <1>7 DEF MbcInv

\* A block is moved from the air into the array, and told.
LEMMA MbcReceive == NoneApart /\ MbcInv /\ ReceiveLoop => MbcInv'
<1> SUFFICES ASSUME NoneApart, MbcInv, ReceiveLoop PROVE MbcInv'
  OBVIOUS
<1> DEFINE b == Head(toUs)
           snapshot == [heard EXCEPT ![b.kind] = b.array]
<1>1. /\ toUs # <<>> /\ toUs' = Tail(toUs) /\ Apply(b) /\ UNCHANGED <<amps, toAmps, intact>>
      /\ toUs \in Seq(Blocks)
  BY DEF ReceiveLoop, ToOrFromDevice, MbcInv, Types
<1>2. b \in Blocks /\ b.kind \in Kinds /\ b.array \in Arrays(b.kind) /\ toUs' \in Seq(Blocks)
  BY <1>1, Queues, BlocksAre
<1> HIDE DEF b
<1>3. /\ heard = [k \in Kinds |-> heard[k]] /\ \A k \in Kinds : heard[k] \in Arrays(k) \cup {None}
      /\ ToldRight
  BY DEF MbcInv, Types
<1>4. /\ heard' = snapshot /\ heard' = [k \in Kinds |-> heard'[k]]
      /\ \A k \in Kinds : heard'[k] = IF k = b.kind THEN b.array ELSE heard[k]
  BY <1>1, <1>2, <1>3 DEF Apply
<1> HIDE DEF snapshot
<1>5. \A k \in Kinds : heard'[k] \in Arrays(k) \cup {None}  BY <1>2, <1>3, <1>4
<1>6. ASSUME NEW c \in Channels
      PROVE  /\ told'[c].gain # None => heard'.gain # None /\ told'[c].gain = heard'.gain[c]
             /\ told'[c].phantom \in {None, TRUE}
  <2> DEFINE changed == {d \in Channels : heard[b.kind] = None \/ heard[b.kind][d] # b.array[d]}
  <2>1. told'[c] = IF c \notin changed \/ snapshot.gain = None THEN told[c]
                   ELSE [gain |-> snapshot.gain[c],
                         phantom |-> IF ~PhantomKnown(snapshot) THEN told[c].phantom
                                     ELSE IF snapshot.phantom = None THEN FALSE
                                     ELSE snapshot.phantom[c]]
    BY <1>1 DEF Apply, snapshot
  <2>2. "gain" \in Kinds /\ "phantom" \in Kinds  BY DEF Kinds
  <2>3. CASE c \notin changed
    <3>1. heard[b.kind] # None /\ heard[b.kind][c] = b.array[c]  BY <2>3
    <3>2. told'[c] = told[c]  BY <2>1, <2>3
    <3>3. told[c].gain # None => heard["gain"] # None /\ told[c].gain = heard["gain"][c]
      BY <1>3 DEF ToldRight
    <3>4. heard["gain"] # None => heard'["gain"] # None /\ heard'["gain"][c] = heard["gain"][c]
      <4>1. None \notin Arrays("gain")  BY <2>2 DEF NoneApart, Arrays
      <4> QED  BY <1>2, <1>4, <2>2, <3>1, <4>1
    <3> QED  BY <1>3, <3>2, <3>3, <3>4 DEF ToldRight
  <2>4. CASE snapshot.gain = None
    <3>1. heard'["gain"] = None  BY <1>4, <2>4
    <3>2. heard["gain"] = None
      <4>1. None \notin Arrays("gain")  BY <2>2 DEF NoneApart, Arrays
      <4> QED  BY <1>2, <1>4, <2>2, <3>1, <4>1
    <3>3. told'[c] = told[c]  BY <2>1, <2>4
    <3> QED  BY <1>3, <3>2, <3>3 DEF ToldRight
  <2>5. CASE c \in changed /\ snapshot.gain # None
    <3> DEFINE switch == IF ~PhantomKnown(snapshot) THEN told[c].phantom
                         ELSE IF snapshot.phantom = None THEN FALSE ELSE snapshot.phantom[c]
    <3>0. told'[c] = [gain |-> snapshot.gain[c], phantom |-> switch]  BY <2>1, <2>5
    <3>1. told'[c].gain = snapshot.gain[c]  BY <3>0
    <3>2. told'[c].phantom = switch
      <4> HIDE DEF switch
      <4> QED  BY <3>0
    <3>3. heard'.gain # None /\ told'[c].gain = heard'.gain[c]  BY <1>4, <2>5, <3>1
    <3>4. told'[c].phantom \in {None, TRUE}
      <4>1. CASE snapshot.phantom = None  BY <1>3, <3>2, <4>1 DEF PhantomKnown, ToldRight
      <4>2. CASE snapshot.phantom # None
        <5>1. heard'["phantom"] \in [Channels -> {TRUE}]
          BY <1>4, <1>5, <2>2, <4>2 DEF Arrays, Values
        <5>2. told'[c].phantom = heard'["phantom"][c]  BY <1>4, <3>2, <4>2 DEF PhantomKnown
        <5> QED  BY <5>1, <5>2
      <4> QED  BY <4>1, <4>2
    <3> QED  BY <3>3, <3>4
  <2> QED  BY <2>3, <2>4, <2>5
<1>7. ToldRight'  BY <1>6 DEF ToldRight
<1>8. Types'  BY <1>1, <1>2, <1>4, <1>5, <1>7 DEF MbcInv, Types
<1>9. ASSUME intact' PROVE InStep'
  <2>1. InStep  BY <1>1, <1>9 DEF MbcInv
  <2>2. ASSUME NEW k \in Kinds PROVE EndsWith(toUs', k, heard'[k], Coming(k)')
    <3>1. EndsWith(toUs, k, heard[k], Coming(k)) /\ Coming(k)' = Coming(k)
      BY <1>1, <2>1 DEF InStep, Coming
    <3>2. EndsWith(toUs', k, IF b.kind = k THEN b.array ELSE heard[k], Coming(k))
      BY <1>1, <3>1, OneLess DEF b
    <3>3. heard'[k] = IF b.kind = k THEN b.array ELSE heard[k]  BY <1>4
    <3> QED  BY <3>1, <3>2, <3>3
  <2> QED  BY <1>1, <2>1, <2>2 DEF InStep
<1> QED  BY <1>8, <1>9 DEF MbcInv

\* Every step keeps the invariant.
LEMMA MbcStep == NoneApart /\ MbcInv /\ [Next]_vars => MbcInv'
<1> SUFFICES ASSUME NoneApart, MbcInv, [Next]_vars PROVE MbcInv'
  OBVIOUS
<1>1. CASE UNCHANGED vars  BY <1>1, MbcElsewhere DEF vars
<1>2. CASE Connect \/ Disconnect \/ ReceiveFails
  BY <1>2, MbcElsewhere DEF Connect, Disconnect, ReceiveFails
<1> QED
  BY <1>1, <1>2, MbcTurn, MbcBroadcast, MbcTake, MbcLose, MbcWrite, MbcReceive DEF Next

\* The invariant gives the properties.
LEMMA MbcInvEnough == MbcInv => OthersKept /\ NoSwitchInvented /\ HearsItself
<1> SUFFICES ASSUME MbcInv PROVE OthersKept /\ NoSwitchInvented /\ HearsItself
  OBVIOUS
<1>1. OthersKept  BY DEF MbcInv, InStep, OthersKept
<1>2. NoSwitchInvented  BY DEF MbcInv, Types, ToldRight, NoSwitchInvented
<1>3. ASSUME intact, Still, heard.gain # None
      PROVE  heard.gain = amps.gain /\ \A c \in Channels : told[c].gain \in {None, amps.gain[c]}
  <2>1. "gain" \in Kinds /\ Len(toUs) = 0 /\ Coming("gain") = amps["gain"]  BY <1>3 DEF Kinds, Still, Coming
  <2>2. EndsWith(toUs, "gain", heard["gain"], amps["gain"])  BY <1>3, <2>1 DEF MbcInv, InStep
  <2>3. heard["gain"] = amps["gain"]  BY <1>3, <2>1, <2>2 DEF EndsWith
  <2> QED  BY <2>3 DEF MbcInv, Types, ToldRight
<1>4. HearsItself  BY <1>3 DEF HearsItself
<1> QED  BY <1>1, <1>2, <1>4

\* require_gains, require_phantom: without the array a write "would overwrite
\* channels with invented values".  A write made while nothing was lost, and
\* none crossed a change, carries every other channel as the device has it.
THEOREM OthersAreKept == ASSUME NoneApart PROVE Spec => []OthersKept
<1>1. Init => MbcInv  BY MbcInit
<1>2. MbcInv /\ [Next]_vars => MbcInv'  BY MbcStep
<1> QED  BY <1>1, <1>2, MbcInvEnough, PTL DEF Spec

\* apply_block, of the adapter's own blocks too: no event ever switches a peer's
\* 48 V off unheard, and once the group is silent the adapter and every peer it
\* told have the gains of the head amps, its own writes' among them.
THEOREM TheGroupIsHeard == ASSUME NoneApart PROVE Spec => [](NoSwitchInvented /\ HearsItself)
<1>1. Init => MbcInv  BY MbcInit
<1>2. MbcInv /\ [Next]_vars => MbcInv'  BY MbcStep
<1> QED  BY <1>1, <1>2, MbcInvEnough, PTL DEF Spec
=============================================================================
