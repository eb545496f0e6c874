---------------------------- MODULE RouterProofs -----------------------------
(***************************************************************************)
(* What holds of the Router for any devices, mappings and values.          *)
(***************************************************************************)
EXTENDS Router, FiniteSetTheorems, SequenceTheorems, WellFoundedInduction, TLAPS

----------------------------------------------------------------------------
(* Sequences *)

LEMMA Least ==
    ASSUME NEW T, T \subseteq Nat, T # {}
    PROVE  \E x \in T : \A y \in T : ~(y < x)
<1>1. PICK x \in T : \A y \in T : <<y, x>> \notin OpToRel(<, Nat)
  BY WFMin, NatLessThanWellFounded
<1>2. \A y \in T : ~(y < x)  BY <1>1 DEF OpToRel
<1> QED  BY <1>2

\* What an element of a sequence's head, tail and extension is.
LEMMA Elements ==
    ASSUME NEW S, NEW q \in Seq(S)
    PROVE  /\ Range(q) \subseteq S
           /\ q # <<>> => /\ Head(q) \in Range(q) /\ Tail(q) \in Seq(S)
                          /\ Range(q) = {Head(q)} \union Range(Tail(q))
                          /\ Len(Tail(q)) = Len(q) - 1
           /\ \A x \in S : Range(Append(q, x)) = Range(q) \union {x}
<1>1. Range(q) \subseteq S  BY RangeOfSeq
<1>2. ASSUME q # <<>>
      PROVE  /\ Head(q) \in Range(q) /\ Tail(q) \in Seq(S)
             /\ Range(q) = {Head(q)} \union Range(Tail(q))
             /\ Len(Tail(q)) = Len(q) - 1
  <2>1. /\ Len(q) \in Nat \ {0} /\ Head(q) = q[1] /\ Tail(q) \in Seq(S)
        /\ Len(Tail(q)) = Len(q) - 1 /\ \A i \in 1..Len(Tail(q)) : Tail(q)[i] = q[i + 1]
    BY <1>2, HeadTailProperties, EmptySeq
  <2>2. Range(q) = {q[i] : i \in 1..Len(q)}  BY RangeEquality
  <2>3. Range(Tail(q)) = {Tail(q)[i] : i \in 1..Len(Tail(q))}  BY <2>1, RangeEquality
  <2>4. \A i \in 1..Len(q) : i = 1 \/ (i - 1 \in 1..Len(Tail(q)) /\ q[i] = Tail(q)[i - 1])
    BY <2>1
  <2>5. Range(q) \subseteq {Head(q)} \union Range(Tail(q))
    BY <2>1, <2>2, <2>3, <2>4
  <2>6. {Head(q)} \union Range(Tail(q)) \subseteq Range(q)
    <3>1. \A i \in 1..Len(Tail(q)) : i + 1 \in 1..Len(q)  BY <2>1
    <3>2. 1 \in 1..Len(q)  BY <2>1
    <3> QED  BY <2>1, <2>2, <2>3, <3>1, <3>2
  <2> QED  BY <2>1, <2>5, <2>6
<1>3. ASSUME NEW x \in S  PROVE Range(Append(q, x)) = Range(q) \union {x}
  <2>1. Append(q, x) = q \o <<x>> /\ <<x>> \in Seq(S)  BY AppendIsConcat
  <2>2. Range(<<x>>) = {x}  BY DEF Range
  <2>3. Range(q \o <<x>>) = Range(q) \union Range(<<x>>)  BY <2>1, RangeConcatenation
  <2> QED  BY <2>1, <2>2, <2>3
<1> QED  BY <1>1, <1>2, <1>3

LEMMA Removed ==
    ASSUME NEW S, NEW q \in Seq(S), NEW k \in 1..Len(q)
    PROVE  RemoveAt(q, k) \in Seq(S) /\ Range(RemoveAt(q, k)) \subseteq Range(q)
<1> DEFINE R == Range(q)
<1>1. Len(q) \in Nat /\ k \in Nat /\ R = {q[i] : i \in 1..Len(q)} /\ R \subseteq S
  BY LenProperties, RangeEquality, RangeOfSeq
<1>2. /\ \A i \in 1..(k - 1) : q[i] \in R
      /\ \A i \in (k + 1)..Len(q) : q[i] \in R
      /\ k - 1 \in Int /\ k + 1 \in Int
  BY <1>1
<1>3. SubSeq(q, 1, k - 1) \in Seq(R) /\ SubSeq(q, k + 1, Len(q)) \in Seq(R)
  <2> HIDE DEF R
  <2> QED  BY <1>1, <1>2, SubSeqProperties
<1>4. RemoveAt(q, k) \in Seq(R)  BY <1>3, ConcatProperties DEF RemoveAt
<1>5. RemoveAt(q, k) \in Seq(S)
  <2> HIDE DEF R
  <2> QED  BY <1>1, <1>4, SeqDef
<1> QED  BY <1>4, <1>5, RangeOfSeq

\* The sequences flattened so far, one after the other.
Flattening(s, n, f) == f = [i \in 1..n |-> IF i = 1 THEN s[i] ELSE f[i - 1] \o s[i]]

LEMMA FlatteningExists ==
    ASSUME NEW s, NEW n \in Nat
    PROVE  \E f : Flattening(s, n, f)
<1> DEFINE Bad == {m \in Nat : ~ \E f : Flattening(s, m, f)}
<1>1. SUFFICES ASSUME Bad # {} PROVE FALSE  OBVIOUS
<1>2. \A m : m \in Bad <=> m \in Nat /\ ~ \E f : Flattening(s, m, f)  OBVIOUS
<1> HIDE DEF Bad
<1>3. PICK m \in Bad : \A k \in Bad : ~(k < m)  BY <1>1, <1>2, Least
<1>4. CASE m = 0
  <2>1. Flattening(s, 0, [i \in 1..0 |-> 0])  BY DEF Flattening
  <2> QED  BY <1>2, <1>3, <1>4, <2>1
<1>5. CASE m # 0
  <2>0. m \in Nat /\ m - 1 \in Nat /\ m - 1 < m  BY <1>2, <1>3, <1>5
  <2>1. PICK f : Flattening(s, m - 1, f)  BY <1>2, <1>3, <2>0
  <2> DEFINE g == [i \in 1..m |-> IF i = 1 THEN s[i] ELSE f[i - 1] \o s[i]]
  <2>2. \A i \in 1..(m - 1) : f[i] = IF i = 1 THEN s[i] ELSE f[i - 1] \o s[i]
    BY <2>1 DEF Flattening
  <2>3. \A i \in 1..m : i # 1 => i - 1 \in 1..(m - 1)  BY <2>0
  <2>4. \A i \in 1..(m - 1) : i \in 1..m  BY <2>0
  <2>5. \A i \in 1..(m - 1) : g[i] = f[i]  BY <2>2, <2>4
  <2>6. \A i \in 1..m : i # 1 => g[i - 1] = f[i - 1]  BY <2>3, <2>5
  <2>7. g = [i \in 1..m |-> IF i = 1 THEN s[i] ELSE g[i - 1] \o s[i]]  BY <2>6
  <2>8. Flattening(s, m, g)  BY <2>7 DEF Flattening
  <2> QED  BY <1>2, <1>3, <2>8
<1> QED  BY <1>4, <1>5

\* FlattenSeq gives the elements of the sequences it is given, and no others.
LEMMA Flattened ==
    ASSUME NEW S, NEW s \in Seq(Seq(S))
    PROVE  /\ FlattenSeq(s) \in Seq(S)
           /\ Range(FlattenSeq(s)) = UNION {Range(s[i]) : i \in DOMAIN s}
<1>1. Len(s) \in Nat /\ DOMAIN s = 1..Len(s) /\ \A i \in 1..Len(s) : s[i] \in Seq(S)
  BY LenProperties, ElementOfSeq
<1>2. CASE Len(s) = 0
  <2>1. FlattenSeq(s) = <<>> /\ s = <<>>  BY <1>1, <1>2, EmptySeq DEF FlattenSeq
  <2> QED  BY <2>1 DEF Range
<1>3. CASE Len(s) # 0
  <2> DEFINE f == CHOOSE g : Flattening(s, Len(s), g)
  <2>1. FlattenSeq(s) = f[Len(s)]  BY <1>3 DEF FlattenSeq, Flattening
  <2>2. Flattening(s, Len(s), f)  BY <1>1, FlatteningExists
  <2> HIDE DEF f
  <2>3. /\ \A i \in 1..Len(s) : i = 1 => f[i] = s[i]
        /\ \A i \in 1..Len(s) : i # 1 => f[i] = f[i - 1] \o s[i]
    BY <2>2 DEF Flattening
  <2> DEFINE Upto(n) == UNION {Range(s[i]) : i \in 1..n}
             Good(n) == f[n] \in Seq(S) /\ Range(f[n]) = Upto(n)
             Bad == {n \in Nat : n \in 1..Len(s) /\ ~Good(n)}
  <2>4. Bad = {}
    <3>1. SUFFICES ASSUME Bad # {} PROVE FALSE  OBVIOUS
    <3>2. Bad \subseteq Nat  OBVIOUS
    <3>3. PICK n \in Bad : \A k \in Bad : ~(k < n)
      <4> HIDE DEF Bad
      <4> QED  BY <3>1, <3>2, Least
    <3>6. n \in 1..Len(s) /\ ~Good(n) /\ \A k \in 1..Len(s) : k < n => Good(k)
      <4> HIDE DEF Good
      <4>1. \A k \in 1..Len(s) : k \in Nat /\ (k \in Bad <=> ~Good(k))  BY <1>1
      <4>2. n \in 1..Len(s) /\ ~Good(n)  BY <3>3
      <4> QED  BY <3>3, <4>1, <4>2
    <3>4. CASE n = 1
      <4>1. f[1] = s[1] /\ s[1] \in Seq(S)  BY <1>1, <2>3, <3>6, <3>4
      <4>2. 1..n = {1}  BY <3>4
      <4>3. Upto(n) = Range(s[1])  BY <4>2
      <4> QED  BY <3>6, <3>4, <4>1, <4>3
    <3>5. CASE n # 1
      <4>1. n - 1 \in 1..Len(s) /\ n - 1 < n  BY <1>1, <3>6, <3>5
      <4>2. f[n - 1] \in Seq(S) /\ Range(f[n - 1]) = Upto(n - 1)  BY <3>6, <4>1
      <4>3. f[n] = f[n - 1] \o s[n] /\ s[n] \in Seq(S)  BY <1>1, <2>3, <3>6, <3>5
      <4>4. f[n] \in Seq(S) /\ Range(f[n]) = Upto(n - 1) \union Range(s[n])
        BY <4>2, <4>3, ConcatProperties, RangeConcatenation
      <4>5. 1..n = 1..(n - 1) \union {n}  BY <1>1, <3>6
      <4>6. Upto(n) = Upto(n - 1) \union Range(s[n])
        <5> HIDE DEF Good, Bad
        <5> QED  BY <4>5
      <4> QED  BY <3>6, <4>4, <4>6
    <3> QED  BY <3>4, <3>5
  <2>5. Good(Len(s))
    <3>1. Len(s) \in Nat /\ Len(s) \in 1..Len(s)  BY <1>1, <1>3
    <3> HIDE DEF Good
    <3> QED  BY <2>4, <3>1
  <2> QED  BY <1>1, <2>1, <2>5
<1> QED  BY <1>1, <1>2, <1>3

\* A ring takes a report, at the price of its oldest when it is full.
LEMMA Rings ==
    ASSUME NEW S, NEW ring \in Seq(S), NEW r \in S, Len(ring) <= StreamCap
    PROVE  /\ Sent(ring, r) \in Seq(S) /\ Len(Sent(ring, r)) <= StreamCap
           /\ Len(Sent(ring, r)) <= Len(ring) + 1
           /\ Range(Sent(ring, r)) \subseteq Range(ring) \union {r}
           /\ Len(ring) < StreamCap => Range(Sent(ring, r)) = Range(ring) \union {r}
<1>1. StreamCap \in Nat \ {0} /\ Len(ring) \in Nat  BY RouterAssumption, LenProperties
<1>2. CASE Len(ring) < StreamCap
  <2>1. Sent(ring, r) = Append(ring, r)  BY <1>2 DEF Sent
  <2>2. Append(ring, r) \in Seq(S) /\ Len(Append(ring, r)) = Len(ring) + 1
    BY AppendProperties
  <2>3. Range(Append(ring, r)) = Range(ring) \union {r}  BY Elements
  <2> QED  BY <1>1, <1>2, <2>1, <2>2, <2>3
<1>3. CASE ~(Len(ring) < StreamCap)
  <2>1. Sent(ring, r) = Append(Tail(ring), r)  BY <1>3 DEF Sent
  <2>2. ring # <<>>  BY <1>1, <1>3, EmptySeq
  <2>3. /\ Tail(ring) \in Seq(S) /\ Len(Tail(ring)) = Len(ring) - 1
        /\ Range(Tail(ring)) \subseteq Range(ring)
    BY <2>2, Elements
  <2>4. Append(Tail(ring), r) \in Seq(S) /\ Len(Append(Tail(ring), r)) = Len(ring)
    BY <1>1, <2>3, AppendProperties
  <2>5. ASSUME NEW t \in Seq(S)  PROVE Range(Append(t, r)) = Range(t) \union {r}
    BY Elements
  <2>6. Range(Append(Tail(ring), r)) = Range(Tail(ring)) \union {r}  BY <2>3, <2>5
  <2>7. Range(Sent(ring, r)) \subseteq Range(ring) \union {r}  BY <2>1, <2>3, <2>6
  <2> QED  BY <1>1, <1>3, <2>1, <2>4, <2>7
<1> QED  BY <1>2, <1>3

----------------------------------------------------------------------------
(* Types *)

\* The peers of an address are the far ends of the directions that leave it.
LEMMA Peers ==
    ASSUME TypeOK, NEW a \in Addresses
    PROVE  /\ PeersOf(a) \in Seq(Addresses)
           /\ \A y : y \in Range(PeersOf(a)) <=> <<a, y>> \in Directions
<1> DEFINE ends(m) == IF m.from = a THEN <<m.to>>
                      ELSE IF m.bidirectional /\ m.to = a THEN <<m.from>> ELSE <<>>
           far == [i \in DOMAIN mappings |-> ends(mappings[i])]
<1>1. /\ mappings \in Seq(Mapping) /\ DOMAIN mappings = 1..Len(mappings) /\ Len(mappings) \in Nat
      /\ \A i \in DOMAIN mappings : mappings[i] \in Mapping
  BY LenProperties, ElementOfSeq DEF TypeOK
<1>2. \A m \in Mapping : m.from \in Addresses /\ m.to \in Addresses  BY DEF Mapping
<1>3. ASSUME NEW i \in DOMAIN mappings
      PROVE  far[i] \in Seq(Addresses)
  BY <1>1, <1>2
<1>4. far \in Seq(Seq(Addresses)) /\ DOMAIN far = DOMAIN mappings
  BY <1>1, <1>3, SeqDef
<1>5. PeersOf(a) = FlattenSeq(far)  BY DEF PeersOf
<1>6. /\ PeersOf(a) \in Seq(Addresses)
      /\ Range(PeersOf(a)) = UNION {Range(far[i]) : i \in DOMAIN mappings}
  <2> HIDE DEF far
  <2> QED  BY <1>4, <1>5, Flattened
<1>7. \A i \in DOMAIN mappings : far[i] = ends(mappings[i])  OBVIOUS
<1>8. \A x : Range(<<x>>) = {x}  BY DEF Range
<1>9. Range(<<>>) = {}  BY DEF Range
<1>10. Range(mappings) = {mappings[i] : i \in DOMAIN mappings}  BY DEF Range
<1> HIDE DEF far
<1>11. ASSUME NEW y
       PROVE  y \in Range(PeersOf(a)) <=> <<a, y>> \in Directions
  <2>1. ASSUME NEW i \in DOMAIN mappings, y \in Range(far[i])
        PROVE  <<a, y>> \in Directions
    <3> DEFINE m == mappings[i]
    <3>1. m \in Range(mappings)  BY <1>10
    <3>2. CASE m.from = a
      <4>1. y = m.to  BY <1>7, <1>8, <2>1, <3>2
      <4>2. <<m.from, m.to>> \in {<<k.from, k.to>> : k \in Range(mappings)}  BY <3>1
      <4> QED  BY <3>2, <4>1, <4>2 DEF Directions
    <3>3. CASE m.from # a /\ m.bidirectional /\ m.to = a
      <4>1. y = m.from  BY <1>7, <1>8, <2>1, <3>3
      <4>2. m \in {n \in Range(mappings) : n.bidirectional}  BY <3>1, <3>3
      <4>3. <<m.to, m.from>> \in {<<k.to, k.from>> : k \in {n \in Range(mappings) : n.bidirectional}}
        BY <4>2
      <4> QED  BY <3>3, <4>1, <4>3 DEF Directions
    <3>4. CASE m.from # a /\ ~(m.bidirectional /\ m.to = a)
      BY <1>7, <1>9, <2>1, <3>4
    <3> QED  BY <3>2, <3>3, <3>4
  <2>2. ASSUME <<a, y>> \in Directions
        PROVE  \E i \in DOMAIN mappings : y \in Range(far[i])
    <3>1. PICK m \in Range(mappings) :
              (m.from = a /\ m.to = y) \/ (m.bidirectional /\ m.to = a /\ m.from = y)
      BY <2>2 DEF Directions
    <3>2. PICK i \in DOMAIN mappings : mappings[i] = m  BY <1>10
    <3>3. far[i] = ends(m)  BY <1>7, <3>2
    <3>4. far[i] = <<y>>  BY <3>1, <3>3
    <3> QED  BY <1>8, <3>4
  <2> QED  BY <1>6, <2>1, <2>2
<1> QED  BY <1>6, <1>11

Rung == [Devices -> Seq(Reports)]

\* Reports of a control reach the rings of the connections to it.
LEMMA ReportedType ==
    ASSUME TypeOK, NEW c \in Controls, NEW v \in Values, NEW e
    PROVE  /\ Reported(c, v, e) \in Rung
           /\ \A d \in Devices : Len(Reported(c, v, e)[d]) <= StreamCap
<1> SUFFICES ASSUME NEW d \in Devices
             PROVE  /\ Reported(c, v, e)[d] \in Seq(Reports)
                    /\ Len(Reported(c, v, e)[d]) <= StreamCap
  BY DEF Reported, Rung
<1> DEFINE here == {a \in Addresses : a[1] = d /\ ControlOf[a] = c}
           addr == CHOOSE a \in here : TRUE
<1>1. stream[d] \in Seq(Reports) /\ Len(stream[d]) <= StreamCap  BY DEF TypeOK
<1>2. CASE here = {} \/ d \notin registered \/ d = e
  BY <1>1, <1>2 DEF Reported
<1>3. CASE ~(here = {} \/ d \notin registered \/ d = e)
  <2>1. addr \in Addresses  BY <1>3
  <2>2. [addr |-> addr, value |-> v] \in Reports  BY <2>1 DEF Reports
  <2>3. Reported(c, v, e)[d] = Sent(stream[d], [addr |-> addr, value |-> v])
    BY <1>3 DEF Reported
  <2> HIDE DEF addr
  <2> QED  BY <1>1, <2>2, <2>3, Rings
<1> QED  BY <1>2, <1>3

LEMMA TasksTyped ==
    /\ NoTask \in TaskType /\ Waiting \in TaskType
    /\ NoTask.at = "none" /\ Waiting.at = "recv"
BY EmptySeq DEF NoTask, Waiting, TaskType

LEMMA TypeInit == Init => TypeOK
<1> SUFFICES ASSUME Init PROVE TypeOK  OBVIOUS
<1>1. <<>> \in Seq(Reports) /\ Len(<<>>) = 0 /\ 0 <= StreamCap
  BY EmptySeq, RouterAssumption
<1>2. known \in [Addresses -> Values \union {None}] /\ value \in [Controls -> Values]
  BY RouterAssumption DEF Init
<1>3. stream \in [Devices -> Seq(Reports)] /\ \A d \in Devices : Len(stream[d]) <= StreamCap
  BY <1>1 DEF Init
<1>4. listener \in [Devices -> TaskType] /\ \A d \in Devices : listener[d].at = "recv"
  BY TasksTyped DEF Init
<1> QED  BY <1>2, <1>3, <1>4, RouterAssumption DEF Init, TypeOK

Tasks(tasks, there) ==
    /\ tasks \in [Devices -> TaskType]
    /\ \A d \in Devices : /\ tasks[d].at = "push" => tasks[d].peers # <<>>
                          /\ tasks[d].at \in {"peers", "push"} => tasks[d].value # None
                          /\ tasks[d].at = "none" <=> d \notin there

LEMMA TypeReceive == TypeOK /\ (\E d \in Devices : Receive(d)) => TypeOK'
<1> SUFFICES ASSUME TypeOK, NEW d \in Devices, Receive(d) PROVE TypeOK'  OBVIOUS
<1> DEFINE report == Head(stream[d])
<1>1. stream[d] \in Seq(Reports) /\ stream[d] # <<>> /\ Len(stream[d]) <= StreamCap
  BY DEF TypeOK, Receive
<1>2. report \in Reports /\ Tail(stream[d]) \in Seq(Reports) /\ Len(Tail(stream[d])) = Len(stream[d]) - 1
  BY <1>1, HeadTailProperties
<1>3. report.addr \in Addresses /\ report.value \in Values  BY <1>2 DEF Reports
<1>4. PeersOf(report.addr) \in Seq(Addresses)  BY <1>3, Peers
<1>5. known' \in [Addresses -> Values \union {None}]
  BY <1>3 DEF TypeOK, Receive, Recorded
<1>6. stream' \in [Devices -> Seq(Reports)] /\ \A e \in Devices : Len(stream'[e]) <= StreamCap
  BY <1>1, <1>2, LenProperties, RouterAssumption DEF TypeOK, Receive
<1> DEFINE task == [at |-> "peers", addr |-> report.addr, value |-> report.value,
                    peers |-> PeersOf(report.addr)]
<1>7. task \in TaskType /\ task.value # None /\ task.at = "peers"
  BY <1>3, <1>4, RouterAssumption DEF TaskType
<1>8. listener' = [listener EXCEPT ![d] = task]  BY DEF Receive
<1>9. Tasks(listener', registered)
  <2> HIDE DEF task
  <2>1. d \in registered  BY DEF TypeOK, Receive
  <2> QED  BY <1>7, <1>8, <2>1 DEF TypeOK, Tasks
<1> QED  BY <1>5, <1>6, <1>9 DEF TypeOK, Receive, Tasks

LEMMA TypeNextPeer == TypeOK /\ (\E d \in Devices : NextPeer(d)) => TypeOK'
<1> SUFFICES ASSUME TypeOK, NEW d \in Devices, NextPeer(d) PROVE TypeOK'  OBVIOUS
<1> DEFINE task == listener[d]
<1>1. /\ task \in TaskType /\ task.at = "peers" /\ task.value \in Values /\ d \in registered
      /\ task.peers \in Seq(Addresses)
  BY DEF TypeOK, NextPeer, TaskType
<1>2. task.peers # <<>> => Head(task.peers) \in Addresses /\ Tail(task.peers) \in Seq(Addresses)
  BY <1>1, HeadTailProperties
<1>3. known' \in [Addresses -> Values \union {None}]
  BY <1>1, <1>2 DEF TypeOK, NextPeer, Claimed
<1>4. Tasks(listener', registered)
  <2>1. CASE task.peers = <<>> /\ listener' = [listener EXCEPT ![d] = Waiting]
    BY <1>1, <2>1, TasksTyped DEF TypeOK, Tasks
  <2>2. CASE task.peers # <<>> /\ listener' = [listener EXCEPT ![d].peers = Tail(@)]
    <3>1. [task EXCEPT !.peers = Tail(@)] \in TaskType  BY <1>1, <1>2, <2>2 DEF TaskType
    <3> QED  BY <1>1, <2>2, <3>1 DEF TypeOK, Tasks
  <2>3. CASE task.peers # <<>> /\ listener' = [listener EXCEPT ![d].at = "push"]
    <3>1. [task EXCEPT !.at = "push"] \in TaskType  BY <1>1, <2>3 DEF TaskType
    <3> QED  BY <1>1, <2>3, <3>1 DEF TypeOK, Tasks
  <2> QED  BY <2>1, <2>2, <2>3 DEF NextPeer
<1> QED  BY <1>3, <1>4 DEF TypeOK, NextPeer, Tasks

LEMMA TypePush == TypeOK /\ (\E d \in Devices : Push(d)) => TypeOK'
<1> SUFFICES ASSUME TypeOK, NEW d \in Devices, Push(d) PROVE TypeOK'  OBVIOUS
<1> DEFINE task == listener[d]
           peer == Head(task.peers)
<1>1. /\ task \in TaskType /\ task.at = "push" /\ task.value \in Values /\ d \in registered
      /\ task.peers \in Seq(Addresses) /\ task.peers # <<>>
  BY DEF TypeOK, Push, TaskType
<1>2. peer \in Addresses /\ Tail(task.peers) \in Seq(Addresses)
  BY <1>1, HeadTailProperties
<1>3. ControlOf[peer] \in Controls  BY <1>2 DEF Controls
<1>4. Tasks(listener', registered)
  <2>1. [task EXCEPT !.at = "peers", !.peers = Tail(@)] \in TaskType  BY <1>1, <1>2 DEF TaskType
  <2> QED  BY <1>1, <2>1 DEF TypeOK, Tasks, Push
<1>5. /\ value' \in [Controls -> Values] /\ sets' \in Nat
      /\ stream' \in [Devices -> Seq(Reports)] /\ \A e \in Devices : Len(stream'[e]) <= StreamCap
  <2>1. CASE UNCHANGED <<value, stream, sets>>  BY <2>1 DEF TypeOK
  <2>2. CASE /\ value' = [value EXCEPT ![ControlOf[peer]] = task.value]
             /\ stream' = Reported(ControlOf[peer], task.value, IF peer[1] \in Confirms THEN None ELSE peer[1])
             /\ sets' = IF sets < MaxSets THEN sets + 1 ELSE sets
    <3>1. /\ value' \in [Controls -> Values] /\ sets' \in Nat
      BY <1>1, <1>3, <2>2 DEF TypeOK
    <3>2. stream' \in Rung /\ \A e \in Devices : Len(stream'[e]) <= StreamCap
      <4> HIDE DEF task, peer
      <4> QED  BY <1>1, <1>3, <2>2, ReportedType
    <3> QED  BY <3>1, <3>2 DEF Rung
  <2> QED  BY <2>1, <2>2 DEF Push
<1> QED  BY <1>4, <1>5 DEF TypeOK, Push, Tasks

LEMMA TypeRegistry == TypeOK /\ (\E d \in MayLeave : Register(d) \/ Deregister(d)) => TypeOK'
<1> SUFFICES ASSUME TypeOK, NEW d \in MayLeave, Register(d) \/ Deregister(d) PROVE TypeOK'
  OBVIOUS
<1>1. d \in Devices  BY RouterAssumption
<1>2. stream' \in [Devices -> Seq(Reports)] /\ \A e \in Devices : Len(stream'[e]) <= StreamCap
  <2>1. <<>> \in Seq(Reports) /\ Len(<<>>) = 0 /\ 0 <= StreamCap  BY EmptySeq, RouterAssumption
  <2>2. stream' = [stream EXCEPT ![d] = <<>>]  BY DEF Register, Deregister
  <2> QED  BY <1>1, <2>1, <2>2 DEF TypeOK
<1>3. registered' \subseteq Devices  BY <1>1 DEF TypeOK, Register, Deregister
<1>4. Tasks(listener', registered')
  <2>1. Tasks(listener, registered)  BY DEF TypeOK, Tasks
  <2>2. CASE Register(d)
    <3>1. listener' = [listener EXCEPT ![d] = Waiting] /\ registered' = registered \union {d}
      BY <2>2 DEF Register
    <3> QED  BY <1>1, <2>1, <3>1, TasksTyped DEF Tasks
  <2>3. CASE Deregister(d)
    <3>1. listener' = [listener EXCEPT ![d] = NoTask] /\ registered' = registered \ {d}
      BY <2>3 DEF Deregister, Aborted
    <3> QED  BY <1>1, <2>1, <3>1, TasksTyped DEF Tasks
  <2> QED  BY <2>2, <2>3
<1> QED  BY <1>2, <1>3, <1>4 DEF TypeOK, Register, Deregister, Tasks

\* remove_mapping() takes one mapping out.
LEMMA FirstOfSame ==
    ASSUME mappings \in Seq(Mapping), NEW m, RemoveMapping(m)
    PROVE  \E k \in {i \in DOMAIN mappings : mappings[i].from = m.from /\ mappings[i].to = m.to} :
              mappings' = RemoveAt(mappings, k)
<1> DEFINE same == {i \in DOMAIN mappings : mappings[i].from = m.from /\ mappings[i].to = m.to}
           first == CHOOSE i \in same : \A j \in same : i <= j
<1>1. same \subseteq Nat /\ same # {}
  <2>1. DOMAIN mappings = 1..Len(mappings) /\ Len(mappings) \in Nat  BY LenProperties
  <2> QED  BY <2>1 DEF RemoveMapping
<1>2. mappings' = RemoveAt(mappings, first)  BY DEF RemoveMapping
<1> HIDE DEF same
<1>3. PICK i \in same : \A j \in same : ~(j < i)  BY <1>1, Least
<1>4. \A j \in same : i <= j  BY <1>1, <1>3
<1>5. first \in same  BY <1>4
<1> QED  BY <1>2, <1>5 DEF same

LEMMA TypeMappings ==
    TypeOK /\ ((\E m \in Edits : AddMapping(m) \/ RemoveMapping(m))
                  \/ \E list \in Reloads : UpdateMappings(list)) => mappings' \in Seq(Mapping)
<1> SUFFICES ASSUME TypeOK PROVE
        ((\E m \in Edits : AddMapping(m) \/ RemoveMapping(m))
            \/ \E list \in Reloads : UpdateMappings(list)) => mappings' \in Seq(Mapping)
  OBVIOUS
<1>1. mappings \in Seq(Mapping) /\ DOMAIN mappings = 1..Len(mappings) /\ Len(mappings) \in Nat
  BY LenProperties DEF TypeOK
<1>2. ASSUME NEW m \in Edits, AddMapping(m) PROVE mappings' \in Seq(Mapping)
  BY <1>1, <1>2, RouterAssumption, AppendProperties DEF AddMapping
<1>3. ASSUME NEW m \in Edits, RemoveMapping(m) PROVE mappings' \in Seq(Mapping)
  <2>1. PICK k \in 1..Len(mappings) : mappings' = RemoveAt(mappings, k)
    BY <1>1, <1>3, FirstOfSame
  <2> QED  BY <1>1, <2>1, Removed
<1>4. ASSUME NEW list \in Reloads, UpdateMappings(list) PROVE mappings' \in Seq(Mapping)
  BY <1>4, RouterAssumption DEF UpdateMappings
<1> QED  BY <1>2, <1>3, <1>4

LEMMA TypeTurned == TypeOK /\ Turned => TypeOK'
<1> SUFFICES ASSUME TypeOK, NEW c \in Surfaces, NEW v \in Values, Turn(c, v) PROVE TypeOK'
  BY DEF Turned
<1>1. c \in Controls  BY RouterAssumption
<1>2. /\ stream' \in [Devices -> Seq(Reports)] /\ \A e \in Devices : Len(stream'[e]) <= StreamCap
  BY <1>1, ReportedType DEF Turn, Rung
<1> QED  BY <1>1, <1>2 DEF TypeOK, Turn

LEMMA TypeStep == TypeOK /\ [Next]_vars => TypeOK'
<1> SUFFICES ASSUME TypeOK, [Next]_vars PROVE TypeOK'  OBVIOUS
<1>1. CASE \E d \in Devices : Receive(d) \/ NextPeer(d) \/ Push(d)
  BY <1>1, TypeReceive, TypeNextPeer, TypePush
<1>2. CASE \E d \in MayLeave : Register(d) \/ Deregister(d)  BY <1>2, TypeRegistry
<1>3. CASE (\E m \in Edits : AddMapping(m) \/ RemoveMapping(m))
           \/ \E list \in Reloads : UpdateMappings(list)
  BY <1>3, TypeMappings DEF TypeOK, AddMapping, RemoveMapping, UpdateMappings
<1>4. CASE Turned  BY <1>4, TypeTurned
<1>5. CASE UNCHANGED vars  BY <1>5 DEF vars, TypeOK
<1> QED  BY <1>1, <1>2, <1>3, <1>4, <1>5 DEF Next

\* The Router keeps its types whatever devices, mappings and consoles there
\* are: rings never exceed their capacity, a task about to push has a peer,
\* and the devices listened to are the registered ones.
THEOREM TypeCorrect == Spec => []TypeOK
<1> QED  BY TypeInit, TypeStep, PTL DEF Spec

----------------------------------------------------------------------------
(* Nothing goes against a mapping *)

\* The mappings are ones that were configured, edited or reloaded, and what a
\* task has left to do lies along such a mapping.
AlongMappings ==
    /\ Range(mappings) \subseteq EverMapped
    /\ \A d \in Devices : listener[d].at \in {"peers", "push"} =>
          \A y \in Range(listener[d].peers) : \E m \in EverMapped : LeadsTo(m, ControlOf[y])

\* The peers of an address lie along the mappings there are.
LEMMA PeersAlong ==
    ASSUME TypeOK, AlongMappings, NEW a \in Addresses, NEW y \in Range(PeersOf(a))
    PROVE  \E m \in EverMapped : LeadsTo(m, ControlOf[y])
<1>1. <<a, y>> \in Directions  BY Peers
<1>2. PICK m \in Range(mappings) : m.to = y \/ (m.bidirectional /\ m.from = y)
  BY <1>1 DEF Directions
<1> QED  BY <1>2 DEF AlongMappings, LeadsTo

LEMMA AlongInit == Init => AlongMappings
<1> SUFFICES ASSUME Init PROVE AlongMappings  OBVIOUS
<1>1. Range(mappings) \subseteq EverMapped  BY DEF Init, EverMapped
<1>2. \A d \in Devices : listener[d].at = "recv"  BY TasksTyped DEF Init
<1> QED  BY <1>1, <1>2 DEF AlongMappings

LEMMA AlongMappingsStep ==
    ASSUME TypeOK, AlongMappings, (\E m \in Edits : AddMapping(m) \/ RemoveMapping(m))
                                    \/ \E list \in Reloads : UpdateMappings(list)
    PROVE  Range(mappings') \subseteq EverMapped
<1>1. mappings \in Seq(Mapping) /\ Range(mappings) \subseteq EverMapped
  BY DEF TypeOK, AlongMappings
<1>2. ASSUME NEW m \in Edits, AddMapping(m) PROVE Range(mappings') \subseteq EverMapped
  <2>1. m \in Mapping /\ m \in EverMapped  BY RouterAssumption DEF EverMapped
  <2>2. Range(mappings') = Range(mappings) \union {m}  BY <1>1, <1>2, <2>1, Elements DEF AddMapping
  <2> QED  BY <1>1, <2>1, <2>2
<1>3. ASSUME NEW m \in Edits, RemoveMapping(m) PROVE Range(mappings') \subseteq EverMapped
  <2> DEFINE same == {i \in DOMAIN mappings : mappings[i].from = m.from /\ mappings[i].to = m.to}
  <2>1. PICK k \in same : mappings' = RemoveAt(mappings, k)  BY <1>1, <1>3, FirstOfSame
  <2>2. k \in 1..Len(mappings) /\ Len(mappings) \in Nat  BY <1>1, LenProperties
  <2> HIDE DEF same
  <2> QED  BY <1>1, <2>1, <2>2, Removed
<1>4. ASSUME NEW list \in Reloads, UpdateMappings(list) PROVE Range(mappings') \subseteq EverMapped
  <2>1. Range(list) \subseteq EverMapped  BY DEF EverMapped
  <2> QED  BY <1>4, <2>1 DEF UpdateMappings
<1> QED  BY <1>2, <1>3, <1>4

LEMMA AlongStep == TypeOK /\ AlongMappings /\ [Next]_vars => AlongMappings'
<1> SUFFICES ASSUME TypeOK, AlongMappings, [Next]_vars PROVE AlongMappings'  OBVIOUS
<1> DEFINE Along(tasks) ==
      \A d \in Devices : tasks[d].at \in {"peers", "push"} =>
          \A y \in Range(tasks[d].peers) : \E m \in EverMapped : LeadsTo(m, ControlOf[y])
<1>0. Along(listener) /\ Range(mappings) \subseteq EverMapped /\ listener \in [Devices -> TaskType]
  BY DEF AlongMappings, TypeOK
<1>1. ASSUME NEW d \in Devices, Receive(d) PROVE AlongMappings'
  <2> DEFINE report == Head(stream[d])
  <2>1. stream[d] \in Seq(Reports) /\ stream[d] # <<>>  BY <1>1 DEF TypeOK, Receive
  <2>2. report \in Reports  BY <2>1, HeadTailProperties
  <2>3. report.addr \in Addresses  BY <2>2 DEF Reports
  <2>4. \A y \in Range(PeersOf(report.addr)) : \E m \in EverMapped : LeadsTo(m, ControlOf[y])
    BY <2>3, PeersAlong
  <2>5. listener' = [listener EXCEPT ![d] = [at |-> "peers", addr |-> report.addr,
                          value |-> report.value, peers |-> PeersOf(report.addr)]]
    BY <1>1 DEF Receive
  <2> HIDE DEF report
  <2>6. Along(listener')  BY <1>0, <2>4, <2>5
  <2> QED  BY <1>0, <1>1, <2>6 DEF AlongMappings, Receive
<1>2. ASSUME NEW d \in Devices, NextPeer(d) \/ Push(d) PROVE AlongMappings'
  <2>1. /\ listener[d].at \in {"peers", "push"} /\ listener[d].peers \in Seq(Addresses)
        /\ \A y \in Range(listener[d].peers) : \E m \in EverMapped : LeadsTo(m, ControlOf[y])
        /\ listener[d].at = "push" => listener[d].peers # <<>>
    BY <1>0, <1>2 DEF NextPeer, Push, TypeOK, TaskType
  <2>2. listener[d].peers # <<>> => Range(Tail(listener[d].peers)) \subseteq Range(listener[d].peers)
    BY <2>1, Elements
  <2>3. \/ listener' = [listener EXCEPT ![d] = Waiting]
        \/ listener[d].peers # <<>> /\ listener' = [listener EXCEPT ![d].peers = Tail(@)]
        \/ listener' = [listener EXCEPT ![d].at = "push"]
        \/ listener[d].peers # <<>> /\ listener' = [listener EXCEPT ![d].at = "peers", ![d].peers = Tail(@)]
    BY <1>2, <2>1 DEF NextPeer, Push
  <2>4. \A e \in Devices : \/ listener'[e].at = "recv"
                           \/ e = d /\ Range(listener'[e].peers) \subseteq Range(listener[d].peers)
                           \/ listener'[e] = listener[e]
    <3>1. listener[d] \in TaskType /\ DOMAIN listener = Devices  BY <1>0
    <3>2. \A e \in Devices : e # d => listener'[e] = listener[e]  BY <2>3, <3>1
    <3>3. CASE listener' = [listener EXCEPT ![d] = Waiting]
      BY <3>1, <3>2, <3>3, TasksTyped
    <3>4. CASE listener[d].peers # <<>> /\ listener' = [listener EXCEPT ![d].peers = Tail(@)]
      <4>1. listener'[d].peers = Tail(listener[d].peers)  BY <3>1, <3>4 DEF TaskType
      <4> QED  BY <2>2, <3>2, <3>4, <4>1
    <3>5. CASE listener' = [listener EXCEPT ![d].at = "push"]
      <4>1. listener'[d].peers = listener[d].peers  BY <3>1, <3>5 DEF TaskType
      <4> QED  BY <3>2, <4>1
    <3>6. CASE listener[d].peers # <<>> /\ listener' = [listener EXCEPT ![d].at = "peers", ![d].peers = Tail(@)]
      <4>1. listener'[d].peers = Tail(listener[d].peers)  BY <3>1, <3>6 DEF TaskType
      <4> QED  BY <2>2, <3>2, <3>6, <4>1
    <3> QED  BY <2>3, <3>3, <3>4, <3>5, <3>6
  <2>5. Along(listener')  BY <1>0, <2>1, <2>4
  <2> QED  BY <1>0, <1>2, <2>5 DEF AlongMappings, NextPeer, Push
<1>3. ASSUME NEW d \in MayLeave, Register(d) \/ Deregister(d) PROVE AlongMappings'
  <2>1. Along(listener')  BY <1>0, <1>3, TasksTyped DEF Register, Deregister, Aborted
  <2> QED  BY <1>0, <1>3, <2>1 DEF AlongMappings, Register, Deregister
<1>4. CASE (\E m \in Edits : AddMapping(m) \/ RemoveMapping(m))
           \/ \E list \in Reloads : UpdateMappings(list)
  <2>1. Range(mappings') \subseteq EverMapped  BY <1>4, AlongMappingsStep
  <2> QED  BY <1>0, <1>4, <2>1 DEF AlongMappings, AddMapping, RemoveMapping, UpdateMappings
<1>5. CASE Turned  BY <1>0, <1>5 DEF AlongMappings, Turned, Turn
<1>6. CASE UNCHANGED vars  BY <1>0, <1>6 DEF AlongMappings, vars
<1> QED  BY <1>1, <1>2, <1>3, <1>4, <1>5, <1>6 DEF Next

LEMMA DownstreamStep == TypeOK /\ AlongMappings /\ [Next]_vars => [Downstream]_vars
<1> SUFFICES ASSUME TypeOK, AlongMappings, Next, NEW c \in Controls, value'[c] # value[c], ~Turned
             PROVE  \E m \in EverMapped : LeadsTo(m, c)
  BY DEF Downstream, vars
<1>1. PICK d \in Devices : Push(d)
  BY DEF Next, Receive, NextPeer, Register, Deregister, AddMapping, RemoveMapping, UpdateMappings
<1> DEFINE peer == Head(listener[d].peers)
<1>2. value' = [value EXCEPT ![ControlOf[peer]] = listener[d].value]  BY <1>1 DEF Push
<1>3. c = ControlOf[peer]  BY <1>2 DEF TypeOK
<1>4. listener[d].at = "push" /\ listener[d].peers \in Seq(Addresses) /\ listener[d].peers # <<>>
  BY <1>1 DEF Push, TypeOK, TaskType
<1>5. peer \in Range(listener[d].peers)  BY <1>4, Elements
<1> QED  BY <1>3, <1>4, <1>5 DEF AlongMappings

\* "A one-way mapping mirrors changes from `from` to `to` only" (docs/API.md):
\* whatever devices register, leave and fail, and whatever mappings are added,
\* removed and reloaded meanwhile, the Router changes no control that no
\* mapping has led to.
THEOREM NothingUpstream == Spec => NeverUpstream
<1>1. Init /\ [][Next]_vars => [](TypeOK /\ AlongMappings)
  BY TypeInit, TypeStep, AlongInit, AlongStep, PTL
<1> QED  BY <1>1, DownstreamStep, PTL DEF Spec, NeverUpstream

----------------------------------------------------------------------------
(* One turn at a time *)

\* The directions the configured mappings have, and where they lead.
Ways == {<<m.from, m.to>> : m \in Range(Mappings)}
        \union {<<m.to, m.from>> : m \in {n \in Range(Mappings) : n.bidirectional}}
Targets == {w[2] : w \in Ways}

\* Engineers turn one control at a time, and the mappings stay.
OneAtATime == Patient = TRUE /\ Edits = {} /\ Reloads = {} /\ IsFiniteSet(Devices)

Busy(d) == listener[d].at \in {"peers", "push"}
Pushing == {d \in Devices : listener[d].at = "push"}

\* While it travels, v is all there is to report and to push.
OneValue(v) ==
    /\ \A d \in Devices : \A r \in Range(stream[d]) : r.value = v
    /\ \A d \in Devices : Busy(d) =>
          /\ listener[d].value = v
          /\ \A y \in Range(listener[d].peers) : <<listener[d].addr, y>> \in Ways

\* The addresses claimed for v: each set was claimed at one of them first, and
\* so was each that waits for its adapter.
Told(v) == {y \in Targets : known[y] = v}
Counted(v) == sets + Cardinality(Pushing) <= Cardinality(Told(v))
SetsInv == mappings = Mappings /\ \E v \in Values : OneValue(v) /\ Counted(v)

LEMMA WaysFinite ==
    /\ IsFiniteSet(Ways) /\ IsFiniteSet(Targets)
    /\ Cardinality(Ways) \in Nat /\ Cardinality(Targets) \in Nat
    /\ Cardinality(Targets) <= Cardinality(Ways)
<1> DEFINE M == Range(Mappings)
           N == {n \in M : n.bidirectional}
           forth == {<<m.from, m.to>> : m \in M}
           back == {<<m.to, m.from>> : m \in N}
<1>1. Mappings \in Seq(Mapping) /\ Len(Mappings) \in Nat  BY RouterAssumption, LenProperties
<1>2. IsFiniteSet(1..Len(Mappings))  BY <1>1, FS_Interval
<1>3. M = {Mappings[i] : i \in 1..Len(Mappings)}  BY <1>1, RangeEquality
<1>4. IsFiniteSet(M)
  <2> DEFINE f == [i \in 1..Len(Mappings) |-> Mappings[i]]
  <2>1. f \in Surjection(1..Len(Mappings), M)  BY <1>3 DEF Surjection
  <2> QED  BY <1>2, <2>1, FS_Surjection
<1>5. IsFiniteSet(forth)
  <2> DEFINE f == [m \in M |-> <<m.from, m.to>>]
  <2>1. f \in Surjection(M, forth)  BY DEF Surjection
  <2> QED  BY <1>4, <2>1, FS_Surjection
<1>6. IsFiniteSet(back)
  <2> DEFINE f == [m \in N |-> <<m.to, m.from>>]
  <2>1. f \in Surjection(N, back)  BY DEF Surjection
  <2>2. IsFiniteSet(N)  BY <1>4, FS_Subset
  <2> QED  BY <2>1, <2>2, FS_Surjection
<1>7. IsFiniteSet(Ways)  BY <1>5, <1>6, FS_Union DEF Ways
<1>8. IsFiniteSet(Targets) /\ Cardinality(Targets) <= Cardinality(Ways)
  <2> DEFINE f == [w \in Ways |-> w[2]]
  <2>1. f \in Surjection(Ways, Targets)  BY DEF Surjection, Targets
  <2> QED  BY <1>7, <2>1, FS_Surjection
<1> QED  BY <1>7, <1>8, FS_CardinalityType

LEMMA WaysAddressed == Ways \subseteq Addresses \X Addresses /\ Targets \subseteq Addresses
<1>1. Range(Mappings) \subseteq Mapping  BY RouterAssumption, RangeOfSeq
<1>2. \A m \in Mapping : m.from \in Addresses /\ m.to \in Addresses  BY DEF Mapping
<1>3. Ways \subseteq Addresses \X Addresses  BY <1>1, <1>2 DEF Ways
<1> QED  BY <1>3 DEF Targets

\* A report on a ring was there before or is the one just made.
LEMMA Reporting ==
    ASSUME TypeOK, NEW c \in Controls, NEW v \in Values, NEW e, NEW d \in Devices,
           NEW r \in Range(Reported(c, v, e)[d])
    PROVE  \/ r \in Range(stream[d])
           \/ r.value = v /\ r.addr \in Addresses /\ r.addr[1] = d /\ ControlOf[r.addr] = c
<1> DEFINE here == {a \in Addresses : a[1] = d /\ ControlOf[a] = c}
           new == [addr |-> CHOOSE a \in here : TRUE, value |-> v]
<1>1. Reported(c, v, e)[d] = IF here = {} \/ d \notin registered \/ d = e THEN stream[d]
                             ELSE Sent(stream[d], new)
  BY DEF Reported
<1>2. CASE here = {} \/ d \notin registered \/ d = e  BY <1>1, <1>2
<1>3. CASE ~(here = {} \/ d \notin registered \/ d = e)
  <2>1. new.addr \in here /\ new.value = v  BY <1>3
  <2>2. new \in Reports  BY <2>1 DEF Reports
  <2>3. stream[d] \in Seq(Reports) /\ Len(stream[d]) <= StreamCap  BY DEF TypeOK
  <2>4. Reported(c, v, e)[d] = Sent(stream[d], new)  BY <1>1, <1>3
  <2> HIDE DEF new
  <2>5. Range(Sent(stream[d], new)) \subseteq Range(stream[d]) \union {new}  BY <2>2, <2>3, Rings
  <2> QED  BY <2>1, <2>4, <2>5
<1> QED  BY <1>2, <1>3

\* At rest there is nothing to report and nothing to push.
LEMMA AtRest ==
    ASSUME TypeOK, Quiet, NEW d \in Devices
    PROVE  Range(stream[d]) = {} /\ ~Busy(d) /\ Pushing = {}
BY DEF TypeOK, Quiet, Busy, Pushing, Range

LEMMA FixedMappings ==
    OneAtATime /\ [Next]_vars => UNCHANGED mappings
BY DEF OneAtATime, Next, Receive, NextPeer, Push, Register, Deregister, Turned, Turn, vars

\* One value travels at a time, along the mappings.
LEMMA OneValueReceive ==
    ASSUME TypeOK, mappings = Mappings, NEW v \in Values, OneValue(v), NEW d \in Devices, Receive(d)
    PROVE  /\ Head(stream[d]) \in Range(stream[d]) /\ Head(stream[d]) \in Reports
           /\ Head(stream[d]).value = v
           /\ Range(stream[d]) = {Head(stream[d])} \union Range(stream'[d])
           /\ OneValue(v)' /\ Pushing' = Pushing
<1> DEFINE report == Head(stream[d])
<1>1. stream[d] \in Seq(Reports) /\ stream[d] # <<>>  BY DEF TypeOK, Receive
<1>2. /\ report \in Range(stream[d]) /\ report \in Reports
      /\ Range(stream[d]) = {report} \union Range(Tail(stream[d]))
  BY <1>1, Elements, HeadTailProperties
<1>3. stream' = [stream EXCEPT ![d] = Tail(stream[d])] /\ stream \in [Devices -> Seq(Reports)]
  BY DEF Receive, TypeOK
<1>4. report.value = v /\ report.addr \in Addresses  BY <1>2 DEF OneValue, Reports
<1>5. \A y \in Range(PeersOf(report.addr)) : <<report.addr, y>> \in Ways
  BY <1>4, Peers DEF Directions, Ways
<1>6. /\ listener' = [listener EXCEPT ![d] = [at |-> "peers", addr |-> report.addr,
                          value |-> report.value, peers |-> PeersOf(report.addr)]]
      /\ listener[d].at = "recv" /\ listener \in [Devices -> TaskType]
  BY DEF Receive, TypeOK
<1> HIDE DEF report
<1>7. \A e \in Devices : \A r \in Range(stream'[e]) : r.value = v
  BY <1>2, <1>3 DEF OneValue
<1>8. \A e \in Devices : Busy(e)' =>
          /\ listener'[e].value = v
          /\ \A y \in Range(listener'[e].peers) : <<listener'[e].addr, y>> \in Ways
  BY <1>4, <1>5, <1>6 DEF OneValue, Busy
<1>9. Pushing' = Pushing  BY <1>6 DEF Pushing
<1>10. Range(stream[d]) = {report} \union Range(stream'[d])  BY <1>2, <1>3
<1> QED  BY <1>2, <1>4, <1>7, <1>8, <1>9, <1>10 DEF OneValue, report

\* What a step of a task makes of it.
LEMMA TaskSteps ==
    ASSUME TypeOK, NEW d \in Devices, NextPeer(d) \/ Push(d)
    PROVE  /\ Busy(d) /\ listener[d] \in TaskType /\ listener[d].peers \in Seq(Addresses)
           /\ \A e \in Devices : e # d => listener'[e] = listener[e]
           /\ \/ listener[d].peers = <<>> /\ listener'[d] = Waiting /\ NextPeer(d)
              \/ /\ listener[d].peers # <<>> /\ Head(listener[d].peers) \in Addresses
                 /\ Head(listener[d].peers) \in Range(listener[d].peers)
                 /\ Range(listener[d].peers) = {Head(listener[d].peers)} \union Range(Tail(listener[d].peers))
                 /\ listener'[d].addr = listener[d].addr /\ listener'[d].value = listener[d].value
                 /\ \/ NextPeer(d) /\ listener'[d].at = "push" /\ listener'[d].peers = listener[d].peers
                    \/ listener'[d].at = "peers" /\ listener'[d].peers = Tail(listener[d].peers)
<1>1. listener \in [Devices -> TaskType] /\ listener[d] \in TaskType  BY DEF TypeOK
<1>2. Busy(d) /\ listener[d].peers \in Seq(Addresses) /\ (Push(d) => listener[d].peers # <<>>)
  BY <1>1 DEF Busy, NextPeer, Push, TypeOK, TaskType
<1>3. ASSUME listener[d].peers # <<>>
      PROVE  /\ Head(listener[d].peers) \in Addresses
             /\ Head(listener[d].peers) \in Range(listener[d].peers)
             /\ Range(listener[d].peers) = {Head(listener[d].peers)} \union Range(Tail(listener[d].peers))
  BY <1>2, <1>3, Elements, HeadTailProperties
<1>4. \/ listener[d].peers = <<>> /\ listener' = [listener EXCEPT ![d] = Waiting] /\ NextPeer(d)
      \/ listener[d].peers # <<>> /\ listener' = [listener EXCEPT ![d].peers = Tail(@)] /\ listener[d].at = "peers"
      \/ listener[d].peers # <<>> /\ listener' = [listener EXCEPT ![d].at = "push"] /\ NextPeer(d)
      \/ listener[d].peers # <<>> /\ listener' = [listener EXCEPT ![d].at = "peers", ![d].peers = Tail(@)]
  BY <1>2 DEF NextPeer, Push
<1>5. \A e \in Devices : e # d => listener'[e] = listener[e]  BY <1>1, <1>4
<1>6. \/ listener[d].peers = <<>> /\ listener'[d] = Waiting /\ NextPeer(d)
      \/ /\ listener[d].peers # <<>>
         /\ listener'[d].addr = listener[d].addr /\ listener'[d].value = listener[d].value
         /\ \/ NextPeer(d) /\ listener'[d].at = "push" /\ listener'[d].peers = listener[d].peers
            \/ listener'[d].at = "peers" /\ listener'[d].peers = Tail(listener[d].peers)
  BY <1>1, <1>4 DEF TaskType
<1> QED  BY <1>1, <1>2, <1>3, <1>5, <1>6

LEMMA OneValueTask ==
    ASSUME TypeOK, NEW v \in Values, OneValue(v), NEW d \in Devices, NextPeer(d) \/ Push(d)
    PROVE  OneValue(v)' /\ listener[d].value = v
<1>1. listener[d].value = v  BY TaskSteps DEF OneValue
<1>2. ASSUME NEW e \in Devices, Busy(e)'
      PROVE  /\ listener'[e].value = v
             /\ \A y \in Range(listener'[e].peers) : <<listener'[e].addr, y>> \in Ways
  <2>1. CASE e # d
    <3>1. listener'[e] = listener[e]  BY <2>1, TaskSteps
    <3> QED  BY <1>2, <3>1 DEF OneValue, Busy
  <2>2. CASE e = d
    <3>1. listener'[d] # Waiting  BY <1>2, <2>2, TasksTyped DEF Busy
    <3>2. /\ listener'[d].value = v /\ listener'[d].addr = listener[d].addr
          /\ Range(listener'[d].peers) \subseteq Range(listener[d].peers)
      BY <1>1, <3>1, TaskSteps
    <3>3. Busy(d)  BY TaskSteps
    <3> QED  BY <2>2, <3>2, <3>3 DEF OneValue
  <2> QED  BY <2>1, <2>2
<1>3. ASSUME NEW e \in Devices, NEW r \in Range(stream'[e]) PROVE r.value = v
  <2>1. CASE stream' = stream  BY <1>3, <2>1 DEF OneValue
  <2>2. CASE stream' # stream
    <3> DEFINE peer == Head(listener[d].peers)
               except == IF peer[1] \in Confirms THEN None ELSE peer[1]
    <3>1. stream' = Reported(ControlOf[peer], v, except) /\ Push(d)
      BY <1>1, <2>2 DEF NextPeer, Push
    <3>2. peer \in Addresses  BY <3>1, TaskSteps, TasksTyped DEF Push, TypeOK
    <3>3. ControlOf[peer] \in Controls  BY <3>2 DEF Controls
    <3> HIDE DEF peer, except
    <3>4. r \in Range(stream[e]) \/ r.value = v  BY <1>3, <3>1, <3>3, Reporting
    <3> QED  BY <3>4 DEF OneValue
  <2> QED  BY <2>1, <2>2
<1> QED  BY <1>1, <1>2, <1>3 DEF OneValue

\* A turn at rest sets a value off.
LEMMA OneValueTurn ==
    ASSUME TypeOK, Quiet, NEW c \in Controls, NEW v \in Values, Turn(c, v)
    PROVE  OneValue(v)' /\ Pushing' = {} /\ sets' = 0
<1>1. ASSUME NEW e \in Devices PROVE ~Busy(e)' /\ \A r \in Range(stream'[e]) : r.value = v
  <2>1. ~Busy(e)'  BY AtRest DEF Busy, Turn
  <2>2. stream' = Reported(c, v, None)  BY DEF Turn
  <2>3. \A r \in Range(stream'[e]) : r.value = v  BY <2>2, Reporting, AtRest
  <2> QED  BY <2>1, <2>3
<1>2. Pushing' = {}  BY <1>1 DEF Pushing, Busy
<1> QED  BY <1>1, <1>2 DEF OneValue, Turn

LEMMA OneValueRegistry ==
    ASSUME TypeOK, NEW v \in Values, OneValue(v), NEW d \in MayLeave, Register(d) \/ Deregister(d)
    PROVE  OneValue(v)' /\ Pushing' \subseteq Pushing /\ UNCHANGED <<known, value, sets>>
<1>1. d \in Devices  BY RouterAssumption
<1>2. \A e \in Devices : \/ stream'[e] = stream[e] /\ listener'[e] = listener[e]
                         \/ stream'[e] = <<>> /\ ~Busy(e)'
  BY <1>1, TasksTyped DEF TypeOK, Register, Deregister, Aborted, Busy
<1>3. Range(<<>>) = {}  BY DEF Range
<1>4. OneValue(v)'  BY <1>2, <1>3 DEF OneValue, Busy
<1>5. Pushing' \subseteq Pushing  BY <1>2 DEF Pushing, Busy
<1> QED  BY <1>4, <1>5 DEF Register, Deregister

LEMMA SetsInit == OneAtATime /\ Init => SetsInv
<1> SUFFICES ASSUME OneAtATime, Init PROVE SetsInv  OBVIOUS
<1>1. \A d \in Devices : stream[d] = <<>> /\ ~Busy(d) /\ listener[d].at = "recv"
  BY TasksTyped DEF Init, Busy
<1>2. Range(<<>>) = {}  BY DEF Range
<1>3. OneValue(Start)  BY <1>1, <1>2 DEF OneValue
<1>4. Pushing = {} /\ sets = 0  BY <1>1 DEF Pushing, Init
<1>5. IsFiniteSet(Told(Start))  BY WaysFinite, FS_Subset DEF Told
<1>6. Counted(Start)  BY <1>4, <1>5, FS_EmptySet, FS_CardinalityType DEF Counted
<1> QED  BY <1>3, <1>6, RouterAssumption DEF SetsInv, Init

\* What is known of an address only comes to be v, so the claims are not lost.
LEMMA ToldGrows ==
    ASSUME NEW v, \A y \in Targets : known[y] = v => known'[y] = v
    PROVE  /\ IsFiniteSet(Told(v)) /\ IsFiniteSet(Told(v)')
           /\ Cardinality(Told(v)) \in Nat /\ Cardinality(Told(v)') \in Nat
           /\ Cardinality(Told(v)) <= Cardinality(Told(v)')
<1>1. Told(v) \subseteq Told(v)' /\ Told(v)' \subseteq Targets  BY DEF Told
<1>2. IsFiniteSet(Told(v)')  BY <1>1, WaysFinite, FS_Subset
<1> QED  BY <1>1, <1>2, FS_Subset, FS_CardinalityType

LEMMA CountedReceive ==
    ASSUME OneAtATime, TypeOK, mappings = Mappings, NEW v \in Values, OneValue(v), Counted(v),
           NEW d \in Devices, Receive(d)
    PROVE  Counted(v)'
<1>1. known' = [known EXCEPT ![Head(stream[d]).addr] = v] /\ sets' = sets /\ Pushing' = Pushing
  BY OneValueReceive DEF Receive, Recorded
<1>2. \A y : known[y] = v /\ y \in Addresses => known'[y] = v  BY <1>1 DEF TypeOK
<1>3. Targets \subseteq Addresses  BY WaysAddressed
<1>4. /\ Cardinality(Told(v)) \in Nat /\ Cardinality(Told(v)') \in Nat
      /\ Cardinality(Told(v)) <= Cardinality(Told(v)')
  BY <1>2, <1>3, ToldGrows
<1>5. IsFiniteSet(Pushing) /\ sets \in Nat  BY FS_Subset DEF Pushing, OneAtATime, TypeOK
<1>6. Cardinality(Pushing) \in Nat  BY <1>5, FS_CardinalityType
<1> QED  BY <1>1, <1>4, <1>5, <1>6 DEF Counted

LEMMA CountedTask ==
    ASSUME OneAtATime, TypeOK, NEW v \in Values, OneValue(v), Counted(v),
           NEW d \in Devices, NextPeer(d) \/ Push(d)
    PROVE  Counted(v)'
<1> DEFINE peer == Head(listener[d].peers)
<1>1. IsFiniteSet(Pushing) /\ sets \in Nat  BY FS_Subset DEF Pushing, OneAtATime, TypeOK
<1>2. Cardinality(Pushing) \in Nat  BY <1>1, FS_CardinalityType
<1>3. Targets \subseteq Addresses /\ listener[d].value = v  BY WaysAddressed, OneValueTask
<1>4. listener \in [Devices -> TaskType]  BY DEF TypeOK
<1>5. CASE NextPeer(d) /\ known' = known
  <2>0. ~(listener[d].peers # <<>> /\ known[peer] # v /\ known' = [known EXCEPT ![peer] = v])
    <3>1. listener[d].peers # <<>> => peer \in Addresses  BY <1>5, TaskSteps, TasksTyped
    <3> QED  BY <1>5, <3>1 DEF TypeOK
  <2>1. listener'[d].at # "push"
    <3> HIDE DEF peer
    <3>1. ~(listener[d].peers # <<>> /\ ~Suppressed(peer, listener[d].value) /\ known' = Claimed(d))
      BY <1>3, <2>0 DEF Suppressed, Claimed, peer
    <3>2. /\ listener[d].at = "peers"
          /\ \/ listener' = [listener EXCEPT ![d] = Waiting]
             \/ listener' = [listener EXCEPT ![d].peers = Tail(@)]
      BY <1>5, <3>1 DEF NextPeer, peer
    <3>3. CASE listener' = [listener EXCEPT ![d] = Waiting]
      <4>1. listener'[d] = Waiting  BY <1>4, <3>3
      <4> QED  BY <4>1, TasksTyped
    <3>4. CASE listener' = [listener EXCEPT ![d].peers = Tail(@)]
      BY <1>4, <3>2, <3>4 DEF TaskType
    <3> QED  BY <3>2, <3>3, <3>4
  <2>2. Pushing' = Pushing
    <3>1. listener[d].at # "push"  BY <1>5 DEF NextPeer
    <3>2. \A e \in Devices : e # d => listener'[e] = listener[e]  BY TaskSteps
    <3> QED  BY <2>1, <3>1, <3>2 DEF Pushing
  <2> QED  BY <1>5, <2>2 DEF Counted, Told, NextPeer
<1>6. CASE NextPeer(d) /\ known' # known
  <2>1. /\ listener[d].peers # <<>> /\ known[peer] # v /\ known' = [known EXCEPT ![peer] = v]
        /\ listener'[d].at = "push" /\ listener[d].at = "peers"
    <3> HIDE DEF peer
    <3>1. /\ listener[d].at = "peers" /\ listener[d].peers # <<>>
          /\ ~Suppressed(peer, listener[d].value) /\ known' = Claimed(d)
          /\ listener' = [listener EXCEPT ![d].at = "push"]
      BY <1>6 DEF NextPeer, peer
    <3>2. listener'[d].at = "push"  BY <1>4, <3>1 DEF TaskType
    <3> QED  BY <1>3, <3>1, <3>2 DEF Suppressed, Claimed, peer
  <2>2. peer \in Range(listener[d].peers) /\ peer \in Addresses /\ Busy(d)  BY <2>1, TaskSteps
  <2>3. <<listener[d].addr, peer>> \in Ways  BY <2>2 DEF OneValue
  <2>4. peer \in Targets  BY <2>3 DEF Targets
  <2>5. peer \notin Told(v) /\ Told(v)' = Told(v) \union {peer}
    BY <1>3, <2>1, <2>2, <2>4 DEF Told, TypeOK
  <2>6. d \notin Pushing /\ Pushing' = Pushing \union {d}
    BY <2>1, TaskSteps DEF Pushing
  <2>7. IsFiniteSet(Told(v))  BY WaysFinite, FS_Subset DEF Told
  <2>8. Cardinality(Told(v)') = Cardinality(Told(v)) + 1 /\ Cardinality(Told(v)) \in Nat
    BY <2>5, <2>7, FS_AddElement, FS_CardinalityType
  <2>9. Cardinality(Pushing') = Cardinality(Pushing) + 1  BY <1>1, <2>6, FS_AddElement
  <2> QED  BY <1>1, <1>2, <1>6, <2>8, <2>9 DEF Counted, NextPeer
<1>7. CASE Push(d)
  <2>1. listener'[d].at = "peers" /\ listener[d].at = "push"  BY <1>4, <1>7 DEF Push
  <2>2. d \in Pushing /\ Pushing' = Pushing \ {d}  BY <2>1, TaskSteps DEF Pushing
  <2>3. Cardinality(Pushing') = Cardinality(Pushing) - 1  BY <1>1, <2>2, FS_RemoveElement
  <2>4. sets' \in Nat /\ sets' <= sets + 1 /\ known' = known  BY <1>1, <1>7 DEF Push
  <2>5. Told(v)' = Told(v)  BY <2>4 DEF Told
  <2>6. Cardinality(Told(v)) \in Nat
    BY WaysFinite, FS_Subset, FS_CardinalityType DEF Told
  <2> QED  BY <1>1, <1>2, <2>3, <2>4, <2>5, <2>6 DEF Counted
<1> QED  BY <1>5, <1>6, <1>7

LEMMA SetsStep == OneAtATime /\ TypeOK /\ SetsInv /\ [Next]_vars => SetsInv'
<1> SUFFICES ASSUME OneAtATime, TypeOK, mappings = Mappings, [Next]_vars,
                    NEW v \in Values, OneValue(v), Counted(v)
             PROVE  \E w \in Values : OneValue(w)' /\ Counted(w)'
  BY FixedMappings DEF SetsInv
<1>1. ASSUME NEW d \in Devices, Receive(d) PROVE OneValue(v)' /\ Counted(v)'
  BY <1>1, OneValueReceive, CountedReceive
<1>2. ASSUME NEW d \in Devices, NextPeer(d) \/ Push(d) PROVE OneValue(v)' /\ Counted(v)'
  BY <1>2, OneValueTask, CountedTask
<1>3. ASSUME NEW d \in MayLeave, Register(d) \/ Deregister(d) PROVE OneValue(v)' /\ Counted(v)'
  <2>1. OneValue(v)' /\ Pushing' \subseteq Pushing /\ UNCHANGED <<known, value, sets>>
    BY <1>3, OneValueRegistry
  <2>2. IsFiniteSet(Pushing)  BY FS_Subset DEF Pushing, OneAtATime
  <2>3. /\ Cardinality(Pushing) \in Nat /\ Cardinality(Pushing') \in Nat
        /\ Cardinality(Pushing') <= Cardinality(Pushing)
    BY <2>1, <2>2, FS_Subset, FS_CardinalityType
  <2>4. Told(v)' = Told(v) /\ Cardinality(Told(v)) \in Nat
    BY <2>1, WaysFinite, FS_Subset, FS_CardinalityType DEF Told
  <2> QED  BY <2>1, <2>3, <2>4 DEF Counted, TypeOK
<1>4. ASSUME NEW c \in Surfaces, NEW w \in Values, Turn(c, w) PROVE OneValue(w)' /\ Counted(w)'
  <2>1. Quiet /\ c \in Controls  BY <1>4, RouterAssumption DEF Turn, OneAtATime
  <2>2. OneValue(w)' /\ Pushing' = {} /\ sets' = 0  BY <1>4, <2>1, OneValueTurn
  <2>3. Cardinality(Told(w)') \in Nat
    BY WaysFinite, FS_Subset, FS_CardinalityType DEF Told
  <2> QED  BY <2>2, <2>3, FS_EmptySet DEF Counted
<1>5. CASE UNCHANGED vars
  BY <1>5 DEF vars, OneValue, Counted, Busy, Pushing, Told
<1> QED  BY <1>1, <1>2, <1>3, <1>4, <1>5 DEF Next, OneAtATime, Turned

LEMMA SetsBounded == OneAtATime /\ TypeOK /\ SetsInv => OneSetPerDirection
<1> SUFFICES ASSUME OneAtATime, TypeOK, mappings = Mappings, NEW v \in Values, Counted(v)
             PROVE  OneSetPerDirection
  BY DEF SetsInv
<1>1. Directions = Ways  BY DEF Directions, Ways
<1>2. Cardinality(Told(v)) <= Cardinality(Targets) /\ Cardinality(Told(v)) \in Nat
  BY WaysFinite, FS_Subset, FS_CardinalityType DEF Told
<1>3. Cardinality(Pushing) \in Nat  BY FS_Subset, FS_CardinalityType DEF Pushing, OneAtATime
<1> QED  BY <1>1, <1>2, <1>3, WaysFinite DEF Counted, OneSetPerDirection, TypeOK

\* The comment of handle_event: the claim "collapses the echo storm to one `set`
\* per direction".  However many devices there are, however their mappings
\* fan out, share consoles and form rings, and though reports are lost, sets
\* fail and devices come and go, a turn costs at most one set for each
\* direction of each mapping, as long as controls are turned one at a time.
THEOREM NoEchoStorm == ASSUME OneAtATime PROVE Spec => []OneSetPerDirection
<1>1. Init => TypeOK /\ SetsInv  BY TypeInit, SetsInit
<1>2. TypeOK /\ SetsInv /\ [Next]_vars => TypeOK' /\ SetsInv'  BY TypeStep, SetsStep
<1>3. TypeOK /\ SetsInv => OneSetPerDirection  BY SetsBounded
<1> QED  BY <1>1, <1>2, <1>3, PTL DEF Spec

----------------------------------------------------------------------------
(* What the Router knows *)

\* No device refuses a set or leaves; an object of a device is a control of its
\* own; and no ring is shorter than the reports a turn can cause.
NothingFails == MayRefuse = {} /\ MayLeave = {}
OneAddressEach ==
    \A a, b \in Addresses : a[1] = b[1] /\ ControlOf[a] = ControlOf[b] => a = b
RingsSuffice == Cardinality(Ways) < StreamCap /\ Cardinality(Ways) <= MaxSets

ReportOf(a) == \E r \in Range(stream[a[1]]) : r.addr = a
OnItsWay(a) == \E d \in Pushing : Head(listener[d].peers) = a

\* Nothing is reported, or worked on, that the console does not hold still.
Honest(v) ==
    /\ \A d \in Devices : \A r \in Range(stream[d]) : r.addr[1] = d /\ value[ControlOf[r.addr]] = v
    /\ \A d \in Devices : Busy(d) => /\ listener[d].addr \in Addresses
                                   /\ value[ControlOf[listener[d].addr]] = v
    /\ \A d \in Pushing : known[Head(listener[d].peers)] = v

\* Where the Router is wrong, a set is about to make it right, or a report is
\* about to tell it.
KnownRight(v) ==
    \A a \in Addresses : \/ known[a] \in {None, value[ControlOf[a]]}
                         \/ known[a] = v /\ OnItsWay(a)
                         \/ value[ControlOf[a]] = v /\ ReportOf(a)

\* A set puts one report on a ring at most.
Short == \A d \in Devices : Len(stream[d]) <= sets + 1

Travels(v) == OneValue(v) /\ Counted(v) /\ Honest(v) /\ KnownRight(v)
AllThere == mappings = Mappings /\ registered = Devices /\ Short
HeldInv == AllThere /\ \E v \in Values : Travels(v)

\* While a set is due there is room for the report of it.
LEMMA RoomLeft ==
    ASSUME OneAtATime, RingsSuffice, TypeOK, Short, NEW v, Counted(v), NEW d \in Pushing
    PROVE  sets < MaxSets /\ \A e \in Devices : Len(stream[e]) < StreamCap
<1>1. IsFiniteSet(Pushing)  BY FS_Subset DEF Pushing, OneAtATime
<1>2. Cardinality(Pushing) \in Nat /\ Cardinality(Pushing) # 0  BY <1>1, FS_CardinalityType, FS_EmptySet
<1>3. Cardinality(Told(v)) <= Cardinality(Targets) /\ Cardinality(Told(v)) \in Nat
  BY WaysFinite, FS_Subset, FS_CardinalityType DEF Told
<1>4. sets + 1 <= Cardinality(Ways) /\ sets \in Nat  BY <1>2, <1>3, WaysFinite DEF Counted, TypeOK
<1>5. \A e \in Devices : Len(stream[e]) \in Nat  BY LenProperties DEF TypeOK
<1> QED  BY <1>4, <1>5, WaysFinite, RouterAssumption DEF RingsSuffice, Short

\* A ring with room loses nothing, and the device hears of its control.
LEMMA Reaching ==
    ASSUME TypeOK, registered = Devices, NEW c \in Controls, NEW v \in Values, NEW e,
           NEW d \in Devices, Len(stream[d]) < StreamCap
    PROVE  /\ Range(stream[d]) \subseteq Range(Reported(c, v, e)[d])
           /\ Len(Reported(c, v, e)[d]) <= Len(stream[d]) + 1
           /\ \A a \in Addresses : OneAddressEach /\ a[1] = d /\ ControlOf[a] = c /\ d # e
                  => \E r \in Range(Reported(c, v, e)[d]) : r.addr = a
<1> DEFINE here == {a \in Addresses : a[1] = d /\ ControlOf[a] = c}
           new == [addr |-> CHOOSE a \in here : TRUE, value |-> v]
<1>1. Reported(c, v, e)[d] = IF here = {} \/ d \notin registered \/ d = e THEN stream[d]
                             ELSE Sent(stream[d], new)
  BY DEF Reported
<1>2. stream[d] \in Seq(Reports) /\ Len(stream[d]) <= StreamCap /\ Len(stream[d]) \in Nat
  BY LenProperties DEF TypeOK
<1>3. CASE here = {} \/ d = e  BY <1>1, <1>2, <1>3
<1>4. CASE ~(here = {} \/ d = e)
  <2>1. new.addr \in here /\ new.value = v  BY <1>4
  <2>2. new \in Reports  BY <2>1 DEF Reports
  <2>3. Reported(c, v, e)[d] = Sent(stream[d], new)  BY <1>1, <1>4
  <2>4. /\ Range(Sent(stream[d], new)) = Range(stream[d]) \union {new}
        /\ Len(Sent(stream[d], new)) <= Len(stream[d]) + 1
    <3> HIDE DEF new
    <3> QED  BY <1>2, <2>2, Rings
  <2>5. ASSUME NEW a \in Addresses, OneAddressEach, a[1] = d, ControlOf[a] = c
        PROVE  new.addr = a
    <3> HIDE DEF new
    <3> QED  BY <2>1, <2>5 DEF OneAddressEach
  <2> HIDE DEF new
  <2> QED  BY <2>3, <2>4, <2>5
<1> QED  BY <1>3, <1>4

\* A set that nothing prevents.
LEMMA PushEffect ==
    ASSUME TypeOK, NothingFails, registered = Devices, NEW v, OneValue(v), NEW d \in Devices, Push(d)
    PROVE  LET peer == Head(listener[d].peers)
           IN /\ peer \in Addresses /\ peer[1] \in Devices /\ ControlOf[peer] \in Controls
              /\ <<listener[d].addr, peer>> \in Ways /\ d \in Pushing
              /\ value' = [value EXCEPT ![ControlOf[peer]] = v]
              /\ stream' = Reported(ControlOf[peer], v, IF peer[1] \in Confirms THEN None ELSE peer[1])
              /\ sets < MaxSets => sets' = sets + 1
              /\ known' = known
<1> DEFINE peer == Head(listener[d].peers)
<1>1. listener[d].at = "push" /\ d \in Pushing /\ Busy(d)  BY DEF Push, Pushing, Busy
<1>2. listener[d].peers # <<>>  BY <1>1 DEF TypeOK
<1>3. peer \in Addresses /\ peer \in Range(listener[d].peers)  BY <1>2, TaskSteps, TasksTyped
<1>4. peer[1] \in Devices /\ ControlOf[peer] \in Controls  BY <1>3, RouterAssumption DEF Controls
<1>5. listener[d].value = v /\ <<listener[d].addr, peer>> \in Ways  BY <1>1, <1>3 DEF OneValue
<1> QED  BY <1>1, <1>3, <1>4, <1>5 DEF Push, NothingFails

LEMMA PushingHeads ==
    ASSUME TypeOK, NEW d \in Pushing
    PROVE  Head(listener[d].peers) \in Addresses
<1>1. listener[d].peers \in Seq(Addresses) /\ listener[d].peers # <<>>  BY DEF TypeOK, TaskType, Pushing
<1> QED  BY <1>1, HeadTailProperties

LEMMA HeldReceive ==
    ASSUME TypeOK, AllThere, NEW v \in Values, Travels(v), NEW d \in Devices, Receive(d)
    PROVE  Honest(v)' /\ KnownRight(v)' /\ Short'
<1> DEFINE report == Head(stream[d])
<1>1. /\ report \in Range(stream[d]) /\ report \in Reports /\ report.value = v
      /\ Range(stream[d]) = {report} \union Range(stream'[d]) /\ Pushing' = Pushing
      /\ mappings = Mappings /\ OneValue(v) /\ Honest(v) /\ KnownRight(v) /\ Short
  BY OneValueReceive DEF Travels, AllThere
<1>2. report.addr \in Addresses /\ report.addr[1] = d /\ value[ControlOf[report.addr]] = v
  BY <1>1 DEF Honest, Reports
<1>3. /\ known' = [known EXCEPT ![report.addr] = v] /\ known \in [Addresses -> Values \union {None}]
      /\ UNCHANGED <<value, sets>> /\ listener[d].at = "recv"
  BY <1>1 DEF Receive, Recorded, TypeOK
<1>4. /\ \A e \in Devices : e # d => stream'[e] = stream[e] /\ listener'[e] = listener[e]
      /\ listener'[d].addr = report.addr
      /\ stream[d] \in Seq(Reports) /\ stream[d] # <<>> /\ stream'[d] = Tail(stream[d])
  BY DEF Receive, TypeOK
<1> HIDE DEF report
<1>5. \A e \in Pushing : e # d /\ e \in Devices /\ listener'[e] = listener[e]
  BY <1>3, <1>4 DEF Pushing
<1>6. Honest(v)'
  <2>1. \A e \in Devices : \A r \in Range(stream'[e]) : r.addr[1] = e /\ value[ControlOf[r.addr]] = v
    BY <1>1, <1>4 DEF Honest
  <2>2. \A e \in Devices : Busy(e)' => /\ listener'[e].addr \in Addresses
                                        /\ value[ControlOf[listener'[e].addr]] = v
    BY <1>1, <1>2, <1>4 DEF Honest, Busy
  <2>3. \A a \in Addresses : known[a] = v => known'[a] = v  BY <1>3
  <2>4. \A e \in Pushing : Head(listener[e].peers) \in Addresses
    BY PushingHeads
  <2>5. \A e \in Pushing' : known'[Head(listener'[e].peers)] = v
    BY <1>1, <1>5, <2>3, <2>4 DEF Honest
  <2> QED  BY <1>3, <2>1, <2>2, <2>5 DEF Honest
<1>7. KnownRight(v)'
  <2> SUFFICES ASSUME NEW a \in Addresses
               PROVE  \/ known'[a] \in {None, value[ControlOf[a]]}
                      \/ known'[a] = v /\ OnItsWay(a)'
                      \/ value[ControlOf[a]] = v /\ ReportOf(a)'
    BY <1>3 DEF KnownRight
  <2>1. CASE a = report.addr  BY <1>2, <1>3, <2>1
  <2>2. CASE a # report.addr
    <3>1. known'[a] = known[a]  BY <1>3, <2>2
    <3>2. OnItsWay(a) => OnItsWay(a)'  BY <1>1, <1>5 DEF OnItsWay
    <3>3. a[1] \in Devices  BY RouterAssumption
    <3>4. ReportOf(a) => ReportOf(a)'
      BY <1>1, <1>4, <2>2, <3>3 DEF ReportOf
    <3> QED  BY <1>1, <3>1, <3>2, <3>4 DEF KnownRight
  <2> QED  BY <2>1, <2>2
<1>8. Short'
  <2>1. Len(stream'[d]) <= Len(stream[d]) /\ Len(stream[d]) \in Nat /\ Len(stream'[d]) \in Nat
    BY <1>4, Elements, LenProperties
  <2>2. sets' = sets /\ sets \in Nat  BY <1>3 DEF TypeOK
  <2>3. Len(stream'[d]) <= sets + 1  BY <1>1, <2>1, <2>2 DEF Short
  <2> QED  BY <1>1, <1>4, <2>2, <2>3 DEF Short
<1> QED  BY <1>6, <1>7, <1>8

\* A turn of the loop over the peers.
LEMMA HeldNextPeer ==
    ASSUME TypeOK, AllThere, NEW v \in Values, Travels(v), NEW d \in Devices, NextPeer(d)
    PROVE  Honest(v)' /\ KnownRight(v)' /\ Short' /\ \A a : OnItsWay(a) => OnItsWay(a)'
<1> DEFINE peer == Head(listener[d].peers)
<1>1. /\ OneValue(v) /\ Honest(v) /\ KnownRight(v) /\ Short
      /\ UNCHANGED <<value, stream, sets>> /\ listener[d].at = "peers" /\ Busy(d)
      /\ listener[d].value = v /\ known \in [Addresses -> Values \union {None}]
  BY OneValueTask DEF Travels, AllThere, NextPeer, Busy, TypeOK
<1>2. \A e \in Devices : e # d => listener'[e] = listener[e]  BY TaskSteps
<1>3. d \notin Pushing /\ Pushing' \ {d} = Pushing  BY <1>1, <1>2 DEF Pushing
<1>4. \A e \in Pushing : e \in Pushing' /\ listener'[e] = listener[e]
  BY <1>2, <1>3 DEF Pushing
<1>5. \/ known' = known /\ Pushing' = Pushing
      \/ /\ peer \in Addresses /\ known' = [known EXCEPT ![peer] = v]
         /\ d \in Pushing' /\ listener'[d].peers = listener[d].peers
  <2>1. CASE listener[d].peers = <<>>
    <3>1. known' = known  BY <2>1 DEF NextPeer
    <3>2. listener' = [listener EXCEPT ![d] = Waiting]  BY <2>1 DEF NextPeer
    <3>3. listener'[d].at = "recv"  BY <3>2, TasksTyped DEF TypeOK
    <3> QED  BY <1>3, <3>1, <3>3 DEF Pushing
  <2>2. CASE listener[d].peers # <<>>
    <3>1. peer \in Addresses  BY <2>2, TaskSteps, TasksTyped
    <3> HIDE DEF peer
    <3>2. \/ known' = known /\ listener' = [listener EXCEPT ![d].peers = Tail(@)]
          \/ known' = Claimed(d) /\ listener' = [listener EXCEPT ![d].at = "push"]
      BY <2>2 DEF NextPeer
    <3>3. CASE known' = known /\ listener' = [listener EXCEPT ![d].peers = Tail(@)]
      <4>1. listener'[d].at = "peers"  BY <1>1, <3>3 DEF TypeOK, TaskType
      <4> QED  BY <1>3, <3>3, <4>1 DEF Pushing
    <3>4. CASE known' = Claimed(d) /\ listener' = [listener EXCEPT ![d].at = "push"]
      <4>1. listener'[d].at = "push" /\ listener'[d].peers = listener[d].peers
        BY <3>4 DEF TypeOK, TaskType
      <4> QED  BY <1>1, <3>1, <3>4, <4>1 DEF Pushing, Claimed, peer
    <3> QED  BY <3>2, <3>3, <3>4
  <2> QED  BY <2>1, <2>2
<1>6. \A a : OnItsWay(a) => OnItsWay(a)'  BY <1>4 DEF OnItsWay
<1> HIDE DEF peer
<1>7. \A a \in Addresses : known[a] = v => known'[a] = v  BY <1>1, <1>5
<1>8. Honest(v)'
  <2>1. \A e \in Devices : Busy(e)' => /\ listener'[e].addr \in Addresses
                                        /\ value'[ControlOf[listener'[e].addr]] = v
    <3>1. listener'[d] = Waiting \/ listener'[d].addr = listener[d].addr  BY TaskSteps
    <3>2. ~(Waiting.at \in {"peers", "push"})  BY TasksTyped
    <3>3. Busy(d)' => listener'[d].addr = listener[d].addr  BY <3>1, <3>2 DEF Busy
    <3>4. \A e \in Devices : Busy(e)' => Busy(e) /\ listener'[e].addr = listener[e].addr
      BY <1>1, <1>2, <3>3 DEF Busy
    <3> QED  BY <1>1, <3>4 DEF Honest
  <2>2. \A e \in Pushing' : known'[Head(listener'[e].peers)] = v
    <3>1. \A e \in Pushing : known'[Head(listener'[e].peers)] = v
      BY <1>1, <1>4, <1>7, PushingHeads DEF Honest
    <3>2. d \in Pushing' => known'[Head(listener'[d].peers)] = v
      BY <1>1, <1>3, <1>5 DEF peer
    <3> QED  BY <1>3, <3>1, <3>2
  <2> QED  BY <1>1, <2>1, <2>2 DEF Honest
<1>9. KnownRight(v)'
  <2> SUFFICES ASSUME NEW a \in Addresses
               PROVE  \/ known'[a] \in {None, value[ControlOf[a]]}
                      \/ known'[a] = v /\ OnItsWay(a)'
                      \/ value[ControlOf[a]] = v /\ ReportOf(a)'
    BY <1>1 DEF KnownRight
  <2>1. CASE known'[a] # known[a]
    <3>1. a = peer /\ known'[a] = v /\ d \in Pushing' /\ listener'[d].peers = listener[d].peers
      BY <1>1, <1>5, <2>1
    <3>2. OnItsWay(a)'  BY <3>1 DEF OnItsWay, peer
    <3> QED  BY <3>1, <3>2
  <2>2. CASE known'[a] = known[a]
    <3>1. ReportOf(a) => ReportOf(a)'  BY <1>1 DEF ReportOf
    <3> QED  BY <1>1, <1>6, <2>2, <3>1 DEF KnownRight
  <2> QED  BY <2>1, <2>2
<1>10. Short'  BY <1>1 DEF Short
<1> QED  BY <1>6, <1>8, <1>9, <1>10

\* A set: what it changes is reported, and what it does not change stays right.
LEMMA HeldPush ==
    ASSUME OneAtATime, NothingFails, OneAddressEach, RingsSuffice, TypeOK, AllThere,
           NEW v \in Values, Travels(v), NEW d \in Devices, Push(d)
    PROVE  LET peer == Head(listener[d].peers)
           IN /\ Honest(v)' /\ KnownRight(v)' /\ Short'
              /\ \A a \in Addresses : ReportOf(a) => ReportOf(a)'
              /\ \A a : a # peer /\ OnItsWay(a) => OnItsWay(a)'
              /\ \A a \in Addresses : ControlOf[a] = ControlOf[peer]
                    => (a # peer \/ peer[1] \in Confirms => ReportOf(a)')
<1> DEFINE peer == Head(listener[d].peers)
           c == ControlOf[peer]
           except == IF peer[1] \in Confirms THEN None ELSE peer[1]
<1>1. /\ OneValue(v) /\ Honest(v) /\ KnownRight(v) /\ Short /\ registered = Devices /\ Counted(v)
      /\ value \in [Controls -> Values]
  BY DEF Travels, AllThere, TypeOK
<1>2. /\ peer \in Addresses /\ peer[1] \in Devices /\ c \in Controls /\ d \in Pushing
      /\ value' = [value EXCEPT ![c] = v] /\ known' = known
      /\ stream' = Reported(c, v, except)
      /\ sets < MaxSets => sets' = sets + 1
  BY <1>1, PushEffect
<1> HIDE DEF peer, c, except
<1>3. sets' = sets + 1 /\ \A e \in Devices : Len(stream[e]) < StreamCap
  BY <1>1, <1>2, RoomLeft
<1>4. \A a \in Addresses : a[1] \in Devices /\ ControlOf[a] \in Controls
  BY RouterAssumption DEF Controls
<1>5. \A e \in Devices : /\ Range(stream[e]) \subseteq Range(stream'[e])
                         /\ Len(stream'[e]) <= Len(stream[e]) + 1
  BY <1>1, <1>2, <1>3, Reaching
<1>6. \A a \in Addresses : ReportOf(a) => ReportOf(a)'  BY <1>4, <1>5 DEF ReportOf
<1>7. \A e \in Devices : e # d => listener'[e] = listener[e]  BY TaskSteps
<1>8. listener'[d].at = "peers" /\ listener'[d].addr = listener[d].addr /\ Busy(d)
  <2>1. listener' = [listener EXCEPT ![d].at = "peers", ![d].peers = Tail(@)]  BY DEF Push
  <2> QED  BY <2>1, TaskSteps DEF TypeOK, TaskType
<1>9. Pushing' = Pushing \ {d}  BY <1>7, <1>8 DEF Pushing
<1>10. \A a : a # peer /\ OnItsWay(a) => OnItsWay(a)'
  <2>1. \A e \in Pushing : e # d => e \in Pushing' /\ listener'[e] = listener[e]
    BY <1>7, <1>9 DEF Pushing
  <2> QED  BY <2>1 DEF OnItsWay, peer
<1>11. ASSUME NEW a \in Addresses, ControlOf[a] = c, a # peer \/ peer[1] \in Confirms
       PROVE  ReportOf(a)'
  <2>1. a[1] = peer[1] => a = peer  BY <1>2, <1>11 DEF OneAddressEach, c
  <2>2. a[1] # except  BY <1>4, <1>11, <2>1, RouterAssumption DEF except
  <2>3. \E r \in Range(stream'[a[1]]) : r.addr = a
    BY <1>1, <1>2, <1>3, <1>4, <1>11, <2>2, Reaching
  <2> QED  BY <2>3 DEF ReportOf
<1>12. \A k \in Controls : value[k] = v => value'[k] = v  BY <1>1, <1>2
<1>13. Honest(v)'
  <2>1. ASSUME NEW e \in Devices, NEW r \in Range(stream'[e])
        PROVE  r.addr[1] = e /\ value'[ControlOf[r.addr]] = v
    <3>1. CASE r \in Range(stream[e])
      <4>1. r.addr[1] = e /\ value[ControlOf[r.addr]] = v  BY <1>1, <3>1 DEF Honest
      <4>2. r \in Reports  BY <3>1, Elements DEF TypeOK
      <4>3. ControlOf[r.addr] \in Controls  BY <1>4, <4>2 DEF Reports
      <4> QED  BY <1>12, <4>1, <4>3
    <3>2. CASE r \notin Range(stream[e])
      <4>1. r.addr[1] = e /\ ControlOf[r.addr] = c  BY <1>2, <2>1, <3>2, Reporting
      <4> QED  BY <1>1, <1>2, <4>1
    <3> QED  BY <3>1, <3>2
  <2>2. ASSUME NEW e \in Devices, Busy(e)'
        PROVE  listener'[e].addr \in Addresses /\ value'[ControlOf[listener'[e].addr]] = v
    <3>1. Busy(e) /\ listener'[e].addr = listener[e].addr  BY <1>7, <1>8, <2>2 DEF Busy
    <3>2. listener[e].addr \in Addresses  BY <1>1, <3>1 DEF Honest
    <3> QED  BY <1>1, <1>4, <1>12, <3>1, <3>2 DEF Honest
  <2>3. \A e \in Pushing' : known'[Head(listener'[e].peers)] = v
    BY <1>1, <1>2, <1>7, <1>9 DEF Honest, Pushing
  <2> QED  BY <2>1, <2>2, <2>3 DEF Honest
<1>14. KnownRight(v)'
  <2> SUFFICES ASSUME NEW a \in Addresses
               PROVE  \/ known[a] \in {None, value'[ControlOf[a]]}
                      \/ known[a] = v /\ OnItsWay(a)'
                      \/ value'[ControlOf[a]] = v /\ ReportOf(a)'
    BY <1>2 DEF KnownRight
  <2>1. CASE a = peer
    <3>1. known[a] = v /\ value'[ControlOf[a]] = v  BY <1>1, <1>2, <2>1 DEF Honest, peer, c
    <3> QED  BY <3>1
  <2>2. CASE a # peer /\ ControlOf[a] = c  BY <1>1, <1>2, <1>11, <2>2
  <2>3. CASE ControlOf[a] # c
    <3>1. value'[ControlOf[a]] = value[ControlOf[a]] /\ a # peer  BY <1>1, <1>2, <1>4, <2>3 DEF c
    <3> QED  BY <1>1, <1>6, <1>10, <3>1 DEF KnownRight
  <2> QED  BY <2>1, <2>2, <2>3
<1>15. Short'
  <2>1. sets \in Nat /\ \A e \in Devices : Len(stream[e]) \in Nat  BY LenProperties DEF TypeOK
  <2>2. \A e \in Devices : Len(stream'[e]) \in Nat
    BY TypePush, LenProperties DEF TypeOK
  <2> QED  BY <1>1, <1>3, <1>5, <2>1, <2>2 DEF Short
<1> QED  BY <1>6, <1>10, <1>11, <1>13, <1>14, <1>15 DEF peer, c

\* At rest what is known is held.
LEMMA RestIsRight ==
    ASSUME TypeOK, Quiet, HeldInv, NEW a \in Addresses
    PROVE  known[a] \in {None, value[ControlOf[a]]} /\ ~ReportOf(a) /\ ~OnItsWay(a)
<1>1. a[1] \in Devices  BY RouterAssumption
<1>2. ~ReportOf(a)  BY <1>1, AtRest DEF ReportOf
<1>3. ~OnItsWay(a)  BY <1>1, AtRest DEF OnItsWay
<1> QED  BY <1>2, <1>3 DEF HeldInv, Travels, KnownRight

\* A turn: every connection to the console hears of it, and nothing else moves.
LEMMA HeldTurn ==
    ASSUME OneAddressEach, TypeOK, HeldInv, Quiet, NEW c \in Controls, NEW v \in Values, Turn(c, v)
    PROVE  /\ Honest(v)' /\ KnownRight(v)' /\ Short'
           /\ value' = [value EXCEPT ![c] = v]
           /\ \A a \in Addresses : ControlOf[a] = c => ReportOf(a)'
<1>1. /\ value' = [value EXCEPT ![c] = v] /\ stream' = Reported(c, v, None) /\ sets' = 0
      /\ UNCHANGED <<known, listener>> /\ value \in [Controls -> Values] /\ registered = Devices
  BY DEF Turn, TypeOK, HeldInv, AllThere
<1>2. \A e \in Devices : Range(stream[e]) = {} /\ ~Busy(e) /\ Pushing = {}  BY AtRest
<1>3. \A e \in Devices : Len(stream[e]) = 0 /\ Len(stream[e]) < StreamCap
  BY RouterAssumption DEF Quiet
<1>4. \A a \in Addresses : a[1] \in Devices /\ a[1] # None /\ ControlOf[a] \in Controls
  BY RouterAssumption DEF Controls
<1>5. \A a \in Addresses : ControlOf[a] = c => ReportOf(a)'
  BY <1>1, <1>3, <1>4, Reaching DEF ReportOf
<1>6. Honest(v)'
  <2>1. ASSUME NEW e \in Devices, NEW r \in Range(stream'[e])
        PROVE  r.addr[1] = e /\ value'[ControlOf[r.addr]] = v
    <3>1. r.addr[1] = e /\ ControlOf[r.addr] = c  BY <1>1, <1>2, <2>1, Reporting
    <3> QED  BY <1>1, <3>1
  <2>2. \A e \in Devices : ~Busy(e)' /\ e \notin Pushing'  BY <1>1, <1>2 DEF Busy, Pushing
  <2> QED  BY <2>1, <2>2 DEF Honest, Pushing
<1>7. KnownRight(v)'
  <2> SUFFICES ASSUME NEW a \in Addresses
               PROVE  \/ known[a] \in {None, value'[ControlOf[a]]}
                      \/ value'[ControlOf[a]] = v /\ ReportOf(a)'
    BY <1>1 DEF KnownRight
  <2>1. CASE ControlOf[a] = c  BY <1>1, <1>5, <2>1
  <2>2. CASE ControlOf[a] # c
    <3>1. value'[ControlOf[a]] = value[ControlOf[a]]  BY <1>1, <1>4, <2>2
    <3> QED  BY <3>1, RestIsRight
  <2> QED  BY <2>1, <2>2
<1>8. Short'
  <2>1. \A e \in Devices : Len(stream'[e]) <= Len(stream[e]) + 1  BY <1>1, <1>3, Reaching
  <2> QED  BY <1>1, <1>3, <2>1 DEF Short
<1> QED  BY <1>1, <1>5, <1>6, <1>7, <1>8

LEMMA HeldInit == OneAtATime /\ Init => HeldInv
<1> SUFFICES ASSUME OneAtATime, Init PROVE HeldInv  OBVIOUS
<1>1. \A d \in Devices : stream[d] = <<>> /\ ~Busy(d) /\ listener[d].at = "recv"
  BY TasksTyped DEF Init, Busy
<1>2. Range(<<>>) = {} /\ Len(<<>>) = 0  BY DEF Range
<1>3. OneValue(Start)  BY <1>1, <1>2 DEF OneValue
<1>4. Pushing = {} /\ sets = 0  BY <1>1 DEF Pushing, Init
<1>5. Cardinality(Told(Start)) \in Nat  BY WaysFinite, FS_Subset, FS_CardinalityType DEF Told
<1>6. Counted(Start)  BY <1>4, <1>5, FS_EmptySet DEF Counted
<1>7. Honest(Start)  BY <1>1, <1>2, <1>4 DEF Honest
<1>8. KnownRight(Start)  BY DEF Init, KnownRight
<1>9. Short  BY <1>1, <1>2, <1>4 DEF Short
<1> QED  BY <1>3, <1>6, <1>7, <1>8, <1>9, RouterAssumption DEF HeldInv, AllThere, Travels, Init

LEMMA TravelsTurn ==
    ASSUME OneAtATime, OneAddressEach, TypeOK, HeldInv, NEW c \in Surfaces, NEW w \in Values, Turn(c, w)
    PROVE  AllThere' /\ Travels(w)'
<1>1. Quiet /\ c \in Controls  BY RouterAssumption DEF Turn, OneAtATime
<1>2. OneValue(w)' /\ Pushing' = {} /\ sets' = 0  BY <1>1, OneValueTurn
<1>3. Cardinality(Told(w)') \in Nat  BY WaysFinite, FS_Subset, FS_CardinalityType DEF Told
<1>4. Counted(w)'  BY <1>2, <1>3, FS_EmptySet DEF Counted
<1>5. Honest(w)' /\ KnownRight(w)' /\ Short'  BY <1>1, HeldTurn
<1> QED  BY <1>2, <1>4, <1>5 DEF Travels, HeldInv, AllThere, Turn

\* The value that travels: it stays the same but for a turn, made at rest.
Turning(v) == \E c \in Surfaces : Turn(c, v)

LEMMA TravelsOn ==
    ASSUME OneAtATime, NothingFails, OneAddressEach, RingsSuffice, TypeOK, HeldInv, [Next]_vars,
           NEW v \in Values, Travels(v)
    PROVE  AllThere' /\ (Travels(v)' \/ \E w \in Values : Turning(w) /\ Travels(w)')
<1>1. AllThere /\ OneValue(v) /\ Counted(v) /\ mappings' = Mappings /\ mappings = Mappings
  BY FixedMappings DEF HeldInv, Travels, AllThere
<1>2. registered' = Devices
  BY <1>1 DEF AllThere, NothingFails, Next, Receive, NextPeer, Push, AddMapping, RemoveMapping,
              UpdateMappings, Turned, Turn, vars
<1>3. ASSUME NEW d \in Devices, Receive(d) PROVE Short' /\ Travels(v)'
  BY <1>1, <1>3, OneValueReceive, CountedReceive, HeldReceive DEF Travels
<1>4. ASSUME NEW d \in Devices, NextPeer(d) PROVE Short' /\ Travels(v)'
  BY <1>1, <1>4, OneValueTask, CountedTask, HeldNextPeer DEF Travels
<1>5. ASSUME NEW d \in Devices, Push(d) PROVE Short' /\ Travels(v)'
  BY <1>1, <1>5, OneValueTask, CountedTask, HeldPush DEF Travels
<1>6. ASSUME NEW c \in Surfaces, NEW w \in Values, Turn(c, w) PROVE Short' /\ Travels(w)'
  BY <1>6, TravelsTurn DEF AllThere
<1>7. CASE UNCHANGED vars
  BY <1>1, <1>7 DEF vars, Travels, OneValue, Counted, Honest, KnownRight, Busy, Pushing, Told,
                    ReportOf, OnItsWay, AllThere, Short
<1>8. \/ \E d \in Devices : Receive(d) \/ NextPeer(d) \/ Push(d)
      \/ \E c \in Surfaces : \E w \in Values : Turn(c, w)
      \/ UNCHANGED vars
  BY DEF Next, Turned, OneAtATime, NothingFails
<1> QED  BY <1>1, <1>2, <1>3, <1>4, <1>5, <1>6, <1>7, <1>8 DEF AllThere, Turning

LEMMA HeldStep ==
    ASSUME OneAtATime, NothingFails, OneAddressEach, RingsSuffice, TypeOK, HeldInv, [Next]_vars
    PROVE  HeldInv'
BY TravelsOn DEF HeldInv

\* last_known "tracks the value it last saw at every address - updated from both
\* incoming events and its own pushes": whenever the Router is at rest, what it
\* takes an address to hold, and would suppress a push for, is what it holds.
THEOREM KnownStaysHeld ==
    ASSUME OneAtATime, NothingFails, OneAddressEach, RingsSuffice
    PROVE  Spec => []KnownIsHeld
<1>1. Init => TypeOK /\ HeldInv  BY TypeInit, HeldInit
<1>2. TypeOK /\ HeldInv /\ [Next]_vars => TypeOK' /\ HeldInv'  BY TypeStep, HeldStep
<1>3. TypeOK /\ HeldInv => KnownIsHeld  BY RestIsRight DEF KnownIsHeld
<1> QED  BY <1>1, <1>2, <1>3, PTL DEF Spec

----------------------------------------------------------------------------
(* What the consoles agree on *)

\* Every mapping goes both ways, and where a way goes on from a device, that
\* device reports what is set on it.
BothWaysAll == \A m \in Range(Mappings) : m.bidirectional
HopsReported ==
    \A x, y, z \in Addresses : <<x, y>> \in Ways /\ <<y, z>> \in Ways
        => y[1] \in Confirms \/ ControlOf[x] = ControlOf[z]

Passing(x, y) == \E d \in Devices : Busy(d) /\ listener[d].addr = x /\ y \in Range(listener[d].peers)

\* x holds v and is about to pass it on to y.
Owes(v, x, y) == value[ControlOf[x]] = v /\ (ReportOf(x) \/ Passing(x, y) \/ OnItsWay(y))
Alike(x, y) == value[ControlOf[x]] = value[ControlOf[y]]
MirrorInv(v) ==
    \A x, y \in Addresses : <<x, y>> \in Ways => Alike(x, y) \/ Owes(v, x, y) \/ Owes(v, y, x)

LEMMA WaysBack ==
    ASSUME BothWaysAll, NEW x, NEW y, <<x, y>> \in Ways
    PROVE  <<y, x>> \in Ways
BY DEF BothWaysAll, Ways

LEMMA MirrorReceive ==
    ASSUME TypeOK, AllThere, NEW v \in Values, Travels(v), NEW d \in Devices, Receive(d),
           NEW x \in Addresses, NEW y, <<x, y>> \in Ways, Owes(v, x, y)
    PROVE  Owes(v, x, y)'
<1> DEFINE report == Head(stream[d])
<1>1. /\ Range(stream[d]) = {report} \union Range(stream'[d]) /\ Pushing' = Pushing
      /\ mappings = Mappings /\ UNCHANGED value
  BY OneValueReceive DEF Travels, AllThere, Receive
<1>2. /\ \A e \in Devices : e # d => stream'[e] = stream[e] /\ listener'[e] = listener[e]
      /\ listener'[d].addr = report.addr /\ listener'[d].peers = PeersOf(report.addr)
      /\ listener'[d].at = "peers" /\ listener[d].at = "recv"
  BY DEF Receive, TypeOK
<1> HIDE DEF report
<1>3. ReportOf(x) => ReportOf(x)' \/ Passing(x, y)'
  <2>1. CASE report.addr = x
    <3>1. y \in Range(PeersOf(x))  BY <1>1, Peers DEF Directions, Ways
    <3> QED  BY <1>2, <2>1, <3>1 DEF Passing, Busy
  <2>2. CASE report.addr # x
    <3>1. x[1] \in Devices  BY RouterAssumption
    <3> QED  BY <1>1, <1>2, <2>2, <3>1 DEF ReportOf
  <2> QED  BY <2>1, <2>2
<1>4. Passing(x, y) => Passing(x, y)'  BY <1>2 DEF Passing, Busy
<1>5. OnItsWay(y) => OnItsWay(y)'  BY <1>1, <1>2 DEF OnItsWay, Pushing
<1> QED  BY <1>1, <1>3, <1>4, <1>5 DEF Owes

\* A peer is passed over only if it holds the value or a set is about to reach it.
LEMMA MirrorNextPeer ==
    ASSUME TypeOK, AllThere, NEW v \in Values, Travels(v), NEW d \in Devices, NextPeer(d),
           NEW x \in Addresses, NEW y \in Addresses, <<x, y>> \in Ways, Owes(v, x, y)
    PROVE  Alike(x, y)' \/ Owes(v, x, y)' \/ Owes(v, y, x)'
<1> DEFINE peer == Head(listener[d].peers)
<1>1. /\ UNCHANGED <<value, stream>> /\ listener[d].value = v /\ registered = Devices
      /\ listener[d].at = "peers" /\ v # None /\ KnownRight(v)
  BY OneValueTask, RouterAssumption DEF NextPeer, Travels, AllThere
<1>2. \A a : OnItsWay(a) => OnItsWay(a)'  BY HeldNextPeer
<1>3. ReportOf(x) => ReportOf(x)'  BY <1>1 DEF ReportOf
<1>4. ReportOf(y) => ReportOf(y)'  BY <1>1 DEF ReportOf
<1>5. ASSUME NEW e \in Devices, Busy(e), listener[e].addr = x, y \in Range(listener[e].peers), e # d
      PROVE  Passing(x, y)'
  <2>1. listener'[e] = listener[e]  BY <1>5, TaskSteps
  <2> QED  BY <1>5, <2>1 DEF Passing, Busy
<1>6. ASSUME listener[d].addr = x, y \in Range(listener[d].peers)
      PROVE  Alike(x, y)' \/ Owes(v, x, y)' \/ Owes(v, y, x)'
  <2>1. listener[d].peers # <<>>  BY <1>6 DEF Range
  <2>2. /\ Range(listener[d].peers) = {peer} \union Range(Tail(listener[d].peers))
        /\ peer \in Addresses /\ listener'[d].addr = x
        /\ \/ listener'[d].at = "push" /\ listener'[d].peers = listener[d].peers
           \/ listener'[d].at = "peers" /\ listener'[d].peers = Tail(listener[d].peers)
    BY <1>6, <2>1, TaskSteps, TasksTyped
  <2>3. CASE y \in Range(listener'[d].peers)
    <3>1. Passing(x, y)'  BY <2>2, <2>3 DEF Passing, Busy
    <3> QED  BY <1>1, <3>1 DEF Owes
  <2>4. CASE y \notin Range(listener'[d].peers)
    <3>1. y = peer /\ listener'[d].at # "push"  BY <1>6, <2>2, <2>4
    <3>2. known[y] = v
      <4>1. peer[1] \in registered  BY <1>1, <2>2, RouterAssumption
      <4> HIDE DEF peer
      <4>2. \/ Suppressed(peer, v)
            \/ listener' = [listener EXCEPT ![d].at = "push"]
        BY <1>1, <2>1, <4>1 DEF NextPeer, peer
      <4>3. listener' # [listener EXCEPT ![d].at = "push"]
        BY <3>1 DEF TypeOK, TaskType
      <4> QED  BY <3>1, <4>2, <4>3 DEF Suppressed
    <3>3. value[ControlOf[y]] = v \/ OnItsWay(y)  BY <1>1, <3>2 DEF KnownRight
    <3>4. value[ControlOf[x]] = v  BY DEF Owes
    <3> QED  BY <1>1, <1>2, <3>3, <3>4 DEF Alike, Owes
  <2> QED  BY <2>3, <2>4
<1> QED  BY <1>1, <1>2, <1>3, <1>5, <1>6 DEF Owes, Passing

\* The far side of a set: where it does not go on to agree, it is heard of.
LEMMA MirrorSet ==
    ASSUME OneAtATime, NothingFails, OneAddressEach, RingsSuffice, HopsReported, TypeOK, AllThere,
           NEW v \in Values, Travels(v), NEW d \in Devices, Push(d),
           NEW x \in Addresses, NEW y \in Addresses, <<y, x>> \in Ways,
           ControlOf[y] = ControlOf[Head(listener[d].peers)]
    PROVE  Alike(x, y)' \/ Owes(v, y, x)'
<1> DEFINE peer == Head(listener[d].peers)
           z == listener[d].addr
<1>1. /\ peer \in Addresses /\ <<z, peer>> \in Ways /\ Busy(d) /\ ControlOf[peer] \in Controls
      /\ value' = [value EXCEPT ![ControlOf[peer]] = v] /\ value \in [Controls -> Values]
      /\ Honest(v)
  BY PushEffect DEF Travels, AllThere, TypeOK, Busy, Push
<1>2. z \in Addresses /\ value[ControlOf[z]] = v  BY <1>1 DEF Honest
<1>3. y # peer \/ peer[1] \in Confirms => ReportOf(y)'  BY HeldPush
<1> HIDE DEF peer, z
<1>4. value'[ControlOf[y]] = v  BY <1>1 DEF peer
<1>5. CASE ReportOf(y)'  BY <1>4, <1>5 DEF Owes
<1>6. CASE y = peer /\ peer[1] \notin Confirms
  <2>1. ControlOf[z] = ControlOf[x]  BY <1>1, <1>2, <1>6 DEF HopsReported
  <2>2. ControlOf[z] \in Controls  BY <1>2 DEF Controls
  <2>3. value'[ControlOf[x]] = v  BY <1>1, <1>2, <2>1, <2>2
  <2> QED  BY <1>4, <2>3 DEF Alike
<1> QED  BY <1>3, <1>5, <1>6

\* What a set does not reach is still owed.
LEMMA MirrorKept ==
    ASSUME OneAtATime, NothingFails, OneAddressEach, RingsSuffice, TypeOK, AllThere,
           NEW v \in Values, Travels(v), NEW d \in Devices, Push(d),
           NEW x \in Addresses, NEW y \in Addresses, Owes(v, x, y),
           ControlOf[y] # ControlOf[Head(listener[d].peers)]
    PROVE  Owes(v, x, y)'
<1> DEFINE peer == Head(listener[d].peers)
<1>1. /\ value' = [value EXCEPT ![ControlOf[peer]] = v] /\ value \in [Controls -> Values]
      /\ peer \in Addresses /\ peer # y /\ ControlOf[x] \in Controls
  BY PushEffect DEF Travels, AllThere, TypeOK, Controls
<1>2. ReportOf(x) => ReportOf(x)'  BY HeldPush
<1>3. OnItsWay(y) => OnItsWay(y)'  BY <1>1, HeldPush
<1>4. Passing(x, y) => Passing(x, y)'
  <2>1. listener' = [listener EXCEPT ![d].at = "peers", ![d].peers = Tail(@)] /\ listener[d].peers # <<>>
    BY DEF Push, TypeOK
  <2>2. /\ \A e \in Devices : e # d => listener'[e] = listener[e]
        /\ listener'[d].at = "peers" /\ listener'[d].addr = listener[d].addr
        /\ listener'[d].peers = Tail(listener[d].peers)
    BY <2>1 DEF TypeOK, TaskType
  <2>3. Range(listener[d].peers) = {peer} \union Range(Tail(listener[d].peers))
    BY <2>1, TaskSteps, TasksTyped
  <2> HIDE DEF peer
  <2> QED  BY <1>1, <2>2, <2>3 DEF Passing, Busy
<1> HIDE DEF peer
<1>5. value'[ControlOf[x]] = v  BY <1>1 DEF Owes
<1> QED  BY <1>2, <1>3, <1>4, <1>5 DEF Owes

LEMMA MirrorPush ==
    ASSUME OneAtATime, NothingFails, OneAddressEach, RingsSuffice, BothWaysAll, HopsReported,
           TypeOK, AllThere, NEW v \in Values, Travels(v), MirrorInv(v), NEW d \in Devices, Push(d)
    PROVE  MirrorInv(v)'
<1> SUFFICES ASSUME NEW x \in Addresses, NEW y \in Addresses, <<x, y>> \in Ways
             PROVE  Alike(x, y)' \/ Owes(v, x, y)' \/ Owes(v, y, x)'
  BY DEF MirrorInv
<1> DEFINE c == ControlOf[Head(listener[d].peers)]
<1>1. <<y, x>> \in Ways  BY WaysBack
<1>2. CASE ControlOf[y] = c  BY <1>1, <1>2, MirrorSet
<1>3. CASE ControlOf[x] = c
  <2>1. Alike(y, x)' \/ Owes(v, x, y)'  BY <1>3, MirrorSet
  <2> QED  BY <2>1 DEF Alike
<1>4. CASE ControlOf[x] # c /\ ControlOf[y] # c
  <2>1. Alike(x, y) \/ Owes(v, x, y) \/ Owes(v, y, x)  BY DEF MirrorInv
  <2>2. CASE Alike(x, y)
    <3>1. value' = [value EXCEPT ![c] = v] /\ value \in [Controls -> Values]
      BY PushEffect DEF Travels, AllThere, TypeOK
    <3>2. ControlOf[x] \in Controls /\ ControlOf[y] \in Controls  BY DEF Controls
    <3> HIDE DEF c
    <3> QED  BY <1>4, <2>2, <3>1, <3>2 DEF Alike
  <2>3. CASE Owes(v, x, y)  BY <1>4, <2>3, MirrorKept
  <2>4. CASE Owes(v, y, x)  BY <1>4, <2>4, MirrorKept
  <2> QED  BY <2>1, <2>2, <2>3, <2>4
<1> QED  BY <1>2, <1>3, <1>4

\* At rest all controls of a mapping agree.
LEMMA RestIsAlike ==
    ASSUME TypeOK, Quiet, HeldInv, NEW v, MirrorInv(v),
           NEW x \in Addresses, NEW y \in Addresses, <<x, y>> \in Ways
    PROVE  Alike(x, y)
<1>1. ~ReportOf(x) /\ ~ReportOf(y) /\ ~OnItsWay(x) /\ ~OnItsWay(y)  BY RestIsRight
<1>2. ~Passing(x, y) /\ ~Passing(y, x)  BY AtRest DEF Passing
<1> QED  BY <1>1, <1>2 DEF MirrorInv, Owes

LEMMA MirrorTurn ==
    ASSUME OneAddressEach, TypeOK, HeldInv, Quiet, NEW v, MirrorInv(v),
           NEW c \in Controls, NEW w \in Values, Turn(c, w)
    PROVE  MirrorInv(w)'
<1> SUFFICES ASSUME NEW x \in Addresses, NEW y \in Addresses, <<x, y>> \in Ways
             PROVE  Alike(x, y)' \/ Owes(w, x, y)' \/ Owes(w, y, x)'
  BY DEF MirrorInv
<1>1. Alike(x, y)  BY RestIsAlike
<1>2. /\ value' = [value EXCEPT ![c] = w] /\ value \in [Controls -> Values]
      /\ \A a \in Addresses : ControlOf[a] = c => ReportOf(a)'
  BY HeldTurn DEF TypeOK
<1>3. ControlOf[x] \in Controls /\ ControlOf[y] \in Controls  BY DEF Controls
<1>4. CASE ControlOf[x] = c
  <2>1. value'[ControlOf[x]] = w /\ ReportOf(x)'  BY <1>2, <1>4
  <2> QED  BY <2>1 DEF Owes
<1>5. CASE ControlOf[y] = c
  <2>1. value'[ControlOf[y]] = w /\ ReportOf(y)'  BY <1>2, <1>5
  <2> QED  BY <2>1 DEF Owes
<1>6. CASE ControlOf[x] # c /\ ControlOf[y] # c  BY <1>1, <1>2, <1>3, <1>6 DEF Alike
<1> QED  BY <1>4, <1>5, <1>6

\* The value that travels is owed wherever the ends of a way differ.
AgreeInv == AllThere /\ \E v \in Values : Travels(v) /\ MirrorInv(v)

LEMMA AgreeInit == OneAtATime /\ Init => AgreeInv
<1> SUFFICES ASSUME OneAtATime, Init PROVE AgreeInv  OBVIOUS
<1>1. PICK v \in Values : Travels(v) /\ AllThere  BY HeldInit DEF HeldInv
<1>2. ASSUME NEW x \in Addresses, NEW y \in Addresses PROVE Alike(x, y)
  BY DEF Init, Alike, Controls
<1> QED  BY <1>1, <1>2 DEF AgreeInv, MirrorInv

LEMMA AgreeStep ==
    ASSUME OneAtATime, NothingFails, OneAddressEach, RingsSuffice, BothWaysAll, HopsReported,
           TypeOK, AgreeInv, [Next]_vars
    PROVE  AgreeInv'
<1>1. PICK v \in Values : Travels(v) /\ MirrorInv(v) /\ AllThere  BY DEF AgreeInv
<1>2. HeldInv  BY <1>1 DEF HeldInv
<1>3. CASE \E c \in Surfaces : \E w \in Values : Turn(c, w)
  <2>1. PICK c \in Surfaces : \E w \in Values : Turn(c, w)  BY <1>3
  <2>2. PICK w \in Values : Turn(c, w)  BY <2>1
  <2>3. Quiet /\ c \in Controls  BY <2>2, RouterAssumption DEF Turn, OneAtATime
  <2>4. MirrorInv(w)'  BY <1>1, <1>2, <2>2, <2>3, MirrorTurn
  <2>5. Travels(w)' /\ AllThere'  BY <1>2, <2>2, TravelsTurn
  <2> QED  BY <2>4, <2>5 DEF AgreeInv
<1>4. CASE ~ \E c \in Surfaces : \E w \in Values : Turn(c, w)
  <2>1. AllThere' /\ Travels(v)'  BY <1>1, <1>2, <1>4, TravelsOn DEF Turning
  <2>2. ASSUME NEW d \in Devices, Receive(d) \/ NextPeer(d) PROVE MirrorInv(v)'
    <3> SUFFICES ASSUME NEW x \in Addresses, NEW y \in Addresses, <<x, y>> \in Ways
                 PROVE  Alike(x, y)' \/ Owes(v, x, y)' \/ Owes(v, y, x)'
      BY DEF MirrorInv
    <3>1. Alike(x, y) \/ Owes(v, x, y) \/ Owes(v, y, x)  BY <1>1 DEF MirrorInv
    <3>2. Alike(x, y) => Alike(x, y)'  BY <2>2 DEF Alike, Receive, NextPeer
    <3>3. <<y, x>> \in Ways  BY WaysBack
    <3>4. Owes(v, x, y) => Alike(x, y)' \/ Owes(v, x, y)' \/ Owes(v, y, x)'
      BY <1>1, <2>2, MirrorReceive, MirrorNextPeer
    <3>5. Owes(v, y, x) => Alike(y, x)' \/ Owes(v, y, x)' \/ Owes(v, x, y)'
      BY <1>1, <2>2, <3>3, MirrorReceive, MirrorNextPeer
    <3>6. Alike(y, x)' => Alike(x, y)'  BY DEF Alike
    <3> QED  BY <3>1, <3>2, <3>4, <3>5, <3>6
  <2>3. ASSUME NEW d \in Devices, Push(d) PROVE MirrorInv(v)'  BY <1>1, <2>3, MirrorPush
  <2>4. ASSUME UNCHANGED vars PROVE MirrorInv(v)'
    BY <1>1, <2>4 DEF vars, MirrorInv, Alike, Owes, ReportOf, Passing, OnItsWay, Busy, Pushing
  <2>5. (\E d \in Devices : Receive(d) \/ NextPeer(d) \/ Push(d)) \/ UNCHANGED vars
    BY <1>4 DEF Next, Turned, OneAtATime, NothingFails
  <2> QED  BY <2>1, <2>2, <2>3, <2>4, <2>5 DEF AgreeInv
<1> QED  BY <1>3, <1>4

\* At rest every mapping's controls agree, whatever was turned in whatever
\* order: through chains and rings of devices, and through consoles that are
\* connected twice, the last value turned reaches every control mapped to it.
THEOREM MirrorsAgree ==
    ASSUME OneAtATime, NothingFails, OneAddressEach, RingsSuffice, BothWaysAll, HopsReported
    PROVE  Spec => []MirrorsHold
<1>1. Init => TypeOK /\ AgreeInv  BY TypeInit, AgreeInit
<1>2. TypeOK /\ AgreeInv /\ [Next]_vars => TypeOK' /\ AgreeInv'  BY TypeStep, AgreeStep
<1>3. TypeOK /\ AgreeInv => MirrorsHold
  <2> SUFFICES ASSUME TypeOK, AgreeInv, Quiet, NEW i \in DOMAIN mappings
               PROVE  Mirrored(mappings[i])
    BY DEF MirrorsHold
  <2> DEFINE m == mappings[i]
  <2>1. PICK v \in Values : Travels(v) /\ MirrorInv(v) /\ AllThere  BY DEF AgreeInv
  <2>2. mappings = Mappings /\ HeldInv  BY <2>1 DEF HeldInv, AllThere
  <2>3. m \in Range(Mappings)  BY <2>2 DEF Range
  <2>4. <<m.from, m.to>> \in Ways  BY <2>3 DEF Ways
  <2>5. m.from \in Addresses /\ m.to \in Addresses  BY <2>4, WaysAddressed
  <2>6. Alike(m.from, m.to)  BY <2>1, <2>2, <2>4, <2>5, RestIsAlike
  <2> QED  BY <2>6 DEF Alike, Mirrored
<1> QED  BY <1>1, <1>2, <1>3, PTL DEF Spec
=============================================================================
