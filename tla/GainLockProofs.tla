--------------------------- MODULE GainLockProofs ---------------------------
(***************************************************************************)
(* GainLock for any desks, signals, trims and adapters.  Its books: types, *)
(* what is conserved, the ledger it implements.  What it does to its       *)
(* followers' trims: the change it reports is the change it made, what it  *)
(* owes without an error has a reason, released trims are left alone.  And *)
(* the levels: followers hear their leader as their engineers set them.    *)
(***************************************************************************)
EXTENDS GainLock, DbLawProofs, WellFoundedInduction, SequenceTheorems, FiniteSetTheorems

----------------------------------------------------------------------------
(* The configuration *)

\* The members of a signal are desks with their preamp and input numbers.
LEMMA MemberType ==
    ASSUME NEW s \in Signals
    PROVE  /\ DOMAIN Members[s] \subseteq Nat
           /\ \A k \in DOMAIN Members[s] :
                Members[s][k] \in [device : Desks, preamp : Nat, input : Nat]
<1> DEFINE M == [device : Desks, preamp : Nat, input : Nat]
<1>1. Members \in Seq(Seq(M))  BY ConfigAssumption
<1> HIDE DEF M
<1>2. s \in 1..Len(Members)  BY <1>1, LenProperties DEF Signals
<1>3. Members[s] \in Seq(M)  BY <1>1, <1>2, ElementOfSeq
<1>4. DOMAIN Members[s] = 1..Len(Members[s]) /\ Len(Members[s]) \in Nat
  BY <1>3, LenProperties
<1>5. \A k \in DOMAIN Members[s] : Members[s][k] \in M  BY <1>3, <1>4, ElementOfSeq
<1> QED  BY <1>4, <1>5 DEF M

\* A follower belongs to a signal and sits on a desk.
LEMMA FollowerType ==
    ASSUME NEW f \in Followers
    PROVE  f[1] \in Signals /\ DeskOf(f) \in Desks /\ IsLaw(TrimLaw[DeskOf(f)])
<1>1. PICK s \in Signals : f \in {<<s, k>> : k \in {j \in DOMAIN Members[s] : Members[s][j].input # 0}}
  BY DEF Followers
<1>2. PICK k \in DOMAIN Members[s] : f = <<s, k>>  BY <1>1
<1>3. k \in DOMAIN Members[s]  OBVIOUS
<1>4. Members[s][k] \in [device : Desks, preamp : Nat, input : Nat]  BY <1>3, MemberType
<1> QED  BY <1>2, <1>4, ValueAssumption DEF DeskOf

\* There are finitely many signals.
LEMMA SignalsFinite == IsFiniteSet(Signals)
<1>1. Signals = 1..Len(Members) /\ Len(Members) \in Nat  BY ConfigAssumption, LenProperties DEF Signals
<1> QED  BY <1>1, FS_Interval

\* A leader object is a preamp of the leader.
LEMMA LeaderOnoType ==
    ASSUME NEW s \in Signals, NEW l \in Desks
    PROVE  /\ LeaderOno(s, l) \in Optional(Int)
           /\ LeaderPreamp(s, l) \in Optional(Int)
           /\ LeaderProblem(s, l) \in Problems
           /\ LeaderOno(s, l) # None => <<l, LeaderOno(s, l)>> \in Knobs
           /\ LeaderProblem(s, l) = "none" <=> LeaderOno(s, l) # None
<1> DEFINE on == {k \in DOMAIN Members[s] : Members[s][k].device = l}
           first == CHOOSE k \in on : \A j \in on : k <= j
<1>1. DOMAIN Members[s] \subseteq Nat  BY MemberType
<1>2. on = {} \/ first \in on
  <2> SUFFICES ASSUME on # {} PROVE \E k \in on : \A j \in on : k <= j
    OBVIOUS
  <2>1. on \subseteq Nat  BY <1>1
  <2> HIDE DEF on
  <2>2. PICK k \in on : \A j \in on : <<j, k>> \notin OpToRel(<, Nat)
    BY <2>1, WFMin, NatLessThanWellFounded
  <2>3. \A j \in on : ~(j < k)  BY <2>1, <2>2 DEF OpToRel
  <2> QED  BY <2>1, <2>3
<1>3. on # {} => Members[s][first].preamp \in Nat  BY <1>2, MemberType
<1>4. LeaderPreamp(s, l) \in Optional(Int)  BY <1>3 DEF LeaderPreamp, Optional
<1> QED  BY <1>4 DEF LeaderOno, LeaderProblem, Optional, Knobs, Problems

----------------------------------------------------------------------------
(* The parts of a step *)

\* Where the engine reads and sets a gain there is a preamp, and it only sets
\* out to read where there is one.
Aimed ==
    \A s \in Signals : /\ live[s].ono # None => LeaderKnob(s) \in Knobs
                       /\ batch[s] = Reread => live[s].ono # None

\* An expected gain is found among the expectations.
LEMMA PositionFound ==
    ASSUME TypeOK, NEW s \in Signals, NEW v, IsExpected(s, v)
    PROVE  /\ Position(live[s].expected, v) \in 1..Len(live[s].expected)
           /\ live[s].expected[Position(live[s].expected, v)] = v
<1> DEFINE seq == live[s].expected
           hits == {i \in DOMAIN seq : seq[i] = v}
<1>1. seq \in Seq(Int)  BY DEF TypeOK, Live
<1>2. DOMAIN seq = 1..Len(seq) /\ Len(seq) \in Nat  BY <1>1, LenProperties
<1>3. hits # {}  BY DEF IsExpected
<1> HIDE DEF seq
<1>4. hits \subseteq Nat  BY <1>2
<1>5. PICK i \in hits : \A j \in hits : <<j, i>> \notin OpToRel(<, Nat)
  BY <1>3, <1>4, WFMin, NatLessThanWellFounded
<1>6. \A j \in hits : ~(j < i)  BY <1>4, <1>5 DEF OpToRel
<1>7. i \in 1..Len(seq) /\ seq[i] = v /\ i \in Nat
  <2>1. i \in DOMAIN seq /\ seq[i] = v  BY DEF hits
  <2> QED  BY <1>2, <2>1
<1>8. ASSUME NEW j \in 1..(i - 1) PROVE seq[j] # v
  <2>1. j < i /\ j \in 1..Len(seq)  BY <1>2, <1>7
  <2> QED  BY <1>2, <1>6, <2>1
<1>9. Position(seq, v) \in 1..Len(seq) /\ seq[Position(seq, v)] = v
  BY <1>2, <1>7, <1>8 DEF Position
<1> QED  BY <1>9 DEF seq

\* What is left of a signal's expectations is a sequence of gains.
LEMMA SettledType ==
    ASSUME TypeOK, NEW s \in Signals, NEW v
    PROVE  Settled(s, v) \in Seq(Int)
<1> DEFINE seq == live[s].expected
           at == Position(seq, v)
<1>1. seq \in Seq(Int) /\ Len(seq) \in Nat /\ \A i \in 1..Len(seq) : seq[i] \in Int
  <2>1. seq \in Seq(Int)  BY DEF TypeOK, Live
  <2> QED  BY <2>1, LenProperties, ElementOfSeq
<1>2. CASE IsExpected(s, v)
  <2>1. at \in 1..Len(seq)  BY <1>2, PositionFound
  <2> HIDE DEF seq, at
  <2>2. at + 1 \in Int /\ \A i \in (at + 1)..Len(seq) : seq[i] \in Int  BY <1>1, <2>1
  <2>3. SubSeq(seq, at + 1, Len(seq)) \in Seq(Int)  BY <1>1, <2>2, SubSeqProperties
  <2> QED  BY <1>2, <2>3 DEF Settled, seq, at
<1>3. CASE ~IsExpected(s, v)
  BY <1>3 DEF Settled
<1> QED  BY <1>2, <1>3

\* A leader that is read answers with a gain.
LEMMA AnswerType ==
    ASSUME TypeOK, NEW n \in Knobs
    PROVE  Answer(n) \in Int
  BY DEF TypeOK, Answer, Cached, Optional

\* The replies of a read are gains on the stream; the caches keep gains.
LEMMA ReadByType ==
    ASSUME TypeOK, NEW readers \in [Knobs -> Nat], ReadBy(readers)
    PROVE  wire' \in [Knobs -> Seq(Int)] /\ cache' \in [Knobs -> Optional(Int)]
<1>1. ASSUME NEW n \in Knobs PROVE Replies(n, readers[n]) \in Seq(Int)
  <2>1. knob[n] \in Int /\ readers[n] \in Nat  BY DEF TypeOK
  <2>2. [i \in 1..readers[n] |-> knob[n]] \in Seq(Int)  BY <2>1
  <2>3. <<knob[n]>> \in Seq(Int)  BY <2>1
  <2> QED  BY <2>2, <2>3 DEF Replies
<1>2. ASSUME NEW n \in Knobs PROVE wire[n] \o Replies(n, readers[n]) \in Seq(Int)
  BY <1>1, <1>2, ConcatProperties DEF TypeOK
<1>3. wire' \in [Knobs -> Seq(Int)]  BY <1>2 DEF ReadBy
<1>4. cache' \in [Knobs -> Optional(Int)]  BY AnswerType DEF ReadBy, TypeOK, Optional
<1> QED  BY <1>3, <1>4

\* settle() keeps the types, gives or owes each of its followers exactly what
\* it was due, never leaves it owed more, and leaves the others' books alone.
LEMMA SettleBooks ==
    ASSUME TypeOK, NEW F \in SUBSET Followers, NEW due \in [F -> Int],
           NEW dn \in SUBSET Desks, Settle(F, due, dn)
    PROVE  /\ fol' \in [Followers -> Follower] /\ down' \subseteq Desks
           /\ trim' \in [Followers -> Int] /\ base' \in [Followers -> Int]
           /\ late' \in [Followers -> Int]
           /\ \A f \in F : fol'[f].applied + fol'[f].owed = fol[f].applied + due[f]
           /\ \A f \in Followers \ F : fol'[f] = fol[f]
           /\ \A f \in F : due[f] = 0 => fol'[f].applied = fol[f].applied /\ fol'[f].owed = 0
           /\ \A f \in F : Size(fol'[f].owed) <= Size(due[f])
<1> DEFINE open == {f \in F : due[f] # 0 /\ DeskOf(f) \notin dn /\ fol[f].ono}
           gone == {f \in open : DeskOf(f) \notin connected}
           sent == open \ gone
           took(f) == NudgeApplied(TrimLaw[DeskOf(f)], trim[f], due[f])
           put(f) == NudgeTarget(TrimLaw[DeskOf(f)], trim[f], due[f])
           held(f) == due[f] # 0 /\ DeskOf(f) \in dn
           why(f, failed) == Refusal(f, IF f \in failed THEN "failed"
                                        ELSE IF f \in gone THEN "not connected" ELSE "none", held(f))
<1>1. PICK failed \in SUBSET {f \in sent : DeskOf(f) \notin answering} :
        /\ fol' = [f \in Followers |->
             IF f \notin F THEN fol[f]
             ELSE IF f \in sent \ failed
             THEN [fol[f] EXCEPT !.applied = @ + took(f), !.owed = due[f] - took(f), !.error = "none"]
             ELSE [fol[f] EXCEPT !.owed = due[f], !.error = why(f, failed)]]
        /\ trim' = [f \in Followers |-> IF f \in sent \ failed THEN put(f) ELSE trim[f]]
        /\ down' = dn \union {DeskOf(f) : f \in failed}
        /\ \E stray \in SUBSET {f \in failed : LateMoves /\ late[f] = 0} :
              late' = [f \in Followers |-> IF f \in stray THEN due[f] ELSE late[f]]
        /\ base' = base
  BY DEF Settle
<1>2. ASSUME NEW f \in F
      PROVE  /\ took(f) \in Int /\ put(f) \in Int /\ DeskOf(f) \in Desks
             /\ due[f] \in Int /\ fol[f] \in Follower /\ f \in Followers
  <2>1. IsLaw(TrimLaw[DeskOf(f)]) /\ DeskOf(f) \in Desks  BY FollowerType
  <2>2. trim[f] \in Int /\ due[f] \in Int /\ fol[f] \in Follower  BY DEF TypeOK
  <2> QED  BY <2>1, <2>2, NudgeType
<1>3. \A f \in F : why(f, failed) \in Errors
  BY <1>2 DEF Refusal, Errors, Follower
<1> HIDE DEF took, put, why
<1>4. fol' \in [Followers -> Follower]
  <2>1. ASSUME NEW f \in F
        PROVE  /\ [fol[f] EXCEPT !.applied = @ + took(f), !.owed = due[f] - took(f),
                                  !.error = "none"] \in Follower
               /\ [fol[f] EXCEPT !.owed = due[f], !.error = why(f, failed)] \in Follower
    <3>1. why(f, failed) \in Errors  BY <1>3
    <3>2. fol[f] \in Follower /\ took(f) \in Int /\ due[f] \in Int  BY <1>2
    <3>3. [fol[f] EXCEPT !.owed = due[f], !.error = why(f, failed)] \in Follower
      BY <3>1, <3>2 DEF Follower
    <3>4. [fol[f] EXCEPT !.applied = @ + took(f), !.owed = due[f] - took(f),
                         !.error = "none"] \in Follower
      <4>0. fol[f].applied \in Int /\ "none" \in Errors  BY <3>2 DEF Follower, Errors
      <4>1. fol[f].applied + took(f) \in Int /\ due[f] - took(f) \in Int /\ "none" \in Errors
        BY <3>2, <4>0
      <4>2. \A a, o \in Int : [fol[f] EXCEPT !.applied = a, !.owed = o, !.error = "none"] \in Follower
        BY <3>2, <4>1 DEF Follower
      <4> QED  BY <4>1, <4>2
    <3> QED  BY <3>3, <3>4
  <2>2. fol \in [Followers -> Follower]  BY DEF TypeOK
  <2> HIDE DEF sent
  <2> QED  BY <1>1, <2>1, <2>2
<1>5. ASSUME NEW f \in F
      PROVE  fol'[f].applied + fol'[f].owed = fol[f].applied + due[f]
  <2>1. fol[f] \in Follower /\ took(f) \in Int /\ due[f] \in Int /\ f \in Followers  BY <1>2
  <2>2. CASE f \in sent \ failed
    <3>1. fol'[f] = [fol[f] EXCEPT !.applied = @ + took(f), !.owed = due[f] - took(f),
                                   !.error = "none"]
      BY <1>1, <2>1, <2>2
    <3> QED  BY <2>1, <3>1 DEF Follower
  <2>3. CASE f \notin sent \ failed
    <3>1. fol'[f] = [fol[f] EXCEPT !.owed = due[f], !.error = why(f, failed)]
      BY <1>1, <2>1, <2>3
    <3> QED  BY <2>1, <3>1 DEF Follower
  <2> QED  BY <2>2, <2>3
<1>6. \A f \in Followers \ F : fol'[f] = fol[f]  BY <1>1
<1>7. trim' \in [Followers -> Int]  BY <1>1, <1>2 DEF TypeOK
<1>8. down' \subseteq Desks  BY <1>1, <1>2
<1>9. late' \in [Followers -> Int]  BY <1>1, <1>2 DEF TypeOK
<1>10. base' \in [Followers -> Int]  BY <1>1 DEF TypeOK
<1>11. ASSUME NEW f \in F, due[f] = 0
       PROVE  fol'[f].applied = fol[f].applied /\ fol'[f].owed = 0
  <2>1. f \notin sent  BY <1>11
  <2>2. fol[f] \in Follower /\ f \in Followers  BY <1>2
  <2> HIDE DEF sent
  <2>3. fol'[f] = [fol[f] EXCEPT !.owed = due[f], !.error = why(f, failed)]
    BY <1>1, <2>1, <2>2
  <2> QED  BY <1>11, <2>2, <2>3 DEF Follower
<1>12. ASSUME NEW f \in F
       PROVE  Size(fol'[f].owed) <= Size(due[f])
  <2>1. fol[f] \in Follower /\ due[f] \in Int /\ f \in Followers  BY <1>2
  <2>2. CASE f \in sent \ failed
    <3>1. fol'[f] = [fol[f] EXCEPT !.applied = @ + took(f), !.owed = due[f] - took(f),
                                   !.error = "none"]
      BY <1>1, <2>1, <2>2
    <3>2. fol'[f].owed = due[f] - took(f)  BY <2>1, <3>1 DEF Follower
    <3>3. IsLaw(TrimLaw[DeskOf(f)]) /\ trim[f] \in Int  BY <2>1, FollowerType DEF TypeOK
    <3>4. /\ due[f] - took(f) \in Int
          /\ due[f] >= 0 => -due[f] <= due[f] - took(f) /\ due[f] - took(f) <= due[f]
          /\ due[f] <= 0 => due[f] <= due[f] - took(f) /\ due[f] - took(f) <= -due[f]
      BY <2>1, <3>3, NudgeNeverOvershoots DEF took
    <3> QED  BY <2>1, <3>2, <3>4 DEF Size
  <2>3. CASE f \notin sent \ failed
    <3>1. fol'[f] = [fol[f] EXCEPT !.owed = due[f], !.error = why(f, failed)]
      BY <1>1, <2>1, <2>3
    <3>2. fol'[f].owed = due[f]  BY <2>1, <3>1 DEF Follower
    <3> QED  BY <2>1, <3>2 DEF Size
  <2> QED  BY <2>2, <2>3
<1> QED  BY <1>4, <1>5, <1>6, <1>7, <1>8, <1>9, <1>10, <1>11, <1>12

----------------------------------------------------------------------------
(* The inductive invariant *)

IInv == TypeOK /\ Aimed /\ Conservation

\* What does not touch the books, the gains or the leader keeps them straight.
LEMMA BooksKept ==
    ASSUME Conservation, leader' = leader, fol' = fol, locked' = locked,
           \A s \in Signals : live'[s].gain = live[s].gain /\ live'[s].reference = live[s].reference
    PROVE  Conservation'
<1>1. Following' = Following /\ \A f \in Following : f[1] \in Signals
  BY FollowerType DEF Following
<1> QED  BY <1>1 DEF Conservation

\* What neither resolves nor starts a round of reads keeps the aim.
LEMMA AimKept ==
    ASSUME Aimed, leader' = leader, \A s \in Signals : live'[s].ono = live[s].ono,
           \A s \in Signals : batch'[s] = Reread => batch[s] = Reread \/ live[s].ono # None
    PROVE  Aimed'
  BY DEF Aimed, LeaderKnob, Knobs

\* Resolving aims every signal at a preamp of the leader, and keeps types.
LEMMA ResolvedType ==
    ASSUME TypeOK, NEW l \in Desks
    PROVE  /\ ResolvedLive(l) \in [Signals -> Live]
           /\ ResolvedFol(l) \in [Followers -> Follower]
           /\ \A s \in Signals : /\ ResolvedLive(l)[s].ono = LeaderOno(s, l)
                                 /\ ResolvedLive(l)[s].ono # None => <<l, ResolvedLive(l)[s].ono>> \in Knobs
                                 /\ ResolvedLive(l)[s].problem = "none" <=> ResolvedLive(l)[s].ono # None
<1>1. ASSUME NEW s \in Signals
      PROVE  /\ LeaderOno(s, l) \in Optional(Int) /\ LeaderPreamp(s, l) \in Optional(Int)
             /\ LeaderProblem(s, l) \in Problems
             /\ LeaderOno(s, l) # None => <<l, LeaderOno(s, l)>> \in Knobs
             /\ LeaderProblem(s, l) = "none" <=> LeaderOno(s, l) # None
  BY LeaderOnoType
<1>2. ASSUME NEW s \in Signals
      PROVE  /\ live[s].gain \in Optional(Int) /\ live[s].reference \in Optional(Int)
             /\ live[s].expected \in Seq(Int) /\ None \in Optional(Int) /\ <<>> \in Seq(Int)
  BY DEF TypeOK, Live, Optional
<1>3. ResolvedLive(l) \in [Signals -> Live]  BY <1>1, <1>2 DEF ResolvedLive, Live
<1>4. ResolvedFol(l) \in [Followers -> Follower]
  <2>1. ASSUME NEW f \in Followers
        PROVE  NotFollowing \in Follower /\ HasTrim(f) \in BOOLEAN /\ TrimError(f) \in Errors
               /\ fol[f].applied \in Int /\ fol[f].owed \in Int
    <3>1. NotFollowing \in Follower  BY DEF NotFollowing, Follower, Errors
    <3>2. HasTrim(f) \in BOOLEAN  BY DEF HasTrim
    <3>3. TrimError(f) \in Errors  BY DEF TrimError, Errors
    <3>4. fol[f].applied \in Int /\ fol[f].owed \in Int  BY DEF TypeOK, Follower
    <3> QED  BY <3>1, <3>2, <3>3, <3>4
  <2> QED  BY <2>1 DEF ResolvedFol, Follower
<1>5. \A s \in Signals : /\ ResolvedLive(l)[s].ono = LeaderOno(s, l)
                         /\ ResolvedLive(l)[s].problem = LeaderProblem(s, l)
  BY DEF ResolvedLive
<1> QED  BY <1>1, <1>3, <1>4, <1>5

----------------------------------------------------------------------------
(* One lemma per action *)

\* Releasing the lock leaves books and gains as they are.
LEMMA UnlockStep == ASSUME IInv, Unlock PROVE IInv'
<1> USE DEF IInv
<1>1. TypeOK'  BY DEF Unlock, TypeOK, task, network, preampDesk, trimDesk
<1>2. Aimed'  BY AimKept DEF Unlock, task
<1>3. Conservation'  BY DEF Unlock, Conservation
<1> QED  BY <1>1, <1>2, <1>3

\* A new leader is elected only while nothing is locked, and resolving aims at it.
LEMMA SetLeaderStep == ASSUME IInv, NEW d \in Desks, SetLeader(d) PROVE IInv'
<1> USE DEF IInv
<1>1. base' \in [Followers -> Int]  BY DEF SetLeader, TypeOK
<1>2. TypeOK'  BY <1>1, ResolvedType DEF SetLeader, TypeOK, task, network, preampDesk
<1>3. Aimed'
  <2>1. batch' = batch /\ \A s \in Signals : batch[s] = None  BY DEF SetLeader, task, Free
  <2> QED  BY <2>1, ResolvedType, ValueAssumption DEF SetLeader, Aimed, LeaderKnob
<1>4. Conservation'  BY DEF SetLeader, Conservation
<1> QED  BY <1>2, <1>3, <1>4

\* The first half of nudge_preamp only remembers a gain.
LEMMA NudgePreampStep ==
    ASSUME IInv, NEW c \in Clients, NEW s \in Signals, NEW delta \in Deltas, NudgePreamp(c, s, delta)
    PROVE  IInv'
<1> USE DEF IInv
<1>1. client' \in [Clients -> Optional([signal : Signals, from : Int, to : Int])]
  <2>1. live[s].gain \in Int /\ delta \in Int
    BY ValueAssumption DEF NudgePreamp, TypeOK, Live, Optional
  <2> QED  BY <2>1 DEF NudgePreamp, TypeOK, Optional
<1>2. TypeOK'  BY <1>1 DEF NudgePreamp, TypeOK, inner, task, network, preampDesk, trimDesk
<1>3. Aimed'  BY AimKept DEF NudgePreamp, inner, task
<1>4. Conservation'  BY BooksKept DEF NudgePreamp, inner
<1> QED  BY <1>2, <1>3, <1>4

\* Setting a gain, but for who asked for it.
LEMMA SetGainStep ==
    ASSUME IInv, NEW s \in Signals, NEW v \in Int, SetGain(s, v),
           client' \in [Clients -> Optional([signal : Signals, from : Int, to : Int])]
    PROVE  IInv'
<1> USE DEF IInv
<1> DEFINE n == LeaderKnob(s)
           kept == Clamp(GainMin, GainMax, v)
<1>1. n \in Knobs /\ kept \in Int
  BY ClampType, ValueAssumption DEF SetGain, Aimed
<1>2. /\ knob' \in [Knobs -> Int] /\ cache' \in [Knobs -> Optional(Int)]
      /\ wire' \in [Knobs -> Seq(Int)]
  <2>1. TakesGain(n, v)  BY DEF SetGain
  <2>2. Append(wire[n], kept) \in Seq(Int)  BY <1>1 DEF TypeOK
  <2> HIDE DEF n, kept
  <2>3. /\ knob' \in {knob, [knob EXCEPT ![n] = kept]}
        /\ cache' \in {cache, [cache EXCEPT ![n] = kept]}
        /\ wire' \in {wire, [wire EXCEPT ![n] = Append(wire[n], kept)]}
    BY <2>1 DEF TakesGain, kept
  <2>4. [knob EXCEPT ![n] = kept] \in [Knobs -> Int]  BY <1>1 DEF TypeOK
  <2>5. kept \in Optional(Int)  BY <1>1 DEF Optional
  <2>6. [cache EXCEPT ![n] = kept] \in [Knobs -> Optional(Int)]  BY <2>5 DEF TypeOK
  <2>7. [wire EXCEPT ![n] = Append(wire[n], kept)] \in [Knobs -> Seq(Int)]  BY <2>2 DEF TypeOK
  <2> QED  BY <2>3, <2>4, <2>6, <2>7 DEF TypeOK
<1>3. live' \in [Signals -> Live]
  <2>1. Expecting(s, v) \in Seq(Int)  BY DEF Expecting, TypeOK, Live
  <2> QED  BY <2>1 DEF SetGain, TypeOK, Live
<1>4. TypeOK'  BY <1>2, <1>3 DEF SetGain, TypeOK, network, trimDesk
<1>5. /\ leader' = leader /\ fol' = fol /\ locked' = locked
      /\ \A t \in Signals : /\ live'[t].ono = live[t].ono /\ live'[t].gain = live[t].gain
                            /\ live'[t].reference = live[t].reference
                            /\ batch'[t] = Reread => batch[t] = Reread
  BY ValueAssumption DEF SetGain, TypeOK, Live
<1>6. Aimed'  BY <1>5, AimKept
<1>7. Conservation'  BY <1>5, BooksKept
<1> QED  BY <1>4, <1>6, <1>7

\* A client sets a gain.
LEMMA SetPreampStep ==
    ASSUME IInv, NEW s \in Signals, NEW v \in SetValues, SetPreamp(s, v) PROVE IInv'
<1>1. v \in Int /\ SetGain(s, v)  BY ValueAssumption DEF SetPreamp
<1>2. client' \in [Clients -> Optional([signal : Signals, from : Int, to : Int])]
  BY DEF SetPreamp, IInv, TypeOK
<1> QED  BY <1>1, <1>2, SetGainStep

\* The second half of nudge_preamp sets the gain remembered, or gives up.
LEMMA NudgePreampSetsStep ==
    ASSUME IInv, NEW c \in Clients, NudgePreampSets(c) PROVE IInv'
<1>1. client[c] \in [signal : Signals, from : Int, to : Int]
  BY DEF NudgePreampSets, IInv, TypeOK, Optional
<1>2. client' \in [Clients -> Optional([signal : Signals, from : Int, to : Int])]
  BY DEF NudgePreampSets, IInv, TypeOK, Optional
<1>3. CASE SetGain(client[c].signal, client[c].to)
  BY <1>1, <1>2, <1>3, SetGainStep
<1>4. CASE UNCHANGED <<inner, task, network, preampDesk, trimDesk>>
  <2>1. TypeOK'  BY <1>2, <1>4 DEF IInv, TypeOK, inner, task, network, preampDesk, trimDesk
  <2>2. Aimed'  BY <1>4, AimKept DEF IInv, inner, task
  <2>3. Conservation'  BY <1>4, BooksKept DEF IInv, inner
  <2> QED  BY <2>1, <2>2, <2>3 DEF IInv
<1> QED  BY <1>3, <1>4 DEF NudgePreampSets

\* Locking starts empty books; what it could not read has no reference.
LEMMA LockStep ==
    ASSUME IInv, Lock
    PROVE  /\ IInv' /\ ProblemIsTruthful'
           /\ \A s \in Signals : live'[s].reference \in {None, live'[s].gain}
           /\ \A f \in Followers : fol'[f].applied = 0 /\ fol'[f].owed = 0
<1> USE DEF IInv
<1> DEFINE now == ResolvedLive(leader)
           leads == {s \in Signals : now[s].ono # None}
           at(s) == <<leader, now[s].ono>>
<1>1. PICK answered \in SUBSET leads :
        /\ ReadBy([n \in Knobs |-> Cardinality({s \in answered : at(s) = n})])
        /\ live' = [s \in Signals |->
             IF s \in answered
             THEN [now[s] EXCEPT !.gain = Answer(at(s)), !.reference = Answer(at(s)),
                                 !.expected = Append(@, Answer(at(s)))]
             ELSE IF s \in leads /\ now[s].gain # None
             THEN [now[s] EXCEPT !.reference = now[s].gain]
             ELSE [now[s] EXCEPT !.reference = None,
                                 !.problem = IF s \in leads THEN "not armed" ELSE @]]
  BY DEF Lock
<1>2. /\ leader' = leader /\ task' = task /\ client' = client /\ network' = network
      /\ knob' = knob /\ trim' = trim /\ late' = late /\ base' = trim /\ down' = {}
      /\ locked' = TRUE /\ fol' = NewBooks /\ batch' = batch /\ Free
  BY DEF Lock, task
<1>3. /\ now \in [Signals -> Live]
      /\ \A s \in Signals : /\ now[s].ono # None => at(s) \in Knobs
                           /\ now[s].problem = "none" <=> now[s].ono # None
  BY ResolvedType DEF TypeOK
<1> HIDE DEF now
<1>4. ASSUME NEW s \in Signals, now[s].ono # None PROVE Answer(at(s)) \in Int
  BY <1>3, <1>4, AnswerType
<1> HIDE DEF at
<1>5. ASSUME NEW s \in Signals
      PROVE  /\ live'[s] \in Live /\ live'[s].ono = now[s].ono
             /\ live'[s].reference # None => live'[s].gain # None /\ live'[s].gain = live'[s].reference
             /\ live'[s].problem = "none" <=> live'[s].reference # None
  <2>1. now[s] \in Live /\ (now[s].problem = "none" <=> s \in leads)  BY <1>3
  <2>2. CASE s \in answered
    <3>1. Answer(at(s)) \in Int  BY <1>4, <2>2
    <3>2. Append(now[s].expected, Answer(at(s))) \in Seq(Int)  BY <2>1, <3>1 DEF Live
    <3>3. live'[s] = [now[s] EXCEPT !.gain = Answer(at(s)), !.reference = Answer(at(s)),
                                    !.expected = Append(@, Answer(at(s)))]
      BY <1>1, <2>2
    <3>4. /\ live'[s].ono = now[s].ono /\ live'[s].problem = now[s].problem
          /\ live'[s].gain = Answer(at(s)) /\ live'[s].reference = Answer(at(s))
      BY <2>1, <3>3 DEF Live
    <3>5. live'[s] \in Live  BY <2>1, <3>1, <3>2, <3>3 DEF Live, Optional
    <3>6. s \in leads /\ Answer(at(s)) # None  BY <2>2, <3>1, ValueAssumption
    <3> QED  BY <2>1, <3>4, <3>5, <3>6
  <2>3. CASE s \notin answered /\ s \in leads /\ now[s].gain # None
    <3>1. live'[s] = [now[s] EXCEPT !.reference = now[s].gain]  BY <1>1, <2>3
    <3> QED  BY <2>1, <2>3, <3>1 DEF Live, Optional
  <2>4. CASE s \notin answered /\ ~(s \in leads /\ now[s].gain # None)
    <3>1. live'[s] = [now[s] EXCEPT !.reference = None,
                                    !.problem = IF s \in leads THEN "not armed" ELSE now[s].problem]
      BY <1>1, <2>4
    <3> QED  BY <2>1, <3>1 DEF Live, Optional, Problems
  <2> QED  BY <2>2, <2>3, <2>4
<1>6. live' \in [Signals -> Live]  BY <1>1, <1>5
<1>7. wire' \in [Knobs -> Seq(Int)] /\ cache' \in [Knobs -> Optional(Int)]
  <2>1. \A n \in Knobs : Cardinality({s \in answered : at(s) = n}) \in Nat
    BY SignalsFinite, FS_Subset, FS_CardinalityType
  <2>2. [n \in Knobs |-> Cardinality({s \in answered : at(s) = n})] \in [Knobs -> Nat]
    BY <2>1
  <2> QED  BY <1>1, <2>2, ReadByType
<1>8. fol' \in [Followers -> Follower] /\ \A f \in Followers : fol'[f].applied = 0 /\ fol'[f].owed = 0
  <2>1. ResolvedFol(leader) \in [Followers -> Follower]  BY ResolvedType DEF TypeOK
  <2>2. "none" \in Errors  BY DEF Errors
  <2>3. \A f \in Followers : ResolvedFol(leader)[f].ono \in BOOLEAN  BY <2>1 DEF Follower
  <2>4. NewBooks \in [Followers -> Follower]  BY <2>2, <2>3 DEF NewBooks, Follower
  <2>5. \A f \in Followers : NewBooks[f].applied = 0 /\ NewBooks[f].owed = 0  BY DEF NewBooks
  <2> QED  BY <1>2, <2>4, <2>5
<1>9. TypeOK'  BY <1>2, <1>6, <1>7, <1>8 DEF TypeOK, task, network
<1>10. Aimed'
  <2>1. \A s \in Signals : batch'[s] = None  BY <1>2 DEF Free
  <2> QED  BY <1>2, <1>3, <1>5, <2>1, ValueAssumption DEF Aimed, LeaderKnob, at, Knobs
<1>11. Conservation'
  <2> SUFFICES ASSUME NEW f \in Following'
               PROVE  LET s == f[1] IN
                      IF live'[s].reference = None THEN fol'[f].applied = 0 /\ fol'[f].owed = 0
                      ELSE /\ live'[s].gain # None
                           /\ fol'[f].applied + fol'[f].owed = live'[s].reference - live'[s].gain
    BY DEF Conservation
  <2>1. f[1] \in Signals /\ f \in Followers  BY FollowerType DEF Following
  <2>2. live'[f[1]] \in Live  BY <1>5, <2>1
  <2>3. fol'[f].applied = 0 /\ fol'[f].owed = 0  BY <1>8, <2>1
  <2>4. live'[f[1]].reference # None =>
          live'[f[1]].gain \in Int /\ live'[f[1]].gain = live'[f[1]].reference
            /\ live'[f[1]].gain # None
    BY <1>5, <2>1, <2>2 DEF Live, Optional
  <2> QED  BY <2>3, <2>4
<1>12. ProblemIsTruthful'  BY <1>5 DEF ProblemIsTruthful
<1> QED  BY <1>5, <1>8, <1>9, <1>10, <1>11, <1>12

\* Taking a report off the stream keeps the gains known and the books.
LEMMA HearStep == ASSUME IInv, NEW n \in Knobs, Hear(n) PROVE IInv'
<1> USE DEF IInv
<1>1. Head(wire[n]) \in Int /\ Tail(wire[n]) \in Seq(Int)
  <2>1. wire[n] \in Seq(Int) /\ wire[n] # <<>>  BY DEF Hear, TypeOK
  <2> QED  BY <2>1, HeadTailProperties
<1>2. /\ live' \in [Signals -> Live] /\ batch' \in [Signals -> Int \union {None, Reread}]
      /\ wire' \in [Knobs -> Seq(Int)] /\ taking' \in BOOLEAN
  <2>1. live' \in [Signals -> Live]  BY SettledType DEF Hear, TypeOK, Live
  <2> QED  BY <1>1, <2>1 DEF Hear, TypeOK
<1>3. TypeOK'  BY <1>2 DEF Hear, TypeOK, network, trimDesk
<1>4. /\ leader' = leader /\ fol' = fol /\ locked' = locked
      /\ \A t \in Signals : /\ live'[t].ono = live[t].ono /\ live'[t].gain = live[t].gain
                            /\ live'[t].reference = live[t].reference
                            /\ batch'[t] = Reread => batch[t] = Reread
  BY <1>1, ValueAssumption DEF Hear, TypeOK, Live
<1>5. Aimed'  BY <1>4, AimKept
<1>6. Conservation'  BY <1>4, BooksKept
<1> QED  BY <1>3, <1>5, <1>6

\* A round of reads is begun for the signals that have an object.
LEMMA RereadStep ==
    ASSUME IInv, batch' = Rereads, lagged' \in BOOLEAN,
           UNCHANGED <<inner, taking, probes, back, client, network, preampDesk, trimDesk>>
    PROVE  IInv'
<1> USE DEF IInv
<1>1. TypeOK'  BY DEF Rereads, TypeOK, inner, network, preampDesk, trimDesk
<1>2. Aimed'  BY AimKept, ValueAssumption DEF Rereads, inner
<1>3. Conservation'  BY BooksKept DEF inner
<1> QED  BY <1>1, <1>2, <1>3

\* A read puts a gain in the batch, or drops the signal from it.
LEMMA ReadLeaderStep == ASSUME IInv, NEW s \in Signals, ReadLeader(s) PROVE IInv'
<1> USE DEF IInv
<1> DEFINE n == LeaderKnob(s)
<1>1. n \in Knobs  BY DEF ReadLeader, Aimed
<1>2. Answer(n) \in Int  BY <1>1, AnswerType
<1>3. wire' \in [Knobs -> Seq(Int)] /\ cache' \in [Knobs -> Optional(Int)]
  <2>1. [k \in Knobs |-> IF k = n THEN 1 ELSE 0] \in [Knobs -> Nat]  OBVIOUS
  <2>2. CASE Up(leader)  BY <2>1, <2>2, ReadByType DEF ReadLeader
  <2>3. CASE ~Up(leader)  BY <2>3 DEF ReadLeader, TypeOK
  <2> QED  BY <2>2, <2>3
<1> HIDE DEF n
<1>4. live' \in {live, [live EXCEPT ![s].expected = Expecting(s, Answer(n))]}
  BY DEF ReadLeader, n
<1>5. Expecting(s, Answer(n)) \in Seq(Int)  BY <1>2 DEF Expecting, TypeOK, Live
<1>6. live' \in [Signals -> Live]
  <2>1. live \in [Signals -> Live]  BY DEF TypeOK
  <2>2. [live[s] EXCEPT !.expected = Expecting(s, Answer(n))] \in Live  BY <1>5, <2>1 DEF Live
  <2> QED  BY <1>4, <2>1, <2>2
<1>7. batch' \in {[batch EXCEPT ![s] = Answer(n)], [batch EXCEPT ![s] = None]}
  BY DEF ReadLeader, n
<1>8. TypeOK'  BY <1>2, <1>3, <1>6, <1>7 DEF ReadLeader, TypeOK, network, trimDesk
<1>9. /\ leader' = leader /\ fol' = fol /\ locked' = locked
      /\ \A t \in Signals : /\ live'[t].ono = live[t].ono /\ live'[t].gain = live[t].gain
                            /\ live'[t].reference = live[t].reference
                            /\ batch'[t] = Reread => batch[t] = Reread
  BY <1>2, <1>4, <1>7, ValueAssumption DEF ReadLeader, TypeOK, Live
<1>10. Aimed'  BY <1>9, AimKept
<1>11. Conservation'  BY <1>9, BooksKept
<1> QED  BY <1>8, <1>10, <1>11

\* observe() moves gain and books together, or arms the signal.
LEMMA ObserveStep == ASSUME IInv, NEW s \in Signals, Observe(s) PROVE IInv'
<1> USE DEF IInv
<1> DEFINE gain == batch[s]
           F == FollowersOf(s)
<1>1. gain \in Int /\ gain # None  BY ValueAssumption DEF Observe, TypeOK
<1>2. /\ batch' = [batch EXCEPT ![s] = None] /\ taking' = FALSE
      /\ leader' = leader /\ locked' = locked /\ lagged' = lagged /\ probes' = probes
      /\ back' = back /\ client' = client /\ network' = network /\ preampDesk' = preampDesk
  BY DEF Observe
<1>3. live' \in [Signals -> Live] /\ \A t \in Signals : live'[t].ono = live[t].ono
  <2>1. live' \in {[live EXCEPT ![s].gain = gain], [live EXCEPT ![s] = ArmedAt(s, gain)]}
    BY DEF Observe
  <2>2. live[s] \in Live  BY DEF TypeOK
  <2>3. ArmedAt(s, gain) \in Live /\ ArmedAt(s, gain).ono = live[s].ono
    BY <1>1, <2>2 DEF ArmedAt, Live, Optional, Problems
  <2>4. [live[s] EXCEPT !.gain = gain] \in Live
    <3>1. gain \in Optional(Int)  BY <1>1 DEF Optional
    <3> QED  BY <2>2, <3>1 DEF Live
  <2> HIDE DEF gain
  <2>5. CASE live' = [live EXCEPT ![s] = ArmedAt(s, gain)]
    BY <2>3, <2>5 DEF TypeOK
  <2>6. CASE live' = [live EXCEPT ![s].gain = gain]
    <3>1. live' = [live EXCEPT ![s] = [live[s] EXCEPT !.gain = gain]]  BY <2>6
    <3>2. [live[s] EXCEPT !.gain = gain].ono = live[s].ono  BY <2>2 DEF Live
    <3> QED  BY <2>4, <3>1, <3>2 DEF TypeOK
  <2> QED  BY <2>1, <2>5, <2>6
<1>4. Aimed'  BY <1>2, <1>3, AimKept, ValueAssumption DEF TypeOK
<1>5. batch' \in [Signals -> Int \union {None, Reread}]  BY <1>2 DEF TypeOK
<1>6. F \subseteq Followers /\ Following' = Following
      /\ \A f \in Following : f \in Followers /\ f[1] \in Signals
  BY <1>2, FollowerType DEF FollowersOf, Following
<1>7. CASE fol' = fol /\ down' = down /\ trimDesk' = trimDesk
           /\ (\/ /\ ~locked \/ (live[s].gain = gain /\ live[s].reference # None)
                  /\ live' = [live EXCEPT ![s].gain = gain]
               \/ /\ locked /\ (live[s].gain = None \/ live[s].reference = None)
                  /\ live' = [live EXCEPT ![s] = ArmedAt(s, gain)])
  <2>1. TypeOK'  BY <1>2, <1>3, <1>5, <1>7 DEF TypeOK, network, preampDesk, trimDesk
  <2>2. ASSUME locked, NEW f \in Following, f[1] = s, live[s].gain = None \/ live[s].reference = None
        PROVE  fol[f].applied = 0 /\ fol[f].owed = 0
    BY <2>2 DEF Conservation
  <2>3. Conservation'
    <3> HIDE DEF gain
    <3> SUFFICES ASSUME locked, NEW f \in Following
                 PROVE  IF live'[f[1]].reference = None THEN fol[f].applied = 0 /\ fol[f].owed = 0
                        ELSE /\ live'[f[1]].gain # None
                             /\ fol[f].applied + fol[f].owed = live'[f[1]].reference - live'[f[1]].gain
      BY <1>2, <1>6, <1>7 DEF Conservation
    <3>1. f[1] \in Signals  BY <1>6
    <3>2. IF live[f[1]].reference = None THEN fol[f].applied = 0 /\ fol[f].owed = 0
          ELSE /\ live[f[1]].gain # None
               /\ fol[f].applied + fol[f].owed = live[f[1]].reference - live[f[1]].gain
      BY DEF Conservation
    <3>3. CASE f[1] # s
      <4>1. live'[f[1]] = live[f[1]]  BY <1>7, <3>1, <3>3 DEF TypeOK
      <4> QED  BY <3>2, <4>1
    <3>4. CASE f[1] = s /\ live[s].gain = gain /\ live[s].reference # None
               /\ live' = [live EXCEPT ![s].gain = gain]
      <4>1. live'[s].gain = live[s].gain /\ live'[s].reference = live[s].reference
        BY <3>4 DEF TypeOK, Live
      <4> QED  BY <3>2, <3>4, <4>1
    <3>5. CASE f[1] = s /\ (live[s].gain = None \/ live[s].reference = None)
               /\ live' = [live EXCEPT ![s] = ArmedAt(s, gain)]
      <4>1. live'[s].gain = gain /\ live'[s].reference = gain
        BY <3>5 DEF ArmedAt, TypeOK, Live
      <4>2. fol[f].applied = 0 /\ fol[f].owed = 0  BY <2>2, <3>5
      <4> QED  BY <1>1, <3>5, <4>1, <4>2
    <3> QED  BY <1>7, <3>3, <3>4, <3>5
  <2> QED  BY <1>4, <2>1, <2>3
<1>8. CASE /\ locked /\ live[s].reference # None /\ live[s].gain \notin {None, gain}
           /\ live' = [live EXCEPT ![s].gain = gain]
           /\ Settle(F, Due(s, gain), down)
  <2>1. \A f \in F : /\ fol[f].owed \in Int /\ fol[f].applied \in Int /\ f[1] = s
                     /\ f \in Following
    BY <1>6 DEF TypeOK, Follower, FollowersOf, Following
  <2>2. live[s].gain \in Int /\ live[s].reference \in Int
    BY <1>8 DEF TypeOK, Live, Optional
  <2>3. Due(s, gain) \in [F -> Int]
        /\ \A f \in F : Due(s, gain)[f] = fol[f].owed - (gain - live[s].gain)
    BY <1>1, <2>1, <2>2 DEF Due
  <2>4. down \in SUBSET Desks  BY DEF TypeOK
  <2>5. /\ fol' \in [Followers -> Follower] /\ down' \subseteq Desks
        /\ trim' \in [Followers -> Int] /\ base' \in [Followers -> Int]
        /\ late' \in [Followers -> Int]
        /\ \A f \in F : fol'[f].applied + fol'[f].owed = fol[f].applied + Due(s, gain)[f]
        /\ \A f \in Followers \ F : fol'[f] = fol[f]
    BY <1>6, <1>8, <2>3, <2>4, SettleBooks
  <2>6. TypeOK'  BY <1>2, <1>3, <1>5, <2>5 DEF TypeOK, network, preampDesk
  <2>7. Conservation'
    <3> HIDE DEF gain, F
    <3> SUFFICES ASSUME NEW f \in Following
                 PROVE  IF live'[f[1]].reference = None THEN fol'[f].applied = 0 /\ fol'[f].owed = 0
                        ELSE /\ live'[f[1]].gain # None
                             /\ fol'[f].applied + fol'[f].owed = live'[f[1]].reference - live'[f[1]].gain
      BY <1>6 DEF Conservation
    <3>1. f[1] \in Signals /\ f \in Followers  BY <1>6
    <3>2. IF live[f[1]].reference = None THEN fol[f].applied = 0 /\ fol[f].owed = 0
          ELSE /\ live[f[1]].gain # None
               /\ fol[f].applied + fol[f].owed = live[f[1]].reference - live[f[1]].gain
      BY <1>8 DEF Conservation
    <3>3. CASE f[1] # s
      <4>1. f \notin F  BY <2>1, <3>3
      <4>2. live'[f[1]] = live[f[1]]  BY <1>8, <3>1, <3>3 DEF TypeOK
      <4> QED  BY <2>5, <3>1, <3>2, <4>1, <4>2
    <3>4. CASE f[1] = s
      <4>1. f \in F  BY <3>1, <3>4 DEF F, FollowersOf, Following
      <4>2. live'[s].gain = gain /\ live'[s].reference = live[s].reference
        BY <1>8 DEF TypeOK, Live
      <4>3. fol'[f].applied + fol'[f].owed = fol[f].applied + (fol[f].owed - (gain - live[s].gain))
        BY <2>3, <2>5, <4>1
      <4>4. fol[f].applied + fol[f].owed = live[s].reference - live[s].gain  BY <1>8, <3>2, <3>4
      <4>5. fol'[f].applied + fol'[f].owed = live[s].reference - gain
        BY <1>1, <2>1, <2>2, <4>1, <4>3, <4>4
      <4> QED  BY <1>1, <1>8, <3>4, <4>2, <4>5
    <3> QED  BY <3>3, <3>4
  <2> QED  BY <1>4, <2>6, <2>7
<1> QED  BY <1>7, <1>8 DEF Observe

\* The retry offers the followers of a desk that is back what they are owed.
LEMMA RetryFailedStep == ASSUME IInv, RetryFailed PROVE IInv'
<1> USE DEF IInv
<1> DEFINE F == {f \in Following : DeskOf(f) \in back}
           due == [f \in F |-> fol[f].owed]
<1>1. /\ leader' = leader /\ locked' = locked /\ live' = live /\ batch' = batch
      /\ taking' = taking /\ lagged' = lagged /\ probes' = probes /\ client' = client
      /\ network' = network /\ preampDesk' = preampDesk /\ back' = {}
  BY DEF RetryFailed
<1>2. Aimed'  BY <1>1, AimKept
<1>3. F \in SUBSET Followers /\ Following' = Following
      /\ \A f \in Following : f \in Followers /\ f[1] \in Signals
  BY <1>1, FollowerType DEF Following
<1>4. CASE fol' = fol /\ down' = down /\ trimDesk' = trimDesk
  <2>1. TypeOK'  BY <1>1, <1>4 DEF TypeOK, network, preampDesk, trimDesk
  <2> QED  BY <1>1, <1>2, <1>4, <2>1, BooksKept
<1>5. CASE Settle(F, due, NotBack)
  <2>1. due \in [F -> Int] /\ \A f \in F : due[f] = fol[f].owed
    BY <1>3 DEF TypeOK, Follower
  <2>2. NotBack \in SUBSET Desks  BY DEF NotBack, TypeOK
  <2> HIDE DEF due
  <2>3. /\ fol' \in [Followers -> Follower] /\ down' \subseteq Desks
        /\ trim' \in [Followers -> Int] /\ base' \in [Followers -> Int]
        /\ late' \in [Followers -> Int]
        /\ \A f \in F : fol'[f].applied + fol'[f].owed = fol[f].applied + due[f]
        /\ \A f \in Followers \ F : fol'[f] = fol[f]
        /\ \A f \in F : due[f] = 0 => fol'[f].applied = fol[f].applied /\ fol'[f].owed = 0
    BY <1>3, <1>5, <2>1, <2>2, SettleBooks
  <2>4. TypeOK'  BY <1>1, <2>3 DEF TypeOK, network, preampDesk
  <2>5. ASSUME NEW f \in Followers
        PROVE  fol'[f].applied + fol'[f].owed = fol[f].applied + fol[f].owed
    BY <2>1, <2>3
  <2>6. ASSUME NEW f \in Followers, fol[f].applied = 0, fol[f].owed = 0
        PROVE  fol'[f].applied = 0 /\ fol'[f].owed = 0
    <3>1. CASE f \notin F  BY <2>3, <2>6, <3>1
    <3>2. CASE f \in F  BY <2>1, <2>3, <2>6, <3>2
    <3> QED  BY <3>1, <3>2
  <2>7. Conservation'
    <3> SUFFICES ASSUME locked, NEW f \in Following
                 PROVE  IF live[f[1]].reference = None THEN fol'[f].applied = 0 /\ fol'[f].owed = 0
                        ELSE /\ live[f[1]].gain # None
                             /\ fol'[f].applied + fol'[f].owed = live[f[1]].reference - live[f[1]].gain
      BY <1>1, <1>3 DEF Conservation
    <3> QED  BY <1>3, <2>5, <2>6 DEF Conservation
  <2> QED  BY <1>2, <2>4, <2>7
<1> QED  BY <1>4, <1>5 DEF RetryFailed

\* The steps that touch neither the books nor what the engine knows of a
\* leader: the retry tick, its probes, and all that happens on the desks.
LEMMA TaskStep ==
    ASSUME IInv, \/ RetryTick \/ \E d \in Desks : Probe(d)
    PROVE  IInv'
<1> USE DEF IInv
<1>1. probes' \subseteq Desks /\ back' \subseteq Desks
  BY DEF RetryTick, Probes, Probe, TypeOK
<1>2. TypeOK'
  BY <1>1 DEF RetryTick, Probe, TypeOK, inner, network, preampDesk, trimDesk
<1>3. Aimed' /\ Conservation'
  BY AimKept, BooksKept DEF RetryTick, Probe, inner
<1> QED  BY <1>2, <1>3

\* What happens to preamps and to the network is not yet known to the engine.
LEMMA PreampStep ==
    ASSUME IInv,
           \/ \E n \in Knobs : \E v \in SurfaceGains : SurfaceMove(n, v)
           \/ \E d \in MayLeave : Leave(d)
           \/ \E n \in Knobs : Lag(n)
    PROVE  IInv'
<1> USE DEF IInv
<1>1. CASE \E n \in Knobs : \E v \in SurfaceGains : SurfaceMove(n, v)
  <2>1. PICK n \in Knobs, v \in SurfaceGains : SurfaceMove(n, v)  BY <1>1
  <2>2. v \in Int  BY ValueAssumption
  <2>3. Append(wire[n], v) \in Seq(Int)  BY <2>2 DEF TypeOK
  <2>4. /\ knob' \in [Knobs -> Int] /\ cache' \in [Knobs -> Optional(Int)]
        /\ wire' \in [Knobs -> Seq(Int)]
    BY <2>1, <2>2, <2>3 DEF SurfaceMove, TypeOK, Optional
  <2>5. TypeOK'  BY <2>1, <2>4 DEF SurfaceMove, TypeOK, inner, task, network, trimDesk
  <2>6. Aimed' /\ Conservation'
    BY <2>1, AimKept, BooksKept DEF SurfaceMove, inner, task
  <2> QED  BY <2>5, <2>6
<1>2. CASE \E d \in MayLeave : Leave(d)
  <2>1. PICK d \in MayLeave : Leave(d)  BY <1>2
  <2>2. <<>> \in Seq(Int)  OBVIOUS
  <2>3. cache' \in [Knobs -> Optional(Int)] /\ wire' \in [Knobs -> Seq(Int)]
    BY <2>1, <2>2 DEF Leave, TypeOK, Optional
  <2>4. TypeOK'  BY <2>1, <2>3 DEF Leave, TypeOK, inner, task, trimDesk
  <2>5. Aimed' /\ Conservation'  BY <2>1, AimKept, BooksKept DEF Leave, inner, task
  <2> QED  BY <2>4, <2>5
<1>3. CASE \E n \in Knobs : Lag(n)
  <2>1. PICK n \in Knobs : Lag(n)  BY <1>3
  <2>2. Tail(wire[n]) \in Seq(Int)
    <3>1. wire[n] \in Seq(Int) /\ wire[n] # <<>>  BY <2>1 DEF Lag, TypeOK
    <3> QED  BY <3>1, HeadTailProperties
  <2>3. wire' \in [Knobs -> Seq(Int)]  BY <2>1, <2>2 DEF Lag, TypeOK
  <2>4. TypeOK'  BY <2>1, <2>3 DEF Lag, TypeOK, inner, network, trimDesk
  <2>5. Aimed' /\ Conservation'  BY <2>1, AimKept, BooksKept DEF Lag, inner
  <2> QED  BY <2>4, <2>5
<1> QED  BY <1>1, <1>2, <1>3

\* Trims move on the desk without the books.
LEMMA TrimStep ==
    ASSUME IInv,
           \/ \E f \in Followers : LateMove(f) \/ \E v \in LocalTrims : LocalMove(f, v)
           \/ \E d \in MayFail : Fail(d) \/ Recover(d)
           \/ \E d \in MayLeave : Join(d)
    PROVE  IInv'
<1> USE DEF IInv
<1>1. CASE \E f \in Followers : LateMove(f) \/ \E v \in LocalTrims : LocalMove(f, v)
  <2>1. PICK f \in Followers : LateMove(f) \/ \E v \in LocalTrims : LocalMove(f, v)  BY <1>1
  <2>2. trim[f] \in Int /\ base[f] \in Int /\ late[f] \in Int  BY DEF TypeOK
  <2>3. /\ trim' \in [Followers -> Int] /\ base' \in [Followers -> Int]
        /\ late' \in [Followers -> Int]
    <3>1. CASE LateMove(f)
      <4>1. NudgeTarget(TrimLaw[DeskOf(f)], trim[f], late[f]) \in Int
        BY <2>2, FollowerType, NudgeType
      <4> QED  BY <3>1, <4>1 DEF LateMove, TypeOK
    <3>2. CASE \E v \in LocalTrims : LocalMove(f, v)
      <4>1. PICK v \in LocalTrims : LocalMove(f, v)  BY <3>2
      <4>2. v \in Int /\ base[f] + v - trim[f] \in Int  BY <2>2, ValueAssumption
      <4> QED  BY <4>1, <4>2 DEF LocalMove, TypeOK
    <3> QED  BY <2>1, <3>1, <3>2
  <2>4. UNCHANGED <<inner, task, client, network, preampDesk>>
    BY <2>1 DEF LateMove, LocalMove
  <2>5. TypeOK'  BY <2>3, <2>4 DEF TypeOK, inner, task, network, preampDesk
  <2>6. Aimed' /\ Conservation'  BY <2>4, AimKept, BooksKept DEF inner, task
  <2> QED  BY <2>5, <2>6
<1>2. CASE (\E d \in MayFail : Fail(d) \/ Recover(d)) \/ \E d \in MayLeave : Join(d)
  <2>1. connected' \subseteq Desks /\ answering' \subseteq Desks
    BY <1>2, ValueAssumption DEF Fail, Recover, Join, TypeOK
  <2>2. UNCHANGED <<inner, task, client, preampDesk, trimDesk>>
    BY <1>2 DEF Fail, Recover, Join
  <2>3. TypeOK'  BY <2>1, <2>2 DEF TypeOK, inner, task, preampDesk, trimDesk
  <2>4. Aimed' /\ Conservation'  BY <2>2, AimKept, BooksKept DEF inner, task
  <2> QED  BY <2>3, <2>4
<1> QED  BY <1>1, <1>2

\* An expectation is forgotten.
LEMMA ExpireEchoStep == ASSUME IInv, NEW s \in Signals, ExpireEcho(s) PROVE IInv'
<1> USE DEF IInv
<1>1. live[s].expected \in Seq(Int) /\ live[s].expected # <<>>
  BY DEF ExpireEcho, TypeOK, Live
<1>2. Tail(live[s].expected) \in Seq(Int)  BY <1>1, HeadTailProperties
<1>3. live' = [live EXCEPT ![s].expected = Tail(live[s].expected)]  BY DEF ExpireEcho
<1>4. live' \in [Signals -> Live]  BY <1>2, <1>3 DEF TypeOK, Live
<1>5. TypeOK'  BY <1>4 DEF ExpireEcho, TypeOK, task, network, preampDesk, trimDesk
<1>6. \A t \in Signals : /\ live'[t].ono = live[t].ono /\ live'[t].gain = live[t].gain
                         /\ live'[t].reference = live[t].reference
  BY <1>3 DEF TypeOK, Live
<1>7. Aimed' /\ Conservation'  BY <1>6, AimKept, BooksKept DEF ExpireEcho, task
<1> QED  BY <1>5, <1>7

\* A new engine has empty books.
LEMMA InitIInv == Init => IInv
<1> SUFFICES ASSUME Init PROVE IInv
  OBVIOUS
<1>1. FirstLeader \in Desks  BY ConfigAssumption
<1>2. leader \in Desks /\ locked \in BOOLEAN /\ fol \in [Followers -> Follower]
  <2>1. ASSUME NEW f \in Followers
        PROVE  NotFollowing \in Follower /\ HasTrim(f) \in BOOLEAN /\ TrimError(f) \in Errors
    <3>1. NotFollowing \in Follower  BY DEF NotFollowing, Follower, Errors
    <3>2. HasTrim(f) \in BOOLEAN  BY DEF HasTrim
    <3>3. TrimError(f) \in Errors  BY DEF TrimError, Errors
    <3> QED  BY <3>1, <3>2, <3>3
  <2>2. ASSUME NEW f \in Followers
        PROVE  [ono |-> HasTrim(f), applied |-> 0, owed |-> 0, error |-> TrimError(f)] \in Follower
    BY <2>1 DEF Follower
  <2>3. fol \in [Followers -> Follower]  BY <2>1, <2>2 DEF Init
  <2> QED  BY <1>1, <2>3 DEF Init
<1>3. live \in [Signals -> Live]
  <2>1. \A s \in Signals : /\ LeaderOno(s, FirstLeader) \in Optional(Int)
                           /\ LeaderPreamp(s, FirstLeader) \in Optional(Int)
                           /\ LeaderProblem(s, FirstLeader) \in Problems
    BY <1>1, LeaderOnoType
  <2>2. None \in Optional(Int) /\ <<>> \in Seq(Int)  BY DEF Optional
  <2> QED  BY <2>1, <2>2 DEF Init, Live
<1>4. trim \in [Followers -> Int] /\ base \in [Followers -> Int] /\ late \in [Followers -> Int]
  <2>1. ASSUME NEW f \in Followers PROVE Quantize(TrimLaw[DeskOf(f)], 0) \in Int
    BY FollowerType, NudgeType
  <2> QED  BY <2>1 DEF Init
<1>5. knob \in [Knobs -> Int] /\ cache \in [Knobs -> Optional(Int)] /\ wire \in [Knobs -> Seq(Int)]
  BY ValueAssumption DEF Init, Optional
<1>6. /\ batch \in [Signals -> Int \union {None, Reread}]
      /\ client \in [Clients -> Optional([signal : Signals, from : Int, to : Int])]
  BY DEF Init, Optional
<1>7. TypeOK  BY <1>2, <1>3, <1>4, <1>5, <1>6 DEF Init, TypeOK
<1>8. Aimed  BY <1>1, LeaderOnoType, ValueAssumption DEF Init, Aimed, LeaderKnob
<1>9. Conservation  BY DEF Init, Conservation
<1> QED  BY <1>7, <1>8, <1>9 DEF IInv

\* Every step keeps the invariant.
LEMMA NextIInv == IInv /\ [Next]_vars => IInv'
<1> SUFFICES ASSUME IInv, [Next]_vars PROVE IInv'
  OBVIOUS
<1>1. CASE Client
  BY <1>1, LockStep, UnlockStep, SetLeaderStep, SetPreampStep, NudgePreampStep,
     NudgePreampSetsStep DEF Client
<1>2. CASE Engine
  <2>1. ASSUME RecvLagged \/ PollTick PROVE IInv'
    <3>1. /\ batch' = Rereads /\ lagged' \in BOOLEAN
          /\ UNCHANGED <<inner, taking, probes, back, client, network, preampDesk, trimDesk>>
      BY <2>1 DEF RecvLagged, PollTick, IInv, TypeOK
    <3> QED  BY <3>1, RereadStep
  <2> QED  BY <1>2, <2>1, HearStep, ReadLeaderStep, ObserveStep, TaskStep, RetryFailedStep DEF Engine
<1>3. CASE World
  BY <1>3, PreampStep, TrimStep, ExpireEchoStep DEF World
<1>4. CASE UNCHANGED vars
  <2>1. TypeOK'
    BY <1>4 DEF vars, inner, task, network, preampDesk, trimDesk, IInv, TypeOK
  <2>2. Aimed' /\ Conservation'
    BY <1>4, AimKept, BooksKept DEF vars, inner, task, IInv
  <2> QED  BY <2>1, <2>2 DEF IInv
<1> QED  BY <1>1, <1>2, <1>3, <1>4 DEF Next

----------------------------------------------------------------------------
(* Theorems *)

\* The inductive invariant: types, the aim of what is under way, the books.
THEOREM Invariance == Spec => []IInv
  BY InitIInv, NextIInv, PTL DEF Spec

\* Whatever the desks, the adapters and the clients do, the engine's state
\* stays well-typed: every gain it acts on is a gain.
THEOREM TypeCorrect == Spec => []TypeOK
<1>1. IInv => TypeOK  BY DEF IInv
<1> QED  BY <1>1, Invariance, PTL

\* "Nothing is dropped": for any number of desks, signals and followers and any
\* trims, what a follower was given under a lock and what it is still owed add
\* up to the opposite of its leader's move, at every moment.
THEOREM BooksConserved == Spec => []Conservation
<1>1. IInv => Conservation  BY DEF IInv
<1> QED  BY <1>1, Invariance, PTL

\* A signal shown without a problem is one the lock compensates, and the other
\* way about: arming and resolving never leave one without the other.
THEOREM ProblemsTold == Spec => []ProblemIsTruthful
<1>1. Init => ProblemIsTruthful  BY DEF Init, ProblemIsTruthful
<1>2. ASSUME IInv, ProblemIsTruthful, [Next]_vars PROVE ProblemIsTruthful'
  <2> USE DEF IInv
  <2>1. ASSUME locked' = locked \/ ~locked',
               \A s \in Signals : /\ live'[s].problem = live[s].problem
                                  /\ live'[s].reference = live[s].reference
        PROVE  ProblemIsTruthful'
    BY <1>2, <2>1 DEF ProblemIsTruthful
  <2>2. ASSUME NEW s \in Signals, NEW v, SetGain(s, v) PROVE ProblemIsTruthful'
    BY <1>2, <2>1, <2>2 DEF SetGain, TypeOK, Live
  <2>3. CASE Client
    <3>1. CASE Lock  BY <1>2, <3>1, LockStep
    <3>2. CASE Unlock \/ \E d \in Desks : SetLeader(d)
      BY <1>2, <3>2 DEF Unlock, SetLeader, ProblemIsTruthful
    <3>3. CASE \E s \in Signals : \E v \in SetValues : SetPreamp(s, v)
      BY <2>2, <3>3 DEF SetPreamp
    <3>4. CASE \E c \in Clients : \E s \in Signals : \E delta \in Deltas : NudgePreamp(c, s, delta)
      BY <2>1, <3>4 DEF NudgePreamp, inner
    <3>5. CASE \E c \in Clients : NudgePreampSets(c)
      <4>1. PICK c \in Clients : NudgePreampSets(c)  BY <3>5
      <4>2. client[c].signal \in Signals
        BY <1>2, <4>1 DEF NudgePreampSets, TypeOK, Optional
      <4> QED  BY <2>1, <2>2, <4>1, <4>2 DEF NudgePreampSets, inner
    <3> QED  BY <2>3, <3>1, <3>2, <3>3, <3>4, <3>5 DEF Client
  <2>4. CASE Engine
    <3>1. CASE \E n \in Knobs : Hear(n)
      BY <1>2, <2>1, <3>1 DEF Hear, TypeOK, Live
    <3>2. CASE RecvLagged \/ PollTick \/ RetryTick \/ \E d \in Desks : Probe(d)
      BY <2>1, <3>2 DEF RecvLagged, PollTick, RetryTick, Probe, inner
    <3>3. CASE RetryFailed
      BY <2>1, <3>3 DEF RetryFailed
    <3>4. CASE \E s \in Signals : ReadLeader(s)
      <4>1. PICK s \in Signals : ReadLeader(s)  BY <3>4
      <4>2. locked' = locked
            /\ live' \in {live, [live EXCEPT ![s].expected = Expecting(s, Answer(LeaderKnob(s)))]}
        BY <4>1 DEF ReadLeader
      <4>3. \A t \in Signals : live'[t].problem = live[t].problem /\ live'[t].reference = live[t].reference
        <5>1. live \in [Signals -> Live]  BY <1>2 DEF TypeOK
        <5>2. ASSUME NEW e, live' = [live EXCEPT ![s].expected = e]
              PROVE  \A t \in Signals : live'[t].problem = live[t].problem /\ live'[t].reference = live[t].reference
          BY <5>1, <5>2 DEF Live
        <5>3. CASE live' = live  BY <5>3
        <5>4. CASE live' = [live EXCEPT ![s].expected = Expecting(s, Answer(LeaderKnob(s)))]
          BY <5>2, <5>4
        <5> QED  BY <4>2, <5>3, <5>4
      <4> QED  BY <2>1, <4>2, <4>3
    <3>5. CASE \E s \in Signals : Observe(s)
      <4>1. PICK s \in Signals : Observe(s)  BY <3>5
      <4>2. batch[s] # None /\ locked' = locked  BY <4>1 DEF Observe
      <4>3. CASE live' = [live EXCEPT ![s].gain = batch[s]]
        BY <1>2, <2>1, <4>2, <4>3 DEF TypeOK, Live
      <4>4. CASE live' = [live EXCEPT ![s] = ArmedAt(s, batch[s])]
        <5>1. live'[s].reference = batch[s] /\ live'[s].problem = "none"
          BY <1>2, <4>4 DEF ArmedAt, TypeOK, Live
        <5>2. \A t \in Signals \ {s} : live'[t] = live[t]
          BY <1>2, <4>4 DEF TypeOK
        <5> QED  BY <1>2, <4>2, <5>1, <5>2 DEF ProblemIsTruthful
      <4> QED  BY <4>1, <4>3, <4>4 DEF Observe
    <3> QED  BY <2>4, <3>1, <3>2, <3>3, <3>4, <3>5 DEF Engine
  <2>5. CASE World
    <3>1. CASE \E s \in Signals : ExpireEcho(s)
      BY <1>2, <2>1, <3>1 DEF ExpireEcho, TypeOK, Live
    <3>2. CASE UNCHANGED inner
      BY <2>1, <3>2 DEF inner
    <3> QED  BY <2>5, <3>1, <3>2
             DEF World, SurfaceMove, LateMove, LocalMove, Fail, Recover, Leave, Join, Lag
  <2>6. CASE UNCHANGED vars
    BY <2>1, <2>6 DEF vars, inner
  <2> QED  BY <1>2, <2>3, <2>4, <2>5, <2>6 DEF Next
<1>3. IInv /\ ProblemIsTruthful /\ [Next]_vars => ProblemIsTruthful'  BY <1>2
<1> QED  BY <1>1, <1>3, Invariance, PTL DEF Spec

----------------------------------------------------------------------------
(* The engine implements the ledger of Compensation *)

\* What the ledger needs of the engine's state beyond its books being straight:
\* a reference is never without a gain, and a member on the leader has no books.
Bookkeeping ==
    /\ \A s \in Signals : live[s].reference # None => live[s].gain # None
    /\ \A f \in Followers : DeskOf(f) = leader => fol[f].applied = 0 /\ fol[f].owed = 0

\* Nothing the ledger shows has changed.
LedgerKept ==
    /\ locked' = locked
    /\ \A s \in Signals : live'[s].gain = live[s].gain /\ live'[s].reference = live[s].reference
    /\ \A f \in Followers : fol'[f].applied = fol[f].applied /\ fol'[f].owed = fol[f].owed

LEMMA KeptStutters == LedgerKept => UNCHANGED Ledger!ledger
  BY DEF LedgerKept, Ledger!ledger

LEMMA KeptBookkeeping ==
    ASSUME Bookkeeping, LedgerKept, leader' = leader PROVE Bookkeeping'
  BY DEF Bookkeeping, LedgerKept

\* Locking engages the ledger with empty books.
LEMMA LockEngages == ASSUME IInv, Lock PROVE Ledger!Engage /\ Bookkeeping'
<1>1. /\ \A s \in Signals : live'[s].reference \in {None, live'[s].gain}
      /\ \A f \in Followers : fol'[f].applied = 0 /\ fol'[f].owed = 0
  BY LockStep
<1>2. locked' = TRUE  BY DEF Lock
<1> QED  BY <1>1, <1>2 DEF Ledger!Engage, Bookkeeping

\* Resolving keeps what was known of a signal and owed to a follower, or drops it.
LEMMA SetLeaderElects ==
    ASSUME IInv, Bookkeeping, NEW d \in Desks, SetLeader(d)
    PROVE  Ledger!Elect /\ Bookkeeping'
<1>1. ~locked /\ ~locked' /\ leader' = d  BY DEF SetLeader, IInv, TypeOK
<1>2. ASSUME NEW s \in Signals
      PROVE  \/ live'[s].gain = live[s].gain /\ live'[s].reference = live[s].reference
             \/ live'[s].gain = None /\ live'[s].reference = None
  BY DEF SetLeader, ResolvedLive
<1>3. ASSUME NEW f \in Followers
      PROVE  /\ \/ fol'[f].applied = fol[f].applied /\ fol'[f].owed = fol[f].owed
                \/ fol'[f].applied = 0 /\ fol'[f].owed = 0
             /\ DeskOf(f) = d => fol'[f].applied = 0 /\ fol'[f].owed = 0
  BY DEF SetLeader, ResolvedFol, NotFollowing
<1>4. Bookkeeping'  BY <1>1, <1>2, <1>3 DEF Bookkeeping
<1>5. Ledger!Elect  BY <1>1, <1>2, <1>3 DEF Ledger!Elect
<1> QED  BY <1>4, <1>5

\* observe() notes a gain, arms the signal, or compensates its followers.
LEMMA ObserveCompensates ==
    ASSUME IInv, Bookkeeping, NEW s \in Signals, Observe(s)
    PROVE  Bookkeeping' /\ (LedgerKept \/ Ledger!Note(s) \/ Ledger!Arm(s) \/ Ledger!Compensate(s))
<1> USE DEF IInv
<1> DEFINE gain == batch[s]
           F == FollowersOf(s)
<1>1. gain \in Int /\ gain # None /\ locked' = locked /\ leader' = leader
  BY ValueAssumption DEF Observe, TypeOK
<1>2. live[s] \in Live /\ fol \in [Followers -> Follower]  BY DEF TypeOK
<1>3. F \subseteq Followers /\ \A f \in Followers : f[1] \in Signals
  BY FollowerType DEF FollowersOf
<1>4. CASE /\ ~locked \/ (live[s].gain = gain /\ live[s].reference # None)
           /\ live' = [live EXCEPT ![s].gain = gain]
           /\ UNCHANGED <<fol, down, trimDesk>>
  <2>1. /\ live'[s].gain = gain /\ live'[s].reference = live[s].reference
        /\ \A t \in Signals \ {s} : live'[t] = live[t]
    BY <1>2, <1>4 DEF TypeOK, Live
  <2>2. Bookkeeping'  BY <1>1, <1>4, <2>1 DEF Bookkeeping
  <2> HIDE DEF gain
  <2>3. ~locked => Ledger!Note(s)
    BY <1>1, <1>4, <2>1 DEF Ledger!Note, Ledger!OnlyHears
  <2>4. live[s].gain = gain => LedgerKept
    <3>1. live[s].gain = gain => \A t \in Signals : /\ live'[t].gain = live[t].gain
                                                   /\ live'[t].reference = live[t].reference
      BY <2>1
    <3> QED  BY <1>1, <1>4, <3>1 DEF LedgerKept
  <2> QED  BY <1>4, <2>2, <2>3, <2>4 DEF gain
<1>5. CASE /\ locked /\ (live[s].gain = None \/ live[s].reference = None)
           /\ live' = [live EXCEPT ![s] = ArmedAt(s, gain)]
           /\ UNCHANGED <<fol, down, trimDesk>>
  <2>1. /\ live'[s].gain = gain /\ live'[s].reference = gain
        /\ \A t \in Signals \ {s} : live'[t] = live[t]
    BY <1>2, <1>5 DEF ArmedAt, TypeOK, Live
  <2>2. live[s].reference = None  BY <1>5 DEF Bookkeeping
  <2>3. Bookkeeping'  BY <1>1, <1>5, <2>1 DEF Bookkeeping
  <2>4. Ledger!Arm(s)  BY <1>1, <1>5, <2>1, <2>2 DEF Ledger!Arm, Ledger!OnlyHears
  <2> QED  BY <2>3, <2>4
<1>6. CASE /\ locked /\ live[s].reference # None /\ live[s].gain \notin {None, gain}
           /\ live' = [live EXCEPT ![s].gain = gain]
           /\ Settle(F, Due(s, gain), down)
  <2>1. /\ live'[s].gain = gain /\ live'[s].reference = live[s].reference
        /\ \A t \in Signals \ {s} : live'[t] = live[t]
    BY <1>2, <1>6 DEF TypeOK, Live
  <2>2. live[s].gain \in Int  BY <1>2, <1>6 DEF Live, Optional
  <2>3. \A f \in F : fol[f].owed \in Int  BY <1>2, <1>3 DEF Follower
  <2>4. Due(s, gain) \in [F -> Int]
        /\ \A f \in F : Due(s, gain)[f] = fol[f].owed - (gain - live[s].gain)
    BY <1>1, <2>2, <2>3 DEF Due
  <2>5. down \in SUBSET Desks  BY DEF TypeOK
  <2>6. /\ \A f \in F : fol'[f].applied + fol'[f].owed = fol[f].applied + Due(s, gain)[f]
        /\ \A f \in Followers \ F : fol'[f] = fol[f]
        /\ \A f \in F : Size(fol'[f].owed) <= Size(Due(s, gain)[f])
    BY <1>3, <1>6, <2>4, <2>5, SettleBooks
  <2> HIDE DEF F, gain
  <2>7. ASSUME NEW f \in Followers, f[1] = s, f \notin F
        PROVE  fol[f].applied = 0 /\ fol[f].owed = 0 /\ fol'[f] = fol[f]
    <3>1. DeskOf(f) = leader  BY <2>7 DEF F, FollowersOf
    <3> QED  BY <2>6, <2>7, <3>1 DEF Bookkeeping
  <2>8. ASSUME NEW f \in F
        PROVE  /\ fol'[f].applied + fol'[f].owed = fol[f].applied + (fol[f].owed - (gain - live[s].gain))
               /\ Ledger!Size(fol'[f].owed) <= Ledger!Size(fol[f].owed - (gain - live[s].gain))
    BY <2>4, <2>6 DEF Size, Ledger!Size
  <2>9. \A f \in Followers : f[1] # s => f \notin F  BY DEF F, FollowersOf
  <2>10. ASSUME NEW f \in Followers, f[1] = s
         PROVE  \/ /\ fol'[f].applied + fol'[f].owed
                        = fol[f].applied + (fol[f].owed - (live'[s].gain - live[s].gain))
                   /\ Ledger!Size(fol'[f].owed)
                        <= Ledger!Size(fol[f].owed - (live'[s].gain - live[s].gain))
                \/ /\ fol[f].applied = 0 /\ fol[f].owed = 0
                   /\ fol'[f].applied = fol[f].applied /\ fol'[f].owed = fol[f].owed
    BY <2>1, <2>7, <2>8, <2>10
  <2>11. \A f \in Followers : f[1] # s => fol'[f] = fol[f]  BY <2>6, <2>9
  <2>12. Ledger!Compensate(s)
    BY <1>1, <1>6, <2>1, <2>10, <2>11
       DEF Ledger!Compensate, Ledger!OnlyHears, Ledger!Pays, Ledger!Keeps
  <2>13. Bookkeeping'
    <3>1. \A f \in Followers : DeskOf(f) = leader => f \notin F  BY DEF F, FollowersOf
    <3>2. \A t \in Signals : live'[t].reference # None => live'[t].gain # None
      BY <1>1, <2>1 DEF Bookkeeping
    <3> QED  BY <1>1, <2>6, <3>1, <3>2 DEF Bookkeeping
  <2> QED  BY <2>12, <2>13
<1> QED  BY <1>4, <1>5, <1>6 DEF Observe

\* retry_failed() offers again what is owed.
LEMMA RetryPaysBack ==
    ASSUME IInv, Bookkeeping, RetryFailed
    PROVE  Bookkeeping' /\ (LedgerKept \/ Ledger!PayBack)
<1> USE DEF IInv
<1> DEFINE F == {f \in Following : DeskOf(f) \in back}
           due == [f \in F |-> fol[f].owed]
<1>1. leader' = leader /\ locked' = locked /\ live' = live  BY DEF RetryFailed
<1>2. CASE fol' = fol
  <2>1. LedgerKept  BY <1>1, <1>2 DEF LedgerKept
  <2> QED  BY <1>1, <2>1, KeptBookkeeping
<1>3. CASE locked /\ Settle(F, due, NotBack)
  <2>1. F \in SUBSET Followers /\ fol \in [Followers -> Follower]  BY DEF Following, TypeOK
  <2>2. due \in [F -> Int] /\ \A f \in F : due[f] = fol[f].owed  BY <2>1 DEF Follower
  <2>3. NotBack \in SUBSET Desks  BY DEF NotBack, TypeOK
  <2> HIDE DEF due
  <2>4. /\ \A f \in F : fol'[f].applied + fol'[f].owed = fol[f].applied + due[f]
        /\ \A f \in Followers \ F : fol'[f] = fol[f]
        /\ \A f \in F : Size(fol'[f].owed) <= Size(due[f])
    BY <1>3, <2>1, <2>2, <2>3, SettleBooks
  <2>5. ASSUME NEW f \in Followers
        PROVE  /\ fol'[f].applied + fol'[f].owed = fol[f].applied + fol[f].owed
               /\ Ledger!Size(fol'[f].owed) <= Ledger!Size(fol[f].owed)
    <3>1. CASE f \in F  BY <2>2, <2>4, <3>1 DEF Size, Ledger!Size
    <3>2. CASE f \notin F
      <4>1. fol'[f] = fol[f] /\ fol[f].owed \in Int  BY <2>1, <2>4, <3>2 DEF Follower
      <4> QED  BY <4>1 DEF Ledger!Size
    <3> QED  BY <3>1, <3>2
  <2>6. Ledger!PayBack
    BY <1>1, <1>3, <2>5 DEF Ledger!PayBack, Ledger!Pays
  <2>7. \A f \in Followers : DeskOf(f) = leader => f \notin F  BY DEF Following
  <2>8. Bookkeeping'
    BY <1>1, <2>4, <2>7 DEF Bookkeeping
  <2> QED  BY <2>6, <2>8
<1> QED  BY <1>2, <1>3 DEF RetryFailed, StillLocked

\* Setting a gain sends it and expects its echo: nothing is compensated yet.
LEMMA SetGainKeeps ==
    ASSUME IInv, NEW s \in Signals, NEW v, SetGain(s, v)
    PROVE  LedgerKept /\ leader' = leader
  BY DEF SetGain, LedgerKept, IInv, TypeOK, Live

\* Every step of the engine and its desks is one the ledger allows.
LEMMA StepCompensates ==
    ASSUME IInv, Bookkeeping, [Next]_vars
    PROVE  [Ledger!Next]_(Ledger!ledger) /\ Bookkeeping'
<1>1. ASSUME LedgerKept, leader' = leader
      PROVE  [Ledger!Next]_(Ledger!ledger) /\ Bookkeeping'
  BY <1>1, KeptStutters, KeptBookkeeping
<1>2. ASSUME UNCHANGED inner PROVE LedgerKept /\ leader' = leader
  BY <1>2 DEF inner, LedgerKept
<1>3. CASE Client
  <2>1. CASE Lock
    BY <2>1, LockEngages DEF Ledger!Next
  <2>2. CASE Unlock
    <3>1. leader' = leader /\ live' = live /\ fol' = fol /\ locked' = FALSE /\ locked \in BOOLEAN
      BY <2>2 DEF Unlock, IInv, TypeOK
    <3>2. CASE locked
      <4>1. Ledger!Release  BY <3>1, <3>2 DEF Ledger!Release
      <4>2. Bookkeeping'  BY <3>1 DEF Bookkeeping
      <4> QED  BY <4>1, <4>2 DEF Ledger!Next
    <3>3. CASE ~locked  BY <1>1, <3>1, <3>3 DEF LedgerKept
    <3> QED  BY <3>2, <3>3
  <2>3. CASE \E d \in Desks : SetLeader(d)
    BY <2>3, SetLeaderElects DEF Ledger!Next
  <2>4. CASE \E s \in Signals : \E v \in SetValues : SetPreamp(s, v)
    BY <1>1, <2>4, SetGainKeeps DEF SetPreamp
  <2>5. CASE \E c \in Clients : \E s \in Signals : \E delta \in Deltas : NudgePreamp(c, s, delta)
    BY <1>1, <1>2, <2>5 DEF NudgePreamp
  <2>6. CASE \E c \in Clients : NudgePreampSets(c)
    <3>1. PICK c \in Clients : NudgePreampSets(c)  BY <2>6
    <3>2. client[c].signal \in Signals
      BY <3>1 DEF NudgePreampSets, IInv, TypeOK, Optional
    <3> QED  BY <1>1, <1>2, <3>1, <3>2, SetGainKeeps DEF NudgePreampSets
  <2> QED  BY <1>3, <2>1, <2>2, <2>3, <2>4, <2>5, <2>6 DEF Client
<1>4. CASE Engine
  <2>1. CASE \E n \in Knobs : Hear(n)
    <3>1. LedgerKept /\ leader' = leader  BY <2>1 DEF Hear, LedgerKept, IInv, TypeOK, Live
    <3> QED  BY <1>1, <3>1
  <2>2. CASE RecvLagged \/ PollTick \/ RetryTick \/ \E d \in Desks : Probe(d)
    BY <1>1, <1>2, <2>2 DEF RecvLagged, PollTick, RetryTick, Probe
  <2>3. CASE \E s \in Signals : ReadLeader(s)
    <3>1. PICK s \in Signals : ReadLeader(s)  BY <2>3
    <3>2. /\ leader' = leader /\ locked' = locked /\ fol' = fol
          /\ live' \in {live, [live EXCEPT ![s].expected = Expecting(s, Answer(LeaderKnob(s)))]}
      BY <3>1 DEF ReadLeader
    <3>3. \A t \in Signals : live'[t].gain = live[t].gain /\ live'[t].reference = live[t].reference
      <4>1. live \in [Signals -> Live]  BY DEF IInv, TypeOK
      <4>2. ASSUME NEW e, live' = [live EXCEPT ![s].expected = e]
            PROVE  \A t \in Signals : live'[t].gain = live[t].gain /\ live'[t].reference = live[t].reference
        BY <4>1, <4>2 DEF Live
      <4>3. CASE live' = live  BY <4>3
      <4>4. CASE live' = [live EXCEPT ![s].expected = Expecting(s, Answer(LeaderKnob(s)))]
        BY <4>2, <4>4
      <4> QED  BY <3>2, <4>3, <4>4
    <3>4. LedgerKept  BY <3>2, <3>3 DEF LedgerKept
    <3> QED  BY <1>1, <3>2, <3>4
  <2>4. CASE \E s \in Signals : Observe(s)
    <3>1. PICK s \in Signals : Observe(s)  BY <2>4
    <3>2. Bookkeeping' /\ (LedgerKept \/ Ledger!Note(s) \/ Ledger!Arm(s) \/ Ledger!Compensate(s))
      BY <3>1, ObserveCompensates
    <3> QED  BY <3>2, KeptStutters DEF Ledger!Next
  <2>5. CASE RetryFailed
    <3>1. Bookkeeping' /\ (LedgerKept \/ Ledger!PayBack)  BY <2>5, RetryPaysBack
    <3> QED  BY <3>1, KeptStutters DEF Ledger!Next
  <2> QED  BY <1>4, <2>1, <2>2, <2>3, <2>4, <2>5 DEF Engine
<1>5. CASE World
  <2>1. CASE \E s \in Signals : ExpireEcho(s)
    <3>1. LedgerKept /\ leader' = leader
      BY <2>1 DEF ExpireEcho, LedgerKept, IInv, TypeOK, Live
    <3> QED  BY <1>1, <3>1
  <2>2. CASE UNCHANGED inner  BY <1>1, <1>2, <2>2
  <2> QED  BY <1>5, <2>1, <2>2
           DEF World, SurfaceMove, LateMove, LocalMove, Fail, Recover, Leave, Join, Lag
<1>6. CASE UNCHANGED vars  BY <1>1, <1>2, <1>6 DEF vars
<1> QED  BY <1>3, <1>4, <1>5, <1>6 DEF Next

\* The gain-lock engine, its desks and everything that can happen to them is a
\* ledger: no step of any operation touches what a follower was given and is
\* owed but as Compensation allows - the opposite of the leader's move, to every
\* follower of the signal and to no other, never so much that more is owed.
THEOREM EngineCompensates == Spec => Compensates
<1>1. Init => Ledger!Init /\ Bookkeeping
  BY DEF Init, Ledger!Init, Bookkeeping, NotFollowing
<1>2. IInv /\ Bookkeeping /\ [Next]_vars => Bookkeeping' /\ [Ledger!Next]_(Ledger!ledger)
  BY StepCompensates
<1> QED  BY <1>1, <1>2, Invariance, PTL DEF Spec, Compensates, Ledger!Spec

----------------------------------------------------------------------------
(* What the desks are taken to be like *)

\* A move whose caller has given up on it is not carried out later.
PromptMoves == ~LateMoves

\* An engineer moves a trim to a value it can hold.
TrimsOnTheirGrid ==
    \A f \in Followers : \A v \in LocalTrims : OnGrid(TrimLaw[DeskOf(f)], v)

\* Every follower has a trim, on a desk that stays with the Router, and the
\* lock alone moves it.
TrimsAreTheLocks ==
    /\ MayLeave = {} /\ LocalTrims = {}
    /\ \A f \in Followers : InputOf(f) \in TrimsOf[DeskOf(f)]

----------------------------------------------------------------------------
(* settle() *)

NoneLate == \A f \in Followers : late[f] = 0
Standing == \A f \in Followers : OnGrid(TrimLaw[DeskOf(f)], trim[f])

\* A refusal the engine shows as none was of nothing that was due.
LEMMA RefusalShown ==
    ASSUME NEW f, NEW why, NEW isHeld \in BOOLEAN, Refusal(f, why, isHeld) = "none"
    PROVE  why = "none" /\ ~isHeld
  BY DEF Refusal

\* settle() leaves every trim on its grid and books the move the trim made;
\* and if all its followers can be reached, one without an error is served.
LEMMA SettleMoves ==
    ASSUME TypeOK, PromptMoves, NoneLate, Standing,
           NEW F \in SUBSET Followers, NEW due \in [F -> Int],
           NEW dn \in SUBSET Desks, Settle(F, due, dn)
    PROVE  /\ NoneLate' /\ Standing' /\ base' = base
           /\ \A f \in Followers :
                trim'[f] - trim[f] = fol'[f].applied - fol[f].applied
           /\ \A f \in Followers \ F : fol'[f] = fol[f] /\ trim'[f] = trim[f]
           /\ \A f \in Followers : fol'[f].ono = fol[f].ono
           /\ connected = Desks =>
                \A f \in F : fol[f].ono /\ fol'[f].error = "none" => Served(f)'
<1> DEFINE open == {f \in F : due[f] # 0 /\ DeskOf(f) \notin dn /\ fol[f].ono}
           gone == {f \in open : DeskOf(f) \notin connected}
           sent == open \ gone
           took(f) == NudgeApplied(TrimLaw[DeskOf(f)], trim[f], due[f])
           put(f) == NudgeTarget(TrimLaw[DeskOf(f)], trim[f], due[f])
           held(f) == due[f] # 0 /\ DeskOf(f) \in dn
           reason(f, failed) == IF f \in failed THEN "failed"
                                ELSE IF f \in gone THEN "not connected" ELSE "none"
           why(f, failed) == Refusal(f, reason(f, failed), held(f))
<1>1. PICK failed \in SUBSET {f \in sent : DeskOf(f) \notin answering} :
        /\ fol' = [f \in Followers |->
             IF f \notin F THEN fol[f]
             ELSE IF f \in sent \ failed
             THEN [fol[f] EXCEPT !.applied = @ + took(f), !.owed = due[f] - took(f), !.error = "none"]
             ELSE [fol[f] EXCEPT !.owed = due[f], !.error = why(f, failed)]]
        /\ trim' = [f \in Followers |-> IF f \in sent \ failed THEN put(f) ELSE trim[f]]
        /\ \E stray \in SUBSET {f \in failed : LateMoves /\ late[f] = 0} :
              late' = [f \in Followers |-> IF f \in stray THEN due[f] ELSE late[f]]
        /\ base' = base
  BY DEF Settle
<1>2. ASSUME NEW f \in Followers
      PROVE  /\ IsLaw(TrimLaw[DeskOf(f)]) /\ DeskOf(f) \in Desks
             /\ OnGrid(TrimLaw[DeskOf(f)], trim[f]) /\ trim[f] \in Int
             /\ fol[f] \in Follower
  BY FollowerType DEF TypeOK, Standing
<1>3. ASSUME NEW f \in F
      PROVE  /\ f \in Followers /\ due[f] \in Int /\ put(f) \in Int /\ took(f) \in Int
             /\ took(f) = put(f) - trim[f]
             /\ OnGrid(TrimLaw[DeskOf(f)], put(f))
  BY <1>2, NudgeIsWhatItSays, NudgeType
<1>4. NoneLate'
  <2>1. late' = [f \in Followers |-> late[f]]  BY <1>1 DEF PromptMoves
  <2> QED  BY <2>1 DEF NoneLate
<1>5. sent \subseteq F /\ failed \subseteq sent  BY <1>1
<1>6. ASSUME NEW f \in sent \ failed
      PROVE  /\ fol'[f].applied = fol[f].applied + took(f)
             /\ fol'[f].owed = due[f] - took(f)
             /\ fol'[f].ono = fol[f].ono
             /\ trim'[f] = put(f)
  <2>1. f \in F /\ f \in Followers  BY <1>5
  <2>2. fol[f] \in Follower  BY <1>2, <2>1
  <2> HIDE DEF took, put, sent
  <2>3. fol'[f] = [fol[f] EXCEPT !.applied = @ + took(f), !.owed = due[f] - took(f),
                                 !.error = "none"]
    BY <1>1, <1>6, <2>1
  <2>4. trim'[f] = put(f)  BY <1>1, <1>6, <2>1
  <2> QED  BY <2>2, <2>3, <2>4 DEF Follower
<1>7. ASSUME NEW f \in F \ (sent \ failed)
      PROVE  /\ fol'[f].applied = fol[f].applied /\ fol'[f].owed = due[f]
             /\ fol'[f].error = why(f, failed)
             /\ fol'[f].ono = fol[f].ono
             /\ trim'[f] = trim[f]
  <2>1. f \in Followers /\ fol[f] \in Follower  BY <1>2, <1>3
  <2> HIDE DEF sent, why
  <2>2. fol'[f] = [fol[f] EXCEPT !.owed = due[f], !.error = why(f, failed)]
    BY <1>1, <1>7, <2>1
  <2>3. trim'[f] = trim[f]  BY <1>1, <1>7, <2>1
  <2> QED  BY <2>1, <2>2, <2>3 DEF Follower
<1>8. \A f \in Followers \ F : fol'[f] = fol[f] /\ trim'[f] = trim[f]
  BY <1>1, <1>5
<1> HIDE DEF took, put, sent, why
<1>9. Standing'
  <2> SUFFICES ASSUME NEW f \in Followers PROVE OnGrid(TrimLaw[DeskOf(f)], trim'[f])
    BY DEF Standing
  <2>1. CASE f \in sent \ failed  BY <1>3, <1>5, <1>6, <2>1
  <2>2. CASE f \notin sent \ failed  BY <1>2, <1>7, <1>8, <2>2
  <2> QED  BY <2>1, <2>2
<1>10. ASSUME NEW f \in Followers
       PROVE  /\ trim'[f] - trim[f] = fol'[f].applied - fol[f].applied
              /\ fol'[f].ono = fol[f].ono
  <2>1. fol[f].applied \in Int /\ trim[f] \in Int  BY <1>2 DEF Follower
  <2>2. CASE f \in sent \ failed  BY <1>3, <1>5, <1>6, <2>1, <2>2
  <2>3. CASE f \in F \ (sent \ failed)  BY <1>7, <2>1, <2>3
  <2>4. CASE f \notin F  BY <1>8, <2>1, <2>4
  <2> QED  BY <2>2, <2>3, <2>4
<1>11. ASSUME connected = Desks, NEW f \in F, fol[f].ono, fol'[f].error = "none"
       PROVE  Served(f)'
  <2> DEFINE law == TrimLaw[DeskOf(f)]
  <2>1. IsLaw(law) /\ law.step \in Int /\ law.step > 0 /\ DeskOf(f) \in Desks
    BY <1>2, <1>3 DEF IsLaw
  <2>2. CASE f \in sent \ failed
    <3>1. /\ due[f] - took(f) \in Int
          /\ \/ -law.step <= 2 * (due[f] - took(f)) /\ 2 * (due[f] - took(f)) <= law.step
             \/ due[f] - took(f) > 0 /\ put(f) = law.max
             \/ due[f] - took(f) < 0 /\ put(f) = law.min
      BY <1>2, <1>3, NudgeFallsShort DEF took, put
    <3>2. fol'[f].owed = due[f] - took(f) /\ trim'[f] = put(f)  BY <1>6, <2>2
    <3> QED  BY <2>1, <3>1, <3>2 DEF Served, Size
  <2>3. CASE f \notin sent \ failed
    <3>1. fol'[f].error = why(f, failed) /\ fol'[f].owed = due[f]  BY <1>7, <2>3
    <3>2. reason(f, failed) = "none" /\ ~held(f)
      <4> HIDE DEF reason
      <4>1. Refusal(f, reason(f, failed), held(f)) = "none"  BY <1>11, <3>1 DEF why
      <4>2. held(f) \in BOOLEAN  OBVIOUS
      <4> HIDE DEF held
      <4> QED  BY <4>1, <4>2, RefusalShown
    <3>3. f \notin failed  BY <3>2
    <3>4. f \notin open  BY <1>11, <2>1, <2>3, <3>3 DEF sent
    <3>5. due[f] = 0  BY <1>11, <3>2, <3>4
    <3> QED  BY <2>1, <3>1, <3>5 DEF Served, Size
  <2> QED  BY <2>2, <2>3
<1> QED  BY <1>1, <1>4, <1>8, <1>9, <1>10, <1>11

\* settle() leaves no move behind when moves are prompt.
LEMMA SettleIsPrompt ==
    ASSUME PromptMoves, NoneLate, NEW F, NEW due, NEW dn, Settle(F, due, dn)
    PROVE  NoneLate'
<1>1. late' = [f \in Followers |-> late[f]]  BY DEF Settle, PromptMoves
<1> QED  BY <1>1 DEF NoneLate

----------------------------------------------------------------------------
(* The steps, as far as the trims and the books are concerned *)

\* A step that leaves both alone, and does not lock.
TrimsKept ==
    /\ UNCHANGED trimDesk /\ fol' = fol /\ leader' = leader /\ (locked' => locked)
    /\ \/ connected' = connected
       \/ \E d \in MayLeave : Leave(d) \/ Join(d)

\* A step that offers followers their moves, under a lock.
Settles ==
    /\ locked /\ leader' = leader /\ connected' = connected
    /\ \E F \in SUBSET Followers : \E due \in [F -> Int] : \E dn \in SUBSET Desks :
          Settle(F, due, dn)

LEMMA ObserveSettles ==
    ASSUME IInv, NEW s \in Signals, Observe(s) PROVE TrimsKept \/ Settles
<1> USE DEF IInv
<1>1. /\ leader' = leader /\ locked' = locked /\ connected' = connected
  BY DEF Observe, network
<1>2. CASE UNCHANGED <<fol, down, trimDesk>>  BY <1>1, <1>2 DEF TrimsKept
<1>3. CASE /\ locked /\ live[s].reference # None /\ live[s].gain \notin {None, batch[s]}
           /\ Settle(FollowersOf(s), Due(s, batch[s]), down)
  <2>1. batch[s] \in Int  BY DEF Observe, TypeOK
  <2>2. live[s].gain \in Int  BY <1>3 DEF TypeOK, Live, Optional
  <2>3. FollowersOf(s) \in SUBSET Followers  BY DEF FollowersOf
  <2>4. Due(s, batch[s]) \in [FollowersOf(s) -> Int]
    BY <2>1, <2>2, <2>3 DEF Due, TypeOK, Follower
  <2>5. down \in SUBSET Desks  BY DEF TypeOK
  <2> QED  BY <1>1, <1>3, <2>3, <2>4, <2>5 DEF Settles
<1> QED  BY <1>2, <1>3 DEF Observe

LEMMA RetrySettles ==
    ASSUME IInv, RetryFailed PROVE TrimsKept \/ Settles
<1> USE DEF IInv
<1> DEFINE F == {f \in Following : DeskOf(f) \in back}
           due == [f \in F |-> fol[f].owed]
<1>1. leader' = leader /\ locked' = locked /\ connected' = connected
  BY DEF RetryFailed, network
<1>2. CASE UNCHANGED <<fol, down, trimDesk>>  BY <1>1, <1>2 DEF TrimsKept
<1>3. CASE locked /\ Settle(F, due, NotBack)
  <2>1. F \in SUBSET Followers  BY DEF Following
  <2>2. due \in [F -> Int]  BY <2>1 DEF TypeOK, Follower
  <2>3. NotBack \in SUBSET Desks  BY DEF TypeOK, NotBack
  <2> HIDE DEF F, due
  <2> QED  BY <1>1, <1>3, <2>1, <2>2, <2>3 DEF Settles
<1> QED  BY <1>2, <1>3 DEF RetryFailed, StillLocked

\* Every step but a lock, an election and an engineer's hand is one of these.
LEMMA TrimSteps ==
    ASSUME IInv, [Next]_vars
    PROVE  \/ TrimsKept \/ Settles \/ Lock
           \/ \E d \in Desks : SetLeader(d)
           \/ \E f \in Followers : LateMove(f) \/ \E v \in LocalTrims : LocalMove(f, v)
<1>1. CASE Client
  <2>1. ASSUME NEW s, NEW v, SetGain(s, v) PROVE TrimsKept
    BY <2>1 DEF SetGain, TrimsKept, network
  <2>2. CASE Unlock  BY <2>2 DEF Unlock, TrimsKept, network
  <2>3. CASE \E s \in Signals : \E v \in SetValues : SetPreamp(s, v)
    BY <2>1, <2>3 DEF SetPreamp
  <2>4. CASE \E c \in Clients : NudgePreampSets(c)
    BY <2>1, <2>4 DEF NudgePreampSets, TrimsKept, inner, network
  <2>5. CASE \E c \in Clients : \E s \in Signals : \E delta \in Deltas : NudgePreamp(c, s, delta)
    BY <2>5 DEF NudgePreamp, TrimsKept, inner, network
  <2> QED  BY <1>1, <2>2, <2>3, <2>4, <2>5 DEF Client
<1>2. CASE Engine
  <2>1. CASE \/ \E n \in Knobs : Hear(n)
             \/ RecvLagged \/ PollTick \/ RetryTick
             \/ \E s \in Signals : ReadLeader(s)
             \/ \E d \in Desks : Probe(d)
    BY <2>1 DEF Hear, RecvLagged, PollTick, RetryTick, ReadLeader, Probe, TrimsKept, inner, network
  <2>2. CASE \E s \in Signals : Observe(s)  BY <2>2, ObserveSettles
  <2>3. CASE RetryFailed  BY <2>3, RetrySettles
  <2> QED  BY <1>2, <2>1, <2>2, <2>3 DEF Engine
<1>3. CASE World
  <2>1. CASE \E d \in MayLeave : Leave(d) \/ Join(d)
    BY <2>1 DEF Leave, Join, TrimsKept, inner
  <2>2. CASE \/ \E n \in Knobs : \E v \in SurfaceGains : SurfaceMove(n, v)
             \/ \E d \in MayFail : Fail(d) \/ Recover(d)
             \/ \E n \in Knobs : Lag(n)
             \/ \E s \in Signals : ExpireEcho(s)
    BY <2>2 DEF SurfaceMove, Fail, Recover, Lag, ExpireEcho, TrimsKept, inner, network
  <2> QED  BY <1>3, <2>1, <2>2 DEF World
<1>4. CASE UNCHANGED vars  BY <1>4 DEF vars, inner, network, TrimsKept
<1> QED  BY <1>1, <1>2, <1>3, <1>4 DEF Next

----------------------------------------------------------------------------
(* Released trims *)

LEMMA NoMoveIsLate ==
    ASSUME PromptMoves, IInv, NoneLate, [Next]_vars PROVE NoneLate'
<1>1. ASSUME late' = late PROVE NoneLate'  BY <1>1 DEF NoneLate
<1>2. CASE Settles  BY <1>2, SettleIsPrompt DEF Settles
<1>3. CASE \E f \in Followers : LateMove(f)  BY <1>3 DEF LateMove, NoneLate
<1> QED
  BY <1>1, <1>2, <1>3, TrimSteps DEF TrimsKept, trimDesk, Lock, SetLeader, LocalMove

\* unlock() keeps its promise for any desks, trims and signals: as long as no
\* desk carries out a move the engine has given up on, a trim that is not under
\* the lock moves under its engineer's hand alone, and by as much.
THEOREM TrimsStay ==
    ASSUME PromptMoves
    PROVE  Spec => ReleasedTrimsStay
<1>1. Init => NoneLate  BY DEF Init, NoneLate
<1>2. IInv /\ NoneLate /\ [Next]_vars => NoneLate'  BY NoMoveIsLate
<1>3. ASSUME IInv, NoneLate, [Next]_vars, ~locked, NEW f \in Followers, trim'[f] # trim[f]
      PROVE  trim'[f] - trim[f] = base'[f] - base[f]
  <2>1. PICK g \in Followers, v \in LocalTrims : LocalMove(g, v)
    BY <1>3, TrimSteps DEF TrimsKept, Settles, trimDesk, Lock, SetLeader, LateMove, NoneLate
  <2>2. /\ trim' = [trim EXCEPT ![g] = v] /\ base' = [base EXCEPT ![g] = @ + v - trim[g]]
    BY <2>1 DEF LocalMove
  <2>3. /\ trim \in [Followers -> Int] /\ base \in [Followers -> Int] /\ v \in Int
    BY <1>3, ValueAssumption DEF IInv, TypeOK
  <2>4. f = g  BY <1>3, <2>2, <2>3
  <2> QED  BY <2>2, <2>3, <2>4
<1>4. IInv /\ NoneLate /\ [Next]_vars =>
        [~locked => \A f \in Followers :
            trim'[f] # trim[f] => trim'[f] - trim[f] = base'[f] - base[f]]_vars
  BY <1>3
<1> QED  BY <1>1, <1>2, <1>4, Invariance, PTL DEF Spec, ReleasedTrimsStay

----------------------------------------------------------------------------
(* The change the engine reports *)

\* The invariant behind AppliedIsReal: the engine reads a trim on its grid, so
\* the move the trim makes is the move it says it makes.
RealInv == AppliedIsReal /\ NoneLate /\ Standing

LEMMA RealInit == Init => RealInv
<1> SUFFICES ASSUME Init PROVE RealInv
  OBVIOUS
<1>1. ASSUME NEW f \in Followers
      PROVE  /\ fol[f].applied = 0 /\ trim[f] = base[f] /\ trim[f] \in Int
             /\ OnGrid(TrimLaw[DeskOf(f)], trim[f])
  <2> DEFINE law == TrimLaw[DeskOf(f)]
  <2>1. IsLaw(law)  BY FollowerType
  <2>2. trim[f] = Quantize(law, 0) /\ base[f] = trim[f]  BY DEF Init
  <2>3. Index(law, 0) \in 0..Points(law)  BY <2>1, Landing
  <2>4. Quantize(law, 0) = law.min + Index(law, 0) * law.step
    BY <2>1, <2>3, InRange DEF Quantize
  <2>5. OnGrid(law, trim[f])  BY <2>2, <2>3, <2>4 DEF OnGrid
  <2>6. fol[f].applied = 0  BY DEF Init, NotFollowing
  <2> QED  BY <2>1, <2>2, <2>5, <2>6, OnGridIsInRange
<1> QED  BY <1>1 DEF Init, RealInv, AppliedIsReal, NoneLate, Standing

LEMMA RealStep ==
    ASSUME PromptMoves, TrimsOnTheirGrid, IInv, RealInv, [Next]_vars
    PROVE  RealInv'
<1> USE DEF IInv, RealInv
<1>1. NoneLate'  BY NoMoveIsLate
<1>2. ASSUME NEW f \in Followers
      PROVE  /\ trim[f] \in Int /\ base[f] \in Int /\ fol[f].applied \in Int
             /\ trim[f] = base[f] + fol[f].applied
             /\ OnGrid(TrimLaw[DeskOf(f)], trim[f])
  BY DEF TypeOK, Follower, AppliedIsReal, Standing
<1>3. CASE TrimsKept
  BY <1>1, <1>3 DEF TrimsKept, trimDesk, AppliedIsReal, Standing
<1>4. CASE Settles
  <2>1. /\ Standing' /\ base' = base
        /\ \A f \in Followers : trim'[f] - trim[f] = fol'[f].applied - fol[f].applied
    BY <1>4, SettleMoves DEF Settles
  <2>2. TypeOK'  BY NextIInv
  <2>3. ASSUME NEW f \in Followers PROVE trim'[f] = base'[f] + fol'[f].applied
    <3>1. trim'[f] \in Int /\ fol'[f].applied \in Int  BY <2>2 DEF TypeOK, Follower
    <3>2. base'[f] = base[f] /\ trim'[f] - trim[f] = fol'[f].applied - fol[f].applied
      BY <2>1
    <3>3. /\ trim[f] \in Int /\ base[f] \in Int /\ fol[f].applied \in Int
          /\ trim[f] = base[f] + fol[f].applied
      BY <1>2
    <3> HIDE DEF IInv, RealInv
    <3> QED  BY <3>1, <3>2, <3>3
  <2> QED  BY <1>1, <2>1, <2>3 DEF AppliedIsReal
<1>5. CASE Lock
  <2>1. trim' = trim /\ base' = trim  BY <1>5 DEF Lock
  <2>2. \A f \in Followers : fol'[f].applied = 0  BY <1>5, LockStep
  <2> QED  BY <1>1, <1>2, <2>1, <2>2 DEF AppliedIsReal, Standing
<1>6. CASE \E d \in Desks : SetLeader(d)
  <2>1. PICK d \in Desks : SetLeader(d)  BY <1>6
  <2>2. /\ trim' = trim
        /\ base' = [f \in Followers |-> IF DeskOf(f) = d THEN trim[f] ELSE base[f]]
    BY <2>1 DEF SetLeader
  <2>3. \A f \in Followers :
          fol'[f].applied = IF DeskOf(f) = d THEN 0 ELSE fol[f].applied
    BY <2>1 DEF SetLeader, ResolvedFol, NotFollowing
  <2> QED  BY <1>1, <1>2, <2>2, <2>3 DEF AppliedIsReal, Standing
<1>7. CASE \E f \in Followers : LateMove(f)
  BY <1>7 DEF LateMove, NoneLate
<1>8. CASE \E f \in Followers : \E v \in LocalTrims : LocalMove(f, v)
  <2>1. PICK g \in Followers, v \in LocalTrims : LocalMove(g, v)  BY <1>8
  <2>2. /\ trim' = [trim EXCEPT ![g] = v] /\ base' = [base EXCEPT ![g] = @ + v - trim[g]]
        /\ fol' = fol
    BY <2>1 DEF LocalMove, inner
  <2>3. v \in Int /\ OnGrid(TrimLaw[DeskOf(g)], v)
    BY ValueAssumption DEF TrimsOnTheirGrid
  <2>4. trim \in [Followers -> Int] /\ base \in [Followers -> Int]  BY DEF TypeOK
  <2>5. ASSUME NEW f \in Followers
        PROVE  /\ trim'[f] = base'[f] + fol'[f].applied
               /\ OnGrid(TrimLaw[DeskOf(f)], trim'[f])
    BY <1>2, <2>2, <2>3, <2>4
  <2> QED  BY <1>1, <2>5 DEF AppliedIsReal, Standing
<1> QED  BY <1>3, <1>4, <1>5, <1>6, <1>7, <1>8, TrimSteps

\* FollowerStatus::applied_db is the truth, for any desks, trims and signals
\* and whatever fails: the trim on the desk is where its engineer wants it
\* plus the change reported.
THEOREM AppliedReal ==
    ASSUME PromptMoves, TrimsOnTheirGrid
    PROVE  Spec => []AppliedIsReal
<1>1. IInv /\ RealInv /\ [Next]_vars => RealInv'  BY RealStep
<1>2. RealInv => AppliedIsReal  BY DEF RealInv
<1> QED  BY <1>1, <1>2, RealInit, Invariance, PTL DEF Spec

----------------------------------------------------------------------------
(* What is owed without an error *)

\* The invariant behind OwedIsExplained: every follower can be reached, so
\* what it is not given it is refused with an error.
OwedInv ==
    /\ OwedIsExplained
    /\ connected = Desks
    /\ \A f \in Following : fol[f].ono

\* With nothing owed, a follower is served.
LEMMA NothingOwed ==
    ASSUME NEW f \in Followers, fol[f].owed = 0 PROVE Served(f)
<1>1. TrimLaw[DeskOf(f)].step \in Int /\ TrimLaw[DeskOf(f)].step > 0
  BY FollowerType DEF IsLaw
<1> QED  BY <1>1 DEF Served, Size

LEMMA ResolvedFollowers ==
    ASSUME TrimsAreTheLocks, connected = Desks, NEW l \in Desks,
           NEW f \in Followers, DeskOf(f) # l
    PROVE  ResolvedFol(l)[f].ono
  BY FollowerType DEF ResolvedFol, HasTrim, TrimsAreTheLocks

LEMMA OwedInit == TrimsAreTheLocks /\ Init => OwedInv
<1> SUFFICES ASSUME TrimsAreTheLocks, Init PROVE OwedInv
  OBVIOUS
<1>1. connected = Desks  BY DEF Init, TrimsAreTheLocks
<1>2. ASSUME NEW f \in Following PROVE fol[f].ono
  <2>1. f \in Followers /\ DeskOf(f) # FirstLeader  BY DEF Following, Init
  <2> QED  BY <1>1, <2>1, FollowerType DEF Init, HasTrim, TrimsAreTheLocks
<1> QED  BY <1>1, <1>2 DEF Init, OwedInv, OwedIsExplained

LEMMA OwedStep ==
    ASSUME PromptMoves, TrimsAreTheLocks, IInv, RealInv, OwedInv, [Next]_vars
    PROVE  OwedInv'
<1> USE DEF IInv
<1>1. connected = Desks /\ \A f \in Following : fol[f].ono  BY DEF OwedInv
<1>2. CASE TrimsKept
  <2>1. connected' = connected  BY <1>2 DEF TrimsKept, TrimsAreTheLocks
  <2>2. UNCHANGED <<fol, trim, leader>> /\ (locked' => locked)
    BY <1>2 DEF TrimsKept, trimDesk
  <2> QED
    BY <1>1, <2>1, <2>2 DEF OwedInv, OwedIsExplained, Following, Served
<1>3. CASE Settles
  <2>0. PICK F \in SUBSET Followers :
          \E due \in [F -> Int] : \E dn \in SUBSET Desks : Settle(F, due, dn)
    BY <1>3 DEF Settles
  <2>1. PICK due \in [F -> Int], dn \in SUBSET Desks : Settle(F, due, dn)
    BY <2>0
  <2>2. /\ \A f \in Followers \ F : fol'[f] = fol[f] /\ trim'[f] = trim[f]
        /\ \A f \in Followers : fol'[f].ono = fol[f].ono
        /\ \A f \in F : fol[f].ono /\ fol'[f].error = "none" => Served(f)'
    BY <1>1, <2>1, SettleMoves DEF RealInv
  <2>3. locked /\ leader' = leader /\ connected' = connected /\ Following' = Following
    BY <1>3 DEF Settles, Following
  <2>4. Following \subseteq Followers  BY DEF Following
  <2>5. ASSUME NEW f \in Following, fol'[f].error = "none" PROVE Served(f)'
    <3>1. CASE f \in F  BY <1>1, <2>2, <2>5, <3>1
    <3>2. CASE f \notin F
      <4>1. fol'[f] = fol[f] /\ trim'[f] = trim[f]  BY <2>2, <2>4, <3>2
      <4>2. Served(f)  BY <2>3, <2>5, <4>1 DEF OwedInv, OwedIsExplained
      <4> QED  BY <4>1, <4>2 DEF Served
    <3> QED  BY <3>1, <3>2
  <2> QED  BY <1>1, <2>2, <2>3, <2>4, <2>5 DEF OwedInv, OwedIsExplained
<1>4. CASE Lock
  <2>1. leader' = leader /\ connected' = connected /\ fol' = NewBooks
    BY <1>4 DEF Lock, network
  <2>2. leader \in Desks  BY DEF TypeOK
  <2>3. ASSUME NEW f \in Following' PROVE fol'[f].ono /\ Served(f)'
    <3>1. f \in Followers /\ DeskOf(f) # leader  BY <2>1 DEF Following
    <3>2. fol'[f].ono /\ fol'[f].owed = 0
      BY <1>1, <2>1, <2>2, <3>1, ResolvedFollowers DEF NewBooks
    <3>3. TrimLaw[DeskOf(f)].step \in Int /\ TrimLaw[DeskOf(f)].step > 0
      BY <3>1, FollowerType DEF IsLaw
    <3> QED  BY <3>2, <3>3 DEF Served, Size
  <2> QED  BY <1>1, <2>1, <2>3 DEF OwedInv, OwedIsExplained
<1>5. CASE \E d \in Desks : SetLeader(d)
  <2>1. PICK d \in Desks : SetLeader(d)  BY <1>5
  <2>2. leader' = d /\ connected' = connected /\ fol' = ResolvedFol(d) /\ ~locked'
    BY <2>1 DEF SetLeader, network
  <2>3. ASSUME NEW f \in Following' PROVE fol'[f].ono
    <3>1. f \in Followers /\ DeskOf(f) # d  BY <2>2 DEF Following
    <3> QED  BY <1>1, <2>2, <3>1, ResolvedFollowers
  <2> QED  BY <1>1, <2>2, <2>3 DEF OwedInv, OwedIsExplained
<1>6. CASE \E f \in Followers : LateMove(f) \/ \E v \in LocalTrims : LocalMove(f, v)
  BY <1>6 DEF LateMove, RealInv, NoneLate, TrimsAreTheLocks
<1> QED  BY <1>2, <1>3, <1>4, <1>5, <1>6, TrimSteps

\* "What is owed without an error is under half a trim step, or beyond the
\* trim's range" (FollowerStatus::owed_db), for any desks, signals and trims
\* and whatever desk stops answering and comes back, as long as the followers
\* have their trims and the lock alone moves them.
THEOREM OwedExplained ==
    ASSUME PromptMoves, TrimsAreTheLocks
    PROVE  Spec => []OwedIsExplained
<1>1. TrimsOnTheirGrid  BY DEF TrimsAreTheLocks, TrimsOnTheirGrid
<1>2. Init => OwedInv  BY OwedInit
<1>3. IInv /\ RealInv /\ [Next]_vars => RealInv'  BY <1>1, RealStep
<1>4. IInv /\ RealInv /\ OwedInv /\ [Next]_vars => OwedInv'  BY OwedStep
<1>5. OwedInv => OwedIsExplained  BY DEF OwedInv
<1> QED  BY <1>2, <1>3, <1>4, <1>5, RealInit, Invariance, PTL DEF Spec

----------------------------------------------------------------------------
(***************************************************************************)
(* The point of the lock: followers hear their leader at the level their   *)
(* engineers set, because the engine never takes an echo for a move, nor a *)
(* move for an echo; and a new leader is heard afresh.                     *)
(***************************************************************************)

(* Expectations against the reports under way.  e: the gains expected; w:   *)
(* the reports on the wire; g: the gain the engine goes by; k: the desk's.  *)

\* The gain a desk asked for v takes.
Held(v) == Clamp(GainMin, GainMax, v)

\* What is expected is under way, in the order in which it was caused.
Embeds(e, w) ==
    \E h \in [1..Len(e) -> 1..Len(w)] :
        /\ \A i, j \in 1..Len(e) : i < j => h[i] < h[j]
        /\ \A i \in 1..Len(e) : w[h[i]] = Held(e[i])

OnTrack(e, g, w, k) ==
    /\ Embeds(e, w)
    /\ e # <<>> => g = e[Len(e)]
    /\ w = <<>> /\ g # None => g = k

LEMMA HeldType == \A v \in Int : Held(v) \in GainMin..GainMax
  BY ValueAssumption DEF Held, Clamp

LEMMA HeldIsItself == \A v \in GainMin..GainMax : Held(v) = v
  BY ValueAssumption DEF Held, Clamp

LEMMA NothingEmbeds == \A w : Embeds(<<>>, w)
<1> SUFFICES ASSUME NEW w PROVE Embeds(<<>>, w)
  OBVIOUS
<1>1. Len(<<>>) = 0 /\ 1..0 = {}  BY EmptySeq
<1>2. [i \in {} |-> 0] \in [{} -> 1..Len(w)]  OBVIOUS
<1> QED  BY <1>1, <1>2 DEF Embeds

\* A signal nothing is known of is on track.
LEMMA Fresh == \A w, k : OnTrack(<<>>, None, w, k)
  BY NothingEmbeds DEF OnTrack

\* More reports under way disturb nothing.
LEMMA Pushed ==
    ASSUME NEW e \in Seq(Int), NEW g, NEW w \in Seq(Int), NEW k, OnTrack(e, g, w, k),
           NEW u \in Seq(Int), u # <<>>, NEW k2
    PROVE  OnTrack(e, g, w \o u, k2)
<1>1. Len(w) \in Nat /\ Len(u) \in Nat /\ Len(u) > 0 /\ Len(e) \in Nat
  BY EmptySeq, LenProperties
<1>2. /\ w \o u \in Seq(Int) /\ Len(w \o u) = Len(w) + Len(u)
      /\ \A i \in 1..Len(w) : (w \o u)[i] = w[i]
  BY <1>1, ConcatProperties
<1>3. w \o u # <<>>  BY <1>1, <1>2, EmptySeq
<1>4. PICK h \in [1..Len(e) -> 1..Len(w)] :
        /\ \A i, j \in 1..Len(e) : i < j => h[i] < h[j]
        /\ \A i \in 1..Len(e) : w[h[i]] = Held(e[i])
  BY DEF OnTrack, Embeds
<1>5. h \in [1..Len(e) -> 1..Len(w \o u)]  BY <1>1, <1>2
<1>6. \A i \in 1..Len(e) : (w \o u)[h[i]] = Held(e[i])  BY <1>2, <1>4
<1>7. Embeds(e, w \o u)  BY <1>4, <1>5, <1>6 DEF Embeds
<1> QED  BY <1>3, <1>7 DEF OnTrack

\* The engine causes a report, expects it and goes by it.
LEMMA Caused ==
    ASSUME NEW e \in Seq(Int), NEW g, NEW w \in Seq(Int), NEW k, OnTrack(e, g, w, k),
           NEW u \in Seq(Int), NEW v \in Int, NEW m \in 1..Len(u), u[m] = Held(v), NEW k2
    PROVE  OnTrack(Append(e, v), v, w \o u, k2)
<1> DEFINE f == Append(e, v)
           x == w \o u
<1>1. Len(w) \in Nat /\ Len(u) \in Nat /\ Len(u) > 0 /\ Len(e) \in Nat /\ m \in Int
  BY LenProperties
<1>2. /\ f \in Seq(Int) /\ f # <<>> /\ Len(f) = Len(e) + 1
      /\ \A i \in 1..Len(e) : f[i] = e[i]
      /\ f[Len(f)] = v
  <2>1. f \in Seq(Int) /\ Len(f) = Len(e) + 1
    BY ONLY e \in Seq(Int), v \in Int
  <2>2. \A i \in 1..Len(e) : f[i] = e[i]
    BY ONLY e \in Seq(Int), v \in Int
  <2>3. f[Len(e) + 1] = v
    BY ONLY e \in Seq(Int), v \in Int
  <2>4. f # <<>>  BY AppendProperties
  <2> QED  BY <2>1, <2>2, <2>3, <2>4
<1>3. /\ x \in Seq(Int) /\ Len(x) = Len(w) + Len(u)
      /\ \A i \in 1..Len(w) : x[i] = w[i]
      /\ x[Len(w) + m] = u[m]
  <2>1. Len(w) + m \in 1..(Len(w) + Len(u)) /\ ~(Len(w) + m <= Len(w)) /\ (Len(w) + m) - Len(w) = m
    BY <1>1
  <2> QED  BY <1>1, <2>1, ConcatProperties
<1>4. x # <<>>  BY <1>1, <1>3, EmptySeq
<1> HIDE DEF f, x
<1>5. PICK h \in [1..Len(e) -> 1..Len(w)] :
        /\ \A i, j \in 1..Len(e) : i < j => h[i] < h[j]
        /\ \A i \in 1..Len(e) : w[h[i]] = Held(e[i])
  BY DEF OnTrack, Embeds
<1> DEFINE h2 == [i \in 1..Len(f) |-> IF i <= Len(e) THEN h[i] ELSE Len(w) + m]
<1>6. \A i \in 1..Len(f) : i \in 1..Len(e) \/ (i = Len(f) /\ ~(i <= Len(e)))  BY <1>1, <1>2
<1>7. ASSUME NEW i \in 1..Len(e) PROVE h[i] \in 1..Len(w) /\ h2[i] = h[i]
  <2>1. i \in 1..Len(f) /\ i <= Len(e)  BY <1>1, <1>2
  <2> QED  BY <1>5, <2>1
<1>8. h2[Len(f)] = Len(w) + m
  <2>1. Len(f) \in 1..Len(f) /\ ~(Len(f) <= Len(e))  BY <1>1, <1>2
  <2> QED  BY <2>1
<1>9. h2 \in [1..Len(f) -> 1..Len(x)]
  <2>1. ASSUME NEW i \in 1..Len(f) PROVE h2[i] \in 1..Len(x)
    <3> HIDE DEF h2
    <3>1. CASE i \in 1..Len(e)
      <4>1. h2[i] \in 1..Len(w)  BY <1>7, <3>1
      <4> QED  BY <1>1, <1>3, <4>1
    <3>2. CASE i = Len(f)
      <4>1. Len(w) + m \in 1..(Len(w) + Len(u))  BY <1>1
      <4> QED  BY <1>3, <1>8, <3>2, <4>1
    <3> QED  BY <1>6, <3>1, <3>2
  <2> QED  BY <2>1
<1> HIDE DEF h2
<1>10. ASSUME NEW i \in 1..Len(f), NEW j \in 1..Len(f), i < j PROVE h2[i] < h2[j]
  <2>1. i \in 1..Len(e)  BY <1>1, <1>2, <1>10
  <2>2. CASE j \in 1..Len(e)  BY <1>5, <1>7, <1>10, <2>1, <2>2
  <2>3. CASE j = Len(f)
    <3>1. \A n \in 1..Len(w) : n < Len(w) + m  BY <1>1
    <3>2. h2[i] \in 1..Len(w)  BY <1>7, <2>1
    <3> QED  BY <1>8, <2>3, <3>1, <3>2
  <2> QED  BY <1>6, <2>2, <2>3
<1>11. ASSUME NEW i \in 1..Len(f) PROVE x[h2[i]] = Held(f[i])
  <2>1. CASE i \in 1..Len(e)  BY <1>2, <1>3, <1>5, <1>7, <2>1
  <2>2. CASE i = Len(f)  BY <1>2, <1>3, <1>8, <2>2
  <2> QED  BY <1>6, <2>1, <2>2
<1>12. Embeds(f, x)  BY <1>9, <1>10, <1>11 DEF Embeds
<1> QED  BY <1>2, <1>4, <1>12 DEF OnTrack, f, x

\* The oldest expectation is dropped.
LEMMA Expired ==
    ASSUME NEW e \in Seq(Int), e # <<>>, NEW g, NEW w \in Seq(Int), NEW k, OnTrack(e, g, w, k)
    PROVE  OnTrack(Tail(e), g, w, k)
<1> DEFINE t == Tail(e)
<1>1. /\ Len(e) \in Nat /\ Len(e) > 0 /\ Len(w) \in Nat
      /\ t \in Seq(Int) /\ Len(t) = Len(e) - 1
      /\ \A i \in 1..Len(t) : t[i] = e[i + 1]
  BY EmptySeq, LenProperties, HeadTailProperties
<1> HIDE DEF t
<1>2. PICK h \in [1..Len(e) -> 1..Len(w)] :
        /\ \A i, j \in 1..Len(e) : i < j => h[i] < h[j]
        /\ \A i \in 1..Len(e) : w[h[i]] = Held(e[i])
  BY DEF OnTrack, Embeds
<1> DEFINE h2 == [i \in 1..Len(t) |-> h[i + 1]]
<1>3. \A i \in 1..Len(t) : i + 1 \in 1..Len(e) /\ h2[i] = h[i + 1]  BY <1>1
<1>4. h2 \in [1..Len(t) -> 1..Len(w)]  BY <1>1, <1>2, <1>3
<1> HIDE DEF h2
<1>5. \A i, j \in 1..Len(t) : i < j => h2[i] < h2[j]
  <2> SUFFICES ASSUME NEW i \in 1..Len(t), NEW j \in 1..Len(t), i < j PROVE h2[i] < h2[j]
    OBVIOUS
  <2>1. i + 1 < j + 1  BY <1>1
  <2> QED  BY <1>2, <1>3, <2>1
<1>6. \A i \in 1..Len(t) : w[h2[i]] = Held(t[i])  BY <1>1, <1>2, <1>3
<1>7. Embeds(t, w)  BY <1>4, <1>5, <1>6 DEF Embeds
<1>8. t # <<>> => g = t[Len(t)]
  <2> SUFFICES ASSUME t # <<>> PROVE g = t[Len(t)]
    OBVIOUS
  <2>1. Len(t) \in 1..Len(t) /\ Len(t) + 1 = Len(e)  BY <1>1, EmptySeq
  <2>2. t[Len(t)] = e[Len(e)]  BY <1>1, <2>1
  <2> QED  BY <2>2 DEF OnTrack
<1> QED  BY <1>7, <1>8 DEF OnTrack, t

\* A report that is expected settles its expectation and the older ones; the
\* last one under way leaves the engine with the desk's gain.
LEMMA Swallowed ==
    ASSUME NEW e \in Seq(Int), NEW g, NEW w \in Seq(Int), NEW k, OnTrack(e, g, w, k),
           w # <<>>, w[Len(w)] = k, NEW p \in 1..Len(e), e[p] = Head(w)
    PROVE  /\ OnTrack(SubSeq(e, p + 1, Len(e)), g, Tail(w), k)
           /\ Len(w) = 1 => g = k
<1> DEFINE t == SubSeq(e, p + 1, Len(e))
           x == Tail(w)
<1>1. /\ Len(e) \in Nat /\ Len(w) \in Nat /\ Len(w) > 0 /\ p \in Nat /\ 1 <= p /\ p <= Len(e)
      /\ \A i \in 1..Len(e) : e[i] \in Int
  BY EmptySeq, LenProperties, ElementOfSeq
<1>2. /\ x \in Seq(Int) /\ Len(x) = Len(w) - 1 /\ Head(w) = w[1]
      /\ \A i \in 1..Len(x) : x[i] = w[i + 1]
  BY HeadTailProperties
<1>3. t \in Seq(Int) /\ Len(t) = Len(e) - p /\ \A i \in 1..Len(t) : t[i] = e[i + p]
  <2>1. p + 1 \in Int /\ Len(e) \in Int /\ \A i \in (p + 1)..Len(e) : e[i] \in Int
    BY <1>1
  <2>2. /\ t \in Seq(Int) /\ Len(t) = IF p + 1 <= Len(e) THEN Len(e) - (p + 1) + 1 ELSE 0
        /\ \A i \in 1..(Len(e) - (p + 1) + 1) : t[i] = e[p + 1 + i - 1]
    BY <2>1, SubSeqProperties
  <2> HIDE DEF t
  <2>3. Len(t) = Len(e) - p  BY <1>1, <2>2
  <2>4. ASSUME NEW i \in 1..Len(t) PROVE t[i] = e[i + p]
    <3>1. i \in 1..(Len(e) - (p + 1) + 1) /\ p + 1 + i - 1 = i + p  BY <1>1, <2>3
    <3> QED  BY <2>2, <3>1
  <2> QED  BY <2>2, <2>3, <2>4
<1> HIDE DEF t, x
<1>4. PICK h \in [1..Len(e) -> 1..Len(w)] :
        /\ \A i, j \in 1..Len(e) : i < j => h[i] < h[j]
        /\ \A i \in 1..Len(e) : w[h[i]] = Held(e[i])
  BY DEF OnTrack, Embeds
<1> DEFINE h2 == [i \in 1..Len(t) |-> h[i + p] - 1]
<1>5. ASSUME NEW i \in 1..Len(t)
      PROVE  /\ i + p \in 1..Len(e) /\ h[i + p] \in 1..Len(w) /\ h[i + p] > 1
             /\ h2[i] = h[i + p] - 1 /\ h2[i] \in 1..Len(x) /\ h2[i] + 1 = h[i + p]
  <2>1. i + p \in 1..Len(e) /\ p < i + p  BY <1>1, <1>3
  <2>2. h[p] \in 1..Len(w) /\ h[i + p] \in 1..Len(w) /\ h[p] < h[i + p]  BY <1>4, <2>1
  <2>3. h[i + p] \in Int /\ h[i + p] > 1 /\ h[i + p] <= Len(w)  BY <1>1, <2>2
  <2>4. Len(x) = Len(w) - 1 /\ Len(w) \in Nat  BY <1>1, <1>2
  <2>5. h[i + p] - 1 \in 1..Len(x) /\ (h[i + p] - 1) + 1 = h[i + p]
    <3> DEFINE a == h[i + p]
    <3>1. a \in Int /\ a > 1 /\ a <= Len(w)  BY <2>3
    <3> HIDE DEF a
    <3>2. a - 1 \in 1..Len(x) /\ (a - 1) + 1 = a  BY <2>4, <3>1
    <3> QED  BY <3>2 DEF a
  <2>6. h2[i] = h[i + p] - 1  OBVIOUS
  <2>7. h2[i] \in 1..Len(x) /\ h2[i] + 1 = h[i + p]  BY <2>5, <2>6
  <2> QED  BY <2>1, <2>2, <2>3, <2>6, <2>7
<1>6. h2 \in [1..Len(t) -> 1..Len(x)]  BY <1>5
<1> HIDE DEF h2
<1>7. \A i, j \in 1..Len(t) : i < j => h2[i] < h2[j]
  <2> SUFFICES ASSUME NEW i \in 1..Len(t), NEW j \in 1..Len(t), i < j PROVE h2[i] < h2[j]
    OBVIOUS
  <2>1. i + p < j + p  BY <1>1
  <2>2. h[i + p] < h[j + p]  BY <1>4, <1>5, <2>1
  <2>3. /\ h[i + p] \in 1..Len(w) /\ h[j + p] \in 1..Len(w)
        /\ h2[i] = h[i + p] - 1 /\ h2[j] = h[j + p] - 1
    BY <1>5
  <2> DEFINE a == h[i + p]
  <2> DEFINE b == h[j + p]
  <2>4. a \in 1..Len(w) /\ b \in 1..Len(w) /\ a < b  BY <2>2, <2>3
  <2> HIDE DEF a, b
  <2>5. a - 1 < b - 1  BY <2>4
  <2> QED  BY <2>3, <2>5 DEF a, b
<1>8. ASSUME NEW i \in 1..Len(t) PROVE x[h2[i]] = Held(t[i])
  <2>1. x[h2[i]] = w[h[i + p]]  BY <1>2, <1>5
  <2>2. w[h[i + p]] = Held(e[i + p])  BY <1>4, <1>5
  <2> QED  BY <1>3, <2>1, <2>2
<1>9. Embeds(t, x)  BY <1>6, <1>7, <1>8 DEF Embeds
<1>10. e # <<>> /\ g = e[Len(e)]
  <2>1. e # <<>>  BY <1>1, EmptySeq
  <2> QED  BY <2>1 DEF OnTrack
<1>11. t # <<>> => g = t[Len(t)]
  <2> SUFFICES ASSUME t # <<>> PROVE g = t[Len(t)]
    OBVIOUS
  <2>1. Len(t) \in 1..Len(t) /\ Len(t) + p = Len(e)  BY <1>1, <1>3, EmptySeq
  <2> QED  BY <1>3, <1>10, <2>1
<1>12. ASSUME Len(w) = 1 PROVE g = k
  <2>1. ~(1 < Len(e))
    <3> SUFFICES ASSUME 1 < Len(e) PROVE FALSE
      OBVIOUS
    <3>1. 1 \in 1..Len(e) /\ 2 \in 1..Len(e) /\ 1 < 2  BY <1>1
    <3>2. h[1] < h[2] /\ h[1] \in 1..1 /\ h[2] \in 1..1  BY <1>4, <1>12, <3>1
    <3> QED  BY <3>2
  <2>2. p = Len(e)  BY <1>1, <2>1
  <2> QED  BY <1>2, <1>10, <1>12, <2>2
<1>13. x = <<>> => Len(w) = 1
  <2>1. x = <<>> => Len(x) = 0  BY EmptySeq
  <2> QED  BY <1>1, <1>2, <2>1
<1> QED  BY <1>9, <1>11, <1>12, <1>13 DEF OnTrack, t, x

\* A report that is not expected is what the engine goes by from then on.
LEMMA TakenAsNews ==
    ASSUME NEW w \in Seq(Int), w # <<>>, NEW k, w[Len(w)] = k
    PROVE  OnTrack(<<>>, Head(w), Tail(w), k)
<1>1. Len(w) \in Nat /\ Len(w) > 0 /\ Len(Tail(w)) = Len(w) - 1 /\ Head(w) = w[1]
  BY EmptySeq, LenProperties, HeadTailProperties
<1>2. Tail(w) = <<>> => Len(w) = 1
  <2>1. Tail(w) = <<>> => Len(Tail(w)) = 0  BY EmptySeq
  <2> QED  BY <1>1, <2>1
<1> QED  BY <1>1, <1>2, NothingEmbeds DEF OnTrack

----------------------------------------------------------------------------
(* What the engine knows of its leader *)

\* A device that leads some signal, when it is the leader.
MayLead(d) == \E s \in Signals : LeaderPreamp(s, d) # None

\* No two devices lead a signal through preamps of one number: the engine
\* tells a new leader's preamp by its number (GainLockSameNumber).
Apart ==
    \A s \in Signals : \A d, l \in Desks :
        LeaderPreamp(s, d) = LeaderPreamp(s, l) => d = l \/ LeaderPreamp(s, d) = None

\* What is known of a signal is known of the present leader's preamp, and of a
\* signal without one nothing is.
KnowsLeader ==
    \A s \in Signals :
        /\ live[s].preamp = LeaderPreamp(s, leader)
        /\ live[s].ono # None => live[s].ono = live[s].preamp
        /\ live[s].ono = None => live[s].gain = None /\ live[s].expected = <<>> /\ batch[s] = None

LEMMA ResolvedKnows ==
    ASSUME TypeOK, KnowsLeader, NEW l \in Desks, NEW s \in Signals
    PROVE  LET now == ResolvedLive(l) IN
           /\ now[s] \in Live /\ now[s].preamp = LeaderPreamp(s, l)
           /\ now[s].ono = LeaderOno(s, l)
           /\ now[s].ono # None => now[s].ono = now[s].preamp /\ <<l, now[s].ono>> \in Knobs
           /\ now[s].ono = None => now[s].gain = None /\ now[s].expected = <<>>
           /\ \/ SameLeader(s, l) /\ now[s].gain = live[s].gain
                                  /\ now[s].expected = live[s].expected
              \/ now[s].gain = None /\ now[s].expected = <<>>
<1> DEFINE now == ResolvedLive(l)
<1>1. /\ now \in [Signals -> Live] /\ now[s].ono = LeaderOno(s, l)
      /\ now[s].ono # None => <<l, now[s].ono>> \in Knobs
  BY ResolvedType
<1>2. /\ now[s].preamp = LeaderPreamp(s, l)
      /\ \/ SameLeader(s, l) /\ now[s].gain = live[s].gain /\ now[s].expected = live[s].expected
         \/ now[s].gain = None /\ now[s].expected = <<>>
  BY DEF ResolvedLive
<1>3. LeaderOno(s, l) # None => LeaderOno(s, l) = LeaderPreamp(s, l)  BY DEF LeaderOno
<1>4. now[s].ono = None => now[s].gain = None /\ now[s].expected = <<>>
  BY <1>1, <1>2 DEF SameLeader, KnowsLeader
<1> QED  BY <1>1, <1>2, <1>3, <1>4

\* lock(), seen from one signal.
LEMMA LockReads ==
    ASSUME IInv, KnowsLeader, Lock
    PROVE  \E answered \in IF leader \in answering THEN {{s \in Signals : ResolvedLive(leader)[s].ono # None}}
                           ELSE SUBSET {s \in Signals : ResolvedLive(leader)[s].ono # None} :
             /\ ReadBy([n \in Knobs |-> Cardinality({s \in answered :
                                           <<leader, ResolvedLive(leader)[s].ono>> = n})])
             /\ \A s \in Signals :
                  LET now == ResolvedLive(leader)[s]
                      got == Answer(<<leader, now.ono>>) IN
                  /\ live'[s].preamp = now.preamp /\ live'[s].ono = now.ono
                  /\ s \in answered =>
                       live'[s].gain = got /\ live'[s].expected = Append(now.expected, got)
                  /\ s \notin answered =>
                       live'[s].gain = now.gain /\ live'[s].expected = now.expected
<1> DEFINE now == ResolvedLive(leader)
           leads == {s \in Signals : now[s].ono # None}
           at(s) == <<leader, now[s].ono>>
<1>1. PICK answered \in IF leader \in answering THEN {leads} ELSE SUBSET leads :
        /\ ReadBy([n \in Knobs |-> Cardinality({s \in answered : at(s) = n})])
        /\ live' = [s \in Signals |->
             IF s \in answered
             THEN [now[s] EXCEPT !.gain = Answer(at(s)), !.reference = Answer(at(s)),
                                 !.expected = Append(@, Answer(at(s)))]
             ELSE IF s \in leads /\ now[s].gain # None
             THEN [now[s] EXCEPT !.reference = now[s].gain]
             ELSE [now[s] EXCEPT !.reference = None,
                                 !.problem = IF s \in leads THEN "not armed" ELSE @]]
  BY DEF Lock
<1>2. \A s \in Signals : now[s] \in Live  BY ResolvedKnows DEF IInv, TypeOK
<1> HIDE DEF now, at
<1>3. ASSUME NEW s \in Signals
      PROVE  /\ live'[s].preamp = now[s].preamp /\ live'[s].ono = now[s].ono
             /\ s \in answered => /\ live'[s].gain = Answer(at(s))
                                  /\ live'[s].expected = Append(now[s].expected, Answer(at(s)))
             /\ s \notin answered => /\ live'[s].gain = now[s].gain
                                     /\ live'[s].expected = now[s].expected
  <2>1. now[s] \in Live  BY <1>2
  <2>2. CASE s \in answered
    <3>1. live'[s] = [now[s] EXCEPT !.gain = Answer(at(s)), !.reference = Answer(at(s)),
                                    !.expected = Append(@, Answer(at(s)))]
      BY <1>1, <2>2
    <3> QED  BY <2>1, <2>2, <3>1 DEF Live
  <2>3. CASE s \notin answered
    BY <1>1, <2>1, <2>3 DEF Live
  <2> QED  BY <2>2, <2>3
<1> QED  BY <1>1, <1>3 DEF now, at

LEMMA KnowsInit == Init => KnowsLeader
<1> SUFFICES ASSUME Init, NEW s \in Signals
             PROVE  /\ live[s].preamp = LeaderPreamp(s, leader)
                    /\ live[s].ono # None => live[s].ono = live[s].preamp
                    /\ live[s].gain = None /\ live[s].expected = <<>> /\ batch[s] = None
  BY DEF KnowsLeader
<1> QED  BY DEF Init, LeaderOno

LEMMA KnowsStep == ASSUME IInv, KnowsLeader, [Next]_vars PROVE KnowsLeader'
<1> USE DEF IInv
<1>1. ASSUME leader' = leader,
             \A s \in Signals : live'[s].preamp = live[s].preamp /\ live'[s].ono = live[s].ono,
             \A s \in Signals : live[s].ono = None =>
                /\ live'[s].gain = live[s].gain /\ live'[s].expected = live[s].expected
                /\ batch'[s] = batch[s]
      PROVE  KnowsLeader'
  BY <1>1 DEF KnowsLeader
<1>2. live \in [Signals -> Live] /\ batch \in [Signals -> Int \union {None, Reread}]
  BY DEF TypeOK
<1>3. ASSUME leader' = leader, live' = live, batch' = batch PROVE KnowsLeader'
  BY <1>1, <1>3
<1>4. ASSUME NEW s \in Signals, NEW v, SetGain(s, v) PROVE KnowsLeader'
  <2>1. /\ leader' = leader /\ live[s].ono # None /\ batch' = [batch EXCEPT ![s] = v]
        /\ live' = [live EXCEPT ![s].expected = Expecting(s, v)]
    BY <1>4 DEF SetGain
  <2> QED  BY <1>1, <1>2, <2>1 DEF Live
<1>5. CASE Client
  <2>1. CASE Lock
    <3>1. leader' = leader /\ batch' = batch /\ leader \in Desks /\ \A s \in Signals : batch[s] = None
      BY <2>1 DEF Lock, task, Free, TypeOK
    <3>2. PICK answered \in SUBSET {s \in Signals : ResolvedLive(leader)[s].ono # None} :
            \A s \in Signals :
                  LET now == ResolvedLive(leader)[s] IN
                  /\ live'[s].preamp = now.preamp /\ live'[s].ono = now.ono
                  /\ s \notin answered =>
                       live'[s].gain = now.gain /\ live'[s].expected = now.expected
      BY <2>1, LockReads
    <3>3. ASSUME NEW s \in Signals
          PROVE  /\ live'[s].preamp = LeaderPreamp(s, leader)
                 /\ live'[s].ono # None => live'[s].ono = live'[s].preamp
                 /\ live'[s].ono = None => live'[s].gain = None /\ live'[s].expected = <<>>
      BY <3>1, <3>2, ResolvedKnows
    <3> QED  BY <3>1, <3>3 DEF KnowsLeader
  <2>2. CASE Unlock  BY <1>3, <2>2 DEF Unlock, task
  <2>3. CASE \E d \in Desks : SetLeader(d)
    <3>1. PICK d \in Desks : SetLeader(d)  BY <2>3
    <3>2. leader' = d /\ batch' = batch /\ live' = ResolvedLive(d) /\ \A s \in Signals : batch[s] = None
      BY <3>1 DEF SetLeader, task, Free
    <3>3. ASSUME NEW s \in Signals
          PROVE  /\ live'[s].preamp = LeaderPreamp(s, d)
                 /\ live'[s].ono # None => live'[s].ono = live'[s].preamp
                 /\ live'[s].ono = None => live'[s].gain = None /\ live'[s].expected = <<>>
      BY <3>2, ResolvedKnows
    <3> QED  BY <3>2, <3>3 DEF KnowsLeader
  <2>4. CASE \E s \in Signals : \E v \in SetValues : SetPreamp(s, v)
    BY <1>4, <2>4 DEF SetPreamp
  <2>5. CASE \E c \in Clients : \E s \in Signals : \E delta \in Deltas : NudgePreamp(c, s, delta)
    BY <1>3, <2>5 DEF NudgePreamp, inner, task
  <2>6. CASE \E c \in Clients : NudgePreampSets(c)
    <3>1. PICK c \in Clients : NudgePreampSets(c)  BY <2>6
    <3>2. client[c].signal \in Signals
      BY <3>1 DEF NudgePreampSets, TypeOK, Optional
    <3> QED  BY <1>3, <1>4, <3>1, <3>2 DEF NudgePreampSets, inner, task
  <2> QED  BY <1>5, <2>1, <2>2, <2>3, <2>4, <2>5, <2>6 DEF Client
<1>6. CASE Engine
  <2>1. CASE \E n \in Knobs : Hear(n)
    <3>1. PICK n \in Knobs : Hear(n)  BY <2>1
    <3>2. n[2] # None  BY ValueAssumption DEF Knobs
    <3>3. ASSUME NEW s \in Signals
          PROVE  /\ live'[s].preamp = live[s].preamp /\ live'[s].ono = live[s].ono
                 /\ live[s].ono = None => live'[s].gain = live[s].gain
                                          /\ live'[s].expected = live[s].expected
                                          /\ batch'[s] = batch[s]
      BY <1>2, <3>1, <3>2 DEF Hear, Live, LeaderKnob
    <3>4. leader' = leader  BY <3>1 DEF Hear
    <3> QED  BY <1>1, <3>3, <3>4
  <2>2. CASE RecvLagged \/ PollTick
    <3>1. leader' = leader /\ live' = live /\ batch' = Rereads /\ \A s \in Signals : batch[s] = None
      BY <2>2 DEF RecvLagged, PollTick, inner, Free
    <3> QED  BY <1>1, <3>1 DEF Rereads
  <2>3. CASE \E s \in Signals : ReadLeader(s)
    <3>1. PICK s \in Signals : ReadLeader(s)  BY <2>3
    <3>2. /\ leader' = leader /\ live[s].ono # None
          /\ live' \in {live, [live EXCEPT ![s].expected = Expecting(s, Answer(LeaderKnob(s)))]}
          /\ \A t \in Signals \ {s} : batch'[t] = batch[t]
      BY <1>2, <3>1 DEF ReadLeader, Aimed
    <3>3. /\ \A t \in Signals : live'[t].preamp = live[t].preamp /\ live'[t].ono = live[t].ono
          /\ \A t \in Signals \ {s} : live'[t] = live[t]
      BY <1>2, <3>2 DEF Live
    <3> QED  BY <1>1, <3>2, <3>3
  <2>4. CASE \E s \in Signals : Observe(s)
    <3>1. PICK s \in Signals : Observe(s)  BY <2>4
    <3>2. /\ leader' = leader /\ batch[s] # None /\ batch' = [batch EXCEPT ![s] = None]
          /\ live' \in {[live EXCEPT ![s].gain = batch[s]], [live EXCEPT ![s] = ArmedAt(s, batch[s])]}
      BY <3>1 DEF Observe
    <3>3. live[s].ono # None  BY <3>2 DEF KnowsLeader
    <3>4. /\ live'[s].preamp = live[s].preamp /\ live'[s].ono = live[s].ono
          /\ \A t \in Signals \ {s} : live'[t] = live[t] /\ batch'[t] = batch[t]
      <4>1. live[s] \in Live  BY <1>2
      <4>2. \A t \in Signals \ {s} : batch'[t] = batch[t]  BY <1>2, <3>2
      <4>3. CASE live' = [live EXCEPT ![s].gain = batch[s]]
        BY <1>2, <4>1, <4>2, <4>3 DEF Live
      <4>4. CASE live' = [live EXCEPT ![s] = ArmedAt(s, batch[s])]
        <5>1. live'[s] = [live[s] EXCEPT !.gain = batch[s], !.reference = batch[s], !.problem = "none"]
          BY <1>2, <4>4 DEF ArmedAt
        <5>2. live'[s].preamp = live[s].preamp /\ live'[s].ono = live[s].ono
          BY <4>1, <5>1 DEF Live
        <5> QED  BY <1>2, <4>2, <4>4, <5>2
      <4> QED  BY <3>2, <4>3, <4>4
    <3> QED  BY <1>1, <3>2, <3>3, <3>4
  <2>5. CASE RetryTick \/ RetryFailed \/ \E d \in Desks : Probe(d)
    BY <1>3, <2>5 DEF RetryTick, RetryFailed, Probe, inner
  <2> QED  BY <1>6, <2>1, <2>2, <2>3, <2>4, <2>5 DEF Engine
<1>7. CASE World
  <2>1. CASE \E s \in Signals : ExpireEcho(s)
    <3>1. PICK s \in Signals : ExpireEcho(s)  BY <2>1
    <3>2. /\ leader' = leader /\ batch' = batch /\ live[s].expected # <<>>
          /\ live' = [live EXCEPT ![s].expected = Tail(@)]
      BY <3>1 DEF ExpireEcho, task
    <3>3. live[s].ono # None  BY <3>2 DEF KnowsLeader
    <3> QED  BY <1>1, <1>2, <3>2, <3>3 DEF Live
  <2>2. CASE UNCHANGED <<inner, batch>>  BY <1>3, <2>2 DEF inner
  <2> QED  BY <1>7, <2>1, <2>2
           DEF World, SurfaceMove, LateMove, LocalMove, Fail, Recover, Leave, Join, Lag, task
<1>8. CASE UNCHANGED vars  BY <1>3, <1>8 DEF vars, inner, task
<1> QED  BY <1>5, <1>6, <1>7, <1>8 DEF Next

\* resolve() keeps its promise for any devices and signals as long as no signal
\* is led through preamps of one number on two devices: what the old leader
\* reported, and what was expected of it, does not carry over to the new one.
THEOREM CarriesNothingOver ==
    ASSUME Apart
    PROVE  Spec => NothingCarriesOver
<1>1. ASSUME IInv, KnowsLeader, [Next]_vars, leader' # leader, NEW s \in Signals
      PROVE  live'[s].gain = None /\ live'[s].expected = <<>>
  <2>1. PICK d \in Desks : SetLeader(d)
    BY <1>1 DEF Next, Client, Engine, World, vars, inner, Lock, Unlock, SetPreamp, SetGain,
                NudgePreamp, NudgePreampSets, Hear, RecvLagged, PollTick, ReadLeader, Observe,
                RetryTick, RetryFailed, Probe, SurfaceMove, LateMove, LocalMove, Fail, Recover,
                Leave, Join, Lag, ExpireEcho
  <2>2. live' = ResolvedLive(d) /\ leader' = d /\ leader \in Desks
    BY <1>1, <2>1 DEF SetLeader, IInv, TypeOK
  <2>3. CASE ~SameLeader(s, d)
    BY <2>2, <2>3 DEF ResolvedLive
  <2>4. CASE SameLeader(s, d)
    <3>1. LeaderPreamp(s, d) = LeaderPreamp(s, leader)
      BY <1>1, <2>4 DEF SameLeader, KnowsLeader
    <3>2. LeaderPreamp(s, d) = None  BY <1>1, <2>2, <3>1 DEF Apart
    <3>3. ResolvedLive(d)[s].ono = None  BY <3>2 DEF ResolvedLive, LeaderOno
    <3> QED  BY <1>1, <2>2, <3>3, ResolvedKnows DEF IInv
  <2> QED  BY <2>3, <2>4
<1>2. IInv /\ KnowsLeader /\ [Next]_vars => KnowsLeader'  BY KnowsStep
<1>3. IInv /\ KnowsLeader /\ [Next]_vars =>
        [leader' # leader => \A s \in Signals : live'[s].gain = None /\ live'[s].expected = <<>>]_vars
  BY <1>1
<1> QED  BY <1>2, <1>3, KnowsInit, Invariance, PTL DEF Spec, NothingCarriesOver

----------------------------------------------------------------------------
(* The invariant behind LevelsHold and SwallowLosesNothing *)

\* The desks that lead: they push their engineers' moves, confirm what they
\* are set to, answer every read, and do not fall silent.
LeadersConfirm ==
    \A d \in Desks : MayLead(d) =>
        /\ Kind[d].pushes /\ Kind[d].echoes /\ Kind[d].read = "ask"
        /\ d \notin MayFail

\* No report is lost: the engine keeps up, and no desk leaves the Router.
NoneLost == ~MayLag /\ MayLeave = {}

\* The gain the engine goes by: the one it is about to observe, if any.
Heard(s) == IF batch[s] \in {None, Reread} THEN live[s].gain ELSE batch[s]

AllThere ==
    /\ connected = Desks /\ ~lagged
    /\ \A d \in Desks : MayLead(d) => d \in answering
    /\ \A n \in Knobs : knob[n] \in GainMin..GainMax

\* The last report under way is of the gain the desk has.
EndsRight ==
    \A n \in Knobs : MayLead(n[1]) /\ wire[n] # <<>> => wire[n][Len(wire[n])] = knob[n]

Track(s) ==
    OnTrack(live[s].expected, Heard(s), wire[LeaderKnob(s)], knob[LeaderKnob(s)])

LevelInv ==
    /\ IInv /\ KnowsLeader /\ AllThere /\ EndsRight
    /\ \A s \in Signals : live[s].ono # None => Track(s)

LEMMA KnobType ==
    ASSUME NEW n \in Knobs
    PROVE  n[1] \in Desks /\ n[2] \in Nat /\ n[2] # None
  BY ValueAssumption DEF Knobs

\* A signal that has an object is led by a desk that may lead.
LEMMA LeaderMayLead ==
    ASSUME LevelInv, NEW s \in Signals, live[s].ono # None
    PROVE  /\ LeaderKnob(s) \in Knobs /\ MayLead(leader) /\ leader \in Desks
           /\ leader \in answering /\ Up(leader)
           /\ knob[LeaderKnob(s)] \in GainMin..GainMax /\ knob[LeaderKnob(s)] \in Int
           /\ live[s].expected \in Seq(Int) /\ wire[LeaderKnob(s)] \in Seq(Int)
<1>1. LeaderKnob(s) \in Knobs /\ leader \in Desks  BY DEF LevelInv, IInv, Aimed, TypeOK
<1>2. MayLead(leader)  BY DEF LevelInv, KnowsLeader, MayLead
<1> QED
  BY <1>1, <1>2, ValueAssumption DEF LevelInv, AllThere, Up, IInv, TypeOK, Live

\* Reports added at the end of a stream.
LEMMA StreamEnds ==
    ASSUME NEW w \in Seq(Int), NEW u \in Seq(Int), u # <<>>
    PROVE  w \o u # <<>> /\ (w \o u)[Len(w \o u)] = u[Len(u)]
<1>1. Len(w) \in Nat /\ Len(u) \in Nat /\ Len(u) > 0  BY EmptySeq, LenProperties
<1>2. Len(w \o u) = Len(w) + Len(u) /\ w \o u \in Seq(Int)  BY ConcatProperties
<1>3. /\ Len(w) + Len(u) \in 1..(Len(w) + Len(u)) /\ ~(Len(w) + Len(u) <= Len(w))
      /\ (Len(w) + Len(u)) - Len(w) = Len(u)
  BY <1>1
<1>4. (w \o u)[Len(w) + Len(u)] = u[Len(u)]  BY <1>3, ConcatProperties
<1> QED  BY <1>1, <1>2, <1>4, EmptySeq

\* A stream grows by reports of which the last is right: it ends right, and
\* the signals that expect nothing new stay on track.
Grows(n, u) ==
    /\ u \in Seq(Int) /\ wire'[n] = wire[n] \o u
    /\ u = <<>> => knob'[n] = knob[n]
    /\ MayLead(n[1]) /\ u # <<>> => u[Len(u)] = knob'[n]

LEMMA GrowsEndsRight ==
    ASSUME IInv, EndsRight, NEW n \in Knobs, NEW u, Grows(n, u)
    PROVE  MayLead(n[1]) /\ wire'[n] # <<>> => wire'[n][Len(wire'[n])] = knob'[n]
<1>1. wire[n] \in Seq(Int)  BY DEF IInv, TypeOK
<1>2. CASE u = <<>>
  <2>1. wire'[n] = wire[n] /\ knob'[n] = knob[n]  BY <1>1, <1>2, ConcatEmptySeq DEF Grows
  <2> QED  BY <2>1 DEF EndsRight
<1>3. CASE u # <<>>  BY <1>1, <1>3, StreamEnds DEF Grows
<1> QED  BY <1>2, <1>3

LEMMA GrowsOnTrack ==
    ASSUME NEW e \in Seq(Int), NEW g, NEW n \in Knobs, IInv,
           OnTrack(e, g, wire[n], knob[n]), NEW u, Grows(n, u)
    PROVE  OnTrack(e, g, wire'[n], knob'[n])
<1>1. wire[n] \in Seq(Int) /\ u \in Seq(Int)  BY DEF IInv, TypeOK, Grows
<1>2. CASE u = <<>>
  <2>1. wire'[n] = wire[n] /\ knob'[n] = knob[n]  BY <1>1, <1>2, ConcatEmptySeq DEF Grows
  <2> QED  BY <2>1
<1>3. CASE u # <<>>
  <2>1. OnTrack(e, g, wire[n] \o u, knob'[n])  BY <1>1, <1>3, Pushed
  <2> QED  BY <2>1 DEF Grows
<1> QED  BY <1>2, <1>3

LEMMA Untouched ==
    ASSUME IInv, NEW n \in Knobs, wire'[n] = wire[n], knob'[n] = knob[n]
    PROVE  Grows(n, <<>>)
<1>1. wire[n] \in Seq(Int) /\ <<>> \in Seq(Int)  BY EmptySeq DEF IInv, TypeOK
<1> QED  BY <1>1, ConcatEmptySeq DEF Grows

LEMMA Reported ==
    ASSUME IInv, NEW n \in Knobs, NEW v \in Int, wire'[n] = Append(wire[n], v),
           MayLead(n[1]) => knob'[n] = v
    PROVE  Grows(n, <<v>>)
<1>1. wire[n] \in Seq(Int) /\ <<v>> \in Seq(Int)  BY DEF IInv, TypeOK
<1>2. Append(wire[n], v) = wire[n] \o <<v>>  BY <1>1, AppendIsConcat
<1>3. <<v>> # <<>> /\ Len(<<v>>) = 1 /\ <<v>>[1] = v  OBVIOUS
<1> QED  BY <1>1, <1>2, <1>3 DEF Grows

\* The replies of a read of desks that are asked every time.
LEMMA Answers ==
    ASSUME IInv, LeadersConfirm, NEW readers \in [Knobs -> Nat], ReadBy(readers), knob' = knob,
           NEW n \in Knobs
    PROVE  /\ MayLead(n[1]) => Answer(n) = knob[n]
           /\ Grows(n, Replies(n, readers[n]))
           /\ MayLead(n[1]) /\ readers[n] > 0 =>
                1 \in 1..Len(Replies(n, readers[n])) /\ Replies(n, readers[n])[1] = knob[n]
<1> DEFINE u == Replies(n, readers[n])
           r == readers[n]
<1>1. n[1] \in Desks /\ knob[n] \in Int /\ r \in Nat /\ wire'[n] = wire[n] \o u
  BY KnobType DEF IInv, TypeOK, ReadBy
<1>2. MayLead(n[1]) => ~Cached(n) /\ Kind[n[1]].read = "ask"
  BY <1>1 DEF LeadersConfirm, Cached
<1>3. MayLead(n[1]) => Answer(n) = knob[n]  BY <1>2 DEF Answer
<1> DEFINE all == [i \in 1..r |-> knob[n]]
<1>4. all \in Seq(Int) /\ Len(all) = r  BY <1>1
<1>5. u \in {<<>>, <<knob[n]>>, all}  BY DEF Replies
<1>6. u \in Seq(Int)
  <2>1. <<knob[n]>> \in Seq(Int) /\ <<>> \in Seq(Int)  BY <1>1
  <2> HIDE DEF u, all
  <2> QED  BY <1>4, <1>5, <2>1
<1>7. MayLead(n[1]) /\ r > 0 => u = all
  BY <1>1, <1>2 DEF Replies
<1>8. MayLead(n[1]) /\ ~(r > 0) => u = <<>>
  BY <1>1 DEF Replies
<1>9. r > 0 => 1 \in 1..r /\ r \in 1..r /\ all[1] = knob[n] /\ all[r] = knob[n]  BY <1>1
<1> HIDE DEF u, all
<1>10. MayLead(n[1]) /\ u # <<>> => u[Len(u)] = knob[n]  BY <1>4, <1>7, <1>8, <1>9
<1>11. Grows(n, u)  BY <1>1, <1>6, <1>10 DEF Grows
<1>12. MayLead(n[1]) /\ r > 0 => 1 \in 1..Len(u) /\ u[1] = knob[n]  BY <1>4, <1>7, <1>9
<1> QED  BY <1>3, <1>11, <1>12 DEF u

----------------------------------------------------------------------------
(* The invariant is kept *)

\* A step that moves no preamp, no report and no expectation.
LEMMA LevelsKept ==
    ASSUME LevelInv, IInv', KnowsLeader', AllThere', leader' = leader, wire' = wire, knob' = knob,
           \A s \in Signals : /\ live'[s].ono = live[s].ono
                              /\ live[s].ono # None => /\ live'[s].expected = live[s].expected
                                                       /\ Heard(s)' = Heard(s)
    PROVE  LevelInv'
<1>1. EndsRight'  BY DEF LevelInv, EndsRight
<1>2. ASSUME NEW s \in Signals, live'[s].ono # None PROVE Track(s)'
  <2>1. Track(s) /\ LeaderKnob(s)' = LeaderKnob(s)  BY <1>2 DEF LevelInv, LeaderKnob
  <2> QED  BY <1>2, <2>1 DEF Track
<1> QED  BY <1>1, <1>2 DEF LevelInv

\* The others when the streams grow.
LEMMA OthersOnTrack ==
    ASSUME LevelInv, leader' = leader, NEW t \in Signals, live[t].ono # None,
           live'[t].ono = live[t].ono, live'[t].expected = live[t].expected, Heard(t)' = Heard(t),
           \A n \in Knobs : \E u : Grows(n, u)
    PROVE  Track(t)'
<1>1. LeaderKnob(t) \in Knobs /\ live[t].expected \in Seq(Int)  BY LeaderMayLead
<1>2. Track(t) /\ LeaderKnob(t)' = LeaderKnob(t)  BY DEF LevelInv, LeaderKnob
<1>3. PICK u : Grows(LeaderKnob(t), u)  BY <1>1
<1> QED  BY <1>1, <1>2, <1>3, GrowsOnTrack DEF LevelInv, Track

LEMMA SurfaceLevels ==
    ASSUME LevelInv, LeadersConfirm, IInv', KnowsLeader',
           NEW n \in Knobs, NEW v \in SurfaceGains, SurfaceMove(n, v)
    PROVE  LevelInv'
<1> USE DEF LevelInv
<1>1. /\ v \in GainMin..GainMax /\ v \in Int /\ n[1] \in Desks
  BY KnobType, ValueAssumption
<1>2. /\ leader' = leader /\ live' = live /\ batch' = batch /\ connected' = connected
      /\ answering' = answering /\ lagged' = lagged /\ knob' = [knob EXCEPT ![n] = v]
      /\ wire' = IF Up(n[1]) /\ Kind[n[1]].pushes THEN [wire EXCEPT ![n] = Append(wire[n], v)] ELSE wire
  BY DEF SurfaceMove, inner, task, network
<1>3. knob \in [Knobs -> Int] /\ wire \in [Knobs -> Seq(Int)]  BY DEF IInv, TypeOK
<1>4. MayLead(n[1]) => Up(n[1]) /\ Kind[n[1]].pushes
  BY <1>1 DEF AllThere, Up, LeadersConfirm
<1>5. AllThere'  BY <1>1, <1>2, <1>3 DEF AllThere
<1>6. ASSUME NEW m \in Knobs, m # n PROVE Grows(m, <<>>)
  BY <1>2, <1>3, <1>6, Untouched
<1>7. CASE Up(n[1]) /\ Kind[n[1]].pushes
  <2>1. Grows(n, <<v>>)  BY <1>1, <1>2, <1>3, <1>7, Reported
  <2>2. \A m \in Knobs : \E u : Grows(m, u)  BY <1>6, <2>1
  <2>3. EndsRight'  BY <2>2, GrowsEndsRight DEF EndsRight
  <2>4. \A t \in Signals : live[t].ono # None => Track(t)'
    BY <1>2, <2>2, OthersOnTrack DEF Heard
  <2> QED  BY <1>2, <1>5, <2>3, <2>4
<1>8. CASE ~(Up(n[1]) /\ Kind[n[1]].pushes)
  <2>1. ~MayLead(n[1]) /\ wire' = wire  BY <1>2, <1>4, <1>8
  <2>2. EndsRight'  BY <1>2, <1>3, <2>1 DEF EndsRight
  <2>3. ASSUME NEW t \in Signals, live[t].ono # None PROVE Track(t)'
    <3>1. LeaderKnob(t) \in Knobs /\ MayLead(leader)  BY <2>3, LeaderMayLead
    <3>2. LeaderKnob(t) # n  BY <2>1, <3>1 DEF LeaderKnob
    <3>3. Track(t) /\ LeaderKnob(t)' = LeaderKnob(t) /\ Heard(t)' = Heard(t)
      BY <1>2, <2>3 DEF LeaderKnob, Heard
    <3>4. knob'[LeaderKnob(t)] = knob[LeaderKnob(t)]  BY <1>2, <1>3, <3>1, <3>2
    <3> QED  BY <1>2, <2>1, <3>3, <3>4 DEF Track
  <2> QED  BY <1>2, <1>5, <2>2, <2>3
<1> QED  BY <1>7, <1>8

LEMMA SetGainLevels ==
    ASSUME LevelInv, LeadersConfirm, IInv', KnowsLeader',
           NEW s \in Signals, NEW v \in Int, SetGain(s, v)
    PROVE  LevelInv'
<1> USE DEF LevelInv
<1> DEFINE n == LeaderKnob(s)
<1>1. live[s].ono # None  BY DEF SetGain
<1>2. /\ n \in Knobs /\ n[1] = leader /\ leader \in answering /\ MayLead(leader) /\ leader \in Desks
      /\ live[s].expected \in Seq(Int) /\ wire[n] \in Seq(Int)
  BY <1>1, LeaderMayLead DEF LeaderKnob
<1>3. Held(v) \in GainMin..GainMax /\ Held(v) \in Int
  BY HeldType, ValueAssumption
<1>4. /\ leader' = leader /\ connected' = connected /\ answering' = answering /\ lagged' = lagged
      /\ live' = [live EXCEPT ![s].expected = Append(live[s].expected, v)]
      /\ batch' = [batch EXCEPT ![s] = v]
      /\ knob' = [knob EXCEPT ![n] = Held(v)]
      /\ wire' = [wire EXCEPT ![n] = Append(wire[n], Held(v))]
  BY <1>2 DEF SetGain, TakesGain, LeadersConfirm, network, Expecting, Held
<1>5. /\ knob \in [Knobs -> Int] /\ wire \in [Knobs -> Seq(Int)] /\ live \in [Signals -> Live]
      /\ batch \in [Signals -> Int \union {None, Reread}]
  BY DEF IInv, TypeOK
<1> HIDE DEF n
<1>6. AllThere'  BY <1>3, <1>4, <1>5 DEF AllThere
<1>7. knob'[n] = Held(v) /\ wire'[n] = Append(wire[n], Held(v))
  BY <1>2, <1>4, <1>5
<1>8. Grows(n, <<Held(v)>>)  BY <1>2, <1>3, <1>7, Reported
<1>9. ASSUME NEW m \in Knobs, m # n PROVE Grows(m, <<>>)
  BY <1>4, <1>5, <1>9, Untouched
<1>10. \A m \in Knobs : \E u : Grows(m, u)  BY <1>8, <1>9
<1>11. EndsRight'  BY <1>10, GrowsEndsRight DEF EndsRight
<1>12. \A t \in Signals : live'[t].ono = live[t].ono
  BY <1>4, <1>5 DEF Live
<1>13. ASSUME NEW t \in Signals, t # s, live[t].ono # None PROVE Track(t)'
  <2>1. live'[t] = live[t] /\ batch'[t] = batch[t]  BY <1>4, <1>5, <1>13
  <2>2. Heard(t)' = Heard(t)  BY <2>1 DEF Heard
  <2> QED  BY <1>4, <1>10, <1>13, <2>1, <2>2, OthersOnTrack
<1>14. Track(s)'
  <2>1. LeaderKnob(s)' = n  BY <1>4, <1>12 DEF LeaderKnob, n
  <2>2. live'[s].expected = Append(live[s].expected, v)  BY <1>4, <1>5 DEF Live
  <2>3. Heard(s)' = v  BY <1>4, <1>5, ValueAssumption DEF Heard
  <2>4. OnTrack(live[s].expected, Heard(s), wire[n], knob[n])  BY <1>1 DEF Track, n
  <2>5. 1 \in 1..Len(<<Held(v)>>) /\ <<Held(v)>>[1] = Held(v) /\ <<Held(v)>> \in Seq(Int)
    BY <1>3
  <2>6. OnTrack(Append(live[s].expected, v), v, wire[n] \o <<Held(v)>>, knob'[n])
    BY <1>2, <2>4, <2>5, Caused
  <2> QED  BY <1>8, <2>1, <2>2, <2>3, <2>6 DEF Track, Grows
<1> QED  BY <1>4, <1>6, <1>11, <1>12, <1>13, <1>14

\* A report that is heard: what it is for the signals it is about.
LEMMA HearTracks ==
    ASSUME LevelInv, NEW n \in Knobs, Hear(n), NEW s \in Signals, n = LeaderKnob(s)
    PROVE  /\ live[s].ono # None /\ Track(s)'
           /\ IsExpected(s, Head(wire[n])) /\ Len(wire[n]) = 1 => Heard(s) = knob[n]
<1> USE DEF LevelInv
<1> DEFINE v == Head(wire[n])
           e == live[s].expected
           w == wire[n]
<1>1. live[s].ono # None  BY KnobType DEF LeaderKnob
<1>2. /\ MayLead(n[1]) /\ e \in Seq(Int) /\ w \in Seq(Int) /\ w # <<>>
      /\ OnTrack(e, Heard(s), w, knob[n])
  BY <1>1, LeaderMayLead DEF LeaderKnob, Track, Hear
<1>3. w[Len(w)] = knob[n] /\ v \in Int  BY <1>2, HeadTailProperties DEF EndsRight
<1>4. live \in [Signals -> Live] /\ wire \in [Knobs -> Seq(Int)]
      /\ batch \in [Signals -> Int \union {None, Reread}]
  BY DEF IInv, TypeOK
<1>5. /\ leader' = leader /\ knob' = knob /\ wire'[n] = Tail(w)
      /\ live'[s] = [live[s] EXCEPT !.expected = Settled(s, v)]
      /\ batch'[s] = IF IsExpected(s, v) THEN batch[s] ELSE v
  BY <1>4 DEF Hear
<1>6. /\ live'[s].expected = Settled(s, v) /\ live'[s].gain = live[s].gain
      /\ LeaderKnob(s)' = n
  BY <1>4, <1>5 DEF LeaderKnob, Live
<1>7. CASE IsExpected(s, v)
  <2> DEFINE p == Position(e, v)
  <2>1. p \in 1..Len(e) /\ e[p] = v  BY <1>7, PositionFound DEF IInv
  <2>2. Settled(s, v) = SubSeq(e, p + 1, Len(e))  BY <1>7 DEF Settled
  <2>3. Heard(s)' = Heard(s)  BY <1>5, <1>6, <1>7 DEF Heard
  <2> HIDE DEF p, e, w
  <2>4. /\ OnTrack(SubSeq(e, p + 1, Len(e)), Heard(s), Tail(w), knob[n])
        /\ Len(w) = 1 => Heard(s) = knob[n]
    <3>1. e[p] = Head(w)  BY <2>1 DEF w
    <3> HIDE DEF v
    <3> QED  BY ONLY <1>2, <1>3, <2>1, <3>1, Swallowed
  <2> HIDE DEF v
  <2>5. Track(s)'  BY <1>5, <1>6, <2>2, <2>3, <2>4 DEF Track
  <2> QED  BY <1>1, <2>4, <2>5 DEF w
<1>8. CASE ~IsExpected(s, v)
  <2>1. Settled(s, v) = <<>>  BY <1>8 DEF Settled
  <2>2. Heard(s)' = v  BY <1>3, <1>5, <1>8, ValueAssumption DEF Heard
  <2>3. OnTrack(<<>>, v, Tail(w), knob[n])  BY <1>2, <1>3, TakenAsNews
  <2>4. Track(s)'  BY <1>5, <1>6, <2>1, <2>2, <2>3 DEF Track
  <2> QED  BY <1>1, <1>8, <2>4
<1> QED  BY <1>7, <1>8

LEMMA HearLevels ==
    ASSUME LevelInv, IInv', KnowsLeader', NEW n \in Knobs, Hear(n)
    PROVE  LevelInv'
<1> USE DEF LevelInv
<1>1. live \in [Signals -> Live] /\ wire \in [Knobs -> Seq(Int)]
  BY DEF IInv, TypeOK
<1>2. /\ leader' = leader /\ knob' = knob /\ connected' = connected /\ answering' = answering
      /\ lagged' = lagged /\ wire' = [wire EXCEPT ![n] = Tail(wire[n])] /\ wire[n] # <<>>
      /\ \A s \in Signals : n # LeaderKnob(s) => live'[s] = live[s] /\ batch'[s] = batch[s]
      /\ \A s \in Signals : live'[s].ono = live[s].ono
  BY <1>1 DEF Hear, network, Live
<1>3. AllThere'  BY <1>2 DEF AllThere
<1>4. ASSUME NEW m \in Knobs, MayLead(m[1]), wire'[m] # <<>>
      PROVE  wire'[m][Len(wire'[m])] = knob'[m]
  <2>1. CASE m # n
    BY <1>1, <1>2, <1>4, <2>1 DEF EndsRight
  <2>2. CASE m = n
    <3> DEFINE w == wire[n]
               t == Tail(w)
    <3>1. wire'[m] = t /\ w \in Seq(Int) /\ w # <<>>  BY <1>1, <1>2, <2>2
    <3>2. /\ Len(w) \in Nat /\ Len(t) = Len(w) - 1 /\ t \in Seq(Int)
          /\ \A i \in 1..Len(t) : t[i] = w[i + 1]
      BY <3>1, LenProperties, HeadTailProperties
    <3>3. w[Len(w)] = knob[n]  BY <1>4, <2>2, <3>1 DEF EndsRight
    <3> HIDE DEF t, w
    <3>4. Len(t) \in 1..Len(t) /\ Len(t) + 1 = Len(w)
      BY <1>4, <3>1, <3>2, EmptySeq
    <3>5. t[Len(t)] = w[Len(w)]  BY <3>2, <3>4
    <3> QED  BY <1>2, <2>2, <3>1, <3>3, <3>5
  <2> QED  BY <2>1, <2>2
<1>5. ASSUME NEW s \in Signals, live[s].ono # None PROVE Track(s)'
  <2>1. CASE n = LeaderKnob(s)  BY <2>1, HearTracks
  <2>2. CASE n # LeaderKnob(s)
    <3>1. /\ Track(s) /\ LeaderKnob(s)' = LeaderKnob(s) /\ Heard(s)' = Heard(s)
          /\ live'[s].expected = live[s].expected /\ LeaderKnob(s) \in Knobs
      BY <1>2, <1>5, <2>2, LeaderMayLead DEF LeaderKnob, Heard
    <3>2. wire'[LeaderKnob(s)] = wire[LeaderKnob(s)]  BY <1>1, <1>2, <2>2, <3>1
    <3> QED  BY <1>2, <3>1, <3>2 DEF Track
  <2> QED  BY <2>1, <2>2
<1> QED  BY <1>2, <1>3, <1>4, <1>5 DEF EndsRight

LEMMA ReadLevels ==
    ASSUME LevelInv, LeadersConfirm, IInv', KnowsLeader', NEW s \in Signals, ReadLeader(s)
    PROVE  LevelInv'
<1> USE DEF LevelInv
<1> DEFINE n == LeaderKnob(s)
           readers == [k \in Knobs |-> IF k = n THEN 1 ELSE 0]
<1>1. live[s].ono # None  BY DEF ReadLeader, IInv, Aimed
<1>2. /\ n \in Knobs /\ n[1] = leader /\ Up(leader) /\ MayLead(leader)
      /\ live[s].expected \in Seq(Int) /\ wire[n] \in Seq(Int)
      /\ knob[n] \in GainMin..GainMax /\ knob[n] \in Int
  BY <1>1, LeaderMayLead DEF LeaderKnob
<1>3. /\ leader' = leader /\ connected' = connected /\ answering' = answering /\ lagged' = lagged
      /\ knob' = knob /\ ReadBy(readers)
      /\ live' = [live EXCEPT ![s].expected = Append(live[s].expected, Answer(n))]
      /\ batch' = [batch EXCEPT ![s] = Answer(n)]
  BY <1>2 DEF ReadLeader, network, Expecting
<1>4. live \in [Signals -> Live] /\ batch \in [Signals -> Int \union {None, Reread}]
  BY DEF IInv, TypeOK
<1>5. readers \in [Knobs -> Nat] /\ readers[n] = 1  BY <1>2
<1> HIDE DEF n, readers
<1>6. /\ Answer(n) = knob[n]
      /\ 1 \in 1..Len(Replies(n, readers[n])) /\ Replies(n, readers[n])[1] = knob[n]
      /\ \A m \in Knobs : Grows(m, Replies(m, readers[m]))
  <2>1. readers[n] > 0  BY <1>5
  <2> QED  BY <1>2, <1>3, <1>5, <2>1, Answers
<1>7. \A m \in Knobs : \E u : Grows(m, u)  BY <1>6
<1>8. EndsRight'  BY <1>7, GrowsEndsRight DEF EndsRight
<1>9. AllThere'  BY <1>3 DEF AllThere
<1>10. \A t \in Signals : live'[t].ono = live[t].ono  BY <1>3, <1>4 DEF Live
<1>11. ASSUME NEW t \in Signals, t # s, live[t].ono # None PROVE Track(t)'
  <2>1. live'[t] = live[t] /\ batch'[t] = batch[t]  BY <1>3, <1>4, <1>11
  <2>2. Heard(t)' = Heard(t)  BY <2>1 DEF Heard
  <2> QED  BY <1>3, <1>7, <1>11, <2>1, <2>2, OthersOnTrack
<1>12. Track(s)'
  <2> DEFINE v == knob[n]
             u == Replies(n, readers[n])
  <2>1. LeaderKnob(s)' = n  BY <1>3, <1>10 DEF LeaderKnob, n
  <2>2. live'[s].expected = Append(live[s].expected, v)  BY <1>3, <1>4, <1>6 DEF Live
  <2>3. Heard(s)' = v  BY <1>2, <1>3, <1>4, <1>6, ValueAssumption DEF Heard
  <2>4. OnTrack(live[s].expected, Heard(s), wire[n], knob[n])  BY <1>1 DEF Track, n
  <2>5. u \in Seq(Int) /\ wire'[n] = wire[n] \o u  BY <1>2, <1>6 DEF Grows
  <2>6. v \in Int /\ 1 \in 1..Len(u) /\ u[1] = Held(v)  BY <1>2, <1>6, HeldIsItself
  <2> HIDE DEF u, v
  <2>7. OnTrack(Append(live[s].expected, v), v, wire[n] \o u, knob'[n])
    BY <1>2, <2>4, <2>5, <2>6, Caused
  <2> QED  BY <2>1, <2>2, <2>3, <2>5, <2>7 DEF Track
<1> QED  BY <1>3, <1>8, <1>9, <1>10, <1>11, <1>12

\* Resolving for a leader leaves its signals on track, or unknown.
LEMMA ResolvedOnTrack ==
    ASSUME LevelInv, Apart, Free, NEW l \in Desks, NEW s \in Signals,
           ResolvedLive(l)[s].ono # None
    PROVE  LET now == ResolvedLive(l)[s]
               n == <<l, now.ono>>
           IN OnTrack(now.expected, now.gain, wire[n], knob[n])
<1> USE DEF LevelInv
<1> DEFINE now == ResolvedLive(l)[s]
           n == <<l, now.ono>>
<1>1. TypeOK /\ KnowsLeader /\ leader \in Desks  BY DEF IInv, TypeOK
<1>2. /\ now.ono = LeaderOno(s, l) /\ now.ono = now.preamp /\ now.preamp = LeaderPreamp(s, l)
      /\ \/ SameLeader(s, l) /\ now.gain = live[s].gain /\ now.expected = live[s].expected
         \/ now.gain = None /\ now.expected = <<>>
  BY <1>1, ResolvedKnows
<1> HIDE DEF now
<1>3. now.ono # None  BY DEF now
<1>4. CASE now.gain = None /\ now.expected = <<>>
  BY <1>4, Fresh DEF now
<1>5. CASE SameLeader(s, l) /\ now.gain = live[s].gain /\ now.expected = live[s].expected
  <2>1. live[s].ono = now.ono /\ live[s].preamp = LeaderPreamp(s, l)
    BY <1>2, <1>5 DEF SameLeader
  <2>2. l = leader  BY <1>1, <1>2, <1>3, <2>1 DEF Apart, KnowsLeader
  <2>3. Track(s) /\ LeaderKnob(s) = n  BY <1>3, <2>1, <2>2 DEF LeaderKnob
  <2>4. Heard(s) = live[s].gain  BY DEF Heard, Free
  <2> QED  BY <1>5, <2>3, <2>4 DEF Track, now
<1> QED  BY <1>2, <1>4, <1>5

LEMMA LockLevels ==
    ASSUME LevelInv, LeadersConfirm, Apart, IInv', KnowsLeader', Lock
    PROVE  LevelInv'
<1> USE DEF LevelInv
<1> DEFINE now == ResolvedLive(leader)
           leads == {s \in Signals : now[s].ono # None}
           at(s) == <<leader, now[s].ono>>
<1>1. /\ leader' = leader /\ knob' = knob /\ connected' = connected /\ answering' = answering
      /\ lagged' = lagged /\ batch' = batch /\ Free /\ leader \in Desks /\ TypeOK
  BY DEF Lock, task, network, IInv, TypeOK
<1>2. ASSUME NEW s \in leads
      PROVE  /\ s \in Signals /\ at(s) \in Knobs /\ MayLead(leader) /\ leader \in answering
             /\ now[s].expected \in Seq(Int)
  <2>1. now[s] \in Live /\ at(s) \in Knobs /\ LeaderPreamp(s, leader) # None
    BY <1>1, ResolvedKnows
  <2> QED  BY <1>1, <2>1 DEF MayLead, AllThere, Live
<1>3. PICK answered \in IF leader \in answering THEN {leads} ELSE SUBSET leads :
        /\ ReadBy([n \in Knobs |-> Cardinality({s \in answered : at(s) = n})])
        /\ \A s \in Signals :
             /\ live'[s].preamp = now[s].preamp /\ live'[s].ono = now[s].ono
             /\ s \in answered => /\ live'[s].gain = Answer(at(s))
                                  /\ live'[s].expected = Append(now[s].expected, Answer(at(s)))
             /\ s \notin answered => /\ live'[s].gain = now[s].gain
                                     /\ live'[s].expected = now[s].expected
  BY LockReads
<1> HIDE DEF now, at
<1>4. answered = leads  BY <1>2, <1>3
<1> DEFINE readers == [n \in Knobs |-> Cardinality({s \in answered : at(s) = n})]
<1>5. ASSUME NEW n \in Knobs
      PROVE  LET S == {s \in answered : at(s) = n} IN
             Cardinality(S) \in Nat /\ (S # {} => Cardinality(S) > 0)
  <2> DEFINE S == {s \in answered : at(s) = n}
  <2>1. IsFiniteSet(S)
    <3>1. S \subseteq Signals  BY <1>4
    <3> QED  BY <3>1, SignalsFinite, FS_Subset
  <2>2. Cardinality(S) \in Nat /\ (S # {} => Cardinality(S) # 0)
    BY <2>1, FS_CardinalityType, FS_EmptySet
  <2> HIDE DEF S
  <2>3. S # {} => Cardinality(S) > 0  BY <2>2
  <2> QED  BY <2>2, <2>3 DEF S
<1>6. readers \in [Knobs -> Nat] /\ ReadBy(readers)  BY <1>3, <1>5
<1>7. ASSUME NEW s \in leads PROVE readers[at(s)] > 0
  <2>1. at(s) \in Knobs /\ s \in {t \in answered : at(t) = at(s)}  BY <1>2, <1>4
  <2> QED  BY <1>5, <2>1
<1> HIDE DEF readers
<1>8. ASSUME NEW n \in Knobs PROVE Grows(n, Replies(n, readers[n]))
  BY <1>1, <1>6, Answers
<1>9. EndsRight'
  <2>1. \A n \in Knobs : \E u : Grows(n, u)  BY <1>8
  <2> QED  BY <2>1, GrowsEndsRight DEF EndsRight
<1>10. AllThere'  BY <1>1 DEF AllThere
<1>11. ASSUME NEW s \in Signals, live'[s].ono # None PROVE Track(s)'
  <2> DEFINE n == at(s)
             v == knob[n]
             u == Replies(n, readers[n])
             e == now[s].expected
             g == now[s].gain
  <2>1. s \in leads  BY <1>3, <1>11
  <2>2. n \in Knobs /\ n[1] = leader /\ MayLead(leader) /\ e \in Seq(Int)
    BY <1>2, <2>1 DEF at
  <2>3. v \in GainMin..GainMax /\ v \in Int /\ wire[n] \in Seq(Int) /\ u \in Seq(Int)
        /\ wire'[n] = wire[n] \o u
    BY <1>1, <1>8, <2>2, ValueAssumption DEF AllThere, TypeOK, Grows
  <2>4. Answer(n) = v /\ 1 \in 1..Len(u) /\ u[1] = v
    BY <1>1, <1>6, <1>7, <2>1, <2>2, Answers
  <2>5. OnTrack(e, g, wire[n], v)
    BY <1>1, <1>2, <2>1, ResolvedOnTrack DEF now, at
  <2>6. u[1] = Held(v)  BY <2>3, <2>4, HeldIsItself
  <2>7. /\ live'[s].gain = v /\ live'[s].expected = Append(e, v) /\ live'[s].ono = now[s].ono
    BY <1>3, <1>4, <2>1, <2>4
  <2>8. Heard(s)' = v  BY <1>1, <2>7 DEF Heard, Free
  <2>9. LeaderKnob(s)' = n  BY <1>1, <2>7 DEF LeaderKnob, at
  <2> HIDE DEF n, v, u, e, g
  <2>10. OnTrack(Append(e, v), v, wire[n] \o u, v)
    BY <2>2, <2>3, <2>4, <2>5, <2>6, Caused
  <2>11. knob'[n] = v  BY <1>1 DEF v
  <2> QED  BY <2>3, <2>7, <2>8, <2>9, <2>10, <2>11 DEF Track
<1> QED  BY <1>9, <1>10, <1>11

LEMMA SetLeaderLevels ==
    ASSUME LevelInv, Apart, IInv', KnowsLeader', NEW d \in Desks, SetLeader(d)
    PROVE  LevelInv'
<1> USE DEF LevelInv
<1>1. /\ leader' = d /\ live' = ResolvedLive(d) /\ knob' = knob /\ wire' = wire /\ Free
      /\ connected' = connected /\ answering' = answering /\ lagged' = lagged /\ batch' = batch
  BY DEF SetLeader, task, network, preampDesk
<1>2. AllThere' /\ EndsRight'  BY <1>1 DEF AllThere, EndsRight
<1>3. ASSUME NEW s \in Signals, live'[s].ono # None PROVE Track(s)'
  <2> DEFINE now == ResolvedLive(d)[s]
             n == <<d, now.ono>>
  <2>1. OnTrack(now.expected, now.gain, wire[n], knob[n])
    BY <1>1, <1>3, ResolvedOnTrack
  <2>2. Heard(s)' = now.gain /\ LeaderKnob(s)' = n  BY <1>1 DEF Heard, Free, LeaderKnob
  <2> QED  BY <1>1, <2>1, <2>2 DEF Track
<1> QED  BY <1>2, <1>3

LEMMA ObserveLevels ==
    ASSUME LevelInv, IInv', KnowsLeader', NEW s \in Signals, Observe(s)
    PROVE  LevelInv'
<1> USE DEF LevelInv
<1>1. /\ leader' = leader /\ wire' = wire /\ knob' = knob /\ connected' = connected
      /\ answering' = answering /\ lagged' = lagged
      /\ batch[s] \notin {None, Reread} /\ batch' = [batch EXCEPT ![s] = None]
      /\ live' \in {[live EXCEPT ![s].gain = batch[s]], [live EXCEPT ![s] = ArmedAt(s, batch[s])]}
  BY DEF Observe, network, preampDesk
<1>2. live \in [Signals -> Live] /\ batch \in [Signals -> Int \union {None, Reread}]
  BY DEF IInv, TypeOK
<1>3. AllThere'  BY <1>1 DEF AllThere
<1>4. /\ live'[s].ono = live[s].ono /\ live'[s].expected = live[s].expected
      /\ live'[s].gain = batch[s]
  <2>1. live[s] \in Live  BY <1>2
  <2>2. CASE live' = [live EXCEPT ![s].gain = batch[s]]  BY <1>2, <2>1, <2>2 DEF Live
  <2>3. CASE live' = [live EXCEPT ![s] = ArmedAt(s, batch[s])]
    <3>1. live'[s] = [live[s] EXCEPT !.gain = batch[s], !.reference = batch[s], !.problem = "none"]
      BY <1>2, <2>3 DEF ArmedAt
    <3> QED  BY <2>1, <3>1 DEF Live
  <2> QED  BY <1>1, <2>2, <2>3
<1>5. \A t \in Signals \ {s} : live'[t] = live[t] /\ batch'[t] = batch[t]  BY <1>1, <1>2
<1>6. Heard(s)' = Heard(s)
  <2>1. batch'[s] = None  BY <1>1, <1>2
  <2> QED  BY <1>1, <1>4, <2>1 DEF Heard
<1>7. \A t \in Signals \ {s} : Heard(t)' = Heard(t)  BY <1>5 DEF Heard
<1> QED  BY <1>1, <1>3, <1>4, <1>5, <1>6, <1>7, LevelsKept

LEMMA ExpireLevels ==
    ASSUME LevelInv, IInv', KnowsLeader', NEW s \in Signals, ExpireEcho(s)
    PROVE  LevelInv'
<1> USE DEF LevelInv
<1>1. /\ leader' = leader /\ wire' = wire /\ knob' = knob /\ connected' = connected
      /\ answering' = answering /\ lagged' = lagged /\ batch' = batch
      /\ live' = [live EXCEPT ![s].expected = Tail(live[s].expected)]
      /\ live[s].expected # <<>>
  BY DEF ExpireEcho, task, network, preampDesk
<1>2. live \in [Signals -> Live]  BY DEF IInv, TypeOK
<1>3. AllThere' /\ EndsRight'  BY <1>1 DEF AllThere, EndsRight
<1>4. /\ live'[s].expected = Tail(live[s].expected)
      /\ live'[s].ono = live[s].ono /\ live'[s].gain = live[s].gain
  BY <1>1, <1>2 DEF Live
<1>5. \A t \in Signals \ {s} : live'[t] = live[t]  BY <1>1, <1>2
<1>6. ASSUME NEW t \in Signals, live'[t].ono # None PROVE Track(t)'
  <2>1. live'[t].ono = live[t].ono /\ live'[t].gain = live[t].gain  BY <1>4, <1>5
  <2>2. /\ Track(t) /\ LeaderKnob(t)' = LeaderKnob(t) /\ Heard(t)' = Heard(t)
        /\ live[t].expected \in Seq(Int) /\ wire[LeaderKnob(t)] \in Seq(Int)
    BY <1>1, <1>6, <2>1, LeaderMayLead DEF LeaderKnob, Heard
  <2>3. CASE t = s
    <3>1. OnTrack(Tail(live[s].expected), Heard(s), wire[LeaderKnob(s)], knob[LeaderKnob(s)])
      BY <1>1, <2>2, <2>3, Expired DEF Track
    <3> QED  BY <1>1, <1>4, <2>2, <2>3, <3>1 DEF Track
  <2>4. CASE t # s  BY <1>1, <1>5, <2>2, <2>4 DEF Track
  <2> QED  BY <2>3, <2>4
<1> QED  BY <1>3, <1>6

\* A step that leaves preamps, reports and signals as they are.
LEMMA QuietLevels ==
    ASSUME LevelInv, IInv', KnowsLeader',
           leader' = leader, live' = live, wire' = wire, knob' = knob, connected' = connected,
           lagged' = lagged, \A d \in Desks : MayLead(d) => d \in answering',
           \/ batch' = batch
           \/ Free /\ batch' = Rereads
    PROVE  LevelInv'
<1>1. AllThere'  BY DEF LevelInv, AllThere
<1>2. \A s \in Signals : Heard(s)' = Heard(s)
  BY DEF Heard, Free, Rereads
<1> QED  BY <1>1, <1>2, LevelsKept

LEMMA LevelInit == MayLeave = {} /\ Init => LevelInv
<1> SUFFICES ASSUME MayLeave = {}, Init PROVE LevelInv
  OBVIOUS
<1>1. IInv /\ KnowsLeader  BY InitIInv, KnowsInit
<1>2. AllThere
  <2>1. connected = Desks /\ ~lagged /\ answering = Desks  BY DEF Init
  <2>2. \A n \in Knobs : knob[n] \in GainMin..GainMax
    <3>1. GainMin \in GainMin..GainMax  BY ValueAssumption
    <3>2. knob \in [Knobs -> {GainMin}]  BY DEF Init
    <3> QED  BY <3>1, <3>2
  <2> QED  BY <2>1, <2>2 DEF AllThere
<1>3. EndsRight  BY DEF Init, EndsRight
<1>4. ASSUME NEW s \in Signals PROVE Track(s)
  <2>1. live[s].expected = <<>> /\ live[s].gain = None /\ batch[s] = None  BY DEF Init
  <2>2. Heard(s) = None  BY <2>1 DEF Heard
  <2> QED  BY <2>1, <2>2, Fresh DEF Track
<1> QED  BY <1>1, <1>2, <1>3, <1>4 DEF LevelInv

LEMMA LevelStep ==
    ASSUME LeadersConfirm, Apart, NoneLost, LevelInv, [Next]_vars
    PROVE  LevelInv'
<1>1. IInv' /\ KnowsLeader'  BY NextIInv, KnowsStep DEF LevelInv
<1>2. \A d \in Desks : MayLead(d) => d \in answering  BY DEF LevelInv, AllThere
<1>3. CASE Client
  <2>1. CASE Lock  BY <1>1, <2>1, LockLevels
  <2>2. CASE \E d \in Desks : SetLeader(d)  BY <1>1, <2>2, SetLeaderLevels
  <2>3. CASE \E s \in Signals : \E v \in SetValues : SetPreamp(s, v)
    BY <1>1, <2>3, SetGainLevels, ValueAssumption DEF SetPreamp
  <2>4. CASE \E c \in Clients : NudgePreampSets(c)
    <3>1. PICK c \in Clients : NudgePreampSets(c)  BY <2>4
    <3>2. client[c].signal \in Signals /\ client[c].to \in Int
      BY <3>1 DEF NudgePreampSets, LevelInv, IInv, TypeOK, Optional
    <3>3. CASE SetGain(client[c].signal, client[c].to)  BY <1>1, <3>2, <3>3, SetGainLevels
    <3>4. CASE UNCHANGED <<inner, task, network, preampDesk, trimDesk>>
      BY <1>1, <1>2, <3>4, QuietLevels DEF inner, task, network, preampDesk
    <3> QED  BY <3>1, <3>3, <3>4 DEF NudgePreampSets
  <2>5. CASE \/ Unlock
             \/ \E c \in Clients : \E s \in Signals : \E delta \in Deltas : NudgePreamp(c, s, delta)
    BY <1>1, <1>2, <2>5, QuietLevels DEF Unlock, NudgePreamp, inner, task, network, preampDesk
  <2> QED  BY <1>3, <2>1, <2>2, <2>3, <2>4, <2>5 DEF Client
<1>4. CASE Engine
  <2>1. CASE \E n \in Knobs : Hear(n)  BY <1>1, <2>1, HearLevels
  <2>2. CASE \E s \in Signals : ReadLeader(s)  BY <1>1, <2>2, ReadLevels
  <2>3. CASE \E s \in Signals : Observe(s)  BY <1>1, <2>3, ObserveLevels
  <2>4. CASE RecvLagged  BY <2>4 DEF RecvLagged, LevelInv, AllThere
  <2>5. CASE PollTick
    BY <1>1, <1>2, <2>5, QuietLevels DEF PollTick, inner, network, preampDesk
  <2>6. CASE RetryTick \/ RetryFailed \/ \E d \in Desks : Probe(d)
    BY <1>1, <1>2, <2>6, QuietLevels DEF RetryTick, RetryFailed, Probe, inner, network, preampDesk
  <2> QED  BY <1>4, <2>1, <2>2, <2>3, <2>4, <2>5, <2>6 DEF Engine
<1>5. CASE World
  <2>1. CASE \E n \in Knobs : \E v \in SurfaceGains : SurfaceMove(n, v)
    BY <1>1, <2>1, SurfaceLevels
  <2>2. CASE \E s \in Signals : ExpireEcho(s)  BY <1>1, <2>2, ExpireLevels
  <2>3. CASE \E f \in Followers : LateMove(f) \/ \E v \in LocalTrims : LocalMove(f, v)
    BY <1>1, <1>2, <2>3, QuietLevels DEF LateMove, LocalMove, inner, task, network, preampDesk
  <2>4. CASE \E d \in MayFail : Fail(d) \/ Recover(d)
    <3>1. PICK d \in MayFail : Fail(d) \/ Recover(d)  BY <2>4
    <3>2. \A l \in Desks : MayLead(l) => l \in answering'
      BY <1>2, <3>1 DEF Fail, Recover, LeadersConfirm
    <3> QED  BY <1>1, <3>1, <3>2, QuietLevels DEF Fail, Recover, inner, task, preampDesk
  <2>5. ~(\E d \in MayLeave : Leave(d) \/ Join(d)) /\ ~(\E n \in Knobs : Lag(n))
    BY DEF NoneLost, Lag
  <2> QED  BY <1>5, <2>1, <2>2, <2>3, <2>4, <2>5 DEF World
<1>6. CASE UNCHANGED vars
  BY <1>1, <1>2, <1>6, QuietLevels DEF vars, inner, task, network, preampDesk
<1> QED  BY <1>3, <1>4, <1>5, <1>6 DEF Next

\* The invariant behind the two theorems below: on such leaders, what is on the
\* wire from a leader's knob and what the engine expects of it stay in step.
THEOREM LevelInvariance ==
    ASSUME LeadersConfirm, Apart, NoneLost
    PROVE  Spec => []LevelInv
<1>1. Init => LevelInv  BY LevelInit DEF NoneLost
<1>2. LevelInv /\ [Next]_vars => LevelInv'  BY LevelStep
<1> QED  BY <1>1, <1>2, PTL DEF Spec

----------------------------------------------------------------------------
(* What the engine goes by, and what is heard *)

\* Under what is known of the leader, the books and the trims, the levels hold.
LEMMA LevelsFollow == LevelInv /\ AppliedIsReal => LevelsHold
<1> SUFFICES ASSUME LevelInv, AppliedIsReal, NEW f \in Following,
                    CaughtUp(f[1]), fol[f].owed = 0
             PROVE  knob[LeaderKnob(f[1])] + trim[f] = live[f[1]].reference + base[f]
  BY DEF LevelsHold
<1> DEFINE s == f[1]
           n == LeaderKnob(s)
<1>1. f \in Followers /\ s \in Signals  BY FollowerType DEF Following
<1>2. /\ locked /\ live[s].reference # None /\ live[s].ono # None /\ batch[s] = None
      /\ wire[n] = <<>>
  BY <1>1 DEF CaughtUp, Armed, Free
<1>3. live[s].gain # None /\ fol[f].applied + fol[f].owed = live[s].reference - live[s].gain
  BY <1>2 DEF LevelInv, IInv, Conservation
<1>4. live[s].gain = knob[n]
  <2>1. Heard(s) = live[s].gain  BY <1>2 DEF Heard
  <2>2. OnTrack(live[s].expected, Heard(s), wire[n], knob[n])
    BY <1>1, <1>2 DEF LevelInv, Track
  <2> QED  BY <1>2, <1>3, <2>1, <2>2 DEF OnTrack
<1>5. live[s] \in Live /\ fol[f] \in Follower  BY <1>1 DEF LevelInv, IInv, TypeOK
<1>6. /\ live[s].reference \in Int /\ live[s].gain \in Int
      /\ fol[f].applied \in Int /\ fol[f].owed \in Int
  BY <1>2, <1>3, <1>5 DEF Live, Follower, Optional
<1>7. trim[f] \in Int /\ base[f] \in Int /\ trim[f] = base[f] + fol[f].applied
  BY <1>1 DEF LevelInv, IInv, TypeOK, AppliedIsReal
<1> HIDE DEF n, s
<1>8. fol[f].applied = live[s].reference - live[s].gain  BY <1>3, <1>6
<1>9. knob[n] + trim[f] = live[s].reference + base[f]  BY <1>4, <1>6, <1>7, <1>8
<1> QED  BY <1>9 DEF n, s

\* The point of the lock, for any number of desks, signals and followers, any
\* trims, any gains asked for and whatever follower falls silent and comes
\* back, on leaders that report as LeadersConfirm says: once the reports have
\* been acted on, a follower that is owed nothing hears its leader at the level
\* its engineer set.
THEOREM LevelsAreHeld ==
    ASSUME PromptMoves, TrimsOnTheirGrid, LeadersConfirm, Apart, NoneLost
    PROVE  Spec => []LevelsHold
<1>1. Spec => []AppliedIsReal  BY AppliedReal
<1>2. Spec => []LevelInv  BY LevelInvariance
<1> QED  BY <1>1, <1>2, LevelsFollow, PTL

\* Every step but hearing a report leaves the reports under way.
LEMMA ReportsStay ==
    ASSUME LeadersConfirm, NoneLost, IInv, [Next]_vars,
           NEW n \in Knobs, wire[n] # <<>>, wire'[n] = <<>>
    PROVE  Hear(n)
<1> USE DEF IInv
<1>1. wire \in [Knobs -> Seq(Int)] /\ wire[n] \in Seq(Int)  BY DEF TypeOK
<1>2. ASSUME NEW u \in Seq(Int) PROVE wire[n] \o u # <<>>
  <2>1. CASE u = <<>>  BY <1>1, <2>1, ConcatEmptySeq
  <2>2. CASE u # <<>>  BY <1>1, <2>2, StreamEnds
  <2> QED  BY <2>1, <2>2
<1>3. ASSUME NEW readers \in [Knobs -> Nat] PROVE ~ReadBy(readers)
  <2>1. SUFFICES ASSUME ReadBy(readers) PROVE FALSE
    OBVIOUS
  <2>2. Replies(n, readers[n]) \in Seq(Int)
    <3>1. knob[n] \in Int /\ readers[n] \in Nat  BY DEF TypeOK
    <3>2. [i \in 1..readers[n] |-> knob[n]] \in Seq(Int) /\ <<knob[n]>> \in Seq(Int)  BY <3>1
    <3> QED  BY <3>2 DEF Replies
  <2> QED  BY <1>2, <2>1, <2>2 DEF ReadBy
<1>4. ASSUME NEW k, NEW v \in Int, wire' = [wire EXCEPT ![k] = Append(wire[k], v)] PROVE FALSE
  <2>1. CASE k = n  BY <1>1, <1>4, <2>1, AppendProperties
  <2>2. CASE k # n  BY <1>1, <1>4, <2>2
  <2> QED  BY <2>1, <2>2
<1>5. wire' # wire  OBVIOUS
<1>6. ASSUME NEW s \in Signals, NEW v \in Int PROVE ~SetGain(s, v)
  <2>1. Held(v) \in Int  BY HeldType, ValueAssumption
  <2> QED  BY <1>4, <1>5, <2>1 DEF SetGain, TakesGain, Held
<1>7. ~Client
  <2>1. ~Lock
    <3>1. ASSUME NEW answered \in SUBSET {s \in Signals : ResolvedLive(leader)[s].ono # None}
          PROVE  [m \in Knobs |-> Cardinality({s \in answered :
                    <<leader, ResolvedLive(leader)[s].ono>> = m})] \in [Knobs -> Nat]
      BY SignalsFinite, FS_Subset, FS_CardinalityType
    <3> QED  BY <1>3, <3>1 DEF Lock
  <2>2. ~(\E s \in Signals : \E v \in SetValues : SetPreamp(s, v))
    BY <1>6, ValueAssumption DEF SetPreamp
  <2>3. ~(\E c \in Clients : NudgePreampSets(c))
    BY <1>5, <1>6 DEF NudgePreampSets, preampDesk, TypeOK, Optional
  <2> QED  BY <1>5, <2>1, <2>2, <2>3 DEF Client, Unlock, SetLeader, NudgePreamp, preampDesk
<1>8. Engine => \E m \in Knobs : Hear(m)
  <2>1. ~(\E s \in Signals : ReadLeader(s))
    <3>1. \A s : [m \in Knobs |-> IF m = LeaderKnob(s) THEN 1 ELSE 0] \in [Knobs -> Nat]
      OBVIOUS
    <3> QED  BY <1>3, <1>5, <3>1 DEF ReadLeader
  <2> QED  BY <1>5, <2>1 DEF Engine, RecvLagged, PollTick, Observe, RetryTick, RetryFailed, Probe,
                             preampDesk
<1>9. ~World
  <2>1. ASSUME NEW k \in Knobs, NEW v \in SurfaceGains, SurfaceMove(k, v) PROVE FALSE
    <3>1. v \in Int  BY ValueAssumption
    <3>2. wire' = wire \/ wire' = [wire EXCEPT ![k] = Append(wire[k], v)]
      BY <2>1 DEF SurfaceMove
    <3> QED  BY <1>4, <1>5, <3>1, <3>2
  <2> QED  BY <1>5, <2>1 DEF World, LateMove, LocalMove, Fail, Recover, Lag, ExpireEcho, NoneLost,
                             preampDesk
<1>10. PICK m \in Knobs : Hear(m)
  BY <1>5, <1>7, <1>8, <1>9 DEF Next, vars, preampDesk
<1>11. m = n  BY <1>1, <1>10 DEF Hear
<1> QED  BY <1>10, <1>11

\* "An echo is only believed if it is the next thing heard for the signal"
\* (Live::expected): on leaders that report as LeadersConfirm says, taking a
\* report for an echo never loses a move - after the last one under way the
\* engine goes by the gain the desk has.  The run GainLockStale shows what
\* happens on a leader that does not confirm.
THEOREM EchoesAreEchoes ==
    ASSUME LeadersConfirm, Apart, NoneLost
    PROVE  Spec => SwallowLosesNothing
<1>1. ASSUME LevelInv, [Next]_vars, NEW s \in Signals, NEW n \in Knobs,
             n = LeaderKnob(s), Len(wire[n]) = 1, wire'[n] = <<>>, ~taking, batch' = batch
      PROVE  live[s].gain = knob[n]
  <2>1. wire[n] # <<>>  BY <1>1, EmptySeq
  <2>2. Hear(n)  BY <1>1, <2>1, ReportsStay DEF LevelInv
  <2>3. batch[s] = None  BY <1>1, <2>2 DEF Hear, Free
  <2>4. IsExpected(s, Head(wire[n]))
    <3> SUFFICES ASSUME ~IsExpected(s, Head(wire[n])) PROVE FALSE
      OBVIOUS
    <3>1. batch'[s] = Head(wire[n])  BY <1>1, <2>2 DEF Hear
    <3>2. Head(wire[n]) \in Int
      <4>1. wire[n] \in Seq(Int)  BY <1>1 DEF LevelInv, IInv, TypeOK
      <4> QED  BY <2>1, <4>1, HeadTailProperties
    <3> QED  BY <1>1, <2>3, <3>1, <3>2, ValueAssumption
  <2>5. Heard(s) = knob[n]  BY <1>1, <2>2, <2>4, HearTracks
  <2> QED  BY <2>3, <2>5 DEF Heard
<1>2. LevelInv /\ [Next]_vars =>
        [\A s \in Signals : \A n \in Knobs :
            n = LeaderKnob(s) /\ Len(wire[n]) = 1 /\ wire'[n] = <<>> /\ ~lagged' /\ ~taking
               /\ batch' = batch /\ connected' = connected
            => live[s].gain = knob[n]]_vars
  BY <1>1
<1> QED  BY <1>2, LevelInvariance, PTL DEF Spec, SwallowLosesNothing
=============================================================================
