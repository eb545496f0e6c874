--------------------------- MODULE ProtocolProofs ----------------------------
(***************************************************************************)
(* What the parts the run Protocols composes promise.                     *)
(*                                                                         *)
(* The object numbers, for any device the numbering is made for: they come *)
(* back as the controls they were given to, so the plugin does to the      *)
(* control the host named what the host asked, tells only what the adapter *)
(* has read, and tells the last it read.  The ride: on a trim of any range *)
(* and step the books are kept.  The links to microphones, amplifiers and  *)
(* AES70 devices, and the config file's watcher: what is shown, cached or  *)
(* applied is what the other end has, however late its messages come.      *)
(***************************************************************************)
EXTENDS MCProtocols, DbLawProofs, SequenceTheorems, FiniteSetTheorems

\* A preamp's number lies below the trims' and comes back as its channel and
\* field: gain_ono, phantom_ono and pad_ono against decode_ono.
LEMMA PreampComesBack ==
    ASSUME Sizes, NEW c \in 1..Channels, NEW f \in 1..Stride
    PROVE  /\ Ono(c, f) \in Int /\ 0 < Ono(c, f) /\ Ono(c, f) < TrimBase
           /\ ChannelOf(Ono(c, f)) = c
           /\ FieldOf(Ono(c, f)) = f
<1>1. CASE Stride = 2
  <2>1. f = 1 \/ f = 2
    BY <1>1
  <2>2. c \in Int /\ 1 <= c /\ c <= 21845
    BY DEF Sizes
  <2>3. Ono(c, f) = 2 * (c - 1) + f
    BY <1>1 DEF Ono
  <2>4. Ono(c, f) \in Int /\ 0 < Ono(c, f) /\ Ono(c, f) < TrimBase
    BY <2>1, <2>2, <2>3 DEF TrimBase
  <2>5. (Ono(c, f) - 1) \div 2 = c - 1 /\ (Ono(c, f) - 1) % 2 = f - 1
    BY <2>1, <2>2, <2>3
  <2>6. (c - 1 + 1) % 65536 = c
    BY <2>2
  <2> QED BY <1>1, <2>1, <2>2, <2>4, <2>5, <2>6 DEF ChannelOf, FieldOf, U16
<1>2. CASE Stride = 3
  <2>1. f = 1 \/ f = 2 \/ f = 3
    BY <1>2
  <2>2. c \in Int /\ 1 <= c /\ c <= 21845
    BY DEF Sizes
  <2>3. Ono(c, f) = 3 * (c - 1) + f
    BY <1>2 DEF Ono
  <2>4. Ono(c, f) \in Int /\ 0 < Ono(c, f) /\ Ono(c, f) < TrimBase
    BY <2>1, <2>2, <2>3 DEF TrimBase
  <2>5. (Ono(c, f) - 1) \div 3 = c - 1 /\ (Ono(c, f) - 1) % 3 = f - 1
    BY <2>1, <2>2, <2>3
  <2>6. (c - 1 + 1) % 65536 = c
    BY <2>2
  <2> QED BY <1>2, <2>1, <2>2, <2>4, <2>5, <2>6 DEF ChannelOf, FieldOf, U16
<1> QED BY <1>1, <1>2 DEF Sizes

\* Every object describe() lists is found again under its own number, so no
\* two objects of a device share one.
THEOREM NumbersComeBack ==
    ASSUME Sizes, NEW role \in Roles
    PROVE  Known(OnoOf(role)) /\ Decoded(OnoOf(role)) = role
<1>1. CASE role \in PreampRoles
  <2>1. PICK c \in 1..Channels, f \in 1..Stride : role = <<c, f>>
    BY <1>1 DEF PreampRoles
  <2>2. f # 0 /\ OnoOf(role) = Ono(c, f)
    BY <2>1 DEF OnoOf, Sizes
  <2>3. ~IsTrim(OnoOf(role))
    BY <2>2, PreampComesBack DEF IsTrim, TrimInput, TrimBase, Sizes
  <2> QED BY <2>1, <2>2, <2>3, PreampComesBack DEF Known, IsPreamp, Decoded, Sizes, TrimBase
<1>2. CASE role \in TrimRoles
  <2>1. PICK i \in 1..Inputs : role = <<i, 0>>
    BY <1>2 DEF TrimRoles
  <2>2. OnoOf(role) = TrimBase + i
    BY <2>1 DEF OnoOf, TrimOno
  <2> QED BY <2>1, <2>2 DEF Known, IsTrim, TrimInput, Decoded, TrimBase, Sizes
<1> QED BY <1>1, <1>2 DEF Roles

COROLLARY NumbersApart ==
    ASSUME Sizes, NEW r1 \in Roles, NEW r2 \in Roles, OnoOf(r1) = OnoOf(r2)
    PROVE  r1 = r2
BY NumbersComeBack

-----------------------------------------------------------------------------
(* The host's request and the number passed on stay those of one role.      *)

\* Every operation keeps the types.
LEMMA TypeStep == ASSUME Sizes, TypeOK, [Next]_vars PROVE TypeOK'
<1> USE DEF TypeOK
<1>1. ASSUME NEW channel \in 1..Channels, NEW changed \in (SUBSET (1..Stride)) \ {{}},
             NEW value \in Levels, Turn(channel, changed, value)
      PROVE  TypeOK'
  BY <1>1 DEF Turn
<1>2. ASSUME NEW input \in 1..Inputs, NEW value \in Levels, TurnTrim(input, value)
      PROVE  TypeOK'
  BY <1>2 DEF TurnTrim, Roles, TrimRoles
<1>3. CASE EventTask
  BY <1>3 DEF EventTask
<1>4. CASE Poll
  BY <1>4 DEF Poll
<1>5. ASSUME NEW role \in Roles, NEW want \in Wants, Ask(role, want)
      PROVE  TypeOK'
  BY <1>5 DEF Ask
<1>6. CASE Serve
  <2>1. asked' = None
    BY <1>6 DEF Serve
  <2>2. CASE Refuse
    BY <1>6, <2>1, <2>2 DEF Refuse
  <2>3. CASE Get(Decoded(request))
    BY <1>6, <2>1, <2>3 DEF Get
  <2>4. CASE /\ Set(Decoded(request)) \/ Nudge(Decoded(request))
             /\ Allowed(asked.want, Decoded(request))
    <3>1. asked # None /\ asked.role \in Roles /\ asked.want \in Wants
      BY <1>6 DEF Serve
    <3>2. Set(Decoded(request)) => asked.want.value \in Levels
      BY <3>1 DEF Set, Wants
    <3> QED BY <2>1, <2>4, <3>2 DEF Set, Nudge
  <2> QED BY <1>6, <2>2, <2>3, <2>4 DEF Serve
<1>7. CASE UNCHANGED vars
  BY <1>7 DEF vars
<1> QED BY <1>1, <1>2, <1>3, <1>4, <1>5, <1>6, <1>7 DEF Next

\* The bridge keeps its types.
THEOREM TypeCorrect == ASSUME Sizes PROVE Spec => []TypeOK
<1>1. Init => TypeOK
  BY DEF Init, TypeOK
<1> QED BY <1>1, TypeStep, PTL DEF Spec

-----------------------------------------------------------------------------
(* Each step of the bridge is a step of the controls, or none they see.     *)

\* Every operation of the plugin is a step of the abstract controls, or none.
LEMMA StepImplements == ASSUME Sizes, TypeOK, [Next]_vars PROVE StoreStep
<1> USE DEF StoreStep, Store!Next
<1>1. ASSUME NEW channel \in 1..Channels, NEW changed \in (SUBSET (1..Stride)) \ {{}},
             NEW value \in Levels, Turn(channel, changed, value)
      PROVE  StoreStep
  <2>1. controls' \in [Roles -> Levels]
    BY <1>1 DEF Turn, TypeOK
  <2> QED BY <1>1, <2>1 DEF Turn, Store!Turn
<1>2. ASSUME NEW input \in 1..Inputs, NEW value \in Levels, TurnTrim(input, value)
      PROVE  StoreStep
  <2>1. controls' \in [Roles -> Levels]
    BY <1>2 DEF TurnTrim, TypeOK
  <2> QED BY <1>2, <2>1 DEF TurnTrim, Store!Turn
<1>3. CASE EventTask
  BY <1>3 DEF EventTask
<1>4. CASE Poll
  BY <1>4 DEF Poll
<1>5. ASSUME NEW role \in Roles, NEW want \in Wants, Ask(role, want)
      PROVE  StoreStep
  BY <1>5 DEF Ask, Wants, Store!Ask, Store!Requests, Store!Wants
<1>6. CASE Serve
  <2>1. asked # None /\ asked' = None /\ asked.role \in Roles /\ asked.want \in Wants
    BY <1>6 DEF Serve, TypeOK
  <2>2. Decoded(request) = asked.role
    BY <2>1, NumbersComeBack DEF TypeOK
  <2>3. CASE Refuse
    BY <2>1, <2>3 DEF Refuse, Store!Serve
  <2>4. CASE Get(asked.role)
    BY <2>1, <2>4 DEF Get, Store!Serve
  <2>5. CASE Set(asked.role)
    <3>1. asked.want.value \in Levels
      BY <2>1, <2>5 DEF Set, Wants
    <3> QED BY <2>1, <2>5, <3>1 DEF Set, Store!Serve, Store!Holds
  <2>6. CASE Nudge(asked.role)
    BY <2>1, <2>6 DEF Nudge, Store!Serve, Store!Holds
  <2> QED BY <1>6, <2>2, <2>3, <2>4, <2>5, <2>6 DEF Serve
<1>7. CASE UNCHANGED vars
  BY <1>7 DEF vars
<1> QED BY <1>1, <1>2, <1>3, <1>4, <1>5, <1>6, <1>7 DEF Next

\* The plugin does to the control the host named what the host asked, whatever
\* the device's size: LegacyPluginBridge and the X32 plugin implement Controls.
THEOREM Implements == ASSUME Sizes PROVE Spec => ImplementsControls
<1>1. Init => Store!Init
  BY DEF Init, Store!Init
<1>2. TypeOK /\ [Next]_vars => [Store!Next]_(Store!vars)
  BY StepImplements DEF StoreStep, Store!vars
<1>3. Spec => []TypeOK
  BY TypeCorrect
<1> QED BY <1>1, <1>2, <1>3, PTL DEF Spec, ImplementsControls, Store!Spec

-----------------------------------------------------------------------------
(* What the event task relays.                                              *)

\* The reports under way have a reading in each field they say has changed.
ReportsRead ==
    /\ bus \in Seq([channel : 1..Channels, changed : SUBSET (1..Stride),
                    state : [1..Stride -> Levels \cup {Blank}]])
    /\ queue \in Seq([ono : Int, value : Levels])
    /\ fields \in [PreampRoles -> Levels \cup {Blank}]
    /\ \A i \in DOMAIN bus : \A f \in bus[i].changed : bus[i].state[f] \in Levels

\* What stands in a sequence over a set is of the set.
LEMMA InSequence == ASSUME NEW S, NEW s \in Seq(S), NEW i \in DOMAIN s PROVE s[i] \in S
OBVIOUS

\* Every report on_event makes of an event carries what the event says was read.
LEMMA OfEventReads ==
    ASSUME Sizes, NEW event \in [channel : 1..Channels, changed : SUBSET (1..Stride),
                                 state : [1..Stride -> Levels \cup {Blank}]],
           \A f \in event.changed : event.state[f] \in Levels
    PROVE  OfEvent(event) \in Seq([ono : Int, value : Levels])
<1>1. ASSUME NEW f \in Int
      PROVE  OfField(event, f) \in Seq([ono : Int, value : Levels])
  <2>1. CASE f \in event.changed
    <3>1. Ono(event.channel, f) \in Int
      BY DEF Ono, Sizes
    <3>2. [ono |-> Ono(event.channel, f), value |-> event.state[f]] \in [ono : Int, value : Levels]
      BY <2>1, <3>1
    <3> QED BY <2>1, <3>2 DEF OfField
  <2>2. CASE f \notin event.changed
    BY <2>2 DEF OfField
  <2> QED BY <2>1, <2>2
<1>2. Gain \in Int /\ Phantom \in Int /\ Pad \in Int
  BY DEF Gain, Phantom, Pad
<1>3. OfField(event, Gain) \in Seq([ono : Int, value : Levels])
  BY <1>1, <1>2
<1>4. OfField(event, Phantom) \in Seq([ono : Int, value : Levels])
  BY <1>1, <1>2
<1>5. OfField(event, Pad) \in Seq([ono : Int, value : Levels])
  BY <1>1, <1>2
<1> QED BY <1>3, <1>4, <1>5 DEF OfEvent

\* Every operation leaves only reports of what was read on the queue.
LEMMA ReportsStep == ASSUME Sizes, ReportsRead, [Next]_vars PROVE ReportsRead'
<1> USE DEF ReportsRead
<1>1. ASSUME NEW channel \in 1..Channels, NEW changed \in (SUBSET (1..Stride)) \ {{}},
             NEW value \in Levels, Turn(channel, changed, value)
      PROVE  ReportsRead'
  <2> DEFINE event == [channel |-> channel, changed |-> changed,
                       state |-> [f \in 1..Stride |-> fields'[<<channel, f>>]]]
  <2>1. fields' \in [PreampRoles -> Levels \cup {Blank}]
    BY <1>1 DEF Turn
  <2>2. \A f \in 1..Stride : <<channel, f>> \in PreampRoles
    BY DEF PreampRoles
  <2>3. \A f \in changed : fields'[<<channel, f>>] = value
    BY <1>1, <2>2 DEF Turn
  <2>4. event \in [channel : 1..Channels, changed : SUBSET (1..Stride),
                   state : [1..Stride -> Levels \cup {Blank}]]
    BY <2>1, <2>2
  <2>5. \A f \in event.changed : event.state[f] \in Levels
    BY <2>3
  <2>6. bus' = Append(bus, event) /\ queue' = queue
    BY <1>1 DEF Turn
  <2> HIDE DEF event
  <2>7. \A i \in DOMAIN bus' : \A f \in bus'[i].changed : bus'[i].state[f] \in Levels
    BY <2>4, <2>5, <2>6
  <2> QED BY <2>1, <2>4, <2>6, <2>7
<1>2. ASSUME NEW input \in 1..Inputs, NEW value \in Levels, TurnTrim(input, value)
      PROVE  ReportsRead'
  BY <1>2 DEF TurnTrim
<1>3. CASE EventTask
  <2>1. bus # <<>> /\ bus' = Tail(bus) /\ queue' = queue \o OfEvent(Head(bus)) /\ fields' = fields
    BY <1>3 DEF EventTask
  <2>2. OfEvent(Head(bus)) \in Seq([ono : Int, value : Levels])
    <3>1. Head(bus) = bus[1] /\ 1 \in DOMAIN bus
      BY <2>1
    <3>2. bus[1] \in [channel : 1..Channels, changed : SUBSET (1..Stride),
                      state : [1..Stride -> Levels \cup {Blank}]]
      BY <3>1, InSequence
    <3>3. \A f \in bus[1].changed : bus[1].state[f] \in Levels
      BY <3>1
    <3> QED BY <3>1, <3>2, <3>3, OfEventReads
  <2>3. \A i \in DOMAIN bus' : \A f \in bus'[i].changed : bus'[i].state[f] \in Levels
    BY <2>1
  <2> QED BY <2>1, <2>2, <2>3
<1>4. CASE Poll
  BY <1>4 DEF Poll
<1>5. ASSUME NEW role \in Roles, NEW want \in Wants, Ask(role, want)
      PROVE  ReportsRead'
  BY <1>5 DEF Ask
<1>6. CASE Serve
  BY <1>6 DEF Serve
<1>7. CASE UNCHANGED vars
  BY <1>7 DEF vars
<1> QED BY <1>1, <1>2, <1>3, <1>4, <1>5, <1>6, <1>7 DEF Next

\* Whatever comes of the device, no field the adapter has not read is told.
THEOREM NothingBlank == ASSUME Sizes, Blank \notin Levels PROVE Spec => []NothingBlankTold
<1>1. Init => ReportsRead
  BY DEF Init, ReportsRead
<1>2. ReportsRead => NothingBlankTold
  <2> SUFFICES ASSUME ReportsRead, NEW i \in DOMAIN queue PROVE queue[i].value # Blank
    BY DEF NothingBlankTold
  <2>1. queue \in Seq([ono : Int, value : Levels])
    BY DEF ReportsRead
  <2>2. queue[i] \in [ono : Int, value : Levels]
    BY <2>1, InSequence
  <2> QED BY <2>2
<1> QED BY <1>1, <1>2, ReportsStep, PTL DEF Spec

-----------------------------------------------------------------------------
(* That what the host was told of a field is what was last read of it.      *)

\* What makes ToldWhatIsRead so at every step: the last report on the bus of a
\* field has what was last read of it; without one the last event of the queue
\* has; without that the host was told.
Report == [channel : 1..Channels, changed : SUBSET (1..Stride),
           state : [1..Stride -> Levels \cup {Blank}]]
Event == [ono : Int, value : Levels \cup {Blank}]
Says(report, role) == report.channel = role[1] /\ role[2] \in report.changed
Reporting(b, role) == {i \in 1..Len(b) : Says(b[i], role)}
Telling(q, role) == {i \in 1..Len(q) : q[i].ono = OnoOf(role)}
IsLast(S, i) == i \in S /\ \A j \in S : j <= i
Comes(b, q, role, last, read) ==
    /\ \A i \in Reporting(b, role) : IsLast(Reporting(b, role), i) => b[i].state[role[2]] = read
    /\ Reporting(b, role) = {} =>
          \A i \in Telling(q, role) : IsLast(Telling(q, role), i) => q[i].value = read
    /\ Reporting(b, role) = {} /\ Telling(q, role) = {} => last = read
    /\ Telling(q, role) # {} => \E i \in Telling(q, role) : IsLast(Telling(q, role), i)
Coming ==
    /\ bus \in Seq(Report) /\ queue \in Seq(Event)
    /\ fields \in [PreampRoles -> Levels \cup {Blank}]
    /\ shown \in [PreampRoles -> Levels \cup {Blank}]
    /\ \A role \in PreampRoles : Comes(bus, queue, role, shown[role], fields[role])

\* A report more: of a field it says has changed it is the last.
LEMMA OneReportMore ==
    ASSUME NEW b \in Seq(Report), NEW e \in Report, NEW q, NEW role, NEW last, NEW read, NEW now,
           Comes(b, q, role, last, read),
           IF Says(e, role) THEN e.state[role[2]] = now ELSE now = read
    PROVE  Comes(Append(b, e), q, role, last, now)
<1> DEFINE m == Append(b, e)
<1>1. /\ Len(m) = Len(b) + 1 /\ Len(b) \in Nat /\ m[Len(b) + 1] = e
      /\ \A i \in 1..Len(b) : m[i] = b[i]
  BY AppendProperties, LenProperties
<1> HIDE DEF m
<1>2. CASE Says(e, role)
  <2>1. Len(b) + 1 \in Reporting(m, role)
    BY <1>1, <1>2 DEF Reporting
  <2>2. \A i : IsLast(Reporting(m, role), i) => i = Len(b) + 1
    BY <1>1, <2>1 DEF IsLast, Reporting
  <2>3. \A i : IsLast(Reporting(m, role), i) => m[i].state[role[2]] = now
    BY <1>1, <1>2, <2>2
  <2>4. Reporting(m, role) # {}
    BY <2>1
  <2>5. Comes(m, q, role, last, now)
    BY <2>3, <2>4 DEF Comes
  <2> QED BY <2>5 DEF m
<1>3. CASE ~Says(e, role)
  <2>1. Reporting(m, role) = Reporting(b, role)
    <3>1. ASSUME NEW i PROVE i \in Reporting(m, role) <=> i \in Reporting(b, role)
      <4>1. CASE i \in 1..Len(b)
        <5>1. i \in 1..Len(m) /\ m[i] = b[i]
          BY <1>1, <4>1
        <5> QED BY <4>1, <5>1 DEF Reporting
      <4>2. CASE i \notin 1..Len(b)
        <5>1. i \in 1..Len(m) => i = Len(b) + 1
          BY <1>1, <4>2
        <5> QED BY <1>1, <1>3, <4>2, <5>1 DEF Reporting
      <4> QED BY <4>1, <4>2
    <3> QED BY <3>1
  <2>2. \A i \in Reporting(b, role) : m[i] = b[i]
    BY <1>1 DEF Reporting
  <2>3. now = read
    BY <1>3
  <2>4. Comes(m, q, role, last, now)
    BY <2>1, <2>2, <2>3 DEF Comes, IsLast
  <2> QED BY <2>4 DEF m
<1> QED BY <1>2, <1>3

\* Events made of a report: one at least of each of the fields
\* F it says have changed, with what it has of them, and none of another.
EventOf(e, f) == [ono |-> Ono(e.channel, f), value |-> e.state[f]]
MadeOf(told, e, F) ==
    /\ told \in Seq(Event)
    /\ \A k \in 1..Len(told) : \E f \in F \cap e.changed : told[k] = EventOf(e, f)
    /\ \A f \in F \cap e.changed : \E k \in 1..Len(told) : told[k] = EventOf(e, f)

\* An event of one field makes at most the report of that field.
LEMMA FieldTold ==
    ASSUME Sizes, NEW e \in Report, NEW f \in 1..Stride
    PROVE  MadeOf(OfField(e, f), e, {f}) /\ Len(OfField(e, f)) <= 1
<1> DEFINE x == EventOf(e, f)
<1>1. x \in Event
  BY DEF Ono, Sizes, Report, Event, EventOf
<1> HIDE DEF x
<1>2. <<x>> \in Seq(Event) /\ Len(<<x>>) = 1 /\ <<x>>[1] = x
  BY <1>1
<1>3. CASE f \in e.changed
  <2>1. OfField(e, f) = <<x>>
    BY <1>3 DEF OfField, x, EventOf
  <2>2. 1 \in 1..Len(OfField(e, f)) /\ \A k \in 1..Len(OfField(e, f)) : k = 1
    BY <1>2, <2>1
  <2> QED BY <1>2, <1>3, <2>1, <2>2 DEF x, MadeOf
<1>4. CASE f \notin e.changed
  <2>1. OfField(e, f) = <<>>
    BY <1>4 DEF OfField
  <2> QED BY <1>4, <2>1 DEF MadeOf
<1> QED BY <1>3, <1>4

\* What is made of two sets of fields in turn is made of both.
LEMMA MadeOfBoth ==
    ASSUME NEW e, NEW F, NEW G, NEW s, NEW t, MadeOf(s, e, F), MadeOf(t, e, G)
    PROVE  MadeOf(s \o t, e, F \cup G) /\ Len(s \o t) = Len(s) + Len(t)
<1> DEFINE st == s \o t
<1>1. s \in Seq(Event) /\ t \in Seq(Event) /\ Len(s) \in Nat /\ Len(t) \in Nat
  BY LenProperties DEF MadeOf
<1>2. /\ st \in Seq(Event) /\ Len(st) = Len(s) + Len(t)
      /\ \A i \in 1..Len(st) : st[i] = IF i <= Len(s) THEN s[i] ELSE t[i - Len(s)]
  BY <1>1, ConcatProperties
<1> HIDE DEF st
<1>3. \A i \in 1..Len(s) : i \in 1..Len(st) /\ st[i] = s[i]
  BY <1>1, <1>2
<1>4. \A i \in 1..Len(t) : Len(s) + i \in 1..Len(st) /\ st[Len(s) + i] = t[i]
  <2> SUFFICES ASSUME NEW i \in 1..Len(t)
               PROVE  Len(s) + i \in 1..Len(st) /\ st[Len(s) + i] = t[i]
    OBVIOUS
  <2>1. Len(s) + i \in 1..Len(st) /\ ~(Len(s) + i <= Len(s)) /\ (Len(s) + i) - Len(s) = i
    BY <1>1, <1>2
  <2> QED BY <1>2, <2>1
<1>5. ASSUME NEW k \in 1..Len(st) PROVE \E f \in (F \cup G) \cap e.changed : st[k] = EventOf(e, f)
  <2>1. CASE k <= Len(s)
    <3>1. k \in 1..Len(s)
      BY <1>1, <2>1
    <3>2. PICK f \in F \cap e.changed : s[k] = EventOf(e, f)
      BY <3>1 DEF MadeOf
    <3> QED BY <1>3, <3>1, <3>2
  <2>2. CASE ~(k <= Len(s))
    <3>1. k - Len(s) \in 1..Len(t) /\ Len(s) + (k - Len(s)) = k
      BY <1>1, <1>2, <2>2
    <3>2. PICK f \in G \cap e.changed : t[k - Len(s)] = EventOf(e, f)
      BY <3>1 DEF MadeOf
    <3> QED BY <1>4, <3>1, <3>2
  <2> QED BY <2>1, <2>2
<1>6. ASSUME NEW f \in (F \cup G) \cap e.changed PROVE \E k \in 1..Len(st) : st[k] = EventOf(e, f)
  <2>1. CASE f \in F
    <3>1. PICK k \in 1..Len(s) : s[k] = EventOf(e, f)
      BY <2>1 DEF MadeOf
    <3> QED BY <1>3, <3>1
  <2>2. CASE f \in G
    <3>1. PICK k \in 1..Len(t) : t[k] = EventOf(e, f)
      BY <2>2 DEF MadeOf
    <3> QED BY <1>4, <3>1
  <2> QED BY <2>1, <2>2
<1>7. MadeOf(st, e, F \cup G)
  BY <1>2, <1>5, <1>6 DEF MadeOf
<1> QED BY <1>2, <1>7 DEF st

\* preamp_event_to_oca_ffi makes its events of all that a report says.
LEMMA ReportTold ==
    ASSUME Sizes, NEW e \in Report
    PROVE  /\ OfEvent(e) \in Seq(Event) /\ Len(OfEvent(e)) \in 0..3
           /\ \A k \in 1..Len(OfEvent(e)) : \E f \in e.changed : OfEvent(e)[k] = EventOf(e, f)
           /\ \A f \in e.changed : \E k \in 1..Len(OfEvent(e)) : OfEvent(e)[k] = EventOf(e, f)
<1>1. e.changed \in SUBSET (1..Stride) /\ Stride \in {2, 3}
  BY DEF Report, Sizes
<1>2. 1 \in 1..Stride /\ 2 \in 1..Stride /\ (Stride = 3 => 3 \in 1..Stride) /\ (Stride # 3 => 3 \notin e.changed)
      /\ 1..Stride \subseteq {1, 2, 3}
  BY <1>1
<1> DEFINE a == OfField(e, Gain)
           b == OfField(e, Phantom)
           c == IF Stride = 3 THEN OfField(e, Pad) ELSE <<>>
           G == {1}  P == {2}  D == {3}  GPD == {1, 2, 3}
<1>3. MadeOf(a, e, G) /\ MadeOf(b, e, P) /\ Len(a) <= 1 /\ Len(b) <= 1
  BY <1>2, FieldTold DEF Gain, Phantom
<1>4. MadeOf(c, e, D) /\ Len(c) <= 1
  <2>1. CASE Stride = 3
    BY <1>2, <2>1, FieldTold DEF Pad
  <2>2. CASE Stride # 3
    BY <1>2, <2>2 DEF MadeOf
  <2> QED BY <2>1, <2>2
<1>5. OfEvent(e) = a \o b \o c
  BY DEF OfEvent
<1> DEFINE ab == a \o b
           abc == ab \o c
<1>6. GPD = G \cup P \cup D
  OBVIOUS
<1>7. OfEvent(e) = abc
  BY <1>5
<1> HIDE DEF a, b, c, G, P, D, GPD
<1>8. MadeOf(ab, e, G \cup P) /\ Len(ab) = Len(a) + Len(b)
  BY <1>3, MadeOfBoth
<1>9. MadeOf(abc, e, GPD) /\ Len(abc) = Len(ab) + Len(c)
  <2> HIDE DEF ab
  <2>1. MadeOf(ab \o c, e, (G \cup P) \cup D) /\ Len(ab \o c) = Len(ab) + Len(c)
    BY <1>4, <1>8, MadeOfBoth
  <2> QED BY <1>6, <2>1
<1>10. GPD \cap e.changed = e.changed
  BY <1>1, <1>2 DEF GPD
<1>11. Len(abc) \in 0..3
  <2>1. Len(a) \in Nat /\ Len(b) \in Nat /\ Len(c) \in Nat
    BY <1>3, <1>4, LenProperties DEF MadeOf
  <2> QED BY <1>3, <1>4, <1>8, <1>9, <2>1
<1> QED BY <1>7, <1>9, <1>10, <1>11 DEF MadeOf

\* Of three things with something to tell there is a last.
LEMMA LastOfThree ==
    ASSUME NEW n \in 0..3, NEW S \in SUBSET (1..n), S # {}
    PROVE  \E i \in S : IsLast(S, i)
<1>1. \A i \in S : i = 1 \/ i = 2 \/ i = 3
  OBVIOUS
<1>2. CASE 3 \in S  BY <1>1, <1>2 DEF IsLast
<1>3. CASE 3 \notin S /\ 2 \in S  BY <1>1, <1>3 DEF IsLast
<1>4. CASE 3 \notin S /\ 2 \notin S
  <2>1. 1 \in S /\ \A i \in S : i = 1  BY <1>1, <1>4
  <2> QED BY <2>1 DEF IsLast
<1> QED BY <1>2, <1>3, <1>4

\* The task takes a report: its events are the last of the fields it tells of.
LEMMA OneReportLess ==
    ASSUME Sizes, NEW b \in Seq(Report), b # <<>>, NEW role \in PreampRoles,
           NEW q \in Seq(Event),
           NEW last, NEW read, Comes(b, q, role, last, read)
    PROVE  Comes(Tail(b), q \o OfEvent(Head(b)), role, last, read)
<1> DEFINE e == Head(b)
           told == OfEvent(e)
           less == Tail(b)
           more == q \o told
<1>1. /\ e = b[1] /\ e \in Report /\ less \in Seq(Report) /\ Len(b) \in Nat /\ Len(b) > 0
      /\ Len(less) = Len(b) - 1 /\ \A i \in 1..Len(less) : less[i] = b[i + 1]
  BY HeadTailProperties, LenProperties, EmptySeq
<1>2. /\ told \in Seq(Event) /\ Len(told) \in 0..3
      /\ \A k \in 1..Len(told) : \E f \in e.changed : told[k] = EventOf(e, f)
      /\ \A f \in e.changed : \E k \in 1..Len(told) : told[k] = EventOf(e, f)
  BY <1>1, ReportTold
<1> HIDE DEF told
<1>3. /\ Len(more) = Len(q) + Len(told) /\ Len(q) \in Nat
      /\ \A i \in 1..Len(more) : more[i] = IF i <= Len(q) THEN q[i] ELSE told[i - Len(q)]
  BY <1>2, ConcatProperties, LenProperties
<1> HIDE DEF less, more, e
<1>4. role = <<role[1], role[2]>> /\ role[1] \in 1..Channels /\ role[2] \in 1..Stride
      /\ role \in Roles /\ OnoOf(role) = Ono(role[1], role[2])
  BY DEF PreampRoles, Roles, OnoOf, Sizes
<1>5. \A f \in e.changed : Ono(e.channel, f) = OnoOf(role) => e.channel = role[1] /\ f = role[2]
  <2> SUFFICES ASSUME NEW f \in e.changed, Ono(e.channel, f) = OnoOf(role)
               PROVE  e.channel = role[1] /\ f = role[2]
    OBVIOUS
  <2>1. e.channel \in 1..Channels /\ f \in 1..Stride
    BY <1>1 DEF Report
  <2>2. <<e.channel, f>> \in Roles /\ OnoOf(<<e.channel, f>>) = Ono(e.channel, f)
    BY <2>1 DEF PreampRoles, Roles, OnoOf, Sizes
  <2>3. <<e.channel, f>> = role
    BY <1>4, <2>2, NumbersApart
  <2> QED BY <2>3
<1>6. \A k \in Telling(told, role) : Says(e, role) /\ told[k].value = e.state[role[2]]
  <2> SUFFICES ASSUME NEW k \in Telling(told, role)
               PROVE  Says(e, role) /\ told[k].value = e.state[role[2]]
    OBVIOUS
  <2>1. PICK f \in e.changed : told[k] = EventOf(e, f)
    BY <1>2 DEF Telling
  <2>2. Ono(e.channel, f) = OnoOf(role)
    BY <2>1 DEF Telling, EventOf
  <2> QED BY <1>5, <2>1, <2>2 DEF Says, EventOf
<1>7. Telling(told, role) = {} => ~Says(e, role)
  <2> SUFFICES ASSUME Says(e, role) PROVE Telling(told, role) # {}
    OBVIOUS
  <2>1. PICK k \in 1..Len(told) : told[k] = EventOf(e, role[2])
    BY <1>2 DEF Says
  <2>2. told[k].ono = OnoOf(role)
    BY <1>4, <2>1 DEF EventOf, Says
  <2> QED BY <2>2 DEF Telling
<1>8. \A i : i \in Reporting(less, role) <=> i + 1 \in Reporting(b, role) /\ i \in 1..Len(less)
  <2> SUFFICES ASSUME NEW i
               PROVE  i \in Reporting(less, role) <=> i + 1 \in Reporting(b, role) /\ i \in 1..Len(less)
    OBVIOUS
  <2>1. i \in 1..Len(less) => i + 1 \in 1..Len(b) /\ less[i] = b[i + 1]
    BY <1>1
  <2> QED BY <2>1 DEF Reporting
<1>9. \A j \in Reporting(b, role) : j = 1 \/ j - 1 \in Reporting(less, role)
  <2> SUFFICES ASSUME NEW j \in Reporting(b, role), j # 1 PROVE j - 1 \in Reporting(less, role)
    OBVIOUS
  <2>1. j \in 1..Len(b) /\ j - 1 \in 1..Len(less) /\ (j - 1) + 1 = j
    BY <1>1 DEF Reporting
  <2> QED BY <1>8, <2>1
<1>10. 1 \in Reporting(b, role) <=> Says(e, role)
  BY <1>1 DEF Reporting
\* The reports left.
<1>11. ASSUME NEW i, IsLast(Reporting(less, role), i) PROVE less[i].state[role[2]] = read
  <2>1. i \in 1..Len(less) /\ i + 1 \in Reporting(b, role) /\ less[i] = b[i + 1]
    BY <1>1, <1>8, <1>11 DEF IsLast
  <2>2. \A j \in Reporting(b, role) : j <= i + 1
    <3> SUFFICES ASSUME NEW j \in Reporting(b, role), j # 1 PROVE j <= i + 1
      BY <2>1
    <3>1. j - 1 <= i /\ j \in Int
      BY <1>9, <1>11 DEF IsLast, Reporting
    <3> QED BY <2>1, <3>1
  <2> QED BY <2>1, <2>2 DEF Comes, IsLast
\* The events queued, with those of the report.
<1>12. CASE Telling(told, role) = {}
  <2>1. Reporting(less, role) = {} => Reporting(b, role) = {}
    BY <1>7, <1>9, <1>10, <1>12
  <2>2. ASSUME NEW i PROVE i \in Telling(more, role) <=> i \in Telling(q, role)
    <3>1. CASE i \in 1..Len(q)
      <4>1. i \in 1..Len(more) /\ more[i] = q[i]
        BY <1>2, <1>3, <3>1
      <4> QED BY <3>1, <4>1 DEF Telling
    <3>2. CASE i \notin 1..Len(q) /\ i \in 1..Len(more)
      <4>1. i - Len(q) \in 1..Len(told) /\ more[i] = told[i - Len(q)]
        BY <1>2, <1>3, <3>2
      <4> QED BY <1>12, <3>2, <4>1 DEF Telling
    <3>3. CASE i \notin 1..Len(q) /\ i \notin 1..Len(more)
      BY <3>3 DEF Telling
    <3> QED BY <3>1, <3>2, <3>3
  <2>3. Telling(more, role) = Telling(q, role)
    BY <2>2
  <2>4. \A i \in Telling(q, role) : more[i] = q[i]
    BY <1>2, <1>3 DEF Telling
  <2>5. Comes(less, more, role, last, read)
    BY <1>11, <2>1, <2>3, <2>4 DEF Comes, IsLast
  <2> QED BY <2>5 DEF less, more, told, e
<1>13. CASE Telling(told, role) # {}
  <2>1. PICK k : IsLast(Telling(told, role), k)
    <3>1. Telling(told, role) \in SUBSET (1..Len(told))
      BY DEF Telling
    <3> QED BY <1>2, <1>13, <3>1, LastOfThree
  <2>2. k \in 1..Len(told) /\ told[k].ono = OnoOf(role) /\ Says(e, role) /\ told[k].value = e.state[role[2]]
    BY <1>6, <2>1 DEF IsLast, Telling
  <2> DEFINE l == Len(q) + k
  <2>3. /\ l \in 1..Len(more) /\ more[l] = told[k] /\ l - Len(q) = k /\ ~(l <= Len(q)) /\ l \in Int
    BY <1>2, <1>3, <2>2
  <2> HIDE DEF l
  <2>4. l \in Telling(more, role)
    BY <2>2, <2>3 DEF Telling
  <2>5. \A i \in Telling(more, role) : i <= l
    <3> SUFFICES ASSUME NEW i \in Telling(more, role), i > l PROVE FALSE
      BY <2>3 DEF Telling
    <3>1. i \in 1..Len(more) /\ more[i].ono = OnoOf(role)
      BY DEF Telling
    <3>2. i - Len(q) \in 1..Len(told) /\ more[i] = told[i - Len(q)] /\ i - Len(q) > k
      BY <1>2, <1>3, <2>2, <2>3, <3>1
    <3>3. i - Len(q) \in Telling(told, role)
      BY <3>1, <3>2 DEF Telling
    <3> QED BY <2>1, <2>2, <3>2, <3>3 DEF IsLast
  <2>6. IsLast(Telling(more, role), l) /\ \A i : IsLast(Telling(more, role), i) => i = l
    BY <2>3, <2>4, <2>5 DEF IsLast, Telling
  <2>7. Reporting(less, role) = {} => e.state[role[2]] = read
    <3> SUFFICES ASSUME Reporting(less, role) = {} PROVE e.state[role[2]] = read
      OBVIOUS
    <3>1. IsLast(Reporting(b, role), 1)
      BY <1>9, <1>10, <2>2 DEF IsLast
    <3>2. 1 \in Reporting(b, role)
      BY <3>1 DEF IsLast
    <3> QED BY <1>1, <3>1, <3>2 DEF Comes
  <2>8. Reporting(less, role) = {} => \A i : IsLast(Telling(more, role), i) => more[i].value = read
    BY <2>2, <2>3, <2>6, <2>7
  <2>9. Comes(less, more, role, last, read)
    BY <1>11, <2>4, <2>6, <2>8 DEF Comes
  <2> QED BY <2>9 DEF less, more, told, e
<1> QED BY <1>12, <1>13

\* The host polls: of each field it takes the last event.
LEMMA AllPolled ==
    ASSUME NEW b, NEW role \in Roles, NEW last, NEW read,
           NEW q \in Seq(Event), Comes(b, q, role, last, read)
    PROVE  Comes(b, <<>>, role,
                 IF Told(q, role) = {} THEN last ELSE q[LastOf(Told(q, role))].value, read)
<1>1. \A ono : <<ono, role>> \in Described <=> ono = OnoOf(role)
  BY DEF Described
<1>2. Told(q, role) = Telling(q, role)
  BY <1>1 DEF Told, Telling
<1>3. Telling(<<>>, role) = {}
  BY DEF Telling
<1>4. CASE Told(q, role) = {}
  BY <1>2, <1>3, <1>4 DEF Comes, IsLast
<1>5. CASE Told(q, role) # {}
  <2>1. IsLast(Telling(q, role), LastOf(Telling(q, role)))
    BY <1>2, <1>5 DEF Comes, IsLast, LastOf
  <2>2. Reporting(b, role) = {} => q[LastOf(Telling(q, role))].value = read
    <3>1. LastOf(Telling(q, role)) \in Telling(q, role)
      BY <2>1 DEF IsLast
    <3> QED BY <2>1, <3>1 DEF Comes
  <2> DEFINE told == q[LastOf(Told(q, role))].value
  <2>3. Reporting(b, role) = {} => told = read
    BY <1>2, <2>2
  <2> HIDE DEF told
  <2>4. Comes(b, <<>>, role, told, read)
    BY <1>3, <2>3 DEF Comes, IsLast
  <2> QED BY <1>5, <2>4 DEF told
<1> QED BY <1>4, <1>5

LEMMA ComingInit == Init => Coming
<1> SUFFICES ASSUME Init PROVE Coming
  OBVIOUS
<1>1. \A role : Reporting(<<>>, role) = {} /\ Telling(<<>>, role) = {}
  BY DEF Reporting, Telling
<1>2. \A role \in PreampRoles : Comes(bus, queue, role, shown[role], fields[role])
  BY <1>1 DEF Init, Comes, IsLast
<1> QED BY <1>2 DEF Init, Coming

\* No operation lets the last report of a field fall behind what was read.
LEMMA ComingStep == ASSUME Sizes, Coming, [Next]_vars PROVE Coming'
<1> USE DEF Coming
<1>1. ASSUME NEW channel \in 1..Channels, NEW changed \in (SUBSET (1..Stride)) \ {{}},
             NEW value \in Levels, Turn(channel, changed, value)
      PROVE  Coming'
  <2> DEFINE e == [channel |-> channel, changed |-> changed,
                   state |-> [f \in 1..Stride |-> fields'[<<channel, f>>]]]
  <2>1. /\ fields' = [role \in PreampRoles |->
                        IF role \in {<<channel, f>> : f \in changed} THEN value ELSE fields[role]]
        /\ bus' = Append(bus, e) /\ queue' = queue /\ shown' = shown
    BY <1>1 DEF Turn
  <2>2. fields' \in [PreampRoles -> Levels \cup {Blank}]
    BY <2>1
  <2>3. \A f \in 1..Stride : <<channel, f>> \in PreampRoles
    BY DEF PreampRoles
  <2>4. e \in Report
    BY <2>2, <2>3 DEF Report
  <2>5. ASSUME NEW role \in PreampRoles
        PROVE  IF Says(e, role) THEN e.state[role[2]] = fields'[role] ELSE fields'[role] = fields[role]
    <3>1. role = <<role[1], role[2]>> /\ role[2] \in 1..Stride
      BY DEF PreampRoles
    <3>2. Says(e, role) <=> channel = role[1] /\ role[2] \in changed
      BY DEF Says
    <3>3. Says(e, role) <=> role \in {<<channel, f>> : f \in changed}
      BY <3>1, <3>2
    <3>4. e.state[role[2]] = fields'[<<channel, role[2]>>]
      BY <3>1
    <3> HIDE DEF e
    <3>5. CASE Says(e, role)
      <4>1. role = <<channel, role[2]>>
        BY <3>1, <3>2, <3>5
      <4> QED BY <3>4, <3>5, <4>1
    <3>6. CASE ~Says(e, role)
      BY <2>1, <3>3, <3>6
    <3> QED BY <3>5, <3>6
  <2> HIDE DEF e
  <2>6. ASSUME NEW role \in PreampRoles
        PROVE  Comes(Append(bus, e), queue, role, shown[role], fields'[role])
    BY <2>4, <2>5, OneReportMore
  <2>7. bus' \in Seq(Report)
    BY <2>1, <2>4
  <2> QED BY <2>1, <2>2, <2>6, <2>7
<1>2. ASSUME NEW input \in 1..Inputs, NEW value \in Levels, TurnTrim(input, value)
      PROVE  Coming'
  BY <1>2 DEF TurnTrim
<1>3. CASE EventTask
  <2>1. bus # <<>> /\ bus' = Tail(bus) /\ queue' = queue \o OfEvent(Head(bus))
        /\ fields' = fields /\ shown' = shown
    BY <1>3 DEF EventTask
  <2>2. bus' \in Seq(Report) /\ Head(bus) \in Report
    BY <2>1, HeadTailProperties
  <2>3. OfEvent(Head(bus)) \in Seq(Event)
    BY <2>2, ReportTold
  <2>4. queue' \in Seq(Event)
    BY <2>1, <2>3, ConcatProperties
  <2>5. \A role \in PreampRoles : Comes(bus', queue', role, shown[role], fields[role])
    BY <2>1, OneReportLess
  <2> QED BY <2>1, <2>2, <2>4, <2>5
<1>4. CASE Poll
  <2>1. /\ queue' = <<>> /\ bus' = bus /\ fields' = fields
        /\ shown' = [role \in PreampRoles |->
                       IF Told(queue, role) = {} THEN shown[role] ELSE queue[LastOf(Told(queue, role))].value]
    BY <1>4 DEF Poll
  <2>2. ASSUME NEW role \in PreampRoles
        PROVE  shown'[role] \in Levels \cup {Blank} /\ Comes(bus, <<>>, role, shown'[role], fields[role])
    <3>1. role \in Roles
      BY DEF Roles
    <3>2. Comes(bus, <<>>, role, shown'[role], fields[role])
      BY <2>1, <3>1, AllPolled
    <3>3. Told(queue, role) # {} => LastOf(Told(queue, role)) \in 1..Len(queue)
      <4>1. Told(queue, role) = Telling(queue, role)
        BY <3>1 DEF Told, Telling, Described
      <4>2. Telling(queue, role) # {} => IsLast(Telling(queue, role), LastOf(Telling(queue, role)))
        BY DEF Comes, IsLast, LastOf
      <4> QED BY <4>1, <4>2 DEF IsLast, Telling
    <3>4. \A i \in 1..Len(queue) : queue[i].value \in Levels \cup {Blank}
      <4> SUFFICES ASSUME NEW i \in 1..Len(queue) PROVE queue[i].value \in Levels \cup {Blank}
        OBVIOUS
      <4>1. queue[i] \in Event
        BY ElementOfSeq
      <4> QED BY <4>1 DEF Event
    <3> QED BY <2>1, <3>2, <3>3, <3>4
  <2>3. shown' \in [PreampRoles -> Levels \cup {Blank}]
    BY <2>1, <2>2
  <2>4. <<>> \in Seq(Event)
    OBVIOUS
  <2> QED BY <2>1, <2>2, <2>3, <2>4
<1>5. ASSUME NEW role \in Roles, NEW want \in Wants, Ask(role, want)
      PROVE  Coming'
  BY <1>5 DEF Ask
<1>6. CASE Serve
  BY <1>6 DEF Serve
<1>7. CASE UNCHANGED vars
  BY <1>7 DEF vars
<1> QED BY <1>1, <1>2, <1>3, <1>4, <1>5, <1>6, <1>7 DEF Next

LEMMA ComingEnough == Coming => ToldWhatIsRead
<1> SUFFICES ASSUME Coming, bus = <<>>, queue = <<>> PROVE shown = fields
  BY DEF ToldWhatIsRead
<1>1. \A role : Reporting(<<>>, role) = {} /\ Telling(<<>>, role) = {}
  BY DEF Reporting, Telling
<1>2. \A role \in PreampRoles : shown[role] = fields[role]
  BY <1>1 DEF Coming, Comes
<1> QED BY <1>2 DEF Coming

-----------------------------------------------------------------------------
(* That the books are kept on a trim of any range and step, whatever the ride *)

\* The invariant: both stand on the grid, so that the books can be read as
\* places on it.
RideInv ==
    /\ OnGrid(Law, start) /\ OnGrid(Law, trim)
    /\ ridden \in Int /\ owed \in Int
    /\ Accounted /\ ShortOnlyAtALimit

\* A ride begins with its books in order.
LEMMA StartsInBooks == RideInit => RideInv
<1> SUFFICES ASSUME RideInit PROVE RideInv
  OBVIOUS
<1>1. IsLaw(Law) /\ start \in Int /\ Quantize(Law, start) = start
  BY LawAssumption DEF RideInit
<1>2. Index(Law, start) \in 0..Points(Law)
  BY <1>1, Landing
<1>3. OnGrid(Law, start)
  BY <1>1, <1>2, InRange DEF OnGrid, Quantize
<1> QED
  BY <1>1, <1>3 DEF RideInit, RideInv, Accounted, ShortOnlyAtALimit, Size, IsLaw

\* What the trim is short of after a move is a part of the grid's step, or what
\* lies beyond the end it stands at.
LEMMA OfferKeepsBooks ==
    ASSUME RideInv, NEW move \in Steps, Offer(move)
    PROVE  RideInv'
<1> DEFINE due == owed + move
           target == NudgeTarget(Law, trim, due)
<1>1. /\ IsLaw(Law) /\ move \in Int /\ due \in Int
      /\ Law.min \in Int /\ Law.max \in Int /\ Law.step \in Int /\ Law.step > 0
  BY LawAssumption DEF RideInv, IsLaw
<1>2. trim \in Int /\ start \in Int
  BY <1>1, OnGridIsInRange DEF RideInv
<1>3. /\ target = Quantize(Law, trim + due) /\ OnGrid(Law, target)
      /\ NudgeApplied(Law, trim, due) = target - trim
  BY <1>1, NudgeIsWhatItSays DEF RideInv
<1>4. target \in Int /\ Law.min <= target /\ target <= Law.max
  BY <1>1, <1>3, OnGridIsInRange
<1>5. /\ ridden' = ridden + move /\ trim' = target /\ start' = start
      /\ owed' = due - (target - trim)
  BY <1>3 DEF Offer, Unpaid
<1>6. OnGrid(Law, start)' /\ OnGrid(Law, trim)'
  BY <1>3, <1>5 DEF RideInv, OnGrid, Points
<1>7. Accounted'
  BY <1>1, <1>2, <1>4, <1>5 DEF RideInv, Accounted
<1>8. ShortOnlyAtALimit'
  <2>1. \/ -Law.step <= 2 * owed' /\ 2 * owed' <= Law.step
        \/ owed' > 0 /\ trim' = Law.max
        \/ owed' < 0 /\ trim' = Law.min
    BY <1>1, NudgeFallsShort DEF RideInv, Offer, Unpaid
  <2> QED
    BY <1>1, <1>2, <1>4, <1>5, <2>1 DEF ShortOnlyAtALimit, Size
<1> QED
  BY <1>1, <1>2, <1>4, <1>5, <1>6, <1>7, <1>8 DEF RideInv

LEMMA BooksAreEnough == RideInv => KeepsAccounts
<1> SUFFICES ASSUME RideInv PROVE NoCreep
  BY DEF RideInv, KeepsAccounts
<1>1. /\ IsLaw(Law) /\ Law.min \in Int /\ Law.max \in Int /\ Law.step \in Int
      /\ ridden \in Int /\ owed \in Int
  BY LawAssumption DEF RideInv, IsLaw
<1>2. /\ trim \in Int /\ Law.min <= trim /\ trim <= Law.max
      /\ start \in Int /\ Law.min <= start /\ start <= Law.max
  BY <1>1, OnGridIsInRange DEF RideInv
<1> QED
  BY <1>1, <1>2 DEF RideInv, Accounted, ShortOnlyAtALimit, NoCreep, Size

-----------------------------------------------------------------------------
\* settle() and DbLaw::nudge: on a trim of any range and step, and through any
\* ride of the leader, what was given and what is owed add up to the ride; the
\* trim is short of it by half a step at most unless it stands at a limit; and a
\* leader back where it started has the trim back to within that half step.
THEOREM RideIsAccounted == RideSpec => []KeepsAccounts
<1>1. RideInit => RideInv
  BY StartsInBooks
<1>2. RideInv /\ [Ride]_rideVars => RideInv'
  <2> SUFFICES ASSUME RideInv, [Ride]_rideVars PROVE RideInv'
    OBVIOUS
  <2>1. CASE Ride
    BY <2>1, OfferKeepsBooks DEF Ride
  <2>2. CASE UNCHANGED rideVars
    BY <2>2 DEF rideVars, RideInv, OnGrid, Points, Accounted, ShortOnlyAtALimit, Size
  <2> QED
    BY <2>1, <2>2
<1>3. RideInv => KeepsAccounts
  BY BooksAreEnough
<1> QED
  BY <1>1, <1>2, <1>3, PTL DEF RideSpec

-----------------------------------------------------------------------------
(* That the config file's last valid edit is the one applied.               *)

\* What the thread kept last is the file's, or a change is still to be read.
LEMMA WatchInit == Watch!Init => Watch!WatchInv
  BY DEF Watch!Init, Watch!WatchInv

\* The watcher and the file keep the watcher's invariant.
LEMMA WatchStep == Watch!WatchInv /\ [Watch!Next]_(Watch!vars) => Watch!WatchInv'
<1> SUFFICES ASSUME Watch!WatchInv, [Watch!Next]_(Watch!vars) PROVE Watch!WatchInv'
  OBVIOUS
<1> USE DEF Watch!WatchInv
<1>1. CASE Watch!Edit
  <2> DEFINE file == v1  edits == v2  phase == v3  notices == v4  heard == v8
  <2>1. /\ edits' = edits + 1 /\ file' \in {edits + 1, None} /\ UNCHANGED <<v3, v5, v6, v7>>
        /\ notices' = (IF phase = "watches" THEN notices + 1 ELSE notices)
        /\ (heard' <=> heard \/ phase = "watches")
    BY <1>1 DEF Watch!Edit
  <2>2. edits' \in Nat /\ notices' \in Nat /\ 0..edits \subseteq 0..edits' /\ edits + 1 \in 0..edits'
    BY <2>1
  <2>3. heard' => phase = "watches" /\ notices' > 0
    BY <2>1
  <2> QED BY <2>1, <2>2, <2>3
<1>2. CASE Watch!Connected  BY <1>2 DEF Watch!Connected
<1>3. CASE Watch!Load  BY <1>3 DEF Watch!Load
<1>4. CASE Watch!Arm  BY <1>4 DEF Watch!Arm
<1>5. CASE Watch!Reread  BY <1>5 DEF Watch!Reread
<1>6. CASE Watch!Apply  BY <1>6 DEF Watch!Apply
<1>7. CASE UNCHANGED Watch!vars  BY <1>7 DEF Watch!vars
<1> QED
  BY <1>1, <1>2, <1>3, <1>4, <1>5, <1>6, <1>7 DEF Watch!Next, Watch!Serve

LEMMA WatchInvEnough == Watch!WatchInv => Watch!KeepsTheLast
  BY DEF Watch!WatchInv, Watch!KeepsTheLast

-----------------------------------------------------------------------------
(* That a radio-mic adapter caches what its receivers have.                *)

\* A message has what it is made of.
LEMMA MessagesAre ==
    ASSUME NEW m \in Mic!Messages
    PROVE  /\ m.ch \in Receivers /\ DOMAIN m.says \in SUBSET Mic!Fields
           /\ \A f \in DOMAIN m.says : m.says[f] \in MicLevels
  BY DEF Mic!Messages

\* A message about some fields of a receiver is one of those that may be on their way.
LEMMA MadeMessages ==
    ASSUME NEW c \in Receivers, NEW S \in SUBSET Mic!Fields, NEW says \in [S -> MicLevels]
    PROVE  [ch |-> c, says |-> says] \in Mic!Messages
  BY DEF Mic!Messages

\* More messages: what the last of them says counts, or what was on its way
\* counts on if they do not tell of the field.
LEMMA MoreSaid ==
    ASSUME NEW q \in Seq(Mic!Messages), NEW t \in Seq(Mic!Messages), NEW c, NEW f, NEW v,
           Mic!Tells(t, c, f) # {} \/ Mic!SaysLast(q, c, f, v),
           \A i \in Mic!Tells(t, c, f) : t[i].says[f] = v
    PROVE  /\ Mic!SaysLast(q \o t, c, f, v)
           /\ Mic!Tells(q \o t, c, f) = {} => Mic!Tells(q, c, f) = {} /\ Mic!Tells(t, c, f) = {}
<1> DEFINE p == q \o t
<1>1. /\ Len(p) = Len(q) + Len(t) /\ Len(q) \in Nat /\ Len(t) \in Nat
      /\ \A i \in 1..Len(q) : p[i] = q[i]
      /\ \A i \in 1..Len(t) : p[Len(q) + i] = t[i]
  BY ConcatProperties, LenProperties
<1> HIDE DEF p
<1>2. \A i \in Mic!Tells(q, c, f) : i \in Mic!Tells(p, c, f) /\ i <= Len(q)
  BY <1>1 DEF Mic!Tells
<1>3. \A i \in Mic!Tells(t, c, f) : Len(q) + i \in Mic!Tells(p, c, f) /\ i > 0 /\ i \in Int
  BY <1>1 DEF Mic!Tells
<1>4. \A i \in Mic!Tells(p, c, f) : i > Len(q) =>
          i - Len(q) \in Mic!Tells(t, c, f) /\ p[i] = t[i - Len(q)]
  <2> SUFFICES ASSUME NEW i \in Mic!Tells(p, c, f), i > Len(q)
               PROVE  i - Len(q) \in Mic!Tells(t, c, f) /\ p[i] = t[i - Len(q)]
    OBVIOUS
  <2>1. i \in 1..Len(p) /\ p[i].ch = c /\ f \in DOMAIN p[i].says
    BY DEF Mic!Tells
  <2>2. i - Len(q) \in 1..Len(t) /\ Len(q) + (i - Len(q)) = i
    BY <1>1, <2>1
  <2>3. p[i] = t[i - Len(q)]
    BY <1>1, <2>2
  <2> QED BY <2>1, <2>2, <2>3 DEF Mic!Tells
<1>5. \A i \in Mic!Tells(p, c, f) : i \in Int /\ (i <= Len(q) => i \in Mic!Tells(q, c, f) /\ p[i] = q[i])
  BY <1>1 DEF Mic!Tells
<1>6. ASSUME NEW i \in Mic!Tells(p, c, f), \A j \in Mic!Tells(p, c, f) : j <= i
      PROVE  p[i].says[f] = v
  <2>1. CASE i > Len(q)
    BY <1>4, <2>1
  <2>2. CASE ~(i > Len(q))
    <3>1. i \in Mic!Tells(q, c, f) /\ p[i] = q[i]
      BY <1>1, <1>5, <2>2
    <3>2. Mic!Tells(t, c, f) = {}
      BY <1>1, <1>3, <1>5, <1>6, <2>2
    <3>3. \A j \in Mic!Tells(q, c, f) : j <= i
      BY <1>2, <1>6
    <3> QED BY <3>1, <3>2, <3>3 DEF Mic!SaysLast
  <2> QED BY <2>1, <2>2
<1>7. Mic!SaysLast(p, c, f, v)
  BY <1>6 DEF Mic!SaysLast
<1>8. Mic!Tells(p, c, f) = {} => Mic!Tells(q, c, f) = {} /\ Mic!Tells(t, c, f) = {}
  BY <1>2, <1>3
<1> QED BY <1>7, <1>8 DEF p

\* One message less.
LEMMA OneMessageLess ==
    ASSUME NEW q \in Seq(Mic!Messages), q # <<>>, NEW c, NEW f, NEW v, Mic!SaysLast(q, c, f, v)
    PROVE  /\ Mic!SaysLast(Tail(q), c, f, v)
           /\ Mic!Tells(Tail(q), c, f) = {} /\ Head(q).ch = c =>
                IF f \in DOMAIN Head(q).says THEN Head(q).says[f] = v ELSE Mic!Tells(q, c, f) = {}
           /\ Mic!Tells(Tail(q), c, f) = {} /\ Head(q).ch # c => Mic!Tells(q, c, f) = {}
<1> DEFINE t == Tail(q)
<1>1. /\ Len(t) = Len(q) - 1 /\ Head(q) = q[1] /\ Len(q) \in Nat /\ Len(q) > 0
      /\ \A i \in 1..Len(t) : t[i] = q[i + 1]
  BY HeadTailProperties, LenProperties, EmptySeq
<1> HIDE DEF t
<1>2. \A i \in Mic!Tells(t, c, f) : i \in Int /\ i + 1 \in Mic!Tells(q, c, f) /\ t[i] = q[i + 1]
  <2> SUFFICES ASSUME NEW i \in Mic!Tells(t, c, f)
               PROVE  i \in Int /\ i + 1 \in Mic!Tells(q, c, f) /\ t[i] = q[i + 1]
    OBVIOUS
  <2>1. i \in 1..Len(t) /\ i + 1 \in 1..Len(q) /\ t[i] = q[i + 1]
    BY <1>1 DEF Mic!Tells
  <2> QED BY <2>1 DEF Mic!Tells
<1>3. \A j \in Mic!Tells(q, c, f) : j \in Int /\ (j # 1 => j - 1 \in Mic!Tells(t, c, f))
  <2> SUFFICES ASSUME NEW j \in Mic!Tells(q, c, f)
               PROVE  j \in Int /\ (j # 1 => j - 1 \in Mic!Tells(t, c, f))
    OBVIOUS
  <2>1. j \in 1..Len(q) /\ q[j].ch = c /\ f \in DOMAIN q[j].says
    BY DEF Mic!Tells
  <2>2. ASSUME j # 1 PROVE j - 1 \in 1..Len(t) /\ t[j - 1] = q[j]
    <3>1. j - 1 \in 1..Len(t) /\ (j - 1) + 1 = j
      BY <1>1, <2>1, <2>2
    <3>2. t[j - 1] = q[(j - 1) + 1]
      BY <1>1, <3>1
    <3> QED BY <3>1, <3>2
  <2> QED BY <2>1, <2>2 DEF Mic!Tells
<1>4. ASSUME NEW i \in Mic!Tells(t, c, f), \A j \in Mic!Tells(t, c, f) : j <= i
      PROVE  t[i].says[f] = v
  <2>1. \A j \in Mic!Tells(q, c, f) : j <= i + 1
    <3> SUFFICES ASSUME NEW j \in Mic!Tells(q, c, f) PROVE j <= i + 1
      OBVIOUS
    <3>1. j = 1 \/ j - 1 <= i
      BY <1>3, <1>4
    <3>2. i >= 1 /\ i \in Int
      BY <1>1 DEF Mic!Tells
    <3> QED BY <1>3, <3>1, <3>2
  <2> QED BY <1>2, <2>1 DEF Mic!SaysLast
<1>5. ASSUME Mic!Tells(t, c, f) = {}
      PROVE  \A j \in Mic!Tells(q, c, f) : j = 1
  BY <1>3, <1>5
<1>6. Mic!Tells(t, c, f) = {} /\ Head(q).ch = c /\ f \in DOMAIN Head(q).says => Head(q).says[f] = v
  <2> SUFFICES ASSUME Mic!Tells(t, c, f) = {}, Head(q).ch = c, f \in DOMAIN Head(q).says
               PROVE  Head(q).says[f] = v
    OBVIOUS
  <2>1. 1 \in Mic!Tells(q, c, f)
    BY <1>1 DEF Mic!Tells
  <2> QED BY <1>1, <1>5, <2>1 DEF Mic!SaysLast
<1>7. Mic!Tells(t, c, f) = {} /\ ~(Head(q).ch = c /\ f \in DOMAIN Head(q).says) => Mic!Tells(q, c, f) = {}
  <2> SUFFICES ASSUME Mic!Tells(t, c, f) = {}, ~(q[1].ch = c /\ f \in DOMAIN q[1].says),
                      NEW j \in Mic!Tells(q, c, f)
               PROVE  FALSE
    BY <1>1
  <2>1. j = 1
    BY <1>5
  <2> QED BY <2>1 DEF Mic!Tells
<1>8. Mic!SaysLast(t, c, f, v)
  BY <1>4 DEF Mic!SaysLast
<1> QED BY <1>6, <1>7, <1>8 DEF t

LEMMA MicInit == Mic!Init => Mic!MicInv
<1> SUFFICES ASSUME Mic!Init PROVE Mic!MicInv
  OBVIOUS
<1>1. PICK l \in MicLevels : v2 = [c \in Receivers |-> [f \in Mic!Fields |-> l]]
  BY DEF Mic!Init
<1>2. Mic!MicTypes
  BY <1>1 DEF Mic!Init, Mic!MicTypes
<1> QED BY <1>2 DEF Mic!Init, Mic!MicInv

\* What the receiver says, and changes as it says it.
LEMMA MicSays ==
    ASSUME Mic!MicInv, Mic!MicTypes', v4 = "up", UNCHANGED <<v1, v4, v7, v9>>,
           NEW t \in Seq(Mic!Messages), v6' = v6 \o t,
           \A i \in 1..Len(t) : \A f \in DOMAIN t[i].says : t[i].says[f] = v2'[t[i].ch][f],
           \A c \in v3', f \in Mic!Fields :
               \/ c \in v3 /\ v2'[c][f] = v2[c][f]
               \/ Mic!Tells(t, c, f) # {}
    PROVE  Mic!MicInv'
<1>1. v6 \in Seq(Mic!Messages)
  BY DEF Mic!MicInv, Mic!MicTypes
<1>2. ASSUME NEW c \in v3', NEW f \in Mic!Fields
      PROVE  /\ Mic!SaysLast(v6', c, f, v2'[c][f])
             /\ Mic!Tells(v6', c, f) = {} /\ f \in v9'[c] => Mic!Right(c, f)'
  <2>1. \A i \in Mic!Tells(t, c, f) : t[i].says[f] = v2'[c][f]
    BY DEF Mic!Tells
  <2>2. Mic!Tells(t, c, f) # {} \/ Mic!SaysLast(v6, c, f, v2'[c][f])
    BY DEF Mic!MicInv
  <2>3. /\ Mic!SaysLast(v6', c, f, v2'[c][f])
        /\ Mic!Tells(v6', c, f) = {} => Mic!Tells(v6, c, f) = {} /\ Mic!Tells(t, c, f) = {}
    BY <1>1, <2>1, <2>2, MoreSaid
  <2>4. Mic!Tells(v6', c, f) = {} /\ f \in v9'[c] => Mic!Right(c, f)'
    BY <2>3 DEF Mic!MicInv, Mic!Right
  <2> QED BY <2>3, <2>4
<1> QED BY <1>2 DEF Mic!MicInv

\* A change at a receiver is told after all that was told before.
LEMMA MicChange == Mic!MicInv /\ Mic!Change => Mic!MicInv'
<1> SUFFICES ASSUME Mic!MicInv, Mic!Change PROVE Mic!MicInv'
  OBVIOUS
<1>1. PICK c \in Receivers, f \in Mic!Fields, v \in MicLevels :
          /\ v2' = [v2 EXCEPT ![c][f] = v]
          /\ v6' = IF c \in v3 THEN Append(v6, [ch |-> c, says |-> [g \in {f} |-> v]]) ELSE v6
  BY DEF Mic!Change
<1> DEFINE m == [ch |-> c, says |-> [g \in {f} |-> v]]
<1>2. /\ v4 = "up" /\ UNCHANGED <<v1, v3, v4, v5, v7, v9>>
      /\ v2 \in [Receivers -> [Mic!Fields -> MicLevels]] /\ v6 \in Seq(Mic!Messages)
  BY DEF Mic!Change, Mic!MicInv, Mic!MicTypes
<1>3. /\ v2' \in [Receivers -> [Mic!Fields -> MicLevels]]
      /\ v2'[c][f] = v
      /\ \A d \in Receivers, g \in Mic!Fields : d # c \/ g # f => v2'[d][g] = v2[d][g]
  BY <1>1, <1>2
<1>4. m \in Mic!Messages /\ m.ch = c /\ DOMAIN m.says = {f} /\ m.says[f] = v
  BY MadeMessages
<1> HIDE DEF m
<1>5. CASE c \in v3
  <2>1. v6' = v6 \o <<m>> /\ <<m>> \in Seq(Mic!Messages) /\ v6' \in Seq(Mic!Messages)
    BY <1>1, <1>2, <1>4, <1>5, AppendIsConcat, AppendProperties DEF m
  <2>2. Mic!MicTypes'
    BY <1>2, <1>3, <2>1 DEF Mic!MicInv, Mic!MicTypes
  <2>3. 1 \in Mic!Tells(<<m>>, c, f)
    BY <1>4 DEF Mic!Tells
  <2>4. \A i \in 1..Len(<<m>>) : <<m>>[i] = m
    OBVIOUS
  <2>5. \A d \in v3', g \in Mic!Fields :
            (d \in v3 /\ v2'[d][g] = v2[d][g]) \/ Mic!Tells(<<m>>, d, g) # {}
    BY <1>2, <1>3, <2>3 DEF Mic!MicInv, Mic!MicTypes
  <2>6. \A i \in 1..Len(<<m>>) : \A g \in DOMAIN <<m>>[i].says : <<m>>[i].says[g] = v2'[<<m>>[i].ch][g]
    BY <1>3, <1>4, <2>4
  <2> QED BY <1>2, <2>1, <2>2, <2>5, <2>6, MicSays
<1>6. CASE c \notin v3
  <2>1. v6' = v6 \o <<>> /\ <<>> \in Seq(Mic!Messages)
    BY <1>1, <1>2, <1>6, ConcatEmptySeq
  <2>2. Mic!MicTypes'
    BY <1>1, <1>2, <1>3, <1>6 DEF Mic!MicInv, Mic!MicTypes
  <2>3. \A d \in v3', g \in Mic!Fields : d \in v3 /\ v2'[d][g] = v2[d][g]
    BY <1>2, <1>3, <1>6 DEF Mic!MicInv, Mic!MicTypes
  <2>4. \A i \in 1..Len(<<>>) : \A g \in DOMAIN <<>>[i].says : <<>>[i].says[g] = v2'[<<>>[i].ch][g]
    OBVIOUS
  <2> QED BY <1>2, <2>1, <2>2, <2>3, <2>4, MicSays
<1> QED BY <1>5, <1>6

\* A dump tells of every field of the channel what the receiver has.
LEMMA DumpTellsAll ==
    ASSUME v2 \in [Receivers -> [Mic!Fields -> MicLevels]], NEW c \in Receivers
    PROVE  /\ Mic!Dump(c) \in Seq(Mic!Messages)
           /\ \A i \in 1..Len(Mic!Dump(c)) :
                  /\ Mic!Dump(c)[i].ch = c
                  /\ \A f \in DOMAIN Mic!Dump(c)[i].says : Mic!Dump(c)[i].says[f] = v2[c][f]
           /\ \A f \in Mic!Fields : Mic!Tells(Mic!Dump(c), c, f) # {}
<1>1. ASSUME NEW S \in SUBSET Mic!Fields
      PROVE  /\ Mic!Message(c, S) \in Mic!Messages /\ Mic!Message(c, S).ch = c
             /\ DOMAIN Mic!Message(c, S).says = S
             /\ \A f \in S : Mic!Message(c, S).says[f] = v2[c][f]
  <2>1. [f \in S |-> v2[c][f]] \in [S -> MicLevels]
    OBVIOUS
  <2> QED BY <2>1, MadeMessages DEF Mic!Message
<1>2. CASE v1 = "shure"
  <2> DEFINE a == Mic!Message(c, {"charge"})  b == Mic!Message(c, {"runtime"})
             d == Mic!Message(c, {"muted"})
  <2>1. Mic!Dump(c) = <<a, b, d>>
    BY <1>2 DEF Mic!Dump
  <2>2. /\ a \in Mic!Messages /\ a.ch = c /\ DOMAIN a.says = {"charge"} /\ a.says["charge"] = v2[c]["charge"]
        /\ b \in Mic!Messages /\ b.ch = c /\ DOMAIN b.says = {"runtime"} /\ b.says["runtime"] = v2[c]["runtime"]
        /\ d \in Mic!Messages /\ d.ch = c /\ DOMAIN d.says = {"muted"} /\ d.says["muted"] = v2[c]["muted"]
    BY <1>1 DEF Mic!Fields
  <2> HIDE DEF a, b, d
  <2>3. <<a, b, d>> \in Seq(Mic!Messages) /\ Len(<<a, b, d>>) = 3
    BY <2>2
  <2>4. \A i \in 1..3 : <<a, b, d>>[i] \in {a, b, d}
    OBVIOUS
  <2>5. \A i \in 1..3 : /\ <<a, b, d>>[i].ch = c
                        /\ \A f \in DOMAIN <<a, b, d>>[i].says : <<a, b, d>>[i].says[f] = v2[c][f]
    BY <2>2, <2>4
  <2>6. ASSUME NEW f \in Mic!Fields PROVE Mic!Tells(<<a, b, d>>, c, f) # {}
    <3>1. f = "charge" => 1 \in Mic!Tells(<<a, b, d>>, c, f)
      BY <2>2 DEF Mic!Tells
    <3>2. f = "runtime" => 2 \in Mic!Tells(<<a, b, d>>, c, f)
      BY <2>2 DEF Mic!Tells
    <3>3. f = "muted" => 3 \in Mic!Tells(<<a, b, d>>, c, f)
      BY <2>2 DEF Mic!Tells
    <3> QED BY <3>1, <3>2, <3>3 DEF Mic!Fields
  <2> QED BY <2>1, <2>3, <2>5, <2>6
<1>3. CASE v1 # "shure"
  <2> DEFINE m == Mic!Message(c, Mic!Fields)
  <2>1. Mic!Dump(c) = <<m>>
    BY <1>3 DEF Mic!Dump
  <2>2. m \in Mic!Messages /\ m.ch = c /\ DOMAIN m.says = Mic!Fields /\ \A f \in Mic!Fields : m.says[f] = v2[c][f]
    BY <1>1
  <2> HIDE DEF m
  <2>3. \A f \in Mic!Fields : 1 \in Mic!Tells(<<m>>, c, f)
    BY <2>2 DEF Mic!Tells
  <2>4. <<m>> \in Seq(Mic!Messages) /\ Len(<<m>>) = 1 /\ \A i \in 1..1 : <<m>>[i] = m
    BY <2>2
  <2> QED BY <2>1, <2>2, <2>3, <2>4
<1> QED BY <1>2, <1>3

\* A request the receiver takes is answered with what it has then.
LEMMA MicTaken == Mic!MicInv /\ Mic!Taken => Mic!MicInv'
<1> SUFFICES ASSUME Mic!MicInv, Mic!Taken PROVE Mic!MicInv'
  OBVIOUS
<1> DEFINE q == Head(v5)
<1>1. /\ v5 # <<>> /\ v5' = Tail(v5) /\ v4 = "up" /\ UNCHANGED <<v1, v4, v7, v9>>
      /\ v5 \in Seq(Mic!Requests) /\ v6 \in Seq(Mic!Messages)
      /\ v2 \in [Receivers -> [Mic!Fields -> MicLevels]] /\ v3 \subseteq Receivers
  BY DEF Mic!Taken, Mic!MicInv, Mic!MicTypes
<1>2. q \in Mic!Requests /\ v5' \in Seq(Mic!Requests)
  BY <1>1, HeadTailProperties
<1>3. q.ch \in Receivers /\ (q.op = "mute" => q.v \in MicLevels)
  BY <1>2 DEF Mic!Requests
<1> DEFINE d == Mic!Dump(q.ch)
           m == [ch |-> q.ch, says |-> [g \in {"muted"} |-> q.v]]
<1>4. \/ q.op = "get" /\ v6' = v6 \o d /\ v3' = v3 \cup {q.ch} /\ v2' = v2
      \/ q.op = "mute" /\ v2' = [v2 EXCEPT ![q.ch].muted = q.v] /\ v6' = Append(v6, m) /\ v3' = v3
  BY DEF Mic!Taken
<1> HIDE DEF q
<1>5. CASE q.op = "get" /\ v6' = v6 \o d /\ v3' = v3 \cup {q.ch} /\ v2' = v2
  <2>1. /\ d \in Seq(Mic!Messages)
        /\ \A i \in 1..Len(d) : d[i].ch = q.ch /\ \A f \in DOMAIN d[i].says : d[i].says[f] = v2[q.ch][f]
        /\ \A f \in Mic!Fields : Mic!Tells(d, q.ch, f) # {}
    BY <1>1, <1>3, DumpTellsAll
  <2> HIDE DEF d
  <2>2. v6' \in Seq(Mic!Messages)
    BY <1>1, <1>5, <2>1, ConcatProperties
  <2>3. Mic!MicTypes'
    BY <1>1, <1>2, <1>3, <1>5, <2>2 DEF Mic!MicInv, Mic!MicTypes
  <2>4. \A c \in v3', f \in Mic!Fields : (c \in v3 /\ v2'[c][f] = v2[c][f]) \/ Mic!Tells(d, c, f) # {}
    BY <1>5, <2>1
  <2>5. \A i \in 1..Len(d) : \A f \in DOMAIN d[i].says : d[i].says[f] = v2'[d[i].ch][f]
    BY <1>5, <2>1
  <2> QED BY <1>1, <1>5, <2>1, <2>3, <2>4, <2>5, MicSays
<1>6. CASE q.op = "mute" /\ v2' = [v2 EXCEPT ![q.ch].muted = q.v] /\ v6' = Append(v6, m) /\ v3' = v3
  <2>1. q.v \in MicLevels /\ "muted" \in Mic!Fields
    BY <1>3, <1>6 DEF Mic!Fields
  <2>2. m \in Mic!Messages /\ m.ch = q.ch /\ DOMAIN m.says = {"muted"} /\ m.says["muted"] = q.v
    BY <1>3, <2>1, MadeMessages
  <2> HIDE DEF m
  <2>3. /\ v2' \in [Receivers -> [Mic!Fields -> MicLevels]]
        /\ v2'[q.ch]["muted"] = q.v
        /\ \A c \in Receivers, g \in Mic!Fields : c # q.ch \/ g # "muted" => v2'[c][g] = v2[c][g]
    BY <1>1, <1>3, <1>6, <2>1
  <2>4. v6' = v6 \o <<m>> /\ <<m>> \in Seq(Mic!Messages) /\ v6' \in Seq(Mic!Messages)
    BY <1>1, <1>6, <2>2, AppendIsConcat, AppendProperties
  <2>5. Mic!MicTypes'
    BY <1>1, <1>2, <1>6, <2>3, <2>4 DEF Mic!MicInv, Mic!MicTypes
  <2>6. 1 \in Mic!Tells(<<m>>, q.ch, "muted") /\ \A i \in 1..Len(<<m>>) : <<m>>[i] = m
    BY <2>2 DEF Mic!Tells
  <2>7. \A c \in v3', g \in Mic!Fields :
            (c \in v3 /\ v2'[c][g] = v2[c][g]) \/ Mic!Tells(<<m>>, c, g) # {}
    BY <1>1, <1>6, <2>3, <2>6
  <2>8. \A i \in 1..Len(<<m>>) : \A g \in DOMAIN <<m>>[i].says : <<m>>[i].says[g] = v2'[<<m>>[i].ch][g]
    BY <2>2, <2>3, <2>6
  <2> QED BY <1>1, <2>4, <2>5, <2>7, <2>8, MicSays
<1> QED BY <1>4, <1>5, <1>6

\* A message missed: what was heard before it counts no more.
LEMMA MicLoseMessage == Mic!MicInv /\ Mic!LoseMessage => Mic!MicInv'
<1> SUFFICES ASSUME Mic!MicInv, Mic!LoseMessage PROVE Mic!MicInv'
  OBVIOUS
<1>1. /\ v6 # <<>> /\ v6' = Tail(v6) /\ v9' = [v9 EXCEPT ![Head(v6).ch] = {}]
      /\ UNCHANGED <<v1, v2, v3, v4, v5, v7>> /\ v6 \in Seq(Mic!Messages)
      /\ v9 \in [Receivers -> SUBSET Mic!Fields] /\ v3 \subseteq Receivers
  BY DEF Mic!LoseMessage, Mic!MicInv, Mic!MicTypes
<1>2. Head(v6) \in Mic!Messages /\ v6' \in Seq(Mic!Messages)
  BY <1>1, HeadTailProperties
<1>3. /\ Head(v6).ch \in Receivers /\ v9' \in [Receivers -> SUBSET Mic!Fields]
      /\ v9'[Head(v6).ch] = {} /\ \A c \in Receivers : c # Head(v6).ch => v9'[c] = v9[c]
  BY <1>1, <1>2, MessagesAre
<1>4. Mic!MicTypes'
  BY <1>1, <1>2, <1>3 DEF Mic!MicInv, Mic!MicTypes
<1>5. ASSUME v4 = "up", NEW c \in v3, NEW f \in Mic!Fields
      PROVE  /\ Mic!SaysLast(v6', c, f, v2[c][f])
             /\ Mic!Tells(v6', c, f) = {} /\ f \in v9'[c] => Mic!Right(c, f)'
  <2>1. Mic!SaysLast(v6, c, f, v2[c][f]) /\ (Mic!Tells(v6, c, f) = {} /\ f \in v9[c] => Mic!Right(c, f))
    BY <1>5 DEF Mic!MicInv
  <2>2. /\ Mic!SaysLast(v6', c, f, v2[c][f])
        /\ Mic!Tells(v6', c, f) = {} /\ Head(v6).ch # c => Mic!Tells(v6, c, f) = {}
    BY <1>1, <2>1, OneMessageLess
  <2>3. Mic!Right(c, f)' <=> Mic!Right(c, f)
    BY <1>1 DEF Mic!Right
  <2> QED BY <1>1, <1>3, <2>1, <2>2, <2>3
<1>6. \A c \in Receivers : v9'[c] # {} => v7'[c] # None
  BY <1>1, <1>3 DEF Mic!MicInv
<1>7. v4' # "down"
  BY <1>1 DEF Mic!MicInv
<1> QED BY <1>1, <1>4, <1>5, <1>6, <1>7 DEF Mic!MicInv

\* A message is merged into the cache.
LEMMA MicReceive == Mic!NoneIsNoEntry /\ Mic!MicInv /\ Mic!ReceiveLoop => Mic!MicInv'
<1> SUFFICES ASSUME Mic!NoneIsNoEntry, Mic!MicInv, Mic!ReceiveLoop PROVE Mic!MicInv'
  OBVIOUS
<1> DEFINE m == Head(v6)
           before == IF v7[m.ch] = None THEN Mic!Empty ELSE v7[m.ch]
           entry == Mic!Merged(before, m.says)
<1>1. /\ v4 = "up" /\ v6 # <<>> /\ v6' = Tail(v6)
      /\ v7' = [v7 EXCEPT ![m.ch] = entry] /\ v9' = [v9 EXCEPT ![m.ch] = @ \cup DOMAIN m.says]
      /\ UNCHANGED <<v1, v2, v3, v4, v5>> /\ v6 \in Seq(Mic!Messages)
      /\ v9 \in [Receivers -> SUBSET Mic!Fields] /\ v3 \subseteq Receivers
      /\ v7 \in [Receivers -> Mic!Entries \cup {None}]
  BY DEF Mic!ReceiveLoop, Mic!MicInv, Mic!MicTypes
<1>2. m \in Mic!Messages /\ v6' \in Seq(Mic!Messages)
  BY <1>1, HeadTailProperties
<1>3. /\ m.ch \in Receivers /\ DOMAIN m.says \in SUBSET Mic!Fields
      /\ \A f \in DOMAIN m.says : m.says[f] \in MicLevels
  BY <1>2, MessagesAre
<1>4. before \in Mic!Entries
  BY <1>1, <1>3 DEF Mic!Entries, Mic!Empty
<1>5. entry \in Mic!Entries /\ entry # None
      /\ \A f \in Mic!Fields :
            entry[f] = IF f \in DOMAIN m.says THEN m.says[f]
                       ELSE IF v1 = "ewdx" /\ f \in Mic!Battery /\ DOMAIN m.says \cap Mic!Battery # {}
                       THEN None ELSE before[f]
  <2> HIDE DEF before, m
  <2>1. \A f \in Mic!Fields : before[f] \in MicLevels \cup {None, 1}
    BY <1>4 DEF Mic!Entries
  <2>2. Mic!Merged(before, m.says) \in [Mic!Fields -> MicLevels \cup {None, 1}]
    BY <1>3, <2>1 DEF Mic!Merged
  <2> QED BY <2>2 DEF Mic!Merged, Mic!Entries, Mic!NoneIsNoEntry
<1> HIDE DEF entry, before, m
<1>6. /\ v7' \in [Receivers -> Mic!Entries \cup {None}] /\ v7'[m.ch] = entry
      /\ v9' \in [Receivers -> SUBSET Mic!Fields] /\ v9'[m.ch] = v9[m.ch] \cup DOMAIN m.says
      /\ \A c \in Receivers : c # m.ch => v7'[c] = v7[c] /\ v9'[c] = v9[c]
  BY <1>1, <1>3, <1>5
<1>7. Mic!MicTypes'
  BY <1>1, <1>2, <1>6 DEF Mic!MicInv, Mic!MicTypes
<1>8. \A c \in Receivers : v9'[c] # {} => v7'[c] # None
  BY <1>5, <1>6 DEF Mic!MicInv
<1>9. ASSUME NEW c \in v3, NEW f \in Mic!Fields
      PROVE  /\ Mic!SaysLast(v6', c, f, v2[c][f])
             /\ Mic!Tells(v6', c, f) = {} /\ f \in v9'[c] => Mic!Right(c, f)'
  <2>1. Mic!SaysLast(v6, c, f, v2[c][f]) /\ (Mic!Tells(v6, c, f) = {} /\ f \in v9[c] => Mic!Right(c, f))
    BY <1>1 DEF Mic!MicInv
  <2>2. /\ Mic!SaysLast(v6', c, f, v2[c][f])
        /\ Mic!Tells(v6', c, f) = {} /\ m.ch = c =>
              IF f \in DOMAIN m.says THEN m.says[f] = v2[c][f] ELSE Mic!Tells(v6, c, f) = {}
        /\ Mic!Tells(v6', c, f) = {} /\ m.ch # c => Mic!Tells(v6, c, f) = {}
    BY <1>1, <2>1, OneMessageLess DEF m
  <2>3. Mic!Right(c, f)' <=> v7'[c][f] = v2[c][f] \/ (v1 = "ewdx" /\ f \in Mic!Battery /\ v7'[c][f] = None)
    BY <1>1 DEF Mic!Right
  <2>4. ASSUME Mic!Tells(v6', c, f) = {}, f \in v9'[c] PROVE Mic!Right(c, f)'
    <3>0. c \in Receivers
      BY <1>1
    <3>1. CASE m.ch # c
      BY <1>6, <2>1, <2>2, <2>3, <2>4, <3>0, <3>1 DEF Mic!Right
    <3>2. CASE m.ch = c /\ f \in DOMAIN m.says
      BY <1>5, <1>6, <2>2, <2>3, <2>4, <3>2
    <3>3. CASE m.ch = c /\ f \notin DOMAIN m.says
      <4>1. Mic!Right(c, f) /\ v9[c] # {}
        BY <1>6, <2>1, <2>2, <2>4, <3>3
      <4>2. before = v7[c]
        BY <3>0, <3>3, <4>1 DEF Mic!MicInv, before
      <4>3. entry[f] = v7[c][f] \/ (v1 = "ewdx" /\ f \in Mic!Battery /\ entry[f] = None)
        BY <1>5, <3>3, <4>2
      <4>4. v7'[c] = entry
        BY <1>6, <3>3
      <4> QED BY <2>3, <4>1, <4>3, <4>4 DEF Mic!Right
    <3> QED BY <3>1, <3>2, <3>3
  <2> QED BY <2>2, <2>4
<1> QED BY <1>1, <1>7, <1>8, <1>9 DEF Mic!MicInv

\* Steps that leave the receiver, its messages and the cache as they are.
LEMMA MicElsewhere ==
    ASSUME Mic!MicInv, UNCHANGED <<v1, v2, v3, v6, v7, v9>>, v4' = v4 \/ v4 = "down",
           v5' \in Seq(Mic!Requests)
    PROVE  Mic!MicInv'
<1>1. Mic!MicTypes'
  BY DEF Mic!MicInv, Mic!MicTypes
<1>2. ASSUME v4 = "down", NEW c \in v3, NEW f \in Mic!Fields
      PROVE  Mic!SaysLast(v6, c, f, v2[c][f]) /\ ~(f \in v9[c])
  <2>1. v6 = <<>> /\ Len(v6) = 0 /\ v9[c] = {}
    BY <1>2 DEF Mic!MicInv, Mic!MicTypes
  <2> QED BY <2>1 DEF Mic!SaysLast, Mic!Tells
<1>3. \A c, f : Mic!Right(c, f)' <=> Mic!Right(c, f)
  BY DEF Mic!Right
<1>4. ASSUME v4' = "up", NEW c \in v3, NEW f \in Mic!Fields
      PROVE  /\ Mic!SaysLast(v6, c, f, v2[c][f])
             /\ Mic!Tells(v6, c, f) = {} /\ f \in v9[c] => Mic!Right(c, f)'
  BY <1>2, <1>3, <1>4 DEF Mic!MicInv
<1> QED BY <1>1, <1>4 DEF Mic!MicInv

\* Every step of the receiver, the link and the adapter keeps MicInv.
LEMMA MicStep == Mic!NoneIsNoEntry /\ Mic!MicInv /\ [Mic!Next]_(Mic!vars) => Mic!MicInv'
<1> SUFFICES ASSUME Mic!NoneIsNoEntry, Mic!MicInv, [Mic!Next]_(Mic!vars) PROVE Mic!MicInv'
  OBVIOUS
<1>0. v5 \in Seq(Mic!Requests)
  BY DEF Mic!MicInv, Mic!MicTypes
<1>1. CASE UNCHANGED Mic!vars
  BY <1>0, <1>1, MicElsewhere DEF Mic!vars
<1>2. CASE Mic!LoseRequest
  <2>1. v5' \in Seq(Mic!Requests)
    BY <1>0, <1>2, HeadTailProperties DEF Mic!LoseRequest
  <2> QED BY <1>2, <2>1, MicElsewhere DEF Mic!LoseRequest
<1>3. CASE Mic!Lapse
  BY <1>3 DEF Mic!Lapse, Mic!MicInv, Mic!MicTypes
<1>4. CASE Mic!Connect
  BY <1>0, <1>4, MicElsewhere DEF Mic!Connect
<1>5. CASE Mic!Closed
  BY <1>5 DEF Mic!Closed, Mic!MicInv, Mic!MicTypes
<1>6. ASSUME NEW c \in Receivers, Mic!GetState(c) \/ Mic!Found(c) \/ Mic!NotFound(c) \/ Mic!SetMute(c)
      PROVE  Mic!MicInv'
  <2>1. v5' \in Seq(Mic!Requests)
    <3>1. [op |-> "get", ch |-> c] \in Mic!Requests
          /\ \A v \in MicLevels : [op |-> "mute", ch |-> c, v |-> v] \in Mic!Requests
      BY DEF Mic!Requests
    <3>2. v5' = v5 \/ \E q \in Mic!Requests : v5' = Append(v5, q)
      <4>1. CASE Mic!GetState(c)  BY <3>1, <4>1 DEF Mic!GetState
      <4>2. CASE Mic!SetMute(c)  BY <3>1, <4>2 DEF Mic!SetMute
      <4> QED BY <1>6, <4>1, <4>2 DEF Mic!Found, Mic!NotFound
    <3> QED BY <1>0, <3>2, AppendProperties
  <2> QED BY <1>6, <2>1, MicElsewhere DEF Mic!GetState, Mic!Found, Mic!NotFound, Mic!SetMute
<1> QED
  BY <1>1, <1>2, <1>3, <1>4, <1>5, <1>6, MicChange, MicTaken, MicLoseMessage, MicReceive DEF Mic!Next

LEMMA MicInvEnough == Mic!MicInv => Mic!HeardIsTrue
<1> SUFFICES ASSUME Mic!MicInv, v4 = "up", v6 = <<>>, NEW c \in v3, NEW f \in v9[c]
             PROVE  Mic!Right(c, f)
  BY DEF Mic!HeardIsTrue, Mic!Right
<1>1. f \in Mic!Fields /\ Len(v6) = 0
  BY DEF Mic!MicInv, Mic!MicTypes
<1>2. Mic!Tells(v6, c, f) = {}
  BY <1>1 DEF Mic!Tells
<1> QED BY <1>1, <1>2 DEF Mic!MicInv

-----------------------------------------------------------------------------
(* That the reading after an acquisition is never shown.                   *)

\* The functions of AcnLink on datagrams of one PDU or two.
Inherits(p, f) ==
    f = [i \in 0..Len(p) |-> IF i = 0 THEN None ELSE IF p[i].vector # None THEN p[i].vector ELSE f[i - 1]]

\* The vectors of a datagram of one or two PDUs: a PDU without one has the vector of the PDU before it.
LEMMA VectorsOfTwo ==
    ASSUME NEW p, Len(p) \in {1, 2}
    PROVE  \E f : /\ Inherits(p, f) /\ Acn!Vectors(p) = [i \in DOMAIN p |-> f[i]]
                  /\ f[1] = p[1].vector
                  /\ Len(p) = 2 => f[2] = IF p[2].vector # None THEN p[2].vector ELSE p[1].vector
<1> DEFINE one == IF p[1].vector # None THEN p[1].vector ELSE None
           two == IF p[2].vector # None THEN p[2].vector ELSE one
           g == [i \in 0..Len(p) |-> IF i = 0 THEN None ELSE IF i = 1 THEN one ELSE two]
           f == CHOOSE f : Inherits(p, f)
<1>1. Len(p) \in Int /\ \A i \in 0..Len(p) : i = 0 \/ i = 1 \/ (i = 2 /\ Len(p) = 2)
  <2>1. CASE Len(p) = 1
    <3>1. \A i \in 0..1 : i = 0 \/ i = 1
      OBVIOUS
    <3> QED BY <2>1, <3>1
  <2>2. CASE Len(p) = 2
    <3>1. \A i \in 0..2 : i = 0 \/ i = 1 \/ i = 2
      OBVIOUS
    <3> QED BY <2>2, <3>1
  <2> QED BY <2>1, <2>2
<1>2. g[0] = None /\ g[1] = one /\ (Len(p) = 2 => g[2] = two)
  BY <1>1
<1>3. \A i \in 0..Len(p) :
          g[i] = IF i = 0 THEN None ELSE IF p[i].vector # None THEN p[i].vector ELSE g[i - 1]
  BY <1>1, <1>2
<1>4. Inherits(p, g)
  <2>1. g = [i \in 0..Len(p) |-> g[i]]
    OBVIOUS
  <2> HIDE DEF g
  <2> QED BY <1>3, <2>1 DEF Inherits
<1>5. Inherits(p, f)
  <2> HIDE DEF g
  <2> QED BY <1>4
<1>6. Acn!Vectors(p) = [i \in DOMAIN p |-> f[i]]
  BY DEF Acn!Vectors, Inherits
<1> HIDE DEF f, g
<1>7. \A i \in 0..Len(p) :
          f[i] = IF i = 0 THEN None ELSE IF p[i].vector # None THEN p[i].vector ELSE f[i - 1]
  BY <1>5 DEF Inherits
<1>8. f[0] = None /\ 1 \in 0..Len(p) /\ 1 - 1 = 0 /\ 2 - 1 = 1 /\ (Len(p) = 2 => 2 \in 0..Len(p))
  BY <1>1, <1>7
<1>9. f[1] = p[1].vector
  BY <1>7, <1>8
<1>10. Len(p) = 2 => f[2] = IF p[2].vector # None THEN p[2].vector ELSE p[1].vector
  BY <1>7, <1>8, <1>9
<1> QED BY <1>5, <1>6, <1>9, <1>10

IsReports(p, f, g) ==
    g = [i \in 0..Len(p) |-> IF i = 0 THEN <<>>
                              ELSE IF [j \in DOMAIN p |-> f[j]][i] = "event" THEN Append(g[i - 1], p[i]) ELSE g[i - 1]]

\* The PDUs that report, of one and of two.
LEMMA ReportsOfTwo ==
    ASSUME NEW p, DOMAIN p = 1..Len(p), Len(p) \in {1, 2}
    PROVE  LET first == p[1].vector
               second == IF p[2].vector # None THEN p[2].vector ELSE p[1].vector
               begun == IF first = "event" THEN <<p[1]>> ELSE <<>>
           IN Acn!Reports(p) = IF Len(p) = 2 /\ second = "event" THEN Append(begun, p[2]) ELSE begun
<1> DEFINE first == p[1].vector
           second == IF p[2].vector # None THEN p[2].vector ELSE p[1].vector
           begun == IF first = "event" THEN <<p[1]>> ELSE <<>>
           both == IF second = "event" THEN Append(begun, p[2]) ELSE begun
<1>1. PICK f : /\ Acn!Vectors(p) = [i \in DOMAIN p |-> f[i]]
               /\ f[1] = first /\ (Len(p) = 2 => f[2] = second)
  <2>1. \E f : /\ Inherits(p, f) /\ Acn!Vectors(p) = [i \in DOMAIN p |-> f[i]]
               /\ f[1] = first /\ (Len(p) = 2 => f[2] = second)
    BY ONLY VectorsOfTwo, Len(p) \in {1, 2}
  <2> HIDE DEF first, second
  <2> QED BY <2>1
<1> HIDE DEF first, second
<1> DEFINE g == [i \in 0..Len(p) |-> IF i = 0 THEN <<>> ELSE IF i = 1 THEN begun ELSE both]
           h == CHOOSE h : IsReports(p, f, h)
<1>2. /\ Len(p) \in Int /\ \A i \in 0..Len(p) : i = 0 \/ i = 1 \/ (i = 2 /\ Len(p) = 2)
      /\ 1 \in 1..Len(p) /\ (Len(p) = 2 => 2 \in 1..Len(p))
  <2>1. CASE Len(p) = 1
    <3>1. \A i \in 0..1 : i = 0 \/ i = 1
      OBVIOUS
    <3> QED BY <2>1, <3>1
  <2>2. CASE Len(p) = 2
    <3>1. \A i \in 0..2 : i = 0 \/ i = 1 \/ i = 2
      OBVIOUS
    <3> QED BY <2>2, <3>1
  <2> QED BY <2>1, <2>2
<1> DEFINE of == [j \in DOMAIN p |-> f[j]]
<1>3. of[1] = first /\ (Len(p) = 2 => of[2] = second)
  BY <1>1, <1>2
<1>4. g[0] = <<>> /\ g[1] = begun /\ (Len(p) = 2 => g[2] = both) /\ begun = IF first = "event" THEN Append(<<>>, p[1]) ELSE <<>>
  BY <1>2
<1> HIDE DEF of, begun
<1>5. \A i \in 0..Len(p) :
          g[i] = IF i = 0 THEN <<>> ELSE IF of[i] = "event" THEN Append(g[i - 1], p[i]) ELSE g[i - 1]
  <2> HIDE DEF g
  <2>1. 1 - 1 = 0 /\ 2 - 1 = 1
    OBVIOUS
  <2> QED BY <1>2, <1>3, <1>4, <2>1
<1>6. IsReports(p, f, g)
  <2>1. g = [i \in 0..Len(p) |-> g[i]]
    OBVIOUS
  <2> HIDE DEF g
  <2> QED BY <1>5, <2>1 DEF IsReports, of
<1>7. IsReports(p, f, h)
  <2> HIDE DEF g
  <2> QED BY <1>6
<1>8. Acn!Reports(p) = h[Len(p)]
  BY <1>1 DEF Acn!Reports, IsReports
<1> HIDE DEF h, g
<1>9. \A i \in 0..Len(p) :
          h[i] = IF i = 0 THEN <<>> ELSE IF of[i] = "event" THEN Append(h[i - 1], p[i]) ELSE h[i - 1]
  BY <1>7 DEF IsReports, of
<1>10. h[0] = <<>> /\ 1 \in 0..Len(p) /\ 1 - 1 = 0 /\ 2 - 1 = 1 /\ (Len(p) = 2 => 2 \in 0..Len(p))
  BY <1>2, <1>9
<1>11. h[1] = begun
  <2>1. h[1] = IF of[1] = "event" THEN Append(h[1 - 1], p[1]) ELSE h[1 - 1]
    BY <1>9, <1>10
  <2> QED BY <1>3, <1>4, <1>10, <2>1
<1>12. Len(p) = 2 => h[2] = both
  <2>1. ASSUME Len(p) = 2 PROVE h[2] = IF of[2] = "event" THEN Append(h[2 - 1], p[2]) ELSE h[2 - 1]
    BY <1>9, <1>10, <2>1
  <2>2. Len(p) = 2 => h[2] = IF second = "event" THEN Append(begun, p[2]) ELSE begun
    BY <1>3, <1>10, <1>11, <2>1
  <2> QED BY <2>2
<1> QED BY <1>2, <1>8, <1>11, <1>12 DEF first, second, begun

Applying(o, r, f) == f = [i \in 0..Len(r) |-> IF i = 0 THEN o ELSE Acn!Applied(f[i - 1], r[i])]

\* One report or two, applied.
LEMMA AfterTwo ==
    ASSUME NEW o, NEW r, Len(r) \in {1, 2}
    PROVE  LET one == Acn!Applied(o, r[1])
           IN Acn!After(o, r) = IF Len(r) = 2 THEN Acn!Applied(one, r[2]) ELSE one
<1> DEFINE one == Acn!Applied(o, r[1])
           two == Acn!Applied(one, r[2])
           g == [i \in 0..Len(r) |-> IF i = 0 THEN o ELSE IF i = 1 THEN one ELSE two]
           h == CHOOSE h : Applying(o, r, h)
<1>1. Len(r) \in Int /\ \A i \in 0..Len(r) : i = 0 \/ i = 1 \/ (i = 2 /\ Len(r) = 2)
  <2>1. CASE Len(r) = 1
    <3>1. \A i \in 0..1 : i = 0 \/ i = 1
      OBVIOUS
    <3> QED BY <2>1, <3>1
  <2>2. CASE Len(r) = 2
    <3>1. \A i \in 0..2 : i = 0 \/ i = 1 \/ i = 2
      OBVIOUS
    <3> QED BY <2>2, <3>1
  <2> QED BY <2>1, <2>2
<1>2. g[0] = o /\ g[1] = one /\ (Len(r) = 2 => g[2] = two)
  <2> HIDE DEF one, two
  <2> QED BY <1>1
<1>3. \A i \in 0..Len(r) : g[i] = IF i = 0 THEN o ELSE Acn!Applied(g[i - 1], r[i])
  <2> HIDE DEF g
  <2>1. 1 - 1 = 0 /\ 2 - 1 = 1
    OBVIOUS
  <2> QED BY <1>1, <1>2, <2>1
<1>4. Applying(o, r, g)
  <2>1. g = [i \in 0..Len(r) |-> g[i]]
    OBVIOUS
  <2> HIDE DEF g
  <2> QED BY <1>3, <2>1 DEF Applying
<1>5. Applying(o, r, h)
  <2> HIDE DEF g
  <2> QED BY <1>4
<1>6. Acn!After(o, r) = h[Len(r)]
  BY DEF Acn!After, Applying
<1> HIDE DEF h, g
<1>7. \A i \in 0..Len(r) : h[i] = IF i = 0 THEN o ELSE Acn!Applied(h[i - 1], r[i])
  BY <1>5 DEF Applying
<1>8. h[0] = o /\ 1 \in 0..Len(r) /\ 1 - 1 = 0 /\ 2 - 1 = 1 /\ (Len(r) = 2 => 2 \in 0..Len(r))
  <2> HIDE DEF one, two
  <2>1. 0 \in 0..Len(r) /\ 1 \in 0..Len(r) /\ (Len(r) = 2 => 2 \in 0..Len(r))
    OBVIOUS
  <2> QED BY <1>7, <2>1
<1>9. h[1] = one
  BY <1>7, <1>8
<1>10. Len(r) = 2 => h[2] = two
  BY <1>7, <1>8, <1>9
<1> QED BY <1>1, <1>6, <1>9, <1>10

\* Appending to a sequence of one makes a sequence of two.
LEMMA TwoInARow == ASSUME NEW x, NEW y PROVE Append(<<x>>, y) = <<x, y>>
<1> DEFINE s == <<x>>  a == Append(s, y)  b == <<x, y>>  S == {x, y}
<1>1. s \in Seq(S) /\ b \in Seq(S) /\ Len(s) = 1 /\ s[1] = x /\ Len(b) = 2 /\ b[1] = x /\ b[2] = y
  OBVIOUS
<1>2. y \in S
  OBVIOUS
<1> HIDE DEF s, b, S
<1>3. a \in Seq(S) /\ Len(a) = 2 /\ a[1] = x /\ a[2] = y
  BY <1>1, <1>2, AppendProperties
<1>4. \A i \in 1..2 : i = 1 \/ i = 2
  OBVIOUS
<1> HIDE DEF a
<1>5. a = b
  BY <1>1, <1>3, <1>4, SeqEqual
<1> QED BY <1>5 DEF a, b, s

\* What a PDU made by Pdu carries.
LEMMA PduIs ==
    ASSUME NEW vector, NEW prop, NEW v
    PROVE  /\ Acn!Pdu(vector, prop, v).vector = vector
           /\ Acn!Pdu(vector, prop, v).prop = prop
           /\ Acn!Pdu(vector, prop, v).v = v
  BY DEF Acn!Pdu

\* The receiver's bars, alone in a datagram.
LEMMA BarsHeard ==
    ASSUME NEW o \in Acn!Observations, NEW b \in {0, 1}, Acn!Apart
    PROVE  LET r == Acn!After(o, Acn!Reports(<<Acn!Pdu("event", "rf", b)>>))
           IN /\ r \in Acn!Observations /\ r.bars = b /\ r.battery = o.battery
              /\ r.suspect <=> o.suspect \/ (o.bars \in {None, 0} /\ b = 1)
<1> DEFINE x == Acn!Pdu("event", "rf", b)
<1>1. x.vector = "event" /\ x.prop = "rf" /\ x.v = b
  BY PduIs
<1> HIDE DEF x
<1> DEFINE p == <<x>>
<1>2. DOMAIN p = 1..Len(p) /\ Len(p) = 1 /\ p[1] = x
  OBVIOUS
<1>3. Acn!Reports(p) = p
  <2>1. <<p[1]>> = p
    OBVIOUS
  <2> HIDE DEF p
  <2>2. Len(p) \in {1, 2} /\ Len(p) # 2
    BY <1>2
  <2> QED BY <1>1, <1>2, <2>1, <2>2, ReportsOfTwo
<1>4. Acn!After(o, p) = Acn!Applied(o, x)
  <2> HIDE DEF p
  <2>2. Len(p) \in {1, 2} /\ Len(p) # 2
    BY <1>2
  <2> QED BY <1>2, <2>2, AfterTwo
<1>5. o.bars \in {None, 0, 1} /\ o.battery \in Bars \cup {None} /\ o.suspect \in BOOLEAN
      /\ o = [bars |-> o.bars, battery |-> o.battery, suspect |-> o.suspect]
  BY DEF Acn!Observations
<1>6. Acn!Applied(o, x) = [bars |-> b, battery |-> o.battery,
                           suspect |-> o.suspect \/ Acn!Acquired(o.bars, b)]
  BY <1>1, <1>5 DEF Acn!Applied
<1>7. Acn!Acquired(o.bars, b) <=> o.bars \in {None, 0} /\ b = 1
  BY DEF Acn!Acquired
<1> DEFINE r == Acn!After(o, Acn!Reports(p))
<1>8. r = [bars |-> b, battery |-> o.battery, suspect |-> o.suspect \/ Acn!Acquired(o.bars, b)]
  BY <1>3, <1>4, <1>6
<1> HIDE DEF r
<1>9. r \in Acn!Observations /\ r.bars = b /\ r.battery = o.battery
      /\ (r.suspect <=> o.suspect \/ Acn!Acquired(o.bars, b))
  BY <1>5, <1>7, <1>8 DEF Acn!Observations
<1> QED BY <1>7, <1>9 DEF r, p, x

\* What applying a battery reading makes of an observation.
LEMMA BatteryApplied ==
    ASSUME NEW x, x.prop = "battery", NEW b, NEW c, NEW s \in BOOLEAN
    PROVE  Acn!Applied([bars |-> b, battery |-> c, suspect |-> s], x) = [bars |-> b, battery |-> IF s THEN c ELSE x.v, suspect |-> FALSE]
  BY DEF Acn!Applied

\* A battery reading after the bars, whose vector it has inherited.
LEMMA BothHeard ==
    ASSUME NEW o \in Acn!Observations, NEW v, Acn!Apart
    PROVE  LET r == Acn!After(o, Acn!Reports(<<Acn!Pdu("event", "rf", 1), Acn!Pdu(None, "battery", v)>>))
               doubted == o.suspect \/ o.bars \in {None, 0}
           IN /\ r.bars = 1 /\ ~r.suspect /\ r.battery = IF doubted THEN o.battery ELSE v
              /\ doubted \/ v \in Bars => r \in Acn!Observations
<1> DEFINE x == Acn!Pdu("event", "rf", 1)
           y == Acn!Pdu(None, "battery", v)
<1>1. x.vector = "event" /\ x.prop = "rf" /\ x.v = 1 /\ y.vector = None /\ y.prop = "battery" /\ y.v = v
  BY PduIs
<1> HIDE DEF x, y
<1> DEFINE p == <<x, y>>
<1>2. DOMAIN p = 1..Len(p) /\ Len(p) = 2 /\ p[1] = x /\ p[2] = y
  OBVIOUS
<1>3. Acn!Reports(p) = p
  <2>1. Append(<<x>>, y) = p
    BY TwoInARow
  <2> HIDE DEF p
  <2>2. Len(p) \in {1, 2}
    BY <1>2
  <2> QED BY <1>1, <1>2, <2>1, <2>2, ReportsOfTwo
<1>4. Acn!After(o, p) = Acn!Applied(Acn!Applied(o, x), y)
  <2> HIDE DEF p
  <2>2. Len(p) \in {1, 2}
    BY <1>2
  <2> QED BY <1>2, <2>2, AfterTwo
<1>5. o.bars \in {None, 0, 1} /\ o.battery \in Bars \cup {None} /\ o.suspect \in BOOLEAN
      /\ o = [bars |-> o.bars, battery |-> o.battery, suspect |-> o.suspect]
  BY DEF Acn!Observations
<1> DEFINE doubted == o.suspect \/ o.bars \in {None, 0}
<1>6. Acn!Applied(o, x) = [bars |-> 1, battery |-> o.battery, suspect |-> doubted]
  <2>1. Acn!Acquired(o.bars, 1) <=> o.bars \in {None, 0}
    BY DEF Acn!Acquired
  <2>2. Acn!Applied(o, x) = [bars |-> 1, battery |-> o.battery, suspect |-> o.suspect \/ Acn!Acquired(o.bars, 1)]
    BY <1>1, <1>5 DEF Acn!Applied
  <2>3. (o.suspect \/ Acn!Acquired(o.bars, 1)) = doubted
    BY <1>5, <2>1
  <2> QED BY <2>2, <2>3
<1>7. doubted \in BOOLEAN
  BY <1>5
<1> HIDE DEF doubted
<1>8. Acn!Applied(Acn!Applied(o, x), y) = [bars |-> 1, battery |-> IF doubted THEN o.battery ELSE v, suspect |-> FALSE]
  <2>1. Acn!Applied([bars |-> 1, battery |-> o.battery, suspect |-> doubted], y)
          = [bars |-> 1, battery |-> IF doubted THEN o.battery ELSE v, suspect |-> FALSE]
    BY <1>1, <1>7, BatteryApplied
  <2> QED BY <1>6, <2>1
<1> DEFINE r == Acn!After(o, Acn!Reports(p))
<1>9. r = [bars |-> 1, battery |-> IF doubted THEN o.battery ELSE v, suspect |-> FALSE]
  BY <1>3, <1>4, <1>8
<1> HIDE DEF r
<1>10. /\ r.bars = 1 /\ ~r.suspect /\ r.battery = IF doubted THEN o.battery ELSE v
       /\ doubted \/ v \in Bars => r \in Acn!Observations
  BY <1>5, <1>9 DEF Acn!Observations
<1> QED BY <1>10 DEF r, p, x, y, doubted

\* A battery reading after another message.
LEMMA BatteryHeard ==
    ASSUME NEW o \in Acn!Observations, NEW v, Acn!Apart
    PROVE  LET r == Acn!After(o, Acn!Reports(<<Acn!Pdu("subscribe", "battery", None),
                                               Acn!Pdu("event", "battery", v)>>))
           IN /\ r.bars = o.bars /\ ~r.suspect /\ r.battery = IF o.suspect THEN o.battery ELSE v
              /\ o.suspect \/ v \in Bars => r \in Acn!Observations
<1> DEFINE x == Acn!Pdu("subscribe", "battery", None)
           y == Acn!Pdu("event", "battery", v)
<1>1. x.vector = "subscribe" /\ y.vector = "event" /\ y.prop = "battery" /\ y.v = v /\ "event" # None
      /\ "subscribe" # "event"
  BY PduIs DEF Acn!Apart
<1> HIDE DEF x, y
<1> DEFINE p == <<x, y>>  q == <<y>>
<1>2. /\ DOMAIN p = 1..Len(p) /\ Len(p) = 2 /\ p[1] = x /\ p[2] = y
      /\ Len(q) = 1 /\ q[1] = y
  OBVIOUS
<1>3. Acn!Reports(p) = q
  <2>1. Append(<<>>, y) = q
    OBVIOUS
  <2> HIDE DEF p, q
  <2>2. Len(p) \in {1, 2}
    BY <1>2
  <2> QED BY <1>1, <1>2, <2>1, <2>2, ReportsOfTwo
<1>4. Acn!After(o, q) = Acn!Applied(o, y)
  <2> HIDE DEF p, q
  <2>2. Len(q) \in {1, 2} /\ Len(q) # 2
    BY <1>2
  <2> QED BY <1>2, <2>2, AfterTwo
<1>5. o.bars \in {None, 0, 1} /\ o.battery \in Bars \cup {None} /\ o.suspect \in BOOLEAN
      /\ o = [bars |-> o.bars, battery |-> o.battery, suspect |-> o.suspect]
  BY DEF Acn!Observations
<1>6. Acn!Applied(o, y) = [bars |-> o.bars, battery |-> IF o.suspect THEN o.battery ELSE v, suspect |-> FALSE]
  <2>1. Acn!Applied([bars |-> o.bars, battery |-> o.battery, suspect |-> o.suspect], y)
          = [bars |-> o.bars, battery |-> IF o.suspect THEN o.battery ELSE v, suspect |-> FALSE]
    BY <1>1, <1>5, BatteryApplied
  <2> QED BY <1>5, <2>1
<1> DEFINE r == Acn!After(o, Acn!Reports(p))
<1>7. r = [bars |-> o.bars, battery |-> IF o.suspect THEN o.battery ELSE v, suspect |-> FALSE]
  BY <1>3, <1>4, <1>6
<1> HIDE DEF r
<1>8. /\ r.bars = o.bars /\ ~r.suspect /\ r.battery = IF o.suspect THEN o.battery ELSE v
      /\ o.suspect \/ v \in Bars => r \in Acn!Observations
  BY <1>5, <1>7 DEF Acn!Observations
<1> QED BY <1>8 DEF r, p, x, y

\* With no loop that hears nothing is seen, and that is a run of its own.
LEMMA NothingSeen ==
    LET o == [bars |-> None, battery |-> None, suspect |-> FALSE]
    IN  /\ <<o>> \in Seq(Acn!Observations) /\ Len(<<o>>) = 1 /\ <<o>>[1] = o
        /\ o.bars = None /\ o.battery = None /\ o.suspect = FALSE
<1> DEFINE o == [bars |-> None, battery |-> None, suspect |-> FALSE]
<1>1. o \in Acn!Observations /\ o.bars = None /\ o.battery = None /\ o.suspect = FALSE
  BY DEF Acn!Observations
<1> HIDE DEF o
<1>2. <<o>> \in Seq(Acn!Observations) /\ Len(<<o>>) = 1 /\ <<o>>[1] = o
  BY <1>1
<1> QED BY <1>1, <1>2 DEF o

LEMMA AcnInit == Acn!Init => Acn!AcnInv
<1> SUFFICES ASSUME Acn!Init PROVE Acn!AcnInv
  OBVIOUS
<1> DEFINE o == [bars |-> None, battery |-> None, suspect |-> FALSE]
           run == <<o>>
<1>1. /\ run \in Seq(Acn!Observations) /\ Len(run) = 1 /\ run[1] = o
      /\ o.bars = None /\ o.battery = None /\ o.suspect = FALSE
  BY NothingSeen
<1>2. /\ v1 \in {0, 1} /\ v2 \in Bars /\ v3 = FALSE /\ v4 = 0 /\ v5 = <<>> /\ v9 = FALSE
      /\ Acn!Observed = o
  BY DEF Acn!Init, Acn!Observed
<1>3. v5 \in Seq(Acn!Datagrams) /\ Len(v5) = 0
  BY <1>2
<1> HIDE DEF o, run
<1>4. Acn!CaughtUp(o)
  BY <1>1, <1>2 DEF Acn!CaughtUp
<1>5. Acn!ComesTo(run)
  BY <1>1, <1>2, <1>3, <1>4 DEF Acn!ComesTo
<1>6. \E each : Acn!ComesTo(each)
  BY <1>5
<1>7. v3 \in BOOLEAN /\ v4 \in 0..2
  <2>1. v3 \in BOOLEAN
    BY <1>2
  <2> QED BY <1>2, <2>1
<1>8. v1 \in {0, 1} /\ v2 \in Bars /\ v4 = 0 /\ v5 = <<>> /\ Acn!Observed = o
  BY <1>2
<1> QED BY <1>3, <1>6, <1>7, <1>8 DEF Acn!AcnInv, o

\* A datagram more: whoever has caught up catches up with it.
LEMMA AcnSays ==
    ASSUME Acn!AcnInv, NEW d \in Acn!Datagrams, Acn!Say(d),
           v1' \in {0, 1}, v2' \in Bars, v3' \in BOOLEAN, v4' \in 0..2, ~v9 => v4' = 0,
           \A o \in Acn!Observations : v9 /\ Acn!CaughtUp(o) =>
               /\ Acn!After(o, Acn!Reports(d)) \in Acn!Observations
               /\ \A r : r = Acn!After(o, Acn!Reports(d)) => Acn!CaughtUp(r)'
    PROVE  Acn!AcnInv'
<1>1. UNCHANGED <<v6, v7, v8, v9>> /\ Acn!Observed' = Acn!Observed /\ v5 \in Seq(Acn!Datagrams)
  BY DEF Acn!Say, Acn!Observed, Acn!AcnInv
<1>2. CASE ~v9
  <2>1. v5' = v5 /\ v5 = <<>> /\ v4' = 0
        /\ Acn!Observed = [bars |-> None, battery |-> None, suspect |-> FALSE]
    BY <1>2 DEF Acn!Say, Acn!AcnInv
  <2> DEFINE o == [bars |-> None, battery |-> None, suspect |-> FALSE]
             run == <<o>>
  <2>2. /\ run \in Seq(Acn!Observations) /\ Len(run) = 1 /\ run[1] = o
        /\ o.bars = None /\ o.battery = None /\ o.suspect = FALSE
    BY NothingSeen
  <2>3. Len(v5') = 0 /\ Acn!Observed' = o
    BY <1>1, <2>1
  <2>4. v4 = 0 /\ v9' = v9
    BY <1>1, <1>2 DEF Acn!AcnInv
  <2> HIDE DEF o, run
  <2>5. Acn!CaughtUp(o)'
    BY <1>2, <2>1, <2>2, <2>4 DEF Acn!CaughtUp
  <2>6. Acn!ComesTo(run)'
    BY <2>2, <2>3, <2>5 DEF Acn!ComesTo
  <2>7. \E each : Acn!ComesTo(each)'
    BY <2>6
  <2> QED BY <1>1, <2>1, <2>3, <2>7 DEF Acn!AcnInv, o
<1>3. CASE v9 /\ ~(Len(v5) < AcnCap)
  <2>1. v5' = v5 /\ v10' = (v10 /\ ~v9)
    BY <1>3 DEF Acn!Say
  <2>2. ~v10'
    BY <1>3, <2>1
  <2>3. v9'
    BY <1>1, <1>3
  <2> QED BY <1>1, <2>1, <2>2, <2>3 DEF Acn!AcnInv
<1>4. CASE v9 /\ Len(v5) < AcnCap
  <2>1. v5' = Append(v5, d) /\ v10' = v10 /\ Len(v5) \in Nat
    BY <1>4 DEF Acn!Say, Acn!AcnInv
  <2>2. /\ v5' \in Seq(Acn!Datagrams) /\ Len(v5') = Len(v5) + 1 /\ v5'[Len(v5) + 1] = d
        /\ \A i \in 1..Len(v5) : v5'[i] = v5[i]
    BY <1>1, <2>1, AppendProperties
  <2>3. ASSUME v10' PROVE \E run : Acn!ComesTo(run)'
    <3>1. PICK run : Acn!ComesTo(run)
      BY <2>1, <2>3 DEF Acn!AcnInv
    <3> DEFINE o == run[Len(run)]
               r == Acn!After(o, Acn!Reports(d))
               more == Append(run, r)
    <3>2. /\ run \in Seq(Acn!Observations) /\ Len(run) = Len(v5) + 1 /\ run[1] = Acn!Observed
          /\ \A i \in 1..Len(v5) : run[i + 1] = Acn!After(run[i], Acn!Reports(v5[i]))
          /\ Acn!CaughtUp(o)
      BY <3>1 DEF Acn!ComesTo
    <3>3. o \in Acn!Observations
      BY <2>1, <3>2, ElementOfSeq
    <3>4. r \in Acn!Observations /\ Acn!CaughtUp(r)'
      BY <1>4, <3>2, <3>3
    <3> HIDE DEF r
    <3>5. /\ more \in Seq(Acn!Observations) /\ Len(more) = Len(v5) + 2
          /\ \A i \in 1..(Len(v5) + 1) : more[i] = run[i]
          /\ more[Len(v5) + 2] = r
      BY <2>1, <3>2, <3>4, AppendProperties
    <3> HIDE DEF more
    <3>6. more[1] = Acn!Observed'
      BY <1>1, <2>1, <3>2, <3>5
    <3>7. ASSUME NEW i \in 1..Len(v5')
          PROVE  more[i + 1] = Acn!After(more[i], Acn!Reports(v5'[i]))
      <4>1. CASE i \in 1..Len(v5)
        <5>1. i \in 1..(Len(v5) + 1) /\ i + 1 \in 1..(Len(v5) + 1)
          BY <2>1, <4>1
        <5> QED BY <2>2, <3>2, <3>5, <4>1, <5>1
      <4>2. CASE i = Len(v5) + 1
        <5>1. i \in 1..(Len(v5) + 1) /\ i + 1 = Len(v5) + 2 /\ run[i] = o
          BY <2>1, <3>2, <4>2
        <5> QED BY <2>2, <3>5, <4>2, <5>1 DEF r
      <4> QED BY <2>1, <2>2, <4>1, <4>2
    <3>8. more[Len(more)] = r /\ Len(more) = Len(v5') + 1
      BY <2>1, <2>2, <3>5
    <3>9. Acn!ComesTo(more)'
      BY <3>4, <3>5, <3>6, <3>7, <3>8 DEF Acn!ComesTo
    <3> QED BY <3>9
  <2> QED BY <1>1, <1>4, <2>2, <2>3 DEF Acn!AcnInv
<1> QED BY <1>2, <1>3, <1>4

\* What the receiver sends is among the datagrams that may be on their way.
LEMMA DatagramsAre ==
    /\ \A b \in {0, 1} : <<Acn!Pdu("event", "rf", b)>> \in Acn!Datagrams
    /\ \A v \in Bars \cup {Transient} :
          /\ <<Acn!Pdu("event", "rf", 1), Acn!Pdu(None, "battery", v)>> \in Acn!Datagrams
          /\ <<Acn!Pdu("subscribe", "battery", None), Acn!Pdu("event", "battery", v)>> \in Acn!Datagrams
  BY DEF Acn!Datagrams

\* An observation has a carrier, a battery level and a doubt.
LEMMA ObservationsAre ==
    ASSUME NEW o \in Acn!Observations
    PROVE  o.bars \in {None, 0, 1} /\ o.battery \in Bars \cup {None} /\ o.suspect \in BOOLEAN
  BY DEF Acn!Observations

\* The carrier comes or goes: the reading owed is one the adapter will doubt.
LEMMA AcnCarrier == Acn!Apart /\ Acn!AcnInv /\ Acn!Carrier => Acn!AcnInv'
<1> SUFFICES ASSUME Acn!Apart, Acn!AcnInv, Acn!Carrier PROVE Acn!AcnInv'
  OBVIOUS
<1>1. /\ v1 \in {0, 1} /\ v1' \in {0, 1} /\ v1' # v1 /\ v2' = v2 /\ v2 \in Bars
      /\ v3 \in BOOLEAN /\ v4 \in 0..2 /\ (~v9 => v4 = 0)
  BY DEF Acn!Carrier, Acn!AcnInv
<1> DEFINE rf == Acn!Pdu("event", "rf", v1')
<1>2. CASE /\ v3' = (v3 \/ v1' = 1) /\ v4' = IF v1' = 0 THEN v4 ELSE 0
           /\ Acn!Say(<<rf>>)
  <2>1. ASSUME NEW o \in Acn!Observations, v9, Acn!CaughtUp(o), NEW r, r = Acn!After(o, Acn!Reports(<<rf>>))
        PROVE  r \in Acn!Observations /\ Acn!CaughtUp(r)'
    <3>1. /\ r \in Acn!Observations /\ r.bars = v1' /\ r.battery = o.battery
          /\ r.suspect <=> o.suspect \/ (o.bars \in {None, 0} /\ v1' = 1)
      BY <1>1, <2>1, BarsHeard
    <3>2. v1' # None
      BY <1>1 DEF Acn!Apart
    <3> QED BY <1>1, <1>2, <2>1, <3>1, <3>2 DEF Acn!CaughtUp, Acn!Say
  <2>2. <<rf>> \in Acn!Datagrams
    BY <1>1, DatagramsAre
  <2> HIDE DEF rf
  <2> QED BY <1>1, <1>2, <2>1, <2>2, AcnSays
<1>3. CASE /\ v1' = 1 /\ v3' = FALSE /\ v4' = 0
           /\ Acn!Say(<<rf, Acn!Pdu(None, "battery", Transient)>>)
  <2> DEFINE d == <<Acn!Pdu("event", "rf", 1), Acn!Pdu(None, "battery", Transient)>>
  <2>1. ASSUME NEW o \in Acn!Observations, v9, Acn!CaughtUp(o), NEW r, r = Acn!After(o, Acn!Reports(d))
        PROVE  r \in Acn!Observations /\ Acn!CaughtUp(r)'
    <3>1. o.bars \in {None, 0}
      BY <1>1, <1>3, <2>1 DEF Acn!CaughtUp
    <3>2. r \in Acn!Observations /\ r.bars = 1 /\ ~r.suspect
      BY <2>1, <3>1, BothHeard
    <3> QED BY <1>3, <3>2 DEF Acn!CaughtUp
  <2>2. d \in Acn!Datagrams /\ Acn!Say(d)
    BY <1>3, DatagramsAre
  <2>3. v1' \in {0, 1} /\ v2' \in Bars /\ v3' \in BOOLEAN /\ v4' \in 0..2 /\ (~v9 => v4' = 0)
    <3>1. v3' \in BOOLEAN
      BY <1>3
    <3> QED BY <1>1, <1>3, <3>1
  <2> HIDE DEF d
  <2> QED BY <2>1, <2>2, <2>3, AcnSays
<1> QED BY <1>2, <1>3 DEF Acn!Carrier

\* A reading: the wrong one is doubted, another is taken unless it is.
LEMMA AcnReading == Acn!Apart /\ Acn!AcnInv /\ Acn!Reading => Acn!AcnInv'
<1> SUFFICES ASSUME Acn!Apart, Acn!AcnInv, Acn!Reading PROVE Acn!AcnInv'
  OBVIOUS
<1> DEFINE v == IF v3 THEN Transient ELSE v2'
<1>1. /\ v1 = 1 /\ v1' = v1 /\ v3 \in BOOLEAN /\ v3' = FALSE /\ v2 \in Bars /\ v2' \in Bars
      /\ v4 \in 0..2 /\ (~v9 => v4 = 0)
      /\ v4' = IF v3 \/ ~v9 THEN 0 ELSE IF v2' # v2 \/ v4 = 0 THEN 1 ELSE 2
  BY DEF Acn!Reading, Acn!AcnInv
<1>2. v \in Bars \cup {Transient} /\ (~v3 => v = v2') /\ (v3 => v = Transient)
  BY <1>1
<1>3. \/ Acn!Say(<<Acn!Pdu("event", "rf", 1), Acn!Pdu(None, "battery", v)>>)
      \/ Acn!Say(<<Acn!Pdu("subscribe", "battery", None), Acn!Pdu("event", "battery", v)>>)
  BY DEF Acn!Reading
<1> HIDE DEF v
<1>4. v4' \in 0..2 /\ (~v9 => v4' = 0) /\ (v4' = 2 => v2' = v2 /\ v4 > 0) /\ (v4' > 0 => ~v3)
  BY <1>1
<1>5. CASE Acn!Say(<<Acn!Pdu("event", "rf", 1), Acn!Pdu(None, "battery", v)>>)
  <2> DEFINE d == <<Acn!Pdu("event", "rf", 1), Acn!Pdu(None, "battery", v)>>
  <2>1. ASSUME NEW o \in Acn!Observations, v9, Acn!CaughtUp(o), NEW r, r = Acn!After(o, Acn!Reports(d))
        PROVE  r \in Acn!Observations /\ Acn!CaughtUp(r)'
    <3> DEFINE doubted == o.suspect \/ o.bars \in {None, 0}
    <3>1. /\ r.bars = 1 /\ ~r.suspect /\ r.battery = IF doubted THEN o.battery ELSE v
          /\ doubted \/ v \in Bars => r \in Acn!Observations
      BY <2>1, BothHeard
    <3>2. v3 => doubted
      BY <2>1 DEF Acn!CaughtUp
    <3>3. r \in Acn!Observations
      BY <1>1, <1>2, <3>1, <3>2
    <3>4. 1 # None
      BY DEF Acn!Apart
    <3>5. o.bars \in {None, 1} /\ o.suspect \in BOOLEAN
      BY <1>1, <2>1, ObservationsAre DEF Acn!CaughtUp
    <3>6. v4' = 2 => r.battery = v2'
      BY <1>1, <1>2, <1>4, <2>1, <3>1, <3>5 DEF Acn!CaughtUp
    <3> QED BY <1>1, <3>1, <3>3, <3>4, <3>6 DEF Acn!CaughtUp
  <2>2. d \in Acn!Datagrams
    BY <1>2, DatagramsAre
  <2>3. Acn!Say(d)
    BY <1>5
  <2> HIDE DEF d
  <2> QED BY <1>1, <1>4, <2>1, <2>2, <2>3, AcnSays
<1>6. CASE Acn!Say(<<Acn!Pdu("subscribe", "battery", None), Acn!Pdu("event", "battery", v)>>)
  <2> DEFINE d == <<Acn!Pdu("subscribe", "battery", None), Acn!Pdu("event", "battery", v)>>
  <2>1. ASSUME NEW o \in Acn!Observations, v9, Acn!CaughtUp(o), NEW r, r = Acn!After(o, Acn!Reports(d))
        PROVE  r \in Acn!Observations /\ Acn!CaughtUp(r)'
    <3>1. /\ r.bars = o.bars /\ ~r.suspect /\ r.battery = IF o.suspect THEN o.battery ELSE v
          /\ o.suspect \/ v \in Bars => r \in Acn!Observations
      BY <2>1, BatteryHeard
    <3>2. v3 => o.suspect
      BY <2>1 DEF Acn!CaughtUp
    <3>3. r \in Acn!Observations
      BY <1>1, <1>2, <3>1, <3>2
    <3>4. o.bars \in {None, 1} /\ o.suspect \in BOOLEAN /\ (o.suspect => o.bars # None)
      BY <1>1, <2>1, ObservationsAre DEF Acn!CaughtUp
    <3>5. v4' > 0 => (o.bars = None => r.battery = v2')
      BY <1>2, <1>4, <3>1, <3>4
    <3>6. v4' = 2 => r.battery = v2'
      BY <1>2, <1>4, <2>1, <3>1, <3>4 DEF Acn!CaughtUp
    <3> QED BY <1>1, <3>1, <3>3, <3>4, <3>5, <3>6 DEF Acn!CaughtUp
  <2>2. d \in Acn!Datagrams
    BY <1>2, DatagramsAre
  <2>3. Acn!Say(d)
    BY <1>6
  <2> HIDE DEF d
  <2> QED BY <1>1, <1>4, <2>1, <2>2, <2>3, AcnSays
<1> QED BY <1>3, <1>5, <1>6

\* The loop takes a datagram: the run goes on without its first.
LEMMA AcnTelemetry == Acn!AcnInv /\ Acn!TelemetryLoop => Acn!AcnInv'
<1> SUFFICES ASSUME Acn!AcnInv, Acn!TelemetryLoop PROVE Acn!AcnInv'
  OBVIOUS
<1> DEFINE seen == Acn!After(Acn!Observed, Acn!Reports(Head(v5)))
<1>1. /\ v9 /\ v5 # <<>> /\ v5' = Tail(v5) /\ UNCHANGED <<v1, v2, v3, v4, v9, v10>>
      /\ v6' = seen.bars /\ v7' = seen.battery /\ v8' = seen.suspect /\ v5 \in Seq(Acn!Datagrams)
  BY DEF Acn!TelemetryLoop, Acn!AllOf, Acn!AcnInv
<1>2. /\ v5' \in Seq(Acn!Datagrams) /\ Len(v5) \in Nat /\ Len(v5) > 0 /\ Len(v5') = Len(v5) - 1
      /\ Head(v5) = v5[1] /\ \A i \in 1..Len(v5') : v5'[i] = v5[i + 1]
  BY <1>1, HeadTailProperties, LenProperties, EmptySeq
<1> HIDE DEF seen
<1>3. ASSUME v10' PROVE \E run : Acn!ComesTo(run)'
  <2>1. PICK run : Acn!ComesTo(run)
    BY <1>1, <1>3 DEF Acn!AcnInv
  <2> DEFINE less == Tail(run)
  <2>2. /\ run \in Seq(Acn!Observations) /\ Len(run) = Len(v5) + 1 /\ run[1] = Acn!Observed
        /\ \A i \in 1..Len(v5) : run[i + 1] = Acn!After(run[i], Acn!Reports(v5[i]))
        /\ Acn!CaughtUp(run[Len(run)])
    BY <2>1 DEF Acn!ComesTo
  <2>3. run # <<>>
    BY <1>2, <2>2
  <2>4. /\ less \in Seq(Acn!Observations) /\ Len(less) = Len(v5)
        /\ \A i \in 1..Len(v5) : less[i] = run[i + 1]
    BY <1>2, <2>2, <2>3, HeadTailProperties
  <2> HIDE DEF less
  <2>5. 1 \in 1..Len(v5) /\ 1 + 1 = 2 /\ Len(v5) \in 1..Len(v5)
    BY <1>2
  <2>6. run[2] = seen /\ less[1] = seen
    BY <1>2, <2>2, <2>4, <2>5 DEF seen
  <2>7. seen \in Acn!Observations
    BY <1>2, <2>4, <2>5, <2>6, ElementOfSeq
  <2>8. Acn!Observed' = seen
    BY <1>1, <2>7 DEF Acn!Observed, Acn!Observations
  <2>9. \A i \in 1..Len(v5') : less[i + 1] = Acn!After(less[i], Acn!Reports(v5'[i]))
    <3> SUFFICES ASSUME NEW i \in 1..Len(v5')
                 PROVE  less[i + 1] = Acn!After(less[i], Acn!Reports(v5'[i]))
      OBVIOUS
    <3>1. i \in 1..Len(v5) /\ i + 1 \in 1..Len(v5)
      BY <1>2
    <3>2. less[i + 1] = run[(i + 1) + 1] /\ less[i] = run[i + 1] /\ v5'[i] = v5[i + 1]
      BY <1>2, <2>4, <3>1
    <3> QED BY <2>2, <3>1, <3>2
  <2>10. less[Len(less)] = run[Len(run)]
    BY <2>2, <2>4, <2>5
  <2>11. \A o : Acn!CaughtUp(o) => Acn!CaughtUp(o)'
    BY <1>1 DEF Acn!CaughtUp
  <2>12. Acn!CaughtUp(less[Len(less)])'
    BY <2>2, <2>10, <2>11
  <2>13. Acn!ComesTo(less)'
    BY <1>2, <2>4, <2>6, <2>8, <2>9, <2>12 DEF Acn!ComesTo
  <2> QED BY <2>13
<1> QED BY <1>1, <1>2, <1>3 DEF Acn!AcnInv

\* Every step of the pack, the wire and the adapter keeps AcnInv.
LEMMA AcnStep == Acn!Apart /\ Acn!AcnInv /\ [Acn!Next]_(Acn!vars) => Acn!AcnInv'
<1> SUFFICES ASSUME Acn!Apart, Acn!AcnInv, [Acn!Next]_(Acn!vars) PROVE Acn!AcnInv'
  OBVIOUS
<1>1. CASE UNCHANGED Acn!vars
  <2>1. Acn!AcnInv' <=> Acn!AcnInv
    <3>1. \A run : Acn!ComesTo(run)' <=> Acn!ComesTo(run)
      BY <1>1 DEF Acn!vars, Acn!ComesTo, Acn!CaughtUp, Acn!Observed
    <3> QED BY <1>1, <3>1 DEF Acn!vars, Acn!AcnInv, Acn!Observed
  <2> QED BY <2>1
<1>2. CASE Acn!Lose
  <2>1. v5' \in Seq(Acn!Datagrams)
    BY <1>2, HeadTailProperties DEF Acn!Lose, Acn!AcnInv
  <2> QED BY <1>2, <2>1 DEF Acn!Lose, Acn!AcnInv
<1>3. CASE Acn!Connect
  <2>1. /\ v5' = v5 /\ v5 = <<>> /\ v4' = v4 /\ v4 = 0 /\ v1' = v1 /\ v3' = v3 /\ v10' = ~v3
        /\ Acn!Observed' = Acn!Observed
        /\ Acn!Observed = [bars |-> None, battery |-> None, suspect |-> FALSE]
    BY <1>3 DEF Acn!Connect, Acn!AcnInv, Acn!Observed
  <2> DEFINE o == [bars |-> None, battery |-> None, suspect |-> FALSE]
             run == <<o>>
  <2>2. /\ run \in Seq(Acn!Observations) /\ Len(run) = 1 /\ run[1] = o
        /\ o.bars = None /\ o.battery = None /\ o.suspect = FALSE
    BY NothingSeen
  <2>3. Len(v5') = 0 /\ Acn!Observed' = o
    BY <2>1
  <2> HIDE DEF o, run
  <2>4. ASSUME v10' PROVE \E each : Acn!ComesTo(each)'
    <3>1. Acn!CaughtUp(o)'
      <4>1. ~v3' /\ v4' = 0
        BY <2>1, <2>4
      <4> QED BY <2>2, <4>1 DEF Acn!CaughtUp
    <3>2. Acn!ComesTo(run)'
      BY <2>2, <2>3, <3>1 DEF Acn!ComesTo
    <3> QED BY <3>2
  <2>5. v2' = v2 /\ v9' = TRUE
    BY <1>3 DEF Acn!Connect
  <2> QED BY <2>1, <2>4, <2>5 DEF Acn!AcnInv
<1> QED BY <1>1, <1>2, <1>3, AcnCarrier, AcnReading, AcnTelemetry DEF Acn!Next

LEMMA AcnInvEnough == Acn!Apart /\ Acn!AcnInv => Acn!NoTransientShown /\ Acn!Follows
<1> SUFFICES ASSUME Acn!Apart, Acn!AcnInv, v10
             PROVE  v7 # Transient /\ (v9 /\ v5 = <<>> => v6 \in {None, v1} /\ (v4 = 2 => v7 = v2))
  BY DEF Acn!NoTransientShown, Acn!Follows
<1>1. PICK run : Acn!ComesTo(run)
  BY DEF Acn!AcnInv
<1>2. run[1] = Acn!Observed /\ Len(run) = Len(v5) + 1 /\ run \in Seq(Acn!Observations)
      /\ Acn!CaughtUp(run[Len(run)]) /\ Len(v5) \in Nat
  BY <1>1 DEF Acn!ComesTo, Acn!AcnInv
<1>3. Acn!Observed \in Acn!Observations
  BY <1>2, ElementOfSeq
<1>4. Acn!Observed.bars = v6 /\ Acn!Observed.battery = v7
  BY DEF Acn!Observed
<1>5. v7 # Transient
  BY <1>3, <1>4, ObservationsAre DEF Acn!Apart
<1>6. ASSUME v5 = <<>> PROVE Acn!CaughtUp(Acn!Observed)
  <2>1. Len(v5) = 0
    BY <1>6
  <2> QED BY <1>2, <2>1
<1> QED BY <1>4, <1>5, <1>6 DEF Acn!CaughtUp

-----------------------------------------------------------------------------
(* That the AES70 plugin hears the last change of every object.             *)

\* A sequence is one of the things in it.
LEMMA OfItsOwn ==
    ASSUME NEW S, NEW s \in Seq(S)
    PROVE  s \in Seq(Aes!Range(s)) /\ Len(s) \in Nat
           /\ (\A i \in 1..Len(s) : s[i] \in Aes!Range(s)) /\ Aes!Range(s) \subseteq S
<1>1. Len(s) \in Nat /\ DOMAIN s = 1..Len(s)
  OBVIOUS
<1>2. \A i \in 1..Len(s) : s[i] \in S
  OBVIOUS
<1>3. \A i \in 1..Len(s) : s[i] \in Aes!Range(s)
  BY <1>1 DEF Aes!Range
<1>4. s \in Seq(Aes!Range(s))
  BY <1>1, <1>3, IsASeq
<1>5. Aes!Range(s) \subseteq S
  BY <1>1, <1>2 DEF Aes!Range
<1> QED BY <1>1, <1>3, <1>4, <1>5

LEMMA OneMoreItem ==
    ASSUME NEW s, s \in Seq(Aes!Range(s)), NEW x
    PROVE  /\ Append(s, x) \in Seq(Aes!Range(Append(s, x)))
           /\ Len(Append(s, x)) = Len(s) + 1 /\ Append(s, x)[Len(s) + 1] = x
           /\ \A i \in 1..Len(s) : Append(s, x)[i] = s[i]
           /\ Len(s) \in Nat
<1> DEFINE S == Aes!Range(s) \cup {x}
<1>1. s \in Seq(S) /\ x \in S
  OBVIOUS
<1> HIDE DEF S
<1>2. /\ Append(s, x) \in Seq(S) /\ Len(Append(s, x)) = Len(s) + 1
      /\ Append(s, x)[Len(s) + 1] = x /\ \A i \in 1..Len(s) : Append(s, x)[i] = s[i]
      /\ Len(s) \in Nat
  BY <1>1, AppendProperties, LenProperties
<1>3. Append(s, x) \in Seq(Aes!Range(Append(s, x)))
  BY <1>2, OfItsOwn
<1> QED BY <1>2, <1>3

LEMMA OneItemLess ==
    ASSUME NEW s, s \in Seq(Aes!Range(s)), s # <<>>
    PROVE  /\ Tail(s) \in Seq(Aes!Range(Tail(s))) /\ Head(s) = s[1]
           /\ Len(s) \in Nat /\ Len(s) > 0 /\ Len(Tail(s)) = Len(s) - 1
           /\ \A i \in 1..Len(Tail(s)) : Tail(s)[i] = s[i + 1]
<1> DEFINE S == Aes!Range(s)
<1>1. s \in Seq(S)
  OBVIOUS
<1> HIDE DEF S
<1>2. /\ Tail(s) \in Seq(S) /\ Head(s) = s[1] /\ Len(s) \in Nat /\ Len(s) > 0
      /\ Len(Tail(s)) = Len(s) - 1 /\ \A i \in 1..Len(Tail(s)) : Tail(s)[i] = s[i + 1]
  BY <1>1, HeadTailProperties, LenProperties, EmptySeq
<1>3. Tail(s) \in Seq(Aes!Range(Tail(s)))
  BY <1>2, OfItsOwn
<1> QED BY <1>2, <1>3

\* An item more is the latest about its object, and about no other.
LEMMA LatestIsThis ==
    ASSUME NEW n \in Nat, NEW m, Len(m) = n + 1, NEW o, m[n + 1].ono = o
    PROVE  /\ Aes!IsLatest(Aes!About(m, o), n + 1) /\ n + 1 \in Aes!About(m, o)
           /\ \A i : Aes!IsLatest(Aes!About(m, o), i) => i = n + 1
<1>1. n + 1 \in Aes!About(m, o)
  BY DEF Aes!About
<1> QED BY <1>1 DEF Aes!About, Aes!IsLatest

LEMMA OthersStay ==
    ASSUME NEW n \in Nat, NEW s, Len(s) = n, NEW m, Len(m) = n + 1, NEW o, m[n + 1].ono # o,
           \A i \in 1..n : m[i] = s[i]
    PROVE  Aes!About(m, o) = Aes!About(s, o)
<1>1. ASSUME NEW i PROVE i \in Aes!About(m, o) <=> i \in Aes!About(s, o)
  <2>1. CASE i \in 1..n
    <3>1. i \in 1..Len(m) /\ m[i] = s[i]
      BY <2>1
    <3> QED BY <2>1, <3>1 DEF Aes!About
  <2>2. CASE i \notin 1..n
    <3>1. i \in 1..Len(m) => i = n + 1
      BY <2>2
    <3> QED BY <2>2, <3>1 DEF Aes!About
  <2> QED BY <2>1, <2>2
<1> QED BY <1>1

\* An item less, from the front.
LEMMA AboutLess ==
    ASSUME NEW s, s \in Seq(Aes!Range(s)), s # <<>>, NEW o
    PROVE  /\ \A i \in Aes!About(Tail(s), o) : Tail(s)[i] = s[i + 1]
           /\ \A i \in Aes!About(Tail(s), o) :
                 Aes!IsLatest(Aes!About(Tail(s), o), i) => Aes!IsLatest(Aes!About(s, o), i + 1)
           /\ Aes!About(Tail(s), o) = {} =>
                 IF Head(s).ono = o THEN Aes!IsLatest(Aes!About(s, o), 1) ELSE Aes!About(s, o) = {}
<1> DEFINE l == Tail(s)
<1>1. /\ Head(s) = s[1] /\ Len(s) \in Nat /\ Len(s) > 0 /\ Len(l) = Len(s) - 1
      /\ \A i \in 1..Len(l) : l[i] = s[i + 1]
  BY OneItemLess
<1> HIDE DEF l
<1>2. ASSUME NEW i \in Aes!About(l, o) PROVE i + 1 \in Aes!About(s, o) /\ i \in 1..Len(l) /\ l[i] = s[i + 1]
  <2>1. i \in 1..Len(l) /\ l[i].ono = o
    BY DEF Aes!About
  <2>2. i + 1 \in 1..Len(s) /\ l[i] = s[i + 1]
    BY <1>1, <2>1
  <2> QED BY <2>1, <2>2 DEF Aes!About
<1>3. ASSUME NEW j \in Aes!About(s, o), j # 1 PROVE j - 1 \in Aes!About(l, o) /\ j \in Int
  <2>1. j \in 1..Len(s) /\ s[j].ono = o
    BY DEF Aes!About
  <2>2. j - 1 \in 1..Len(l) /\ (j - 1) + 1 = j
    BY <1>1, <1>3, <2>1
  <2>3. l[j - 1] = s[j]
    BY <1>1, <2>2
  <2> QED BY <2>1, <2>2, <2>3 DEF Aes!About
<1>4. ASSUME NEW i \in Aes!About(l, o), Aes!IsLatest(Aes!About(l, o), i)
      PROVE  Aes!IsLatest(Aes!About(s, o), i + 1)
  <2>1. i + 1 \in Aes!About(s, o) /\ i \in Int /\ i >= 1
    BY <1>2
  <2>2. ASSUME NEW j \in Aes!About(s, o), j # 1 PROVE j <= i + 1
    <3>1. j - 1 <= i /\ j \in Int
      BY <1>3, <1>4, <2>2 DEF Aes!IsLatest
    <3> QED BY <2>1, <3>1
  <2>3. 1 <= i + 1
    BY <2>1
  <2> QED BY <2>1, <2>2, <2>3 DEF Aes!IsLatest
<1>5. ASSUME Aes!About(l, o) = {}, Head(s).ono = o PROVE Aes!IsLatest(Aes!About(s, o), 1)
  <2>1. 1 \in Aes!About(s, o)
    BY <1>1, <1>5 DEF Aes!About
  <2>2. \A j \in Aes!About(s, o) : j = 1
    BY <1>3, <1>5
  <2> QED BY <2>1, <2>2 DEF Aes!IsLatest
<1>6. ASSUME Aes!About(l, o) = {}, Head(s).ono # o PROVE Aes!About(s, o) = {}
  <2>1. 1 \notin Aes!About(s, o)
    BY <1>1, <1>6 DEF Aes!About
  <2> QED BY <1>3, <1>6, <2>1
<1> QED BY <1>2, <1>4, <1>5, <1>6 DEF l

\* A change notified is the latest of its object, and of no other.
LEMMA ChangeCatches ==
    ASSUME NEW w, w \in Seq(Aes!Range(w)), NEW q, NEW x, NEW o, NEW last, NEW before, NEW now,
           IF x.ono = o THEN x.n = now ELSE now = before /\ Aes!Catches(w, q, o, last, before)
    PROVE  Aes!Catches(Append(w, x), q, o, last, now)
<1> DEFINE m == Append(w, x)
           k == Len(w) + 1
<1>1. /\ x.ono # o => Aes!About(m, o) = Aes!About(w, o)
      /\ x.ono # o => \A i \in Aes!About(w, o) : m[i] = w[i]
      /\ x.ono = o => /\ Aes!IsLatest(Aes!About(m, o), k) /\ k \in Aes!About(m, o)
                      /\ \A i : Aes!IsLatest(Aes!About(m, o), i) => i = k
      /\ m[k] = x
  <2> DEFINE n == Len(w)
  <2>1. n \in Nat /\ Len(m) = n + 1 /\ m[n + 1] = x /\ \A i \in 1..n : m[i] = w[i]
    BY OneMoreItem
  <2>2. k = n + 1 /\ n = Len(w)
    OBVIOUS
  <2> HIDE DEF m, k, n
  <2>3. x.ono # o => Aes!About(m, o) = Aes!About(w, o)
    BY <2>1, <2>2, OthersStay
  <2>4. \A i \in Aes!About(w, o) : m[i] = w[i]
    BY <2>1, <2>2 DEF Aes!About
  <2>5. x.ono = o => /\ Aes!IsLatest(Aes!About(m, o), k) /\ k \in Aes!About(m, o)
                    /\ \A i : Aes!IsLatest(Aes!About(m, o), i) => i = k
    BY <2>1, <2>2, LatestIsThis
  <2> QED BY <2>1, <2>2, <2>3, <2>4, <2>5
<1> HIDE DEF m, k
<1>2. CASE x.ono = o
  <2>1. k \in Aes!About(m, o)
    BY <1>1, <1>2 DEF Aes!IsLatest
  <2>2. Aes!Catches(m, q, o, last, now)
    BY <1>1, <1>2, <2>1 DEF Aes!Catches
  <2> QED BY <2>2 DEF m
<1>3. CASE x.ono # o
  <2>1. Aes!Catches(m, q, o, last, now)
    BY <1>1, <1>3 DEF Aes!Catches, Aes!IsLatest
  <2> QED BY <2>1 DEF m
<1> QED BY <1>2, <1>3

\* The queue keeps a latest event of each object it has one of.
LEMMA LatestStays ==
    ASSUME NEW q, q \in Seq(Aes!Range(q)), NEW x, NEW o, Aes!HasLatest(q, o)
    PROVE  Aes!HasLatest(Append(q, x), o)
<1> DEFINE m == Append(q, x)
           k == Len(q) + 1
<1>1. /\ x.ono # o => Aes!About(m, o) = Aes!About(q, o)
      /\ x.ono # o => \A i \in Aes!About(q, o) : m[i] = q[i]
      /\ x.ono = o => /\ Aes!IsLatest(Aes!About(m, o), k) /\ k \in Aes!About(m, o)
                      /\ \A i : Aes!IsLatest(Aes!About(m, o), i) => i = k
      /\ m[k] = x
  <2> DEFINE n == Len(q)
  <2>1. n \in Nat /\ Len(m) = n + 1 /\ m[n + 1] = x /\ \A i \in 1..n : m[i] = q[i]
    BY OneMoreItem
  <2>2. k = n + 1 /\ n = Len(q)
    OBVIOUS
  <2> HIDE DEF m, k, n
  <2>3. x.ono # o => Aes!About(m, o) = Aes!About(q, o)
    BY <2>1, <2>2, OthersStay
  <2>4. \A i \in Aes!About(q, o) : m[i] = q[i]
    BY <2>1, <2>2 DEF Aes!About
  <2>5. x.ono = o => /\ Aes!IsLatest(Aes!About(m, o), k) /\ k \in Aes!About(m, o)
                    /\ \A i : Aes!IsLatest(Aes!About(m, o), i) => i = k
    BY <2>1, <2>2, LatestIsThis
  <2> QED BY <2>1, <2>2, <2>3, <2>4, <2>5
<1> HIDE DEF m, k
<1>2. Aes!HasLatest(m, o)
  BY <1>1 DEF Aes!HasLatest, Aes!IsLatest
<1> QED BY <1>2 DEF m

\* The task takes a notification: the wire's first is the queue's last.
LEMMA NotifiedCatches ==
    ASSUME NEW w, w \in Seq(Aes!Range(w)), w # <<>>, NEW q, q \in Seq(Aes!Range(q)),
           NEW o, NEW last, NEW now, Aes!Catches(w, q, o, last, now)
    PROVE  Aes!Catches(Tail(w), Append(q, Head(w)), o, last, now)
<1> DEFINE l == Tail(w)
           x == Head(w)
           m == Append(q, x)
           k == Len(q) + 1
<1>1. /\ \A i \in Aes!About(l, o) : l[i] = w[i + 1]
      /\ \A i \in Aes!About(l, o) :
            Aes!IsLatest(Aes!About(l, o), i) => Aes!IsLatest(Aes!About(w, o), i + 1)
      /\ Aes!About(l, o) = {} =>
            IF x.ono = o THEN Aes!IsLatest(Aes!About(w, o), 1) ELSE Aes!About(w, o) = {}
  BY AboutLess
<1>2. /\ x.ono # o => Aes!About(m, o) = Aes!About(q, o)
      /\ x.ono # o => \A i \in Aes!About(q, o) : m[i] = q[i]
      /\ x.ono = o => /\ Aes!IsLatest(Aes!About(m, o), k) /\ k \in Aes!About(m, o)
                      /\ \A i : Aes!IsLatest(Aes!About(m, o), i) => i = k
      /\ m[k] = x
  <2> DEFINE n == Len(q)
  <2>1. n \in Nat /\ Len(m) = n + 1 /\ m[n + 1] = x /\ \A i \in 1..n : m[i] = q[i]
    BY OneMoreItem
  <2>2. k = n + 1 /\ n = Len(q)
    OBVIOUS
  <2> HIDE DEF m, k, n
  <2>3. x.ono # o => Aes!About(m, o) = Aes!About(q, o)
    BY <2>1, <2>2, OthersStay
  <2>4. \A i \in Aes!About(q, o) : m[i] = q[i]
    BY <2>1, <2>2 DEF Aes!About
  <2>5. x.ono = o => /\ Aes!IsLatest(Aes!About(m, o), k) /\ k \in Aes!About(m, o)
                    /\ \A i : Aes!IsLatest(Aes!About(m, o), i) => i = k
    BY <2>1, <2>2, LatestIsThis
  <2> QED BY <2>1, <2>2, <2>3, <2>4, <2>5
<1>3. x = w[1]
  BY OneItemLess
<1> HIDE DEF l, x, m, k
<1>4. \A i \in Aes!About(l, o) : Aes!IsLatest(Aes!About(l, o), i) => l[i].n = now
  BY <1>1 DEF Aes!Catches, Aes!IsLatest
<1>5. CASE x.ono = o
  <2>1. k \in Aes!About(m, o)
    BY <1>2, <1>5 DEF Aes!IsLatest
  <2>2. Aes!About(l, o) = {} => x.n = now
    <3> SUFFICES ASSUME Aes!About(l, o) = {} PROVE x.n = now
      OBVIOUS
    <3>1. Aes!IsLatest(Aes!About(w, o), 1) /\ 1 \in Aes!About(w, o)
      BY <1>1, <1>5 DEF Aes!IsLatest
    <3> QED BY <1>3, <3>1 DEF Aes!Catches
  <2>3. Aes!Catches(l, m, o, last, now)
    BY <1>2, <1>4, <1>5, <2>1, <2>2 DEF Aes!Catches
  <2> QED BY <2>3 DEF l, m, x
<1>6. CASE x.ono # o
  <2>1. Aes!Catches(l, m, o, last, now)
    BY <1>1, <1>2, <1>4, <1>6 DEF Aes!Catches, Aes!IsLatest
  <2> QED BY <2>1 DEF l, m, x
<1> QED BY <1>5, <1>6

\* The host polls: of each object it takes the latest event.
LEMMA PolledCatches ==
    ASSUME NEW w, NEW q, NEW o, NEW last, NEW now, Aes!Catches(w, q, o, last, now), Aes!HasLatest(q, o),
           NEW t, LET of == {i \in DOMAIN q : q[i].ono = o}
                  IN  t = IF of = {} THEN last ELSE q[CHOOSE i \in of : \A j \in of : j <= i].n,
           DOMAIN q = 1..Len(q)
    PROVE  Aes!Catches(w, <<>>, o, t, now)
<1> DEFINE of == {i \in DOMAIN q : q[i].ono = o}
           c == CHOOSE i \in of : \A j \in of : j <= i
<1>1. of = Aes!About(q, o)
  BY DEF Aes!About
<1>2. t = IF of = {} THEN last ELSE q[c].n
  OBVIOUS
<1>3. of # {} => Aes!IsLatest(of, c) /\ c \in of
  BY <1>1 DEF Aes!HasLatest, Aes!IsLatest
<1> HIDE DEF of, c
<1>4. Aes!About(<<>>, o) = {}
  BY DEF Aes!About
<1>5. Aes!About(w, o) = {} => t = now
  BY <1>1, <1>2, <1>3 DEF Aes!Catches
<1> QED BY <1>4, <1>5 DEF Aes!Catches

\* The members a device lists are objects.
LEMMA MembersAreObjects ==
    ASSUME Aes!WellMade, NEW d \in Aes70Devices, NEW b \in DOMAIN d.members
    PROVE  d.members[b] \in Seq(Aes!Objects) /\ b \in Aes!Objects
<1>1. d.members[b] \in Seq(Aes!Range(d.members[b]))
  BY DEF Aes!WellMade
<1>2. Aes!Range(d.members[b]) \subseteq Aes!Own(d) /\ b \in Aes!Own(d)
  BY DEF Aes!Own
<1>3. Aes!Own(d) \subseteq Aes!Objects
  BY DEF Aes!Objects
<1>4. \A S, T : S \subseteq T => Seq(S) \subseteq Seq(T)
  OBVIOUS
<1> QED BY <1>1, <1>2, <1>3, <1>4

LEMMA AesInit == Aes!Init => Aes!AesInv
<1> SUFFICES ASSUME Aes!Init PROVE Aes!AesInv
  OBVIOUS
<1>1. <<>> \in Seq(Aes!Range(<<>>)) /\ \A o : Aes!About(<<>>, o) = {}
  BY DEF Aes!About
<1> QED BY <1>1 DEF Aes!Init, Aes!AesInv, Aes!HasLatest

\* A member walked is an object, and so is every one of a block entered.
LEMMA WalkKeeps ==
    ASSUME Aes!WellMade, Aes!AesInv, Aes!Walk
    PROVE  v4' \in Seq([left : Seq(Aes!Objects), depth : Int]) /\ v6' \in Seq(Aes!Objects)
<1> DEFINE Blocks == [left : Seq(Aes!Objects), depth : Int]
           h == Head(v4)
           o == Head(h.left)
           left == [h EXCEPT !.left = Tail(h.left)]
           rest == <<left>> \o Tail(v4)
           into == [left |-> v1.members[o], depth |-> h.depth + 1]
<1>1. v4 # <<>> /\ v4 \in Seq(Blocks) /\ h.left # <<>> /\ v6 \in Seq(Aes!Objects)
  BY DEF Aes!Walk, Aes!AesInv
<1>2. h \in Blocks /\ Tail(v4) \in Seq(Blocks)
  BY <1>1, HeadTailProperties
<1>3. h.left \in Seq(Aes!Objects) /\ h.depth \in Int /\ h = [left |-> h.left, depth |-> h.depth]
  BY <1>2
<1>4. o \in Aes!Objects /\ Tail(h.left) \in Seq(Aes!Objects)
  BY <1>1, <1>3, HeadTailProperties
<1>5. left \in Blocks
  BY <1>3, <1>4
<1>6. \/ v4' = Tail(v4) \/ v4' = Aes!Passed
      \/ Aes!IsBlock(Aes!Member) /\ v4' = Aes!BlockEntered(Aes!Member, Aes!Passed)
  BY DEF Aes!Walk
<1>7. v6' = v6 \/ v6' = Append(v6, Aes!Member)
  BY DEF Aes!Walk
<1>8. Aes!Member = o /\ Aes!Passed = rest
  BY DEF Aes!Member, Aes!Passed
<1>9. Aes!IsBlock(Aes!Member) => o \in DOMAIN v1.members
  BY <1>8 DEF Aes!IsBlock
<1> HIDE DEF left
<1>10. rest \in Seq(Blocks)
  BY <1>2, <1>5, ConcatProperties
<1> HIDE DEF rest
<1>11. ASSUME o \in DOMAIN v1.members PROVE <<into>> \o rest \in Seq(Blocks)
  <2>1. v1.members[o] \in Seq(Aes!Objects)
    BY <1>11, MembersAreObjects DEF Aes!AesInv
  <2>2. into \in Blocks
    BY <1>3, <2>1
  <2> HIDE DEF into
  <2> QED BY <1>10, <2>2, ConcatProperties
<1> HIDE DEF into, o, h
<1>12. \/ Aes!BlockEntered(Aes!Member, Aes!Passed) = rest
       \/ Aes!BlockEntered(Aes!Member, Aes!Passed) = <<into>> \o rest
  BY <1>8 DEF Aes!BlockEntered, into, o, h
<1>13. Append(v6, o) \in Seq(Aes!Objects)
  BY <1>1, <1>4, AppendProperties
<1>14. v4' \in Seq(Blocks)
  BY <1>2, <1>6, <1>10, <1>11, <1>8, <1>9, <1>12
<1> QED BY <1>1, <1>7, <1>8, <1>13, <1>14

\* The walk and what follows it until the host listens.
LEMMA AesWalks ==
    ASSUME Aes!WellMade, Aes!AesInv,
           Aes!Spawn \/ Aes!Connect \/ Aes!Walk \/ Aes!Return \/ Aes!Enumerated \/ Aes!Subscribe
    PROVE  Aes!AesInv'
<1> DEFINE Blocks == [left : Seq(Aes!Objects), depth : Int]
<1>1. UNCHANGED <<v1, v2, v9, v10, v11, v12>> /\ v3 \notin {"up", "disconnected", "awaits"}
      /\ v3' \notin {"up", "disconnected"} /\ (v3' = "awaits" => Aes!Subscribe)
  BY DEF Aes!Spawn, Aes!Connect, Aes!Walk, Aes!Return, Aes!Enumerated, Aes!Subscribe, Aes!Live
<1>2. v4' \in Seq(Blocks) /\ v6' \in Seq(Aes!Objects)
  <2>1. CASE Aes!Spawn \/ Aes!Enumerated \/ Aes!Subscribe
    BY <2>1 DEF Aes!Spawn, Aes!Enumerated, Aes!Subscribe, Aes!AesInv
  <2>2. CASE Aes!Connect
    <3>1. v1.members["root"] \in Seq(Aes!Objects) /\ <<>> \in Seq(Aes!Objects)
      BY MembersAreObjects DEF Aes!AesInv, Aes!WellMade
    <3> DEFINE l == IF Aes!Answers("root") THEN v1.members["root"] ELSE <<>>
    <3>2. l \in Seq(Aes!Objects) /\ v4' = <<[left |-> l, depth |-> 0]>> /\ v6' = v6
      BY <2>2, <3>1 DEF Aes!Connect
    <3> HIDE DEF l
    <3>3. [left |-> l, depth |-> 0] \in Blocks
      BY <3>2
    <3> QED BY <3>2, <3>3 DEF Aes!AesInv
  <2>3. CASE Aes!Return
    <3>1. v4' = Tail(v4) /\ v4 # <<>> /\ v4 \in Seq(Blocks) /\ v6' = v6
      BY <2>3 DEF Aes!Return, Aes!AesInv
    <3> QED BY <3>1, HeadTailProperties DEF Aes!AesInv
  <2>4. CASE Aes!Walk
    BY <2>4, WalkKeeps
  <2> QED BY <2>1, <2>2, <2>3, <2>4
<1>3. v3' = "awaits" => v8' = {o \in Aes!Range(v7') : Aes!Accepted(o)'}
  BY <1>1 DEF Aes!Subscribe, Aes!Accepted
<1>4. v1' \in Aes70Devices /\ v2' = [o \in Aes!Objects |-> v2'[o]] /\ v12' \subseteq Aes!Objects
      /\ v9' \in Seq(Aes!Range(v9')) /\ v10' \in Seq(Aes!Range(v10')) /\ v12' = {} /\ v10' = <<>>
      /\ \A o \in Aes!Objects : Aes!HasLatest(v10', o)
  BY <1>1 DEF Aes!AesInv
<1> QED BY <1>1, <1>2, <1>3, <1>4 DEF Aes!AesInv

\* A control of the device moves.
LEMMA AesTurn == Aes!AesInv /\ Aes!Turn => Aes!AesInv'
<1> SUFFICES ASSUME Aes!AesInv, Aes!Turn PROVE Aes!AesInv'
  OBVIOUS
<1> DEFINE n == Aes!Turns + 1
<1>1. PICK o \in Aes!Range(v6) :
          /\ v2' = [v2 EXCEPT ![o] = n]
          /\ v9' = IF o \in v8 THEN Append(v9, [ono |-> o, n |-> n]) ELSE v9
          /\ v12' = IF o \in v8 /\ v3 = "up" THEN v12 \cup {o} ELSE v12 \ {o}
  BY DEF Aes!Turn
<1>2. UNCHANGED <<v1, v3, v4, v6, v7, v8, v10, v11>> /\ v3 # "disconnected"
  BY DEF Aes!Turn
<1> HIDE DEF n
<1>3. o \in Aes!Objects
  BY OfItsOwn DEF Aes!AesInv
<1>4. v2' = [p \in Aes!Objects |-> IF p = o THEN n ELSE v2[p]]
  BY <1>1 DEF Aes!AesInv
<1>5. v12' \subseteq Aes!Objects /\ (v3 # "up" => v12' = {} \/ v12' \subseteq v12)
  BY <1>1, <1>3 DEF Aes!AesInv
<1> DEFINE x == [ono |-> o, n |-> n]
<1>6. v9' \in Seq(Aes!Range(v9'))
  BY <1>1, OneMoreItem DEF Aes!AesInv
<1>7. ASSUME v3 = "up", NEW p \in v12' PROVE Aes!Catches(v9', v10, p, v11[p], v2'[p])
  <2>1. p \in Aes!Objects
    BY <1>5
  <2>2. CASE o \in v8
    <3>1. v9' = Append(v9, x) /\ (p # o => p \in v12)
      BY <1>1, <1>7, <2>2
    <3>2. p # o => Aes!Catches(v9, v10, p, v11[p], v2[p])
      BY <1>7, <3>1 DEF Aes!AesInv
    <3>3. x.ono = o /\ x.n = n /\ v2'[p] = IF p = o THEN n ELSE v2[p]
      BY <1>4, <2>1
    <3>4. v9 \in Seq(Aes!Range(v9))
      BY DEF Aes!AesInv
    <3> HIDE DEF x
    <3>5. IF x.ono = p THEN x.n = v2'[p] ELSE v2'[p] = v2[p] /\ Aes!Catches(v9, v10, p, v11[p], v2[p])
      BY <3>2, <3>3
    <3> QED BY <3>1, <3>4, <3>5, ChangeCatches
  <2>3. CASE o \notin v8
    <3>1. v9' = v9 /\ p \in v12 /\ p # o
      BY <1>1, <2>3
    <3> QED BY <1>4, <1>7, <2>1, <3>1 DEF Aes!AesInv
  <2> QED BY <2>2, <2>3
<1>8. v3 \in {"awaits", "up"} => v8' = {p \in Aes!Range(v7') : Aes!Accepted(p)'}
  BY <1>2 DEF Aes!AesInv, Aes!Accepted
<1>9. v2' = [p \in Aes!Objects |-> v2'[p]]
  BY <1>4
<1>10. v3 \notin {"up", "disconnected"} => v12' = {} /\ v10 = <<>>
  BY <1>5 DEF Aes!AesInv
<1> QED BY <1>2, <1>5, <1>6, <1>7, <1>8, <1>9, <1>10 DEF Aes!AesInv

\* The host listens, takes what is notified, polls, and lets the device go.
LEMMA AesListens ==
    ASSUME Aes!AesInv, Aes!Listen \/ Aes!Notified \/ Aes!PollEvents \/ Aes!Disconnect
    PROVE  Aes!AesInv'
<1>1. UNCHANGED <<v1, v2, v4, v6, v12>>
  BY DEF Aes!Listen, Aes!Notified, Aes!PollEvents, Aes!Disconnect
<1>2. /\ v1' \in Aes70Devices /\ v2' = [o \in Aes!Objects |-> v2'[o]] /\ v12' \subseteq Aes!Objects
      /\ v4' \in Seq([left : Seq(Aes!Objects), depth : Int]) /\ v6' \in Seq(Aes!Objects)
  BY <1>1 DEF Aes!AesInv
<1>3. <<>> \in Seq(Aes!Range(<<>>)) /\ \A o : Aes!About(<<>>, o) = {} /\ Aes!HasLatest(<<>>, o)
  BY DEF Aes!About, Aes!HasLatest
<1>4. CASE Aes!Listen
  <2>1. v3 = "awaits" /\ v3' = "up" /\ v9' = <<>> /\ UNCHANGED <<v7, v8, v10>> /\ v12' = {}
    BY <1>4 DEF Aes!Listen, Aes!AesInv
  <2>2. v8' = {p \in Aes!Range(v7') : Aes!Accepted(p)'}
    BY <1>1, <2>1 DEF Aes!AesInv, Aes!Accepted
  <2>3. v10' \in Seq(Aes!Range(v10')) /\ \A o \in Aes!Objects : Aes!HasLatest(v10', o)
    BY <2>1 DEF Aes!AesInv
  <2> QED BY <1>2, <1>3, <2>1, <2>2, <2>3 DEF Aes!AesInv
<1>5. CASE Aes!Notified
  <2>1. /\ v3 = "up" /\ v3' = "up" /\ v9 # <<>> /\ v9' = Tail(v9) /\ v10' = Append(v10, Head(v9))
        /\ UNCHANGED <<v7, v8, v11>>
    BY <1>5 DEF Aes!Notified
  <2>2. v8' = {p \in Aes!Range(v7') : Aes!Accepted(p)'}
    BY <1>1, <2>1 DEF Aes!AesInv, Aes!Accepted
  <2>3. v9 \in Seq(Aes!Range(v9)) /\ v10 \in Seq(Aes!Range(v10))
    BY DEF Aes!AesInv
  <2>4. v9' \in Seq(Aes!Range(v9')) /\ v10' \in Seq(Aes!Range(v10'))
    BY <2>1, <2>3, OneItemLess, OneMoreItem
  <2>5. \A o \in Aes!Objects : Aes!HasLatest(v10', o)
    BY <2>1, <2>3, LatestStays DEF Aes!AesInv
  <2>6. \A o \in v12' : Aes!Catches(v9', v10', o, v11'[o], v2'[o])
    <3> SUFFICES ASSUME NEW o \in v12' PROVE Aes!Catches(v9', v10', o, v11'[o], v2'[o])
      OBVIOUS
    <3>1. Aes!Catches(v9, v10, o, v11[o], v2[o])
      BY <1>1, <2>1 DEF Aes!AesInv
    <3> QED BY <1>1, <2>1, <2>3, <3>1, NotifiedCatches
  <2> QED BY <1>2, <2>1, <2>2, <2>4, <2>5, <2>6 DEF Aes!AesInv
<1>6. CASE Aes!PollEvents
  <2>1. /\ v3 = "up" /\ v3' = "up" /\ v10' = <<>>
        /\ v11' = [o \in Aes!Objects |->
                     LET of == {i \in DOMAIN v10 : v10[i].ono = o} IN
                     IF of = {} THEN v11[o] ELSE v10[CHOOSE i \in of : \A j \in of : j <= i].n]
        /\ UNCHANGED <<v7, v8, v9>>
    BY <1>6 DEF Aes!PollEvents
  <2>2. v8' = {p \in Aes!Range(v7') : Aes!Accepted(p)'}
    BY <1>1, <2>1 DEF Aes!AesInv, Aes!Accepted
  <2>3. v9' \in Seq(Aes!Range(v9')) /\ DOMAIN v10 = 1..Len(v10)
    BY <2>1 DEF Aes!AesInv
  <2>4. \A o \in v12' : Aes!Catches(v9', v10', o, v11'[o], v2'[o])
    <3> SUFFICES ASSUME NEW o \in v12' PROVE Aes!Catches(v9', v10', o, v11'[o], v2'[o])
      OBVIOUS
    <3>1. o \in Aes!Objects /\ Aes!Catches(v9, v10, o, v11[o], v2[o]) /\ Aes!HasLatest(v10, o)
      BY <1>1, <2>1 DEF Aes!AesInv
    <3>2. LET of == {i \in DOMAIN v10 : v10[i].ono = o}
          IN  v11'[o] = IF of = {} THEN v11[o] ELSE v10[CHOOSE i \in of : \A j \in of : j <= i].n
      BY <2>1, <3>1
    <3>3. Aes!Catches(v9, <<>>, o, v11'[o], v2[o])
      BY <2>3, <3>1, <3>2, PolledCatches
    <3> QED BY <1>1, <2>1, <3>3
  <2> QED BY <1>2, <1>3, <2>1, <2>2, <2>3, <2>4 DEF Aes!AesInv
<1>7. CASE Aes!Disconnect
  <2>1. v3' = "disconnected" /\ v9' = <<>> /\ v10' = <<>>
    BY <1>7 DEF Aes!Disconnect
  <2> QED BY <1>2, <1>3, <2>1 DEF Aes!AesInv
<1> QED BY <1>4, <1>5, <1>6, <1>7

LEMMA AesStep == Aes!WellMade /\ Aes!AesInv /\ [Aes!Next]_(Aes!vars) => Aes!AesInv'
<1> SUFFICES ASSUME Aes!WellMade, Aes!AesInv, [Aes!Next]_(Aes!vars) PROVE Aes!AesInv'
  OBVIOUS
<1>1. CASE UNCHANGED Aes!vars
  BY <1>1 DEF Aes!vars, Aes!AesInv, Aes!Accepted
<1> QED BY <1>1, AesTurn, AesWalks, AesListens DEF Aes!Next

LEMMA AesInvEnough == Aes!AesInv => Aes!HearsEach
<1> SUFFICES ASSUME Aes!AesInv, v3 = "up", v9 = <<>>, v10 = <<>>
             PROVE  /\ \A o \in v12 : v11[o] = v2[o]
                    /\ \A o \in Aes!Range(v7) \ v1.refuse : o \in v8
  BY DEF Aes!HearsEach
<1>1. \A o : Aes!About(<<>>, o) = {}
  BY DEF Aes!About
<1>2. \A o \in v12 : v11[o] = v2[o]
  BY <1>1 DEF Aes!AesInv, Aes!Catches
<1>3. v8 = {o \in Aes!Range(v7) : o \notin v1.refuse}
  BY DEF Aes!AesInv, Aes!Accepted
<1> QED BY <1>2, <1>3

-----------------------------------------------------------------------------
(* That the AES70 plugin finds all that can be reached on a device.         *)

Blocks == [left : Seq(Aes!Objects), depth : Int]

\* What counts in the instance is what counts here.
LEMMA SameCount == \A S : (Aes!IsFiniteSet(S) <=> IsFiniteSet(S)) /\ Aes!Cardinality(S) = Cardinality(S)
  BY DEF Aes!IsFiniteSet, IsFiniteSet, Aes!Cardinality, Cardinality

\* A list is its first and the others.
LEMMA FirstAndOthers ==
    ASSUME NEW S, NEW s \in Seq(S), s # <<>>
    PROVE  Head(s) \in S /\ Tail(s) \in Seq(S) /\ Aes!Range(s) = {Head(s)} \cup Aes!Range(Tail(s))
<1>1. s \in Seq(Aes!Range(s))
  BY OfItsOwn
<1>2. /\ Head(s) = s[1] /\ Len(s) \in Nat /\ Len(s) > 0 /\ Len(Tail(s)) = Len(s) - 1
      /\ \A i \in 1..Len(Tail(s)) : Tail(s)[i] = s[i + 1]
  BY <1>1, OneItemLess
<1>3. Head(s) \in S /\ Tail(s) \in Seq(S)
  BY HeadTailProperties
<1>4. DOMAIN s = 1..Len(s) /\ DOMAIN Tail(s) = 1..Len(Tail(s))
  BY <1>3
<1>5. ASSUME NEW i \in 1..Len(s), i # 1 PROVE i - 1 \in 1..Len(Tail(s)) /\ Tail(s)[i - 1] = s[i]
  <2>1. i - 1 \in 1..Len(Tail(s)) /\ (i - 1) + 1 = i
    BY <1>2, <1>5
  <2> QED BY <1>2, <2>1
<1>6. \A x \in Aes!Range(s) : x = s[1] \/ x \in Aes!Range(Tail(s))
  <2> SUFFICES ASSUME NEW i \in 1..Len(s), i # 1 PROVE s[i] \in Aes!Range(Tail(s))
    BY <1>4 DEF Aes!Range
  <2> QED BY <1>4, <1>5 DEF Aes!Range
<1>7. 1 \in 1..Len(s) /\ \A i \in 1..Len(Tail(s)) : i + 1 \in 1..Len(s)
  BY <1>2
<1>8. s[1] \in Aes!Range(s) /\ Aes!Range(Tail(s)) \subseteq Aes!Range(s)
  BY <1>2, <1>4, <1>7 DEF Aes!Range
<1> QED BY <1>2, <1>3, <1>6, <1>8

\* One more block on top of others.
LEMMA OnTop ==
    ASSUME NEW S, NEW b \in S, NEW t \in Seq(S)
    PROVE  /\ <<b>> \o t \in Seq(S) /\ Len(<<b>> \o t) = Len(t) + 1 /\ (<<b>> \o t)[1] = b
           /\ \A i \in 1..Len(t) : (<<b>> \o t)[i + 1] = t[i]
<1>1. <<b>> \in Seq(S) /\ Len(<<b>>) = 1 /\ <<b>>[1] = b /\ Len(t) \in Nat
  OBVIOUS
<1>2. <<b>> \o t \in Seq(S) /\ Len(<<b>> \o t) = 1 + Len(t)
  BY <1>1, ConcatProperties
<1>3. (<<b>> \o t)[1] = b
  BY <1>1
<1>4. \A i \in 1..Len(t) : (<<b>> \o t)[i + 1] = t[i]
  BY <1>1
<1> QED BY <1>1, <1>2, <1>3, <1>4

\* The member that is met is passed over in its block, whatever comes of it.
LEMMA PassedIs ==
    ASSUME v4 \in Seq(Blocks), v4 # <<>>, Head(v4).left # <<>>
    PROVE  /\ Aes!Passed \in Seq(Blocks) /\ Len(Aes!Passed) = Len(v4) /\ Len(v4) \in Nat /\ 1 \in 1..Len(v4)
           /\ Head(v4) = v4[1] /\ Aes!Member \in Aes!Objects
           /\ Aes!Range(v4[1].left) = {Aes!Member} \cup Aes!Range(Aes!Passed[1].left)
           /\ \A i \in 1..Len(v4) : Aes!Passed[i].depth = v4[i].depth
           /\ \A i \in 1..Len(v4) : i # 1 => Aes!Passed[i] = v4[i]
<1> DEFINE h == Head(v4)
           l == [h EXCEPT !.left = Tail(h.left)]
           t == Tail(v4)
<1>1. /\ h \in Blocks /\ t \in Seq(Blocks) /\ h = v4[1]
      /\ Len(v4) \in Nat /\ Len(v4) > 0 /\ Len(t) = Len(v4) - 1 /\ \A i \in 1..Len(t) : t[i] = v4[i + 1]
  BY HeadTailProperties, LenProperties, EmptySeq
<1>2. h.left \in Seq(Aes!Objects) /\ h.depth \in Int /\ h.left # <<>>
  BY <1>1 DEF Blocks
<1>3. Tail(h.left) \in Seq(Aes!Objects) /\ Head(h.left) \in Aes!Objects
      /\ Aes!Range(h.left) = {Head(h.left)} \cup Aes!Range(Tail(h.left))
  BY <1>2, FirstAndOthers
<1>4. l \in Blocks /\ l.left = Tail(h.left) /\ l.depth = h.depth
  BY <1>1, <1>3 DEF Blocks
<1>5. Aes!Passed = <<l>> \o t /\ Aes!Member = Head(h.left)
  BY DEF Aes!Passed, Aes!Member
<1> HIDE DEF h, l, t
<1>6. /\ Aes!Passed \in Seq(Blocks) /\ Len(Aes!Passed) = Len(t) + 1 /\ Aes!Passed[1] = l
      /\ \A i \in 1..Len(t) : Aes!Passed[i + 1] = t[i]
  BY <1>1, <1>4, <1>5, OnTop
<1>7. ASSUME NEW i \in 1..Len(v4), i # 1 PROVE Aes!Passed[i] = v4[i]
  <2>1. i - 1 \in 1..Len(t) /\ (i - 1) + 1 = i
    BY <1>1, <1>7
  <2> QED BY <1>1, <1>6, <2>1
<1>8. \A i \in 1..Len(v4) : Aes!Passed[i].depth = v4[i].depth
  BY <1>1, <1>4, <1>6, <1>7
<1>9. Len(Aes!Passed) = Len(v4) /\ 1 \in 1..Len(v4)
  BY <1>1, <1>6
<1> QED BY <1>1, <1>3, <1>4, <1>5, <1>6, <1>7, <1>8, <1>9 DEF h

\* A step of the walk: at its limit of objects it leaves the block; a member met
\* before is passed over, and so is a block too deep or mute; a block is entered.
Meets(o) == o \notin v5 /\ v5' = v5 \cup {o}
Finds(o) == v6' = IF Aes!IsBlock(o) \/ ~Aes!Answers(o) THEN v6 ELSE Append(v6, o)
Enters(o) == /\ Aes!IsBlock(o) /\ Aes!Answers(o) /\ Len(v4') = Len(v4) + 1
             /\ v4'[1] = [left |-> v1.members[o], depth |-> v4[1].depth + 1]
             /\ \A i \in 1..Len(v4) : v4'[i + 1] = Aes!Passed[i]
LEMMA WalkSteps ==
    ASSUME Aes!WellMade, Aes!AesInv, Aes!Walk
    PROVE  /\ v4 \in Seq(Blocks) /\ v4 # <<>> /\ Head(v4).left # <<>>
           /\ \/ Len(v6) >= 4096 /\ v4' = Tail(v4) /\ UNCHANGED <<v5, v6>>
              \/ Aes!Member \in v5 /\ v4' = Aes!Passed /\ UNCHANGED <<v5, v6>>
              \/ /\ Meets(Aes!Member) /\ Finds(Aes!Member) /\ v4' = Aes!Passed
                 /\ Aes!IsBlock(Aes!Member) => v4[1].depth + 1 >= 8 \/ ~Aes!Answers(Aes!Member)
              \/ Meets(Aes!Member) /\ Finds(Aes!Member) /\ Enters(Aes!Member)
<1>1. v4 \in Seq(Blocks) /\ v4 # <<>> /\ Head(v4).left # <<>>
  BY DEF Aes!Walk, Aes!AesInv, Blocks
<1>2. Head(v4) = v4[1] /\ Head(v4) \in Blocks /\ Aes!Passed \in Seq(Blocks) /\ Len(Aes!Passed) = Len(v4)
  BY <1>1, PassedIs, HeadTailProperties
<1>3. CASE Len(v6) >= 4096
  BY <1>1, <1>3 DEF Aes!Walk
<1>4. CASE ~(Len(v6) >= 4096) /\ Aes!Member \in v5
  BY <1>1, <1>4 DEF Aes!Walk, Aes!NotMet
<1>5. CASE ~(Len(v6) >= 4096) /\ Aes!Member \notin v5
  <2> DEFINE o == Aes!Member
             b == [left |-> v1.members[o], depth |-> v4[1].depth + 1]
  <2>1. /\ v5' = v5 \cup {o} /\ v6' = IF Aes!IsBlock(o) \/ ~Aes!Answers(o) THEN v6 ELSE Append(v6, o)
        /\ v4' = IF Aes!IsBlock(o) THEN Aes!BlockEntered(o, Aes!Passed) ELSE Aes!Passed
    BY <1>5 DEF Aes!Walk, Aes!NotMet
  <2>2. Meets(o) /\ Finds(o)
    BY <1>5, <2>1 DEF Meets, Finds
  <2>3. CASE Aes!IsBlock(o) /\ Aes!Answers(o) /\ ~(v4[1].depth + 1 >= 8)
    <3>1. v4' = <<b>> \o Aes!Passed
      BY <1>2, <2>1, <2>3 DEF Aes!BlockEntered
    <3>2. v1.members[o] \in Seq(Aes!Objects)
      BY <2>3, MembersAreObjects DEF Aes!IsBlock, Aes!AesInv
    <3>3. b \in Blocks
      BY <1>2, <3>2 DEF Blocks
    <3> HIDE DEF o, b
    <3>4. /\ Len(v4') = Len(v4) + 1 /\ v4'[1] = b
          /\ \A i \in 1..Len(v4) : v4'[i + 1] = Aes!Passed[i]
      BY <1>2, <3>1, <3>3, OnTop
    <3> QED BY <1>1, <2>2, <2>3, <3>4 DEF Enters, o, b
  <2>4. CASE ~(Aes!IsBlock(o) /\ Aes!Answers(o) /\ ~(v4[1].depth + 1 >= 8))
    <3>1. v4' = Aes!Passed
      BY <1>2, <2>1, <2>4 DEF Aes!BlockEntered
    <3> QED BY <1>1, <2>2, <2>4, <3>1
  <2> QED BY <2>3, <2>4
<1> QED BY <1>3, <1>4, <1>5

\* All that a device lists is a set that has the root and what it leads to.
LEMMA OwnIsComplete ==
    ASSUME Aes!WellMade, Aes!AesInv
    PROVE  Aes!Own(v1) \in SUBSET Aes!Objects /\ Aes!Complete(Aes!Own(v1))
<1>1. v1 \in Aes70Devices /\ "root" \in DOMAIN v1.members
  BY DEF Aes!AesInv, Aes!WellMade
<1>2. \A b \in DOMAIN v1.members : Aes!Range(v1.members[b]) \subseteq Aes!Own(v1)
  BY DEF Aes!Own
<1> QED BY <1>1, <1>2 DEF Aes!Own, Aes!Objects, Aes!Complete, Aes!IsBlock

\* One more is found: each once, and it is one of those met.
LEMMA FoundGrows ==
    ASSUME v6 \in Seq(Aes!Objects), NEW o \in Aes!Objects, Meets(o), Finds(o), v1' = v1, "root" \in DOMAIN v1.members,
           Aes!IsInjective(v6), Aes!Range(v6) = {x \in v5 : ~Aes!IsBlock(x) /\ Aes!Answers(x)}
    PROVE  /\ Aes!IsInjective(v6)' /\ Aes!Range(v6)' = {x \in v5' : ~Aes!IsBlock(x)' /\ Aes!Answers(x)'}
           /\ Len(v6) \in Nat /\ Len(v6') \in Nat /\ Len(v6') <= Len(v6) + 1
<1>1. \A x : (Aes!IsBlock(x)' <=> Aes!IsBlock(x)) /\ (Aes!Answers(x)' <=> Aes!Answers(x))
  BY DEF Aes!IsBlock, Aes!Answers
<1>2. Len(v6) \in Nat /\ DOMAIN v6 = 1..Len(v6)
  OBVIOUS
<1>3. CASE Aes!IsBlock(o) \/ ~Aes!Answers(o)
  <2>1. v6' = v6 /\ v5' = v5 \cup {o}
    BY <1>3 DEF Finds, Meets
  <2>2. Aes!Range(v6)' = {x \in v5' : ~Aes!IsBlock(x) /\ Aes!Answers(x)}
    BY <1>3, <2>1 DEF Aes!Range
  <2> QED BY <1>1, <1>2, <2>1, <2>2 DEF Aes!IsInjective
<1>4. CASE ~(Aes!IsBlock(o) \/ ~Aes!Answers(o))
  <2>1. v6' = Append(v6, o) /\ v5' = v5 \cup {o} /\ o \notin v5
    BY <1>4 DEF Finds, Meets
  <2> DEFINE n == Len(v6)
  <2>2. n \in Nat /\ v6' \in Seq(Aes!Objects) /\ Len(v6') = n + 1 /\ v6'[n + 1] = o /\ \A i \in 1..n : v6'[i] = v6[i]
    BY <2>1, AppendProperties, LenProperties
  <2>3. DOMAIN v6' = 1..(n + 1) /\ DOMAIN v6 = 1..n
    BY <2>2
  <2> HIDE DEF n
  <2>4. \A i \in 1..(n + 1) : i \in 1..n \/ i = n + 1
    BY <2>2
  <2>5. n + 1 \in 1..(n + 1) /\ \A i \in 1..n : i \in 1..(n + 1)
    BY <2>2
  <2>6. \A x : x \in Aes!Range(v6)' <=> x \in Aes!Range(v6) \/ x = o
    BY <2>2, <2>3, <2>4, <2>5 DEF Aes!Range
  <2>7. o \notin Aes!Range(v6)
    BY <2>1
  <2>8. \A i \in 1..n : v6[i] # o
    BY <2>3, <2>7 DEF Aes!Range
  <2>9. Aes!IsInjective(v6)'
    BY <2>2, <2>3, <2>4, <2>8 DEF Aes!IsInjective
  <2>10. Aes!Range(v6)' = {x \in v5' : ~Aes!IsBlock(x) /\ Aes!Answers(x)}
    BY <1>4, <2>1, <2>6
  <2> QED BY <1>1, <1>2, <2>2, <2>9, <2>10 DEF n
<1> QED BY <1>3, <1>4

\* Nothing that cannot be reached is met, or is still to be passed.
LEMMA StaysWithin ==
    ASSUME Aes!WellMade, Aes!AesInv, Aes!Walk, NEW S, Aes!Complete(S), Aes!Within(S)
    PROVE  Aes!Within(S)'
<1> DEFINE o == Aes!Member
           n == Len(v4)
<1>1. v4 \in Seq(Blocks) /\ v4 # <<>> /\ Head(v4).left # <<>>
  BY WalkSteps
<1>2. /\ n \in Nat /\ 1 \in 1..n /\ Aes!Passed \in Seq(Blocks) /\ Len(Aes!Passed) = n
      /\ Aes!Range(v4[1].left) = {o} \cup Aes!Range(Aes!Passed[1].left)
      /\ \A i \in 1..n : i # 1 => Aes!Passed[i] = v4[i]
  BY <1>1, PassedIs
<1>3. v5 \subseteq S /\ \A i \in 1..n : Aes!Range(v4[i].left) \subseteq S
  BY <1>1 DEF Aes!Within
<1>4. o \in S /\ \A i \in 1..n : Aes!Range(Aes!Passed[i].left) \subseteq S
  BY <1>2, <1>3
<1>5. v4' \in Seq(Blocks)
  BY WalkKeeps DEF Blocks
<1>6. CASE v4' = Tail(v4) /\ UNCHANGED <<v5, v6>>
  <2>1. Len(v4') = n - 1 /\ \A i \in 1..Len(v4') : v4'[i] = v4[i + 1]
    BY <1>1, <1>6, HeadTailProperties
  <2>2. \A i \in 1..Len(v4') : i + 1 \in 1..n
    BY <1>2, <2>1
  <2>3. \A i \in 1..Len(v4') : Aes!Range(v4'[i].left) \subseteq S
    BY <1>3, <2>1, <2>2
  <2> QED BY <1>3, <1>5, <1>6, <2>3 DEF Aes!Within
<1>7. CASE v4' = Aes!Passed /\ (Meets(o) \/ UNCHANGED <<v5, v6>>)
  <2>1. v5' \subseteq S
    BY <1>3, <1>4, <1>7 DEF Meets
  <2> QED BY <1>2, <1>4, <1>5, <1>7, <2>1 DEF Aes!Within
<1>8. CASE Meets(o) /\ Enters(o)
  <2>1. v5' \subseteq S
    BY <1>3, <1>4, <1>8 DEF Meets
  <2>2. Aes!Range(v1.members[o]) \subseteq S
    BY <1>4, <1>8 DEF Enters, Aes!Complete
  <2>3. Len(v4') = n + 1 /\ v4'[1].left = v1.members[o] /\ \A i \in 1..n : v4'[i + 1] = Aes!Passed[i]
    BY <1>8 DEF Enters
  <2> HIDE DEF n, o
  <2>4. ASSUME NEW i \in 1..(n + 1), i # 1 PROVE Aes!Range(v4'[i].left) \subseteq S
    <3>1. i - 1 \in 1..n /\ (i - 1) + 1 = i
      BY <1>2, <2>4
    <3> QED BY <1>4, <2>3, <3>1
  <2>5. \A i \in 1..Len(v4') : Aes!Range(v4'[i].left) \subseteq S
    BY <2>2, <2>3, <2>4
  <2> QED BY <1>5, <2>1, <2>5 DEF Aes!Within
<1> QED BY <1>6, <1>7, <1>8, WalkSteps

\* A step that does not walk leaves the walk as it is; connect() begins it.
LEMMA BesideTheWalk ==
    ASSUME Aes!AesInv, [Aes!Next]_(Aes!vars)
    PROVE  \/ Aes!Connect \/ Aes!Walk \/ Aes!Return
           \/ /\ UNCHANGED <<v1, v4, v5, v6>>
              /\ (v3 \in {"made", "down"}) = (v3' \in {"made", "down"})
              /\ v3 = "walks" /\ v3' # "walks" => v4 = <<>>
              /\ v3 # "walks" => v3' # "walks"
<1>1. CASE UNCHANGED Aes!vars
  BY <1>1 DEF Aes!vars
<1>2. CASE Aes!Turn \/ Aes!Spawn \/ Aes!Enumerated \/ Aes!Subscribe
  BY <1>2 DEF Aes!Turn, Aes!Spawn, Aes!Enumerated, Aes!Subscribe
<1>3. CASE Aes!Listen \/ Aes!Notified \/ Aes!PollEvents \/ Aes!Disconnect
  BY <1>3 DEF Aes!Listen, Aes!Notified, Aes!PollEvents, Aes!Disconnect
<1> QED BY <1>1, <1>2, <1>3 DEF Aes!Next

\* The root is met first, and its members are to be passed if it answers.
LEMMA Begins ==
    ASSUME Aes!WellMade, Aes!AesInv, Aes!Connect
    PROVE  /\ v1' = v1 /\ v6' = v6 /\ v5' = {"root"} /\ v3 = "down" /\ v3' = "walks"
           /\ "root" \in DOMAIN v1.members /\ v4' \in Seq(Blocks) /\ Len(v4') = 1 /\ v4'[1].depth = 0
           /\ Aes!Range(v4'[1].left) = IF Aes!Answers("root") THEN Aes!Range(v1.members["root"]) ELSE {}
<1> DEFINE l == IF Aes!Answers("root") THEN v1.members["root"] ELSE <<>>
           b == [left |-> l, depth |-> 0]
<1>1. v1' = v1 /\ v6' = v6 /\ v5' = {"root"} /\ v3 = "down" /\ v3' = "walks" /\ v4' = <<b>>
  BY DEF Aes!Connect
<1>2. "root" \in DOMAIN v1.members /\ v1.members["root"] \in Seq(Aes!Objects)
  BY MembersAreObjects DEF Aes!AesInv, Aes!WellMade
<1>3. Aes!Range(<<>>) = {} /\ <<>> \in Seq(Aes!Objects)
  BY DEF Aes!Range
<1>4. l \in Seq(Aes!Objects) /\ Aes!Range(l) = IF Aes!Answers("root") THEN Aes!Range(v1.members["root"]) ELSE {}
  BY <1>2, <1>3
<1> HIDE DEF l
<1>5. b \in Blocks /\ b.depth = 0 /\ b.left = l
  BY <1>4 DEF Blocks
<1> HIDE DEF b
<1>6. <<b>> \in Seq(Blocks) /\ Len(<<b>>) = 1 /\ <<b>>[1] = b
  BY <1>5
<1> QED BY <1>1, <1>2, <1>4, <1>5, <1>6

LEMMA WalkInvInit == Aes!Init => Aes!WalkInv
<1> SUFFICES ASSUME Aes!Init PROVE Aes!WalkInv
  OBVIOUS
<1>1. v4 = <<>> /\ v5 = {} /\ v6 = <<>> /\ v3 = "made"
  BY DEF Aes!Init
<1>2. DOMAIN <<>> = {}
  OBVIOUS
<1> QED BY <1>1, <1>2 DEF Aes!WalkInv, Aes!Within, Aes!IsInjective, Aes!Range

LEMMA WalkInvStep == Aes!WellMade /\ Aes!AesInv /\ Aes!WalkInv /\ [Aes!Next]_(Aes!vars) => Aes!WalkInv'
<1> SUFFICES ASSUME Aes!WellMade, Aes!AesInv, Aes!WalkInv, [Aes!Next]_(Aes!vars) PROVE Aes!WalkInv'
  OBVIOUS
<1> DEFINE FoundInv == Aes!IsInjective(v6) /\ Aes!Range(v6) = {x \in v5 : ~Aes!IsBlock(x) /\ Aes!Answers(x)}
           AllWithin == \A S \in SUBSET Aes!Objects : Aes!Complete(S) => Aes!Within(S)
<1>1. FoundInv /\ AllWithin /\ "root" \in DOMAIN v1.members
  BY DEF Aes!WalkInv, Aes!WellMade, Aes!AesInv
<1>2. ASSUME v1' = v1
      PROVE  /\ Aes!Objects' = Aes!Objects /\ \A S : Aes!Complete(S)' <=> Aes!Complete(S)
             /\ \A x : (Aes!IsBlock(x)' <=> Aes!IsBlock(x)) /\ (Aes!Answers(x)' <=> Aes!Answers(x))
  BY <1>2 DEF Aes!Objects, Aes!Own, Aes!Complete, Aes!IsBlock, Aes!Answers
<1>3. CASE Aes!Connect
  <2>1. /\ v1' = v1 /\ v6' = v6 /\ v5' = {"root"} /\ v3 = "down" /\ v3' = "walks"
        /\ v4' \in Seq(Blocks) /\ Len(v4') = 1
        /\ Aes!Range(v4'[1].left) = IF Aes!Answers("root") THEN Aes!Range(v1.members["root"]) ELSE {}
    BY <1>3, Begins
  <2>2. v6 = <<>> /\ Aes!IsBlock("root")
    BY <1>1, <2>1 DEF Aes!WalkInv, Aes!IsBlock
  <2>3. FoundInv'
    <3>1. Aes!Range(<<>>) = {} /\ Aes!IsInjective(<<>>)
      BY DEF Aes!Range, Aes!IsInjective
    <3> QED BY <1>2, <2>1, <2>2, <3>1
  <2>4. AllWithin'
    <3> SUFFICES ASSUME NEW S, Aes!Complete(S) PROVE Aes!Within(S)'
      BY <1>2, <2>1
    <3>1. "root" \in S /\ (Aes!Answers("root") => Aes!Range(v1.members["root"]) \subseteq S)
      BY <2>2 DEF Aes!Complete
    <3>2. DOMAIN v4' = {1}
      BY <2>1
    <3> QED BY <2>1, <3>1, <3>2 DEF Aes!Within
  <2> QED BY <2>1, <2>3, <2>4 DEF Aes!WalkInv
<1>4. CASE Aes!Walk
  <2>1. v1' = v1 /\ v3 = "walks" /\ v3' = "walks"
    BY <1>4 DEF Aes!Walk
  <2>2. AllWithin'
    BY <1>1, <1>2, <1>4, <2>1, StaysWithin
  <2>3. FoundInv'
    <3>1. v6 \in Seq(Aes!Objects) /\ Aes!Member \in Aes!Objects
      BY <1>4, WalkSteps, PassedIs DEF Aes!AesInv
    <3>2. CASE UNCHANGED <<v5, v6>>
      BY <1>1, <1>2, <2>1, <3>2
    <3>3. CASE Meets(Aes!Member) /\ Finds(Aes!Member)
      BY <1>1, <2>1, <3>1, <3>3, FoundGrows
    <3> QED BY <1>4, <3>2, <3>3, WalkSteps
  <2> QED BY <2>1, <2>2, <2>3 DEF Aes!WalkInv
<1>5. CASE Aes!Return
  <2>1. /\ v1' = v1 /\ v5' = v5 /\ v6' = v6 /\ v3 = "walks" /\ v3' = "walks" /\ v4' = Tail(v4)
        /\ v4 \in Seq(Blocks) /\ v4 # <<>>
    BY <1>5 DEF Aes!Return, Aes!AesInv, Blocks
  <2>2. AllWithin'
    <3> SUFFICES ASSUME NEW S \in SUBSET Aes!Objects, Aes!Complete(S) PROVE Aes!Within(S)'
      BY <1>2, <2>1
    <3>1. Aes!Within(S)
      BY <1>1
    <3>2. v4' \in Seq(Blocks) /\ Len(v4') = Len(v4) - 1 /\ \A i \in 1..Len(v4') : v4'[i] = v4[i + 1]
      BY <2>1, HeadTailProperties
    <3>3. ASSUME NEW i \in 1..Len(v4') PROVE i + 1 \in DOMAIN v4
      BY <2>1, <3>2, <3>3
    <3>4. DOMAIN v4' = 1..Len(v4')
      BY <3>2
    <3> QED BY <2>1, <3>1, <3>2, <3>3, <3>4 DEF Aes!Within
  <2> QED BY <1>1, <1>2, <2>1, <2>2 DEF Aes!WalkInv
<1>6. CASE /\ UNCHANGED <<v1, v4, v5, v6>>
           /\ (v3 \in {"made", "down"}) = (v3' \in {"made", "down"})
           /\ v3 = "walks" /\ v3' # "walks" => v4 = <<>>
           /\ v3 # "walks" => v3' # "walks"
  <2>1. AllWithin'
    BY <1>1, <1>2, <1>6 DEF Aes!Within
  <2>2. FoundInv'
    BY <1>1, <1>2, <1>6
  <2>3. (v3' \in {"made", "down"} => v5' = {} /\ v6' = <<>>) /\ (v3' # "walks" => v4' = <<>>)
    BY <1>6 DEF Aes!WalkInv
  <2> QED BY <2>1, <2>2, <2>3 DEF Aes!WalkInv
<1> QED BY <1>3, <1>4, <1>5, <1>6, BesideTheWalk

\* The walk keeps to its limit of objects: there are more met than found, and no
\* more met than the device has.
LEMMA RoomForMore ==
    ASSUME Aes!WellMade, Aes!AllFit, Aes!AesInv, Aes!WalkInv, Aes!WholeInv, v3 = "walks"
    PROVE  ~(Len(v6) >= 4096) /\ IsFiniteSet(v5) /\ Cardinality(v5) \in Nat /\ Len(v6) < Cardinality(v5)
<1>1. v1 \in Aes70Devices /\ Len(v6) \in Nat
  BY DEF Aes!AesInv
<1>2. IsFiniteSet(Aes!Own(v1)) /\ Cardinality(Aes!Own(v1)) <= 4096
  BY <1>1, SameCount DEF Aes!AllFit, Aes!Fits
<1>3. v5 \subseteq Aes!Own(v1)
  BY OwnIsComplete DEF Aes!WalkInv, Aes!Within
<1>4. IsFiniteSet(v5) /\ Cardinality(v5) <= Cardinality(Aes!Own(v1)) /\ Cardinality(v5) \in Nat
      /\ Cardinality(Aes!Own(v1)) \in Nat
  BY <1>2, <1>3, FS_Subset, FS_CardinalityType
<1>5. Len(v6) < Cardinality(v5)
  BY SameCount DEF Aes!WholeInv
<1> QED BY <1>1, <1>2, <1>4, <1>5

\* A chain of blocks with one more, that the last lists and that is none of them.
Chained(d, p, n) == n \in Nat /\ n # 0 /\ p \in [1..n -> DOMAIN d.members] /\ Aes!Chain(d, p, n)
Follows(d, p, n, o) == o \in DOMAIN d.members /\ o \in Aes!Range(d.members[p[n]]) /\ \A i \in 1..n : p[i] # o
Longer(p, n, o) == [i \in 1..(n + 1) |-> IF i = n + 1 THEN o ELSE p[i]]
LEMMA LongerChain ==
    ASSUME NEW d, NEW p, NEW n, NEW o, Chained(d, p, n), Follows(d, p, n, o)
    PROVE  /\ Chained(d, Longer(p, n, o), n + 1)
           /\ Longer(p, n, o)[n + 1] = o /\ \A i \in 1..n : Longer(p, n, o)[i] = p[i]
<1>0. /\ n \in Nat /\ n # 0 /\ p \in [1..n -> DOMAIN d.members] /\ Aes!Chain(d, p, n)
      /\ o \in DOMAIN d.members /\ o \in Aes!Range(d.members[p[n]]) /\ \A i \in 1..n : p[i] # o
  BY DEF Chained, Follows
<1> DEFINE q == Longer(p, n, o)
<1>1. /\ \A i \in 1..(n + 1) : i \in 1..n \/ i = n + 1
      /\ \A i \in 1..n : i \in 1..(n + 1) /\ i # n + 1
      /\ 1 \in 1..n /\ n \in 1..n /\ n + 1 \in 1..(n + 1) /\ (n + 1) - 1 = n
      /\ n + 1 \in Nat /\ n + 1 # 0
  BY <1>0
<1>2. q[n + 1] = o /\ \A i \in 1..n : q[i] = p[i]
  BY <1>0, <1>1 DEF Longer
<1>3. q \in [1..(n + 1) -> DOMAIN d.members]
  BY <1>0, <1>1 DEF Longer
<1> HIDE DEF q
<1>4. p[1] = "root" /\ (\A i \in 1..(n - 1) : p[i + 1] \in Aes!Range(d.members[p[i]]))
      /\ \A i, j \in 1..n : p[i] = p[j] => i = j
  BY <1>0 DEF Aes!Chain
<1>5. ASSUME NEW i \in 1..n PROVE q[i + 1] \in Aes!Range(d.members[q[i]])
  <2>1. CASE i = n
    BY <1>0, <1>1, <1>2, <2>1
  <2>2. CASE i # n
    <3>1. i \in 1..(n - 1) /\ i + 1 \in 1..n
      BY <1>0, <2>2
    <3> QED BY <1>2, <1>4, <3>1
  <2> QED BY <2>1, <2>2
<1>6. ASSUME NEW i \in 1..(n + 1), NEW j \in 1..(n + 1), q[i] = q[j] PROVE i = j
  <2>1. CASE i \in 1..n /\ j \in 1..n
    BY <1>2, <1>4, <1>6, <2>1
  <2>2. CASE i = n + 1 \/ j = n + 1
    BY <1>0, <1>1, <1>2, <1>6, <2>2
  <2> QED BY <1>1, <2>1, <2>2
<1>7. Aes!Chain(d, q, n + 1)
  BY <1>1, <1>2, <1>4, <1>5, <1>6 DEF Aes!Chain
<1> QED BY <1>1, <1>2, <1>3, <1>7 DEF q, Chained

\* A chain without its last block.
Shorter(p, n) == [i \in 1..(n - 1) |-> p[i]]
LEMMA ShorterChain ==
    ASSUME NEW d, NEW p, NEW n, n # 1, Chained(d, p, n)
    PROVE  Chained(d, Shorter(p, n), n - 1) /\ \A i \in 1..(n - 1) : Shorter(p, n)[i] = p[i]
<1>0. n \in Nat /\ n # 0 /\ p \in [1..n -> DOMAIN d.members] /\ Aes!Chain(d, p, n)
  BY DEF Chained
<1> DEFINE q == Shorter(p, n)
<1>1. (\A i \in 1..(n - 1) : i \in 1..n) /\ n - 1 \in Nat /\ n - 1 # 0
  BY <1>0
<1>2. q \in [1..(n - 1) -> DOMAIN d.members] /\ (\A i \in 1..(n - 1) : q[i] = p[i]) /\ 1 \in 1..(n - 1)
  BY <1>0, <1>1 DEF Shorter
<1> HIDE DEF q
<1>3. \A i \in 1..((n - 1) - 1) : i \in 1..(n - 1) /\ i + 1 \in 1..(n - 1)
  BY <1>0
<1>4. p[1] = "root" /\ (\A i \in 1..(n - 1) : p[i + 1] \in Aes!Range(d.members[p[i]]))
      /\ \A i, j \in 1..n : p[i] = p[j] => i = j
  BY <1>0 DEF Aes!Chain
<1>5. \A i \in 1..((n - 1) - 1) : q[i + 1] \in Aes!Range(d.members[q[i]])
  BY <1>2, <1>3, <1>4
<1>6. \A i, j \in 1..(n - 1) : q[i] = q[j] => i = j
  BY <1>1, <1>2, <1>4
<1>7. Aes!Chain(d, q, n - 1)
  BY <1>2, <1>4, <1>5, <1>6 DEF Aes!Chain
<1> QED BY <1>1, <1>2, <1>7 DEF q, Chained

\* The member that is met is listed in the block on top, and if it is a block that
\* was not met it makes the chain longer; so the walk keeps to its depth.
OnChain(p) == p \in [1..Len(v4) -> DOMAIN v1.members] /\ Aes!UnderWay(p)
LEMMA OnChainIs ==
    ASSUME NEW p, OnChain(p), Len(v4) \in Nat, Len(v4) # 0
    PROVE  /\ Chained(v1, p, Len(v4)) /\ \A i \in 1..Len(v4) : p[i] \in v5
           /\ v4[1].depth = Len(v4) - 1 /\ Aes!Range(v4[1].left) \subseteq Aes!Range(v1.members[p[Len(v4)]])
<1> DEFINE n == Len(v4)
<1>1. n \in 1..n /\ (n + 1) - n = 1
  OBVIOUS
<1>2. Aes!Chain(v1, p, n) /\ \A i \in 1..n : p[i] \in v5
  BY DEF OnChain, Aes!UnderWay
<1>3. \A i \in 1..n : LET block == v4[(n + 1) - i]
                      IN  block.depth = i - 1 /\ Aes!Range(block.left) \subseteq Aes!Range(v1.members[p[i]])
  BY DEF OnChain, Aes!UnderWay
<1>4. v4[1].depth = n - 1 /\ Aes!Range(v4[1].left) \subseteq Aes!Range(v1.members[p[n]])
  BY <1>1, <1>3
<1> QED BY <1>1, <1>2, <1>4 DEF OnChain, Chained

LEMMA ChainOn ==
    ASSUME Aes!WellMade, Aes!AllFit, Aes!AesInv, Aes!WholeInv, Aes!Walk,
           Aes!IsBlock(Aes!Member), Aes!Member \notin v5, NEW p, OnChain(p)
    PROVE  /\ Chained(v1, p, Len(v4)) /\ Follows(v1, p, Len(v4), Aes!Member)
           /\ Len(v4) \in Nat /\ Len(v4) # 0 /\ Len(v4) < 8 /\ v4[1].depth = Len(v4) - 1
<1> DEFINE n == Len(v4)
           o == Aes!Member
<1>1. n \in Nat /\ n # 0 /\ o \in Aes!Range(v4[1].left)
  BY WalkSteps, PassedIs
<1>2. o \in DOMAIN v1.members /\ v1 \in Aes70Devices /\ n <= 8
  BY <1>1 DEF Aes!IsBlock, Aes!AesInv, Aes!WholeInv
<1>3. /\ Chained(v1, p, n) /\ \A i \in 1..n : p[i] \in v5
      /\ v4[1].depth = n - 1 /\ Aes!Range(v4[1].left) \subseteq Aes!Range(v1.members[p[n]])
  BY <1>1, OnChainIs
<1> HIDE DEF n, o
<1>4. Follows(v1, p, n, o)
  BY <1>1, <1>2, <1>3 DEF Follows, o
<1>5. n # 8
  <2> SUFFICES ASSUME n = 8 PROVE FALSE
    OBVIOUS
  <2> DEFINE q == Longer(p, n, o)
  <2>1. Chained(v1, q, n + 1)
    BY <1>3, <1>4, LongerChain
  <2> HIDE DEF q
  <2>2. q \in [1..(8 + 1) -> DOMAIN v1.members] /\ Aes!Chain(v1, q, 8 + 1)
    BY <2>1 DEF Chained
  <2>3. Aes!Fits(v1)
    BY <1>2 DEF Aes!AllFit
  <2>4. \A r \in [1..(8 + 1) -> DOMAIN v1.members] : ~Aes!Chain(v1, r, 8 + 1)
    BY <2>3 DEF Aes!Fits
  <2> QED BY <2>2, <2>4
<1>6. n < 8
  BY <1>1, <1>2, <1>5
<1> QED BY <1>1, <1>3, <1>4, <1>6 DEF n, o

\* What makes a chain of the blocks that are under way after a step.
NextBlocks(p, n) ==
    \A i \in 1..n : /\ p[i] \in v5' /\ v4'[(n + 1) - i].depth = i - 1
                    /\ Aes!Range(v4'[(n + 1) - i].left) \subseteq Aes!Range(v1.members[p[i]])
LEMMA ChainGoesOn ==
    ASSUME NEW p, NEW n, v1' = v1, Len(v4') = n, Chained(v1, p, n), NextBlocks(p, n)
    PROVE  OnChain(p)'
<1>1. n \in Nat /\ Aes!Chain(v1, p, n) /\ p \in [1..n -> DOMAIN v1.members]
  BY DEF Chained
<1>2. p \in [1..Len(v4') -> DOMAIN v1'.members]
  BY <1>1
<1>3. Aes!Chain(v1, p, Len(v4))'
  BY <1>1 DEF Aes!Chain
<1>4. \A i \in 1..Len(v4') : /\ p[i] \in v5' /\ v4'[(Len(v4') + 1) - i].depth = i - 1
                             /\ Aes!Range(v4'[(Len(v4') + 1) - i].left) \subseteq Aes!Range(v1'.members[p[i]])
  BY <1>1 DEF NextBlocks
<1>5. Aes!UnderWay(p)'
  BY <1>3, <1>4 DEF Aes!UnderWay
<1> QED BY <1>2, <1>5 DEF OnChain

LEMMA OnChainAt ==
    ASSUME NEW p, OnChain(p), Len(v4) \in Nat
    PROVE  \A i \in 1..Len(v4) : /\ p[i] \in v5 /\ v4[(Len(v4) + 1) - i].depth = i - 1
                                 /\ Aes!Range(v4[(Len(v4) + 1) - i].left) \subseteq Aes!Range(v1.members[p[i]])
<1> SUFFICES ASSUME NEW i \in 1..Len(v4)
             PROVE  /\ p[i] \in v5 /\ v4[(Len(v4) + 1) - i].depth = i - 1
                    /\ Aes!Range(v4[(Len(v4) + 1) - i].left) \subseteq Aes!Range(v1.members[p[i]])
  OBVIOUS
<1>1. Aes!UnderWay(p)
  BY DEF OnChain
<1> QED BY <1>1 DEF Aes!UnderWay

\* Another step of the walk is on the same chain, or on one longer by the member
\* that is entered.
LEMMA WalksOnChain ==
    ASSUME Aes!WellMade, Aes!AllFit, Aes!AesInv, Aes!WalkInv, Aes!WholeInv, Aes!Walk
    PROVE  Len(v4') <= 8 /\ \E p : OnChain(p)'
<1> DEFINE n == Len(v4)
           o == Aes!Member
<1>1. /\ v4 \in Seq(Blocks) /\ v4 # <<>> /\ n \in Nat /\ n # 0 /\ n <= 8 /\ v1' = v1 /\ v3 = "walks"
      /\ Len(Aes!Passed) = n
      /\ Aes!Range(v4[1].left) = {o} \cup Aes!Range(Aes!Passed[1].left)
      /\ \A i \in 1..n : Aes!Passed[i].depth = v4[i].depth
      /\ \A i \in 1..n : i # 1 => Aes!Passed[i] = v4[i]
  BY WalkSteps, PassedIs DEF Aes!Walk, Aes!WholeInv
<1>2. PICK p : OnChain(p)
  BY <1>1 DEF Aes!WholeInv, OnChain
<1>3. /\ Chained(v1, p, n)
      /\ \A i \in 1..n : /\ p[i] \in v5 /\ v4[(n + 1) - i].depth = i - 1
                         /\ Aes!Range(v4[(n + 1) - i].left) \subseteq Aes!Range(v1.members[p[i]])
  BY <1>1, <1>2, OnChainIs, OnChainAt
<1>4. \A i \in 1..n : Aes!Range(Aes!Passed[i].left) \subseteq Aes!Range(v4[i].left)
  BY <1>1
<1>5. ~(Len(v6) >= 4096)
  BY <1>1, RoomForMore
<1>6. CASE v4' = Aes!Passed /\ (Meets(o) \/ UNCHANGED <<v5, v6>>)
  <2>1. v5 \subseteq v5' /\ Len(v4') = n
    BY <1>1, <1>6 DEF Meets
  <2>2. \A i \in 1..n : (n + 1) - i \in 1..n
    BY <1>1
  <2>3. NextBlocks(p, n)
    BY <1>1, <1>3, <1>4, <1>6, <2>1, <2>2 DEF NextBlocks
  <2>4. OnChain(p)'
    BY <1>1, <1>3, <2>1, <2>3, ChainGoesOn
  <2> QED BY <1>1, <2>1, <2>4
<1>7. CASE Meets(o) /\ Enters(o)
  <2>1. PICK m, b : m = n /\ b = o
    OBVIOUS
  <2> DEFINE q == Longer(p, m, b)
  <2>2. o \notin v5 /\ v5' = v5 \cup {o} /\ Aes!IsBlock(o) /\ Len(v4') = n + 1
        /\ v4'[1].left = v1.members[o] /\ v4'[1].depth = v4[1].depth + 1
        /\ \A i \in 1..n : v4'[i + 1] = Aes!Passed[i]
    BY <1>7 DEF Meets, Enters
  <2>3. Follows(v1, p, n, o) /\ n < 8 /\ v4[1].depth = n - 1
    BY <1>2, <2>2, ChainOn
  <2> HIDE DEF n, o
  <2>4. Chained(v1, q, m + 1) /\ q[m + 1] = b /\ \A i \in 1..m : q[i] = p[i]
    BY <1>3, <2>1, <2>3, LongerChain
  <2> HIDE DEF q
  <2>5. ASSUME NEW i \in 1..m
        PROVE  /\ q[i] \in v5' /\ v4'[((m + 1) + 1) - i].depth = i - 1
               /\ Aes!Range(v4'[((m + 1) + 1) - i].left) \subseteq Aes!Range(v1.members[q[i]])
    <3>1. i \in 1..n /\ (n + 1) - i \in 1..n /\ ((n + 1) - i) + 1 = ((m + 1) + 1) - i
      BY <1>1, <2>1
    <3>2. v4'[((m + 1) + 1) - i] = Aes!Passed[(n + 1) - i] /\ q[i] = p[i]
      BY <2>2, <2>4, <3>1
    <3> QED BY <1>1, <1>3, <1>4, <2>2, <3>1, <3>2
  <2>6. /\ q[m + 1] \in v5' /\ v4'[((m + 1) + 1) - (m + 1)].depth = (m + 1) - 1
        /\ Aes!Range(v4'[((m + 1) + 1) - (m + 1)].left) \subseteq Aes!Range(v1.members[q[m + 1]])
    <3>1. ((m + 1) + 1) - (m + 1) = 1 /\ (n - 1) + 1 = (m + 1) - 1
      BY <1>1, <2>1
    <3> QED BY <2>1, <2>2, <2>3, <2>4, <3>1
  <2>7. \A i \in 1..(m + 1) : i \in 1..m \/ i = m + 1
    BY <1>1, <2>1
  <2>8. NextBlocks(q, m + 1)
    BY <2>5, <2>6, <2>7 DEF NextBlocks
  <2>9. OnChain(q)'
    BY <1>1, <2>1, <2>2, <2>4, <2>8, ChainGoesOn
  <2> QED BY <1>1, <2>2, <2>3, <2>9
<1> QED BY <1>5, <1>6, <1>7, WalkSteps

\* After a block is left the chain is that without it.
LEMMA LeavesTheChain ==
    ASSUME Aes!AesInv, Aes!WholeInv, Aes!Return
    PROVE  Len(v4') <= 8 /\ (v4' # <<>> => \E p : OnChain(p)')
<1> DEFINE n == Len(v4)
<1>1. /\ v4 \in Seq(Blocks) /\ v4 # <<>> /\ v1' = v1 /\ v5' = v5 /\ n \in Nat /\ n # 0 /\ n <= 8
      /\ v4' \in Seq(Blocks) /\ Len(v4') = n - 1 /\ \A i \in 1..(n - 1) : v4'[i] = v4[i + 1]
  BY HeadTailProperties, LenProperties, EmptySeq DEF Aes!Return, Aes!AesInv, Aes!WholeInv, Blocks
<1>2. PICK p : OnChain(p)
  BY <1>1 DEF Aes!WholeInv, OnChain
<1>3. /\ Chained(v1, p, n)
      /\ \A i \in 1..n : /\ p[i] \in v5 /\ v4[(n + 1) - i].depth = i - 1
                         /\ Aes!Range(v4[(n + 1) - i].left) \subseteq Aes!Range(v1.members[p[i]])
  BY <1>1, <1>2, OnChainIs, OnChainAt
<1>4. CASE n = 1
  BY <1>1, <1>4, EmptySeq
<1>5. CASE n # 1
  <2>1. PICK m : m = n
    OBVIOUS
  <2> DEFINE q == Shorter(p, m)
  <2> HIDE DEF n
  <2>2. Chained(v1, q, m - 1) /\ \A i \in 1..(m - 1) : q[i] = p[i]
    BY <1>3, <1>5, <2>1, ShorterChain
  <2> HIDE DEF q
  <2>3. ASSUME NEW i \in 1..(m - 1)
        PROVE  /\ q[i] \in v5' /\ v4'[((m - 1) + 1) - i].depth = i - 1
               /\ Aes!Range(v4'[((m - 1) + 1) - i].left) \subseteq Aes!Range(v1.members[q[i]])
    <3>1. i \in 1..n /\ ((m - 1) + 1) - i \in 1..(n - 1) /\ (((m - 1) + 1) - i) + 1 = (n + 1) - i
      BY <1>1, <2>1
    <3>2. v4'[((m - 1) + 1) - i] = v4[(n + 1) - i]
      BY <1>1, <3>1
    <3> QED BY <1>1, <1>3, <2>2, <3>1, <3>2
  <2>4. NextBlocks(q, m - 1)
    BY <2>3 DEF NextBlocks
  <2>5. OnChain(q)'
    BY <1>1, <2>1, <2>2, <2>4, ChainGoesOn
  <2> QED BY <1>1, <2>5
<1> QED BY <1>4, <1>5

\* The members of a block that was met were met, or are still to be passed.
Listed(b) == \A o \in Aes!Range(v1.members[b]) : o \in v5 \/ \E i \in DOMAIN v4 : o \in Aes!Range(v4[i].left)
AllListed == \A b \in v5 : Aes!IsBlock(b) /\ Aes!Answers(b) => Listed(b)
LEMMA WalkLists ==
    ASSUME Aes!WellMade, Aes!AllFit, Aes!AesInv, Aes!WalkInv, Aes!WholeInv, Aes!Walk, AllListed
    PROVE  AllListed'
<1> DEFINE n == Len(v4)
           o == Aes!Member
<1>1. /\ v4 \in Seq(Blocks) /\ v4 # <<>> /\ n \in Nat /\ v1' = v1 /\ v3 = "walks" /\ 1 \in 1..n
      /\ Aes!Passed \in Seq(Blocks) /\ Len(Aes!Passed) = n
      /\ Aes!Range(v4[1].left) = {o} \cup Aes!Range(Aes!Passed[1].left)
      /\ \A i \in 1..n : i # 1 => Aes!Passed[i] = v4[i]
      /\ v4' \in Seq(Blocks)
  BY WalkSteps, PassedIs, WalkKeeps DEF Aes!Walk, Blocks
<1>2. \A b : (Aes!IsBlock(b)' <=> Aes!IsBlock(b)) /\ (Aes!Answers(b)' <=> Aes!Answers(b))
  BY <1>1 DEF Aes!IsBlock, Aes!Answers
<1>3. ASSUME v5 \subseteq v5', o \in v5',
             \A i \in 1..n : \E j \in DOMAIN v4' : v4'[j] = Aes!Passed[i]
      PROVE  \A b : Listed(b) => Listed(b)'
  <2> SUFFICES ASSUME NEW b, Listed(b), NEW x \in Aes!Range(v1.members[b])
               PROVE  x \in v5' \/ \E j \in DOMAIN v4' : x \in Aes!Range(v4'[j].left)
    BY <1>1 DEF Listed
  <2>1. CASE x \in v5
    BY <1>3, <2>1
  <2>2. ASSUME NEW i \in DOMAIN v4, x \in Aes!Range(v4[i].left) PROVE x = o \/ x \in Aes!Range(Aes!Passed[i].left)
    BY <1>1, <2>2
  <2>3. DOMAIN v4 = 1..n
    BY <1>1
  <2> QED BY <1>3, <2>1, <2>2, <2>3 DEF Listed
<1>4. ~(Len(v6) >= 4096)
  BY <1>1, RoomForMore
<1>5. CASE /\ v4' = Aes!Passed
           /\ \/ o \in v5 /\ UNCHANGED <<v5, v6>>
              \/ Meets(o) /\ (Aes!IsBlock(o) => v4[1].depth + 1 >= 8 \/ ~Aes!Answers(o))
  <2>1. DOMAIN v4' = 1..n
    BY <1>1, <1>5
  <2>2. CASE o \in v5 /\ UNCHANGED <<v5, v6>>
    <3>1. \A b : Listed(b) => Listed(b)'
      BY <1>3, <1>5, <2>1, <2>2
    <3> QED BY <1>2, <2>2, <3>1 DEF AllListed
  <2>3. CASE Meets(o) /\ (Aes!IsBlock(o) => v4[1].depth + 1 >= 8 \/ ~Aes!Answers(o))
    <3>1. o \notin v5 /\ v5' = v5 \cup {o}
      BY <2>3 DEF Meets
    <3>2. \A b : Listed(b) => Listed(b)'
      BY <1>3, <1>5, <2>1, <3>1
    <3>3. ASSUME Aes!IsBlock(o), Aes!Answers(o) PROVE FALSE
      <4>1. PICK p : OnChain(p)
        BY <1>1 DEF Aes!WholeInv, OnChain
      <4>2. n < 8 /\ v4[1].depth = n - 1
        BY <3>1, <3>3, <4>1, ChainOn
      <4> QED BY <1>1, <2>3, <3>3, <4>2
    <3> QED BY <1>2, <3>1, <3>2, <3>3 DEF AllListed
  <2> QED BY <1>5, <2>2, <2>3
<1>6. CASE Meets(o) /\ Enters(o)
  <2>1. /\ v5' = v5 \cup {o} /\ Len(v4') = n + 1 /\ v4'[1].left = v1.members[o]
        /\ \A i \in 1..n : v4'[i + 1] = Aes!Passed[i]
    BY <1>6 DEF Meets, Enters
  <2>2. PICK m : m = o
    OBVIOUS
  <2> HIDE DEF n, o
  <2>3. DOMAIN v4' = 1..(n + 1)
    BY <1>1, <2>1
  <2>4. 1 \in DOMAIN v4' /\ \A i \in 1..n : i + 1 \in DOMAIN v4'
    BY <1>1, <2>3
  <2>5. \A b : Listed(b) => Listed(b)'
    BY <1>3, <2>1, <2>4
  <2>6. Listed(m)'
    BY <1>1, <2>1, <2>4, <2>2 DEF Listed
  <2> QED BY <1>2, <2>1, <2>5, <2>6, <2>2 DEF AllListed
<1> QED BY <1>4, <1>5, <1>6, WalkSteps

\* A block is left once all its members are passed.
LEMMA ReturnLists == ASSUME Aes!AesInv, Aes!Return, AllListed PROVE AllListed'
<1> DEFINE n == Len(v4)
<1>1. /\ v4 \in Seq(Blocks) /\ v4 # <<>> /\ v1' = v1 /\ v5' = v5 /\ n \in Nat /\ v4[1].left = <<>>
      /\ v4' \in Seq(Blocks) /\ Len(v4') = n - 1 /\ \A i \in 1..(n - 1) : v4'[i] = v4[i + 1]
  BY HeadTailProperties, LenProperties, EmptySeq DEF Aes!Return, Aes!AesInv, Blocks
<1>2. Aes!Range(<<>>) = {}
  BY DEF Aes!Range
<1>3. ASSUME NEW i \in DOMAIN v4, i # 1 PROVE \E j \in DOMAIN v4' : v4'[j] = v4[i]
  <2>1. i - 1 \in 1..(n - 1) /\ (i - 1) + 1 = i
    BY <1>1, <1>3
  <2>2. DOMAIN v4' = 1..(n - 1)
    BY <1>1
  <2> QED BY <1>1, <2>1, <2>2
<1>4. \A b : Listed(b) => Listed(b)'
  BY <1>1, <1>2, <1>3 DEF Listed
<1> QED BY <1>1, <1>4 DEF AllListed, Aes!IsBlock, Aes!Answers

\* There are always more objects met than found.
MoreMet == "root" \in v5 /\ Len(v6) < Aes!Cardinality(v5)
LEMMA WalkMeetsMore ==
    ASSUME Aes!WellMade, Aes!AllFit, Aes!AesInv, Aes!WalkInv, Aes!WholeInv, Aes!Walk
    PROVE  MoreMet'
<1> DEFINE o == Aes!Member
<1>1. v1' = v1 /\ v3 = "walks" /\ v6 \in Seq(Aes!Objects) /\ o \in Aes!Objects /\ "root" \in DOMAIN v1.members
  BY WalkSteps, PassedIs DEF Aes!Walk, Aes!AesInv, Aes!WellMade
<1>2. IsFiniteSet(v5) /\ Cardinality(v5) \in Nat /\ Len(v6) < Cardinality(v5) /\ ~(Len(v6) >= 4096) /\ "root" \in v5
  BY <1>1, RoomForMore DEF Aes!WholeInv
<1>3. CASE UNCHANGED <<v5, v6>>
  BY <1>2, <1>3, SameCount DEF MoreMet
<1>4. CASE Meets(o) /\ Finds(o)
  <2>1. Len(v6) \in Nat /\ Len(v6') \in Nat /\ Len(v6') <= Len(v6) + 1
    BY <1>1, <1>4, FoundGrows DEF Aes!WalkInv
  <2>2. o \notin v5 /\ v5' = v5 \cup {o}
    BY <1>4 DEF Meets
  <2>3. Cardinality(v5') = Cardinality(v5) + 1
    BY <1>2, <2>2, FS_AddElement
  <2>4. Len(v6') < Cardinality(v5')
    BY <1>2, <2>1, <2>3
  <2> QED BY <1>2, <2>2, <2>4, SameCount DEF MoreMet
<1> QED BY <1>2, <1>3, <1>4, WalkSteps

LEMMA WholeInvInit == Aes!Init => Aes!WholeInv
<1> SUFFICES ASSUME Aes!Init PROVE Aes!WholeInv
  OBVIOUS
<1>1. v4 = <<>> /\ v5 = {} /\ v3 = "made"
  BY DEF Aes!Init
<1>2. Len(<<>>) = 0
  OBVIOUS
<1> QED BY <1>1, <1>2 DEF Aes!WholeInv

LEMMA WholeInvIs ==
    Aes!WholeInv <=> /\ v3 \notin {"made", "down"} => MoreMet
                     /\ AllListed /\ Len(v4) <= 8 /\ (v4 # <<>> => \E p : OnChain(p))
<1>1. (\E p : OnChain(p)) <=> \E p \in [1..Len(v4) -> DOMAIN v1.members] : Aes!UnderWay(p)
  BY DEF OnChain
<1> QED BY <1>1 DEF Aes!WholeInv, MoreMet, AllListed, Listed

LEMMA WholeInvStep ==
    Aes!WellMade /\ Aes!AllFit /\ Aes!AesInv /\ Aes!WalkInv /\ Aes!WholeInv /\ [Aes!Next]_(Aes!vars) => Aes!WholeInv'
<1> SUFFICES ASSUME Aes!WellMade, Aes!AllFit, Aes!AesInv, Aes!WalkInv, Aes!WholeInv, [Aes!Next]_(Aes!vars)
             PROVE  Aes!WholeInv'
  OBVIOUS
<1>1. /\ v3 \notin {"made", "down"} => MoreMet
      /\ AllListed /\ Len(v4) <= 8 /\ (v4 # <<>> => \E p : OnChain(p))
  BY WholeInvIs
<1> SUFFICES /\ v3' \notin {"made", "down"} => MoreMet'
             /\ AllListed' /\ Len(v4') <= 8 /\ (v4' # <<>> => \E p : OnChain(p)')
  BY DEF Aes!WholeInv, MoreMet, AllListed, Listed, OnChain
<1>2. CASE Aes!Connect
  <2>1. /\ v1' = v1 /\ v6' = v6 /\ v5' = {"root"} /\ v3 = "down"
        /\ "root" \in DOMAIN v1.members /\ v4' \in Seq(Blocks) /\ Len(v4') = 1 /\ v4'[1].depth = 0
        /\ Aes!Range(v4'[1].left) = IF Aes!Answers("root") THEN Aes!Range(v1.members["root"]) ELSE {}
    BY <1>2, Begins
  <2>2. MoreMet'
    <3>1. v6 = <<>> /\ Len(<<>>) = 0
      BY <2>1 DEF Aes!WalkInv
    <3>2. Cardinality({"root"}) = 1
      BY FS_Singleton
    <3>3. Aes!Cardinality({"root"}) = 1
      BY <3>2, SameCount
    <3> QED BY <2>1, <3>1, <3>3 DEF MoreMet
  <2>3. AllListed'
    <3>1. 1 \in DOMAIN v4'
      BY <2>1
    <3> QED BY <2>1, <3>1 DEF AllListed, Listed, Aes!Answers
  <2>4. \E p : OnChain(p)'
    <3> DEFINE p == [i \in 1..1 |-> "root"]
    <3>1. Aes!Chain(v1, p, 1)
      BY DEF Aes!Chain
    <3>2. Chained(v1, p, 1)
      BY <2>1, <3>1 DEF Chained
    <3>3. NextBlocks(p, 1)
      BY <2>1 DEF NextBlocks
    <3> HIDE DEF p
    <3>4. OnChain(p)'
      BY <2>1, <3>2, <3>3, ChainGoesOn
    <3> QED BY <3>4
  <2> QED BY <2>1, <2>2, <2>3, <2>4
<1>3. CASE Aes!Walk
  BY <1>1, <1>3, WalkMeetsMore, WalkLists, WalksOnChain
<1>4. CASE Aes!Return
  <2>1. v3 = "walks" /\ v5' = v5 /\ v6' = v6
    BY <1>4 DEF Aes!Return
  <2>2. MoreMet'
    BY <1>1, <2>1 DEF MoreMet
  <2> QED BY <1>1, <1>4, <2>2, ReturnLists, LeavesTheChain
<1>5. CASE /\ UNCHANGED <<v1, v4, v5, v6>>
           /\ (v3 \in {"made", "down"}) = (v3' \in {"made", "down"})
  <2>1. v3' \notin {"made", "down"} => MoreMet'
    BY <1>1, <1>5 DEF MoreMet
  <2>2. AllListed'
    BY <1>1, <1>5 DEF AllListed, Listed, Aes!IsBlock, Aes!Answers
  <2>3. \A p : OnChain(p) => OnChain(p)'
    BY <1>5 DEF OnChain, Aes!UnderWay
  <2> QED BY <1>1, <1>5, <2>1, <2>2, <2>3
<1> QED BY <1>2, <1>3, <1>4, <1>5, BesideTheWalk

\* What was met can be reached.
LEMMA MetIsReached == Aes!WellMade /\ Aes!AesInv /\ Aes!WalkInv => v5 \subseteq Aes!Reached
<1> SUFFICES ASSUME Aes!WellMade, Aes!AesInv, Aes!WalkInv PROVE v5 \subseteq Aes!Reached
  OBVIOUS
<1>1. \A S \in SUBSET Aes!Objects : Aes!Complete(S) => v5 \subseteq S
  BY DEF Aes!WalkInv, Aes!Within
<1>2. v5 \subseteq Aes!Objects
  BY <1>1, OwnIsComplete
<1> QED BY <1>1, <1>2 DEF Aes!Reached

\* Once the walk is done what was met is the least set that has the root and what
\* the blocks in it lead to.
LEMMA WalkEnough ==
    Aes!WellMade /\ Aes!AesInv /\ Aes!WalkInv /\ Aes!WholeInv => Aes!FindsAll
<1> SUFFICES ASSUME Aes!WellMade, Aes!AesInv, Aes!WalkInv, Aes!WholeInv, v3 \in {"subscribes", "awaits", "up"}
             PROVE  Aes!Range(v6) = {o \in Aes!Reached : ~Aes!IsBlock(o) /\ Aes!Answers(o)}
  BY DEF Aes!FindsAll, Aes!WalkInv
<1>1. /\ v4 = <<>> /\ Aes!Range(v6) = {o \in v5 : ~Aes!IsBlock(o) /\ Aes!Answers(o)}
      /\ \A S \in SUBSET Aes!Objects : Aes!Complete(S) => v5 \subseteq S
  BY DEF Aes!WalkInv, Aes!Within
<1>2. AllListed /\ "root" \in v5
  BY WholeInvIs DEF MoreMet
<1>3. DOMAIN <<>> = {}
  OBVIOUS
<1>4. Aes!Complete(v5)
  BY <1>1, <1>2, <1>3 DEF Aes!Complete, AllListed, Listed
<1>5. v5 \in SUBSET Aes!Objects
  BY <1>1, OwnIsComplete
<1>6. v5 = Aes!Reached
  BY <1>1, <1>4, <1>5 DEF Aes!Reached
<1> QED BY <1>1, <1>6

-----------------------------------------------------------------------------
(* The parts the run Protocols instantiates.                                *)

\* A write leaves alone what other controllers set (OthersAreKept of Mbc).
THEOREM OthersKeptThere == ASSUME Mbc!NoneApart PROVE MCSpec => []OthersKept
<1> DEFINE Inv == part = "mbc" => Mbc!MbcInv
<1>1. MCInit => Inv
  <2> SUFFICES ASSUME MCInit, part = "mbc" PROVE Mbc!MbcInv
    OBVIOUS
  <2>1. Mbc!Init  BY DEF MCInit
  <2> QED  BY <2>1, Mbc!MbcInit
<1>2. ASSUME Inv, [MCNext]_<<part, vars, rideVars, Slots>> PROVE Inv'
  <2> SUFFICES ASSUME part' = "mbc" PROVE Mbc!MbcInv'
    OBVIOUS
  <2>1. part = "mbc" /\ (Mbc!Next \/ UNCHANGED Mbc!vars)
    <3>1. CASE MCNext  BY <3>1 DEF MCNext
    <3>2. CASE UNCHANGED <<part, vars, rideVars, Slots>>  BY <3>2 DEF Slots, Mbc!vars
    <3> QED  BY <1>2, <3>1, <3>2
  <2>2. Mbc!MbcInv  BY <1>2, <2>1
  <2> QED  BY <2>1, <2>2, Mbc!MbcStep
<1>3. Inv => OthersKept  BY Mbc!MbcInvEnough DEF OthersKept
<1> HIDE DEF Inv
<1> QED  BY <1>1, <1>2, <1>3, PTL DEF MCSpec

\* Requests that overlap on one connection get their own answers, and none is
\* left waiting once the connection is gone (Ocp1ClientProofs).
THEOREM AnswersAreTheirsThere == ASSUME Ocp1!HandlesSuffice PROVE MCSpec => []AnswersAreTheirs
<1> DEFINE Inv == part = "ocp1" => Ocp1!Inv
<1>1. MCInit => Inv
  <2> SUFFICES ASSUME MCInit, part = "ocp1" PROVE Ocp1!Inv
    OBVIOUS
  <2>1. Ocp1!Init  BY DEF MCInit
  <2> QED  BY <2>1, Ocp1!InvInit
<1>2. ASSUME Inv, [MCNext]_<<part, vars, rideVars, Slots>> PROVE Inv'
  <2> SUFFICES ASSUME part' = "ocp1" PROVE Ocp1!Inv'
    OBVIOUS
  <2>1. part = "ocp1" /\ (Ocp1!Next \/ UNCHANGED Ocp1!vars)
    <3>1. CASE MCNext  BY <3>1 DEF MCNext
    <3>2. CASE UNCHANGED <<part, vars, rideVars, Slots>>  BY <3>2 DEF Slots, Ocp1!vars
    <3> QED  BY <1>2, <3>1, <3>2
  <2>2. Ocp1!Inv  BY <1>2, <2>1
  <2> QED  BY <2>1, <2>2, Ocp1!InvStep
<1>3. Inv => AnswersAreTheirs  BY Ocp1!InvEnough DEF AnswersAreTheirs
<1> HIDE DEF Inv
<1> QED  BY <1>1, <1>2, <1>3, PTL DEF MCSpec

\* Nothing is shown or relayed that no device said: no switch that was never
\* turned, no field of a receiver but as it is, never the reading that follows
\* an acquisition, and of the config file what it last said that could be read.
THEOREM NothingInventedThere ==
    ASSUME Mbc!NoneApart, Mic!NoneIsNoEntry, Acn!Apart
    PROVE  MCSpec => []NothingInvented
<1> DEFINE Inv == /\ part = "mbc" => Mbc!MbcInv
                  /\ part = "mic" => Mic!MicInv
                  /\ part = "acn" => Acn!AcnInv
                  /\ part = "watch" => Watch!WatchInv
<1>1. MCInit => Inv
  <2> SUFFICES ASSUME MCInit PROVE Inv
    OBVIOUS
  <2>1. /\ part = "mbc" => Mbc!Init
        /\ part = "mic" => Mic!Init
        /\ part = "acn" => Acn!Init
        /\ part = "watch" => Watch!Init
    BY DEF MCInit
  <2> QED  BY <2>1, Mbc!MbcInit, MicInit, AcnInit, WatchInit
<1>2. ASSUME Inv, [MCNext]_<<part, vars, rideVars, Slots>> PROVE Inv'
  <2>1. /\ part' = part
        /\ part = "mbc" => [Mbc!Next]_(Mbc!vars)
        /\ part = "mic" => [Mic!Next]_(Mic!vars)
        /\ part = "acn" => [Acn!Next]_(Acn!vars)
        /\ part = "watch" => [Watch!Next]_(Watch!vars)
    <3>1. CASE MCNext  BY <3>1 DEF MCNext
    <3>2. CASE UNCHANGED <<part, vars, rideVars, Slots>>
      BY <3>2 DEF Slots, Mbc!vars, Mic!vars, Acn!vars, Watch!vars
    <3> QED  BY <1>2, <3>1, <3>2
  <2>2. (part = "mbc" => Mbc!MbcInv)'  BY <1>2, <2>1, Mbc!MbcStep
  <2>3. (part = "mic" => Mic!MicInv)'  BY <1>2, <2>1, MicStep
  <2>4. (part = "acn" => Acn!AcnInv)'  BY <1>2, <2>1, AcnStep
  <2>5. (part = "watch" => Watch!WatchInv)'  BY <1>2, <2>1, WatchStep
  <2> QED  BY <2>2, <2>3, <2>4, <2>5
<1>3. Inv => NothingInvented
  BY Mbc!MbcInvEnough, MicInvEnough, AcnInvEnough, WatchInvEnough DEF NothingInvented
<1> HIDE DEF Inv
<1> QED  BY <1>1, <1>2, <1>3, PTL DEF MCSpec

\* What devices say arrives: the host is told what was last read of every field,
\* the adapter's own multicast is heard, the host of an AES70 device knows the
\* last change of every object, and what is shown of a receiver is what it has.
THEOREM HearsAllThere ==
    ASSUME Sizes, Mbc!NoneApart, Aes!WellMade, Acn!Apart
    PROVE  MCSpec => []HearsAll
<1> DEFINE Inv == /\ Coming
                  /\ part = "mbc" => Mbc!MbcInv
                  /\ part = "aes" => Aes!AesInv
                  /\ part = "acn" => Acn!AcnInv
<1>1. MCInit => Inv
  <2> SUFFICES ASSUME MCInit PROVE Inv
    OBVIOUS
  <2>1. /\ Init
        /\ part = "mbc" => Mbc!Init
        /\ part = "aes" => Aes!Init
        /\ part = "acn" => Acn!Init
    BY DEF MCInit, AtNought
  <2> QED  BY <2>1, ComingInit, Mbc!MbcInit, AesInit, AcnInit
<1>2. ASSUME Inv, [MCNext]_<<part, vars, rideVars, Slots>> PROVE Inv'
  <2>1. /\ part' = part
        /\ [Next]_vars
        /\ part = "mbc" => [Mbc!Next]_(Mbc!vars)
        /\ part = "aes" => [Aes!Next]_(Aes!vars)
        /\ part = "acn" => [Acn!Next]_(Acn!vars)
    <3>1. CASE MCNext  BY <3>1 DEF MCNext
    <3>2. CASE UNCHANGED <<part, vars, rideVars, Slots>>
      BY <3>2 DEF Slots, Mbc!vars, Aes!vars, Acn!vars
    <3> QED  BY <1>2, <3>1, <3>2
  <2>2. Coming'  BY <1>2, <2>1, ComingStep
  <2>3. (part = "mbc" => Mbc!MbcInv)'  BY <1>2, <2>1, Mbc!MbcStep
  <2>4. (part = "aes" => Aes!AesInv)'  BY <1>2, <2>1, AesStep
  <2>5. (part = "acn" => Acn!AcnInv)'  BY <1>2, <2>1, AcnStep
  <2> QED  BY <2>2, <2>3, <2>4, <2>5
<1>3. Inv => HearsAll
  BY ComingEnough, Mbc!MbcInvEnough, AesInvEnough, AcnInvEnough DEF HearsAll
<1> HIDE DEF Inv
<1> QED  BY <1>1, <1>2, <1>3, PTL DEF MCSpec

\* Whatever a device lists, and however deep: at every step each object found can
\* be reached through blocks that answer, answers itself and was found once
\* (walk() with its set of the objects it has met).
FoundOnce == part = "aes" => /\ Aes!IsInjective(v6)
                             /\ Aes!Range(v6) \subseteq {o \in Aes!Reached : ~Aes!IsBlock(o) /\ Aes!Answers(o)}
THEOREM FoundOnceThere == ASSUME Aes!WellMade PROVE MCSpec => []FoundOnce
<1> DEFINE Inv == part = "aes" => Aes!AesInv /\ Aes!WalkInv
<1>1. MCInit => Inv
  <2> SUFFICES ASSUME MCInit, part = "aes" PROVE Aes!AesInv /\ Aes!WalkInv
    OBVIOUS
  <2>1. Aes!Init  BY DEF MCInit
  <2> QED  BY <2>1, AesInit, WalkInvInit
<1>2. ASSUME Inv, [MCNext]_<<part, vars, rideVars, Slots>> PROVE Inv'
  <2> SUFFICES ASSUME part' = "aes" PROVE (Aes!AesInv /\ Aes!WalkInv)'
    OBVIOUS
  <2>1. part = "aes" /\ [Aes!Next]_(Aes!vars)
    <3>1. CASE MCNext  BY <3>1 DEF MCNext
    <3>2. CASE UNCHANGED <<part, vars, rideVars, Slots>>  BY <3>2 DEF Slots, Aes!vars
    <3> QED  BY <1>2, <3>1, <3>2
  <2>2. Aes!AesInv /\ Aes!WalkInv  BY <1>2, <2>1
  <2> QED  BY <2>1, <2>2, AesStep, WalkInvStep
<1>3. Inv => FoundOnce  BY MetIsReached DEF FoundOnce, Aes!WalkInv
<1> HIDE DEF Inv
<1> QED  BY <1>1, <1>2, <1>3, PTL DEF MCSpec

\* A device is searched to its end whatever fails on the way: of devices that keep
\* to the walk's limits every object that can be reached is found.
THEOREM FindsAllThere == ASSUME Aes!WellMade, Aes!AllFit PROVE MCSpec => []FindsAll
<1> DEFINE Inv == part = "aes" => Aes!AesInv /\ Aes!WalkInv /\ Aes!WholeInv
<1>1. MCInit => Inv
  <2> SUFFICES ASSUME MCInit, part = "aes" PROVE Aes!AesInv /\ Aes!WalkInv /\ Aes!WholeInv
    OBVIOUS
  <2>1. Aes!Init  BY DEF MCInit
  <2> QED  BY <2>1, AesInit, WalkInvInit, WholeInvInit
<1>2. ASSUME Inv, [MCNext]_<<part, vars, rideVars, Slots>> PROVE Inv'
  <2> SUFFICES ASSUME part' = "aes" PROVE (Aes!AesInv /\ Aes!WalkInv /\ Aes!WholeInv)'
    OBVIOUS
  <2>1. part = "aes" /\ [Aes!Next]_(Aes!vars)
    <3>1. CASE MCNext  BY <3>1 DEF MCNext
    <3>2. CASE UNCHANGED <<part, vars, rideVars, Slots>>  BY <3>2 DEF Slots, Aes!vars
    <3> QED  BY <1>2, <3>1, <3>2
  <2>2. Aes!AesInv /\ Aes!WalkInv /\ Aes!WholeInv  BY <1>2, <2>1
  <2> QED  BY <2>1, <2>2, AesStep, WalkInvStep, WholeInvStep
<1>3. Inv => FindsAll  BY WalkEnough DEF FindsAll
<1> HIDE DEF Inv
<1> QED  BY <1>1, <1>2, <1>3, PTL DEF MCSpec
=============================================================================
