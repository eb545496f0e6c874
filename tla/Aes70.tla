-------------------------------- MODULE Aes70 --------------------------------
(***************************************************************************)
(* The AES70 plugin (crates/plugin-aes70/src/adapter.rs) over the OCP.1     *)
(* client: it walks the device's blocks (crates/ocp1/src/enumerate.rs),     *)
(* keeps the objects it has a class for, subscribes to each and queues what *)
(* the device notifies.  One thread calls it, one call after the other.     *)
(***************************************************************************)
EXTENDS Integers, SequencesExt, FiniteSets

CONSTANTS None,
          Devices,     \* records: members (a block's), blocks, mute (answer no request), known, refuse
          Root, MaxDepth, MaxObjects,
          MaxTurns     \* bound: changes of the device's objects

VARIABLES device,    \* the device on the line, fixed
          values,    \* external: by object, what it holds: a change is known by its number
          phase,     \* "made", "down", "walks", "subscribes", "awaits", "up", "disconnected"
          stack,     \* the blocks under way, innermost first: [left, depth]
          seen,      \* the objects met
          found,     \* enumerate's result
          entries,   \* Aes70Adapter::entries
          subscribed,\* the objects the device notifies us of
          wire,      \* notifications on their way
          events,    \* Aes70Adapter::events
          told,      \* by object: the last change the host was told of, 0 if none
          moved,     \* ghost: the objects that changed while we listened
          described  \* DylibAdapter::descriptors, what the host knows of the device
vars == <<device, values, phase, stack, seen, found, entries, subscribed, wire,
          events, told, moved, described>>

Own(d) == DOMAIN d.members \cup UNION {Range(d.members[b]) : b \in DOMAIN d.members}
Objects == UNION {Own(d) : d \in Devices}
IsBlock(o) == o \in DOMAIN device.members
Answers(o) == o \notin device.mute

Init ==
    /\ device \in Devices
    /\ values = [o \in Objects |-> 0] /\ phase = "made"
    /\ stack = <<>> /\ seen = {} /\ found = <<>> /\ entries = <<>>
    /\ subscribed = {} /\ wire = <<>> /\ events = <<>>
    /\ told = [o \in Objects |-> 0] /\ moved = {}
    /\ described = {}

Live == <<values, wire, events, told, moved>>
Turns == FoldSet(LAMBDA o, n : IF values[o] > n THEN values[o] ELSE n, 0, Objects)

-----------------------------------------------------------------------------
\* External: somebody moves a control of the device, which notifies who asked.
\* Changes of what the walk has not met yet are nobody's concern.
Turn ==
    /\ Turns < MaxTurns /\ phase # "disconnected"
    /\ \E o \in Range(found) :
          /\ values' = [values EXCEPT ![o] = Turns + 1]
          /\ wire' = IF o \in subscribed THEN Append(wire, [ono |-> o, n |-> Turns + 1]) ELSE wire
          /\ moved' = IF o \in subscribed /\ phase = "up" THEN moved \cup {o} ELSE moved \ {o}
    /\ UNCHANGED <<device, phase, stack, seen, found, entries, subscribed, events, told, described>>

\* DylibAdapter::spawn - describe() is asked once, as the thread starts.
Spawn ==
    /\ phase = "made" /\ phase' = "down"
    /\ described' = Range(entries)
    /\ UNCHANGED <<device, stack, seen, found, entries, subscribed, Live>>

\* connect - the client is made and the walk begins at the root block.
Connect ==
    /\ phase = "down" /\ phase' = "walks"
    /\ stack' = <<[left |-> IF Answers(Root) THEN device.members[Root] ELSE <<>>, depth |-> 0]>>
    /\ seen' = {Root}
    /\ UNCHANGED <<device, found, entries, subscribed, described, Live>>

\* Mutant: a block that does not answer ends the walk.
DeadEndEnds(o, above) ==
    IF Head(stack).depth + 1 >= MaxDepth THEN above ELSE IF ~Answers(o) THEN <<>>
    ELSE <<[left |-> device.members[o], depth |-> Head(stack).depth + 1]>> \o above
\* seen.insert - an object is met once, whichever blocks list it.
NotMet(o) == o \notin seen
\* walk - get_members: a block that will not enumerate is a dead end, its
\* siblings still answer.
BlockEntered(o, above) ==
    IF Head(stack).depth + 1 >= MaxDepth \/ ~Answers(o) THEN above
    ELSE <<[left |-> device.members[o], depth |-> Head(stack).depth + 1]>> \o above

\* One member: met before, it is passed over; it is dropped if it has to be
\* asked for its class and does not answer.
Member == Head(Head(stack).left)
Passed == <<[Head(stack) EXCEPT !.left = Tail(Head(stack).left)]>> \o Tail(stack)
Walk ==
    /\ phase = "walks" /\ stack # <<>> /\ Head(stack).left # <<>>
    /\ IF Len(found) >= MaxObjects THEN stack' = Tail(stack) /\ UNCHANGED <<seen, found>>
       ELSE IF ~NotMet(Member) THEN stack' = Passed /\ UNCHANGED <<seen, found>>
       ELSE /\ seen' = seen \cup {Member}
            /\ stack' = IF IsBlock(Member) THEN BlockEntered(Member, Passed) ELSE Passed
            /\ found' = IF IsBlock(Member) \/ ~Answers(Member) THEN found ELSE Append(found, Member)
    /\ UNCHANGED <<device, phase, entries, subscribed, described, Live>>

Return ==
    /\ phase = "walks" /\ stack # <<>> /\ Head(stack).left = <<>>
    /\ stack' = Tail(stack)
    /\ UNCHANGED <<device, phase, seen, found, entries, subscribed, described, Live>>

\* to_entry - what has no host class is dropped, not forced into another's.
Enumerated ==
    /\ phase = "walks" /\ stack = <<>>
    /\ phase' = "subscribes"
    /\ entries' = SelectSeq(found, LAMBDA o : o \in device.known)
    /\ UNCHANGED <<device, stack, seen, found, subscribed, described, Live>>

Accepted(o) == o \notin device.refuse

\* One subscription for each entry; a refusal is passed over.
Subscribe ==
    /\ phase = "subscribes"
    /\ subscribed' = {o \in Range(entries) : Accepted(o)}
    /\ phase' = "awaits"
    /\ UNCHANGED <<device, stack, seen, found, entries, described, Live>>

\* The event task listens from here on; what the device notified before had no
\* receiver.
Listen ==
    /\ phase = "awaits" /\ phase' = "up" /\ wire' = <<>>
    /\ UNCHANGED <<device, stack, seen, found, entries, subscribed, values, events, told, moved, described>>

\* The task decodes a notification by the entry of its emitter.
Notified ==
    /\ phase = "up" /\ wire # <<>> /\ wire' = Tail(wire)
    /\ events' = Append(events, Head(wire))
    /\ UNCHANGED <<device, values, phase, stack, seen, found, entries, subscribed, told, moved, described>>

PollEvents ==
    /\ phase = "up" /\ events # <<>> /\ events' = <<>>
    /\ told' = [o \in Objects |->
          LET of == {i \in DOMAIN events : events[i].ono = o} IN
          IF of = {} THEN told[o] ELSE events[CHOOSE i \in of : \A j \in of : j <= i].n]
    /\ UNCHANGED <<device, values, phase, stack, seen, found, entries, subscribed, wire, moved, described>>

\* disconnect - the client is dropped, the entries and the queue with it.
Disconnect ==
    /\ phase = "up" /\ phase' = "disconnected"
    /\ entries' = <<>> /\ events' = <<>> /\ wire' = <<>> /\ subscribed' = {}
    /\ UNCHANGED <<device, values, stack, seen, found, told, moved, described>>

Next == Turn \/ Spawn \/ Connect \/ Walk \/ Return \/ Enumerated \/ Subscribe \/ Listen
        \/ Notified \/ PollEvents \/ Disconnect

-----------------------------------------------------------------------------
\* The objects that can be reached through blocks that answer: they are in every
\* set that has the root and, with a block that answers, its members.
Complete(S) == Root \in S /\ \A b \in S : IsBlock(b) /\ Answers(b) => Range(device.members[b]) \subseteq S
Reached == LET complete == {S \in SUBSET Objects : Complete(S)} IN
           {o \in Objects : \A S \in complete : o \in S}

\* Once the walk is done they have been found, each once, whatever a device puts
\* in its blocks: blocks that contain each other, members twice.
FindsAll ==
    /\ IsInjective(found)
    /\ phase \in {"subscribes", "awaits", "up"} =>
          Range(found) = {o \in Reached : ~IsBlock(o) /\ Answers(o)}

\* Once it is quiet the host knows the last change of every object that can be
\* subscribed to, and no control is lost to one that could not.
HearsEach ==
    phase = "up" /\ wire = <<>> /\ events = <<>> =>
        /\ \A o \in moved : told[o] = values[o]
        /\ \A o \in Range(entries) \ device.refuse : o \in subscribed

\* What makes it so at every step, of a device whose blocks have lists of members:
\* of what is on the wire the last notification of an object has its last change;
\* without one the last queued event has; without that the host was told.
WellMade ==
    \A d \in Devices : /\ Root \in DOMAIN d.members
                       /\ \A b \in DOMAIN d.members : d.members[b] \in Seq(Range(d.members[b]))
About(s, o) == {i \in 1..Len(s) : s[i].ono = o}
IsLatest(S, i) == i \in S /\ \A j \in S : j <= i
HasLatest(s, o) == About(s, o) # {} => \E i \in About(s, o) : IsLatest(About(s, o), i)
Catches(w, q, o, last, now) ==
    /\ \A i \in About(w, o) : IsLatest(About(w, o), i) => w[i].n = now
    /\ About(w, o) = {} => \A i \in About(q, o) : IsLatest(About(q, o), i) => q[i].n = now
    /\ About(w, o) = {} /\ About(q, o) = {} => last = now
AesInv ==
    /\ device \in Devices /\ values = [o \in Objects |-> values[o]] /\ moved \subseteq Objects
    /\ stack \in Seq([left : Seq(Objects), depth : Int]) /\ found \in Seq(Objects)
    /\ wire \in Seq(Range(wire)) /\ events \in Seq(Range(events))
    /\ phase \notin {"up", "disconnected"} => moved = {} /\ events = <<>>
    /\ phase \in {"awaits", "up"} => subscribed = {o \in Range(entries) : Accepted(o)}
    /\ \A o \in Objects : HasLatest(events, o)
    /\ phase = "up" => \A o \in moved : Catches(wire, events, o, told[o], values[o])

\* What makes FindsAll so.  At every step what was found is what was met of it, and
\* all that was met or is still to be passed can be reached ...
Within(S) == seen \subseteq S /\ \A i \in DOMAIN stack : Range(stack[i].left) \subseteq S
WalkInv ==
    /\ phase \in {"made", "down"} => seen = {} /\ found = <<>>
    /\ phase # "walks" => stack = <<>>
    /\ IsInjective(found) /\ Range(found) = {o \in seen : ~IsBlock(o) /\ Answers(o)}
    /\ \A S \in SUBSET Objects : Complete(S) => Within(S)

\* ... and, of a device that keeps to the walk's limits, the members of a block that
\* was met were met too or are still to be passed.  The blocks under way are a chain:
\* each is listed in the one before, none comes twice.
Chain(d, p, n) ==
    /\ p[1] = Root /\ \A i \in 1..(n - 1) : p[i + 1] \in Range(d.members[p[i]])
    /\ \A i, j \in 1..n : p[i] = p[j] => i = j
Fits(d) ==
    /\ IsFiniteSet(Own(d)) /\ Cardinality(Own(d)) <= MaxObjects
    /\ \A p \in [1..(MaxDepth + 1) -> DOMAIN d.members] : ~Chain(d, p, MaxDepth + 1)
AllFit == \A d \in Devices : Fits(d)
UnderWay(p) ==
    /\ Chain(device, p, Len(stack))
    /\ \A i \in 1..Len(stack) :
          LET block == stack[(Len(stack) + 1) - i] IN
          p[i] \in seen /\ block.depth = i - 1 /\ Range(block.left) \subseteq Range(device.members[p[i]])
WholeInv ==
    /\ phase \notin {"made", "down"} => Root \in seen /\ Len(found) < Cardinality(seen)
    /\ \A b \in seen : IsBlock(b) /\ Answers(b) =>
          \A o \in Range(device.members[b]) : o \in seen \/ \E i \in DOMAIN stack : o \in Range(stack[i].left)
    /\ Len(stack) <= MaxDepth
    /\ stack # <<>> => \E p \in [1..Len(stack) -> DOMAIN device.members] : UnderWay(p)

\* "describe() here reflects the live device rather than its kind."
DescribesTheDevice == phase = "up" => described = Range(entries)
=============================================================================
