------------------------------- MODULE Router -------------------------------
(***************************************************************************)
(* crates/core/src/router.rs: one listener task per registered device      *)
(* takes its reports and pushes each to the peers its mappings name.  The  *)
(* value last known at an address suppresses a push the peer would not     *)
(* notice; every await between the lock on last_known and the one on the   *)
(* peer's adapter is a step of its own here.                               *)
(*                                                                         *)
(* An address is a pair <<device id, object>>.  Two device ids may be two  *)
(* connections to one console: their addresses then share a control.       *)
(***************************************************************************)
EXTENDS Integers, Sequences, FiniteSets, SequencesExt

CONSTANTS
    Devices,      \* device ids
    Addresses,    \* pairs <<d, o>>, d a device id
    ControlOf,    \* ControlOf[a]: the control on a console that a addresses
    Values,       \* what a control may hold
    Start,        \* what every control holds at first
    Mappings,     \* the configured mappings, a sequence of [from, to, bidirectional]
    Edits,        \* the mappings a client may add and remove
    Reloads,      \* the mapping lists a reload of the config may bring
    Confirms,     \* devices that report a set back to the connection that made it
    Surfaces,     \* controls an engineer may turn
    Offline,      \* controls that may be turned while their devices are not registered
    MayRefuse,    \* devices that may fail a set
    MayLeave,     \* devices that may be deregistered, and registered again
    Patient,      \* a control is turned only once the Router has come to rest
    StreamCap,    \* the ring of a device's report channel (64 in the code)
    MaxSets,      \* bound: sets counted
    None

Controls == {ControlOf[a] : a \in Addresses}
Reports == [addr : Addresses, value : Values]
Mapping == [from : Addresses, to : Addresses, bidirectional : BOOLEAN]

ASSUME RouterAssumption ==
    /\ \A a \in Addresses : a[1] \in Devices
    /\ Mappings \in Seq(Mapping) /\ Edits \subseteq Mapping /\ Reloads \subseteq Seq(Mapping)
    /\ Start \in Values /\ None \notin Values /\ None \notin Devices
    /\ StreamCap \in Nat \ {0} /\ MaxSets \in Nat
    /\ Surfaces \subseteq Controls /\ Offline \subseteq Controls /\ MayLeave \subseteq Devices

VARIABLES
    registered,  \* the keys of Router.devices
    mappings,    \* Router.mappings
    known,       \* Router.last_known, None where it has no entry
    stream,      \* stream[d]: reports its listener has yet to receive
    listener,    \* listener[d]: the event it works on and the peers left
    value,       \* value[c]: what the console's control holds
    sets         \* sets made since a control was last turned (history)

vars == <<registered, mappings, known, stream, listener, value, sets>>

\* at "none" there is no listener task; "peers" is between two peers of an
\* event, "push" has claimed the first of them and waits for its adapter.
NoTask == [at |-> "none", addr |-> None, value |-> None, peers |-> <<>>]
Waiting == [NoTask EXCEPT !.at = "recv"]

Quiet == \A d \in Devices : stream[d] = <<>> /\ listener[d].at \in {"none", "recv"}

----------------------------------------------------------------------------
\* A broadcast channel: a full ring overwrites its oldest report.
Sent(ring, report) ==
    IF Len(ring) < StreamCap THEN Append(ring, report) ELSE Append(Tail(ring), report)

\* The reports of control c now holding v, on every connection but `except`.
Reported(c, v, except) ==
    [d \in Devices |->
        LET here == {a \in Addresses : a[1] = d /\ ControlOf[a] = c}
        IN IF here = {} \/ d \notin registered \/ d = except THEN stream[d]
           ELSE Sent(stream[d], [addr |-> CHOOSE a \in here : TRUE, value |-> v])]

Init ==
    /\ registered = Devices
    /\ mappings = Mappings
    /\ known = [a \in Addresses |-> None]
    /\ stream = [d \in Devices |-> <<>>]
    /\ listener = [d \in Devices |-> Waiting]
    /\ value = [c \in Controls |-> Start]
    /\ sets = 0

----------------------------------------------------------------------------
(* handle_event() *)

\* Mutant: only a peer that is mapped from the address is one.
PeersOneWay(addr) ==
    FlattenSeq([i \in DOMAIN mappings |->
        LET m == mappings[i] IN IF m.from = addr THEN <<m.to>> ELSE <<>>])

\* Mutant: every mapping goes both ways.
PeersBothWays(addr) ==
    FlattenSeq([i \in DOMAIN mappings |->
        LET m == mappings[i]
        IN IF m.from = addr THEN <<m.to>> ELSE IF m.to = addr THEN <<m.from>> ELSE <<>>])

\* peers_of()
PeersOf(addr) ==
    FlattenSeq([i \in DOMAIN mappings |->
        LET m == mappings[i]
        IN IF m.from = addr THEN <<m.to>>
           ELSE IF m.bidirectional /\ m.to = addr THEN <<m.from>> ELSE <<>>])

Recorded(report) == [known EXCEPT ![report.addr] = report.value]

\* listen() receives a report; handle_event() records it and looks its peers up.
Receive(d) ==
    LET report == Head(stream[d])
    IN /\ listener[d].at = "recv"
       /\ stream[d] # <<>>
       /\ stream' = [stream EXCEPT ![d] = Tail(@)]
       /\ known' = Recorded(report)
       /\ listener' = [listener EXCEPT ![d] = [at |-> "peers", addr |-> report.addr,
                            value |-> report.value, peers |-> PeersOf(report.addr)]]
       /\ UNCHANGED <<registered, mappings, value, sets>>

\* Mutant: nothing is suppressed.
NeverSuppressed(peer, v) == FALSE

Suppressed(peer, v) == known[peer] = v

\* Mutant: the claim is made for the address the report came from.
ClaimedAtSource(d) == [known EXCEPT ![listener[d].addr] = listener[d].value]

\* The first peer left is claimed for the value before it is set.
Claimed(d) == [known EXCEPT ![Head(listener[d].peers)] = listener[d].value]

\* One turn of the loop over the peers: an unknown device or a value the peer
\* holds is passed over, anything else is claimed before it is set.
NextPeer(d) ==
    LET task == listener[d]
        peer == Head(task.peers)
    IN /\ task.at = "peers"
       /\ \/ /\ task.peers = <<>>
             /\ listener' = [listener EXCEPT ![d] = Waiting]
             /\ UNCHANGED known
          \/ /\ task.peers # <<>>
             /\ peer[1] \notin registered \/ Suppressed(peer, task.value)
             /\ listener' = [listener EXCEPT ![d].peers = Tail(@)]
             /\ UNCHANGED known
          \/ /\ task.peers # <<>>
             /\ peer[1] \in registered /\ ~Suppressed(peer, task.value)
             /\ known' = Claimed(d)
             /\ listener' = [listener EXCEPT ![d].at = "push"]
       /\ UNCHANGED <<registered, mappings, stream, value, sets>>

\* The peer's adapter is free: set_object().  A set that fails is logged.  The
\* adapter is the one looked up before the wait: deregistered meanwhile, it has
\* been disconnected by now or is only about to be.
Push(d) ==
    LET task == listener[d]
        peer == Head(task.peers)
        c == ControlOf[peer]
    IN /\ task.at = "push"
       /\ listener' = [listener EXCEPT ![d].at = "peers", ![d].peers = Tail(@)]
       /\ \/ /\ peer[1] \in registered \union MayLeave
             /\ value' = [value EXCEPT ![c] = task.value]
             /\ stream' = Reported(c, task.value, IF peer[1] \in Confirms THEN None ELSE peer[1])
             /\ sets' = IF sets < MaxSets THEN sets + 1 ELSE sets
          \/ /\ peer[1] \in MayRefuse \union MayLeave
             /\ UNCHANGED <<value, stream, sets>>
       /\ UNCHANGED <<registered, mappings, known>>

----------------------------------------------------------------------------
(* Clients of the Router, and the consoles *)

\* register_device(): a fresh subscription, and a listener that replaces the
\* one there may be; what was known of the device's objects stays known.
Register(d) ==
    /\ registered' = registered \union {d}
    /\ stream' = [stream EXCEPT ![d] = <<>>]
    /\ listener' = [listener EXCEPT ![d] = Waiting]
    /\ UNCHANGED <<mappings, known, value, sets>>

\* Mutant: the listener is left to end by itself.
LeftRunning(d) == listener

\* deregister_device() aborts the listener at the await it is in.
Aborted(d) == [listener EXCEPT ![d] = NoTask]

Deregister(d) ==
    /\ d \in registered
    /\ registered' = registered \ {d}
    /\ stream' = [stream EXCEPT ![d] = <<>>]
    /\ listener' = Aborted(d)
    /\ UNCHANGED <<mappings, known, value, sets>>

AddMapping(m) ==
    /\ Len(mappings) < Len(Mappings) + Cardinality(Edits)   \* bound
    /\ mappings' = Append(mappings, m)
    /\ UNCHANGED <<registered, known, stream, listener, value, sets>>

RemoveMapping(m) ==
    LET same == {i \in DOMAIN mappings : mappings[i].from = m.from /\ mappings[i].to = m.to}
    IN /\ same # {}
       /\ mappings' = RemoveAt(mappings, CHOOSE i \in same : \A j \in same : i <= j)
       /\ UNCHANGED <<registered, known, stream, listener, value, sets>>

UpdateMappings(list) ==
    /\ mappings' = list
    /\ UNCHANGED <<registered, known, stream, listener, value, sets>>

\* An engineer turns a control; every connection to the console hears of it.
Turn(c, v) ==
    /\ v # value[c]
    /\ Patient => Quiet
    /\ c \in Offline \/ \E a \in Addresses : ControlOf[a] = c /\ a[1] \in registered
    /\ value' = [value EXCEPT ![c] = v]
    /\ stream' = Reported(c, v, None)
    /\ sets' = 0
    /\ UNCHANGED <<registered, mappings, known, listener>>

Turned == \E c \in Surfaces : \E v \in Values : Turn(c, v)

Next ==
    \/ \E d \in Devices : Receive(d) \/ NextPeer(d) \/ Push(d)
    \/ \E d \in MayLeave : Register(d) \/ Deregister(d)
    \/ \E m \in Edits : AddMapping(m) \/ RemoveMapping(m)
    \/ \E list \in Reloads : UpdateMappings(list)
    \/ Turned

Spec == Init /\ [][Next]_vars

\* Listener tasks are tasks of a running executor, an adapter's mutex is first
\* come first served; nothing makes anyone turn a control.
Fairness == \A d \in Devices : WF_vars(Receive(d)) /\ WF_vars(NextPeer(d)) /\ WF_vars(Push(d))
FairSpec == Spec /\ Fairness

----------------------------------------------------------------------------
(* Properties *)

TaskType == [at : {"none", "recv", "peers", "push"}, addr : Addresses \union {None},
             value : Values \union {None}, peers : Seq(Addresses)]

\* Every variable keeps its type; a ring is never fuller than its capacity, a
\* task about to push has a peer to push to, and only a registered device is
\* listened to: "propagation stops deterministically the moment this returns".
TypeOK ==
    /\ registered \subseteq Devices
    /\ mappings \in Seq(Mapping)
    /\ known \in [Addresses -> Values \union {None}]
    /\ stream \in [Devices -> Seq(Reports)] /\ \A d \in Devices : Len(stream[d]) <= StreamCap
    /\ listener \in [Devices -> TaskType]
    /\ \A d \in Devices : /\ listener[d].at = "push" => listener[d].peers # <<>>
                          /\ listener[d].at \in {"peers", "push"} => listener[d].value # None
                          /\ listener[d].at = "none" <=> d \notin registered
    /\ value \in [Controls -> Values]
    /\ sets \in Nat

\* "Tracks the value it last saw at every address - updated from both incoming
\* events and its own pushes": at rest, what the Router takes an address to
\* hold is what it holds.
KnownIsHeld ==
    Quiet => \A a \in Addresses : known[a] \in {None, value[ControlOf[a]]}

\* Each control of a mapping follows the other.
Mirrored(m) == value[ControlOf[m.from]] = value[ControlOf[m.to]]

\* At rest, every mapping's peer holds what its source holds.
MirrorsHold == Quiet => \A i \in DOMAIN mappings : Mirrored(mappings[i])

\* The comment of handle_event: the claim "collapses the echo storm to one `set`
\* per direction".  A turn costs at most one set for each direction of each
\* mapping, however often the consoles repeat themselves.
Directions == {<<m.from, m.to>> : m \in Range(mappings)}
              \union {<<m.to, m.from>> : m \in {n \in Range(mappings) : n.bidirectional}}
OneSetPerDirection == sets <= Cardinality(Directions)

\* "A one-way mapping mirrors changes from `from` to `to` only" (docs/API.md):
\* whatever devices and mappings come and go, the Router changes no control
\* that no mapping leads to.
LeadsTo(m, c) == ControlOf[m.to] = c \/ (m.bidirectional /\ ControlOf[m.from] = c)
EverMapped == Range(Mappings) \union Edits \union UNION {Range(list) : list \in Reloads}
Downstream ==
    \A c \in Controls : value'[c] # value[c] => Turned \/ \E m \in EverMapped : LeadsTo(m, c)
NeverUpstream == [][Downstream]_vars

\* "That single rule is what stops a bidirectional mapping looping": whenever
\* controls stop being turned, the Router comes to rest.
ComesToRest == <>[][~Turned]_vars => <>[]Quiet
=============================================================================
