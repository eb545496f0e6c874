------------------------------ MODULE PatchBay ------------------------------
(***************************************************************************)
(* The management API of crates/preamp-web/src/lib.rs with the parts of    *)
(* the Router it drives (crates/core/src/router.rs) and the daemon's       *)
(* config hot-reload (crates/preamp-cli/src/daemon.rs).                    *)
(*                                                                         *)
(* Requests run concurrently, and each touches five tables that have a     *)
(* lock each: DeviceRegistry, descriptors, Router.devices,                 *)
(* Router.listener_handles, and the mappings, which are kept twice.  One   *)
(* action is what a request does between two of those locks.               *)
(*                                                                         *)
(* A channel is not told apart from its device: a mapping is a pair        *)
(* <<from, to>> of device ids, and resolves to one mapping of the Router   *)
(* exactly when both have descriptors.                                     *)
(***************************************************************************)
EXTENDS Integers, Sequences, FiniteSets, SequencesExt

CONSTANTS
    Clients,      \* concurrent callers of the API
    Ids,          \* device ids
    Virtual,      \* ids that are added as virtual devices
    Configured,   \* ids the daemon has connected by the time the API is served
    Links,        \* the mappings clients ask for
    DeviceEdits,  \* DeviceEdits[c]: the ids c adds and removes
    LinkEdits,    \* LinkEdits[c]: the mappings c adds and removes
    Reloads,      \* mapping lists the config file may be edited to
    MaxAdapters,  \* bound: adapters ever created
    None

ASSUME PatchBayAssumption ==
    /\ Virtual \subseteq Ids /\ Configured \subseteq Ids
    /\ Links \subseteq Ids \X Ids
    /\ \A c \in Clients : DeviceEdits[c] \subseteq Ids /\ LinkEdits[c] \subseteq Links
    /\ \A r \in Reloads : r \in Seq(Links)
    /\ MaxAdapters \in Nat /\ None \notin Nat

VARIABLES
    devices,      \* keys of DeviceRegistry
    descriptors,  \* keys of PatchState::descriptors
    attached,     \* Router.devices: the adapter of an id, or None
    handle,       \* Router.listener_handles: the adapter it listens to, or None
    listening,    \* listener tasks: pairs <<id, adapter>>
    shown,        \* PatchState::channel_mappings
    routed,       \* Router.mappings
    request,      \* request[c]: what c's request has still to do
    reload,       \* mappings the reload in progress has still to add
    made          \* adapters created

vars == <<devices, descriptors, attached, handle, listening, shown, routed, request, reload, made>>
deviceTables == <<devices, descriptors, attached, handle, listening, made>>
mappingTables == <<shown, routed>>

NoRequest == [at |-> "none", id |-> None, adapter |-> None, todo |-> <<>>]
Names(id, link) == link[1] = id \/ link[2] = id
Resolves(link) == link[1] \in descriptors /\ link[2] \in descriptors
Continue(c, step) == request' = [request EXCEPT ![c].at = step]
Done(c) == request' = [request EXCEPT ![c] = NoRequest]

Init ==
    /\ devices = Configured
    /\ descriptors = Configured
    /\ attached = [id \in Ids |-> IF id \in Configured \ Virtual THEN 0 ELSE None]
    /\ handle = attached
    /\ listening = {<<id, 0>> : id \in Configured \ Virtual}
    /\ shown = <<>> /\ routed = <<>>
    /\ request = [c \in Clients |-> NoRequest]
    /\ reload = <<>>
    /\ made = 0

----------------------------------------------------------------------------
(* POST /api/devices *)

AddDevice(c, id) ==
    /\ request[c].at = "none"
    /\ id \notin devices                        \* otherwise 409
    /\ request' = [request EXCEPT ![c] = [NoRequest EXCEPT !.id = id,
                       !.at = IF id \in Virtual THEN "describe" ELSE "connect"]]
    /\ UNCHANGED <<deviceTables, mappingTables, reload>>

\* connect() answers, fails or times out; then describe() is stored.
Connect(c) ==
    /\ request[c].at = "connect"
    /\ \/ /\ made < MaxAdapters
          /\ made' = made + 1
          /\ request' = [request EXCEPT ![c].at = "describe", ![c].adapter = made + 1]
       \/ /\ Done(c)
          /\ UNCHANGED made
    /\ UNCHANGED <<devices, descriptors, attached, handle, listening, mappingTables, reload>>

\* Mutant: virtual devices are registered with the Router as well.
AlwaysAttach(adapter) == "attach"
AfterDescribe(adapter) == IF adapter = None THEN "insert" ELSE "attach"

Describe(c) ==
    /\ request[c].at = "describe"
    /\ descriptors' = descriptors \union {request[c].id}
    /\ Continue(c, AfterDescribe(request[c].adapter))
    /\ UNCHANGED <<devices, attached, handle, listening, made, mappingTables, reload>>

\* register_device(): the adapter is in the table before it is listened to.
Attach(c) ==
    /\ request[c].at = "attach"
    /\ attached' = [attached EXCEPT ![request[c].id] = request[c].adapter]
    /\ Continue(c, "listen")
    /\ UNCHANGED <<devices, descriptors, handle, listening, made, mappingTables, reload>>

\* The listener a new one for id replaces.
OldListener(id) == {<<id, handle[id]>>}

Listen(c) ==
    LET id == request[c].id
    IN /\ request[c].at = "listen"
       /\ listening' = (listening \ OldListener(id)) \union {<<id, request[c].adapter>>}
       /\ handle' = [handle EXCEPT ![id] = request[c].adapter]
       /\ Continue(c, "insert")
       /\ UNCHANGED <<devices, descriptors, attached, made, mappingTables, reload>>

Enlist(c) ==
    /\ request[c].at = "insert"
    /\ devices' = devices \union {request[c].id}
    /\ Done(c)
    /\ UNCHANGED <<descriptors, attached, handle, listening, made, mappingTables, reload>>

----------------------------------------------------------------------------
(* DELETE /api/devices/{id} *)

RemoveDevice(c, id) ==
    /\ request[c].at = "none"
    /\ id \in devices                           \* otherwise 404
    /\ request' = [request EXCEPT ![c] = [NoRequest EXCEPT !.id = id,
                       !.at = IF id \in Virtual THEN "cascade" ELSE "detach"]]
    /\ UNCHANGED <<deviceTables, mappingTables, reload>>

\* deregister_device(): gives up when the id is not in the table.
Detach(c) ==
    LET id == request[c].id
    IN /\ request[c].at = "detach"
       /\ attached' = [attached EXCEPT ![id] = None]
       /\ Continue(c, IF attached[id] = None THEN "cascade" ELSE "unlisten")
       /\ UNCHANGED <<devices, descriptors, handle, listening, made, mappingTables, reload>>

\* Mutant: the listener is left to notice by itself.
LeftListening(id) == listening

StoppedListening(id) == listening \ {<<id, handle[id]>>}

Unlisten(c) ==
    LET id == request[c].id
    IN /\ request[c].at = "unlisten"
       /\ listening' = StoppedListening(id)
       /\ handle' = [handle EXCEPT ![id] = None]
       /\ Continue(c, "cascade")
       /\ UNCHANGED <<devices, descriptors, attached, made, mappingTables, reload>>

\* The mappings of the list that are in S, in their order: SelectSeq for a set,
\* as a recursive function, which the proofs can take apart.
Only(S, list) ==
    LET first[n \in 0..Len(list)] ==
            IF n = 0 THEN <<>>
            ELSE IF list[n] \in S THEN Append(first[n - 1], list[n]) ELSE first[n - 1]
    IN first[Len(list)]

\* The Router's mappings that name the device, as they are now ...
Naming(id) == Only({link \in Links : Names(id, link)}, routed)

Cascade(c) ==
    /\ request[c].at = "cascade"
    /\ request' = [request EXCEPT ![c].at = "unroute", ![c].todo = Naming(request[c].id)]
    /\ UNCHANGED <<deviceTables, mappingTables, reload>>

\* ... are removed one at a time.
Unroute(c) ==
    /\ request[c].at = "unroute"
    /\ request[c].todo # <<>>
    /\ routed' = RemoveFirst(routed, Head(request[c].todo))
    /\ request' = [request EXCEPT ![c].todo = Tail(@)]
    /\ UNCHANGED <<deviceTables, shown, reload>>

Unshow(c) ==
    /\ request[c].at = "unroute" /\ request[c].todo = <<>>
    /\ shown' = Only({link \in Links : ~Names(request[c].id, link)}, shown)
    /\ Continue(c, "forget")
    /\ UNCHANGED <<deviceTables, routed, reload>>

\* Mutant: a removed device stays resolvable.
DescriptorsKept(id) == descriptors

DescriptorsWithout(id) == descriptors \ {id}

Forget(c) ==
    /\ request[c].at = "forget"
    /\ descriptors' = DescriptorsWithout(request[c].id)
    /\ Continue(c, "remove")
    /\ UNCHANGED <<devices, attached, handle, listening, made, mappingTables, reload>>

Delist(c) ==
    /\ request[c].at = "remove"
    /\ devices' = devices \ {request[c].id}
    /\ Done(c)
    /\ UNCHANGED <<descriptors, attached, handle, listening, made, mappingTables, reload>>

----------------------------------------------------------------------------
(* POST and DELETE /api/mappings *)

\* Mutant: the mapping is looked up by the wrong end.
ShownBackwards(link) == \E i \in DOMAIN shown : shown[i] = <<link[2], link[1]>>

AlreadyShown(link) == \E i \in DOMAIN shown : shown[i] = link

AddMapping(c, link) ==
    /\ request[c].at = "none"
    /\ link[1] \in devices /\ link[2] \in devices   \* otherwise 400
    /\ ~AlreadyShown(link)                          \* otherwise 409
    /\ request' = [request EXCEPT ![c] = [NoRequest EXCEPT !.at = "route", !.todo = <<link>>]]
    /\ UNCHANGED <<deviceTables, mappingTables, reload>>

Route(c) ==
    LET link == Head(request[c].todo)
    IN /\ request[c].at = "route"
       /\ \/ /\ Resolves(link)
             /\ routed' = Append(routed, link)
             /\ Continue(c, "show")
          \/ /\ ~Resolves(link)
             /\ Done(c)
             /\ UNCHANGED routed
       /\ UNCHANGED <<deviceTables, shown, reload>>

Show(c) ==
    /\ request[c].at = "show"
    /\ shown' = Append(shown, Head(request[c].todo))
    /\ Done(c)
    /\ UNCHANGED <<deviceTables, routed, reload>>

RemoveMapping(c, link) ==
    /\ request[c].at = "none"
    /\ AlreadyShown(link)
    /\ shown' = RemoveFirst(shown, link)
    /\ request' = [request EXCEPT ![c] = [NoRequest EXCEPT !.at = "withdraw", !.todo = <<link>>]]
    /\ UNCHANGED <<deviceTables, routed, reload>>

\* Mutant: the mapping only disappears from the list.
StillRouted(link) == routed
Withdrawn(link) == IF Resolves(link) THEN RemoveFirst(routed, link) ELSE routed

Withdraw(c) ==
    /\ request[c].at = "withdraw"
    /\ routed' = Withdrawn(Head(request[c].todo))
    /\ Done(c)
    /\ UNCHANGED <<deviceTables, shown, reload>>

----------------------------------------------------------------------------
(* Hot reload: the table is emptied, then filled against the descriptors of *)
(* the devices that were connected at startup.                              *)

Reload(links) ==
    /\ reload = <<>>
    /\ routed' = <<>>
    /\ reload' = links
    /\ UNCHANGED <<deviceTables, shown, request>>

ReloadNext ==
    LET link == Head(reload)
    IN /\ reload # <<>>
       /\ routed' = IF link[1] \in Configured /\ link[2] \in Configured
                    THEN Append(routed, link) ELSE routed
       /\ reload' = Tail(reload)
       /\ UNCHANGED <<deviceTables, shown, request>>

----------------------------------------------------------------------------
DeviceStep(c) ==
    \/ \E id \in DeviceEdits[c] : AddDevice(c, id) \/ RemoveDevice(c, id)
    \/ Connect(c) \/ Describe(c) \/ Attach(c) \/ Listen(c) \/ Enlist(c)
    \/ Detach(c) \/ Unlisten(c) \/ Cascade(c) \/ Unroute(c) \/ Unshow(c) \/ Forget(c) \/ Delist(c)

MappingStep(c) ==
    \/ \E link \in LinkEdits[c] : AddMapping(c, link) \/ RemoveMapping(c, link)
    \/ Route(c) \/ Show(c) \/ Withdraw(c)

Next == \/ \E c \in Clients : DeviceStep(c) \/ MappingStep(c)
        \/ \E links \in Reloads : Reload(links)
        \/ ReloadNext

Spec == Init /\ [][Next]_vars

----------------------------------------------------------------------------
(* Properties *)

AtRest == reload = <<>> /\ \A c \in Clients : request[c] = NoRequest

Steps == {"none", "connect", "describe", "attach", "listen", "insert", "detach", "unlisten",
          "cascade", "unroute", "forget", "remove", "route", "show", "withdraw"}

\* Every variable keeps its type; only an adapter that was made is in a table.
TypeOK ==
    /\ devices \subseteq Ids /\ descriptors \subseteq Ids
    /\ attached \in [Ids -> (0..made) \union {None}] /\ handle \in [Ids -> (0..made) \union {None}]
    /\ listening \subseteq Ids \X (0..made)
    /\ shown \in Seq(Links) /\ routed \in Seq(Links) /\ reload \in Seq(Links)
    /\ request \in [Clients -> [at : Steps, id : Ids \union {None},
                                adapter : (1..made) \union {None}, todo : Seq(Links)]]
    /\ made \in 0..MaxAdapters

\* register_device: "a stale one never keeps running alongside the new one";
\* deregister_device: "propagation stops deterministically the moment this
\* returns".  At rest the listeners are those of the registered adapters.
ListenersMatch ==
    AtRest => listening = {<<id, attached[id]>> : id \in {i \in Ids : attached[i] # None}}

\* DeviceRegistry is "the single source of truth": at rest the real devices it
\* lists are the ones registered with the Router, and all of them resolve.
RegistryAgrees ==
    AtRest => /\ \A id \in Ids \ Virtual : id \in devices <=> attached[id] # None
              /\ descriptors = devices

\* "You won't be left with mappings pointing at a device that no longer exists."
NoDangling ==
    AtRest => \A link \in Range(routed) \union Range(shown) : link[1] \in devices /\ link[2] \in devices

\* channel_mappings is the "display source of truth": what is shown is routed,
\* as often as it is shown.
Count(seq, x) == Cardinality({i \in DOMAIN seq : seq[i] = x})
ShownIsRouted == AtRest => \A link \in Links : Count(shown, link) = Count(routed, link)

\* "mapping already exists": no mapping is there twice.
NoDuplicates == AtRest => \A link \in Links : Count(shown, link) <= 1 /\ Count(routed, link) <= 1
=============================================================================
