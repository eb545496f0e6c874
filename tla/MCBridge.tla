------------------------------ MODULE MCBridge ------------------------------
(***************************************************************************)
(* The bridge daemon's tables in three parts: `serial`, one caller of the  *)
(* patch-bay API after the other over two real devices and a virtual one;  *)
(* `apart`, two callers and the file watcher at a time, who keep to tables *)
(* and devices of their own; `churn`, the Router while a device comes and  *)
(* goes and mappings change.                                               *)
(***************************************************************************)
EXTENDS PatchBay

CONSTANTS foh, mon, sim, c1, c2
VARIABLES part, registered, mappings, known, stream, listener, value, sets
routerVars == <<registered, mappings, known, stream, listener, value, sets>>

AllIds == {foh, mon, sim}
RealIds == {foh, mon}
SimOnly == {sim}
AllLinks == {<<foh, mon>>, <<mon, sim>>}
TwoClients == {c1, c2}
EveryDevice == [c \in Clients |-> IF c = c1 THEN Ids ELSE {}]
EveryLink == [c \in Clients |-> IF c = c1 THEN Links ELSE {}]
NoReload == {}

Apart == INSTANCE PatchBay WITH
    Links <- {<<foh, mon>>}, Reloads <- {<<>>, <<<<foh, mon>>>>},
    DeviceEdits <- [c \in Clients |-> IF c = c1 THEN {foh} ELSE {mon, sim}],
    LinkEdits <- [c \in Clients |-> IF c = c2 THEN {<<foh, mon>>} ELSE {}]

Gain(d) == <<d, "gain">>
Link(d, e, both) == [from |-> Gain(d), to |-> Gain(e), bidirectional |-> both]
Churn == INSTANCE RouterProofs WITH
    Devices <- AllIds, Addresses <- {Gain(d) : d \in AllIds},
    ControlOf <- [a \in {Gain(d) : d \in AllIds} |-> a[1]],
    Values <- {0, 1}, Start <- 0,
    Mappings <- <<Link(foh, mon, FALSE), Link(mon, sim, TRUE)>>, Edits <- {Link(foh, sim, FALSE)},
    Reloads <- {<<Link(foh, mon, FALSE), Link(mon, sim, TRUE)>>},
    Confirms <- {mon}, Surfaces <- AllIds, Offline <- {mon}, MayRefuse <- {mon}, MayLeave <- {mon},
    Patient <- FALSE, StreamCap <- 1, MaxSets <- 1

\* What the theorems about the Router assume of its constants, here of these.
ASSUME ChurnAssumption == Churn!RouterAssumption

MCInit ==
    \/ part = "churn" /\ Churn!Init /\ Init
    \/ /\ \/ part = "serial" /\ Init
          \/ part = "apart" /\ Apart!Init
       /\ registered = None /\ mappings = None /\ known = None /\ stream = None
       /\ listener = None /\ value = None /\ sets = None
MCNext ==
    /\ UNCHANGED part
    /\ \/ part = "serial" /\ Next /\ UNCHANGED routerVars
       \/ part = "apart" /\ Apart!Next /\ UNCHANGED routerVars
       \/ part = "churn" /\ Churn!Next /\ UNCHANGED vars
MCSpec == MCInit /\ [][MCNext]_<<part, vars, routerVars>>

\* Each part's properties are about its own behaviours; ListenersMatch and
\* RegistryAgrees, of PatchBay, are about both parts that run the API.
TypesHold == (part = "serial" => TypeOK) /\ (part = "churn" => Churn!TypeOK)

\* What is shown is what the Router mirrors, each mapping once and of devices
\* that are there.
MappingsAgree == part = "serial" => ShownIsRouted /\ NoDangling /\ NoDuplicates

NeverUpstream == [][part = "churn" => Churn!Downstream]_routerVars
=============================================================================
