----------------------------- MODULE BridgeStart ------------------------------
(***************************************************************************)
(* How the daemon starts: what of bridge.toml Config::validate accepts,    *)
(* which plugin file PluginRegistry has build a kind of device, what each  *)
(* plugin makes of the device's entry, and what daemon::run has connected  *)
(* and described by the time it applies the mappings; and the ids by which *)
(* the web page names those mappings.                                      *)
(***************************************************************************)
EXTENDS Integers, Sequences, SequencesExt, FiniteSets, Functions

CONSTANT None

-----------------------------------------------------------------------------
\* Config::validate and GainLockConfig::validate
Ids(config) == {config.devices[i].id : i \in DOMAIN config.devices}
Places(lock) == UNION {{<<s, m>> : m \in DOMAIN lock.signals[s].members} : s \in DOMAIN lock.signals}
MemberAt(lock, place) == lock.signals[place[1]].members[place[2]]
TrimAt(lock, place) == <<MemberAt(lock, place).device, MemberAt(lock, place).input>>
TrimPlaces(lock) == {place \in Places(lock) : MemberAt(lock, place).input # None}

LockValid(lock, ids) ==
    /\ lock.leader \in ids
    /\ IsInjective([s \in DOMAIN lock.signals |-> lock.signals[s].name])
    /\ \A place \in Places(lock) :
          /\ MemberAt(lock, place).device \in ids
          /\ MemberAt(lock, place).preamp # None \/ MemberAt(lock, place).input # None
    /\ \A p, q \in TrimPlaces(lock) : TrimAt(lock, p) = TrimAt(lock, q) => p = q
    /\ \A s \in DOMAIN lock.signals : \E member \in ToSet(lock.signals[s].members) :
          member.device = lock.leader /\ member.preamp # None

Validate(config) ==
    /\ IsInjective([i \in DOMAIN config.devices |-> config.devices[i].id])
    /\ \A device \in ToSet(config.devices) : device.virtual \/ device.address # None
    /\ \A link \in ToSet(config.mappings) : {link.from.device, link.to.device} \subseteq Ids(config)
    /\ config.lock = None \/ LockValid(config.lock, Ids(config))

-----------------------------------------------------------------------------
\* The channels the host takes a kind to have, and what the plugins take it to
\* have; a port of None is the adapter's own.
DefaultChannelCount(kind) ==
    CASE kind \in {"osc-x32", "dlive-tcp"} -> 128
      [] kind = "osc-wing" -> 8
      [] kind = "ah-tcp" -> 64
      [] kind = "yamaha-dm3" -> 16
      [] kind = "sennheiser-ewg3" -> 1
      [] OTHER -> None
ChannelCount(device) == IF device.channels # None THEN device.channels ELSE DefaultChannelCount(device.kind)
ToFfiConfig(device) == [address |-> device.address, port |-> device.port, channels |-> ChannelCount(device)]

Plugin(port, channels) == [port |-> port, channels |-> channels]
PluginOf(kind) ==
    CASE kind = "osc-x32" -> Plugin(10023, 128)
      [] kind = "osc-wing" -> Plugin(2223, 8)
      [] kind = "ah-tcp" -> Plugin(51325, 64)
      [] kind = "dlive-tcp" -> Plugin(51325, 128)
      [] kind = "yamaha-dm3" -> Plugin(49900, 16)
      [] kind = "yamaha-dm3-scp" -> Plugin(49280, 16)
      [] kind = "sennheiser-ewg3" -> Plugin(None, 1)
      [] OTHER -> Plugin(65000, 0)
AnyOf(given, default) == IF given = None THEN default ELSE given

\* The X32 has its headamps whatever the entry says, an AES70 device nothing
\* before it is connected, and an EW-G3 receiver its own port and no IPv6.
CreateAdapter(kind, by, config) ==
    IF config.address = None \/ (kind = "sennheiser-ewg3" /\ config.address.family # 4) THEN None
    ELSE [by |-> by, address |-> config.address,
          port |-> IF kind = "sennheiser-ewg3" THEN None ELSE AnyOf(config.port, PluginOf(kind).port),
          channels |-> IF kind \in {"osc-x32", "aes70", "rednet-aes70"} THEN PluginOf(kind).channels
                       ELSE AnyOf(config.channels, PluginOf(kind).channels)]

-----------------------------------------------------------------------------
\* PluginRegistry: which file builds a kind. The placeholders build nothing.
Placeholders == {"ah-midi", "yamaha"}
RegisterStatic(entries, kind) == [k \in DOMAIN entries \cup {kind} |-> IF k = kind THEN "static" ELSE entries[k]]
IsDylibCandidate(file) == file.extension \in {"so", "dylib", "dll"}
Loaded(entries, file) ==
    IF ~IsDylibCandidate(file) \/ ~file.loads THEN entries
    ELSE [k \in DOMAIN entries \cup file.kinds |-> IF k \in file.kinds THEN file.name ELSE entries[k]]
LoadDylibs(entries, dir) == FoldLeft(Loaded, entries, dir)
BuildRegistry(dir) == LoadDylibs(FoldSet(LAMBDA kind, entries : RegisterStatic(entries, kind), [k \in {} |-> None], Placeholders), dir)
Create(registry, device) ==
    IF device.kind \notin DOMAIN registry \/ registry[device.kind] = "static" THEN None
    ELSE CreateAdapter(device.kind, registry[device.kind], ToFfiConfig(device))

-----------------------------------------------------------------------------
\* daemon::run up to the mappings. `up` are the devices that let it connect; the
\* first that cannot be built or reached ends the start.
NotStarted == [failed |-> FALSE, described |-> [d \in {} |-> 0], adapters |-> [d \in {} |-> None]]
Add(function, key, value) == [k \in DOMAIN function \cup {key} |-> IF k = key THEN value ELSE function[k]]
StartOne(at, device, registry, up) ==
    LET adapter == Create(registry, device)
    IN IF at.failed THEN at
       ELSE IF device.virtual
       THEN [at EXCEPT !.described = Add(@, device.id, AnyOf(ChannelCount(device), 0))]
       ELSE IF adapter = None \/ device.id \notin up THEN [at EXCEPT !.failed = TRUE]
       ELSE [at EXCEPT !.described = Add(@, device.id, adapter.channels),
                       !.adapters = Add(@, device.id, adapter)]
Start(config, dir, up) ==
    FoldLeft(LAMBDA at, device : StartOne(at, device, BuildRegistry(dir), up), NotStarted, config.devices)

-----------------------------------------------------------------------------
\* remove_mapping: "{device}:{channel}->{device}:{channel}". An id is a sequence
\* of pieces, of which ":" and "->" are the separators.
PlacesOf(piece, id) == {i \in DOMAIN id : id[i] = piece}
ParseEndpoint(id) ==
    LET colons == PlacesOf(":", id)
        at == CHOOSE i \in colons : \A j \in colons : j <= i
    IN IF colons = {} \/ at # Len(id) - 1 \/ id[Len(id)] \notin {"1", "2"} THEN None
       ELSE [device |-> SubSeq(id, 1, at - 1), channel |-> id[Len(id)]]
ParseMappingId(id) ==
    LET arrows == PlacesOf("->", id)
        at == CHOOSE i \in arrows : \A j \in arrows : i <= j
        ends == <<ParseEndpoint(SubSeq(id, 1, at - 1)), ParseEndpoint(SubSeq(id, at + 1, Len(id)))>>
    IN IF arrows = {} \/ None \in {ends[1], ends[2]} THEN None ELSE [from |-> ends[1], to |-> ends[2]]
\* What the page makes of a mapping it shows.
IdOf(link) == link.from.device \o <<":", link.from.channel, "->">> \o link.to.device \o <<":", link.to.channel>>


-----------------------------------------------------------------------------
\* load_dylibs: "one bad file must never bring down the host".  It takes no kind
\* away from the others either, and of the good ones the last scanned builds it.
BadFilesTakeNothing(dir) ==
    LET good == SelectSeq(dir, LAMBDA file : file.loads /\ IsDylibCandidate(file))
        registry == BuildRegistry(dir)
    IN /\ DOMAIN registry = Placeholders \cup UNION {file.kinds : file \in ToSet(good)}
       /\ \A i \in DOMAIN good : \A kind \in good[i].kinds :
             (\A j \in (i + 1)..Len(good) : kind \notin good[j].kinds) => registry[kind] = good[i].name

\* The bridge starts from an accepted file when each real device answers and has
\* a plugin that can be loaded; a bridge that started has every real device at the
\* address and port of its entry and no other, knows both ends of every mapping
\* and every desk of the gain lock; a virtual device has the channels a real one
\* of its kind would have.
StartsAsConfigured(config, dir, up) ==
    LET at == Start(config, dir, up)
        real == {device \in ToSet(config.devices) : ~device.virtual}
    IN Validate(config) =>
       /\ at.failed <=> \E device \in real :
             \/ device.id \notin up
             \/ ~\E file \in ToSet(dir) : file.loads /\ IsDylibCandidate(file) /\ device.kind \in file.kinds
             \/ device.kind = "sennheiser-ewg3" /\ device.address.family # 4
       /\ ~at.failed =>
          /\ Cardinality(DOMAIN at.described) = Len(config.devices)
          /\ DOMAIN at.adapters = {device.id : device \in real}
          /\ \A device \in real : LET adapter == at.adapters[device.id] IN
                /\ adapter.address = device.address
                /\ device.port # None /\ adapter.port # None => adapter.port = device.port
                /\ \A twin \in ToSet(config.devices) :
                      /\ twin.virtual /\ twin.kind = device.kind
                      /\ twin.channels = None /\ device.channels = None /\ DefaultChannelCount(device.kind) # None
                      => at.described[twin.id] = at.described[device.id]
          /\ \A link \in ToSet(config.mappings) :
                {link.from.device, link.to.device} \subseteq DOMAIN at.described
          /\ config.lock # None => \A place \in Places(config.lock) :
                MemberAt(config.lock, place).device \in DOMAIN at.described

\* What the page asks to delete is what it shows, unless the first device's id
\* holds an arrow.
DeletesItsOwn(link) == "->" \in {link.from.device[i] : i \in DOMAIN link.from.device} \/ ParseMappingId(IdOf(link)) = link
=============================================================================
