----------------------------- MODULE Inference ------------------------------
(***************************************************************************)
(* preamp-bridge init: Dante devices are discovered, every address is      *)
(* probed for a protocol, and mappings are guessed from what the devices   *)
(* say of their audio routing. A world is what is out there:               *)
(*   services  what mDNS resolves, in its order                            *)
(*   speaks    by address: the protocols that identify there               *)
(*   host      by address: the Dante device behind it                      *)
(*   lost      the requests that get no answer: <<address, what, page>>    *)
(***************************************************************************)
EXTENDS Integers, Sequences, SequencesExt

CONSTANTS PageSize,    \* channels in a page of either kind
          MaxPages,    \* pages asked for
          None

-----------------------------------------------------------------------------
\* discover() and arc_ports(): each full name once, the control service first.
Discovered(world) ==
    LET inOrder == SelectSeq(world.services, LAMBDA s : s.control) \o SelectSeq(world.services, LAMBDA s : ~s.control)
        add(found, s) == IF \E i \in DOMAIN found : found[i].name = s.name /\ found[i].control = s.control
                         THEN found ELSE Append(found, s)
    IN FoldLeft(add, <<>>, inOrder)
Addresses(world) == FlattenSeq([i \in DOMAIN Discovered(world) |-> Discovered(world)[i].addresses])
\* The addresses whose control port is known.
Controlled(world) == UNION {IF s.control THEN ToSet(s.addresses) ELSE {} : s \in ToSet(Discovered(world))}

\* probe_ip: the first protocol that identifies.
ProbeKinds == <<"osc-wing", "osc-x32", "ah-tcp", "dlive-tcp", "yamaha-dm3">>
ProbeIp(world, ip) == SelectSeq(ProbeKinds, LAMBDA kind : kind \in world.speaks[ip])

\* An id: the kind, the end of the address, and a number for those after the first.
\* Mutant: a candidate is not compared with the ids in use.
AlwaysFree(used, base, n) == TRUE
IsFree(used, base, n) == \A i \in DOMAIN used : used[i] # [base |-> base, n |-> n]
DedupeId(base, used) ==
    [base |-> base, n |-> CHOOSE n \in 1..(Len(used) + 1) :
                              IsFree(used, base, n) /\ \A m \in 1..(n - 1) : ~IsFree(used, base, m)]
\* probe_and_build
Build(world) ==
    LET add(devices, ip) ==
            LET kinds == ProbeIp(world, ip)
                used == [i \in DOMAIN devices |-> devices[i].id]
            IN IF kinds = <<>> THEN devices
               ELSE Append(devices, [id |-> DedupeId(<<Head(kinds), ip.host>>, used), kind |-> Head(kinds), ip |-> ip])
    IN FoldLeft(add, <<>>, Addresses(world))

-----------------------------------------------------------------------------
\* What a device answers a page query with: a record for each of its channels
\* from the first asked for, and a string that is not there where it has none.
Page(channels, page) ==
    LET last == (page + 1) * PageSize
    IN SubSeq(channels, page * PageSize + 1, IF last < Len(channels) THEN last ELSE Len(channels))
Answered(world, ip, what, page) == <<ip, what, page>> \notin world.lost

\* Pages are asked for until one is short, unanswered or the last.
Pages(world, ip, what, channels, Parsed(_)) ==
    LET next(sofar, page) ==
            IF sofar.done \/ ~Answered(world, ip, what, page) THEN [sofar EXCEPT !.done = TRUE]
            ELSE LET read == Parsed([i \in DOMAIN Page(channels, page) |->
                                        [number |-> page * PageSize + i, is |-> Page(channels, page)[i]]])
                 IN [out |-> sofar.out \o read, done |-> Len(read) # PageSize]
    IN FoldLeft(next, [out |-> <<>>, done |-> FALSE], [i \in 1..MaxPages |-> i - 1]).out

QueryDeviceName(world, ip) == IF Answered(world, ip, "name", 0) THEN world.host[ip].name ELSE None
\* A channel with no name of its source's is subscribed to its own name.
RxChannel(record) ==
    [number |-> record.number, device |-> record.is.device,
     channel |-> IF record.is.channel # None THEN record.is.channel ELSE record.is.own]
QueryRx(world, ip) ==
    Pages(world, ip, "rx", world.host[ip].rx, LAMBDA records : [i \in DOMAIN records |-> RxChannel(records[i])])

\* Friendly names are read first and preferred.
Friendly(world, ip) ==
    Pages(world, ip, "friendly", world.host[ip].tx,
          LAMBDA records : SelectSeq(records, LAMBDA record : record.is.friendly # None))
\* Mutant: only the raw names.
RawOnly(world, ip, number) == {}
FriendlyName(world, ip, number) ==
    {Friendly(world, ip)[i].is.friendly : i \in {j \in DOMAIN Friendly(world, ip) : Friendly(world, ip)[j].number = number}}
QueryTx(world, ip) ==
    LET raw == Pages(world, ip, "tx", world.host[ip].tx, LAMBDA records : records)
        nameOf(record) == LET friendly == FriendlyName(world, ip, record.number)
                          IN IF friendly = {} THEN record.is.raw ELSE CHOOSE name \in friendly : TRUE
    IN [i \in DOMAIN raw |-> [number |-> raw[i].number, name |-> nameOf(raw[i])]]

-----------------------------------------------------------------------------
\* infer_mappings. A Dante name is the last device's that answers to it.
Answering(world, devices, name) ==
    {i \in DOMAIN devices : /\ name # None /\ devices[i].ip \in Controlled(world)
                            /\ QueryDeviceName(world, devices[i].ip) = name}
Newest(indices) == CHOOSE i \in indices : \A j \in indices : j <= i
\* Mutant: a name nobody has is taken for the first channel.
FirstOfAll(tx, name) == <<1>>
Numbered(tx, name) ==
    LET named == SelectSeq(tx, LAMBDA channel : channel.name = name) IN [i \in DOMAIN named |-> named[i].number]
MappingOf(world, devices, to, rx) ==
    IF rx.device = None \/ rx.channel = None \/ Answering(world, devices, rx.device) = {} THEN <<>>
    ELSE LET from == devices[Newest(Answering(world, devices, rx.device))]
             numbers == Numbered(QueryTx(world, from.ip), rx.channel)
         IN IF from.id = to.id \/ numbers = <<>> THEN <<>>
            ELSE <<[from |-> [device |-> from, channel |-> Head(numbers)],
                    to |-> [device |-> to, channel |-> rx.number]]>>
InferMappings(world) ==
    LET devices == Build(world)
        into(to) == IF to.ip \notin Controlled(world) THEN <<>>
                    ELSE FlattenSeq([n \in DOMAIN QueryRx(world, to.ip) |->
                                        MappingOf(world, devices, to, QueryRx(world, to.ip)[n])])
    IN FlattenSeq([i \in DOMAIN devices |-> into(devices[i])])

-----------------------------------------------------------------------------
\* The names a channel goes by, the one the network uses first, and what an
\* input is subscribed to.
NameOf(channel) == IF channel.friendly # None THEN channel.friendly ELSE channel.raw
NamesOf(channel) == {channel.friendly, channel.raw} \ {None}
Subscribed(world, from, Names(_), tx, to, rx) ==
    /\ rx \in DOMAIN world.host[to].rx /\ tx \in DOMAIN world.host[from].tx
    /\ LET record == RxChannel([number |-> rx, is |-> world.host[to].rx[rx]])
       IN record.device = world.host[from].name /\ record.channel \in Names(world.host[from].tx[tx])

\* No two devices of the file have one id, whatever addresses end alike.
IdsApart(world) == LET devices == Build(world) IN
    \A i, j \in DOMAIN devices : i # j => devices[i].id # devices[j].id

\* Every mapping that is guessed is a subscription that is there, with the
\* channels it has at both ends, whichever answers were lost; a channel whose
\* friendly name was lost is found by its raw one.
MappingsAreThere(world) ==
    \A m \in ToSet(InferMappings(world)) :
        Subscribed(world, m.from.device.ip, NamesOf, m.from.channel, m.to.device.ip, m.to.channel)

\* With no answer lost, every subscription within the pages is guessed between
\* two devices that were found, except those of a device to itself.
Within(n) == n <= PageSize * MaxPages
FriendlyThrough(tx, n) ==
    tx[n].friendly = None \/ \A k \in 1..(((n - 1) \div PageSize) * PageSize) : tx[k].friendly # None
SubscriptionsAreGuessed(world) ==
    LET devices == Build(world)
        guessed == ToSet(InferMappings(world))
    IN world.lost = {} =>
       \A from, to \in {d \in ToSet(devices) : d.ip \in Controlled(world)} :
       \A tx \in DOMAIN world.host[from.ip].tx, rx \in DOMAIN world.host[to.ip].rx :
          /\ Subscribed(world, from.ip, LAMBDA channel : {NameOf(channel)}, tx, to.ip, rx) /\ from.ip # to.ip /\ Within(tx) /\ Within(rx)
          /\ FriendlyThrough(world.host[from.ip].tx, tx)
          => \E m \in guessed : /\ m.to = [device |-> to, channel |-> rx]
                                /\ m.from.device.ip = from.ip /\ m.from.channel = tx
=============================================================================
