------------------------------ MODULE MCCodecs ------------------------------
(***************************************************************************)
(* What the codecs are asked: one probe per behaviour, chosen by its only  *)
(* step.                                                                   *)
(***************************************************************************)
EXTENDS Integers, Sequences, SequencesExt, FiniteSets

CONSTANT None
VARIABLE probe

Blocks == INSTANCE MbcBlocks WITH Base <- 8, Target <- 3, MinGain <- -6, MaxGain <- 20
Frames == INSTANCE DeviceFrames WITH PreampCount <- 2, MaxCommands <- 3
Guess == INSTANCE Inference WITH PageSize <- 2, MaxPages <- 2
Objects == INSTANCE Aes70Objects WITH MaxChannel <- 256
Wires == INSTANCE DeskWires
Mics == INSTANCE MicWires
Boot == INSTANCE BridgeStart

\* Pairs of blocks, one of each pair any of several, whose data and addresses
\* hold the magic's cells; their lengths true, or a query's; and every cell of
\* them changed to one of the magic's or to another.
Datas == {<<>>} \cup {<<a>> : a \in {0, 5, 6}} \cup {<<5, a>> : a \in {0, 6}}
SomeBlocks == {Blocks!Block(src, 2, 0, count, data) : src \in {1, 5}, count \in {0, 6}, data \in Datas}
FewBlocks == {Blocks!Block(1, 2, 0, 1, <<3>>), Blocks!Block(1, 2, 6, 0, <<>>)}
Pairs == {<<a, b>> : a \in SomeBlocks, b \in FewBlocks} \cup {<<b, a>> : a \in SomeBlocks, b \in FewBlocks}
TrueLens(blocks) == [i \in DOMAIN blocks |-> Blocks!TrueLen(blocks[i])]
Payload(blocks, lens, damage, vendor, trailing) ==
    [codec |-> "mbc", blocks |-> blocks, lens |-> lens, damage |-> damage, vendor |-> vendor, trailing |-> trailing]
StaleProbes ==
    {Payload(<<b>>, <<len>>, None, vendor, t) :
         b \in SomeBlocks, len \in 4..6, vendor \in BOOLEAN, t \in {<<>>, <<1>>, <<5, 6, 1>>}}
    \cup {Payload(pair, <<len, len>>, None, TRUE, <<>>) : pair \in Pairs, len \in {4, 6}}
    \cup {Payload(pair, TrueLens(pair), None, vendor, <<>>) : pair \in Pairs, vendor \in BOOLEAN}
HitProbes ==
    UNION {{Payload(pair, TrueLens(pair), <<at, cell>>, TRUE, <<>>) :
               at \in 1..(16 + Len(pair[1].data) + Len(pair[2].data)), cell \in {0, 6}} : pair \in Pairs}
ArrayProbes == [codec : {"array"}, gains : [1..2 -> {-40, -7, -6, -1, 0, 3, 20, 21, 40}]]

\* Every control at the ends of its range and just past them, alone and after
\* another; and a string with a byte lost, added or changed.
Values(control) ==
    LET range == Frames!ValueRange(control)
        low == CHOOSE n \in range : \A other \in range : n <= other
        high == CHOOSE n \in range : \A other \in range : other <= n
    IN {low - 1, low, high, high + 1}
Command(control, mic, value) == [control |-> control, mic |-> mic, value |-> value]
MutedFirst == Command("Mute", 127, 1)
SomeAddress == [channel |-> 0, device |-> 127, net |-> 1]
Message(address, commands) == [codec |-> "aphex", address |-> address, commands |-> commands]
StringProbes ==
    UNION {{Message(SomeAddress, c) :
               c \in {<<Command(k, mic, v)>>, <<MutedFirst, Command(k, mic, v)>>,
                      <<Command(k, mic, v), MutedFirst, MutedFirst>>}} :
           k \in Frames!Controls, mic \in {0, 127, 128}, v \in UNION {Values(j) : j \in Frames!Controls}}
    \cup {Message([channel |-> a, device |-> b, net |-> c], <<MutedFirst>>) :
             a \in {0, 127, 128}, b \in {0, 127, 128}, c \in {0, 127, 128}}
SomeStrings == {Frames!Encode(Message(SomeAddress, c)) :
             c \in {<<MutedFirst>>, <<Command("InputGain", 3, 26), Command("TestTone", 0, 2)>>}}
ByteProbes ==
    [codec : {"bytes"},
     bytes : UNION {{ReplaceAt(w, i, b) : i \in DOMAIN w, b \in {0, 2, 9, 127, 128, 240, 247}}
                    \cup {RemoveAt(w, i) : i \in DOMAIN w}
                    \cup {InsertAt(w, i, b) : i \in DOMAIN w, b \in {0, 247}} : w \in SomeStrings}]

\* Gains on both sides of a byte, and every packet cut at every place.
Preamp(gain, pad, phantom) == [gain |-> gain, pad |-> pad, phantom |-> phantom]
Preamps == {Preamp(gain, pad, phantom) : gain \in {0, 255, 256, 32768, 65535}, pad \in BOOLEAN, phantom \in BOOLEAN}
DtProbes ==
    [codec : {"dt"}, preamps : [1..2 -> Preamps] \cup [1..1 -> Preamps], full : BOOLEAN,
     trailing : {<<>>, <<1, 2>>}, cut : {0}]
    \cup [codec : {"dt"}, preamps : [1..2 -> {Preamp(256, TRUE, FALSE), Preamp(1, FALSE, TRUE)}], full : BOOLEAN,
          trailing : {<<>>}, cut : 1..24]

\* Levels all over the range and beyond it, frequencies that differ in a byte.
Config(fill) == [at \in 0..119 |-> IF at = 14 THEN 8 ELSE (fill * at) % 256]
PacketProbes ==
    [codec : {"ewg3"}, config : {Config(0), Config(1), Config(7)}, db : {-300 + 7 * n : n \in 0..75}, khz : {518000}, on : {TRUE}]
    \cup [codec : {"ewg3"}, config : {Config(7)}, db : {0}, on : BOOLEAN,
          khz : {0, 255, 256, 65535, 65536, 16777215, 16777216, 2147483647}]
Word(key, value) == [key |-> key, value |-> value]
ReplyProbes ==
    [codec : {"reply"}, words : [1..3 -> {Word(key, v) : key \in {"Model", "ID", "IPA"}, v \in {1, 2}}]
                                \cup [1..4 -> {Word(key, 1) : key \in {"Model", "ID", "IPA", "other"}}]]

\* Lists of up to three members; devices that have the method at each number or
\* at none; roles of three blocks and a leaf; values of every kind for every class.
MemberOf(ono, class) == [ono |-> ono, class |-> class, version |-> 2]
SomeMembers == {MemberOf(4097, <<1, 1, 1, 5>>), MemberOf(1, <<1, 1, 3>>), MemberOf(2, <<1>>)}
ListProbes == [codec : {"list"}, members : UNION {[1..n -> SomeMembers] : n \in 0..3}, rich : BOOLEAN]
Says(method) == {[status |-> 8, cells |-> <<>>], [status |-> 11, cells |-> <<>>], [status |-> 5, cells |-> <<>>],
                 [status |-> 0, cells |-> Objects!Sent(<<MemberOf(7, <<1, 1, 3>>), MemberOf(8, <<1>>)>>, TRUE)]}
DeviceProbes == [codec : {"device"}, says : [{3, 4, 5} -> Says(0)]]

WordOn(w) == [kind |-> "word", text |-> w, n |-> 0]
Number(n) == [kind |-> "number", text |-> "", n |-> n]
Mark(c) == [kind |-> "mark", text |-> c, n |-> 0]
Role(tokens, mentions, channel) == [tokens |-> tokens, mentions |-> mentions, channel |-> channel]
Named(label, gap, n) == <<WordOn(label)>> \o gap \o <<Number(n)>>
Gaps == {<<>>, <<Mark(" ")>>, <<Mark(" "), Mark("#")>>}
Leaves ==
    {Role(Named(label, gap, n) \o <<Mark(" "), WordOn("gain")>>, {"gain"}, n) :
         label \in {"ch", "input", "pre"}, gap \in Gaps, n \in {1, 256}}
    \cup {Role(<<WordOn("gain"), Mark(" "), Number(65)>>, {"gain"}, None),
          Role(<<WordOn("trim")>>, {"trim"}, None),
          Role(<<WordOn("ma"), WordOn("in"), Mark(" "), Number(4), Mark(" "), WordOn("gain")>>, {"gain"}, None),
          Role(<<WordOn("gain"), Mark(" "), WordOn("compensation"), Mark(" "), WordOn("ch"), Number(3)>>,
               {"gain", "compensat"}, 3),
          Role(<<Number(48), WordOn("v")>>, {"48v"}, None),
          Role(<<WordOn("mic"), Mark(" "), Number(5), Mark(" "), WordOn("phantom")>>, {"phantom"}, 5),
          Role(<<WordOn("in"), Mark("/"), Number(2), WordOn("hz"), Mark(" "), WordOn("gain")>>, {"gain"}, None)}
BlockRoles == {Role(Named("input", <<Mark(" ")>>, 3), {}, 3), Role(<<Number(7)>>, {}, 7), Role(<<WordOn("inputs")>>, {}, None),
               Role(Named("ch", <<>>, 257), {}, None), Role(<<WordOn("hpf"), Mark(" "), Number(65), WordOn("hz")>>, {}, None)}
RoleProbes == [codec : {"role"}, leaf : Leaves, path : UNION {[1..n -> BlockRoles] : n \in 0..2},
               class : {"Gain", "Switch", "LevelSensor"}]
Innermost(leaf, path) ==
    LET numbers == SelectSeq(<<leaf.channel>> \o Reverse([i \in DOMAIN path |-> path[i].channel]), LAMBDA n : n # None)
    IN IF numbers = <<>> THEN None ELSE Head(numbers)
FieldMeant(leaf, class) ==
    IF "compensat" \in leaf.mentions THEN None
    ELSE IF leaf.mentions \cap {"gain", "trim"} # {} /\ class = "Gain" THEN "Gain"
    ELSE IF leaf.mentions \cap {"phantom", "48v"} # {} /\ class = "Switch" THEN "Phantom" ELSE None
ValueProbes ==
    [codec : {"value"}, class : {"Gain", "Delay", "Mute", "Polarity", "Switch", "LevelSensor"}, asBool : BOOLEAN,
     value : {[kind |-> kind, is |-> n] : kind \in {"f32", "i32", "string"}, n \in {0, 1, 2, 45, 65535}}
             \cup {[kind |-> "bool", is |-> n] : n \in {0, 1}}]

\* Three addresses, two of which end alike; devices of up to five channels,
\* named or not, subscribed to each other, to themselves and to a stranger;
\* every single request lost, or none.
Ip(net, host) == [net |-> net, host |-> host]
IpA == Ip(1, 5)
IpB == Ip(2, 5)
IpC == Ip(1, 6)
Service(name, control, addresses) == [name |-> name, control |-> control, addresses |-> addresses]
SomeServices ==
    {<<Service("a", TRUE, <<IpA>>), Service("b", TRUE, <<IpB>>), Service("c", FALSE, <<IpC>>)>>,
     <<Service("c", TRUE, <<IpC>>), Service("a", FALSE, <<IpA>>), Service("a", TRUE, <<IpA>>),
       Service("b", TRUE, <<IpB>>), Service("a", TRUE, <<IpA>>)>>}
Named5(which) == [n \in 1..5 |-> [raw |-> <<"raw", n>>, friendly |-> IF n \in which THEN <<"kick", n>> ELSE None]]
Input(device, channel, own) == [device |-> device, channel |-> channel, own |-> own]
SomeInputs ==
    {<<Input("A", <<"kick", n>>, None), Input("A", None, <<"raw", m>>), Input(None, None, <<"raw", 1>>),
       Input("stranger", <<"kick", 1>>, None), Input("A", <<"kick", n>>, None)>> : n \in {1, 3, 5}, m \in {2, 4, 6}}
Host(name, tx, rx) == [name |-> name, tx |-> tx, rx |-> rx]
Requests == {<<ip, what, page>> : ip \in {IpA, IpB}, what \in {"name", "rx", "friendly", "tx"}, page \in 0..1}
WorldProbes ==
    {[codec |-> "world", services |-> services, lost |-> lost,
      speaks |-> IpA :> {"osc-x32"} @@ IpB :> kinds @@ IpC :> {"ah-tcp", "dlive-tcp"},
      host |-> IpA :> Host("A", Named5(named), <<Input("A", <<"kick", 1>>, None)>>) @@ IpB :> Host("B", <<>>, inputs)
               @@ IpC :> Host("C", Named5({}), <<Input("A", <<"raw", 2>>, None)>>)] :
        services \in SomeServices, lost \in {{}} \cup {{r} : r \in Requests},
        kinds \in {{}, {"osc-x32"}, {"yamaha-dm3", "osc-x32"}},
        named \in {{}, {1, 2, 3, 4, 5}, {1, 3, 5}, {1, 2, 3}}, inputs \in SomeInputs}

\* Every desk's every channel about the ends of a range, and gains between any
\* two steps and past both ends; models of both makers.
DeskProbes ==
    [codec : {"desk"}, desk : Wires!Desks, channel : {5}, field : {"gain", "trim"}, value : {40 * n - 2000 : n \in 0..225}]
    \cup [codec : {"desk"}, desk : Wires!Desks, channel : {0, 1, 8, 9, 32, 33, 40, 41, 64, 65, 96, 97, 128, 129},
          field : {"gain", "trim"}, value : {0, 333}]
    \cup [codec : {"desk"}, desk : Wires!Desks, channel : 0..129, field : {"phantom"}, value : BOOLEAN]
WhoProbes == [codec : {"who"}, desk : Wires!Desks, other : Wires!Desks, model : {<<"X">>, <<"M">>}]
             \cup [codec : {"nobody"}, desk : Wires!Desks, at : {0, 63, 64, 95, 96, 127, 128, 200}, field : {"gain", "phantom"}]

\* Text lines of every kind, in pairs and split at any two places: numbers at
\* and past the end of their range, a channel that is none, a word that is not
\* known, an end of line of two characters.
W(word) == <<word>>
Means(channel, words, means) == [channel |-> channel, words |-> words, means |-> means, ending |-> W("CR")]
Sets2(f, v, g, w) == Mics!Merged(Mics!Sets(f, v), Mics!Sets(g, w))
Rep(channel, key, value) == <<W("REP"), W(channel), W(key), value>>
Sample(antenna, level) == <<W("SAMPLE"), W("2"), W("ALL"), W(antenna), level, <<"0", "5", "0">>>>
ShureItems ==
    {Means(1, Rep("1", "AUDIO_MUTE", W("ON")), Mics!Sets("muted", TRUE)),
     Means(0, Rep("0", "AUDIO_MUTE", W("OFF")), None),
     Means(1, Rep("1", "BATT_CHARGE", <<"1", "0", "0">>), Mics!Sets("percent", 100)),
     Means(1, Rep("1", "BATT_CHARGE", <<"2", "5", "5">>), Mics!Sets("percent", None)),
     Means(2, Rep("2", "BATT_RUN_TIME", <<"6", "5", "5", "3", "5">>), Mics!Sets("minutes", None)),
     Means(2, Rep("2", "BATT_RUN_TIME", <<"6", "5", "5", "3", "4">>), Mics!Sets("minutes", 65534)),
     Means(1, Rep("1", "FREQUENCY", <<"5", "1", "8", "0", "2", "5">>), Mics!Sets("khz", 518025)),
     Means(1, Rep("1", "CHAN_NAME", W("Vox")), None), Means(1, <<W("REP"), W("1"), W("FREQUENCY")>>, None),
     Means(2, Sample("XB", <<"1", "1", "5">>), Sets2("antenna", "B", "rf", -13)),
     Means(2, Sample("QQ", <<"0", "0", "0">>), Sets2("antenna", None, "rf", -128))}
Rx(channel, pairs) == <<W("RX"), W(channel)>> \o pairs
LectroItems ==
    {Means(1, Rx("1", <<W("MUTE"), W("ON"), W("BATT"), <<"1", "0", "0">>>>), Sets2("muted", TRUE, "percent", 100)),
     Means(1, Rx("1", <<W("NAME"), W("Vox"), W("RF"), <<"7">>, W("MUTE")>>), Mics!Sets("quality", 7)),
     Means(1, Rx("1", <<W("BATT"), <<"1", "0", "1">>>>), Mics!Nothing), Means(2, Rx("2", <<>>), Mics!Nothing),
     Means(2, Rx("2", <<W("FREQ"), <<"5", "0">>, W("RF"), W("none")>>), None), Means(0, Rx("0", <<W("MUTE"), W("ON")>>), None),
     Means(2, Rep("2", "FREQ", <<"5", "0">>), Mics!Sets("khz", 50)),
     Means(1, Rx("1", <<W("RF"), <<"6", "5", "5", "3", "6">>, W("MUTE"), W("ON")>>), None)}
Ending(item) == {item} \cup {[item EXCEPT !.ending = <<"CR", "LF">>], [item EXCEPT !.ending = <<" ", "LF", "LF">>]}
MicProbes ==
    {[codec |-> "mic", dialect |-> "shure", items |-> items, first |-> i, second |-> j] :
         items \in [1..2 -> ShureItems], i \in {0, 1, 5, 7, 8, 9, 11}, j \in {11, 12, 13, 17, 19}}
    \cup {[codec |-> "mic", dialect |-> "lectro", items |-> items, first |-> i, second |-> j] :
         items \in [1..2 -> UNION {Ending(item) : item \in LectroItems}], i \in {0, 4, 6, 7, 8}, j \in {8, 9, 10, 13, 14}}

\* Properties of every width, negative and not, known and not, in one block or
\* two, in full or without what is the same; advertisements in any order.
Said(address, value) == [address |-> address, value |-> value]
SomeSays == {Said("rfDbm", <<-50>>), Said("rfDbm", <<-49>>), Said("rfBars", <<0>>), Said("rfBars", <<3>>), Said("battery", <<-1>>), Said("battery", <<4>>),
             Said("khz", <<518025>>), Said("level", <<-300>>), Said("model", <<81, 76>>), Said("nowhere", <<0>>)}
AcnProbes ==
    [codec : {"acn"}, blocks : {<<says>> : says \in [1..3 -> SomeSays]} \cup {<<<<a, b>>, <<c>>>> : a, b, c \in SomeSays},
     terse : BOOLEAN, whole : 0..2]
    \cup [codec : {"value cut"}, say : SomeSays \ {Said("nowhere", <<0>>)}, cut : 0..1]
Attr(key, value) == [key |-> key, value |-> value]
SomeAttrs == {Attr("cid", <<"0", "-", "1">>), Attr("acn-fctn", <<"QLXD", "4">>), Attr("acn-fctn", <<"Yamaha">>),
              Attr("acn-uacn", <<"Vox", ",", "(", "lead">>), Attr("other", <<"a", "=", "b">>),
              Attr("csl-esta.dmp", <<"esta.sdt/", "host", ";", "esta.dmp/cd:", "4", ";", "x", ",", "y">>)}
SlpProbes ==
    [codec : {"slp"}, attributes : UNION {[1..n -> SomeAttrs] : n \in 1..3},
     reply : [version : {2}, function : {7}, error : {0}, length : {0, 1}, list : {<<>>}]
             \cup {[version |-> 1, function |-> 7, error |-> 0, length |-> 0, list |-> <<>>],
                   [version |-> 2, function |-> 6, error |-> 0, length |-> 0, list |-> <<>>],
                   [version |-> 2, function |-> 7, error |-> 3, length |-> 0, list |-> <<>>]},
     before : {Mics!Advertisement, [Mics!Advertisement EXCEPT !.model = <<"ULXD">>]}]

\* Plugin directories in any order, with files that are no plugins, that do not
\* load, or that say they build what another builds; configurations of three
\* devices that are right, or wrong in one place; devices that do not answer.
File(name, extension, loads, kinds) == [name |-> name, extension |-> extension, loads |-> loads, kinds |-> kinds]
SomeFiles == {File("x32", "so", TRUE, {"osc-x32"}), File("both", "dll", TRUE, {"osc-x32", "sennheiser-ewg3"}),
              File("old", "so", FALSE, {"osc-x32"}), File("notes", "txt", TRUE, {"osc-x32"}),
              File("odd", "dylib", TRUE, {"yamaha", "yamaha-dm3-scp"})}
Dirs == UNION {{dir \in [1..n -> SomeFiles] : \A i, j \in 1..n : dir[i] = dir[j] => i = j} : n \in 0..3}
Entry(id, kind, virtual, family, port, channels) ==
    [id |-> id, kind |-> kind, virtual |-> virtual, port |-> port, channels |-> channels,
     address |-> IF family = None THEN None ELSE [host |-> id, family |-> family]]
FirstEntries == {Entry("a", kind, virtual, family, port, None) :
                     kind \in {"osc-x32", "sennheiser-ewg3", "yamaha"}, virtual \in BOOLEAN, family \in {None, 4, 6}, port \in {None, 7}}
OtherEntries == {Entry("b", "osc-x32", TRUE, None, None, None), Entry("a", "osc-x32", TRUE, None, None, 4),
                 Entry("b", "yamaha-dm3-scp", FALSE, 4, None, None)}
LinkOf(from, m, to, n) == [from |-> [device |-> from, channel |-> m], to |-> [device |-> to, channel |-> n]]
Member(device, preamp, input) == [device |-> device, preamp |-> preamp, input |-> input]
Lock(leader, signals) == [leader |-> leader, signals |-> signals]
SignalOf(name, members) == [name |-> name, members |-> members]
Locks == {None, Lock("a", <<SignalOf("vox", <<Member("a", 1, None), Member("b", None, 1)>>)>>),
          Lock("a", <<SignalOf("vox", <<Member("a", 1, 1), Member("c", None, 1)>>)>>),
          Lock("c", <<>>), Lock("a", <<SignalOf("vox", <<Member("b", 1, None)>>)>>)}
ConfigOf(devices, mappings, lock) == [devices |-> devices, mappings |-> mappings, lock |-> lock]
Kinds == {"osc-x32", "osc-wing", "ah-tcp", "dlive-tcp", "yamaha-dm3", "yamaha-dm3-scp", "sennheiser-ewg3", "aes70"}
BootProbes ==
    [codec : {"plugins"}, dir : Dirs]
    \cup {[codec |-> "boot", dir |-> <<File("all", "so", TRUE, Kinds)>>, up |-> {"a"},
           config |-> ConfigOf(<<Entry("a", kind, FALSE, 4, None, n), Entry("b", twin, TRUE, None, None, m)>>, <<>>, None)] :
             kind \in Kinds, twin \in Kinds, n \in {None, 3}, m \in {None, 3}}
    \cup {[codec |-> "boot", dir |-> dir, up |-> up, config |-> ConfigOf(<<first, other>>, links, lock)] :
             dir \in {<<>>, <<File("x32", "so", TRUE, {"osc-x32"})>>,
                     <<File("both", "dll", TRUE, {"osc-x32", "sennheiser-ewg3"}), File("odd", "so", TRUE, {"yamaha-dm3-scp"})>>},
             up \in {{"a", "b"}, {"b"}}, first \in FirstEntries, other \in OtherEntries,
             links \in {<<>>, <<LinkOf("a", 1, "b", 8)>>, <<LinkOf("a", 1, "b", 300), LinkOf("c", 1, "b", 1)>>,
                       <<LinkOf("b", 1, "c", 1)>>}, lock \in Locks}

\* Mappings between devices whose ids hold pieces of the separators.
NamePieces == {<<"x">>, <<"x", ":", "1">>, <<":">>, <<"x", "->">>, <<"x", "->", "x", ":", "1">>, <<"x", ":", "1", "->", "x">>}
LinkProbes == [codec : {"link"}, link : [from : [device : NamePieces, channel : {"1", "2"}],
                                         to : [device : NamePieces, channel : {"1", "2"}]]]

Probes == StaleProbes \cup HitProbes \cup ArrayProbes \cup StringProbes \cup ByteProbes \cup DtProbes
          \cup PacketProbes \cup ReplyProbes \cup ListProbes \cup DeviceProbes \cup RoleProbes \cup ValueProbes
          \cup WorldProbes \cup DeskProbes \cup WhoProbes \cup MicProbes \cup AcnProbes \cup SlpProbes
          \cup BootProbes \cup LinkProbes
Asked == probe = None /\ probe' \in Probes
Of(codec) == probe # None /\ probe.codec = codec

\* What is written to a device reads back from it as what was meant, to within
\* the step of its protocol, and no other control of it is touched.
WrittenIsRead ==
    /\ Of("mbc") => Blocks!BlocksComeBack(probe)
    /\ Of("array") => Blocks!ArraysComeBack(probe)
    /\ Of("aphex") => Frames!SysexWrittenIsRead([address |-> probe.address, commands |-> probe.commands])
    /\ Of("dt") => Frames!DtWrittenIsRead(<<1, 2, 3, 4, 5, 6>>, probe.preamps, probe.full, probe.trailing)
    /\ Of("ewg3") => Frames!Ewg3WrittenIsRead(probe.config, probe.db, probe.khz, probe.on)
    /\ Of("value") => Objects!ValuesComeBack(probe.class, probe.asBool, probe.value)
    /\ Of("acn") => Mics!SaidIsRead(probe.blocks, probe.terse, probe.whole)
    /\ Of("link") => Boot!DeletesItsOwn(probe.link)
    /\ Of("desk") => Wires!WrittenIsRead(probe.desk, probe.channel, probe.field, probe.value)

\* However a stream is split, the same is read of it.
SplitsDoNotMatter ==
    Of("mic") => Mics!SplitsDoNotMatter(probe.dialect, probe.items, probe.first, probe.second)

\* What was damaged or cut short on the way is not read as something else.
DamageIsSeen ==
    /\ Of("mbc") => Blocks!DamageIsSeen(probe)
    /\ Of("bytes") => Frames!NothingElseIsRead(probe.bytes)
    /\ Of("dt") => Frames!CutIsSeen(<<1, 2, 3, 4, 5, 6>>, probe.preamps, probe.full, probe.cut)
    /\ Of("reply") => Frames!FoundWhole(probe.words)
    /\ Of("list") => Objects!ListsAreRead(probe.members, probe.rich)
    /\ Of("value cut") => Mics!CutIsSeen(probe.say, probe.cut)
    /\ Of("nobody") => Wires!NoSuchChannel(probe.desk, probe.at, probe.field)

\* Whatever a device calls its objects, and wherever it has them, the ones the
\* bridge can use are found under the channel they are of.
NamedAndFound ==
    /\ Of("device") => Objects!MembersAreFound(probe.says, <<MemberOf(7, <<1, 1, 3>>), MemberOf(8, <<1>>)>>)
    /\ Of("role") => Objects!RolesAreTheirs(probe.leaf, probe.path, probe.class,
                                             Innermost(probe.leaf, probe.path), FieldMeant(probe.leaf, probe.class))
    /\ Of("world") => Guess!IdsApart(probe) /\ Guess!MappingsAreThere(probe) /\ Guess!SubscriptionsAreGuessed(probe)
    /\ Of("slp") => Mics!AttributesAreRead(probe.attributes, probe.reply, probe.before)
    /\ Of("plugins") => Boot!BadFilesTakeNothing(probe.dir)
    /\ Of("boot") => Boot!StartsAsConfigured(probe.config, probe.dir, probe.up)
    /\ Of("who") => Wires!KnownByItsOwn(probe.desk, probe.other, probe.model)
=============================================================================
