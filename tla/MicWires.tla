------------------------------ MODULE MicWires ------------------------------
(***************************************************************************)
(* What the microphone adapters read of what their receivers say: the text *)
(* streams of Shure and Lectrosonics, and the datagrams of passive ACN.    *)
(***************************************************************************)
EXTENDS Integers, Sequences, SequencesExt, FiniteSets

CONSTANT None

-----------------------------------------------------------------------------
\* ShureAdapter and LectrosonicsAdapter: how a text stream is cut into
\* messages, how a message is understood, and what it does to the state of
\* its channel. The stream is a sequence of cells: a space, an end of line,
\* an angle bracket, a digit, or a piece of a word.

Digit == [d \in {"0", "1", "2", "3", "4", "5", "6", "7", "8", "9"} |->
             CASE d = "0" -> 0 [] d = "1" -> 1 [] d = "2" -> 2 [] d = "3" -> 3 [] d = "4" -> 4
               [] d = "5" -> 5 [] d = "6" -> 6 [] d = "7" -> 7 [] d = "8" -> 8 [] OTHER -> 9]
Ends == {"CR", "LF"}
Spaces == {" "} \cup Ends
Least(places) == CHOOSE i \in places : \A j \in places : i <= j
From(buf, i) == SubSeq(buf, i, Len(buf))

\* split_whitespace
WordFrom(body, i) == SubSeq(body, i, Least({j \in i..Len(body) : j = Len(body) \/ body[j + 1] \in Spaces}))
Tokens(body) ==
    LET starts == SelectSeq([i \in DOMAIN body |-> i],
                            LAMBDA i : body[i] \notin Spaces /\ (i = 1 \/ body[i - 1] \in Spaces))
    IN [k \in DOMAIN starts |-> WordFrom(body, starts[k])]

\* The next message of a buffer and what is left of it, or None.
ShureNext(buf) ==
    LET opens == {i \in DOMAIN buf : buf[i] = "<"}
        closes == {i \in DOMAIN buf : buf[i] = ">" /\ opens # {} /\ i > Least(opens)}
    IN IF closes = {} THEN None
       ELSE [tokens |-> Tokens(SubSeq(buf, Least(opens) + 1, Least(closes) - 1)), rest |-> From(buf, Least(closes) + 1)]
\* The ends of line that follow the first go with it, as far as they are here.
LectroNext(buf) ==
    LET ends == {i \in DOMAIN buf : buf[i] \in Ends}
    IN IF ends = {} THEN None
       ELSE LET next == {i \in DOMAIN buf : i > Least(ends) /\ buf[i] \notin Ends}
            IN [tokens |-> Tokens(SubSeq(buf, 1, Least(ends))),
                rest |-> IF next = {} THEN <<>> ELSE From(buf, Least(next))]

-----------------------------------------------------------------------------
Fields == {"muted", "percent", "minutes", "khz", "rf", "quality", "antenna"}
Empty == [f \in Fields |-> IF f = "muted" THEN FALSE ELSE None]
Nothing == [f \in {} |-> None]
Sets(field, value) == [f \in {field} |-> value]

\* A number as u16, u32, i16 or u8 parse it.
Parsed(word, limit) ==
    LET digits == [i \in DOMAIN word |-> IF word[i] \in DOMAIN Digit THEN Digit[word[i]] ELSE 10]
        value == FoldLeft(LAMBDA n, d : 10 * n + d, 0, digits)
    IN IF word = <<>> \/ 10 \in ToSet(digits) \/ value > limit THEN None ELSE value
U16 == 65535
Kilohertz == 99999999
ParseChannel(word) == IF Parsed(word, U16) = 0 THEN None ELSE Parsed(word, U16)
Percent(n) == IF n <= 100 THEN n ELSE None
AntennaOf(word) ==
    CASE word = <<"AX">> -> "A" [] word = <<"XB">> -> "B" [] word = <<"XX">> -> "Inactive" [] OTHER -> None

\* parse_message of each: the fields a message sets, or None.
Update(channel, sets) == [channel |-> channel, sets |-> sets]
ShureUpdate(t) ==
    LET n == Parsed(t[4], Kilohertz)
        about(key) == Len(t) = 4 /\ t[1] = <<"REP">> /\ t[3] = <<key>>
        sets == CASE about("AUDIO_MUTE") -> Sets("muted", t[4] = <<"ON">>)
                  [] about("BATT_CHARGE") /\ n \in 0..U16 -> Sets("percent", Percent(n))
                  [] about("BATT_RUN_TIME") /\ n # None -> Sets("minutes", IF n < U16 THEN n ELSE None)
                  [] about("FREQUENCY") /\ n # None -> Sets("khz", n)
                  [] OTHER -> None
    IN IF sets = None \/ ParseChannel(t[2]) = None THEN None ELSE Update(ParseChannel(t[2]), sets)
ShureSample(t) ==
    IF Parsed(t[5], 32767) = None \/ Parsed(t[6], 255) = None \/ ParseChannel(t[2]) = None THEN None
    ELSE Update(ParseChannel(t[2]),
                [f \in {"antenna", "rf"} |-> IF f = "rf" THEN Parsed(t[5], 32767) - 128 ELSE AntennaOf(t[4])])
ShureMessage(t) ==
    CASE Len(t) = 4 -> ShureUpdate(t)
      [] Len(t) = 6 /\ t[1] = <<"SAMPLE">> /\ t[3] = <<"ALL">> -> ShureSample(t)
      [] OTHER -> None

\* One key and its value; a number that is not one spoils the line, a level out
\* of its range is left out of it.
Level(field, n) == IF n = None THEN None ELSE IF n <= 100 THEN Sets(field, n) ELSE Nothing
LectroPair(key, value) ==
    CASE key = <<"FREQ">> -> IF Parsed(value, Kilohertz) = None THEN None ELSE Sets("khz", Parsed(value, Kilohertz))
      [] key = <<"RF">> -> Level("quality", Parsed(value, U16))
      [] key = <<"BATT">> -> Level("percent", Parsed(value, U16))
      [] key = <<"MUTE">> -> Sets("muted", value = <<"ON">>)
      [] OTHER -> Nothing
Merged(before, sets) ==
    [f \in DOMAIN before \cup DOMAIN sets |-> IF f \in DOMAIN sets THEN sets[f] ELSE before[f]]
LectroMessage(t) ==
    IF Len(t) < 2 \/ t[1] \notin {<<"RX">>, <<"REP">>} \/ ParseChannel(t[2]) = None THEN None
    ELSE LET add(sets, k) ==
                 LET pair == LectroPair(t[2 * k + 1], t[2 * k + 2])
                 IN IF sets = None \/ pair = None THEN None ELSE Merged(sets, pair)
             sets == FoldLeft(add, Nothing, [k \in 1..((Len(t) - 2) \div 2) |-> k])
         IN IF sets = None THEN None ELSE Update(ParseChannel(t[2]), sets)

-----------------------------------------------------------------------------
Next(dialect, buf) == IF dialect = "shure" THEN ShureNext(buf) ELSE LectroNext(buf)
Message(dialect, t) == IF t = <<>> THEN None ELSE IF dialect = "shure" THEN ShureMessage(t) ELSE LectroMessage(t)

\* spawn_receive_loop: a read's bytes are added to the buffer, and every whole
\* message in it is taken; one that is understood is merged and announced.
Announced(at, update) ==
    LET before == IF update.channel \in DOMAIN at.state THEN at.state[update.channel] ELSE Empty
        after == Merged(before, update.sets)
    IN [at EXCEPT !.state = Merged(@, Sets(update.channel, after)),
                  !.events = Append(@, [channel |-> update.channel, state |-> after])]
ReadOne(dialect, at) ==
    LET next == Next(dialect, at.buf)
    IN IF next = None THEN at
       ELSE LET update == Message(dialect, next.tokens)
                rest == [at EXCEPT !.buf = next.rest]
            IN IF update = None THEN rest ELSE Announced(rest, update)
Receive(dialect, at, chunk) ==
    FoldLeft(LAMBDA now, i : ReadOne(dialect, now), [at EXCEPT !.buf = @ \o chunk],
             [i \in 1..(Len(at.buf) + Len(chunk)) |-> i])
AtStart == [buf |-> <<>>, state |-> Nothing, events |-> <<>>]

\* However a stream is split between reads, each message that means something
\* is announced once, in order, with what it says and all that was said before.
\* An item is its words, its channel among them, and what it means to say.
Written(dialect, item) ==
    LET spaced == FlattenSeq([i \in DOMAIN item.words |-> <<" ">> \o item.words[i]])
    IN IF dialect = "shure" THEN <<"<">> \o spaced \o <<" ", ">">> ELSE spaced \o item.ending
Meant(items) ==
    LET add(at, item) == IF item.means = None THEN at ELSE Announced(at, Update(item.channel, item.means))
    IN FoldLeft(add, AtStart, items).events
SplitsDoNotMatter(dialect, items, first, second) ==
    LET stream == FlattenSeq([i \in DOMAIN items |-> Written(dialect, items[i])])
        chunks == <<SubSeq(stream, 1, first), SubSeq(stream, first + 1, second), From(stream, second + 1)>>
    IN second <= Len(stream) =>
       FoldLeft(LAMBDA at, chunk : Receive(dialect, at, chunk), AtStart, chunks).events = Meant(items)

-----------------------------------------------------------------------------
\* The passive ACN adapter: blocks of PDUs within PDUs, each of which may
\* leave out what is as in the one before it, and at the bottom properties
\* whose width only the adapter's table knows; and a receiver's SLP
\* advertisement. A PDU is a record of its vector, header and data, None
\* where left out; bytes are numbers.

Pdu(vector, header, data) == [vector |-> vector, header |-> header, data |-> data]

\* walk_pdus: vector and header are inherited within a block, data is not.
Inherited(pdus) ==
    LET next(sofar, pdu) ==
            LET before == IF sofar = <<>> THEN Pdu(None, None, <<>>) ELSE Last(sofar)
                filled(mine, theirs) == IF mine = None THEN theirs ELSE mine
            IN Append(sofar, Pdu(filled(pdu.vector, before.vector), filled(pdu.header, before.header),
                                 IF pdu.data = None THEN <<>> ELSE pdu.data))
    IN FoldLeft(next, <<>>, pdus)
\* The whole PDUs of a block that was cut off after so many of them.
WalkPdus(pdus, whole) == Inherited(SubSeq(pdus, 1, whole))

-----------------------------------------------------------------------------
\* property_kind: the width of each property, which the wire does not tell.
PropertyKind ==
    [model |-> "text", device |-> "text", channel |-> "text", afOutput |-> "i8", battery |-> "i8", charge |-> "i8",
     rfBars |-> "u8", indicator |-> "u8", x0104 |-> "u8", level |-> "i16", runTime |-> "i16", khz |-> "u32", rfDbm |-> "i32"]
Width == [i8 |-> 1, u8 |-> 1, i16 |-> 2, u32 |-> 4, i32 |-> 4]
Signed(kind) == kind \in {"i8", "i16", "i32"}
BigEndian(bytes, signed) ==
    LET top == IF signed /\ bytes[1] >= 128 THEN bytes[1] - 256 ELSE bytes[1]
    IN FoldLeft(LAMBDA n, byte : 256 * n + byte, top, Tail(bytes))
\* A value is the numbers of it, one or as many as a text has characters.
\* A text has its length first, its own two bytes counted in.
DecodeText(raw) ==
    IF Len(raw) < 2 THEN None
    ELSE LET total == BigEndian(SubSeq(raw, 1, 2), FALSE)
             end == IF total < 2 THEN 2 ELSE total
         IN IF end > Len(raw) THEN None ELSE SubSeq(raw, 3, end)
DecodeValue(kind, raw) ==
    IF kind = "text" THEN DecodeText(raw)
    ELSE IF Len(raw) < Width[kind] THEN None
    ELSE <<BigEndian(SubSeq(raw, 1, Width[kind]), Signed(kind))>>
\* decode_property: an absolute four-byte address of a property that is known.
AddrHeader == 2
DecodeProperty(header, data) ==
    IF header # AddrHeader \/ data = <<>> \/ Head(data) \notin DOMAIN PropertyKind THEN <<>>
    ELSE LET value == DecodeValue(PropertyKind[Head(data)], Tail(data))
         IN IF value = None THEN <<>> ELSE <<[address |-> Head(data), value |-> value]>>

\* properties_in_datagram: the root's PDUs, the wrappers in them, the client
\* blocks of those that are of DMP, and their events, replies and sets.
Wrappers == {1, 2}
ProtocolDmp == 2
DmpVectors == {2, 3, 4}
Flat(pdus, F(_)) == FlattenSeq([i \in DOMAIN pdus |-> F(pdus[i])])
DmpReports(dmp) == IF dmp.vector \in DmpVectors THEN DecodeProperty(dmp.header, dmp.data) ELSE <<>>
BlockReports(block) ==
    IF block.header # ProtocolDmp THEN <<>> ELSE Flat(Inherited(block.data), DmpReports)
\* A wrapper's own header comes before its blocks; without it there are none.
SdtReports(sdt) ==
    IF sdt.vector \notin Wrappers \/ sdt.data = <<>> THEN <<>> ELSE Flat(Inherited(Tail(sdt.data)), BlockReports)
RootReports(root) == Flat(Inherited(root.data), SdtReports)
Reports(datagram, whole) == Flat(WalkPdus(datagram, whole), RootReports)

\* Observed::apply, and what is shown of it.
RfFloor == -50
Observed == [khz |-> None, dbm |-> None, bars |-> None, battery |-> None, suspect |-> FALSE, model |-> None]
Apply(o, report) ==
    LET v == Head(report.value) IN
    CASE report.address = "model" -> [o EXCEPT !.model = report.value]
      [] report.address = "khz" -> [o EXCEPT !.khz = v]
      [] report.address = "rfDbm" -> [o EXCEPT !.dbm = v]
      [] report.address = "rfBars" -> [o EXCEPT !.bars = v, !.suspect = @ \/ (o.bars \in {None, 0} /\ v > 0)]
      [] report.address = "battery" /\ o.suspect -> [o EXCEPT !.suspect = FALSE]
      [] report.address = "battery" /\ ~o.suspect -> [o EXCEPT !.battery = IF v = -1 THEN None ELSE v]
      [] OTHER -> o
ToMicState(o) ==
    [battery |-> o.battery, khz |-> o.khz,
     dbm |-> IF o.dbm # None /\ o.bars = 0 /\ o.dbm <= RfFloor THEN None ELSE o.dbm]

\* The receiver: a value in its property's width, said in an order of its own,
\* each PDU in full or, after another of its block, without what is the same.
Byte(n) == n % 256
Encode(kind, v) ==
    CASE kind = "text" -> <<0, Len(v) + 2>> \o v
      [] kind \in {"i8", "u8"} -> <<Byte(v[1])>>
      [] kind = "i16" -> <<Byte(v[1] \div 256), Byte(v[1])>>
      [] OTHER -> <<Byte(v[1] \div 16777216), Byte(v[1] \div 65536), Byte(v[1] \div 256), Byte(v[1])>>
Told(say) == Pdu(4, AddrHeader, <<say.address>> \o IF say.address \in DOMAIN PropertyKind
                                                    THEN Encode(PropertyKind[say.address], say.value) ELSE <<1, 2, 3>>)
Terse(pdus) == [i \in DOMAIN pdus |-> IF i = 1 THEN pdus[i] ELSE Pdu(None, None, pdus[i].data)]
Spread(blocks, terse) ==
    LET inBlock(says) == LET pdus == [i \in DOMAIN says |-> Told(says[i])] IN IF terse THEN Terse(pdus) ELSE pdus
        dmp == [i \in DOMAIN blocks |-> Pdu(0, ProtocolDmp, inBlock(blocks[i]))]
        other == Pdu(0, 9, inBlock(blocks[1]))
        wrapper(vector, inside) == Pdu(vector, None, <<"wrapper">> \o inside)
        root == Pdu(4, 7, <<wrapper(8, dmp), wrapper(2, (IF terse THEN Terse(dmp) ELSE dmp) \o <<other>>), Pdu(1, None, None)>>)
    IN <<root, root>>

\* Every property in a datagram that the table knows is read with the value the
\* receiver gave it, the ones it does not know are left out, and of a datagram
\* that was cut off only what came before the cut. No strength is shown of a
\* carrier that is not there.
Known(says) == SelectSeq(says, LAMBDA say : say.address \in DOMAIN PropertyKind)
SaidIsRead(blocks, terse, whole) ==
    LET reports == Reports(Spread(blocks, terse), whole)
        shown == FoldLeft(Apply, Observed, reports)
    IN /\ reports = FlattenSeq([i \in 1..whole |-> FlattenSeq([b \in DOMAIN blocks |-> Known(blocks[b])])])
       /\ shown.bars = 0 /\ ToMicState(shown).dbm # None => shown.dbm > RfFloor
       /\ ToMicState(shown).battery \notin {-1, 255}
\* A value of fewer bytes than its property has is not read.
CutIsSeen(say, cut) ==
    LET raw == Encode(PropertyKind[say.address], say.value)
    IN DecodeValue(PropertyKind[say.address], SubSeq(raw, 1, Len(raw) - cut)) # None => cut = 0

-----------------------------------------------------------------------------
\* SLP. A list is cells: a parenthesis, a comma, a semicolon, an equals sign, or
\* a piece of a word. It is split where one group ends and the next begins.
Keys == {"cid", "acn-fctn", "acn-uacn", "csl-esta.dmp"}
Splits(list) == {i \in 1..(Len(list) - 2) : SubSeq(list, i, i + 2) = <<")", ",", "(">>}
TrimOf == {"(", ")", ","}
Trimmed(group) ==
    LET kept == {i \in DOMAIN group : group[i] \notin TrimOf}
    IN IF kept = {} THEN <<>>
       ELSE SubSeq(group, CHOOSE i \in kept : \A j \in kept : i <= j, CHOOSE i \in kept : \A j \in kept : j <= i)
Groups(list) ==
    LET at == SetToSortSeq(Splits(list), <)
        from(k) == IF k = 1 THEN 1 ELSE at[k - 1] + 3
        to(k) == IF k > Len(at) THEN Len(list) ELSE at[k] - 1
    IN [k \in 1..(Len(at) + 1) |-> Trimmed(SubSeq(list, from(k), to(k)))]
\* The parts of a value, and what each says of the endpoint or the class.
Parts(value) ==
    LET ends == SetToSortSeq({i \in DOMAIN value : value[i] = ";"} \cup {Len(value) + 1}, <)
    IN [k \in DOMAIN ends |-> SubSeq(value, IF k = 1 THEN 1 ELSE ends[k - 1] + 1, ends[k] - 1)]
Advertisement == [cid |-> None, model |-> None, name |-> None, endpoint |-> None, dcid |-> None]
WithPart(ad, part) ==
    IF part = <<>> THEN ad
    ELSE CASE Head(part) = "esta.sdt/" -> [ad EXCEPT !.endpoint = Tail(part)]
           [] Head(part) = "esta.dmp/cd:" -> [ad EXCEPT !.dcid = Tail(part)]
           [] OTHER -> ad
WithGroup(ad, group) ==
    IF Len(group) < 2 \/ group[2] # "=" THEN ad
    ELSE LET value == SubSeq(group, 3, Len(group)) IN
         CASE Head(group) = "cid" -> [ad EXCEPT !.cid = value]
           [] Head(group) = "acn-fctn" -> [ad EXCEPT !.model = value]
           [] Head(group) = "acn-uacn" -> [ad EXCEPT !.name = value]
           [] Head(group) = "csl-esta.dmp" -> FoldLeft(WithPart, ad, Parts(value))
           [] OTHER -> ad
ParseAttributeList(list) == FoldLeft(WithGroup, Advertisement, Groups(list))
IsReceiver(ad) == ad.model # None /\ ad.model # <<>> /\ Head(ad.model) \in {"QLXD", "ULXD", "AD"}
\* A reply of another version or function, of an error, or cut short is none.
ParseAttrReply(reply) ==
    IF reply.version # 2 \/ reply.function # 7 \/ reply.error # 0 \/ reply.length > Len(reply.list) THEN None
    ELSE ParseAttributeList(SubSeq(reply.list, 1, reply.length))
\* The discovery loop: what was heard of last, if it is a receiver's.
Discovered(ad, reply) ==
    LET read == ParseAttrReply(reply) IN IF read # None /\ IsReceiver(read) THEN read ELSE ad

\* Attributes in any order, among others, are each read as they were given, and
\* a console's do not replace a receiver's. No name ends in a parenthesis.
Attribute(key, value) == <<"(", key, "=">> \o value \o <<")">>
ListOf(attributes) ==
    FlattenSeq([i \in DOMAIN attributes |->
                   (IF i = 1 THEN <<>> ELSE <<",">>) \o Attribute(attributes[i].key, attributes[i].value)])
Given(attributes, key) ==
    LET of == SelectSeq(attributes, LAMBDA a : a.key = key) IN IF of = <<>> THEN None ELSE Last(of).value
AttributesAreRead(attributes, reply, before) ==
    LET list == ListOf(attributes)
        read == Discovered(before, [reply EXCEPT !.list = list, !.length = Len(list) + reply.length])
        model == Given(attributes, "acn-fctn")
    IN IF reply # [version |-> 2, function |-> 7, error |-> 0, length |-> 0, list |-> <<>>] \/ model = None
          \/ model = <<"Yamaha">>
       THEN read = before
       ELSE /\ read.model = model /\ read.cid = Given(attributes, "cid") /\ read.name = Given(attributes, "acn-uacn")
            /\ read.endpoint # None <=> Given(attributes, "csl-esta.dmp") # None
            /\ read.endpoint # None => read.endpoint = <<"host">> /\ read.dcid = <<"4">>
=============================================================================
