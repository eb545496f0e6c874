------------------------------ MODULE DeskWires ------------------------------
(***************************************************************************)
(* How each console adapter puts a channel, a field and a value on its     *)
(* wire and reads them back. A message is its form (an OSC address without *)
(* the channel, a line, a MIDI message), the number in it and its cells.   *)
(* Levels are in hundredths of a decibel; what is not read is None.        *)
(***************************************************************************)
EXTENDS Integers, Sequences, SequencesExt, DbLaw

CONSTANT None

Cell(kind, is) == [kind |-> kind, is |-> is]
Cells(m, kinds) == SelectSeq(m.cells, LAMBDA cell : cell.kind \in kinds)
Wired(form, at, cells) == [form |-> form, at |-> at, cells |-> cells]
Read(channel, field, value) == [channel |-> channel, field |-> field, value |-> value]
Bit(on) == IF on THEN 1 ELSE 0
Info(vendor, model) == Read(None, "info", <<vendor, model>>)

-----------------------------------------------------------------------------
\* X32: normalised floats. UnitOne stands for 1.0.
UnitOne == 100000
HeadampLaw == [min |-> -1200, max |-> 6000, step |-> 50]
X32TrimLaw == [min |-> -1800, max |-> 1800, step |-> 25]
Headamps == 128
X32TrimInputs == 32
ToUnit(law, db) == ((Quantize(law, db) - law.min) * UnitOne) \div (law.max - law.min)
FromUnit(law, unit) ==
    Quantize(law, law.min + ((Clamp(0, UnitOne, unit) * (law.max - law.min)) \div UnitOne))

X32Set(channel, field, value) ==
    IF channel \notin 1..(IF field = "trim" THEN X32TrimInputs ELSE Headamps) THEN None
    ELSE CASE field = "trim" -> Wired(<<"trim">>, channel, <<Cell("float", ToUnit(X32TrimLaw, value))>>)
           [] field = "gain" -> Wired(<<"gain">>, channel - 1, <<Cell("float", ToUnit(HeadampLaw, value))>>)
           [] OTHER -> Wired(<<"phantom">>, channel - 1, <<Cell("int", Bit(value))>>)
\* What set_gain and set_trim leave in the cache.
X32Cached(field, value) == Quantize(IF field = "trim" THEN X32TrimLaw ELSE HeadampLaw, value)

ParseInfoReply(m) == m.form = <<"info">> /\ Len(m.cells) >= 3 /\ m.cells[3].kind = "string"
FirstIs(m, kind) == m.cells # <<>> /\ Head(m.cells).kind = kind
X32Handle(m) ==
    CASE ParseInfoReply(m) ->
            Info(IF Head(m.cells[3].is) = "M" THEN "Midas" ELSE "Behringer", m.cells[3].is)
      [] m.form = <<"trim">> /\ m.at \in 1..X32TrimInputs /\ FirstIs(m, "float") ->
            Read(m.at, "trim", FromUnit(X32TrimLaw, Head(m.cells).is))
      [] m.form = <<"gain">> /\ m.at < Headamps /\ FirstIs(m, "float") ->
            Read(m.at + 1, "gain", FromUnit(HeadampLaw, Head(m.cells).is))
      [] m.form = <<"phantom">> /\ m.at < Headamps /\ FirstIs(m, "int") ->
            Read(m.at + 1, "phantom", Head(m.cells).is # 0)
      [] OTHER -> None

-----------------------------------------------------------------------------
\* Wing: floats in dB, and answers of which the last number counts.
WingTrimLaw == [min |-> -1800, max |-> 1800, step |-> 10]
WingInputs == 8
WingTrimInputs == 40
WingSet(channel, field, value) ==
    IF channel \notin 1..(IF field = "trim" THEN WingTrimInputs ELSE WingInputs) THEN None
    ELSE CASE field = "gain" -> Wired(<<"gain">>, channel, <<Cell("float", value)>>)
           [] field = "trim" -> Wired(<<"trim">>, channel, <<Cell("float", Quantize(WingTrimLaw, value))>>)
           [] OTHER -> Wired(<<"phantom">>, channel, <<Cell("int", Bit(value))>>)
WingCached(field, value) == IF field = "trim" THEN Quantize(WingTrimLaw, value) ELSE value

LastNumericValue(m) == Cells(m, {"float", "int"})
WingInfoReply(m) == /\ m.form = <<"?">> /\ FirstIs(m, "string")
                    /\ Len(Head(m.cells).is) >= 4 /\ Head(Head(m.cells).is) = "WING"
WingHandle(m) ==
    IF WingInfoReply(m) THEN Info("Behringer", Head(m.cells).is[4])
    ELSE IF LastNumericValue(m) = <<>> THEN None
    ELSE CASE m.form = <<"trim">> /\ m.at \in 1..WingTrimInputs -> Read(m.at, "trim", Last(LastNumericValue(m)).is)
           [] m.form = <<"gain">> -> Read(m.at, "gain", Last(LastNumericValue(m)).is)
           [] m.form = <<"phantom">> -> Read(m.at, "phantom", Last(LastNumericValue(m)).is # 0)
           [] OTHER -> None

-----------------------------------------------------------------------------
\* DM3 over OSC and over SCP: whole decibels. What is asked is not what the
\* console answers with: an int64, or more words than were sent.
GainMin == 0
GainMax == 6400
YamahaInputs == 128
WholeDb(db) == (2 * Clamp(GainMin, GainMax, db) + 100) \div 200
Dm3Set(channel, field, value) ==
    IF channel \notin 1..YamahaInputs \/ field = "trim" THEN None
    ELSE Wired(<<field>>, channel, <<Cell("int", IF field = "gain" THEN WholeDb(value) ELSE Bit(value))>>)
\* A float loses its fraction.
LastIntValue(m) == [i \in DOMAIN Cells(m, {"int", "long", "float"}) |->
                       LET cell == Cells(m, {"int", "long", "float"})[i]
                       IN IF cell.kind = "float" THEN cell.is \div 100 ELSE cell.is]
Dm3IdentifyReply(m) == m.form = <<"sscurrent_ex">> \/ \E cell \in ToSet(Cells(m, {"string"})) : cell.is = <<"scene_a">>
Dm3Handle(m) ==
    IF Dm3IdentifyReply(m) THEN Info("Yamaha", "DM3 series")
    ELSE IF m.form \notin {<<"gain">>, <<"phantom">>} \/ LastIntValue(m) = <<>> THEN None
    ELSE Read(m.at, m.form[1], LET value == Last(LastIntValue(m))
                               IN IF m.form = <<"gain">> THEN 100 * value ELSE value # 0)

\* SCP: a line of words; the two addresses are words of it.
Addresses == {"gain", "phantom"}
Line(words) == Wired(<<"line">>, None, words)
Word(w) == Cell("word", w)
Number(n) == Cell("number", n)
ScpSet(channel, field, value) ==
    IF channel \notin 1..YamahaInputs \/ field = "trim" THEN None
    ELSE Line(<<Word("set"), Word(field), Number(channel - 1), Number(0),
                Number(IF field = "gain" THEN WholeDb(value) ELSE Bit(value))>>)
Places(m, words) == {i \in DOMAIN m.cells : m.cells[i].kind = "word" /\ m.cells[i].is \in words}
ParseDevinfo(m) ==
    \E i \in Places(m, {"devinfo"}) : i + 2 \in DOMAIN m.cells /\ i + 1 \in Places(m, {"productname"})
NumberAt(m, i) == i \in DOMAIN m.cells /\ m.cells[i].kind = "number"
ParseHeadampLine(m) ==
    IF m.form # <<"line">> \/ Places(m, Addresses) = {} THEN None
    ELSE LET at == CHOOSE i \in Places(m, Addresses) : \A j \in Places(m, Addresses) : i <= j
         IN IF ~NumberAt(m, at + 1) \/ ~NumberAt(m, at + 3) THEN None
            ELSE Read(m.cells[at + 1].is + 1, m.cells[at].is,
                      IF m.cells[at].is = "gain" THEN 100 * m.cells[at + 3].is ELSE m.cells[at + 3].is # 0)
ScpHandle(m) == IF ParseDevinfo(m) THEN Info("Yamaha", "DM3") ELSE ParseHeadampLine(m)

-----------------------------------------------------------------------------
\* Allen & Heath: seven bits. Both families answer to the same kind of SysEx,
\* told apart by the model's byte in its header.
AhMin == 500
AhMax == 6000
GainDbToByte(db) == (2 * 127 * (Clamp(AhMin, AhMax, db) - AhMin) + (AhMax - AhMin)) \div (2 * (AhMax - AhMin))
GainByteToDb(byte) == AhMin + ((2 * Clamp(0, 127, byte) * (AhMax - AhMin) + 127) \div 254)
BoolToByte(on) == IF on THEN 127 ELSE 0
ByteToBool(byte) == byte >= 64
Sysex(model, opcode) == <<"sysex", model, opcode>>
Byte(n) == Cell("byte", n)

\* AHM: parameters by number, 64 inputs.
AhmModel == 18
Params == [gain |-> 25, pad |-> 26, phantom |-> 27]
AhmSet(channel, field, value) ==
    IF channel \notin 1..64 \/ field = "trim" THEN None
    ELSE Wired(<<"nrpn", 0, Params[field]>>, channel - 1,
               <<Byte(IF field = "gain" THEN GainDbToByte(value) ELSE BoolToByte(value))>>)
OpNameReply == 10
AhmHandle(m) ==
    CASE m.form = Sysex(AhmModel, OpNameReply) -> Info("Allen & Heath (AHM)", None)
      [] m.form = <<"nrpn", 0, Params.gain>> -> Read(m.at + 1, "gain", GainByteToDb(Head(m.cells).is))
      [] m.form = <<"nrpn", 0, Params.pad>> -> Read(m.at + 1, "pad", ByteToBool(Head(m.cells).is))
      [] m.form = <<"nrpn", 0, Params.phantom>> -> Read(m.at + 1, "phantom", ByteToBool(Head(m.cells).is))
      [] OTHER -> None

\* dLive: a pitchbend for a gain, a SysEx for the rest, three ranges of sockets.
DliveModel == 16
SocketNumber(channel) ==
    CASE channel \in 1..64 -> channel - 1
      [] channel \in 65..96 -> 64 + (channel - 65)
      [] channel \in 97..128 -> 96 + (channel - 97)
      [] OTHER -> None
ChannelFromSocket(mp) ==
    CASE mp \in 0..63 -> mp + 1
      [] mp \in 64..95 -> 65 + (mp - 64)
      [] mp \in 96..127 -> 97 + (mp - 96)
      [] OTHER -> None
OpPadStatus == 8
Op48vStatus == 11
OpSet48v == 12
DliveOpNameReply == 2
DliveSet(channel, field, value) ==
    IF SocketNumber(channel) = None \/ field = "trim" THEN None
    ELSE IF field = "gain" THEN Wired(<<"pitchbend", 0>>, SocketNumber(channel), <<Byte(GainDbToByte(value))>>)
    ELSE Wired(Sysex(DliveModel, OpSet48v), SocketNumber(channel), <<Byte(BoolToByte(value))>>)
DliveHandle(m) ==
    LET value == Head(m.cells).is
        channel == ChannelFromSocket(m.at)
    IN
    CASE m.form = Sysex(DliveModel, DliveOpNameReply) -> Info("Allen & Heath (dLive)", None)
      [] m.form = <<"pitchbend", 0>> /\ channel # None -> Read(channel, "gain", GainByteToDb(value))
      [] m.form = Sysex(DliveModel, Op48vStatus) /\ channel # None -> Read(channel, "phantom", ByteToBool(value))
      [] m.form = Sysex(DliveModel, OpPadStatus) /\ channel # None -> Read(channel, "pad", ByteToBool(value))
      [] OTHER -> None

-----------------------------------------------------------------------------
\* The desks: what each answers a write with, and says when asked who it is.
Desks == {"x32", "wing", "dm3", "scp", "ahm", "dlive"}
Answer(desk, m) ==
    CASE desk = "wing" -> [m EXCEPT !.cells = <<Cell("string", <<"text">>), Cell("float", 50)>> \o m.cells]
      [] desk = "dm3" -> [m EXCEPT !.cells = <<Cell("long", Head(m.cells).is)>>]
      [] desk = "scp" -> [m EXCEPT !.cells = <<Word("NOTIFY")>> \o m.cells \o <<Word("disp"), Number(7)>>]
      [] desk = "dlive" /\ m.form = Sysex(DliveModel, OpSet48v) -> [m EXCEPT !.form = Sysex(DliveModel, Op48vStatus)]
      [] OTHER -> m
Says(desk, model) ==
    CASE desk = "x32" -> Wired(<<"info">>, None, <<Cell("string", <<"V2">>), Cell("string", <<"osc">>), Cell("string", model)>>)
      [] desk = "wing" -> Wired(<<"?">>, None, <<Cell("string", <<"WING", "ip", "name", model, "serial">>)>>)
      [] desk = "dm3" -> Wired(<<"sscurrent_ex">>, None, <<Cell("string", <<"scene_a">>), Cell("int", 3)>>)
      [] desk = "scp" -> Line(<<Word("OK"), Word("devinfo"), Word("productname"), Word("DM3")>>)
      [] desk = "ahm" -> Wired(Sysex(AhmModel, OpNameReply), 0, <<Byte(65)>>)
      [] OTHER -> Wired(Sysex(DliveModel, DliveOpNameReply), 0, <<Byte(65)>>)

Set(desk, channel, field, value) ==
    CASE desk = "x32" -> X32Set(channel, field, value)
      [] desk = "wing" -> WingSet(channel, field, value)
      [] desk = "dm3" -> Dm3Set(channel, field, value)
      [] desk = "scp" -> ScpSet(channel, field, value)
      [] desk = "ahm" -> AhmSet(channel, field, value)
      [] OTHER -> DliveSet(channel, field, value)
Handle(desk, m) ==
    CASE desk = "x32" -> X32Handle(m)
      [] desk = "wing" -> WingHandle(m)
      [] desk = "dm3" -> Dm3Handle(m)
      [] desk = "scp" -> ScpHandle(m)
      [] desk = "ahm" -> AhmHandle(m)
      [] OTHER -> DliveHandle(m)

\* The channels of a desk, the range of its gain and half the step of it.
ChannelsOf(desk, field) ==
    CASE desk = "x32" -> IF field = "trim" THEN 1..32 ELSE 1..128
      [] desk = "wing" -> IF field = "trim" THEN 1..40 ELSE 1..8
      [] field = "trim" -> {}
      [] desk = "ahm" -> 1..64
      [] OTHER -> 1..128
Holds(desk, field, db) ==
    CASE field = "trim" -> Clamp(-1800, 1800, db)
      [] desk = "x32" -> Clamp(-1200, 6000, db)
      [] desk \in {"dm3", "scp"} -> Clamp(0, 6400, db)
      [] desk \in {"ahm", "dlive"} -> Clamp(500, 6000, db)
      [] OTHER -> db
HalfStep(desk, field) ==
    CASE desk = "x32" -> IF field = "trim" THEN 12 ELSE 25
      [] desk = "wing" -> IF field = "trim" THEN 5 ELSE 0
      [] desk \in {"dm3", "scp"} -> 50
      [] OTHER -> 22

\* A write is refused for a channel the desk has not; otherwise the desk's
\* answer to it reads as that field of that channel, at what was asked to
\* within half a step and the range, which is what the cache was given.
WrittenIsRead(desk, channel, field, value) ==
    LET m == Set(desk, channel, field, value) IN
    IF channel \notin ChannelsOf(desk, field) THEN m = None
    ELSE LET read == Handle(desk, Answer(desk, m))
             off == read.value - Holds(desk, field, value)
         IN /\ read.channel = channel /\ read.field = field
            /\ IF field = "phantom" THEN read.value = value
               ELSE /\ off \in -HalfStep(desk, field)..HalfStep(desk, field)
                    /\ desk = "x32" => X32Cached(field, value) = read.value
                    /\ desk = "wing" => WingCached(field, value) = read.value

\* A desk is known by its own answer alone, and no number out of the wire's
\* range is taken for a channel.
KnownByItsOwn(desk, other, model) ==
    LET read == Handle(desk, Says(other, model)) IN
    (read # None /\ read.field = "info") <=> desk = other
NoSuchChannel(desk, at, field) ==
    desk \in {"x32", "dlive"} /\ field # "trim" =>
        LET read == Handle(desk, [Answer(desk, Set(desk, 1, field, IF field = "gain" THEN 0 ELSE TRUE)) EXCEPT !.at = at])
        IN IF at < 128 THEN read.channel = at + 1 ELSE read = None
=============================================================================
