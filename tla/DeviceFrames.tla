---------------------------- MODULE DeviceFrames ----------------------------
(***************************************************************************)
(* The packets of the preamp devices that are spoken to in frames of their *)
(* own: the Sennheiser EW-G3 receiver, the Allen & Heath DT box and the    *)
(* Aphex 1788A. Bytes are numbers; what is not read is None.               *)
(***************************************************************************)
EXTENDS Integers, Sequences, SequencesExt, FiniteSets

CONSTANTS None,
          PreampCount,   \* preamps of a DT box
          MaxCommands    \* commands in a message to an Aphex

-----------------------------------------------------------------------------
\* EW-G3: a write names the field it is for by a flag at a fixed distance
\* from the field's own place, and a config packet has all the fields at the
\* same places. Levels are in tenths of a decibel.

BodyLen == 120
GlobalFlag == 78
FlagBase == 69
OffFreq == 8
OffAfOut == 14
OffEqualizer == 15
OffRxMute == 16
AfIndexMax == 14

\* dB = 3 * index - 24, and the nearest index to a level, within the range.
IndexToDb(index) == 30 * index - 240
Within(index) == IF index < 0 THEN 0 ELSE IF index > AfIndexMax THEN AfIndexMax ELSE index
\* Mutant: to the index below.
IndexBelow(db) == Within((db + 240) \div 30)
DbToIndex(db) == Within((2 * (db + 240) + 30) \div 60)

\* Four bytes, the lowest first.
LittleEndian(n) == [i \in 0..3 |-> (n \div 256 ^ i) % 256]
FromLittle(bytes) == bytes[0] + 256 * bytes[1] + 65536 * bytes[2] + 16777216 * bytes[3]

\* A body with bytes from an offset on, each with its flag.
Flagged(offset, bytes) ==
    [at \in 0..(BodyLen - 1) |->
        IF at \in {FlagBase + offset + i : i \in DOMAIN bytes} \cup {GlobalFlag} THEN 1
        ELSE IF at - offset \in DOMAIN bytes THEN bytes[at - offset] ELSE 0]
OneByte(value) == [i \in {0} |-> value]
WriteField(offset, value) == Flagged(offset, OneByte(value))
SetAfOut(db) == WriteField(OffAfOut, DbToIndex(db))
SetFrequency(khz) == Flagged(OffFreq, LittleEndian(khz))
SetRxMute(on) == WriteField(OffRxMute, IF on THEN 1 ELSE 0)

\* A packet has its type first; a device's has twelve bytes before the body.
DeviceHeader == 12
Packet(type, body) == [type |-> type, body |-> body]
ParseBody(body) ==
    IF OffRxMute \notin DOMAIN body THEN None
    ELSE [name |-> [i \in 0..7 |-> body[i]], khz |-> FromLittle([i \in 0..3 |-> body[OffFreq + i]]),
          af |-> IndexToDb(body[OffAfOut]), equalizer |-> body[OffEqualizer], mute |-> body[OffRxMute] # 0]
Parse(packet) == IF packet.type # "config" THEN None ELSE ParseBody(packet.body)

\* The receiver: it takes each field whose first byte is flagged. The global
\* flag is where the flag of the frequency's second byte is.
Fields == {0..7, OffFreq..(OffFreq + 3), {OffAfOut}, {OffEqualizer}, {OffRxMute}}
First(field) == CHOOSE at \in field : \A other \in field : at <= other
Takes(config, body) ==
    LET taken == UNION {field \in Fields : body[GlobalFlag] = 1 /\ body[FlagBase + First(field)] = 1}
    IN [at \in DOMAIN config |-> IF at \in taken THEN body[at] ELSE config[at]]

\* A discovery reply: words up to the first NUL, of which three are needed; the
\* last of a kind counts.
WordOf(words, key) == {i \in DOMAIN words : words[i].key = key}
DiscoveryReply(words) ==
    IF \E key \in {"Model", "ID", "IPA"} : WordOf(words, key) = {} THEN None
    ELSE [key \in {"Model", "ID", "IPA"} |->
             words[CHOOSE i \in WordOf(words, key) : \A j \in WordOf(words, key) : j <= i].value]

\* What a write is for reads back from the config, a level to within half a
\* step and the range; and nothing else of the config changes.
Request(body, config) == Parse(Packet("config", Takes(config, body)))
Clamped(db) == IF db < -240 THEN -240 ELSE IF db > 180 THEN 180 ELSE db
Near(level, db) == level - Clamped(db) \in -15..15
Ewg3WrittenIsRead(config, db, khz, on) ==
    LET before == Parse(Packet("config", config)) IN
    /\ LET read == Request(SetAfOut(db), config)
       IN Near(read.af, db) /\ read = [before EXCEPT !.af = read.af]
    /\ Request(SetFrequency(khz), config) = [before EXCEPT !.khz = khz]
    /\ Request(SetRxMute(on), config) = [before EXCEPT !.mute = on]
    /\ Parse(Packet("meter", config)) = None

\* A receiver is found with all it says of itself, in whatever order, or not.
FoundWhole(words) ==
    LET found == DiscoveryReply(words) IN
    found # None => \A key \in DOMAIN found : \E i \in DOMAIN words : words[i] = [key |-> key, value |-> found[key]]

-----------------------------------------------------------------------------
\* DT: the preamp messages of a box in their ConMon envelope, two bytes a
\* 16-bit number. The device's side is read off what decode_status expects.

ConmonHeaderLen == 24
Vendor == <<65, 108, 108, 101, 110, 72, 116, 104>>
GainReference == 32768
SetMicPre == 5
StatusFull == 1
StatusFlags == 0

\* Mutant: the low byte first.
LowByteFirst(n) == <<n % 256, n \div 256>>
Wire(n) == <<n \div 256, n % 256>>
FromWire(hi, lo) == hi * 256 + lo

\* The MAC with FF FE in its middle.
Eui64(mac) == SubSeq(mac, 1, 3) \o <<255, 254>> \o SubSeq(mac, 4, 6)
WrapConmon(frame) ==
    Wire(frame.magic) \o Wire((ConmonHeaderLen + Len(frame.body)) % 65536) \o Wire(frame.seqnum) \o <<0, 0>>
        \o frame.device \o frame.vendor \o frame.body
ParseConmon(packet) ==
    IF Len(packet) < ConmonHeaderLen THEN None
    ELSE [magic |-> FromWire(packet[1], packet[2]), seqnum |-> FromWire(packet[5], packet[6]),
          device |-> SubSeq(packet, 9, 16), vendor |-> SubSeq(packet, 17, 24),
          body |-> SubSeq(packet, ConmonHeaderLen + 1, Len(packet))]

FlagsByte(preamp) == (IF preamp.pad THEN 1 ELSE 0) + (IF preamp.phantom THEN 2 ELSE 0)
FromFlags(gain, flags) ==
    [gain |-> gain, pad |-> flags % 2 = 1, phantom |-> (flags \div 2) % 2 = 1]

\* The device's side: it takes a set, answers a poll, and sends its status.
Entry(preamp) == Append(Wire(preamp.gain), FlagsByte(preamp))
Status(preamps, full) ==
    IF full THEN <<StatusFull>> \o FlattenSeq([i \in DOMAIN preamps |-> Entry(preamps[i])])
            ELSE <<StatusFlags>> \o [i \in DOMAIN preamps |-> FlagsByte(preamps[i])]
TakesSet(body) == [channel |-> body[2], preamp |-> FromFlags(FromWire(body[3], body[4]), body[5])]

EncodeSet(channel, preamp) == <<SetMicPre, channel>> \o Wire(preamp.gain) \o <<FlagsByte(preamp)>>
DecodeStatus(body) ==
    LET width == IF body[1] = StatusFull THEN 3 ELSE 1 IN
    IF Len(body) - 1 < PreampCount * width THEN None
    ELSE [i \in 1..PreampCount |->
             IF width = 3 THEN FromFlags(FromWire(body[3 * i - 1], body[3 * i]), body[3 * i + 1])
             ELSE FromFlags(GainReference, body[i + 1])]
\* A selector that is neither is refused, and so is an empty body.
ReadStatus(body) == IF body # <<>> /\ body[1] \in {StatusFull, StatusFlags} THEN DecodeStatus(body) ELSE None

Frame(mac, body) == [magic |-> 65534, seqnum |-> 513, device |-> Eui64(mac), vendor |-> Vendor, body |-> body]
BodyOf(packet) == ParseConmon(packet).body

\* Every preamp's fields come back through the envelope, whatever follows them,
\* in a status of flags all but the gain; and a set says what it was made of.
DtWrittenIsRead(mac, preamps, full, trailing) ==
    LET body == Status(preamps, full) \o trailing
        packet == WrapConmon(Frame(mac, body))
        read == ReadStatus(BodyOf(packet))
    IN /\ ParseConmon(packet) = Frame(mac, body)
       /\ Len(preamps) = PreampCount =>
             read = [i \in DOMAIN preamps |-> IF full THEN preamps[i] ELSE [preamps[i] EXCEPT !.gain = GainReference]]
       /\ \A i \in DOMAIN preamps : TakesSet(EncodeSet(i - 1, preamps[i])) = [channel |-> i - 1, preamp |-> preamps[i]]

\* A packet cut short is never read as fewer preamps than the device has, or as
\* others: it gives the whole status or none.
CutIsSeen(mac, preamps, full, cut) ==
    LET packet == WrapConmon(Frame(mac, Status(preamps, full)))
        part == SubSeq(packet, 1, Len(packet) - cut)
    IN cut > 0 /\ Len(preamps) = PreampCount =>
           ParseConmon(part) = None \/ ReadStatus(BodyOf(part)) = None

-----------------------------------------------------------------------------
\* Aphex: the parametric SysEx string, commands for a unit between F0 and F7.

SysexStart == 240
SysexEnd == 247
Manufacturer == <<0, 0, 56>>
DataByte == 0..127
SysexHeaderLen == 7

Opcode == [InputGain |-> 0, MainMaxOut |-> 1, AuxMaxOut |-> 2, PhantomPower |-> 3, LowCutFilter |-> 4,
           Limiter |-> 5, PolarityReverse |-> 6, Mute |-> 7, Pad |-> 8, TestToneMinus20dB |-> 10,
           TestTone0dB |-> 11, TestTone |-> 23, RequestParameterDump |-> 32, RequestExtendedDump |-> 86]
Controls == DOMAIN Opcode
FromOpcode(byte) == {control \in Controls : Opcode[control] = byte}
ValueRange(control) ==
    CASE control = "InputGain" -> 26..65
      [] control \in {"MainMaxOut", "AuxMaxOut"} -> 0..27
      [] control = "TestTone" -> 0..2
      [] control = "RequestParameterDump" -> {1}
      [] control = "RequestExtendedDump" -> DataByte
      [] OTHER -> 0..1
Switches == {control \in Controls : ValueRange(control) = 0..1}

\* The constructors refuse everything else.
Address == [channel : DataByte, device : DataByte, net : DataByte]
IsCommand(c) == c.mic \in DataByte /\ c.value \in ValueRange(c.control)
Switch(control, mic, on) == [control |-> control, mic |-> mic, value |-> IF on THEN 1 ELSE 0]
IsMessage(m) == /\ m.address \in Address
                /\ Len(m.commands) \in 1..MaxCommands
                /\ \A i \in DOMAIN m.commands : IsCommand(m.commands[i])

Bytes(c) == <<Opcode[c.control], c.mic, c.value>>
Encode(m) == <<SysexStart>> \o Manufacturer \o <<m.address.channel, m.address.device, m.address.net>>
             \o FlattenSeq([i \in DOMAIN m.commands |-> Bytes(m.commands[i])]) \o <<SysexEnd>>

Framed(bytes) == /\ Len(bytes) >= SysexHeaderLen + 3 + 1
                 /\ bytes[1] = SysexStart /\ Last(bytes) = SysexEnd
                 /\ SubSeq(bytes, 2, 4) = Manufacturer
Body(bytes) == SubSeq(bytes, SysexHeaderLen + 1, Len(bytes) - 1)
\* Mutant: bytes left over at the end of the body are passed over.
WholeOrNot(body) == TRUE
WholeCommands(body) == Len(body) % 3 = 0
CommandsIn(body) ==
    [i \in 1..(Len(body) \div 3) |->
        LET known == FromOpcode(body[3 * i - 2]) IN
        [control |-> IF known = {} THEN None ELSE CHOOSE control \in known : TRUE,
         mic |-> body[3 * i - 1], value |-> body[3 * i]]]
Decode(bytes) ==
    IF ~Framed(bytes) \/ ~WholeCommands(Body(bytes)) THEN None
    ELSE LET message == [address |-> [channel |-> bytes[5], device |-> bytes[6], net |-> bytes[7]],
                         commands |-> CommandsIn(Body(bytes))]
         IN IF (\A i \in DOMAIN message.commands : message.commands[i].control # None) /\ IsMessage(message)
            THEN message ELSE None

\* What is written reads back, and no byte of it could be taken for the start
\* of another MIDI message.
SysexWrittenIsRead(m) ==
    IsMessage(m) => /\ Decode(Encode(m)) = m
                    /\ \A i \in 2..(Len(Encode(m)) - 1) : Encode(m)[i] \in DataByte

\* A string is read only as the one message it is: bytes lost, added or changed
\* give no message, or another that says exactly those bytes.
NothingElseIsRead(bytes) == Decode(bytes) # None => Encode(Decode(bytes)) = bytes
=============================================================================
