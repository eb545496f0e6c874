---------------------------- MODULE Aes70Objects ----------------------------
(***************************************************************************)
(* What the AES70 plugin makes of a device's own words: the members of a   *)
(* block as it lists them, the class and the role of an object, and the    *)
(* values it reads and writes. A cell stands for 16 bits, a role is a      *)
(* sequence of tokens: a word, a number or a mark.                         *)
(***************************************************************************)
EXTENDS Integers, Sequences, SequencesExt

CONSTANTS MaxChannel,   \* a number above it is no channel
          None

-----------------------------------------------------------------------------
\* GetMembers, in the rich form (number, class, version) and the bare one.
Wide(n) == <<0, n>>
Sent(members, rich) ==
    LET item(m) == IF rich THEN Wide(m.ono) \o <<Len(m.class)>> \o m.class \o Wide(m.version) ELSE Wide(m.ono)
    IN <<Len(members)>> \o FlattenSeq([i \in DOMAIN members |-> item(members[i])])

\* One item off the front of the cells, or None.
RichItem(cells) ==
    IF Len(cells) < 3 \/ Len(cells) < 5 + cells[3] \/ cells[3] = 0 THEN None
    ELSE [member |-> [ono |-> cells[2], class |-> SubSeq(cells, 4, 3 + cells[3]), version |-> cells[5 + cells[3]]],
          left |-> SubSeq(cells, 6 + cells[3], Len(cells))]
BareItem(cells) ==
    IF Len(cells) < 2 THEN None
    ELSE [member |-> [ono |-> cells[2], class |-> None], left |-> SubSeq(cells, 3, Len(cells))]
\* Mutant: cells left over are passed over.
ConsumedOrNot(read) == read # None
Consumed(read) == read # None /\ read.left = <<>>
ListOf(Item(_), cells) ==
    LET next(sofar, i) ==
            LET one == IF sofar = None THEN None ELSE Item(sofar.left)
            IN IF one = None THEN None ELSE [members |-> Append(sofar.members, one.member), left |-> one.left]
        read == IF cells = <<>> THEN None
                ELSE FoldLeft(next, [members |-> <<>>, left |-> Tail(cells)], [i \in 1..cells[1] |-> i])
    IN IF Consumed(read) THEN read.members ELSE None
ParseMembers(cells) ==
    LET rich == ListOf(RichItem, cells)
        bare == ListOf(BareItem, cells)
    IN IF rich # None THEN rich ELSE IF bare # None THEN bare ELSE <<>>

\* The method has had several numbers: each is tried until one is not refused
\* as unknown; any other failure is the answer. A device is what it says to each.
Candidates == <<5, 4, 3>>
Unknown == {8, 11}
GetMembers(device) ==
    LET known == SelectSeq(Candidates, LAMBDA method : device[method].status \notin Unknown)
    IN IF known = <<>> \/ device[Head(known)].status # 0 THEN None ELSE ParseMembers(device[Head(known)].cells)

\* A list is read as the members it lists, in either form; one that lacks its
\* end or has something after it gives no member rather than a wrong one.
ListsAreRead(members, rich) ==
    LET cells == Sent(members, rich)
        meant == [i \in DOMAIN members |-> IF rich THEN members[i] ELSE [members[i] EXCEPT !.class = None]]
        bare(read) == [i \in DOMAIN read |-> [ono |-> read[i].ono, class |-> read[i].class]]
    IN /\ bare(ParseMembers(cells)) = bare(meant)
       /\ \A cut \in 1..3 : cut <= Len(cells) => ParseMembers(SubSeq(cells, 1, Len(cells) - cut)) = <<>>
       /\ \A junk \in 0..2 : ParseMembers(Append(cells, junk)) = <<>>

\* Whatever number a device has the method at, its members are found.
MembersAreFound(device, members) ==
    (\E method \in ToSet(Candidates) :
        /\ device[method] = [status |-> 0, cells |-> Sent(members, TRUE)]
        /\ \A other \in ToSet(Candidates) \ {method} : device[other].status \in Unknown)
    => GetMembers(device) = members

-----------------------------------------------------------------------------
\* host_class: a class by its place in the tree; others are dropped.
HostClass ==
    <<1, 1, 1, 5>> :> "Gain" @@ <<1, 1, 1, 2>> :> "Mute" @@ <<1, 1, 1, 4>> :> "Switch"
    @@ <<1, 1, 1, 3>> :> "Polarity" @@ <<1, 1, 1, 6>> :> "Delay" @@ <<1, 1, 1, 1, 1>> :> "Switch"
    @@ <<1, 1, 1, 1, 3>> :> "Int32Sensor" @@ <<1, 1, 2, 1>> :> "BasicSensor" @@ <<1, 1, 2, 2>> :> "LevelSensor"
    @@ <<1, 1, 2, 2, 1>> :> "AudioLevelSensor" @@ <<1, 1, 2, 1, 1>> :> "BooleanSensor"
    @@ <<1, 1, 2, 1, 3>> :> "Int32Sensor" @@ <<1, 1, 2, 1, 6>> :> "StringSensor"
Sensors == {"BasicSensor", "LevelSensor", "AudioLevelSensor", "BooleanSensor", "Int32Sensor", "StringSensor"}
Settable(class) == class \notin Sensors

\* A role: the words it mentions anywhere, and its tokens. A label has to be a
\* word of its own with the number next to it, spaces or marks apart.
Labels == <<"channel", "chan", "ch", "input", "in", "mic", "preamp", "pre">>
Plausible(n) == n \in 1..MaxChannel
Marks == {" ", ".", "-", "_", "#"}
NumberAfter(tokens, i) ==
    LET rest == {j \in (i + 1)..Len(tokens) : tokens[j].kind # "mark"}
        next == CHOOSE j \in rest : \A k \in rest : j <= k
    IN IF rest # {} /\ tokens[next].kind = "number" /\ \A j \in (i + 1)..(next - 1) : tokens[j].text \in Marks
       THEN tokens[next].n ELSE 0
Boundary(tokens, i) == i = 1 \/ tokens[i - 1].kind = "mark"
Labelled(tokens, label) ==
    SelectSeq([i \in DOMAIN tokens |->
        IF tokens[i].kind = "word" /\ tokens[i].text = label /\ Boundary(tokens, i) THEN NumberAfter(tokens, i) ELSE 0],
        Plausible)
ChannelNumber(tokens) ==
    LET labelled == FlattenSeq([n \in DOMAIN Labels |-> Labelled(tokens, Labels[n])])
        solid == SelectSeq(tokens, LAMBDA t : t.text \notin {" ", "+"})
    IN IF labelled # <<>> THEN Head(labelled)
       ELSE IF Len(solid) = 1 /\ solid[1].kind = "number" /\ Plausible(solid[1].n) THEN solid[1].n ELSE None
FieldOf(leaf, class) ==
    CASE "compensat" \in leaf.mentions -> None
      [] class = "Gain" /\ leaf.mentions \cap {"gain", "trim"} # {} -> "Gain"
      [] class \in {"Switch", "Mute"} /\ leaf.mentions \cap {"phantom", "48v", "+48"} # {} -> "Phantom"
      [] OTHER -> None
\* The leaf first, then its blocks from the innermost out.
Classify(leaf, path, class) ==
    LET numbers == SelectSeq([i \in 1..(Len(path) + 1) |-> ChannelNumber((<<leaf>> \o Reverse(path))[i].tokens)],
                             LAMBDA n : n # None)
    IN IF FieldOf(leaf, class) = None \/ numbers = <<>> THEN None
       ELSE [channel |-> Head(numbers), field |-> FieldOf(leaf, class)]

\* A control that its leaf or its innermost block numbers is that channel's
\* whatever the blocks around it are called; a frequency, a level or the tail
\* of a word is never a channel.
RolesAreTheirs(leaf, path, class, channel, field) ==
    Classify(leaf, path, class) = IF channel = None \/ field = None THEN None
                                  ELSE [channel |-> channel, field |-> field]

-----------------------------------------------------------------------------
\* What write() puts on the wire for a value of a kind, or None for a refusal;
\* and what decode() makes of it.
Wire(class, value) ==
    CASE class \in {"Gain", "Delay"} /\ value.kind \in {"f32", "i32"} -> value.is
      [] class = "Mute" /\ value.kind = "bool" -> IF value.is = 1 THEN 1 ELSE 2
      [] class = "Polarity" /\ value.kind = "bool" -> IF value.is = 1 THEN 2 ELSE 1
      [] class = "Switch" /\ value.kind = "bool" -> value.is
      [] class = "Switch" /\ value.kind = "i32" -> value.is % 65536
      [] OTHER -> None
Truth(holds) == [kind |-> "bool", is |-> IF holds THEN 1 ELSE 0]
\* Mutant: both kept the same way.
DecodeAlike(class, asBool, wire) ==
    CASE class \in {"Mute", "Polarity"} -> Truth(wire = 1)
      [] class = "Switch" -> IF asBool THEN Truth(wire # 0) ELSE [kind |-> "i32", is |-> wire]
      [] OTHER -> [kind |-> "f32", is |-> wire]
Decode(class, asBool, wire) ==
    CASE class = "Mute" -> Truth(wire = 1)
      [] class = "Polarity" -> Truth(wire = 2)
      [] class = "Switch" -> IF asBool THEN Truth(wire # 0) ELSE [kind |-> "i32", is |-> wire]
      [] OTHER -> [kind |-> "f32", is |-> wire]

\* A value written reads back as the value it was: on as on, a level as that
\* level, a position within 16 bits as that position; and what a class has no
\* form for is refused.
ValuesComeBack(class, asBool, value) ==
    LET wire == Wire(class, value)
        read == Decode(class, asBool, wire)
    IN /\ wire # None /\ value.is \in 0..65535 =>
              read.is = IF read.kind = "bool" /\ value.is # 0 THEN 1 ELSE value.is
       /\ wire = None <=> \/ ~Settable(class) \/ value.kind = "string"
                          \/ class \in {"Gain", "Delay"} /\ value.kind = "bool"
                          \/ class \in {"Mute", "Polarity"} /\ value.kind # "bool"
                          \/ class = "Switch" /\ value.kind = "f32"
=============================================================================
