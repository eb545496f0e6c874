----------------------------- MODULE MidiStream -----------------------------
(***************************************************************************)
(* The MIDI byte streams of the two Allen & Heath adapters: the stream     *)
(* parsers of ahm.rs and dlive.rs, the NRPN reassembly of ahm.rs, and what *)
(* their receive loops make of a message.  A desk sends items; TCP hands   *)
(* their bytes over in pieces of any size, and the adapter may join while  *)
(* an item is half sent.                                                   *)
(***************************************************************************)
EXTENDS Integers, SequencesExt

CONSTANTS None, Streams   \* records: dialect, items, cut (bytes sent before it joined)

SysEx == 240  EndOfSysEx == 247  Clock == 248        \* F0, F7, F8
Control == 176  Program == 192  Bend == 224          \* B0, C0, E0 on MIDI channel 0
Params == [gain |-> 25, pad |-> 26, phantom |-> 27]  \* AHM's NRPN numbers
Opcodes == [pad |-> 8, phantom |-> 11]               \* dLive's status opcodes

VARIABLES stream,    \* the stream under way, fixed
          rest,      \* its bytes not read yet
          buf,       \* MidiStreamParser::buf
          running,   \* dLive: running_status
          tracker,   \* AHM: the selected channel and parameter
          out        \* what the adapter understood: [k, ch, v]
vars == <<stream, rest, buf, running, tracker, out>>

\* The bytes of an item.  A dLive pitchbend may leave its status byte out; the
\* eight bytes of the vendor's SysEx header are one byte here.
Bytes(dialect, item) ==
    CASE item.k = "clock" -> <<Clock>>
      [] item.k = "program" -> <<Program, item.v>>
      [] dialect = "ahm" /\ item.k = "name" -> <<SysEx, item.ch, item.v, EndOfSysEx>>
      [] dialect = "ahm" -> <<Control, 99, item.ch, Control, 98, Params[item.k], Control, 6, item.v>>
      [] item.k = "gain" -> (IF item.running THEN <<>> ELSE <<Bend>>) \o <<item.ch, item.v>>
      [] OTHER -> <<SysEx, Opcodes[item.k], item.ch, item.v, EndOfSysEx>>
Sent(dialect, items) == FlattenSeq([i \in DOMAIN items |-> Bytes(dialect, items[i])])

\* What was said in full since the adapter joined.  Before the first status
\* byte nothing tells where a message starts.
Whole(i) == Len(Sent(stream.dialect, SubSeq(stream.items, 1, i - 1))) >= stream.cut
Understandable(i) == \E j \in 1..i : Whole(j) /\ ~stream.items[j].running
                                     /\ stream.items[j].k # "clock"
Said == LET heard == {i \in DOMAIN stream.items :
                        /\ stream.items[i].k \in {"gain", "pad", "phantom"}
                        /\ Understandable(i)} IN
        [n \in 1..Cardinality(heard) |->
           LET item == stream.items[SetToSortSeq(heard, <)[n]] IN
           [k |-> item.k, ch |-> item.ch, v |-> item.v]]

Init ==
    /\ stream \in Streams
    /\ rest = LET all == Sent(stream.dialect, stream.items) IN SubSeq(all, stream.cut + 1, Len(all))
    /\ buf = <<>> /\ running = None /\ out = <<>>
    /\ tracker = [ch |-> None, param |-> None]

-----------------------------------------------------------------------------
\* The data bytes a status byte asks for.
DataLen(status) == CASE status \div 16 \in {8, 9, 10, 11, 14} -> 2
                     [] status \div 16 \in {12, 13} -> 1
                     [] OTHER -> None
Has(n) == Len(buf) >= n
Ended == \E i \in DOMAIN buf : buf[i] = EndOfSysEx
EndAt == CHOOSE i \in DOMAIN buf : buf[i] = EndOfSysEx /\ \A j \in 1..(i - 1) : buf[j] # EndOfSysEx
Short(status) == DataLen(status) # None /\ ~Has(1 + DataLen(status))

\* next_message of ahm.rs has nothing to return yet.
First == IF buf = <<>> THEN None ELSE Head(buf)
IsData == First # None /\ First < 128
AhmWaits == \/ First = None
            \/ First = SysEx /\ ~Ended
            \/ First # None /\ First >= 128 /\ Short(First)

\* A stray data byte, or a status that starts no message.
NoMessage == First # None /\ First # SysEx /\ DataLen(First) = None
AhmDrops == IsData \/ NoMessage
AhmTaken == IF First = SysEx THEN EndAt ELSE 1 + DataLen(First)

\* next_message of dlive.rs: data bytes at the front continue the running status.
Continues == IsData /\ running # None
DliveWaits == AhmWaits \/ (Continues /\ ~Has(DataLen(running)))
DliveDrops == (IsData /\ ~Continues) \/ (NoMessage /\ ~IsData)
DliveTaken == IF First = SysEx THEN EndAt
              ELSE IF Continues THEN DataLen(running) ELSE 1 + DataLen(First)

\* Mutant: the running status serves one message.
RunsOnce == IF First = SysEx \/ IsData THEN None ELSE First
RunsOn == IF First = SysEx THEN None ELSE IF IsData THEN running ELSE First

Waits == IF stream.dialect = "ahm" THEN AhmWaits ELSE DliveWaits
Drops == ~Waits /\ IF stream.dialect = "ahm" THEN AhmDrops ELSE DliveDrops

\* The receive loop reads once every message it has was handled.
Read ==
    /\ Waits
    /\ \E n \in 1..Len(rest) :
          /\ buf' = buf \o SubSeq(rest, 1, n)
          /\ rest' = SubSeq(rest, n + 1, Len(rest))
    /\ UNCHANGED <<stream, running, tracker, out>>

Drop == /\ Drops /\ buf' = Tail(buf)
        /\ UNCHANGED <<stream, rest, running, tracker, out>>

Selected(msg) == CASE msg[2] = 99 -> [tracker EXCEPT !.ch = msg[3]]
                   [] msg[2] = 98 -> [tracker EXCEPT !.param = msg[3]]
                   [] OTHER -> tracker

\* NrpnTracker::feed, and the parameters the receive loop knows.
AhmMessage ==
    /\ stream.dialect = "ahm" /\ ~Waits /\ ~Drops
    /\ LET msg == SubSeq(buf, 1, AhmTaken)
           isControl == Len(msg) = 3 /\ msg[1] = Control IN
       /\ buf' = SubSeq(buf, AhmTaken + 1, Len(buf))
       /\ tracker' = IF isControl THEN Selected(msg) ELSE tracker
       /\ out' = out \o
            IF isControl /\ msg[2] = 6 /\ tracker.ch # None /\ tracker.param # None
            THEN [n \in 1..Cardinality({k \in DOMAIN Params : Params[k] = tracker.param}) |->
                    [k |-> CHOOSE k \in DOMAIN Params : Params[k] = tracker.param,
                     ch |-> tracker.ch, v |-> msg[3]]]
            ELSE <<>>
    /\ UNCHANGED <<stream, rest, running>>

\* handle_message of dlive.rs.
Understood(msg) ==
    IF Len(msg) = 3 /\ msg[1] = Bend THEN <<[k |-> "gain", ch |-> msg[2], v |-> msg[3]]>>
    ELSE IF msg[1] = SysEx /\ msg[2] \in {Opcodes[k] : k \in DOMAIN Opcodes}
    THEN <<[k |-> CHOOSE k \in DOMAIN Opcodes : Opcodes[k] = msg[2], ch |-> msg[3], v |-> msg[4]]>>
    ELSE <<>>
DliveMessage ==
    /\ stream.dialect = "dlive" /\ ~Waits /\ ~Drops
    /\ LET data == SubSeq(buf, 1, DliveTaken)
           msg == IF Continues THEN <<running>> \o data ELSE data IN
       out' = out \o Understood(msg)
    /\ buf' = SubSeq(buf, DliveTaken + 1, Len(buf))
    /\ running' = RunsOn
    /\ UNCHANGED <<stream, rest, tracker>>

Next == Read \/ Drop \/ AhmMessage \/ DliveMessage

-----------------------------------------------------------------------------
\* However TCP cuts the bytes, the adapter understands what the desk said, in
\* order and nothing else, and all of it once the bytes are in.
SplitsDoNotMatter == IsPrefix(out, Said) /\ (rest = <<>> /\ Waits => out = Said)
=============================================================================
