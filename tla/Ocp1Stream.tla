----------------------------- MODULE Ocp1Stream -----------------------------
(***************************************************************************)
(* The read loop of the OCP.1 client over its byte stream: PDUs are framed *)
(* by the size in their header and decoded all or nothing. A cell stands   *)
(* for a field; the header is four of them, and a message says its size.   *)
(***************************************************************************)
EXTENDS Integers, Sequences, SequencesExt

CONSTANTS Streams,     \* what devices send: sequences of PDUs
          Second,      \* a second in the unit of the long keep-alive
          None

VARIABLES stream,      \* the PDUs sent
          rest,        \* cells still on their way
          buf,         \* cells read and not yet framed
          out,         \* messages passed on
          open         \* the loop runs
vars == <<stream, rest, buf, out, open>>

Sync == 59
HeaderLen == 4
Overhead == HeaderLen - 1
Wide == 256

\* Messages as cells. A size counts its own cell; a notification starts with a
\* blob that says how long it is.
Sized(body) == <<Len(body) + 1>> \o body
EncodeMessage(m) ==
    CASE m.kind = "response" -> Sized(<<m.handle, m.status>> \o m.params)
      [] m.kind = "command" -> Sized(<<m.handle, m.target>> \o m.params)
      [] m.kind = "notification" -> Sized(<<Len(m.id)>> \o m.id \o <<m.emitter, m.property>> \o m.params)
      [] m.kind = "keepalive" -> IF m.long THEN <<m.ticks \div Wide, m.ticks % Wide>> ELSE <<m.ticks>>
Kinds == <<"command", "notification", "response", "keepalive">>
Encode(pdu) ==
    LET body == FlattenSeq([i \in DOMAIN pdu.messages |-> EncodeMessage(pdu.messages[i])])
    IN <<pdu.sync, Overhead + Len(body) - pdu.short, pdu.kind, Len(pdu.messages) + pdu.lie>> \o body
Sent(pdus) == FlattenSeq([i \in DOMAIN pdus |-> Encode(pdus[i])])

\* pdu_len: how many cells the PDU at the start of the buffer has, or one of two
\* numbers that no PDU has.
More == 0
Desync == 1
PduLen(cells) ==
    CASE Len(cells) < HeaderLen -> More
      [] cells[1] # Sync \/ cells[2] < Overhead -> Desync
      [] Len(cells) < cells[2] + 1 -> More
      [] OTHER -> cells[2] + 1

\* One message off the front of the cells, or None.
Body(cells) == SubSeq(cells, 2, cells[1])
After(cells) == SubSeq(cells, cells[1] + 1, Len(cells))
Holds(cells, fixed) == cells # <<>> /\ cells[1] \in (fixed + 1)..Len(cells)
Read(message, left) == [message |-> message, left |-> left]
KeepAlive(cells) ==
    CASE cells = <<>> -> None
      [] Len(cells) = 1 -> Read([kind |-> "keepalive", seconds |-> cells[1]], <<>>)
      [] OTHER -> LET seconds == (cells[1] * Wide + cells[2]) \div Second IN
                  Read([kind |-> "keepalive", seconds |-> IF seconds = 0 THEN 1 ELSE seconds],
                       SubSeq(cells, 3, Len(cells)))
Answer(cells) ==
    IF ~Holds(cells, 2) THEN None
    ELSE LET b == Body(cells) IN
         Read([kind |-> "response", handle |-> b[1], status |-> b[2], params |-> SubSeq(b, 3, Len(b))], After(cells))
Order(cells) ==
    IF ~Holds(cells, 2) THEN None
    ELSE LET b == Body(cells) IN
         Read([kind |-> "command", handle |-> b[1], target |-> b[2], params |-> SubSeq(b, 3, Len(b))], After(cells))
News(cells) ==
    IF ~Holds(cells, 1) \/ Len(Body(cells)) < 3 + Body(cells)[1] THEN None
    ELSE LET b == Body(cells)
             at == 2 + b[1]
         IN Read([kind |-> "notification", emitter |-> b[at], property |-> b[at + 1],
                  params |-> SubSeq(b, at + 2, Len(b))], After(cells))
Message(kind, cells) ==
    CASE Kinds[kind] = "keepalive" -> KeepAlive(cells)
      [] Kinds[kind] = "response" -> Answer(cells)
      [] Kinds[kind] = "notification" -> News(cells)
      [] Kinds[kind] = "command" -> Order(cells)

\* decode_pdu: every message of the PDU or none of them.
DecodePdu(pdu) ==
    LET next(sofar, i) ==
            IF sofar = None THEN None
            ELSE LET read == Message(pdu[3], sofar.left) IN
                 IF read = None THEN None ELSE [out |-> Append(sofar.out, read.message), left |-> read.left]
        start == [out |-> <<>>, left |-> SubSeq(pdu, HeaderLen + 1, Len(pdu))]
        read == IF pdu[3] \in DOMAIN Kinds THEN FoldLeft(next, start, [i \in 1..pdu[4] |-> i]) ELSE None
    IN IF read = None THEN <<>> ELSE read.out

Init == /\ stream \in Streams /\ rest = Sent(stream)
        /\ buf = <<>> /\ out = <<>> /\ open = TRUE

\* read() gives any part of what is on its way, nothing only at the end.
Chunk(n) ==
    /\ open /\ PduLen(buf) = More
    /\ buf' = buf \o SubSeq(rest, 1, n)
    /\ rest' = SubSeq(rest, n + 1, Len(rest))
    /\ open' = (n > 0)
    /\ UNCHANGED <<stream, out>>
\* Mutant: a PDU that cannot be decoded takes all that was read with it.
DropAll(pdu) == Len(buf)
TakenOff(pdu) == Len(pdu)
Frame ==
    /\ open /\ PduLen(buf) \notin {More, Desync}
    /\ LET pdu == SubSeq(buf, 1, PduLen(buf)) IN
       /\ out' = out \o DecodePdu(pdu)
       /\ buf' = SubSeq(buf, TakenOff(pdu) + 1, Len(buf))
    /\ UNCHANGED <<stream, rest, open>>
Lost ==
    /\ open /\ PduLen(buf) = Desync
    /\ open' = FALSE
    /\ UNCHANGED <<stream, rest, buf, out>>

Next == (\E n \in 1..Len(rest) : Chunk(n)) \/ (rest = <<>> /\ Chunk(0)) \/ Frame \/ Lost
Spec == Init /\ [][Next]_vars

\* What a device said, as the bridge has it.
Meant(m) == CASE m.kind = "keepalive" -> [kind |-> "keepalive", seconds |->
                     IF ~m.long THEN m.ticks ELSE IF m.ticks < Second THEN 1 ELSE m.ticks \div Second]
              [] m.kind = "notification" -> [kind |-> m.kind, emitter |-> m.emitter, property |-> m.property,
                                             params |-> m.params]
              [] OTHER -> m
Sound(pdu) == pdu.lie <= 0 /\ pdu.sync = Sync /\ pdu.short = 0
Arrived == Len(Sent(stream)) - Len(rest)
Whole == {i \in DOMAIN stream : /\ Len(Sent(SubSeq(stream, 1, i))) <= Arrived
                                /\ \A j \in 1..i : stream[j].sync = Sync /\ stream[j].short = 0}
SaidBy(i) == IF Sound(stream[i])
             THEN LET m == stream[i].messages IN [k \in 1..(Len(m) + stream[i].lie) |-> Meant(m[k])]
             ELSE <<>>

\* However the stream is split, the messages of every PDU that arrived whole are
\* passed on, as they were sent and in their order; a PDU that counts more
\* messages than it has loses its own and no other's, and nothing after a PDU
\* that cannot be framed is guessed at.
SplitsDoNotMatter ==
    open /\ PduLen(buf) = More =>
        out = FlattenSeq([i \in DOMAIN stream |-> IF i \in Whole THEN SaidBy(i) ELSE <<>>])
=============================================================================
