------------------------------- MODULE MicLink -------------------------------
(***************************************************************************)
(* The radio-mic adapters that ask their receivers: ShureAdapter and        *)
(* LectrosonicsAdapter over TCP, SennheiserAdapter over UDP, and the        *)
(* monitor (crates/mic-cli/src/watch.rs) that primes each channel and       *)
(* prints what it is told.                                                  *)
(***************************************************************************)
EXTENDS Integers, Sequences

CONSTANTS None, Vendors, Channels,
          Levels,    \* what a field of a channel may hold
          AirCap     \* bound: messages on their way

Fields == {"muted", "charge", "runtime"}
Battery == {"charge", "runtime"}

VARIABLES vendor,    \* "shure", "lectro", "ewdx", fixed
          rx,        \* external: by channel, what the receiver holds
          hears,     \* external: the channels the receiver tells us of
          link,      \* "down", "up", "closed": the receive loop
          up,        \* requests on their way to the receiver
          down,      \* its messages on their way: [ch, says]
          state,     \* the cache, and what the last MicEvent said: by channel None, or its fields
          calls,     \* by channel, get_state: None, "waits", "answered", "failed"
          heard      \* ghost: by channel, the fields heard of and no message missed since
vars == <<vendor, rx, hears, link, up, down, state, calls, heard>>

\* empty_state: nothing is known, and nobody is muted.
Empty == [f \in Fields |-> IF f = "muted" THEN 1 ELSE None]

Init ==
    /\ vendor \in Vendors
    /\ rx \in {[c \in Channels |-> [f \in Fields |-> v]] : v \in Levels}
    /\ hears = IF vendor = "ewdx" THEN {} ELSE Channels
    /\ link = "down" /\ up = <<>> /\ down = <<>>
    /\ state = [c \in Channels |-> None] /\ calls = [c \in Channels |-> None]
    /\ heard = [c \in Channels |-> {}]

Message(c, fields) == [ch |-> c, says |-> [f \in fields |-> rx[c][f]]]
\* One message of all a channel has, or one message of each field of it.
Dump(c) == IF vendor = "shure"
           THEN <<Message(c, {"charge"}), Message(c, {"runtime"}), Message(c, {"muted"})>>
           ELSE <<Message(c, Fields)>>

-----------------------------------------------------------------------------
\* External: a field changes, and whoever is to hear of the channel is told.
Change ==
    /\ link = "up" /\ Len(down) < AirCap
    /\ \E c \in Channels, f \in Fields : \E v \in Levels \ {rx[c][f]} :
          /\ rx' = [rx EXCEPT ![c][f] = v]
          /\ down' = IF c \in hears THEN Append(down, [ch |-> c, says |-> [g \in {f} |-> v]])
                     ELSE down
    /\ UNCHANGED <<vendor, hears, link, up, state, calls, heard>>

\* External: the receiver takes a request.  What it then says replaces nothing.
Taken ==
    /\ up # <<>> /\ up' = Tail(up) /\ link = "up" /\ Len(down) < AirCap
    /\ LET q == Head(up) IN
       \/ /\ q.op = "get" /\ down' = down \o Dump(q.ch)
          /\ hears' = hears \cup {q.ch} /\ UNCHANGED rx
       \/ /\ q.op = "mute" /\ rx' = [rx EXCEPT ![q.ch].muted = q.v]
          /\ down' = Append(down, [ch |-> q.ch, says |-> [g \in {"muted"} |-> q.v]])
          /\ UNCHANGED hears
    /\ UNCHANGED <<vendor, link, state, calls, heard>>

\* External: a datagram is lost, each way; a subscription's lifetime is over.
\* What was heard before a missed message may be old.
LoseRequest ==
    /\ vendor = "ewdx" /\ up # <<>> /\ up' = Tail(up)
    /\ UNCHANGED <<vendor, rx, hears, link, down, state, calls, heard>>
LoseMessage ==
    /\ vendor = "ewdx" /\ down # <<>> /\ down' = Tail(down)
    /\ heard' = [heard EXCEPT ![Head(down).ch] = {}]
    /\ UNCHANGED <<vendor, rx, hears, link, up, state, calls>>
Lapse ==
    /\ vendor = "ewdx" /\ hears # {} /\ hears' = {} /\ heard' = [c \in Channels |-> {}]
    /\ UNCHANGED <<vendor, rx, link, up, down, state, calls>>

-----------------------------------------------------------------------------
Connect ==
    /\ link = "down" /\ link' = "up"
    /\ UNCHANGED <<vendor, rx, hears, up, down, state, calls, heard>>

Cached(c) == state[c] # None

\* get_state - the cache, or a request (a subscription on the EW-DX) and a wait.
GetState(c) ==
    /\ link # "down" /\ calls[c] # "waits" /\ Len(up) < AirCap
    /\ IF Cached(c) THEN calls' = [calls EXCEPT ![c] = "answered"] /\ UNCHANGED up
       ELSE /\ calls' = [calls EXCEPT ![c] = "waits"]
            /\ up' = Append(up, [op |-> "get", ch |-> c])
    /\ UNCHANGED <<vendor, rx, hears, link, down, state, heard>>

Found(c) == /\ calls[c] = "waits" /\ Cached(c)
            /\ calls' = [calls EXCEPT ![c] = "answered"]
            /\ UNCHANGED <<vendor, rx, hears, link, up, down, state, heard>>
\* A second of looking, twenty times, at a cache that stayed empty.
NotFound(c) == /\ calls[c] = "waits" /\ state[c] = None
               /\ calls' = [calls EXCEPT ![c] = "failed"]
               /\ UNCHANGED <<vendor, rx, hears, link, up, down, state, heard>>

SetMute(c) ==
    /\ link # "down" /\ Len(up) < AirCap
    /\ \E v \in Levels : up' = Append(up, [op |-> "mute", ch |-> c, v |-> v])
    /\ UNCHANGED <<vendor, rx, hears, link, down, state, calls, heard>>

\* Mutant: a message is taken for all there is to know of a channel.
Replaced(before, says) == [f \in Fields |-> IF f \in DOMAIN says THEN says[f] ELSE Empty[f]]
\* The fields of a message are merged into what is known.  A battery object of
\* an EW-DX message is taken whole: what it leaves out becomes unknown.
Merged(before, says) ==
    [f \in Fields |->
        IF f \in DOMAIN says THEN says[f]
        ELSE IF vendor = "ewdx" /\ f \in Battery /\ DOMAIN says \cap Battery # {} THEN None
        ELSE before[f]]

ReceiveLoop ==
    /\ link = "up" /\ down # <<>> /\ down' = Tail(down)
    /\ LET m == Head(down)
           entry == Merged(IF state[m.ch] = None THEN Empty ELSE state[m.ch], m.says) IN
       /\ state' = [state EXCEPT ![m.ch] = entry]
       /\ heard' = [heard EXCEPT ![m.ch] = @ \cup DOMAIN m.says]
    /\ UNCHANGED <<vendor, rx, hears, link, up, calls>>

\* The connection ends, or a read fails: the loop stops and the cache stays.
Closed ==
    /\ link = "up" /\ link' = "closed" /\ down' = <<>> /\ heard' = [c \in Channels |-> {}]
    /\ UNCHANGED <<vendor, rx, hears, up, state, calls>>

Next == Change \/ Taken \/ LoseRequest \/ LoseMessage \/ Lapse
        \/ Connect \/ ReceiveLoop \/ Closed
        \/ \E c \in Channels : GetState(c) \/ Found(c) \/ NotFound(c) \/ SetMute(c)

-----------------------------------------------------------------------------
\* Once nothing is on its way, every field that was heard of is cached as the
\* receiver has it, but for a battery field the last battery message left out.
HeardIsTrue ==
    link = "up" /\ down = <<>> =>
        \A c \in hears : \A f \in heard[c] :
            \/ state[c][f] = rx[c][f]
            \/ vendor = "ewdx" /\ f \in Battery /\ state[c][f] = None

\* What makes it so at every step: of the messages on their way the last that
\* tells of a field has what the receiver has, and without one the cache has it.
Entries == [Fields -> Levels \cup {None, 1}]
NoneIsNoEntry == None \notin Entries
Messages == [ch : Channels, says : UNION {[fields -> Levels] : fields \in SUBSET Fields}]
Requests == [op : {"get"}, ch : Channels] \cup [op : {"mute"}, ch : Channels, v : Levels]

MicTypes ==
    /\ rx \in [Channels -> [Fields -> Levels]] /\ hears \subseteq Channels
    /\ up \in Seq(Requests) /\ down \in Seq(Messages)
    /\ state \in [Channels -> Entries \cup {None}] /\ heard \in [Channels -> SUBSET Fields]

Tells(q, c, f) == {i \in 1..Len(q) : q[i].ch = c /\ f \in DOMAIN q[i].says}
SaysLast(q, c, f, v) ==
    \A i \in Tells(q, c, f) : (\A j \in Tells(q, c, f) : j <= i) => q[i].says[f] = v
Right(c, f) == \/ state[c][f] = rx[c][f]
               \/ vendor = "ewdx" /\ f \in Battery /\ state[c][f] = None

MicInv ==
    /\ MicTypes
    /\ link = "down" => down = <<>> /\ \A c \in Channels : heard[c] = {}
    /\ \A c \in Channels : heard[c] # {} => state[c] # None
    /\ link = "up" => \A c \in hears : \A f \in Fields :
          /\ SaysLast(down, c, f, rx[c][f])
          /\ Tells(down, c, f) = {} /\ f \in heard[c] => Right(c, f)
=============================================================================
