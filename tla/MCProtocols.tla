---------------------------- MODULE MCProtocols -----------------------------
(***************************************************************************)
(* The parts that talk to devices and plugins, each alone: `part` says     *)
(* which one a behaviour is of, and the slots v1, v2, ... are its variables. *)
(***************************************************************************)
EXTENDS TrimRide, ObjectBridge, FiniteSets

CONSTANTS Receivers, MicLevels, MicCap,   \* of MicLink
          Bars, Transient, AcnCap,        \* of AcnLink
          Aes70Devices, MaxChanges,       \* of Aes70
          MaxEdits                        \* of ConfigWatch

VARIABLES part, v1, v2, v3, v4, v5, v6, v7, v8, v9, v10, v11, v12, v13

NoRide == start = 0 /\ trim = 0 /\ ridden = 0 /\ owed = 0
\* The objects of a plugin start with every control at nought.
AtNought == Init /\ \A role \in Roles : controls[role] = 0
Callers == {"c1", "c2"}

\* A trim of -8..8 in steps of 4, ridden over more than twice its range: a
\* move may fall on a grid point, half-way between two, or anywhere else.
MCLaw == [min |-> -8, max |-> 8, step |-> 4]
MCStarts == {-8, -4, 0, 8}
MCSteps == -18..18

\* Streams of three or four items, joined at their start or in the middle of
\* the first two; a pitchbend without its status byte follows another, with
\* clock bytes at most in between.
Item(k, ch, v, running) == [k |-> k, ch |-> ch, v |-> v, running |-> running]
AhmItems == {Item("gain", 1, 64, FALSE), Item("phantom", 2, 127, FALSE), Item("name", 10, 5, FALSE),
             Item("clock", 0, 0, FALSE), Item("program", 0, 9, FALSE)}
DliveItems == {Item("gain", 1, 64, FALSE), Item("gain", 64, 3, TRUE), Item("phantom", 2, 127, FALSE),
               Item("pad", 1, 0, FALSE), Item("clock", 0, 0, FALSE), Item("program", 0, 9, FALSE)}
Legal(s) == \A i \in DOMAIN s : s[i].running =>
               \E j \in 1..(i - 1) : s[j].k = "gain" /\ \A l \in (j + 1)..(i - 1) : s[l].k \in {"gain", "clock"}
MCStreams ==
    {[dialect |-> "ahm", items |-> s, cut |-> c] : s \in [1..3 -> AhmItems], c \in {0, 1, 4, 5, 8}}
    \cup {[dialect |-> "dlive", items |-> s, cut |-> c] :
              s \in {t \in [1..4 -> DliveItems] : Legal(t)}, c \in 0..3}

\* Streams of PDUs of every kind: some with two messages, one that counts more
\* or fewer than it has, one that loses its framing.
Response == [kind |-> "response", handle |-> 7, status |-> 0, params |-> <<59>>]
Notification(id) == [kind |-> "notification", id |-> id, emitter |-> 9, property |-> 3, params |-> <<1>>]
Order == [kind |-> "command", handle |-> 7, target |-> 59, params |-> <<>>]
Beat(long, ticks) == [kind |-> "keepalive", long |-> long, ticks |-> ticks]
Pdu(kind, messages, lie) == [sync |-> 59, kind |-> kind, messages |-> messages, short |-> 0, lie |-> lie]
OddPdus == {Pdu(3, <<Response>>, 1), Pdu(3, <<Response, Response>>, -1), Pdu(2, <<Notification(<<4, 59>>)>>, 2),
            Pdu(5, <<>>, 0), [Pdu(3, <<Response>>, 0) EXCEPT !.sync = 58], [Pdu(3, <<>>, 0) EXCEPT !.short = 1]}
MCPdus == {Pdu(3, <<Response, Response>>, 0), Pdu(2, <<Notification(<<4, 59>>), Notification(<<>>)>>, 0),
           Pdu(1, <<Order>>, 0), Pdu(4, <<Beat(FALSE, 5)>>, 0), Pdu(4, <<Beat(TRUE, 2999)>>, 0),
           Pdu(4, <<Beat(TRUE, 400)>>, 0)} \cup OddPdus
MCPduStreams == [1..2 -> MCPdus] \cup {<<a, b, Pdu(1, <<Order>>, 0)>> : a \in OddPdus, b \in MCPdus}

\* AES70 devices: a tree of two blocks, or blocks that contain each other and
\* the root, with members twice; one that does not answer, one that refuses.
Device(m, mute, refuse) ==
    [members |-> m, mute |-> mute, known |-> {"g1", "g2", "p1"}, refuse |-> refuse]
Tree == [root |-> <<"b1", "b2", "x">>, b1 |-> <<"g1", "p1">>, b2 |-> <<"g2">>]
Loop == [root |-> <<"b1", "g1", "b2">>, b1 |-> <<"p1", "b2", "g1", "root">>, b2 |-> <<"b1", "g2", "g2">>]
MCDevices == {Device(m, mute, refuse) : m \in {Tree, Loop}, mute \in {{}, {"b1"}, {"g2"}},
                                        refuse \in {{}, {"g1"}}}

Midi == INSTANCE MidiStream WITH
    Streams <- MCStreams, stream <- v1, rest <- v2, buf <- v3, running <- v4, tracker <- v5, out <- v6
Mbc == INSTANCE Mbc WITH
    Channels <- {1, 2}, Gains <- {1, 2}, AirCap <- 2, Rebroadcasts <- BOOLEAN,
    amps <- v1, toAmps <- v2, toUs <- v3, joined <- v4, open <- v5, heard <- v6, told <- v7, intact <- v8
Plugin == INSTANCE PluginHost WITH
    Fields <- {"gain", "phantom"}, BusCap <- 2, MaxTurns <- 4, MaxAbandoned <- 2,
    turns <- v1, latest <- v2, bus <- v3, lagged <- v4, listens <- v5, events <- v6, commands <- v7,
    thread <- v8, calls <- v9, abandoned <- v10, gone <- v11, told <- v12
Ocp1 == INSTANCE Ocp1ClientProofs WITH
    Handles <- 8, FirstHandle <- 6, MaxRequests <- 5, InFlight <- 2,
    next <- v1, requests <- v2, pending <- v3, calls <- v4, got <- v5, asked <- v6, answers <- v7,
    reader <- v8, writer <- v9
Aes == INSTANCE Aes70 WITH
    Devices <- Aes70Devices, Root <- "root", MaxDepth <- 8, MaxObjects <- 4096, MaxTurns <- MaxChanges,
    device <- v1, values <- v2, phase <- v3, stack <- v4, seen <- v5, found <- v6, entries <- v7,
    subscribed <- v8, wire <- v9, events <- v10, told <- v11, moved <- v12, described <- v13
Mic == INSTANCE MicLink WITH
    Vendors <- {"shure", "lectro", "ewdx"}, Channels <- Receivers, Levels <- MicLevels, AirCap <- MicCap,
    vendor <- v1, rx <- v2, hears <- v3, link <- v4, up <- v5, down <- v6, state <- v7, calls <- v8,
    heard <- v9
Acn == INSTANCE AcnLink WITH
    Levels <- Bars, AirCap <- AcnCap, carrier <- v1, level <- v2, owed <- v3,
    settled <- v4, wire <- v5, bars <- v6, battery <- v7, suspect <- v8, joined <- v9, intact <- v10

Web == INSTANCE WebView WITH
    MaxTurns <- 3, now <- v1, loop <- v2, taken <- v3, last <- v4, seen <- v5, client <- v6, turns <- v7
Watch == INSTANCE ConfigWatch WITH
    MaxTurns <- MaxEdits, file <- v1, edits <- v2, phase <- v3, notices <- v4, cell <- v5, fresh <- v6,
    applied <- v7, heard <- v8
Pdus == INSTANCE Ocp1Stream WITH
    Streams <- MCPduStreams, Second <- 1000, stream <- v1, rest <- v2, buf <- v3, out <- v4, open <- v5
Codec == INSTANCE MCCodecs WITH probe <- v1

\* What the theorems about the parts assume of the constants, here of these.
ASSUME PartsAssumption ==
    /\ Sizes /\ Blank \notin Levels
    /\ Mbc!NoneApart /\ Ocp1!HandlesSuffice /\ Mic!NoneIsNoEntry /\ Acn!Apart
    /\ Aes!WellMade /\ Aes!AllFit

Idle11 == v11 = None /\ v12 = None /\ v13 = None
Idle10 == v10 = None /\ Idle11
Idle9 == v9 = None /\ Idle10
Idle8 == v8 = None /\ Idle9
Idle7 == v7 = None /\ Idle8
Idle6 == v6 = None /\ Idle7
Idle2 == v2 = None /\ v3 = None /\ v4 = None /\ v5 = None /\ Idle6
From2 == <<v2, v3, v4, v5, v6, v7, v8, v9, v10, v11, v12, v13>>
From6 == <<v6, v7, v8, v9, v10, v11, v12, v13>>
From7 == <<v7, v8, v9, v10, v11, v12, v13>>
From8 == <<v8, v9, v10, v11, v12, v13>>
From9 == <<v9, v10, v11, v12, v13>>
From10 == <<v10, v11, v12, v13>>
From11 == <<v11, v12, v13>>

MCInit ==
    /\ AtNought
    /\ \/ part = "trim" /\ RideInit /\ v1 = None /\ Idle2
       \/ /\ NoRide
          /\ \/ part = "objects" /\ v1 = None /\ Idle2
             \/ part = "midi" /\ Midi!Init /\ Idle7
             \/ part = "pdus" /\ Pdus!Init /\ Idle6
             \/ part = "codec" /\ v1 = None /\ Idle2
             \/ part = "mbc" /\ Mbc!Init /\ Idle9
             \/ part = "web" /\ Web!Init /\ Idle8
             \/ part = "watch" /\ Watch!Init /\ Idle9
             \/ part = "plugin" /\ Plugin!Init /\ v13 = None
             \/ part = "ocp1" /\ Ocp1!Init /\ Idle10
             \/ part = "aes" /\ Aes!Init
             \/ part = "mic" /\ Mic!Init /\ Idle10
             \/ part = "acn" /\ Acn!Init /\ Idle11

Slots == <<v1, v2, v3, v4, v5, v6, v7, v8, v9, v10, v11, v12, v13>>
MCNext ==
    /\ UNCHANGED part
    /\ \/ part = "trim" /\ Ride /\ UNCHANGED <<vars, Slots>>
       \/ part = "objects" /\ Next /\ UNCHANGED <<rideVars, Slots>>
       \/ /\ UNCHANGED <<vars, rideVars>>
          /\ \/ part = "midi" /\ Midi!Next /\ UNCHANGED From7
             \/ part = "pdus" /\ Pdus!Next /\ UNCHANGED From6
             \/ part = "codec" /\ Codec!Asked /\ UNCHANGED From2
             \/ part = "mbc" /\ Mbc!Next /\ UNCHANGED From9
             \/ part = "web" /\ Web!Next /\ UNCHANGED From8
             \/ part = "watch" /\ Watch!Next /\ UNCHANGED From9
             \/ part = "plugin" /\ Plugin!Next /\ UNCHANGED v13
             \/ part = "ocp1" /\ Ocp1!Next /\ UNCHANGED From10
             \/ part = "aes" /\ Aes!Next
             \/ part = "mic" /\ Mic!Next /\ UNCHANGED From10
             \/ part = "acn" /\ Acn!Next /\ UNCHANGED From11

\* The plugin thread, the bridge's event task and the callers are scheduled; and
\* again and again the callers pause for POLL_INTERVAL, without which the thread
\* never polls.
PluginVars == Plugin!vars
ThreadServes == part = "plugin" /\ Plugin!Serve
TaskRuns == part = "plugin" /\ Plugin!EventTask
ThreadEnds == part = "plugin" /\ Plugin!Disconnected
ThreadPolls == part = "plugin" /\ Plugin!Poll
CallerJoined(c) == part = "plugin" /\ Plugin!Joined(c)
\* The client's task and the watcher's thread are scheduled too; a connection
\* that is gone is noticed at once, long before the task's timer.
WebVars == Web!vars
WatchVars == Watch!vars
PageServed == part = "web" /\ Web!Task
PageClosed == part = "web" /\ Web!Gone
FileReread == part = "watch" /\ Watch!Reread
FileApplied == part = "watch" /\ Watch!Apply
Fairness == /\ WF_WebVars(PageServed) /\ SF_WebVars(PageClosed)
            /\ WF_WatchVars(FileReread) /\ WF_WatchVars(FileApplied)
            /\ WF_PluginVars(ThreadServes) /\ WF_PluginVars(TaskRuns) /\ WF_PluginVars(ThreadEnds)
            /\ SF_PluginVars(ThreadPolls) /\ \A c \in Callers : WF_PluginVars(CallerJoined(c))
MCSpec == MCInit /\ [][MCNext]_<<part, vars, rideVars, Slots>> /\ Fairness

(***************************************************************************)
(* The properties: each part's are about its own behaviours.               *)
(***************************************************************************)
\* However a stream is split, the same is understood of it.
SplitsDoNotMatter ==
    /\ part = "midi" => Midi!SplitsDoNotMatter
    /\ part = "pdus" => Pdus!SplitsDoNotMatter
    /\ part = "codec" => Codec!SplitsDoNotMatter

\* What is written to a device reads back as what was meant and touches nothing
\* else, and what a device says of itself is known for what it is: its members,
\* its channels, its routes; what is damaged or cut on the way is not read as
\* something else.
WrittenIsRead == part = "codec" => Codec!WrittenIsRead /\ Codec!NamedAndFound
DamageIsSeen == part = "codec" => Codec!DamageIsSeen

\* A write leaves alone what other controllers set.
OthersKept == part = "mbc" => Mbc!OthersKept

\* Nothing is shown or relayed that no device said.
NothingInvented ==
    /\ part = "mbc" => Mbc!NoSwitchInvented
    /\ part = "mic" => Mic!HeardIsTrue
    /\ part = "acn" => Acn!NoTransientShown
    /\ part = "watch" => Watch!KeepsTheLast

\* What devices say arrives: the last report of each control, the adapter's own
\* multicast among it, and every reading of a telemetry pack.
HearsAll ==
    /\ part = "objects" => ToldWhatIsRead
    /\ part = "mbc" => Mbc!HearsItself
    /\ part = "aes" => Aes!HearsEach
    /\ part = "acn" => Acn!Follows

\* Requests that overlap on one connection get their own answers, and none is
\* left waiting once the connection is gone.
AnswersAreTheirs ==
    part = "ocp1" => Ocp1!AnswersAreTheirs /\ Ocp1!WaitersArePending /\ Ocp1!HangupWakes

\* A device is searched to its end whatever fails on the way: each object that can
\* be reached is found, once.
FindsAll == part = "aes" => Aes!FindsAll

\* What the host keeps as a device's description is what the plugin found on
\* it: describe() "reflects the live device rather than its kind".
DescribesTheDevice == part = "aes" => Aes!DescribesTheDevice

\* Every call on a plugin ends, and so do the thread of an adapter let go and
\* the task of a page that was closed.
CallsEnd ==
    /\ \A c \in Callers : part = "plugin" /\ Plugin!Waits(c) ~> part = "plugin" /\ ~Plugin!Waits(c)
    /\ part = "plugin" /\ v11 ~> part = "plugin" /\ Plugin!Ended
    /\ <>[](part = "web" => Web!Ended)

=============================================================================
