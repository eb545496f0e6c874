---------------------------- MODULE ObjectBridge -----------------------------
(***************************************************************************)
(* A plugin between its host and a native adapter: LegacyPluginBridge, and *)
(* the X32 plugin, which is built the same way with two objects a channel. *)
(* The host sees objects by number; the plugin turns a number into an      *)
(* input's trim or a channel and a field, asks the adapter, and queues one *)
(* event for each field the adapter says has changed.                      *)
(***************************************************************************)
EXTENDS Integers, Sequences

CONSTANTS Stride,      \* objects a channel: gain, phantom and, with three, pad
          Channels,    \* channels of the device
          Inputs,      \* inputs of the device that have a trim
          Levels,      \* what a control may hold
          Blank,       \* a field the adapter has not read
          Refused, None,
          MaxTurns,    \* bound on controls turned at the device
          MaxAsks      \* bound on requests

\* The devices the shared numbering is made for: with more channels than this
\* a preamp's number can be a trim's.
Sizes == Stride \in {2, 3} /\ Channels \in Nat /\ Channels <= 21845 /\ Inputs \in Nat

VARIABLES controls,    \* the device: role -> what it holds
          fields,      \* the adapter: role of a preamp -> what it has read
          bus,         \* reports of the adapter the event task has not taken
          queue,       \* events the host has not polled
          shown,       \* number -> what the host was last told of it
          asked,       \* the host's request by role, as it meant it
          request,     \* the same by number, as the plugin gets it
          reply,
          turns, asks

vars == <<controls, fields, bus, queue, shown, asked, request, reply, turns, asks>>

U16 == 65536
TrimBase == 65536

Gain == 1
Phantom == 2
Pad == 3
PreampRoles == (1..Channels) \X (1..Stride)
TrimRoles == (1..Inputs) \X {0}
Roles == PreampRoles \cup TrimRoles

Ono(channel, field) == Stride * (channel - 1) + field
TrimOno(input) == TrimBase + input
OnoOf(role) == IF role[2] = 0 THEN TrimOno(role[1]) ELSE Ono(role[1], role[2])
\* describe(): what the host knows of the device, each object's role by number.
Described == {<<OnoOf(role), role>> : role \in Roles}
Settable(role) == role[2] # Pad

\* A number back to the trim or the field it stands for. The channel is cut to
\* sixteen bits before it is compared with the number of channels.
TrimInput(ono) == ono - TrimBase
IsTrim(ono) == TrimInput(ono) \in 1..Inputs
ChannelOf(ono) == ((ono - 1) \div Stride + 1) % U16
\* Mutant: numbers counted from nought.
FieldFromZero(ono) == (ono % Stride) + 1
FieldOf(ono) == ((ono - 1) % Stride) + 1
IsPreamp(ono) == ono > 0 /\ ChannelOf(ono) \in 1..Channels
Decoded(ono) == IF IsTrim(ono) THEN <<TrimInput(ono), 0>> ELSE <<ChannelOf(ono), FieldOf(ono)>>
Known(ono) == IsTrim(ono) \/ IsPreamp(ono)

Init ==
    /\ controls \in [Roles -> Levels]
    /\ fields = [role \in PreampRoles |-> Blank]
    /\ bus = <<>> /\ queue = <<>>
    /\ shown = [role \in PreampRoles |-> Blank]
    /\ asked = None /\ request = None /\ reply = None
    /\ turns = 0 /\ asks = 0

\* Fields of a channel change and the native adapter reports them in one event,
\* with all that it has read of the channel.
Turn(channel, changed, value) ==
    /\ turns < MaxTurns
    /\ turns' = turns + 1
    /\ LET now == [role \in {<<channel, f>> : f \in changed} |-> value] IN
       /\ controls' = [role \in Roles |-> IF role \in DOMAIN now THEN value ELSE controls[role]]
       /\ fields' = [role \in PreampRoles |-> IF role \in DOMAIN now THEN value ELSE fields[role]]
    /\ bus' = Append(bus, [channel |-> channel, changed |-> changed,
                           state |-> [f \in 1..Stride |-> fields'[<<channel, f>>]]])
    /\ UNCHANGED <<queue, shown, asked, request, reply, asks>>

\* Trims are not reported: there is no event for them.
TurnTrim(input, value) ==
    /\ turns < MaxTurns
    /\ turns' = turns + 1
    /\ controls' = [controls EXCEPT ![<<input, 0>>] = value]
    /\ UNCHANGED <<fields, bus, queue, shown, asked, request, reply, asks>>

\* preamp_event_to_oca_ffi: gain, phantom, pad, in this order, each only if it
\* changed; a pad only if the channel has one.
\* Mutant: every field of a report, changed or not.
AllOfField(event, f) == <<[ono |-> Ono(event.channel, f), value |-> event.state[f]]>>
OfField(event, f) == IF f \in event.changed
                     THEN <<[ono |-> Ono(event.channel, f), value |-> event.state[f]]>> ELSE <<>>
\* Mutant: the gain only.
GainOfEvent(event) == OfField(event, Gain)
OfEvent(event) == OfField(event, Gain) \o OfField(event, Phantom)
                  \o IF Stride = 3 THEN OfField(event, Pad) ELSE <<>>

EventTask ==
    /\ bus # <<>>
    /\ queue' = queue \o OfEvent(Head(bus))
    /\ bus' = Tail(bus)
    /\ UNCHANGED <<controls, fields, shown, asked, request, reply, turns, asks>>

\* poll_events empties the queue; the host takes the events in order.
Told(events, role) == {i \in DOMAIN events : <<events[i].ono, role>> \in Described}
LastOf(S) == CHOOSE i \in S : \A j \in S : j <= i
Poll ==
    /\ queue # <<>>
    /\ queue' = <<>>
    /\ shown' = [role \in PreampRoles |->
                    IF Told(queue, role) = {} THEN shown[role] ELSE queue[LastOf(Told(queue, role))].value]
    /\ UNCHANGED <<controls, fields, bus, asked, request, reply, turns, asks>>

Wants == {[kind |-> "get"], [kind |-> "nudge"]} \cup [kind : {"set"}, type : {"f32", "bool"}, value : Levels]
Ask(role, want) ==
    /\ asked = None /\ asks < MaxAsks
    /\ asked' = [role |-> role, want |-> want]
    /\ request' = OnoOf(role)
    /\ reply' = None
    /\ asks' = asks + 1
    /\ UNCHANGED <<controls, fields, bus, queue, shown, turns>>

\* A gain is set to an F32, a switch to a Bool, a pad to nothing; only a trim
\* moves relatively.
Typed(role, type) == type = IF role[2] \in {0, Gain} THEN "f32" ELSE "bool"
Allowed(want, role) ==
    \/ want.kind = "get"
    \/ want.kind = "set" /\ Settable(role) /\ Typed(role, want.type)
    \/ want.kind = "nudge" /\ role[2] = 0

\* get_object, set_object, nudge_object: a request for a number that stands for
\* nothing, or that the object does not take, is refused, and so is one the
\* adapter fails.
Refuse ==
    /\ reply' = Refused
    /\ UNCHANGED controls
Get(role) ==
    /\ asked.want.kind = "get"
    /\ reply' = controls[role]
    /\ UNCHANGED controls
Set(role) ==
    /\ asked.want.kind = "set"
    /\ controls' = [controls EXCEPT ![role] = asked.want.value]
    /\ reply' = asked.want.value
Nudge(role) ==
    /\ asked.want.kind = "nudge"
    /\ \E value \in Levels :
          /\ controls' = [controls EXCEPT ![role] = value]
          /\ reply' = value - controls[role]
Serve ==
    /\ asked # None
    /\ asked' = None /\ request' = None
    /\ \/ Refuse
       \/ Known(request) /\ Allowed(asked.want, Decoded(request))
            /\ (Get(Decoded(request)) \/ Set(Decoded(request)) \/ Nudge(Decoded(request)))
    /\ UNCHANGED <<fields, bus, queue, shown, turns, asks>>

Next ==
    \/ \E channel \in 1..Channels, changed \in (SUBSET (1..Stride)) \ {{}}, value \in Levels :
          Turn(channel, changed, value)
    \/ \E input \in 1..Inputs, value \in Levels : TurnTrim(input, value)
    \/ EventTask
    \/ Poll
    \/ \E role \in Roles, want \in Wants : Ask(role, want)
    \/ Serve

Spec == Init /\ [][Next]_vars

TypeOK ==
    /\ controls \in [Roles -> Levels]
    /\ asked = None \/ asked \in [role : Roles, want : Wants]
    /\ asked # None => request = OnoOf(asked.role)

\* A request reads, sets or moves the control the host named by its role, and
\* no other, though only a number is passed on.
Store == INSTANCE Controls
ImplementsControls == Store!Spec
StoreStep == [Store!Next]_<<controls, asked, reply>>

\* A field the adapter has not read is never told to the host: "an event says
\* what it actually observed, and only that is forwarded".
NothingBlankTold == \A i \in DOMAIN queue : queue[i].value # Blank

\* Once the reports have been through task and poll, what the host was told of
\* each object is what the adapter last read of it.
ToldWhatIsRead == bus = <<>> /\ queue = <<>> => shown = fields
=============================================================================
