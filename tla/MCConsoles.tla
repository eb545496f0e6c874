----------------------------- MODULE MCConsoles -----------------------------
(* Every console adapter on its own desk: the rig says which, and with what. *)
(* Gains in half dB steps of a small grid; 3 is off it, half-way between.    *)
EXTENDS ConsoleLink

MCGainLaw == [min |-> 0, max |-> 4, step |-> 2]
MCTrimLaw == [min |-> 0, max |-> 6, step |-> 2]
MCDeltas == {2, -2, 3}

Preamp(dialect, asks, faults, echoes, cap) ==
    [dialect |-> dialect, ops |-> {"gain", "state"}, asks |-> asks, hands |-> {"gain"},
     faults |-> faults, cap |-> cap, echoes |-> echoes]
Switches(dialect, faults, cap) ==
    [dialect |-> dialect, ops |-> {"phantom", "state", "identify", "disconnect"}, asks |-> {},
     hands |-> {}, faults |-> faults, cap |-> cap, echoes |-> {TRUE}]
Trims(dialect) ==
    [dialect |-> dialect, ops |-> {"trim", "nudge", "read"}, asks |-> {}, hands |-> {"trim"},
     faults |-> {"lose", "off"}, cap |-> 2, echoes |-> BOOLEAN]

Udp == {"lose", "off"}
MCRigs == {Preamp("x32", {2, 3}, Udp, BOOLEAN, 2), Switches("x32", {"off"}, 2), Trims("x32"),
           Preamp("wing", {2, 4}, Udp, {FALSE}, 2), Switches("wing", {"off"}, 2), Trims("wing"),
           Preamp("dm3", {2, 3}, Udp, {TRUE}, 2), Switches("dm3", {"off"}, 2),
           Preamp("scp", {2, 3}, {"off"}, {TRUE}, 3), Switches("scp", {"off"}, 2),
           Preamp("ahm", {2, 3}, {"off"}, {TRUE}, 3), Switches("ahm", {"off"}, 2),
           Preamp("dlive", {2, 3}, {"off"}, {TRUE}, 3), Switches("dlive", {"off"}, 3),
           Preamp("ewg3", {2, 3}, Udp, {TRUE}, 2), Switches("ewg3", {"off"}, 2)}

X == INSTANCE X32
W == INSTANCE Wing
D == INSTANCE Dm3
S == INSTANCE Dm3Scp
A == INSTANCE Ahm
L == INSTANCE Dlive
E == INSTANCE Ewg3

Is(dialect) == rig.dialect = dialect
Next == \/ Is("x32") /\ X!Next
        \/ Is("wing") /\ W!Next
        \/ Is("dm3") /\ D!Next
        \/ Is("scp") /\ S!Next
        \/ Is("ahm") /\ A!Next
        \/ Is("dlive") /\ L!Next
        \/ Is("ewg3") /\ E!Next

\* The keep-alive loops and the receive loops are tokio tasks of their own and
\* run when they can; a desk that is on takes what reaches it; and of renewals
\* sent again and again some arrive.
KeepAlive == \/ Is("x32") /\ X!Heartbeat
             \/ Is("wing") /\ W!SubscriptionRenewal
             \/ Is("ewg3") /\ E!Keepalive
Listen == \/ Is("x32") /\ X!ReceiveLoop
          \/ Is("wing") /\ W!ReceiveLoop
          \/ Is("ewg3") /\ E!ReceiveLoop
RenewalArrives == up # <<>> /\ Head(up) = Renew /\ DeskTakes
Fairness == SF_vars(KeepAlive) /\ WF_vars(Listen) /\ WF_vars(DeskTakes) /\ SF_vars(RenewalArrives)
Spec == Init /\ [][Next]_vars /\ Fairness

Reads == Is("scp") \/ ReadsAreReadings
Settles == rig.dialect \notin {"x32", "wing", "ewg3"} \/ CacheSettles
PeersSettle == rig.dialect \notin {"scp", "ahm", "dlive"} \/ PeerSettles

\* An outage, however long, leaves no adapter deaf that needs to renew: with the
\* desk on for good and the link open, it is listening and subscribed again and
\* again (the two comments "the adapter deaf" in x32.rs and wing.rs).
Renews == rig.dialect \in {"x32", "wing", "ewg3"}
HearsAgain == <>[](Renews /\ power /\ link = "open") => []<>(pushes /\ ears)
=============================================================================
