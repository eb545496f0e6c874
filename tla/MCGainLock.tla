----------------------------- MODULE MCGainLock -----------------------------
(***************************************************************************)
(* Small rigs for TLC: the desks, the signals they share, and how their    *)
(* adapters report.  A unit is one step of the finest trim.                *)
(***************************************************************************)
EXTENDS GainLock

CONSTANTS foh, mon, bcast, c1, c2

Led(d, p) == [device |-> d, preamp |-> p, input |-> 0]
Fed(d, i) == [device |-> d, preamp |-> 0, input |-> i]

\* One signal, one follower; one signal, two follower desks.
OneToOne == <<<<Led(foh, 1), Fed(mon, 1)>>>>
OneToTwo == <<<<Led(foh, 1), Fed(mon, 1), Fed(bcast, 1)>>>>
\* Two signals on one follower desk; the first one's input is one it lacks.
TwoOnMon == <<<<Led(foh, 1), Fed(mon, 1)>>, <<Led(foh, 2), Fed(mon, 2)>>>>
BadFirst == <<<<Led(foh, 1), Fed(mon, 9)>>, <<Led(foh, 2), Fed(mon, 2)>>>>
\* Either desk can lead.
Either == <<<<[device |-> foh, preamp |-> 1, input |-> 1], [device |-> mon, preamp |-> 1, input |-> 1]>>>>
\* The same, each through another preamp.
EitherApart == <<<<[device |-> foh, preamp |-> 1, input |-> 1], [device |-> mon, preamp |-> 2, input |-> 1]>>>>

FohMon == {foh, mon}
AllDesks == {foh, mon, bcast}
OnePreamp == [d \in Desks |-> IF d = foh THEN {1} ELSE {}]
TwoPreamps == [d \in Desks |-> IF d = foh THEN {1, 2} ELSE {}]
PreampEach == [d \in Desks |-> {1}]
PreampApart == [d \in Desks |-> IF d = foh THEN {1} ELSE {2}]
TwoInputs == [d \in Desks |-> {1, 2}]

\* Adapters: one that confirms sets and is asked for every read; an X32, which
\* keeps a cache and does not hear its own sets back; a DM3 over OSC, which
\* pushes nothing; one that is asked for every read and pushes nothing.
Confirming == [d \in Desks |-> [pushes |-> TRUE, read |-> "ask", keeps |-> FALSE, echoes |-> TRUE]]
X32 == [d \in Desks |-> [pushes |-> TRUE, read |-> "cache", keeps |-> TRUE, echoes |-> FALSE]]
Dm3Osc == [d \in Desks |-> [pushes |-> FALSE, read |-> "cache", keeps |-> FALSE, echoes |-> FALSE]]
Asked == [d \in Desks |-> [pushes |-> FALSE, read |-> "rpc", keeps |-> FALSE, echoes |-> FALSE]]
\* An X32 at the front of house, a polled desk on stage.
Mixed == [d \in Desks |-> IF d = foh THEN X32[d] ELSE Asked[d]]

Fine == [d \in Desks |-> [min |-> -1, max |-> 1, step |-> 1]]
Lopsided == [d \in Desks |-> [min |-> -1, max |-> 2, step |-> 3]]

NoValues == {}
Full == 0..2
Ends == {0, 2}
TrimEnds == {-1, 1}
OneUp == {1}
TwoUp == {2}
OneAndTwo == {1, 2}
Bits == {0, 1}
UpDown == {-1, 2}
MonOnly == {mon}
FohOnly == {foh}
MonAndFoh == {mon, foh}
TwoClients == {c1, c2}
OneClient == {c1}
=============================================================================
