------------------------------ MODULE MCRouter ------------------------------
(* Small rigs for the Router: consoles, the connections to them, mappings. *)
EXTENDS Router

CONSTANTS foh, mon, spare

Gain(d) == <<d, "gain">>
Link(d, e, both) == [from |-> Gain(d), to |-> Gain(e), bidirectional |-> both]

TwoDevices == {foh, mon}
ThreeDevices == {foh, mon, spare}
GainOf2 == {Gain(foh), Gain(mon)}
GainOf3 == {Gain(foh), Gain(mon), Gain(spare)}

\* Every device is a console of its own; or `spare` is a second connection to
\* the console `mon` is connected to.
Apart2 == [a \in Addresses |-> a[1]]
Shared == [a \in Addresses |-> IF a[1] = spare THEN mon ELSE a[1]]

OneWay == <<Link(foh, mon, FALSE)>>
BothWays == <<Link(foh, mon, TRUE)>>
Fan == <<Link(foh, mon, TRUE), Link(foh, spare, TRUE)>>
Chain == <<Link(foh, mon, FALSE), Link(mon, spare, TRUE)>>
NoOne == {}
FohOnly == {foh}
MonOnly == {mon}
AllOf2 == {foh, mon}
AllOf3 == {foh, mon, spare}
Bits == 0..1
Three == 0..2
Four == 0..3
SpareLink == {Link(foh, spare, FALSE)}
=============================================================================
