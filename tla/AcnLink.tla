------------------------------- MODULE AcnLink -------------------------------
(***************************************************************************)
(* The passive adapter for a console-mounted QLX-D receiver                *)
(* (crates/mic-adapter-shure-acn): the PDUs of a datagram, where what is    *)
(* left out is inherited from the PDU before, and what the reports in them  *)
(* do to Observed.                                                          *)
(***************************************************************************)
EXTENDS Integers, Sequences

CONSTANTS None,
          Levels,    \* battery bars
          Transient, \* the reading that does not match the receiver's own panel
          AirCap     \* bound: datagrams on their way

VARIABLES carrier,  \* external: the receiver's RF bars, 0 without a carrier
          level,    \* external: its battery bars
          owed,     \* external: the reading that follows an acquisition is to come
          settled,  \* ghost: how often this level was reported since, to a loop that runs
          wire,     \* datagrams on their way
          bars,     \* Observed::rf_bars
          battery,  \* Observed::battery_bars
          suspect,  \* Observed::battery_reading_suspect
          joined,   \* the telemetry loop runs
          intact    \* ghost: no datagram was missed
vars == <<carrier, level, owed, settled, wire, bars, battery, suspect, joined, intact>>

Init ==
    /\ carrier \in {0, 1} /\ level \in Levels /\ owed = FALSE /\ settled = 0
    /\ wire = <<>> /\ bars = None /\ battery = None /\ suspect = FALSE
    /\ joined = FALSE /\ intact = TRUE

-----------------------------------------------------------------------------
\* External.  A PDU: what it says of which property, under a vector that is
\* left out where it is that of the PDU before it.
Pdu(vector, prop, v) == [vector |-> vector, prop |-> prop, v |-> v]
Say(datagram) == /\ IF joined /\ Len(wire) < AirCap
                    THEN wire' = Append(wire, datagram) /\ UNCHANGED intact
                    ELSE intact' = (intact /\ ~joined) /\ UNCHANGED wire
                 /\ UNCHANGED <<bars, battery, suspect, joined>>

\* The carrier comes or goes.  As it comes one battery reading is wrong, in the
\* same datagram or a later one.
Carrier ==
    /\ \E b \in {0, 1} \ {carrier} : carrier' = b
    /\ UNCHANGED level
    /\ LET rf == Pdu("event", "rf", carrier') IN
       \/ /\ owed' = (owed \/ carrier' = 1) /\ settled' = IF carrier' = 0 THEN settled ELSE 0
          /\ Say(<<rf>>)
       \/ /\ carrier' = 1 /\ owed' = FALSE /\ settled' = 0
          /\ Say(<<rf, Pdu(None, "battery", Transient)>>)

\* A reading, the wrong one while it is owed.  Other messages may come before
\* it in its datagram.
Reading ==
    /\ carrier = 1 /\ owed' = FALSE /\ UNCHANGED carrier
    /\ IF owed THEN UNCHANGED level ELSE level' \in Levels
    /\ settled' = IF owed \/ ~joined THEN 0 ELSE IF level' # level \/ settled = 0 THEN 1 ELSE 2
    /\ LET v == IF owed THEN Transient ELSE level' IN
       \/ Say(<<Pdu("event", "rf", 1), Pdu(None, "battery", v)>>)
       \/ Say(<<Pdu("subscribe", "battery", None), Pdu("event", "battery", v)>>)

Lose == /\ wire # <<>> /\ wire' = Tail(wire) /\ intact' = FALSE
        /\ UNCHANGED <<carrier, level, owed, settled, bars, battery, suspect, joined>>

-----------------------------------------------------------------------------
\* connect: the loop starts, and hears of what is said from now on.  Between an
\* acquisition and the reading that follows it, it has missed the first.
Connect == /\ ~joined /\ joined' = TRUE /\ intact' = ~owed
           /\ UNCHANGED <<carrier, level, owed, settled, wire, bars, battery, suspect>>

\* Mutant: a vector that is left out is none.
NotInherited(pdus) == [i \in DOMAIN pdus |-> pdus[i].vector]
\* walk_pdus - the vector of each PDU, inherited from the one before.
Vectors(pdus) ==
    LET vector[i \in 0..Len(pdus)] ==
          IF i = 0 THEN None ELSE IF pdus[i].vector # None THEN pdus[i].vector ELSE vector[i - 1]
    IN [i \in DOMAIN pdus |-> vector[i]]
\* properties_in_datagram.
Reports(pdus) ==
    LET of == Vectors(pdus)
        reports[i \in 0..Len(pdus)] ==
          IF i = 0 THEN <<>>
          ELSE IF of[i] = "event" THEN Append(reports[i - 1], pdus[i]) ELSE reports[i - 1]
    IN reports[Len(pdus)]

\* Mutant: a reading is suspect only if a carrier was seen to go.
SawItGo(seen, now) == seen = 0 /\ now > 0
\* apply - a carrier where none was seen makes the next reading suspect.
Acquired(seen, now) == seen \in {None, 0} /\ now > 0

Applied(o, report) ==
    IF report.prop = "rf"
    THEN [o EXCEPT !.bars = report.v, !.suspect = @ \/ Acquired(o.bars, report.v)]
    ELSE IF o.suspect THEN [o EXCEPT !.suspect = FALSE]
    ELSE [o EXCEPT !.battery = report.v]

\* Mutant: the rest of a datagram is left out once a report changed something.
FirstOfAll(reports) == IF reports = <<>> THEN <<>> ELSE <<Head(reports)>>
\* "Every report is applied".
AllOf(reports) == reports

After(o, reports) ==
    LET after[i \in 0..Len(reports)] == IF i = 0 THEN o ELSE Applied(after[i - 1], reports[i])
    IN after[Len(reports)]

Observed == [bars |-> bars, battery |-> battery, suspect |-> suspect]
TelemetryLoop ==
    /\ joined /\ wire # <<>> /\ wire' = Tail(wire)
    /\ LET o == After(Observed, AllOf(Reports(Head(wire)))) IN
       bars' = o.bars /\ battery' = o.battery /\ suspect' = o.suspect
    /\ UNCHANGED <<carrier, level, owed, settled, joined, intact>>

Next == Carrier \/ Reading \/ Lose \/ Connect \/ TelemetryLoop

-----------------------------------------------------------------------------
\* The reading that follows an acquisition is never shown, so that a run of
\* reacquisitions does not look like a battery draining.
NoTransientShown == intact => battery # Transient

\* What is shown is what the receiver has: its carrier, and its battery once
\* a level was reported twice.
Follows ==
    joined /\ intact /\ wire = <<>> =>
        /\ bars \in {None, carrier}
        /\ settled = 2 => battery = level

\* What makes it so at every step: there is a run of observations, from the
\* adapter's to the one it comes to have with the last datagram on its way, none
\* of which shows the wrong reading, and the last of which has caught up.
Apart == Transient \notin Levels \cup {None} /\ None \notin {0, 1} /\ None \notin {"event", "subscribe"}
Observations == [bars : {None, 0, 1}, battery : Levels \cup {None}, suspect : BOOLEAN]
Datagrams ==
    {<<Pdu("event", "rf", b)>> : b \in {0, 1}}
    \cup {<<Pdu("event", "rf", 1), Pdu(None, "battery", v)>> : v \in Levels \cup {Transient}}
    \cup {<<Pdu("subscribe", "battery", None), Pdu("event", "battery", v)>> : v \in Levels \cup {Transient}}

CaughtUp(o) ==
    /\ o.bars \in {None, carrier} /\ (o.suspect => o.bars # None)
    /\ owed /\ joined => o.suspect
    /\ settled > 0 => ~o.suspect /\ (o.bars = None => o.battery = level)
    /\ settled = 2 => o.battery = level
ComesTo(run) ==
    /\ run \in Seq(Observations) /\ Len(run) = Len(wire) + 1 /\ run[1] = Observed
    /\ \A i \in 1..Len(wire) : run[i + 1] = After(run[i], Reports(wire[i]))
    /\ CaughtUp(run[Len(run)])

AcnInv ==
    /\ carrier \in {0, 1} /\ level \in Levels /\ owed \in BOOLEAN /\ settled \in 0..2
    /\ wire \in Seq(Datagrams)
    /\ ~joined => wire = <<>> /\ settled = 0 /\ Observed = [bars |-> None, battery |-> None, suspect |-> FALSE]
    /\ intact => \E run : ComesTo(run)

=============================================================================
