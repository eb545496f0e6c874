----------------------------- MODULE MbcBlocks ------------------------------
(***************************************************************************)
(* The blocks of a ConMon payload and the arrays in them. A block starts   *)
(* at its magic and ends where its length says, or, in a reply that keeps  *)
(* the length of its query, at the next magic or the end of the payload:   *)
(* whichever end adds up. Cells stand for bytes: Base of them, two for the *)
(* magic, one for each field of the header.                                *)
(***************************************************************************)
EXTENDS Integers, Sequences, SequencesExt

CONSTANTS Base,          \* values of a cell
          Target,        \* what the cells of a block add up to
          MinGain, MaxGain,
          None

Magic == <<5, 6>>
HeaderLen == 5           \* the magic, len, source, opcode
LenOrigin == 4           \* len counts from here
PrefixLen == 2           \* subop, count
HeadAmp == 2
GainOp == 0
PhantomOp == 1

Block(src, opcode, subop, count, data) ==
    [src |-> src, opcode |-> opcode, subop |-> subop, count |-> count, data |-> data]

Total(cells) == FoldSeq(LAMBDA cell, sum : (sum + cell) % Base, 0, cells)
\* Mutant: the addresses left out of the sum.
ChecksumOfBody(cells) == (Target - Total(SubSeq(cells, LenOrigin + 1, Len(cells)))) % Base
Checksum(cells) == (Target - Total(cells)) % Base

TrueLen(block) == HeaderLen - LenOrigin + PrefixLen + Len(block.data) + 1
\* encode(), with the len of this block or of the query it answers.
EncodedAs(block, len) ==
    LET cells == Magic \o <<len, block.src, block.opcode, block.subop, block.count>> \o block.data
    IN Append(cells, Checksum(cells))

Whole(cells) == /\ Len(cells) >= HeaderLen + PrefixLen + 1
                /\ Last(cells) = Checksum(Front(cells))
DecodeExact(cells) == Block(cells[4], cells[5], cells[6], cells[7], SubSeq(cells, 8, Len(cells) - 1))

StartsIn(region) == {i \in 1..(Len(region) - Len(Magic)) : SubSeq(region, i, i + 1) = Magic}
EndOf(region, start) ==
    LET later == {i \in StartsIn(region) : i > start}
    IN IF later = {} THEN Len(region) ELSE (CHOOSE i \in later : \A j \in later : i <= j) - 1
Declared(slice) == IF Len(slice) < HeaderLen THEN {} ELSE {LenOrigin + slice[3]} \cap 1..Len(slice)
\* Mutant: the length is believed.
DeclaredOnly(slice) == SetToSeq(Declared(slice))
CandidateEnds(slice) == SetToSeq(Declared(slice)) \o <<Len(slice)>>
BlockAt(region, start) ==
    LET slice == SubSeq(region, start, EndOf(region, start))
        whole == SelectSeq(CandidateEnds(slice), LAMBDA end : Whole(SubSeq(slice, 1, end)))
    IN IF whole = <<>> THEN <<>> ELSE <<DecodeExact(SubSeq(slice, 1, Head(whole)))>>

\* A payload: cells, and the vendor length of its envelope, which is one more
\* than theirs; one that is nought or too long is passed over.
Wrapped(region, trailing) == [vendor |-> Len(region) + 1, cells |-> region \o trailing]
RegionOf(payload) ==
    LET end == payload.vendor - 1
    IN IF end \in 0..Len(payload.cells) THEN SubSeq(payload.cells, 1, end) ELSE payload.cells
BlocksIn(payload) ==
    LET region == RegionOf(payload)
    IN FlattenSeq([n \in 1..Len(region) |-> IF n \in StartsIn(region) THEN BlockAt(region, n) ELSE <<>>])

\* Elements have the width the data leaves them, or the data is no array.
Width(block) == IF block.data # <<>> /\ block.count > 0 /\ Len(block.data) % block.count = 0
                THEN Len(block.data) \div block.count ELSE None
\* Mutant: a gain below nought read as one above.
Unsigned(hi, lo) == hi * Base + lo
Signed(hi, lo) == LET n == hi * Base + lo IN IF 2 * n >= Base * Base THEN n - Base * Base ELSE n
Gains(block) ==
    IF block.opcode = HeadAmp /\ block.subop = GainOp /\ Width(block) = 2
    THEN [i \in 1..block.count |-> Signed(block.data[2 * i - 1], block.data[2 * i])] ELSE None
Phantoms(block) ==
    IF block.opcode = HeadAmp /\ block.subop = PhantomOp /\ Width(block) = 1
    THEN [i \in 1..block.count |-> block.data[i] # 0] ELSE None

Clamped(gain) == IF gain < MinGain THEN MinGain ELSE IF gain > MaxGain THEN MaxGain ELSE gain
Cells2(n) == LET u == n % (Base * Base) IN <<u \div Base, u % Base>>
GainBroadcast(src, gains) ==
    Block(src, HeadAmp, GainOp, Len(gains), FlattenSeq([i \in DOMAIN gains |-> Cells2(Clamped(gains[i]))]))
PhantomBroadcast(src, phantoms) ==
    Block(src, HeadAmp, PhantomOp, Len(phantoms), [i \in DOMAIN phantoms |-> IF phantoms[i] THEN 1 ELSE 0])

\* What is sent: blocks with their lengths, a cell of the region changed on the
\* way, the vendor length kept or lost, cells after the region.
Sent(p) == FlattenSeq([i \in DOMAIN p.blocks |-> EncodedAs(p.blocks[i], p.lens[i])])
Hit(cells, damage) == IF damage = None THEN cells ELSE [cells EXCEPT ![damage[1]] = damage[2]]
Arrived(p) ==
    LET wrapped == Wrapped(Hit(Sent(p), p.damage), p.trailing)
    IN IF p.vendor THEN wrapped ELSE [wrapped EXCEPT !.vendor = 0]

Truthful(p) == \A i \in DOMAIN p.blocks : p.lens[i] = TrueLen(p.blocks[i])
StartOf(p, i) == Len(Sent([p EXCEPT !.blocks = SubSeq(p.blocks, 1, i - 1)])) + 1
BlockHit(p) == CHOOSE i \in DOMAIN p.blocks :
    StartOf(p, i) <= p.damage[1] /\ \A j \in DOMAIN p.blocks : StartOf(p, j) <= p.damage[1] => j <= i
\* The magic is nowhere but at the blocks' starts: an address may hold it.
Clean(p) == StartsIn(Arrived(p).cells) = {StartOf(p, i) : i \in DOMAIN p.blocks}
CutOf(read, block) == [read EXCEPT !.data = <<>>] = [block EXCEPT !.data = <<>>] /\ IsPrefix(read.data, block.data)

\* Blocks come back one for one, past anything that follows the payload, with
\* the len of a query too; such a len may cut one short, if the part it leaves
\* adds up, and no other harm is done.
BlocksComeBack(p) ==
    p.damage = None /\ Clean(p) /\ (Truthful(p) \/ p.trailing = <<>> \/ p.vendor) =>
        LET read == BlocksIn(Arrived(p)) IN
        /\ Len(read) = Len(p.blocks)
        /\ \A i \in DOMAIN read : CutOf(read[i], p.blocks[i])
        /\ Truthful(p) => read = p.blocks

\* A cell changed on the way costs the block it is in and no other, and nothing
\* is read that was not sent.
DamageIsSeen(p) ==
    p.damage # None /\ Clean(p) /\ Truthful(p) /\ Hit(Sent(p), p.damage) # Sent(p) =>
        LET read == ToSet(BlocksIn(Arrived(p))) IN
        /\ \A block \in read : \E i \in DOMAIN p.blocks : CutOf(block, p.blocks[i])
        /\ \A i \in DOMAIN p.blocks : i # BlockHit(p) => p.blocks[i] \in read

\* A broadcast is read as the array it is, gain for gain within the range, and
\* never as the other one.
ArraysComeBack(p) ==
    "gains" \in DOMAIN p =>
        LET read(block) == BlocksIn(Wrapped(EncodedAs(block, TrueLen(block)), <<>>))[1]
            gains == read(GainBroadcast(1, p.gains))
            phantoms == read(PhantomBroadcast(1, [i \in DOMAIN p.gains |-> p.gains[i] > 0]))
        IN /\ Gains(gains) = [i \in DOMAIN p.gains |-> Clamped(p.gains[i])] /\ Phantoms(gains) = None
           /\ Phantoms(phantoms) = [i \in DOMAIN p.gains |-> p.gains[i] > 0] /\ Gains(phantoms) = None
=============================================================================
