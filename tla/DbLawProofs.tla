----------------------------- MODULE DbLawProofs -----------------------------
(***************************************************************************)
(* What index(), quantize() and nudge() of law.rs return, for every law    *)
(* and every move.                                                         *)
(***************************************************************************)
EXTENDS DbLaw, TLAPS

----------------------------------------------------------------------------
(* Types *)

\* Clamping gives an integer.
LEMMA ClampType ==
    ASSUME NEW lo \in Int, NEW hi \in Int, NEW x \in Int
    PROVE  Clamp(lo, hi, x) \in Int
  BY DEF Clamp

\* The grid point of a gain is a whole number.
LEMMA IndexType ==
    ASSUME NEW law, IsLaw(law), NEW x \in Int
    PROVE  Index(law, x) \in Int
<1> DEFINE a == 2 * (Clamp(law.min, law.max, x) - law.min) + law.step
           b == 2 * law.step
<1>1. a \in Int /\ b \in Int /\ b > 0
  <2>1. law.min \in Int /\ law.max \in Int /\ law.step \in Int /\ law.step > 0  BY DEF IsLaw
  <2>2. Clamp(law.min, law.max, x) \in Int  BY <2>1, ClampType
  <2> QED  BY <2>1, <2>2
<1> HIDE DEF a, b
<1>2. a \div b \in Int  BY <1>1
<1> QED  BY <1>2 DEF Index, a, b

\* The value of a grid point is a whole number of units.
LEMMA AtType ==
    ASSUME NEW law, IsLaw(law), NEW i \in Int
    PROVE  At(law, i) \in Int
<1>1. law.min + i * law.step \in Int  BY DEF IsLaw
<1> QED  BY <1>1, ClampType DEF At, IsLaw

\* Where a nudge lands, and what it reports, are whole numbers of units.
LEMMA NudgeType ==
    ASSUME NEW law, IsLaw(law), NEW x \in Int, NEW delta \in Int
    PROVE  /\ Quantize(law, x) \in Int
           /\ NudgeTarget(law, x, delta) \in Int
           /\ NudgeApplied(law, x, delta) \in Int
<1>1. Index(law, x) \in Int  BY IndexType
<1>2. At(law, Index(law, x)) \in Int  BY <1>1, AtType
<1>3. NudgeSteps(law, x, delta) \in Int  BY <1>1, <1>2, IndexType DEF NudgeSteps
<1>4. NudgeTarget(law, x, delta) \in Int
  <2>1. Index(law, x) + NudgeSteps(law, x, delta) \in Int  BY <1>1, <1>3
  <2> QED  BY <2>1, AtType DEF NudgeTarget
<1>5. NudgeApplied(law, x, delta) \in Int  BY <1>3 DEF NudgeApplied, IsLaw
<1> QED  BY <1>2, <1>4, <1>5 DEF Quantize

----------------------------------------------------------------------------
\* Arithmetic
LEMMA Division ==
    ASSUME NEW a \in Int, NEW b \in Int, b > 0
    PROVE  /\ a \div b \in Int
           /\ b * (a \div b) <= a
           /\ a < b * (a \div b) + b
  BY Z3

LEMMA Divides ==
    ASSUME NEW a \in Int, NEW b \in Int, b > 0, a % b = 0
    PROVE  a = b * (a \div b)
  BY Z3

LEMMA Least ==
    ASSUME NEW i \in Int, NEW j \in Int, NEW s \in Int, s > 0, i * s < j * s + s
    PROVE  i <= j
  BY Z3

-----------------------------------------------------------------------------
\* The grid: the values a control can hold, and how many there are.
Points(law) == (law.max - law.min) \div law.step
OnGrid(law, x) == \E k \in 0..Points(law) : x = law.min + k * law.step

\* The end of the range is a value of the control.
LEMMA TopIsOnGrid ==
    ASSUME NEW law, IsLaw(law)
    PROVE  Points(law) \in Nat /\ law.max = law.min + Points(law) * law.step
<1> DEFINE width == law.max - law.min
<1>1. width \in Int /\ width > 0 /\ law.step \in Int /\ law.step > 0 /\ width % law.step = 0
  BY DEF IsLaw
<1>2. Points(law) \in Int /\ width = law.step * Points(law)
  BY <1>1, Division, Divides DEF Points
<1>3. Points(law) >= 0
  BY <1>1, <1>2, Z3
<1> QED
  BY <1>1, <1>2, <1>3 DEF IsLaw

\* A value counted from the bottom of the range is in it.
LEMMA InRange ==
    ASSUME NEW law, IsLaw(law), NEW k \in 0..Points(law)
    PROVE  /\ law.min + k * law.step \in law.min..law.max
           /\ At(law, k) = law.min + k * law.step
<1>1. law.min \in Int /\ law.max \in Int /\ law.step \in Int /\ law.step > 0
  BY DEF IsLaw
<1>2. Points(law) \in Nat /\ law.max = law.min + Points(law) * law.step
  BY TopIsOnGrid
<1>3. k * law.step \in Int /\ 0 <= k * law.step /\ k * law.step <= Points(law) * law.step
  BY <1>1, <1>2, Z3
<1> QED
  BY <1>1, <1>2, <1>3 DEF At, Clamp

\* index() lands on the control's grid, no further than half a step from what
\* is asked for within the range.
LEMMA Landing ==
    ASSUME NEW law, IsLaw(law), NEW x \in Int
    PROVE  /\ Index(law, x) \in 0..Points(law)
           /\ 2 * (Clamp(law.min, law.max, x) - Quantize(law, x)) <= law.step
           /\ 2 * (Quantize(law, x) - Clamp(law.min, law.max, x)) <= law.step
<1> DEFINE c == Clamp(law.min, law.max, x)
           i == Index(law, x)
           s == law.step
<1>1. /\ law.min \in Int /\ law.max \in Int /\ s \in Int /\ s > 0
      /\ c \in Int /\ law.min <= c /\ c <= law.max
  BY DEF IsLaw, Clamp
<1>2. Points(law) \in Nat /\ law.max = law.min + Points(law) * s
  BY TopIsOnGrid
<1>3. /\ i \in Int
      /\ (2 * s) * i <= 2 * (c - law.min) + s
      /\ 2 * (c - law.min) + s < (2 * s) * i + 2 * s
  <2> DEFINE n == 2 * (c - law.min) + s
             d == 2 * s
  <2>1. n \in Int /\ d \in Int /\ d > 0
    BY <1>1
  <2>2. i = n \div d
    BY DEF Index
  <2> HIDE DEF n, d, i, c
  <2>3. n \div d \in Int /\ d * (n \div d) <= n /\ n < d * (n \div d) + d
    BY <2>1, Division
  <2>4. i \in Int /\ d * i <= n /\ n < d * i + d
    BY <2>2, <2>3
  <2> QED
    BY <2>4 DEF n, d
<1>4. i * s \in Int /\ 2 * (i * s) <= 2 * (c - law.min) + s /\ 2 * (c - law.min) < 2 * (i * s) + s
  BY <1>1, <1>3, Z3
<1>5. i <= Points(law)
  <2>1. Points(law) * s \in Int /\ i * s < Points(law) * s + s
    BY <1>1, <1>2, <1>4
  <2> QED
    BY <1>1, <1>2, <1>3, <2>1, Least
<1>6. 0 <= i
  <2>1. 0 * s < i * s + s
    BY <1>1, <1>4
  <2> QED
    BY <1>1, <1>3, <2>1, Least
<1>7. i \in 0..Points(law)
  BY <1>2, <1>3, <1>5, <1>6
<1>8. Quantize(law, x) = law.min + i * s
  BY <1>7, InRange DEF Quantize
<1> QED
  BY <1>1, <1>4, <1>7, <1>8

\* A control stands at the grid point it is said to.
LEMMA GridPointIsItsOwn ==
    ASSUME NEW law, IsLaw(law), NEW k \in 0..Points(law)
    PROVE  Index(law, law.min + k * law.step) = k
<1> DEFINE x == law.min + k * law.step
           i == Index(law, x)
           s == law.step
<1>1. law.min \in Int /\ law.max \in Int /\ s \in Int /\ s > 0 /\ k \in Int /\ k * s \in Int
  BY TopIsOnGrid DEF IsLaw
<1>2. x \in Int /\ Clamp(law.min, law.max, x) = x
  BY <1>1, InRange DEF Clamp
<1>3. /\ i \in 0..Points(law) /\ i \in Int
      /\ 2 * (x - Quantize(law, x)) <= s
      /\ 2 * (Quantize(law, x) - x) <= s
  BY <1>1, <1>2, Landing, TopIsOnGrid
<1>4. Quantize(law, x) = law.min + i * s /\ i * s \in Int
  BY <1>1, <1>3, InRange DEF Quantize
<1>5. k * s < i * s + s /\ i * s < k * s + s
  BY <1>1, <1>3, <1>4
<1> QED
  <2> HIDE DEF i, x, s
  <2>1. k <= i
    BY <1>1, <1>3, <1>5, Least
  <2>2. i <= k
    BY <1>1, <1>3, <1>5, Least
  <2>3. i = k
    BY <1>1, <1>3, <2>1, <2>2
  <2> QED
    BY <2>3 DEF i, x

\* nudge(): from a value the control can hold, the move it reports is the move
\* it makes, to the value nearest what was asked for.
LEMMA NudgeIsWhatItSays ==
    ASSUME NEW law, IsLaw(law), NEW x, OnGrid(law, x), NEW due \in Int
    PROVE  /\ NudgeTarget(law, x, due) = Quantize(law, x + due)
           /\ OnGrid(law, NudgeTarget(law, x, due))
           /\ NudgeApplied(law, x, due) = NudgeTarget(law, x, due) - x
<1>1. PICK k \in 0..Points(law) : x = law.min + k * law.step
  BY DEF OnGrid
<1>2. /\ law.min \in Int /\ law.step \in Int /\ k \in Int /\ k * law.step \in Int /\ x \in Int
  BY <1>1, TopIsOnGrid DEF IsLaw
<1> DEFINE j == Index(law, x + due)
<1>3. j \in 0..Points(law) /\ j \in Int
  BY <1>2, Landing, TopIsOnGrid
<1>4. Index(law, x) = k /\ At(law, k) = x
  BY <1>1, GridPointIsItsOwn, InRange
<1>5. NudgeSteps(law, x, due) = j - k
  BY <1>4 DEF NudgeSteps
<1>6. NudgeTarget(law, x, due) = At(law, j)
  <2>1. k + (j - k) = j
    BY <1>2, <1>3
  <2> QED
    BY <1>4, <1>5, <2>1 DEF NudgeTarget
<1>7. At(law, j) = law.min + j * law.step
  BY <1>3, InRange
<1>8. (j - k) * law.step = j * law.step - k * law.step
  BY <1>2, <1>3, Z3
<1> QED
  BY <1>1, <1>2, <1>3, <1>5, <1>6, <1>7, <1>8 DEF NudgeApplied, OnGrid, Quantize

\* A value of the control is in its range.
LEMMA OnGridIsInRange ==
    ASSUME NEW law, IsLaw(law), NEW x, OnGrid(law, x)
    PROVE  x \in Int /\ law.min <= x /\ x <= law.max
<1>1. PICK k \in 0..Points(law) : x = law.min + k * law.step
  BY DEF OnGrid
<1> QED
  BY <1>1, InRange DEF IsLaw


\* nudge(): what a move leaves to be done is never more than the move, nor more
\* than it the other way - wherever the control stands, on its grid or off it.
LEMMA NudgeNeverOvershoots ==
    ASSUME NEW law, IsLaw(law), NEW x \in Int, NEW due \in Int
    PROVE  LET rest == due - NudgeApplied(law, x, due) IN
           /\ rest \in Int
           /\ due >= 0 => -due <= rest /\ rest <= due
           /\ due <= 0 => due <= rest /\ rest <= -due
<1> DEFINE k == Index(law, x)
           j == Index(law, At(law, k) + due)
           y == law.min + k * law.step
           q == law.min + j * law.step
           c == Clamp(law.min, law.max, y + due)
           rest == due - NudgeApplied(law, x, due)
<1>1. law.min \in Int /\ law.max \in Int /\ law.step \in Int /\ law.step > 0
  BY DEF IsLaw
<1>2. k \in 0..Points(law) /\ Points(law) \in Nat  BY Landing, TopIsOnGrid
<1>3. At(law, k) = y /\ y \in law.min..law.max  BY <1>2, InRange
<1>4. j \in 0..Points(law) /\ q = Quantize(law, y + due)
      /\ 2 * (c - q) <= law.step /\ 2 * (q - c) <= law.step
  <2>1. y + due \in Int  BY <1>1, <1>3
  <2>2. /\ j \in 0..Points(law)
        /\ 2 * (c - Quantize(law, y + due)) <= law.step
        /\ 2 * (Quantize(law, y + due) - c) <= law.step
    BY <1>3, <2>1, Landing
  <2>3. Quantize(law, y + due) = q  BY <1>3, <2>2, InRange DEF Quantize
  <2> QED  BY <2>2, <2>3
<1>5. q \in law.min..law.max  BY <1>4, InRange
<1>6. /\ k \in Int /\ j \in Int
      /\ rest = due - (q - y)
      /\ \/ j = k /\ q = y
         \/ q - y >= law.step
         \/ y - q >= law.step
  <2>1. k \in Int /\ j \in Int  BY <1>2, <1>4
  <2>2. NudgeApplied(law, x, due) = (j - k) * law.step  BY DEF NudgeApplied, NudgeSteps
  <2> HIDE DEF j, k
  <2>3. (j - k) * law.step = q - y  BY <1>1, <2>1, Z3
  <2>4. j > k => (j - k) * law.step >= law.step  BY <1>1, <2>1, Z3
  <2>5. j < k => (j - k) * law.step <= -law.step  BY <1>1, <2>1, Z3
  <2> QED  BY <1>1, <1>3, <1>5, <2>1, <2>2, <2>3, <2>4, <2>5
<1>7. c = IF y + due < law.min THEN law.min ELSE IF y + due > law.max THEN law.max ELSE y + due
  BY DEF Clamp
<1> HIDE DEF k, j, y, q, c, rest
<1> QED  BY <1>1, <1>3, <1>4, <1>5, <1>6, <1>7 DEF rest

\* nudge(): what a move leaves to be done is half a step at most, or is beyond
\* the end of the range that the control then stands at.
LEMMA NudgeFallsShort ==
    ASSUME NEW law, IsLaw(law), NEW x, OnGrid(law, x), NEW due \in Int
    PROVE  LET rest == due - NudgeApplied(law, x, due)
               target == NudgeTarget(law, x, due)
           IN /\ rest \in Int
              /\ \/ -law.step <= 2 * rest /\ 2 * rest <= law.step
                 \/ rest > 0 /\ target = law.max
                 \/ rest < 0 /\ target = law.min
<1> DEFINE target == NudgeTarget(law, x, due)
           rest == due - NudgeApplied(law, x, due)
           c == Clamp(law.min, law.max, x + due)
<1>1. /\ law.min \in Int /\ law.max \in Int /\ law.step \in Int /\ law.step > 0
      /\ law.min < law.max
  BY DEF IsLaw
<1>2. x \in Int  BY OnGridIsInRange
<1>3. target = Quantize(law, x + due) /\ OnGrid(law, target) /\ rest = x + due - target
  <2>1. /\ target = Quantize(law, x + due) /\ OnGrid(law, target)
        /\ NudgeApplied(law, x, due) = target - x
    BY NudgeIsWhatItSays
  <2>2. target \in Int  BY <2>1, OnGridIsInRange
  <2> HIDE DEF target
  <2> QED  BY <1>2, <2>1, <2>2
<1>4. target \in Int /\ law.min <= target /\ target <= law.max  BY <1>3, OnGridIsInRange
<1>5. 2 * (c - target) <= law.step /\ 2 * (target - c) <= law.step
  BY <1>2, <1>3, Landing
<1>6. x + due > law.max => target = law.max
  <2> SUFFICES ASSUME x + due > law.max PROVE target = law.max
    OBVIOUS
  <2>1. Clamp(law.min, law.max, x + due) = Clamp(law.min, law.max, law.max)
    BY <1>1, <1>2 DEF Clamp
  <2>2. Quantize(law, x + due) = Quantize(law, law.max)  BY <2>1 DEF Quantize, Index
  <2>3. Points(law) \in 0..Points(law) /\ law.max = law.min + Points(law) * law.step
    BY TopIsOnGrid
  <2>4. Quantize(law, law.max) = law.max
    BY <2>3, GridPointIsItsOwn, InRange DEF Quantize
  <2> QED  BY <1>3, <2>2, <2>4
<1>7. x + due < law.min => target = law.min
  <2> SUFFICES ASSUME x + due < law.min PROVE target = law.min
    OBVIOUS
  <2>1. Clamp(law.min, law.max, x + due) = Clamp(law.min, law.max, law.min)
    BY <1>1, <1>2 DEF Clamp
  <2>2. Quantize(law, x + due) = Quantize(law, law.min)  BY <2>1 DEF Quantize, Index
  <2>3. 0 \in 0..Points(law) /\ law.min = law.min + 0 * law.step
    BY <1>1, TopIsOnGrid
  <2>4. Quantize(law, law.min) = law.min
    BY <2>3, GridPointIsItsOwn, InRange DEF Quantize
  <2> QED  BY <1>3, <2>2, <2>4
<1>8. x + due \in law.min..law.max => c = x + due  BY <1>1, <1>2 DEF Clamp
<1> HIDE DEF target, rest, c
<1>9. rest \in Int /\ (\/ -law.step <= 2 * rest /\ 2 * rest <= law.step
                       \/ rest > 0 /\ target = law.max
                       \/ rest < 0 /\ target = law.min)
  BY <1>1, <1>2, <1>3, <1>4, <1>5, <1>6, <1>7, <1>8
<1> QED  BY <1>9 DEF rest, target
=============================================================================
