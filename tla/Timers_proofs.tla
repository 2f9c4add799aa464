--------------------------- MODULE Timers_proofs ---------------------------
(***************************************************************************)
(* Proofs about Timers: whatever the unit and the width of a reading,      *)
(* where the clock starts and how often it wraps, a timer is one that      *)
(* measures the true time to the unit, unless its reading jumps.           *)
(***************************************************************************)
EXTENDS Timers, TLAPS

USE DEF Kinds

-----------------------------------------------------------------------------
(* Readings of the clock, and the time between them.                       *)

\* A product grows with its factor.
LEMMA ProductGrows ==
    ASSUME NEW u \in Nat, NEW a \in Int, NEW b \in Int, a <= b PROVE u * a <= u * b /\ u * a \in Int
OBVIOUS

\* A number in whole units, and the rest.
LEMMA QuotientAndRest ==
    ASSUME NEW n \in Nat, NEW u \in Nat \ {0}
    PROVE  n \div u \in Nat /\ u * (n \div u) <= n /\ n <= u * (n \div u) + u - 1
<1>1. n = u * (n \div u) + (n % u) /\ n \div u \in Int /\ n % u \in 0..u - 1
  OBVIOUS
<1>2. CASE n \div u >= 0
  BY <1>1, <1>2
<1>3. CASE n \div u <= -1
  <2>1. u * (n \div u) <= u * (-1)
    BY <1>1, <1>3, ProductGrows
  <2> QED
    BY <1>1, <2>1
<1> QED
  BY <1>1, <1>2, <1>3

\* An instant is its whole units, and less than a unit away from zero.
LEMMA InstantInUnits ==
    ASSUME NEW c \in Int
    PROVE  /\ WholeUnits(c) \in Int /\ Unit * WholeUnits(c) \in Int
           /\ c >= 0 => Unit * WholeUnits(c) <= c /\ c <= Unit * WholeUnits(c) + Unit - 1
           /\ c < 0 => c <= Unit * WholeUnits(c) /\ Unit * WholeUnits(c) <= c + Unit - 1
<1>1. Unit \in Nat \ {0}
  BY TimersAssumption DEF TimersAssumption
<1>2. CASE c >= 0
  BY <1>1, <1>2, QuotientAndRest DEF WholeUnits
<1>3. CASE c < 0
  <2>1. PICK m \in Nat : m = -c
    BY <1>3
  <2>2. PICK k : k = m \div Unit
    OBVIOUS
  <2>3. k \in Nat /\ Unit * k <= m /\ m <= Unit * k + Unit - 1
    BY <1>1, <2>2, QuotientAndRest
  <2>4. WholeUnits(c) = -k
    BY <1>3, <2>1, <2>2 DEF WholeUnits
  <2>5. Unit * (-k) = -(Unit * k) /\ Unit * k \in Int
    BY <1>1, <2>3
  <2> QED
    BY <1>1, <1>3, <2>1, <2>3, <2>4, <2>5
<1> QED
  BY <1>2, <1>3

\* The whole units between two instants, and how far they are off the time.
LEMMA UnitsBetween ==
    ASSUME NEW b \in Int, NEW c \in Int, b <= c, NEW n \in Int, n = WholeUnits(c) - WholeUnits(b)
    PROVE  /\ n \in Nat
           /\ Unit * n <= c - b + IF b < 0 /\ c >= 0 THEN 0 ELSE Unit - 1
           /\ c - b <= Unit * n + IF b < 0 /\ c >= 0 THEN 2 * (Unit - 1) ELSE Unit - 1
<1>1. Unit \in Nat \ {0}
  BY TimersAssumption DEF TimersAssumption
<1>2. PICK x \in Int, y \in Int : x = WholeUnits(b) /\ y = WholeUnits(c)
  BY InstantInUnits
<1>3. Unit * (y - x) = Unit * y - Unit * x /\ Unit * x \in Int /\ Unit * y \in Int /\ n = y - x
  BY <1>1, <1>2
<1>4. /\ b >= 0 => Unit * x <= b /\ b <= Unit * x + Unit - 1
      /\ b < 0 => b <= Unit * x /\ Unit * x <= b + Unit - 1
      /\ c >= 0 => Unit * y <= c /\ c <= Unit * y + Unit - 1
      /\ c < 0 => c <= Unit * y /\ Unit * y <= c + Unit - 1
  BY <1>2, InstantInUnits
<1>5. /\ Unit * n <= c - b + IF b < 0 /\ c >= 0 THEN 0 ELSE Unit - 1
      /\ c - b <= Unit * n + IF b < 0 /\ c >= 0 THEN 2 * (Unit - 1) ELSE Unit - 1
  BY <1>1, <1>3, <1>4
<1>6. -Unit < Unit * n
  BY <1>1, <1>3, <1>4
<1>7. n >= 0
  <2>1. SUFFICES ASSUME n <= -1 PROVE FALSE
    BY <1>3
  <2>2. Unit * n <= Unit * (-1)
    BY <1>1, <2>1, ProductGrows
  <2> QED
    BY <1>1, <1>6, <2>2
<1> QED
  BY <1>3, <1>5, <1>7

\* A reading is in its range, some cycles off the whole units of its
\* instant.
LEMMA ReadingIsAResidue ==
    ASSUME NEW c \in Int
    PROVE  /\ PlcTime(c) \in Readings
           /\ \E k \in Int : PlcTime(c) = WholeUnits(c) + Cycle * k
<1>1. Half \in Nat \ {0} /\ Cycle = 2 * Half /\ Cycle \in Nat \ {0}
  BY TimersAssumption DEF TimersAssumption, Cycle
<1>2. PICK x \in Int : x = WholeUnits(c) + Half /\ WholeUnits(c) \in Int
  BY <1>1, InstantInUnits
<1>3. x = Cycle * (x \div Cycle) + (x % Cycle) /\ x \div Cycle \in Int /\ x % Cycle \in 0..Cycle - 1
  BY <1>1
<1>4. PlcTime(c) = (x % Cycle) - Half
  BY <1>2 DEF PlcTime
<1>5. PlcTime(c) \in Readings
  BY <1>1, <1>3, <1>4 DEF Readings
<1>6. PICK m \in Int, z \in Int : m = x \div Cycle /\ z = Cycle * m
  BY <1>1, <1>3
<1>7. PICK r \in Int : r = x % Cycle
  BY <1>3
<1>8. x = z + r
  BY <1>3, <1>6, <1>7
<1>9. PlcTime(c) = WholeUnits(c) - z
  BY <1>1, <1>2, <1>4, <1>7, <1>8
<1>10. Cycle * (-m) = -z
  BY <1>1, <1>6
<1> QED
  BY <1>2, <1>5, <1>6, <1>9, <1>10

\* The difference of two readings is the whole units between their
\* instants, as long as those are less than half a cycle.
LEMMA DifferenceOfReadings ==
    ASSUME NEW b \in Int, NEW c \in Int,
           NEW n \in Nat, n = WholeUnits(c) - WholeUnits(b), n < Half
    PROVE  Difference(PlcTime(c), PlcTime(b)) = n
<1>1. Half \in Nat \ {0} /\ Cycle = 2 * Half
  BY TimersAssumption DEF TimersAssumption, Cycle
<1>2. PICK i \in Int : PlcTime(b) = WholeUnits(b) + Cycle * i
  BY ReadingIsAResidue
<1>3. PICK j \in Int : PlcTime(c) = WholeUnits(c) + Cycle * j
  BY ReadingIsAResidue
<1>4. PICK x \in Int, y \in Int : x = WholeUnits(b) /\ y = WholeUnits(c)
  BY InstantInUnits
<1>5. PICK r \in Readings, s \in Readings : r = PlcTime(b) /\ s = PlcTime(c)
  BY ReadingIsAResidue
<1>6. Cycle * (j - i) = Cycle * j - Cycle * i /\ Cycle * j \in Int /\ Cycle * i \in Int
  BY <1>1
<1>7. s - r = n + Cycle * (j - i)
  BY <1>1, <1>2, <1>3, <1>4, <1>5, <1>6
<1>8. PICK k \in Int : k = j - i
  OBVIOUS
<1>9. -Cycle < s - r /\ s - r < Cycle /\ s - r \in Int
  BY <1>1, <1>5 DEF Readings
<1>10. k = 0 \/ k = -1
  <2>1. CASE k >= 1
    <3>1. Cycle * 1 <= Cycle * k
      BY <1>1, <2>1, ProductGrows
    <3> QED
      BY <1>1, <1>7, <1>8, <1>9, <3>1
  <2>2. CASE k <= -2
    <3>1. Cycle * k <= Cycle * (-2) /\ Cycle * k \in Int
      BY <1>1, <2>2, ProductGrows
    <3> QED
      BY <1>1, <1>7, <1>8, <1>9, <3>1
  <2> QED
    BY <2>1, <2>2
<1>11. s - r = n \/ s - r = n - Cycle
  BY <1>1, <1>7, <1>8, <1>10
<1> QED
  BY <1>1, <1>5, <1>11 DEF Difference, Readings

\* A difference of readings has their range.
LEMMA DifferenceTypes ==
    ASSUME NEW r \in Readings, NEW s \in Readings
    PROVE  Difference(r, s) \in Readings /\ Difference(r, r) = 0
<1>1. Half \in Nat \ {0} /\ Cycle = 2 * Half
  BY TimersAssumption DEF TimersAssumption, Cycle
<1> QED
  BY <1>1 DEF Difference, Readings

\* A reading in nanoseconds is the same a cycle earlier.
LEMMA ReadingsRepeat ==
    ASSUME Unit = 1, NEW c \in Int PROVE PlcTime(c) = PlcTime(c - Cycle)
<1>1. Half \in Nat \ {0} /\ Cycle = 2 * Half
  BY TimersAssumption DEF TimersAssumption, Cycle
<1>2. ASSUME NEW e \in Int PROVE WholeUnits(e) = e
  <2>1. WholeUnits(e) \in Int /\ 1 * WholeUnits(e) = e
    BY InstantInUnits
  <2> QED
    BY <2>1
<1>3. PICK b \in Int : b = c - Cycle
  BY <1>1
<1>4. WholeUnits(c) = c /\ WholeUnits(b) = b
  BY <1>2
<1>5. PICK i \in Int : PlcTime(c) = c + Cycle * i
  BY <1>4, ReadingIsAResidue
<1>6. PICK j \in Int : PlcTime(b) = b + Cycle * j
  BY <1>4, ReadingIsAResidue
<1>7. PICK r \in Readings, s \in Readings : r = PlcTime(c) /\ s = PlcTime(b)
  BY ReadingIsAResidue
<1>8. PICK k \in Int : k = i - j + 1
  OBVIOUS
<1>9. Cycle * k = Cycle * i - Cycle * j + Cycle /\ Cycle * i \in Int /\ Cycle * j \in Int
  BY <1>1, <1>8
<1>10. r - s = Cycle * k /\ -Cycle < r - s /\ r - s < Cycle /\ r \in Int /\ s \in Int
  BY <1>1, <1>3, <1>5, <1>6, <1>7, <1>9 DEF Readings
<1>11. k = 0
  <2>1. CASE k >= 1
    <3>1. Cycle * 1 <= Cycle * k
      BY <1>1, <2>1, ProductGrows
    <3> QED
      BY <1>1, <1>10, <3>1
  <2>2. CASE k <= -1
    <3>1. Cycle * k <= Cycle * (-1)
      BY <1>1, <2>2, ProductGrows
    <3> QED
      BY <1>1, <1>10, <3>1
  <2> QED
    BY <2>1, <2>2
<1>12. Cycle * k = 0
  BY <1>1, <1>11
<1> QED
  BY <1>3, <1>7, <1>10, <1>12

-----------------------------------------------------------------------------
(* The inductive invariant.                                                *)

\* While it measures, the start is the reading at the edge, ET the whole
\* units since, and the last call was before the deadline or was the edge;
\* unless the reading jumped.
EdgeAt == clock - since
MeasuresFromTheEdge ==
    step = 1 /\ ~Jumped => /\ start = PlcTime(EdgeAt)
                           /\ et = WholeUnits(clock) - WholeUnits(EdgeAt)
                           /\ since = 0 \/ et < pt

\* The step follows the inputs of this run.
StepFollows ==
    /\ prev <=> last
    /\ fresh => step = 0 /\ ~last
    /\ kind = "TP" /\ step = 2 => last
    /\ kind = "TON" => (last <=> step # 0)
    /\ kind = "TOF" /\ last => step = 0

\* The outputs follow the step, once it was called.
OutputsFollow ==
    ~fresh => /\ kind = "TP" => (q <=> step = 1)
              /\ kind = "TON" => (q <=> step = 2)
              /\ kind = "TOF" => (q <=> last \/ step = 1)
              /\ step # 1 => et = IF step = 2 THEN pt ELSE 0

TimersInv == TypeOK /\ MeasuresFromTheEdge /\ StepFollows /\ OutputsFollow

\* The constants, as the proofs use them.
LEMMA Constants ==
    /\ ClockHalf \in Nat \ {0} /\ Unit \in Nat \ {0} /\ Half \in Nat \ {0} /\ MaxGap \in Nat \ {0}
    /\ MaxPreset \in Nat /\ Cycle = 2 * Half
    /\ Unit * MaxPreset \in Nat /\ Unit * Half \in Nat
    /\ Horizon = Unit * MaxPreset + Unit + MaxGap
    /\ Unit = 1 => Half = ClockHalf /\ MaxGap < Half /\ MaxPreset + MaxGap <= Half
    /\ Unit > 1 => Unit * Half <= ClockHalf /\ Unit * MaxPreset + Unit + MaxGap <= Unit * Half
    /\ MaxGap < 2 * ClockHalf
<1>1. /\ ClockHalf \in Nat \ {0} /\ Unit \in Nat \ {0} /\ Half \in Nat \ {0} /\ MaxGap \in Nat \ {0}
      /\ MaxPreset \in Nat /\ Cycle = 2 * Half
  BY TimersAssumption DEF TimersAssumption, Cycle
<1>2. PICK x \in Nat, y \in Nat : x = Unit * MaxPreset /\ y = Unit * Half
  BY <1>1
<1>3. MaxPreset * Unit = x /\ Half * Unit = y /\ (MaxPreset + 1) * Unit = x + Unit
  BY <1>1, <1>2
<1>4. Horizon = x + Unit + MaxGap
  BY <1>3 DEF Horizon
<1>5. Unit = 1 => Half = ClockHalf /\ MaxGap < Half /\ MaxPreset + MaxGap <= Half
  BY TimersAssumption DEF TimersAssumption
<1>6. Unit # 1 => y <= ClockHalf /\ x + Unit + MaxGap <= y
  BY <1>3, TimersAssumption DEF TimersAssumption
<1> QED
  BY <1>1, <1>2, <1>4, <1>5, <1>6

\* Before the first call nothing is measured.
LEMMA InitTimers == Init => TimersInv
<1> SUFFICES ASSUME Init PROVE TimersInv
  OBVIOUS
<1>1. NumbersOK
  BY Constants DEF Init, NumbersOK, Readings
<1>2. FlagsOK /\ kind \in Kinds
  BY DEF Init, FlagsOK
<1>3. MeasuresFromTheEdge /\ OutputsFollow
  BY DEF Init, MeasuresFromTheEdge, OutputsFollow
<1>4. StepFollows
  BY DEF Init, StepFollows
<1> QED
  BY <1>1, <1>2, <1>3, <1>4 DEF TimersInv, TypeOK

-----------------------------------------------------------------------------
(* One call.                                                               *)

\* The clock and the time since the edge keep their ranges.
LEMMA ClockTypes ==
    ASSUME TimersInv, NEW d \in 0..MaxGap, clock' = ClockAfter(d)
    PROVE  /\ clock \in Clocks /\ clock' \in Clocks /\ clock \in Int /\ clock' \in Int
           /\ PlcTime(clock') \in Readings
           /\ clock' = clock + d \/ (clock' = clock + d - 2 * ClockHalf /\ clock' < clock)
<1>1. clock \in Clocks
  BY DEF TimersInv, TypeOK, NumbersOK
<1>2. /\ clock' \in Clocks /\ clock \in Int /\ clock' \in Int
      /\ clock' = clock + d \/ (clock' = clock + d - 2 * ClockHalf /\ clock' < clock)
  BY <1>1, Constants DEF ClockAfter, Clocks
<1> QED
  BY <1>1, <1>2, ReadingIsAResidue

\* While the timer measures and its reading does not jump, the difference
\* of the readings is the whole units since the edge, and the deadline is
\* that of the true time to the precision of the readings.
LEMMA CallMeasures ==
    ASSUME TimersInv, step = 1, NEW d \in 0..MaxGap, NEW preset \in 0..MaxPreset,
           clock' = ClockAfter(d), since' = Least(since + d, Horizon),
           wrapped' = (wrapped \/ clock' < clock), ~Jumped'
    PROVE  /\ since' = since + d
           /\ start = PlcTime(clock' - since')
           /\ Difference(PlcTime(clock'), start) = WholeUnits(clock') - WholeUnits(clock' - since')
           /\ IF Expired(preset) THEN MayBeOver(preset) ELSE MayNotBeOver(preset)
<1> DEFINE e == clock - since
           b == clock' - (since + d)
<1>1. /\ since \in Nat /\ pt \in 0..MaxPreset /\ et \in Int /\ clock \in Int /\ clock' \in Int
      /\ clock' = clock + d \/ (clock' = clock + d - 2 * ClockHalf /\ clock' < clock)
  BY ClockTypes DEF TimersInv, TypeOK, NumbersOK, Readings
<1>2. ~Jumped /\ (clock' < clock => Unit = 1)
  <2>1. ~(wrapped /\ Unit > 1) /\ ~(clock' < clock /\ Unit > 1)
    BY DEF Jumped
  <2> QED
    BY <2>1, Constants DEF Jumped
<1>3. /\ start = PlcTime(e) /\ et = WholeUnits(clock) - WholeUnits(e)
      /\ since = 0 \/ et < pt
  BY <1>2 DEF TimersInv, MeasuresFromTheEdge, EdgeAt
<1>4. b = e \/ (b = e - Cycle /\ Unit = 1)
  BY <1>1, <1>2, Constants
<1>5. start = PlcTime(b)
  BY <1>1, <1>3, <1>4, ReadingsRepeat
<1>6. PICK n \in Int : n = WholeUnits(clock') - WholeUnits(b)
  BY <1>1, InstantInUnits
<1>7. /\ n \in Nat
      /\ Unit * n <= since + d + IF b < 0 /\ clock' >= 0 THEN 0 ELSE Unit - 1
      /\ since + d <= Unit * n + IF b < 0 /\ clock' >= 0 THEN 2 * (Unit - 1) ELSE Unit - 1
  <2>1. b \in Int /\ b <= clock' /\ clock' - b = since + d
    BY <1>1
  <2> QED
    BY <1>1, <1>6, <2>1, UnitsBetween
<1>8. /\ et \in Nat
      /\ since <= Unit * et + IF e < 0 /\ clock >= 0 THEN 2 * (Unit - 1) ELSE Unit - 1
  <2>1. e \in Int /\ e <= clock /\ clock - e = since
    BY <1>1
  <2> QED
    BY <1>1, <1>3, <2>1, UnitsBetween
<1>9. since = 0 \/ since <= Unit * MaxPreset - Unit + IF e < 0 /\ clock >= 0 THEN 2 * (Unit - 1) ELSE Unit - 1
  <2>1. SUFFICES ASSUME since # 0
                 PROVE  since <= Unit * MaxPreset - Unit + IF e < 0 /\ clock >= 0 THEN 2 * (Unit - 1) ELSE Unit - 1
    OBVIOUS
  <2>2. et <= MaxPreset - 1
    BY <1>1, <1>3, <2>1, Constants
  <2>3. Unit * et <= Unit * (MaxPreset - 1) /\ Unit * et \in Int
    BY <1>1, <2>2, Constants, ProductGrows
  <2>4. Unit * (MaxPreset - 1) = Unit * MaxPreset - Unit
    BY Constants
  <2> QED
    BY <1>1, <1>8, <2>3, <2>4, Constants
<1>10. since + d <= Horizon
  BY <1>1, <1>9, Constants
<1>11. n < Half
  <2>1. Unit * n < Unit * Half
    <3>1. CASE Unit = 1
      <4>1. since + d < Half
        BY <1>1, <1>9, <3>1, Constants
      <4> QED
        BY <1>1, <1>7, <3>1, <4>1, Constants
    <3>2. CASE Unit > 1
      <4>1. clock' = clock + d /\ b = e
        BY <1>1, <1>2, <1>4, <3>2
      <4>2. CASE e < 0 /\ clock >= 0
        <5>1. b < 0 /\ clock' >= 0
          BY <1>1, <4>1, <4>2
        <5>2. since <= Unit * MaxPreset + Unit - 2
          BY <1>1, <1>9, <3>2, <4>2, Constants
        <5> QED
          BY <1>1, <1>7, <3>2, <5>1, <5>2, Constants
      <4>3. CASE ~(e < 0 /\ clock >= 0)
        <5>1. since = 0 \/ since <= Unit * MaxPreset - 1
          BY <1>1, <1>9, <3>2, <4>3, Constants
        <5> QED
          BY <1>1, <1>7, <3>2, <5>1, Constants
      <4> QED
        BY <4>2, <4>3
    <3> QED
      BY <3>1, <3>2, Constants
  <2>2. SUFFICES ASSUME Half <= n PROVE FALSE
    BY <1>6, Constants
  <2>3. Unit * Half <= Unit * n
    BY <2>2, Constants, ProductGrows
  <2> QED
    BY <1>6, <2>1, <2>3, Constants
<1>12. Difference(PlcTime(clock'), start) = n
  BY <1>1, <1>5, <1>6, <1>7, <1>11, DifferenceOfReadings
<1>13. since' = since + d
  BY <1>1, <1>10, Constants DEF Least
<1>14. clock' - since' = b
  BY <1>13
<1>15. Short' = IF b < 0 /\ clock' >= 0 THEN 2 * (Unit - 1) ELSE Unit - 1
  BY <1>14 DEF Short
<1>16. Expired(preset) <=> n >= preset
  BY <1>12 DEF Expired
<1>17. CASE Expired(preset)
  <2>1. Unit * preset <= Unit * n /\ Unit * preset \in Int
    BY <1>6, <1>16, <1>17, Constants, ProductGrows
  <2>2. preset * Unit <= since' + Unit - 1
    BY <1>1, <1>7, <1>13, <2>1, Constants
  <2> QED
    BY <1>5, <1>6, <1>12, <1>13, <1>14, <1>17, <2>2 DEF MayBeOver, Over
<1>18. CASE ~Expired(preset)
  <2>1. Unit * n <= Unit * (preset - 1) /\ Unit * n \in Int
    BY <1>6, <1>16, <1>18, Constants, ProductGrows
  <2>2. since' - Short' <= (preset - 1) * Unit
    BY <1>1, <1>7, <1>13, <1>15, <2>1, Constants
  <2> QED
    BY <1>5, <1>6, <1>12, <1>13, <1>14, <1>18, <2>2 DEF MayNotBeOver
<1> QED
  BY <1>17, <1>18

\* Of every preset the precise timer may say one or the other.
LEMMA OneOrTheOther ==
    ASSUME NumbersOK', NEW preset \in 0..MaxPreset
    PROVE  \E over \in BOOLEAN : IF over THEN MayBeOver(preset) ELSE MayNotBeOver(preset)
<1>1. ASSUME NEW t \in Nat, NEW z \in Int, NEW u \in Nat \ {0}, NEW s \in Nat
      PROVE  t + (u - 1) >= z \/ t - s <= z - u
  OBVIOUS
<1>2. since' \in Nat /\ Unit \in Nat \ {0} /\ preset * Unit \in Int /\ (preset - 1) * Unit = preset * Unit - Unit
  BY Constants DEF NumbersOK
<1>3. Short' = IF clock' - since' < 0 /\ clock' >= 0 THEN 2 * (Unit - 1) ELSE Unit - 1
  BY DEF Short
<1>4. Short' \in Nat
  BY <1>2, <1>3
<1>5. since' + (Unit - 1) >= preset * Unit \/ since' - Short' <= preset * Unit - Unit
  BY <1>1, <1>2, <1>4
<1>6. MayBeOver(preset) \/ MayNotBeOver(preset)
  BY <1>2, <1>5 DEF MayBeOver, MayNotBeOver, Over
<1> QED
  BY <1>6

\* What the ideal timer of this kind answers, and that this call does.
Ideal(in, preset, over) ==
    /\ kind = "TP"  => (q' <=> IdealPulse(in, over))
    /\ kind = "TON" => (q' <=> IdealOnDelay(in, over))
    /\ kind = "TOF" => (q' <=> IdealOffDelay(in, over))
IsIdeal(in, preset) ==
    \E over \in BOOLEAN :
        /\ IF over THEN MayBeOver(preset) ELSE MayNotBeOver(preset)
        /\ kind = "TP"  => (q' <=> IdealPulse(in, over))
        /\ kind = "TON" => (q' <=> IdealOnDelay(in, over))
        /\ kind = "TOF" => (q' <=> IdealOffDelay(in, over))

\* One call keeps the invariant, and its Q is the ideal timer's.
LEMMA CallStep ==
    ASSUME TimersInv, NEW d \in 0..MaxGap, NEW in \in BOOLEAN, NEW preset \in 0..MaxPreset,
           Call(in, preset, d)
    PROVE  TimersInv' /\ (Jumped' \/ IsIdeal(in, preset))
<1> DEFINE now == PlcTime(clock')
           gone == Difference(now, start)
<1>1. /\ start \in Readings /\ since \in 0..Horizon /\ step \in 0..2
      /\ pt \in 0..MaxPreset /\ (prev <=> last) /\ clock' \in Clocks /\ clock' \in Int /\ clock \in Int
      /\ now \in Readings /\ Horizon \in Nat
  BY ClockTypes, Constants DEF TimersInv, TypeOK, NumbersOK, StepFollows, Call
<1>a. kind \in Kinds /\ kind' = kind /\ FlagsOK'
  <2>1. wrapped' \in BOOLEAN
    BY DEF Call
  <2> QED
    BY <2>1 DEF TimersInv, TypeOK, FlagsOK, Call
<1>2. /\ (prev' <=> in) /\ (last' <=> in) /\ pt' = preset /\ ~fresh' /\ kind' = kind
      /\ since' = IF Edge(in) THEN 0 ELSE Least(since + d, Horizon)
      /\ et' = IF step' = 1 THEN Difference(now, start') ELSE IF step' = 2 THEN preset ELSE 0
  BY DEF Call
<1>3. gone \in Readings /\ Difference(now, now) = 0
  BY <1>1, DifferenceTypes
<1>4. /\ step = 1 => (Expired(preset) <=> gone >= preset)
      /\ step # 1 => ~Expired(preset)
  BY DEF Expired
<1>5. since' \in 0..Horizon
  BY <1>1, <1>2 DEF Least
<1>6. ASSUME step' \in 0..2, start' \in {start, now}, step' = 1 => et' \in Readings /\ et' <= preset
      PROVE  NumbersOK'
  <2>1. et' \in -Half..MaxPreset /\ et' <= preset
    BY <1>2, <1>6, Constants DEF Readings
  <2> QED
    BY <1>1, <1>2, <1>5, <1>6, <2>1 DEF NumbersOK
<1>7. ASSUME step' = 1, start' = now, Edge(in)
      PROVE  NumbersOK' /\ MeasuresFromTheEdge'
  <2>1. et' = 0 /\ since' = 0 /\ 0 \in Readings
    BY <1>2, <1>3, <1>7, Constants DEF Readings
  <2>2. NumbersOK'
    BY <1>6, <1>7, <2>1
  <2>3. clock' \in Int /\ WholeUnits(clock') \in Int
    BY <1>1, InstantInUnits, Zenon
  <2>4. clock' - since' = clock' /\ WholeUnits(clock') - WholeUnits(clock' - since') = 0
    <3>1. \A c \in Int : c - 0 = c /\ c - c = 0
      OBVIOUS
    <3>2. clock' - since' = clock'
      BY <2>1, <2>3, <3>1, Zenon
    <3> QED
      BY <2>3, <3>1, <3>2, Zenon
  <2>5. MeasuresFromTheEdge'
    BY <1>7, <2>1, <2>4 DEF MeasuresFromTheEdge, EdgeAt
  <2> QED
    BY <2>2, <2>5
<1>8. ASSUME step = 1, ~Edge(in), start' = start, step' \in 0..2, step' = 1 => ~Expired(preset)
      PROVE  /\ NumbersOK' /\ MeasuresFromTheEdge'
             /\ Jumped' \/ IF Expired(preset) THEN MayBeOver(preset) ELSE MayNotBeOver(preset)
  <2>1. step' = 1 => et' = gone /\ gone < preset
    BY <1>2, <1>3, <1>4, <1>8, Constants DEF Readings
  <2>2. NumbersOK'
    BY <1>3, <1>6, <1>8, <2>1, Constants DEF Readings
  <2>3. ASSUME ~Jumped'
        PROVE  /\ since' = since + d
               /\ start = PlcTime(clock' - since')
               /\ gone = WholeUnits(clock') - WholeUnits(clock' - since')
               /\ IF Expired(preset) THEN MayBeOver(preset) ELSE MayNotBeOver(preset)
    <3>1. /\ clock' = ClockAfter(d) /\ since' = Least(since + d, Horizon)
          /\ wrapped' = (wrapped \/ clock' < clock)
      BY <1>2, <1>8 DEF Call
    <3> QED
      BY <1>8, <2>3, <3>1, CallMeasures
  <2>4. MeasuresFromTheEdge'
    BY <1>2, <1>8, <2>1, <2>3 DEF MeasuresFromTheEdge, EdgeAt
  <2> QED
    BY <2>2, <2>3, <2>4
<1>9. ASSUME step' # 1, step' \in 0..2, start' \in {start, now}
      PROVE  NumbersOK' /\ MeasuresFromTheEdge'
  BY <1>6, <1>9 DEF MeasuresFromTheEdge
<1>10. ASSUME NumbersOK', \A over \in BOOLEAN : Ideal(in, preset, over)
       PROVE  IsIdeal(in, preset)
  BY <1>10, OneOrTheOther DEF IsIdeal, Ideal
<1>11. ASSUME Jumped' \/ IF Expired(preset) THEN MayBeOver(preset) ELSE MayNotBeOver(preset),
              Ideal(in, preset, Expired(preset))
       PROVE  Jumped' \/ IsIdeal(in, preset)
  <2>1. Expired(preset) \in BOOLEAN
    BY DEF Expired
  <2> QED
    BY <1>11, <2>1 DEF IsIdeal, Ideal
<1>12. CASE kind = "TP"
  <2>1. /\ StepTP(in, preset) /\ (q' <=> step' = 1)
    BY <1>12 DEF Call
  <2>2. Edge(in) <=> in /\ ~last /\ (~q \/ fresh)
    BY <1>12 DEF Edge
  <2>3. /\ fresh => step = 0 /\ ~last
        /\ ~fresh => (q <=> step = 1)
        /\ step = 2 => last
    BY <1>12 DEF TimersInv, StepFollows, OutputsFollow
  <2>a. \A over : Ideal(in, preset, over) <=> (q' <=> IdealPulse(in, over))
    BY <1>12 DEF Ideal
  <2>4. CASE step = 0 /\ ~prev /\ in
    <3>1. step' = 1 /\ start' = now /\ Edge(in)
      BY <1>1, <1>2, <2>1, <2>2, <2>3, <2>4 DEF StepTP
    <3>2. NumbersOK' /\ MeasuresFromTheEdge'
      BY <1>7, <3>1
    <3>3. \A over \in BOOLEAN : Ideal(in, preset, over)
      BY <2>1, <2>a, <3>1 DEF IdealPulse
    <3>4. StepFollows' /\ OutputsFollow'
      BY <1>1, <1>2, <1>12, <2>1, <2>4, <3>1 DEF StepFollows, OutputsFollow
    <3> QED
      BY <1>a, <1>10, <3>2, <3>3, <3>4 DEF TimersInv, TypeOK
  <2>5. CASE step = 1
    <3>1. ~Edge(in) /\ start' = start /\ q /\ ~fresh
      BY <2>1, <2>2, <2>3, <2>5 DEF StepTP
    <3>2. step' = IF ~Expired(preset) THEN 1 ELSE IF in THEN 2 ELSE 0
      BY <1>1, <2>1, <2>5, <3>1 DEF StepTP
    <3>3. /\ NumbersOK' /\ MeasuresFromTheEdge'
          /\ Jumped' \/ IF Expired(preset) THEN MayBeOver(preset) ELSE MayNotBeOver(preset)
      BY <1>8, <2>5, <3>1, <3>2
    <3>4. step' = 1 <=> ~Expired(preset)
      BY <3>2
    <3>5. Ideal(in, preset, Expired(preset))
      BY <2>1, <2>a, <3>1, <3>4, Zenon DEF IdealPulse
    <3>6. StepFollows' /\ OutputsFollow'
      BY <1>1, <1>2, <1>12, <2>1, <3>1, <3>2 DEF StepFollows, OutputsFollow
    <3> QED
      BY <1>a, <1>11, <3>3, <3>5, <3>6 DEF TimersInv, TypeOK
  <2>6. CASE step # 1 /\ ~(step = 0 /\ ~prev /\ in)
    <3>1. ~Edge(in) /\ (~q \/ fresh)
      BY <1>1, <2>2, <2>3, <2>6
    <3>2. step' = (IF step = 2 /\ in THEN 2 ELSE 0) /\ start' = start
      BY <1>1, <1>4, <2>1, <2>6 DEF StepTP
    <3>3. NumbersOK' /\ MeasuresFromTheEdge'
      BY <1>9, <3>2
    <3>4. ~q'
      BY <2>1, <3>2
    <3>5. \A over \in BOOLEAN : Ideal(in, preset, over)
      BY <2>a, <3>1, <3>4, Zenon DEF IdealPulse
    <3>6. StepFollows' /\ OutputsFollow'
      BY <1>1, <1>2, <1>12, <2>1, <3>1, <3>2 DEF StepFollows, OutputsFollow
    <3> QED
      BY <1>a, <1>10, <3>3, <3>5, <3>6 DEF TimersInv, TypeOK
  <2> QED
    BY <1>1, <2>4, <2>5, <2>6
<1>13. CASE kind = "TON"
  <2>1. StepTON(in, preset) /\ (q' <=> step' = 2)
    BY <1>13 DEF Call
  <2>2. Edge(in) <=> in /\ ~last
    BY <1>13 DEF Edge
  <2>3. /\ last <=> step # 0
        /\ ~fresh => (q <=> step = 2)
        /\ fresh => step = 0
    BY <1>13 DEF TimersInv, StepFollows, OutputsFollow
  <2>a. \A over : Ideal(in, preset, over) <=> (q' <=> IdealOnDelay(in, over))
    BY <1>13 DEF Ideal
  <2>4. CASE ~in
    <3>1. step' = 0 /\ start' = start /\ et' = 0
      BY <1>2, <2>1, <2>4 DEF StepTON
    <3>2. NumbersOK' /\ MeasuresFromTheEdge'
      BY <1>9, <3>1
    <3>3. ~q'
      BY <2>1, <3>1
    <3>4. \A over \in BOOLEAN : Ideal(in, preset, over)
      BY <2>4, <2>a, <3>3, Zenon DEF IdealOnDelay
    <3>5. StepFollows' /\ OutputsFollow'
      BY <1>1, <1>2, <1>13, <2>1, <2>4, <3>1 DEF StepFollows, OutputsFollow
    <3> QED
      BY <1>a, <1>10, <3>2, <3>4, <3>5 DEF TimersInv, TypeOK
  <2>5. CASE in /\ step = 0
    <3>1. step' = 1 /\ start' = now /\ Edge(in) /\ ~last
      BY <1>1, <1>2, <2>1, <2>2, <2>3, <2>5 DEF StepTON
    <3>2. NumbersOK' /\ MeasuresFromTheEdge'
      BY <1>7, <3>1
    <3>3. ~q'
      BY <2>1, <3>1
    <3>4. \A over \in BOOLEAN : Ideal(in, preset, over)
      BY <2>a, <3>1, <3>3, Zenon DEF IdealOnDelay
    <3>5. StepFollows' /\ OutputsFollow'
      BY <1>1, <1>2, <1>13, <2>1, <2>5, <3>1 DEF StepFollows, OutputsFollow
    <3> QED
      BY <1>a, <1>10, <3>2, <3>4, <3>5 DEF TimersInv, TypeOK
  <2>6. CASE in /\ step = 1
    <3>1. step # 0 /\ step # 2
      BY <2>6
    <3>2. last /\ ~Edge(in) /\ ~fresh /\ ~q
      BY <2>2, <2>3, <3>1, Zenon
    <3>3. start' = start /\ step' = IF Expired(preset) THEN 2 ELSE 1
      BY <1>1, <2>1, <2>6 DEF StepTON
    <3>4. /\ NumbersOK' /\ MeasuresFromTheEdge'
          /\ Jumped' \/ IF Expired(preset) THEN MayBeOver(preset) ELSE MayNotBeOver(preset)
      BY <1>8, <2>6, <3>2, <3>3
    <3>5. step' = 2 <=> Expired(preset)
      BY <3>3
    <3>6. Ideal(in, preset, Expired(preset))
      BY <2>1, <2>6, <2>a, <3>2, <3>5, Zenon DEF IdealOnDelay
    <3>7. StepFollows' /\ OutputsFollow'
      BY <1>1, <1>2, <1>13, <2>1, <2>6, <3>3 DEF StepFollows, OutputsFollow
    <3> QED
      BY <1>a, <1>11, <3>4, <3>6, <3>7 DEF TimersInv, TypeOK
  <2>7. CASE in /\ step = 2
    <3>1. step' = 2 /\ start' = start
      BY <1>1, <1>4, <2>1, <2>7 DEF StepTON
    <3>2. NumbersOK' /\ MeasuresFromTheEdge'
      BY <1>9, <3>1
    <3>3. step # 0
      BY <2>7
    <3>4. last /\ q /\ q'
      BY <2>1, <2>3, <2>7, <3>1, <3>3, Zenon
    <3>5. \A over \in BOOLEAN : Ideal(in, preset, over)
      BY <2>7, <2>a, <3>4, Zenon DEF IdealOnDelay
    <3>6. StepFollows' /\ OutputsFollow'
      BY <1>1, <1>2, <1>13, <2>1, <2>7, <3>1 DEF StepFollows, OutputsFollow
    <3> QED
      BY <1>a, <1>10, <3>2, <3>5, <3>6 DEF TimersInv, TypeOK
  <2> QED
    BY <1>1, <2>4, <2>5, <2>6, <2>7
<1>14. CASE kind = "TOF"
  <2>1. StepTOF(in, preset) /\ (q' <=> in \/ step' = 1)
    BY <1>14 DEF Call
  <2>2. Edge(in) <=> ~in /\ last
    BY <1>14 DEF Edge
  <2>3. /\ last => step = 0
        /\ fresh => step = 0 /\ ~last
        /\ ~fresh => (q <=> last \/ step = 1)
    BY <1>14 DEF TimersInv, StepFollows, OutputsFollow
  <2>a. \A over : Ideal(in, preset, over) <=> (q' <=> IdealOffDelay(in, over))
    BY <1>14 DEF Ideal
  <2>4. CASE in
    <3>1. step' = 0 /\ start' = start
      BY <1>2, <2>1, <2>4 DEF StepTOF
    <3>2. NumbersOK' /\ MeasuresFromTheEdge'
      BY <1>9, <3>1
    <3>3. q'
      BY <2>1, <2>4
    <3>4. \A over \in BOOLEAN : Ideal(in, preset, over)
      BY <2>4, <2>a, <3>3, Zenon DEF IdealOffDelay
    <3>5. StepFollows' /\ OutputsFollow'
      BY <1>1, <1>2, <1>14, <2>1, <2>4, <3>1 DEF StepFollows, OutputsFollow
    <3> QED
      BY <1>a, <1>10, <3>2, <3>4, <3>5 DEF TimersInv, TypeOK
  <2>5. CASE ~in /\ last
    <3>1. step' = 1 /\ start' = now /\ Edge(in)
      BY <1>1, <1>2, <2>1, <2>2, <2>3, <2>5 DEF StepTOF
    <3>2. NumbersOK' /\ MeasuresFromTheEdge'
      BY <1>7, <3>1
    <3>3. q'
      BY <2>1, <3>1
    <3>4. \A over \in BOOLEAN : Ideal(in, preset, over)
      BY <2>5, <2>a, <3>3, Zenon DEF IdealOffDelay
    <3>5. StepFollows' /\ OutputsFollow'
      BY <1>1, <1>2, <1>14, <2>1, <2>5, <3>1 DEF StepFollows, OutputsFollow
    <3> QED
      BY <1>a, <1>10, <3>2, <3>4, <3>5 DEF TimersInv, TypeOK
  <2>6. CASE ~in /\ ~last /\ step = 1
    <3>1. step # 0
      BY <2>6
    <3>2. ~Edge(in) /\ q /\ ~fresh
      BY <2>2, <2>3, <2>6, <3>1, Zenon
    <3>3. start' = start /\ step' = IF Expired(preset) THEN 2 ELSE 1
      BY <1>1, <2>1, <2>6 DEF StepTOF
    <3>4. /\ NumbersOK' /\ MeasuresFromTheEdge'
          /\ Jumped' \/ IF Expired(preset) THEN MayBeOver(preset) ELSE MayNotBeOver(preset)
      BY <1>8, <2>6, <3>2, <3>3
    <3>5. step' = 1 <=> ~Expired(preset)
      BY <3>3
    <3>6. Ideal(in, preset, Expired(preset))
      BY <2>1, <2>6, <2>a, <3>2, <3>5, Zenon DEF IdealOffDelay
    <3>7. StepFollows' /\ OutputsFollow'
      BY <1>1, <1>2, <1>14, <2>1, <2>6, <3>3 DEF StepFollows, OutputsFollow
    <3> QED
      BY <1>a, <1>11, <3>4, <3>6, <3>7 DEF TimersInv, TypeOK
  <2>7. CASE ~in /\ ~last /\ step # 1
    <3>1. step' = step /\ start' = start
      BY <1>1, <1>4, <2>1, <2>7 DEF StepTOF
    <3>2. NumbersOK' /\ MeasuresFromTheEdge'
      BY <1>1, <1>9, <2>7, <3>1
    <3>3. ~q' /\ (q => fresh)
      BY <2>1, <2>3, <2>7, <3>1
    <3>4. \A over \in BOOLEAN : Ideal(in, preset, over)
      BY <2>7, <2>a, <3>3, Zenon DEF IdealOffDelay
    <3>5. StepFollows' /\ OutputsFollow'
      BY <1>1, <1>2, <1>14, <2>1, <2>7, <3>1 DEF StepFollows, OutputsFollow
    <3> QED
      BY <1>a, <1>10, <3>2, <3>4, <3>5 DEF TimersInv, TypeOK
  <2> QED
    BY <1>1, <2>4, <2>5, <2>6, <2>7
<1> QED
  BY <1>12, <1>13, <1>14 DEF TimersInv, TypeOK

\* A start keeps the invariant: a retained instance keeps its outputs only.
LEMMA RestartStep ==
    ASSUME TimersInv, NEW warm \in BOOLEAN, Restart(warm) PROVE TimersInv'
<1>1. NumbersOK'
  <2>1. pt' \in 0..MaxPreset /\ et' \in -Half..MaxPreset /\ et' <= pt'
    BY Constants DEF TimersInv, TypeOK, NumbersOK, Restart
  <2> QED
    BY <2>1, Constants DEF NumbersOK, Restart, Readings
<1>2. FlagsOK' /\ kind' \in Kinds
  BY DEF TimersInv, TypeOK, FlagsOK, Restart
<1>3. MeasuresFromTheEdge' /\ StepFollows' /\ OutputsFollow'
  BY DEF Restart, MeasuresFromTheEdge, StepFollows, OutputsFollow
<1> QED
  BY <1>1, <1>2, <1>3 DEF TimersInv, TypeOK

\* Every step keeps the invariant.
LEMMA TimersStep ==
    ASSUME TimersInv, [Next]_vars PROVE TimersInv'
<1>1. ASSUME NEW d \in 0..MaxGap, CallAfter(d) PROVE TimersInv'
  BY <1>1, CallStep DEF CallAfter
<1>2. CASE UNCHANGED vars
  BY <1>2 DEF vars, TimersInv, TypeOK, NumbersOK, FlagsOK, MeasuresFromTheEdge, EdgeAt, Jumped,
              StepFollows, OutputsFollow
<1> QED
  BY <1>1, <1>2, RestartStep DEF Next

\* In every reachable state the variables of an instance have their types,
\* and ET is never past PT.
THEOREM TimersTypesHold == Spec => []TypeOK
<1>1. TimersInv => TypeOK
  BY DEF TimersInv
<1>2. TimersInv /\ [Next]_vars => TimersInv'
  BY TimersStep
<1> QED
  BY <1>1, <1>2, InitTimers, PTL DEF Spec

\* After a call the outputs show whether the timer measures.
LEMMA MeasuringIsStepOne == TimersInv /\ ~fresh => (Measuring <=> step = 1)
<1> SUFFICES ASSUME TimersInv, ~fresh PROVE Measuring <=> step = 1
  OBVIOUS
<1>1. step = 1 => step # 0 /\ step # 2
  OBVIOUS
<1>2. step \in 0..2
  BY DEF TimersInv, TypeOK, NumbersOK
<1>3. step = 0 \/ step = 1 \/ step = 2
  BY <1>2
<1>4. step = 2 => step # 0 /\ step # 1
  OBVIOUS
<1>5. CASE kind = "TP"
  BY <1>5 DEF TimersInv, OutputsFollow, Measuring
<1>6. CASE kind = "TON"
  <2>1. Measuring <=> last /\ ~q
    BY <1>6 DEF Measuring
  <2>2. (last <=> step # 0) /\ (q <=> step = 2)
    BY <1>6 DEF TimersInv, StepFollows, OutputsFollow
  <2> QED
    BY <2>1, <2>2, <1>1, <1>3, <1>4, Zenon
<1>7. CASE kind = "TOF"
  <2>1. Measuring <=> ~last /\ q
    BY <1>7 DEF Measuring
  <2>2. (last => step = 0) /\ (q <=> last \/ step = 1)
    BY <1>7 DEF TimersInv, StepFollows, OutputsFollow
  <2> QED
    BY <2>1, <2>2, <1>1, <1>3, Zenon
<1> QED
  BY <1>5, <1>6, <1>7 DEF TimersInv, TypeOK

\* However often the clock has wrapped, and wherever it started, ET is the
\* true time since the edge while the timer measures, to the precision of
\* the readings, unless its reading jumped.
THEOREM EtIsAlwaysTheTrueTime == Spec => []EtIsTheTrueTime
<1>1. TimersInv => EtIsTheTrueTime
  <2> SUFFICES ASSUME TimersInv, ~fresh
               PROVE  /\ Measuring /\ ~Jumped => et * Unit \in since - Short..since + Over
                      /\ ~Measuring => et \in {0, pt}
    BY DEF EtIsTheTrueTime
  <2>1. step # 1 => et \in {0, pt}
    BY DEF TimersInv, OutputsFollow
  <2>2. ASSUME step = 1, ~Jumped PROVE et * Unit \in since - Short..since + Over
    <3>1. clock \in Int /\ since \in Nat /\ et \in Int
      BY Constants DEF TimersInv, TypeOK, NumbersOK, Clocks
    <3>2. et = WholeUnits(clock) - WholeUnits(clock - since)
      BY <2>2 DEF TimersInv, MeasuresFromTheEdge, EdgeAt
    <3>3. PICK b \in Int : b = clock - since
      BY <3>1
    <3>4. /\ Unit * et <= clock - b + IF b < 0 /\ clock >= 0 THEN 0 ELSE Unit - 1
          /\ clock - b <= Unit * et + IF b < 0 /\ clock >= 0 THEN 2 * (Unit - 1) ELSE Unit - 1
      BY <3>1, <3>2, <3>3, UnitsBetween
    <3>5. /\ clock - b = since /\ et * Unit = Unit * et /\ Unit * et \in Int
          /\ Short = IF b < 0 /\ clock >= 0 THEN 2 * (Unit - 1) ELSE Unit - 1
      BY <3>1, <3>3, Constants DEF Short
    <3> QED
      BY <3>1, <3>3, <3>4, <3>5, Constants DEF Over
  <2> QED
    BY <2>1, <2>2, MeasuringIsStepOne
<1>2. TimersInv /\ [Next]_vars => TimersInv'
  BY TimersStep
<1> QED
  BY <1>1, <1>2, InitTimers, PTL DEF Spec

\* Whatever the clock, the calls and the restarts, every call's Q is that of
\* a timer that measures the true time to the precision of the readings,
\* unless its reading jumped.
THEOREM TimersAreIdeal == Spec => QIsTheIdealTimers
<1>1. TimersInv /\ [Next]_vars => [fresh' \/ Jumped' \/ IsIdeal(last', pt')]_vars
  <2> SUFFICES ASSUME TimersInv, Next PROVE fresh' \/ Jumped' \/ IsIdeal(last', pt')
    OBVIOUS
  <2>1. ASSUME NEW d \in 0..MaxGap, CallAfter(d) PROVE Jumped' \/ IsIdeal(last', pt')
    <3>1. PICK in \in BOOLEAN, preset \in 0..MaxPreset : Call(in, preset, d)
      BY <2>1 DEF CallAfter
    <3>2. last' = in /\ pt' = preset
      BY <3>1 DEF Call
    <3>3. Jumped' \/ IsIdeal(in, preset)
      BY <3>1, CallStep
    <3> QED
      BY <3>2, <3>3, Zenon
  <2>2. ASSUME NEW warm \in BOOLEAN, Restart(warm) PROVE fresh'
    BY <2>2 DEF Restart
  <2> QED
    BY <2>1, <2>2 DEF Next
<1>2. TimersInv /\ [Next]_vars => TimersInv'
  BY TimersStep
<1> QED
  BY <1>1, <1>2, InitTimers, PTL DEF Spec, QIsTheIdealTimers, IsIdeal

\* Whatever a retained instance held, the first call after a start starts
\* over.
THEOREM StartsOver == Spec => FirstCallStartsOver
<1> DEFINE Restarts == fresh /\ ~fresh' => et' = 0 /\ (q' => last' /\ kind # "TON")
<1>1. TimersInv /\ [Next]_vars => [Restarts]_vars
  <2> SUFFICES ASSUME TimersInv, Next, fresh, ~fresh' PROVE et' = 0 /\ (q' => last' /\ kind # "TON")
    OBVIOUS
  <2>1. PICK d \in 0..MaxGap, in \in BOOLEAN, preset \in 0..MaxPreset : Call(in, preset, d)
    BY DEF Next, CallAfter, Restart
  <2>2. step = 0 /\ ~prev /\ ~last /\ (last' <=> in)
    BY <2>1 DEF TimersInv, StepFollows, Call
  <2>3. step' # 2
    BY <2>1, <2>2 DEF Call, StepTP, StepTON, StepTOF, Expired
  <2>4. step' = 1 => in /\ start' = PlcTime(clock')
    BY <2>1, <2>2 DEF Call, StepTP, StepTON, StepTOF, Expired
  <2>5. Difference(PlcTime(clock'), PlcTime(clock')) = 0
    BY <2>1, ClockTypes, DifferenceTypes DEF Call
  <2>6. et' = 0
    BY <2>1, <2>3, <2>4, <2>5 DEF Call
  <2> QED
    BY <2>1, <2>2, <2>3, <2>4, <2>6 DEF Call
<1>2. TimersInv /\ [Next]_vars => TimersInv'
  BY TimersStep
<1> QED
  BY <1>1, <1>2, InitTimers, PTL DEF Spec, FirstCallStartsOver

\* A timer that measures, and whose reading did not jump, is at most its
\* greatest preset and a unit from its end, and each later call on which it
\* still measures is nearer to it, by as much as the clock moved on,
\* whatever the presets of the calls in between: so a delay ends unless the
\* program stops or is started again.
Left == (MaxPreset + 1) * Unit - since
THEOREM DelaysRunOut ==
    Spec => /\ [](~fresh /\ Measuring /\ ~Jumped => Left \in Nat)
            /\ [][\A d \in 1..MaxGap :
                     CallAfter(d) /\ ~fresh /\ Measuring /\ Measuring' /\ ~Jumped'
                        => Left' = Left - d]_vars
<1> DEFINE Bounded == ~fresh /\ Measuring /\ ~Jumped => Left \in Nat
           Nears == \A d \in 1..MaxGap :
                       CallAfter(d) /\ ~fresh /\ Measuring /\ Measuring' /\ ~Jumped'
                          => Left' = Left - d
<1>1. TimersInv => Bounded
  <2> SUFFICES ASSUME TimersInv, ~fresh, Measuring, ~Jumped PROVE Left \in Nat
    OBVIOUS
  <2>1. step = 1
    BY MeasuringIsStepOne
  <2>2. /\ since \in Nat /\ clock \in Int /\ pt \in 0..MaxPreset
        /\ et \in Int /\ et = WholeUnits(clock) - WholeUnits(clock - since)
        /\ since = 0 \/ et < pt
    BY <2>1, Constants DEF TimersInv, TypeOK, NumbersOK, MeasuresFromTheEdge, EdgeAt, Clocks
  <2>3. PICK b \in Int : b = clock - since
    BY <2>2
  <2>4. since <= Unit * et + 2 * (Unit - 1)
    <3>1. since <= Unit * et + IF b < 0 /\ clock >= 0 THEN 2 * (Unit - 1) ELSE Unit - 1
      BY <2>2, <2>3, UnitsBetween
    <3> QED
      BY <2>2, <3>1, Constants
  <2>5. (MaxPreset + 1) * Unit = Unit * MaxPreset + Unit
    BY Constants
  <2>6. CASE since = 0
    BY <2>5, <2>6, Constants DEF Left
  <2>7. CASE et < pt
    <3>1. Unit * et <= Unit * (MaxPreset - 1) /\ Unit * et \in Int
      BY <2>2, <2>7, Constants, ProductGrows
    <3>2. Unit * (MaxPreset - 1) = Unit * MaxPreset - Unit
      BY Constants
    <3> QED
      BY <2>2, <2>4, <2>5, <3>1, <3>2, Constants DEF Left
  <2> QED
    BY <2>2, <2>6, <2>7
<1>2. TimersInv /\ TimersInv' /\ [Next]_vars => [Nears]_vars
  <2> SUFFICES ASSUME TimersInv, TimersInv', NEW d \in 1..MaxGap, CallAfter(d),
                      ~fresh, Measuring, Measuring', ~Jumped'
               PROVE  Left' = Left - d
    OBVIOUS
  <2>1. PICK in \in BOOLEAN, preset \in 0..MaxPreset : Call(in, preset, d)
    BY DEF CallAfter
  <2>2. step = 1
    BY MeasuringIsStepOne
  <2>3. ~Edge(in)
    <3>1. kind = "TP" => q
      BY DEF Measuring
    <3>2. kind = "TON" => last
      BY DEF Measuring
    <3>3. kind = "TOF" => ~last
      BY DEF Measuring
    <3> QED
      BY <3>1, <3>2, <3>3, Zenon DEF Edge
  <2>4. since' = since + d
    <3>1. /\ clock' = ClockAfter(d) /\ since' = Least(since + d, Horizon)
          /\ wrapped' = (wrapped \/ clock' < clock)
      BY <2>1, <2>3 DEF Call
    <3>2. d \in 0..MaxGap
      OBVIOUS
    <3> QED
      BY <2>2, <3>1, <3>2, CallMeasures
  <2>5. since \in Nat /\ (MaxPreset + 1) * Unit \in Int
    BY Constants DEF TimersInv, TypeOK, NumbersOK
  <2> QED
    BY <2>4, <2>5 DEF Left
<1>3. TimersInv /\ [Next]_vars => TimersInv'
  BY TimersStep
<1> QED
  BY <1>1, <1>2, <1>3, InitTimers, PTL DEF Spec
=============================================================================
