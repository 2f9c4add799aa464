------------------------------- MODULE Timers -------------------------------
(***************************************************************************)
(* The timers of rk's standard library, stdlib/Timers.st: the pulse TP,    *)
(* the on-delay TON and the off-delay TOF, in TIME and in LTIME.           *)
(*                                                                         *)
(* The host's monotonic clock is a signed number of 64 bits that counts    *)
(* nanoseconds from anywhere and wraps.  An LTIME timer reads it as it is; *)
(* a TIME timer reads whole milliseconds cut out of it, wrapped once more  *)
(* to 32 bits.  The cycle of the nanoseconds is no whole number of cycles  *)
(* of the milliseconds: where the first wraps, the second jumps.           *)
(*                                                                         *)
(* The program calls the timer at any pace up to MaxGap, with any input    *)
(* and any preset, and the host can stop and start it warm, with the       *)
(* outputs retained, or cold.                                              *)
(***************************************************************************)
EXTENDS Integers

CONSTANTS
    ClockHalf,  \* the clock wraps every 2 * ClockHalf: 2^63 ns
    Unit,       \* nanoseconds in the unit of a reading: 10^6, or 1 for LTIME
    Half,       \* a reading wraps every 2 * Half: 2^31, or 2^63 for LTIME
    MaxPreset,  \* the longest PT, in units
    MaxGap      \* the longest time between two calls, in nanoseconds

\* A preset and a pause together stay in half the range of a reading: 24.8
\* days for TIME.
ASSUME TimersAssumption ==
    /\ {ClockHalf, Unit, Half, MaxGap} \subseteq Nat \ {0} /\ MaxPreset \in Nat
    /\ IF Unit = 1
       THEN Half = ClockHalf /\ MaxGap < Half /\ MaxPreset + MaxGap <= Half
       ELSE Half * Unit <= ClockHalf /\ (MaxPreset + 1) * Unit + MaxGap <= Half * Unit

Kinds == {"TP", "TON", "TOF"}
Clocks   == -ClockHalf..ClockHalf - 1
Readings == -Half..Half - 1
Cycle == 2 * Half

\* As much of the time since an edge as the properties look at.
Horizon == (MaxPreset + 1) * Unit + MaxGap

VARIABLES
    kind,           \* which block the instance is of
    clock,          \* the host's clock, of which CURRENT_TIME is the reading
    step,           \* STATE: 0 at rest, 1 measuring, 2 past its end
    prev,           \* PREV_IN
    start,          \* START_TIME
    q, et, pt,      \* Q, ET, PT
    (* history *)
    last,           \* the input of the last call of this run
    since,          \* the true time since the timer's edge, up to Horizon
    wrapped,        \* the clock has wrapped since that edge
    fresh           \* no call yet in this run

vars == <<kind, clock, step, prev, start, q, et, pt, last, since, wrapped, fresh>>

\* MONOTONIC_LTIME, d later.
ClockAfter(d) == IF clock + d >= ClockHalf THEN clock + d - 2 * ClockHalf ELSE clock + d

\* The whole units of an instant: the division truncates toward zero.
WholeUnits(c) == IF c >= 0 THEN c \div Unit ELSE -((-c) \div Unit)

\* PLC_TIME at an instant of the clock, and PLC_LTIME with the unit of one:
\* the low bits of its whole units.
PlcTimeSaturating(c) ==
    LET n == WholeUnits(c) IN IF n >= Half THEN Half - 1 ELSE IF n < -Half THEN -Half ELSE n
PlcTime(c) == ((WholeUnits(c) + Half) % Cycle) - Half

\* a - b, in the width of a reading.
DifferenceUnwrapped(a, b) == a - b
Difference(a, b) ==
    LET d == a - b
    IN  IF d >= Half THEN d - Cycle ELSE IF d < -Half THEN d + Cycle ELSE d

Least(a, b) == IF a <= b THEN a ELSE b

Init ==
    /\ kind \in Kinds
    /\ clock \in Clocks
    /\ step = 0 /\ prev = FALSE /\ start = 0
    /\ q = FALSE /\ et = 0 /\ pt = 0
    /\ last = FALSE /\ since = 0 /\ wrapped = FALSE /\ fresh = TRUE

-----------------------------------------------------------------------------
(* One call: the step, the time its start is measured from, the outputs.     *)

\* The deadline, on the reading just made.
ExpiredLate(preset) == step = 1 /\ Difference(PlcTime(clock'), start) > preset
Expired(preset)     == step = 1 /\ Difference(PlcTime(clock'), start) >= preset

StepTP(in, preset) ==
    LET begins == step = 0 /\ ~prev /\ in
        next   == IF begins THEN 1 ELSE IF Expired(preset) THEN 2 ELSE step
    IN  /\ step' = IF next = 2 /\ ~in THEN 0 ELSE next
        /\ start' = IF begins THEN PlcTime(clock') ELSE start

StepTONMovingStart(in, preset) ==
    LET begins == in /\ step = 0 /\ ~prev
    IN  /\ step' = IF ~in THEN 0 ELSE IF begins THEN 1 ELSE IF Expired(preset) THEN 2 ELSE step
        /\ start' = IF in THEN PlcTime(clock') ELSE start
StepTON(in, preset) ==
    LET begins == in /\ step = 0 /\ ~prev
    IN  /\ step' = IF ~in THEN 0 ELSE IF begins THEN 1 ELSE IF Expired(preset) THEN 2 ELSE step
        /\ start' = IF begins THEN PlcTime(clock') ELSE start

StepTOFStaleStart(in, preset) ==
    /\ step' = IF in THEN 0 ELSE IF step = 0 /\ prev THEN 1 ELSE IF Expired(preset) THEN 2 ELSE step
    /\ start' = IF ~in /\ prev /\ start = 0 THEN PlcTime(clock') ELSE start
StepTOF(in, preset) ==
    LET begins == ~in /\ step = 0 /\ prev
    IN  /\ step' = IF in THEN 0 ELSE IF begins THEN 1 ELSE IF Expired(preset) THEN 2 ELSE step
        /\ start' = IF begins THEN PlcTime(clock') ELSE start

\* The edge a timer measures from.  A pulse starts on no edge that comes
\* before its end.
Edge(in) ==
    \/ kind = "TP" /\ in /\ ~last /\ (~q \/ fresh)
    \/ kind = "TON" /\ in /\ ~last
    \/ kind = "TOF" /\ ~in /\ last

Call(in, preset, d) ==
    /\ clock' = ClockAfter(d)
    /\ \/ kind = "TP" /\ StepTP(in, preset) /\ q' = (step' = 1)
       \/ kind = "TON" /\ StepTON(in, preset) /\ q' = (step' = 2)
       \/ kind = "TOF" /\ StepTOF(in, preset) /\ q' = (in \/ step' = 1)
    /\ et' = IF step' = 1 THEN Difference(PlcTime(clock'), start') ELSE IF step' = 2 THEN preset ELSE 0
    /\ pt' = preset
    /\ prev' = in
    /\ last' = in
    /\ since' = IF Edge(in) THEN 0 ELSE Least(since + d, Horizon)
    /\ wrapped' = (~Edge(in) /\ (wrapped \/ clock' < clock))
    /\ fresh' = FALSE
    /\ UNCHANGED kind

\* The host starts the program again, on a clock that starts anywhere.  The
\* step and the readings are NON_RETAIN; a retained instance keeps the rest.
RestartRetainingStep(warm) ==
    /\ clock' \in Clocks
    /\ IF warm THEN UNCHANGED <<q, et, pt, step, prev, start>>
               ELSE q' = FALSE /\ et' = 0 /\ pt' = 0 /\ step' = 0 /\ prev' = FALSE /\ start' = 0
    /\ last' = FALSE /\ since' = 0 /\ wrapped' = FALSE /\ fresh' = TRUE
    /\ UNCHANGED kind
Restart(warm) ==
    /\ clock' \in Clocks
    /\ step' = 0 /\ prev' = FALSE /\ start' = 0
    /\ IF warm THEN UNCHANGED <<q, et, pt>> ELSE q' = FALSE /\ et' = 0 /\ pt' = 0
    /\ last' = FALSE /\ since' = 0 /\ wrapped' = FALSE /\ fresh' = TRUE
    /\ UNCHANGED kind

CallAfter(d) == \E in \in BOOLEAN, preset \in 0..MaxPreset : Call(in, preset, d)

Next ==
    \/ \E d \in 0..MaxGap : CallAfter(d)
    \/ \E warm \in BOOLEAN : Restart(warm)

\* The scan calls the timer again and again, and time passes.
Fairness == WF_vars(\E d \in 1..MaxGap : CallAfter(d))

Spec == Init /\ [][Next]_vars /\ Fairness

-----------------------------------------------------------------------------
(* The properties.                                                           *)

\* The types of an instance's variables.  ET stops at PT (Timers.st:4-5),
\* however the clock wraps.
NumbersOK ==
    /\ clock \in Clocks /\ start \in Readings
    /\ step \in 0..2
    /\ pt \in 0..MaxPreset /\ et \in -Half..MaxPreset /\ et <= pt
    /\ since \in 0..Horizon
FlagsOK ==
    prev \in BOOLEAN /\ q \in BOOLEAN /\ last \in BOOLEAN /\ wrapped \in BOOLEAN /\ fresh \in BOOLEAN
TypeOK  == kind \in Kinds /\ NumbersOK /\ FlagsOK

\* The reading has jumped since the edge: the clock wrapped, and a reading
\* is not the clock itself.
Jumped == wrapped /\ Unit > 1

\* Two readings, of times cut to whole units, are less than a unit off the
\* time between them, and less than two short of it where the clock passed
\* zero in between, where both are cut toward it.
Over  == Unit - 1
Short == IF clock - since < 0 /\ clock >= 0 THEN 2 * (Unit - 1) ELSE Unit - 1

\* A timer that measures the true time, to that precision: `over` tells
\* whether its preset is.
MayBeOver(preset)     == since' + Over >= preset * Unit
MayNotBeOver(preset)  == since' - Short' <= (preset - 1) * Unit
IdealPulse(in, over)    == Edge(in) \/ (q /\ ~fresh /\ ~over)
IdealOnDelay(in, over)  == in /\ last /\ (q \/ over)
IdealOffDelay(in, over) == in \/ last \/ (q /\ ~fresh /\ ~over)

\* On every call Q is what the ideal timer's is, wherever the host started
\* the clock and whatever the pace of the calls, the changes of PT and the
\* restarts, unless the reading jumped since the edge: exactly for LTIME,
\* across the clock's wrap, and to the millisecond for TIME, across its own
\* (Timers.st:16-18, 131-132, 226-227, 321-322; the call that starts a
\* delay does not end it, as test_pt_zero_pins_current_behavior says).
QIsTheIdealTimers ==
    [][ fresh' \/ Jumped' \/
        \E over \in BOOLEAN :
            /\ IF over THEN MayBeOver(pt') ELSE MayNotBeOver(pt')
            /\ kind = "TP"  => (q' <=> IdealPulse(last', over))
            /\ kind = "TON" => (q' <=> IdealOnDelay(last', over))
            /\ kind = "TOF" => (q' <=> IdealOffDelay(last', over)) ]_vars

\* Measuring, as the outputs show it.
Measuring == CASE kind = "TP" -> q [] kind = "TON" -> last /\ ~q [] kind = "TOF" -> ~last /\ q

\* After a call ET is the true time since the edge while the timer measures,
\* to the precision of the readings, and is PT or nothing otherwise
\* (Timers.st:4-5).  Nothing is said of a delay whose reading jumped.
EtIsTheTrueTime ==
    ~fresh => IF Measuring
              THEN Jumped \/ et * Unit \in since - Short..since + Over
              ELSE et \in {0, pt}

\* The first call after a start ends what the step no longer runs: nothing
\* elapsed, and no Q but of this call's input (Timers.st:20-24).
FirstCallStartsOver ==
    [][ fresh /\ ~fresh' => et' = 0 /\ (q' => last' /\ kind # "TON") ]_vars

\* No delay runs for ever while the program does (Timers.st:131-132, 226-227,
\* 321-322): a pulse ends, an input that stays TRUE turns an on-delay on, and
\* one that stays FALSE turns an off-delay off.
DelaysEnd ==
    /\ kind = "TP" /\ q  ~>  ~q \/ fresh
    /\ kind = "TON" /\ last  ~>  q \/ ~last
    /\ kind = "TOF" /\ q  ~>  ~q \/ last \/ fresh
=============================================================================
