------------------------------ MODULE RfsimAlarm ------------------------------
(***************************************************************************)
(* The clock and the alarms of an OT-RFSIM node: a 64-bit clock in         *)
(* microseconds that drifts, and a millisecond and a microsecond alarm     *)
(* whose 32-bit times wrap.  The node tells the simulator the time to its  *)
(* next alarm and sleeps; it is woken then, or earlier by another event.   *)
(***************************************************************************)
EXTENDS Integers

CONSTANTS
    Width,          \* 2^32, the range of a time of an alarm
    US_PER_MS, PS_PER_US,
    MaxDrift,       \* bound: clock drift, in PPM (picoseconds per microsecond)
    Delays,         \* after how many units alarms are started
    MaxNow          \* bound: time

AlarmAssumption ==
    /\ Width \in Nat \ {0} /\ Width % 2 = 0 /\ US_PER_MS \in Nat \ {0} /\ PS_PER_US \in Nat \ {0}
    /\ Delays \subseteq Nat /\ \A d \in Delays : 2 * d < Width
    /\ MaxDrift \in Nat /\ MaxDrift < PS_PER_US

VARIABLES
    sNow, sDriftPicoSec, sClockDriftPpm,
    alarm,          \* "ms" and "us": [running, at, due], due the time that did not wrap, as history
    elapsed, drifted, \* history: the simulator's time, and the exact drift in picoseconds
    fired           \* history: the last alarms that fired: [at, due]

vars == <<sNow, sDriftPicoSec, sClockDriftPpm, alarm, elapsed, drifted, fired>>

Kinds == {"ms", "us"}

\* platformAlarmInit.
Init ==
    /\ sNow = 0 /\ sDriftPicoSec = 0 /\ sClockDriftPpm = 0 /\ elapsed = 0 /\ drifted = 0
    /\ alarm = [k \in Kinds |-> [running |-> FALSE, at |-> 0, due |-> 0]]
    /\ fired = [k \in Kinds |-> [at |-> 0, due |-> 0]]

\* The clock in the unit of an alarm, before and after it is cut to 32 bits.
Units(k, t) == IF k = "ms" THEN t \div US_PER_MS ELSE t
GetNow(k) == Units(k, sNow) % Width

\* The signed 32-bit difference of the alarm and the clock.
Remaining(k) == LET d == (alarm[k].at - GetNow(k)) % Width IN IF 2 * d < Width THEN d ELSE d - Width

Running == {k \in Kinds : alarm[k].running}
Microseconds(k) == IF Remaining(k) < 0 THEN 0 ELSE IF k = "ms" THEN Remaining(k) * US_PER_MS ELSE Remaining(k)

\* Mutant: the microsecond alarm counts only without the other.
IsNextMs(r) == IF alarm["ms"].running THEN r = Microseconds("ms") ELSE alarm["us"].running /\ r = Microseconds("us")

\* platformAlarmGetNext is r; there is none if no alarm is running.
IsNext(r) == /\ \E k \in Running : r = Microseconds(k)
             /\ \A k \in Running : r <= Microseconds(k)

\* otPlatAlarmMilliStartAt and otPlatAlarmMicroStartAt, from now.
StartAt(k, dt) ==
    /\ alarm' = [alarm EXCEPT ![k] = [running |-> TRUE, at |-> (GetNow(k) + dt) % Width, due |-> Units(k, sNow) + dt]]
    /\ UNCHANGED <<sNow, sDriftPicoSec, sClockDriftPpm, elapsed, drifted, fired>>

Stop(k) ==
    /\ alarm' = [alarm EXCEPT ![k].running = FALSE]
    /\ UNCHANGED <<sNow, sDriftPicoSec, sClockDriftPpm, elapsed, drifted, fired>>

SetClockDrift(p) ==
    /\ sClockDriftPpm' = p
    /\ UNCHANGED <<sNow, sDriftPicoSec, alarm, elapsed, drifted, fired>>

IsDue(k) == Remaining(k) <= 0

\* platformAlarmProcess; the main loop calls it after each event, and does not sleep when an alarm is due.
Process ==
    /\ \E k \in Running : IsDue(k)
    /\ alarm' = [k \in Kinds |-> IF k \in Running /\ IsDue(k) THEN [alarm[k] EXCEPT !.running = FALSE] ELSE alarm[k]]
    /\ fired' = [k \in Kinds |-> IF k \in Running /\ IsDue(k) THEN [at |-> Units(k, sNow), due |-> alarm[k].due] ELSE fired[k]]
    /\ UNCHANGED <<sNow, sDriftPicoSec, sClockDriftPpm, elapsed, drifted>>

\* The quotient of C: towards zero.
Quotient(a, b) == IF a < 0 THEN -((-a) \div b) ELSE a \div b

\* Mutant: what is left of the drift is forgotten.
RestForgotten(d) == 0

\* What is left of the drift d after the clock was adjusted.
Rest(d) == d - Quotient(d, PS_PER_US) * PS_PER_US

\* platformAlarmAdvanceNow, when the node is woken.
AdvanceNow(delta) ==
    LET d == sDriftPicoSec + sClockDriftPpm * delta
    IN /\ sNow' = sNow + delta + Quotient(d, PS_PER_US)
       /\ sDriftPicoSec' = Rest(d)
       /\ elapsed' = elapsed + delta /\ drifted' = drifted + sClockDriftPpm * delta
       /\ UNCHANGED <<sClockDriftPpm, alarm, fired>>

\* The node sleeps, and an event or the alarm wakes it after delta.
Sleep(delta) ==
    /\ elapsed + delta <= MaxNow /\ ~IsNext(0)
    /\ \A r \in 0..(Width * US_PER_MS) : IsNext(r) => delta <= r
    /\ AdvanceNow(delta)

Next ==
    \/ \E k \in Kinds, dt \in Delays : StartAt(k, dt)
    \/ \E k \in Kinds : Stop(k)
    \/ \E p \in -MaxDrift..MaxDrift : SetClockDrift(p)
    \/ \E delta \in 1..MaxNow : Sleep(delta)
    \/ Process

Spec == Init /\ [][Next]_vars

\* No alarm fires before its time, also after the 32-bit times wrapped.
NotEarly == \A k \in Kinds : fired[k].at >= fired[k].due

\* An alarm that is running is not past, and one that fired did so at its time in its own unit, when the
\* clock does not drift: the node asks to be woken early enough, for the nearer of the two alarms.
NotLate == \A k \in Kinds :
    /\ alarm[k].running => Units(k, sNow) <= alarm[k].due
    /\ fired[k].at = fired[k].due

\* The clock is what the drift makes it, to the picosecond, through any changes of the drift.
DriftExact == (sNow - elapsed) * PS_PER_US + sDriftPicoSec = drifted

\* The times of the alarms fit their 32 bits, and what is left of the drift is less than a microsecond.
TypeOK ==
    /\ \A k \in Kinds : alarm[k].at \in 0..(Width - 1)
    /\ -PS_PER_US < sDriftPicoSec /\ sDriftPicoSec < PS_PER_US /\ sNow >= 0
====
