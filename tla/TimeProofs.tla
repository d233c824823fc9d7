----------------------------- MODULE TimeProofs -----------------------------
(*****************************************************************************)
(* Proofs about what depends on the passing of time.  RfsimAlarm: the clock  *)
(* of a node follows its drift exactly, its alarms are never early, and not  *)
(* late without drift, however often their times wrap.  Energy: for any      *)
(* nodes, radio states, period, clients and times, the samples are exact     *)
(* and apart, the file is not older than a period, and no client that reads  *)
(* the history without a lock misses a sample.                               *)
(*****************************************************************************)
EXTENDS RfsimAlarm, SequenceTheorems, TLAPS

\* Multiplication keeps the order.
LEMMA Monotonic ==
    ASSUME NEW a \in Int, NEW b \in Int, NEW c \in Nat, a <= b
    PROVE  a * c <= b * c
  OBVIOUS

\* Quotient and remainder.
LEMMA DivMod ==
    ASSUME NEW a \in Int, NEW b \in Nat \ {0}
    PROVE  a \div b \in Int /\ a % b \in 0..(b - 1) /\ a = b * (a \div b) + (a % b)
  OBVIOUS

\* They are unique.
LEMMA Unique ==
    ASSUME NEW b \in Nat \ {0}, NEW q \in Int, NEW p \in Int, NEW r \in 0..(b - 1), NEW s \in 0..(b - 1),
           b * q + r = b * p + s
    PROVE  q = p /\ r = s
<1>1. b * (q - p) = s - r
  OBVIOUS
<1>2. ~(q - p >= 1)
  <2> SUFFICES ASSUME q - p >= 1 PROVE FALSE
    OBVIOUS
  <2>1. 1 * b <= (q - p) * b
    BY Monotonic
  <2> QED
    BY <1>1, <2>1
<1>3. ~(p - q >= 1)
  <2> SUFFICES ASSUME p - q >= 1 PROVE FALSE
    OBVIOUS
  <2>1. 1 * b <= (p - q) * b
    BY Monotonic
  <2>2. (p - q) * b = r - s
    OBVIOUS
  <2> QED
    BY <2>1, <2>2
<1> QED
  BY <1>2, <1>3

\* A number is congruent to what is left of it.
LEMMA ModShift ==
    ASSUME NEW b \in Nat \ {0}, NEW a \in Int, NEW k \in Int
    PROVE  (a + b * k) % b = a % b /\ (a + b * k) \div b = (a \div b) + k
<1> DEFINE x == a + b * k
<1>1. x \in Int
  OBVIOUS
<1>2. a = b * (a \div b) + (a % b) /\ a \div b \in Int /\ a % b \in 0..(b - 1)
  BY DivMod
<1>3. x = b * (x \div b) + (x % b) /\ x \div b \in Int /\ x % b \in 0..(b - 1)
  BY Zenon, <1>1, DivMod
<1>4. b * ((a \div b) + k) = b * (a \div b) + b * k
  BY <1>2
<1>5. b * (x \div b) + (x % b) = b * ((a \div b) + k) + (a % b)
  BY <1>2, <1>3, <1>4
<1> DEFINE q == x \div b
           p == (a \div b) + k
           r == x % b
           s == a % b
<1>6. q \in Int /\ p \in Int /\ r \in 0..(b - 1) /\ s \in 0..(b - 1) /\ b * q + r = b * p + s
  BY <1>2, <1>3, <1>5
<1> HIDE DEF q, p, r, s
<1>7. q = p /\ r = s
  BY <1>6, Unique
<1> QED
  BY <1>7 DEF q, p, r, s

\* A small number is its own remainder.
LEMMA ModSmall ==
    ASSUME NEW b \in Nat \ {0}, NEW a \in 0..(b - 1)
    PROVE  a % b = a
<1>1. a = b * (a \div b) + (a % b) /\ a \div b \in Int /\ a % b \in 0..(b - 1)
  BY DivMod
<1>2. b * (a \div b) + (a % b) = b * 0 + a
  BY <1>1
<1> QED
  BY <1>1, <1>2, Unique

-----------------------------------------------------------------------------
\* The difference of two times that were cut, taken as a signed number as platformAlarmGetNext does, is
\* the real one as long as this is within half of the range, on either side.
LEMMA Difference ==
    ASSUME NEW w \in Nat \ {0}, NEW due \in Int, NEW now \in Int, -w <= 2 * (due - now), 2 * (due - now) < w
    PROVE  LET d == ((due % w) - (now % w)) % w IN (IF 2 * d < w THEN d ELSE d - w) = due - now
<1> DEFINE x == due - now
           k == (now \div w) - (due \div w)
           d == ((due % w) - (now % w)) % w
<1>1. due = w * (due \div w) + (due % w) /\ due \div w \in Int /\ due % w \in Int
  BY DivMod
<1>2. now = w * (now \div w) + (now % w) /\ now \div w \in Int /\ now % w \in Int
  BY DivMod
<1>3. k \in Int /\ x \in Int
  BY <1>1, <1>2
<1>4. w * k = w * (now \div w) - w * (due \div w)
  BY <1>1, <1>2
<1>5. (due % w) - (now % w) = x + w * k
  <2>1. \A A, B, r, s \in Int : due = A + r /\ now = B + s => r - s = due - now + (B - A)
    OBVIOUS
  <2>2. w * (due \div w) \in Int /\ w * (now \div w) \in Int
    BY <1>1, <1>2
  <2> QED
    BY <1>1, <1>2, <1>4, <2>1, <2>2
<1>6. -w <= 2 * x /\ 2 * x < w
  OBVIOUS
<1> HIDE DEF x, k
<1>7. (x + w * k) % w = x % w
  BY Zenon, <1>3, ModShift
<1>8. CASE 0 <= x
  <2>1. x \in 0..(w - 1)
    BY <1>3, <1>6, <1>8
  <2>2. d = x
    BY <1>5, <1>7, <2>1, ModSmall
  <2>3. (IF 2 * d < w THEN d ELSE d - w) = x
    <3> HIDE DEF d
    <3> QED
      BY <1>3, <1>6, <2>2
  <2> QED
    BY <2>3 DEF x
<1>9. CASE x < 0
  <2>1. x + w \in 0..(w - 1) /\ x + w = x + w * 1
    BY <1>3, <1>6, <1>9
  <2>2. (x + w * 1) % w = x % w
    <3>1. 1 \in Int
      OBVIOUS
    <3> QED
      BY Zenon, <1>3, <3>1, ModShift
  <2>3. d = x + w
    BY <1>5, <1>7, <2>1, <2>2, ModSmall
  <2>4. ~(2 * d < w) /\ d - w = x
    <3> HIDE DEF d
    <3> QED
      BY <1>3, <1>6, <2>3
  <2> QED
    BY <2>4 DEF x
<1> QED
  BY <1>3, <1>8, <1>9

\* Cutting first and last is the same as cutting last.
LEMMA CutOnce ==
    ASSUME NEW w \in Nat \ {0}, NEW now \in Int, NEW dt \in Int
    PROVE  ((now % w) + dt) % w = (now + dt) % w
<1> DEFINE k == now \div w
           x == (now % w) + dt
<1>1. now = w * k + (now % w) /\ k \in Int /\ now % w \in Int
  BY DivMod
<1>2. x \in Int /\ now + dt = x + w * k
  BY <1>1
<1> HIDE DEF x, k
<1>3. (x + w * k) % w = x % w
  BY Zenon, <1>1, <1>2, ModShift
<1> QED
  BY <1>2, <1>3 DEF x

\* The quotient of C and its remainder.
LEMMA QuotientRest ==
    ASSUME NEW d \in Int, PS_PER_US \in Nat \ {0}
    PROVE  /\ Quotient(d, PS_PER_US) \in Int
           /\ d = Quotient(d, PS_PER_US) * PS_PER_US + Rest(d)
           /\ -PS_PER_US < Rest(d) /\ Rest(d) < PS_PER_US
           /\ (d < 0 => Rest(d) <= 0) /\ (d >= 0 => Rest(d) >= 0)
<1> DEFINE b == PS_PER_US
<1>1. CASE d < 0
  <2> DEFINE e == -d
  <2>1. e = b * (e \div b) + (e % b) /\ e \div b \in Int /\ e % b \in 0..(b - 1)
    <3>1. e \in Int
      OBVIOUS
    <3> HIDE DEF e
    <3> QED
      BY <3>1, DivMod
  <2>2. Quotient(d, b) = -((-d) \div b)
    BY <1>1 DEF Quotient
  <2>3. \A q \in Int : (-q) * b = -(b * q)
    OBVIOUS
  <2>4. Quotient(d, b) * b = -(b * ((-d) \div b))
    BY <2>1, <2>2, <2>3
  <2>5. Rest(d) = -((-d) % b)
    BY <2>1, <2>4 DEF Rest
  <2> QED
    BY <1>1, <2>1, <2>2, <2>4, <2>5
<1>2. CASE d >= 0
  <2>1. d = b * (d \div b) + (d % b) /\ d \div b \in Int /\ d % b \in 0..(b - 1)
    BY DivMod
  <2>2. Quotient(d, b) = d \div b
    BY <1>2 DEF Quotient
  <2> QED
    BY <1>2, <2>1, <2>2 DEF Rest
<1> QED
  BY <1>1, <1>2

\* A drift of less than a microsecond per microsecond does not turn the clock back.
LEMMA NotBack ==
    ASSUME PS_PER_US \in Nat \ {0}, NEW s \in Int, NEW p \in Int, NEW delta \in Nat, -PS_PER_US < s, -PS_PER_US < p
    PROVE  0 <= delta + Quotient(s + p * delta, PS_PER_US)
<1> DEFINE b == PS_PER_US
           d == s + p * delta
           q == Quotient(d, b)
<1>1. p * delta \in Int /\ d \in Int
  OBVIOUS
<1>2. q \in Int /\ d = q * b + Rest(d) /\ -b < Rest(d) /\ Rest(d) < b /\ (d < 0 => Rest(d) <= 0) /\ Rest(d) \in Int
  <2> HIDE DEF d
  <2>1. q \in Int /\ d = q * b + Rest(d) /\ -b < Rest(d) /\ Rest(d) < b /\ (d < 0 => Rest(d) <= 0)
    BY <1>1, QuotientRest
  <2> QED
    BY <1>1, <2>1 DEF Rest
<1>3. (1 - b) * delta <= p * delta
  BY Monotonic
<1>4. (1 - b) * delta = delta - b * delta /\ b * delta \in Nat
  OBVIOUS
<1> SUFFICES ASSUME q <= -delta - 1 PROVE FALSE
  BY <1>2
<1>5. q * b <= (-delta - 1) * b
  BY <1>2, Monotonic
<1>6. (-delta - 1) * b = -(b * delta) - b
  OBVIOUS
<1>7. 1 - b + delta - b * delta <= d
  BY <1>1, <1>3, <1>4
<1> HIDE DEF d, q, b
<1> QED
  BY <1>1, <1>2, <1>4, <1>5, <1>6, <1>7 DEF b

\* ... and lets it go at most twice as fast.
LEMMA NotFast ==
    ASSUME PS_PER_US \in Nat \ {0}, NEW s \in Int, NEW p \in Int, NEW delta \in Nat, s < PS_PER_US, p < PS_PER_US
    PROVE  Quotient(s + p * delta, PS_PER_US) <= delta
<1> DEFINE b == PS_PER_US
           d == s + p * delta
           q == Quotient(d, b)
<1>1. p * delta \in Int /\ d \in Int
  OBVIOUS
<1>2. q \in Int /\ d = q * b + Rest(d) /\ -b < Rest(d) /\ Rest(d) < b /\ (d >= 0 => Rest(d) >= 0) /\ Rest(d) \in Int
  <2> HIDE DEF d
  <2>1. q \in Int /\ d = q * b + Rest(d) /\ -b < Rest(d) /\ Rest(d) < b /\ (d >= 0 => Rest(d) >= 0)
    BY <1>1, QuotientRest
  <2> QED
    BY <1>1, <2>1 DEF Rest
<1>3. p * delta <= (b - 1) * delta
  BY Monotonic
<1>4. (b - 1) * delta = b * delta - delta /\ b * delta \in Nat
  OBVIOUS
<1> SUFFICES ASSUME delta + 1 <= q PROVE FALSE
  BY <1>2
<1>5. (delta + 1) * b <= q * b
  BY <1>2, Monotonic
<1>6. (delta + 1) * b = b * delta + b
  OBVIOUS
<1>7. d <= b - 1 + b * delta - delta
  BY <1>1, <1>3, <1>4
<1> HIDE DEF d, q, b
<1> QED
  BY <1>1, <1>2, <1>4, <1>5, <1>6, <1>7 DEF b
-----------------------------------------------------------------------------
\* The inductive invariant about the clock.
ClockInv ==
    /\ sNow \in Nat /\ sDriftPicoSec \in Int /\ sClockDriftPpm \in -MaxDrift..MaxDrift
    /\ elapsed \in Int /\ drifted \in Int
    /\ -PS_PER_US < sDriftPicoSec /\ sDriftPicoSec < PS_PER_US
    /\ DriftExact

\* Only a sleep changes the clock.
LEMMA ClockStep ==
    ASSUME AlarmAssumption, ClockInv, [Next]_vars
    PROVE  ClockInv'
<1>1. ASSUME UNCHANGED <<sNow, sDriftPicoSec, elapsed, drifted>>, sClockDriftPpm' \in -MaxDrift..MaxDrift PROVE ClockInv'
  BY <1>1 DEF ClockInv, DriftExact
<1>2. CASE (\E k \in Kinds, dt \in Delays : StartAt(k, dt)) \/ (\E k \in Kinds : Stop(k)) \/ Process \/ UNCHANGED vars
  <2>1. UNCHANGED <<sNow, sDriftPicoSec, sClockDriftPpm, elapsed, drifted>>
    BY <1>2, Zenon DEF StartAt, Stop, Process, vars
  <2> QED
    BY <1>1, <2>1 DEF ClockInv
<1>3. ASSUME NEW p \in -MaxDrift..MaxDrift, SetClockDrift(p) PROVE ClockInv'
  BY <1>1, <1>3 DEF SetClockDrift
<1>4. ASSUME NEW delta \in 1..MaxNow, Sleep(delta) PROVE ClockInv'
  <2> DEFINE b == PS_PER_US
             p == sClockDriftPpm
             d == sDriftPicoSec + p * delta
             q == Quotient(d, b)
  <2>1. /\ sNow' = sNow + delta + q /\ sDriftPicoSec' = Rest(d) /\ sClockDriftPpm' = p
        /\ elapsed' = elapsed + delta /\ drifted' = drifted + p * delta
    BY <1>4 DEF Sleep, AdvanceNow
  <2>2. b \in Nat \ {0} /\ p \in Int /\ -b < p /\ delta \in Nat /\ p * delta \in Int /\ d \in Int
    BY DEF AlarmAssumption, ClockInv
  <2>3. q \in Int /\ d = q * b + Rest(d) /\ -b < Rest(d) /\ Rest(d) < b /\ Rest(d) \in Int
    <3> HIDE DEF d
    <3>1. q \in Int /\ d = q * b + Rest(d) /\ -b < Rest(d) /\ Rest(d) < b
      BY <2>2, QuotientRest
    <3> QED
      BY <2>2, <3>1 DEF Rest
  <2>4. 0 <= delta + q
    BY Zenon, <2>2, NotBack DEF ClockInv
  <2>5. (sNow' - elapsed') * b + sDriftPicoSec' = drifted'
    <3>1. (sNow - elapsed) * b + sDriftPicoSec = drifted
      BY DEF ClockInv, DriftExact
    <3>2. sNow' - elapsed' = (sNow - elapsed) + q
      BY <2>1, <2>2, <2>3 DEF ClockInv
    <3>3. ((sNow - elapsed) + q) * b = (sNow - elapsed) * b + q * b
      BY <2>2, <2>3 DEF ClockInv
    <3>4. (sNow - elapsed) * b \in Int /\ q * b \in Int
      BY <2>2, <2>3 DEF ClockInv
    <3> QED
      BY <2>1, <2>2, <2>3, <3>1, <3>2, <3>3, <3>4 DEF ClockInv
  <2> QED
    BY <2>1, <2>2, <2>3, <2>4, <2>5 DEF ClockInv, DriftExact
<1> QED
  BY <1>2, <1>3, <1>4 DEF Next

\* For every drift of less than a microsecond per microsecond, every length of sleep and every change
\* of the drift under way: the clock is ahead by exactly the drift, to the picosecond.
THEOREM ClockExact == ASSUME AlarmAssumption PROVE Spec => []DriftExact
<1>1. Init => ClockInv
  BY DEF Init, ClockInv, DriftExact, AlarmAssumption
<1>2. ClockInv /\ [Next]_vars => ClockInv'
  BY ClockStep
<1>3. ClockInv => DriftExact
  BY DEF ClockInv
<1> QED
  BY <1>1, <1>2, <1>3, PTL DEF Spec
-----------------------------------------------------------------------------
\* A quotient is small if the number is.
LEMMA DivBound ==
    ASSUME NEW b \in Nat \ {0}, NEW a \in Int, NEW n \in Int, a < b * (n + 1)
    PROVE  a \div b <= n
<1>1. a = b * (a \div b) + (a % b) /\ a \div b \in Int /\ a % b \in 0..(b - 1)
  BY DivMod
<1> SUFFICES ASSUME n + 1 <= a \div b PROVE FALSE
  BY <1>1
<1>2. (n + 1) * b <= (a \div b) * b
  BY <1>1, Monotonic
<1>3. (n + 1) * b = b * (n + 1) /\ (a \div b) * b = b * (a \div b) /\ b * (n + 1) \in Int /\ b * (a \div b) \in Int
  BY <1>1
<1> QED
  BY <1>1, <1>2, <1>3

\* The clock in either unit does not go back.
LEMMA DivOrder ==
    ASSUME NEW b \in Nat \ {0}, NEW a \in Int, NEW c \in Int, a <= c
    PROVE  a \div b <= c \div b
<1>1. c = b * (c \div b) + (c % b) /\ c \div b \in Int /\ c % b \in 0..(b - 1)
  BY DivMod
<1>2. b * ((c \div b) + 1) = b * (c \div b) + b /\ b * (c \div b) \in Int
  BY <1>1
<1>3. a < b * ((c \div b) + 1)
  BY <1>1, <1>2
<1> QED
  BY <1>1, <1>3, DivBound


\* A running alarm is within half of the range, on either side, and its time is what is left of it.
Near(k) ==
    /\ alarm[k].at = alarm[k].due % Width
    /\ -Width <= 2 * (alarm[k].due - Units(k, sNow)) /\ 2 * (alarm[k].due - Units(k, sNow)) < Width

\* Without drift no running alarm is past, and what fired did so at its time.
Punctual ==
    /\ sDriftPicoSec = 0
    /\ \A k \in Kinds : (alarm[k].running => Units(k, sNow) <= alarm[k].due) /\ fired[k].at = fired[k].due

\* The inductive invariant about the alarms.
AlarmInv ==
    /\ alarm \in [Kinds -> [running : BOOLEAN, at : Int, due : Int]]
    /\ fired \in [Kinds -> [at : Int, due : Int]]
    /\ \A k \in Kinds : alarm[k].running => Near(k)
    /\ \A k \in Kinds : fired[k].at >= fired[k].due
    /\ MaxDrift = 0 => Punctual

\* The clock in either unit.
LEMMA UnitsType ==
    ASSUME AlarmAssumption, NEW k \in Kinds, NEW t \in Int
    PROVE  Units(k, t) \in Int
<1>1. US_PER_MS \in Nat \ {0}
  BY DEF AlarmAssumption
<1>2. t \div US_PER_MS \in Int
  BY <1>1, DivMod
<1> QED
  BY <1>2 DEF Units

\* What platformAlarmGetNext sees of a running alarm is the time that is really left.
LEMMA RemainingExact ==
    ASSUME AlarmAssumption, ClockInv, AlarmInv, NEW k \in Kinds, alarm[k].running
    PROVE  Remaining(k) = alarm[k].due - Units(k, sNow)
<1> DEFINE due == alarm[k].due
           now == Units(k, sNow)
<1>1. Width \in Nat \ {0} /\ due \in Int /\ now \in Int
  <2>1. sNow \in Int /\ due \in Int
    BY DEF AlarmInv, ClockInv
  <2>2. Width \in Nat \ {0}
    BY DEF AlarmAssumption
  <2> QED
    BY <2>1, <2>2, UnitsType
<1>2. alarm[k].at = due % Width /\ -Width <= 2 * (due - now) /\ 2 * (due - now) < Width
  BY DEF AlarmInv, Near
<1>3. GetNow(k) = now % Width
  BY DEF GetNow
<1> HIDE DEF due, now
<1>4. LET d == ((due % Width) - (now % Width)) % Width IN (IF 2 * d < Width THEN d ELSE d - Width) = due - now
  BY Zenon, <1>1, <1>2, Difference
<1>5. Remaining(k) = due - now
  BY <1>2, <1>3, <1>4 DEF Remaining
<1> QED
  BY <1>5 DEF due, now

\* The next alarm is asked for: a node sleeps no longer than what is left of any of its alarms.
LEMMA SleepsNotPast ==
    ASSUME AlarmAssumption, ClockInv, AlarmInv, NEW delta \in 1..MaxNow, Sleep(delta), NEW k \in Kinds, alarm[k].running
    PROVE  delta <= Microseconds(k)
<1> DEFINE m(j) == Microseconds(j)
<1>1. \A j \in Running : m(j) \in 0..(Width * US_PER_MS)
  <2> SUFFICES ASSUME NEW j \in Running PROVE m(j) \in 0..(Width * US_PER_MS)
    OBVIOUS
  <2>1. j \in Kinds /\ alarm[j].running
    BY DEF Running
  <2>2. Remaining(j) \in Int /\ Remaining(j) <= Width
    <3>1. Units(j, sNow) \in Int /\ alarm[j].due \in Int
      BY <2>1, UnitsType DEF AlarmInv, ClockInv
    <3>2. Remaining(j) = alarm[j].due - Units(j, sNow)
      BY <2>1, RemainingExact
    <3>3. 2 * (alarm[j].due - Units(j, sNow)) < Width /\ Width \in Nat
      BY <2>1 DEF AlarmInv, Near, AlarmAssumption
    <3> QED
      BY <3>1, <3>2, <3>3
  <2>3. Width \in Nat /\ US_PER_MS \in Nat \ {0}
    BY DEF AlarmAssumption
  <2>4. Remaining(j) * US_PER_MS <= Width * US_PER_MS /\ Width * 1 <= Width * US_PER_MS
    <3>1. 1 * Width <= US_PER_MS * Width
      BY <2>3, Monotonic
    <3> QED
      BY <2>2, <2>3, <3>1, Monotonic
  <2>5. Width * US_PER_MS \in Nat /\ (Remaining(j) >= 0 => Remaining(j) * US_PER_MS \in Nat)
    BY <2>2, <2>3
  <2> QED
    BY <2>2, <2>3, <2>4, <2>5 DEF Microseconds
<1>2. k \in Running
  BY DEF Running
<1>3. PICK r \in {m(j) : j \in Running} : \A j \in Running : r <= m(j)
  <2>1. m("ms") <= m("us") \/ m("us") <= m("ms") \/ "ms" \notin Running \/ "us" \notin Running
    BY <1>1
  <2>2. Running \subseteq {"ms", "us"}
    BY DEF Running, Kinds
  <2>3. ASSUME NEW i \in Running, \A j \in Running : m(i) <= m(j)
        PROVE  \E r \in {m(j) : j \in Running} : \A j \in Running : r <= m(j)
    <3> HIDE DEF m
    <3> WITNESS m(i) \in {m(j) : j \in Running}
    <3> QED
      BY <2>3
  <2>4. \E i \in Running : \A j \in Running : m(i) <= m(j)
    <3>1. \A j \in Running : m(j) \in Int /\ m(j) <= m(j)
      BY <1>1
    <3> HIDE DEF m
    <3>2. CASE Running = {k}
      BY <1>2, <3>1, <3>2, Zenon
    <3>3. CASE Running = {"ms", "us"}
      BY <2>1, <3>1, <3>3, Zenon
    <3>4. Running = {k} \/ Running = {"ms", "us"}
      BY Zenon, <1>2, <2>2
    <3> QED
      BY <3>2, <3>3, <3>4
  <2> QED
    BY <2>3, <2>4
<1>4. IsNext(r) /\ r \in 0..(Width * US_PER_MS)
  BY <1>1, <1>3 DEF IsNext
<1>5. delta <= r
  BY <1>4 DEF Sleep
<1> QED
  BY <1>1, <1>2, <1>3, <1>4, <1>5

\* The clock in either unit after a sleep during which it went at most c times as fast.
LEMMA UnitsLater ==
    ASSUME AlarmAssumption, NEW k \in Kinds, NEW t \in Nat, NEW delta \in Nat, NEW c \in Nat, NEW e \in Nat, NEW R \in Nat,
           e <= c * delta, delta <= (IF k = "ms" THEN R * US_PER_MS ELSE R)
    PROVE  Units(k, t) <= Units(k, t + e) /\ Units(k, t + e) <= Units(k, t) + c * R
<1> DEFINE b == US_PER_MS
<1>1. b \in Nat \ {0}
  BY DEF AlarmAssumption
<1>2. CASE k # "ms"
  <2>1. delta * c <= R * c /\ delta * c = c * delta /\ R * c = c * R /\ c * R \in Nat /\ c * delta \in Nat
    BY <1>2, Monotonic
  <2>2. Units(k, t) = t /\ Units(k, t + e) = t + e
    BY <1>2 DEF Units
  <2> QED
    BY <2>1, <2>2
<1>3. CASE k = "ms"
  <2> DEFINE n == t \div b
             N == n + c * R
  <2>1. Units(k, t) = n /\ Units(k, t + e) = (t + e) \div b
    BY <1>3 DEF Units
  <2>2. n <= (t + e) \div b
    BY <1>1, DivOrder
  <2>3. t = b * n + (t % b) /\ n \in Int /\ t % b \in 0..(b - 1)
    BY <1>1, DivMod
  <2>4. N \in Int /\ c * R \in Nat
    BY <2>3
  <2>5. c * delta <= b * (c * R)
    <3>1. delta * c <= (R * b) * c
      BY <1>1, <1>3, Monotonic
    <3>2. delta * c = c * delta /\ (R * b) * c = b * (c * R)
      BY <1>1
    <3> QED
      BY <3>1, <3>2
  <2>6. b * (N + 1) = b * n + b * (c * R) + b /\ b * n \in Int /\ b * (c * R) \in Int /\ c * delta \in Int
    <3> DEFINE u == c * R
    <3>1. u \in Int /\ N = n + u
      BY <2>4
    <3> HIDE DEF n, u, N
    <3>2. b * (N + 1) = b * n + b * u + b /\ b * n \in Int /\ b * u \in Int
      BY <1>1, <2>3, <3>1
    <3> QED
      BY <3>2 DEF u
  <2>7. t + e < b * (N + 1)
    <3> DEFINE u == b * (c * R)
               v == c * delta
               x == b * n
    <3>1. x \in Int /\ u \in Int /\ v \in Int /\ b * (N + 1) = x + u + b /\ v <= u /\ e <= v /\ t = x + (t % b)
      BY <2>3, <2>5, <2>6
    <3>2. t % b \in Int /\ t % b < b
      BY <1>1, <2>3
    <3> HIDE DEF n, u, v, x, N
    <3> QED
      BY <1>1, <3>1, <3>2
  <2>8. (t + e) \div b <= N
    <3>1. t + e \in Int
      OBVIOUS
    <3> HIDE DEF N
    <3> QED
      BY <1>1, <2>4, <2>7, <3>1, DivBound
  <2> QED
    BY <2>1, <2>2, <2>8
<1> QED
  BY <1>2, <1>3

\* A sleep: the clock does not go back and at most twice as fast as the time, and without drift as fast.
LEMMA SleepTakes ==
    ASSUME AlarmAssumption, ClockInv, NEW delta \in 1..MaxNow, Sleep(delta)
    PROVE  /\ \E e \in Nat : sNow' = sNow + e /\ e <= 2 * delta /\ (MaxDrift = 0 /\ sDriftPicoSec = 0 => e = delta)
           /\ UNCHANGED <<alarm, fired>> /\ (MaxDrift = 0 /\ sDriftPicoSec = 0 => sDriftPicoSec' = 0)
<1> DEFINE b == PS_PER_US
           d == sDriftPicoSec + sClockDriftPpm * delta
           q == Quotient(d, b)
<1>1. sNow' = sNow + delta + q /\ sDriftPicoSec' = Rest(d) /\ UNCHANGED <<alarm, fired>>
  BY DEF Sleep, AdvanceNow
<1>2. /\ b \in Nat \ {0} /\ sClockDriftPpm \in Int /\ -b < sClockDriftPpm /\ sClockDriftPpm < b /\ delta \in Nat /\ d \in Int
      /\ sDriftPicoSec \in Int /\ -b < sDriftPicoSec /\ sDriftPicoSec < b /\ sNow \in Nat
  BY DEF AlarmAssumption, ClockInv
<1>3. 0 <= delta + q
  BY Zenon, <1>2, NotBack
<1>4. q <= delta
  BY Zenon, <1>2, NotFast
<1>5. q \in Int
  <2> HIDE DEF d
  <2> QED
    BY <1>2, QuotientRest
<1>6. MaxDrift = 0 /\ sDriftPicoSec = 0 => q = 0 /\ Rest(d) = 0
  <2> SUFFICES ASSUME MaxDrift = 0, sDriftPicoSec = 0 PROVE q = 0 /\ Rest(d) = 0
    OBVIOUS
  <2>1. d = 0
    <3>1. sClockDriftPpm = 0
      BY DEF ClockInv
    <3> QED
      BY <1>2, <3>1
  <2>2. 0 \div b = 0
    <3>1. 0 < b * (0 + 1)
      BY <1>2
    <3>2. 0 \div b <= 0 /\ 0 \div b \in Int /\ 0 = b * (0 \div b) + (0 % b) /\ 0 % b \in 0..(b - 1)
      BY <1>2, <3>1, DivBound, DivMod
    <3>3. b * (0 \div b) + (0 % b) = b * 0 + 0
      BY <1>2, <3>2
    <3>4. 0 \in 0..(b - 1) /\ 0 \in Int
      BY <1>2
    <3> QED
      BY <1>2, <3>2, <3>3, <3>4, Unique
  <2>3. Quotient(0, b) = 0 /\ Rest(0) = 0
    BY <1>2, <2>2 DEF Quotient, Rest
  <2> QED
    BY <2>1, <2>3
<1> DEFINE e == delta + q
<1>7. e \in Nat /\ sNow' = sNow + e /\ e <= 2 * delta /\ (MaxDrift = 0 /\ sDriftPicoSec = 0 => e = delta)
  <2> HIDE DEF q
  <2> QED
    BY <1>1, <1>2, <1>3, <1>4, <1>5, <1>6
<1> HIDE DEF e, d
<1> QED
  BY Zenon, <1>1, <1>6, <1>7

\* A sleep keeps every running alarm near, and without drift ahead of the clock.
LEMMA SleepKeeps ==
    ASSUME AlarmAssumption, ClockInv, AlarmInv, NEW delta \in 1..MaxNow, Sleep(delta)
    PROVE  AlarmInv'
<1>1. PICK e \in Nat : sNow' = sNow + e /\ e <= 2 * delta /\ (MaxDrift = 0 /\ sDriftPicoSec = 0 => e = delta)
  BY SleepTakes
<1>2. UNCHANGED <<alarm, fired>> /\ (MaxDrift = 0 /\ sDriftPicoSec = 0 => sDriftPicoSec' = 0)
  BY SleepTakes
<1>3. sNow \in Nat /\ delta \in Nat /\ Width \in Nat /\ MaxDrift \in Nat
  BY DEF AlarmAssumption, ClockInv
<1>4. ASSUME NEW k \in Kinds, alarm[k].running
      PROVE  Near(k)' /\ (MaxDrift = 0 => Units(k, sNow)' <= alarm[k].due)
  <2> DEFINE now == Units(k, sNow)
             then == Units(k, sNow + e)
             R == alarm[k].due - now
  <2>1. /\ alarm[k].at = alarm[k].due % Width /\ -Width <= 2 * R /\ 2 * R < Width /\ alarm[k].due \in Int
    BY <1>4 DEF AlarmInv, Near
  <2>2. Remaining(k) = R /\ delta <= Microseconds(k)
    BY <1>4, RemainingExact, SleepsNotPast
  <2>3. now \in Int /\ then \in Int /\ R \in Int
    BY <1>3, <2>1, UnitsType
  <2>4. R \in Nat /\ delta <= (IF k = "ms" THEN R * US_PER_MS ELSE R)
    <3> HIDE DEF R
    <3> QED
      BY <2>2, <2>3 DEF Microseconds
  <2>5. now <= then /\ then <= now + 2 * R
    <3> HIDE DEF R
    <3> QED
      BY Zenon, <1>1, <1>3, <2>4, UnitsLater
  <2>6. MaxDrift = 0 => then <= alarm[k].due
    <3> SUFFICES ASSUME MaxDrift = 0 PROVE then <= alarm[k].due
      OBVIOUS
    <3>1. sDriftPicoSec = 0
      BY DEF AlarmInv, Punctual
    <3>2. e <= 1 * delta
      BY <1>1, <1>3, <3>1
    <3>3. then <= now + 1 * R
      <4> HIDE DEF R
      <4> QED
        BY Zenon, <1>1, <1>3, <2>4, <3>2, UnitsLater
    <3> HIDE DEF now, then
    <3> QED
      BY <2>1, <2>3, <3>3
  <2>7. Units(k, sNow)' = then /\ alarm' = alarm
    BY <1>1, <1>2 DEF Units
  <2>8. -Width <= 2 * (alarm[k].due - then) /\ 2 * (alarm[k].due - then) < Width
    <3> HIDE DEF now, then
    <3> QED
      BY <1>3, <2>1, <2>3, <2>4, <2>5
  <2> HIDE DEF now, then
  <2> QED
    BY <2>1, <2>6, <2>7, <2>8 DEF Near
<1>5. MaxDrift = 0 => Punctual'
  <2> SUFFICES ASSUME MaxDrift = 0 PROVE Punctual'
    OBVIOUS
  <2>1. Punctual
    BY DEF AlarmInv
  <2>2. sDriftPicoSec' = 0
    BY <1>2, <2>1 DEF Punctual
  <2> QED
    BY <1>2, <1>4, <2>1, <2>2 DEF Punctual
<1> QED
  BY <1>2, <1>4, <1>5 DEF AlarmInv

\* Every step keeps the running alarms near, and without drift ahead of the clock.
LEMMA AlarmStep ==
    ASSUME AlarmAssumption, ClockInv, AlarmInv, [Next]_vars
    PROVE  AlarmInv'
<1> USE DEF AlarmInv
<1>0. sNow \in Int
  BY DEF ClockInv
<1>1. ASSUME NEW k \in Kinds, NEW dt \in Delays, StartAt(k, dt) PROVE AlarmInv'
  <2> DEFINE now == Units(k, sNow)
             a == [running |-> TRUE, at |-> (now + dt) % Width, due |-> now + dt]
  <2>1. now \in Int /\ dt \in Nat /\ 2 * dt < Width /\ Width \in Nat \ {0}
    BY <1>0, <1>1, UnitsType DEF AlarmAssumption
  <2>2. (GetNow(k) + dt) % Width = (now + dt) % Width /\ (now + dt) % Width \in Int
    <3> HIDE DEF now
    <3>1. now + dt \in Int /\ dt \in Int
      BY <2>1
    <3>2. ((now % Width) + dt) % Width = (now + dt) % Width
      BY Zenon, <2>1, <3>1, CutOnce
    <3>3. (now + dt) % Width \in 0..(Width - 1)
      BY <2>1, <3>1, DivMod
    <3>4. (now + dt) % Width \in Int
      BY <2>1, <3>3
    <3> QED
      BY <3>2, <3>4 DEF GetNow, now
  <2>3. alarm' = [alarm EXCEPT ![k] = a] /\ UNCHANGED <<sNow, sDriftPicoSec, sClockDriftPpm, fired>>
    BY Zenon, <1>1, <2>2 DEF StartAt
  <2>4. a \in [running : BOOLEAN, at : Int, due : Int]
    BY <2>1, <2>2
  <2>5. ASSUME NEW j \in Kinds, alarm'[j].running PROVE Near(j)' /\ (MaxDrift = 0 => Units(j, sNow)' <= alarm'[j].due)
    <3>1. CASE j = k
      <4>1. alarm'[j] = a /\ Units(j, sNow)' = now
        BY <2>3, <3>1 DEF Units
      <4>2. a.at = a.due % Width /\ now <= a.due /\ -Width <= 2 * (a.due - now) /\ 2 * (a.due - now) < Width
        <5> HIDE DEF now
        <5> QED
          BY <2>1
      <4> QED
        BY <4>1, <4>2 DEF Near, Punctual
    <3>2. CASE j # k
      <4>1. alarm'[j] = alarm[j] /\ Units(j, sNow)' = Units(j, sNow)
        BY <2>3, <3>2 DEF Units
      <4> QED
        BY <2>5, <4>1 DEF Near, Punctual
    <3> QED
      BY <3>1, <3>2
  <2>6. alarm' \in [Kinds -> [running : BOOLEAN, at : Int, due : Int]]
    <3> HIDE DEF a
    <3> QED
      BY <2>3, <2>4
  <2>7. MaxDrift = 0 => Punctual'
    BY <2>3, <2>5 DEF Punctual
  <2> HIDE DEF a
  <2> QED
    BY <2>3, <2>5, <2>6, <2>7
<1>2. ASSUME NEW k \in Kinds, Stop(k) PROVE AlarmInv'
  <2>1. alarm' = [alarm EXCEPT ![k].running = FALSE] /\ UNCHANGED <<sNow, sDriftPicoSec, sClockDriftPpm, fired>>
    BY <1>2 DEF Stop
  <2>2. ASSUME NEW j \in Kinds, alarm'[j].running PROVE Near(j)' /\ (MaxDrift = 0 => Units(j, sNow)' <= alarm'[j].due)
    <3>1. j # k /\ alarm'[j] = alarm[j] /\ Units(j, sNow)' = Units(j, sNow)
      BY <2>1, <2>2 DEF Units
    <3> QED
      BY <2>1, <2>2, <3>1 DEF Near, Punctual
  <2>3. MaxDrift = 0 => Punctual'
    BY Zenon, <2>1, <2>2 DEF Punctual
  <2> QED
    BY Zenon, <2>1, <2>2, <2>3
<1>3. ASSUME NEW p \in -MaxDrift..MaxDrift, SetClockDrift(p) PROVE AlarmInv'
  <2>1. sClockDriftPpm' = p /\ UNCHANGED <<sNow, sDriftPicoSec, alarm, fired>>
    BY <1>3 DEF SetClockDrift
  <2> QED
    BY <2>1 DEF Near, Units, Punctual
<1>4. ASSUME NEW delta \in 1..MaxNow, Sleep(delta) PROVE AlarmInv'
  BY <1>4, SleepKeeps
<1>5. CASE Process
  <2>1. UNCHANGED <<sNow, sDriftPicoSec, sClockDriftPpm>>
    BY <1>5 DEF Process
  <2>2. \A k \in Kinds : Units(k, sNow) \in Int /\ Units(k, sNow)' = Units(k, sNow)
    BY <1>0, <2>1, UnitsType DEF Units
  <2>3. ASSUME NEW k \in Running, IsDue(k)
        PROVE  alarm[k].due <= Units(k, sNow) /\ (MaxDrift = 0 => alarm[k].due = Units(k, sNow))
    <3>1. k \in Kinds /\ alarm[k].running
      BY <2>3 DEF Running
    <3>2. Remaining(k) = alarm[k].due - Units(k, sNow)
      BY <3>1, RemainingExact
    <3>3. alarm[k].due \in Int /\ Units(k, sNow) \in Int
      BY <2>2, <3>1
    <3>4. alarm[k].due - Units(k, sNow) <= 0
      BY <2>3, <3>2 DEF IsDue
    <3>5. MaxDrift = 0 => Units(k, sNow) <= alarm[k].due
      BY <3>1 DEF Punctual
    <3> HIDE DEF AlarmInv
    <3> QED
      BY <3>3, <3>4, <3>5
  <2>4. alarm' \in [Kinds -> [running : BOOLEAN, at : Int, due : Int]]
    BY Zenon, <1>5 DEF Process
  <2>5. ASSUME NEW k \in Kinds
        PROVE  /\ fired'[k] \in [at : Int, due : Int] /\ fired'[k].at >= fired'[k].due
               /\ MaxDrift = 0 => fired'[k].at = fired'[k].due
    <3>1. CASE k \in Running /\ IsDue(k)
      <4>1. fired'[k] = [at |-> Units(k, sNow), due |-> alarm[k].due]
        BY <1>5, <3>1, Zenon DEF Process
      <4>2. /\ alarm[k].due <= Units(k, sNow) /\ (MaxDrift = 0 => alarm[k].due = Units(k, sNow))
            /\ Units(k, sNow) \in Int
        BY <2>2, <2>3, <3>1, Zenon
      <4>3. alarm[k].due \in Int
        OBVIOUS
      <4> HIDE DEF AlarmInv
      <4> QED
        BY <4>1, <4>2, <4>3
    <3>2. CASE ~(k \in Running /\ IsDue(k))
      <4>1. fired'[k] = fired[k]
        BY <1>5, <3>2, Zenon DEF Process
      <4> QED
        BY <4>1 DEF Punctual
    <3> QED
      BY <3>1, <3>2
  <2>6. fired' \in [Kinds -> [at : Int, due : Int]]
    <3>1. fired' = [k \in Kinds |-> fired'[k]]
      <4> HIDE DEF AlarmInv
      <4> QED
        BY <1>5 DEF Process
    <3> QED
      BY <2>5, <3>1, Zenon
  <2>7. ASSUME NEW k \in Kinds, alarm'[k].running
        PROVE  Near(k)' /\ (MaxDrift = 0 => Units(k, sNow)' <= alarm'[k].due)
    <3>1. alarm'[k] = alarm[k]
      <4>1. CASE k \in Running /\ IsDue(k)
        <5>1. alarm'[k] = [alarm[k] EXCEPT !.running = FALSE]
          BY <1>5, <4>1 DEF Process
        <5> QED
          BY <2>7, <5>1
      <4>2. CASE ~(k \in Running /\ IsDue(k))
        BY <1>5, <4>2 DEF Process
      <4> QED
        BY <4>1, <4>2
    <3> QED
      BY <2>2, <2>7, <3>1 DEF Near, Punctual
  <2>8. MaxDrift = 0 => Punctual'
    BY <2>1, <2>5, <2>7 DEF Punctual
  <2> QED
    BY <2>4, <2>5, <2>6, <2>7, <2>8
<1>6. CASE UNCHANGED vars
  BY <1>6 DEF vars, Near, Units, Punctual
<1> QED
  BY <1>1, <1>2, <1>3, <1>4, <1>5, <1>6 DEF Next

\* The alarms of a node whose clock may drift.
THEOREM AlarmInvariance == ASSUME AlarmAssumption PROVE Spec => [](ClockInv /\ AlarmInv)
<1>1. Init => ClockInv /\ AlarmInv
  BY DEF Init, ClockInv, DriftExact, AlarmInv, Punctual, AlarmAssumption
<1>2. ClockInv /\ AlarmInv /\ [Next]_vars => ClockInv' /\ AlarmInv'
  BY AlarmStep, ClockStep
<1> QED
  BY <1>1, <1>2, PTL DEF Spec

\* No alarm fires before its time, whatever the drift and however often the 32-bit times wrap.
THEOREM AlarmsNotEarly == ASSUME AlarmAssumption PROVE Spec => []NotEarly
<1>1. AlarmInv => NotEarly
  BY DEF AlarmInv, NotEarly
<1> QED
  BY <1>1, AlarmInvariance, PTL

\* Without drift an alarm is never past and fires at its time, however often the 32-bit times wrap: what
\* platformAlarmGetNext answers is enough for both alarms, for every delay below half the range.
THEOREM AlarmsOnTime == ASSUME AlarmAssumption, MaxDrift = 0 PROVE Spec => []NotLate
<1>1. AlarmInv => NotLate
  BY DEF AlarmInv, NotLate, Punctual
<1> QED
  BY <1>1, AlarmInvariance, PTL
-----------------------------------------------------------------------------
\* The energy analyser.
CONSTANTS Ids, States, ComputePeriod, Clients, MaxTime, MaxChanges
VARIABLES
    nodes, CurTime, lastEnergyVizTime, dpc, changes, networkHistory, energyHistoryByNodes, file, real,
    pc, hist, histByNodes, next, received, panicked

Analyser == INSTANCE Energy

Times == [Analyser!Counted -> Nat]
Node  == [State : States, Spent : Times, Timestamp : Nat]
OfNodes(S) == UNION {[D -> S] : D \in SUBSET Ids}
Sample == [t : Nat, spent : OfNodes(Times), real : OfNodes(Times)]

\* The types, in full.
EnergyTypes ==
    /\ DOMAIN nodes \subseteq Ids /\ nodes \in [DOMAIN nodes -> Node] /\ real \in [DOMAIN nodes -> Times]
    /\ CurTime \in Nat /\ lastEnergyVizTime \in Nat /\ lastEnergyVizTime <= CurTime
    /\ dpc \in {"idle", "byNodes", "send"} /\ panicked \in BOOLEAN
    /\ networkHistory \in Seq(Nat) /\ energyHistoryByNodes \in Seq(Sample)
    /\ pc \in [Clients -> {"none", "network", "byNodes", "history", "wait", "closed"}]
    /\ hist \in [Clients -> Seq(Nat)] /\ histByNodes \in [Clients -> Seq(Sample)]
    /\ next \in [Clients -> Nat \ {0}] /\ received \in [Clients -> SUBSET Nat]

\* What a radio spent is what was computed, and the time since in the state it is in.
SpentBy(n) ==
    /\ lastEnergyVizTime <= nodes[n].Timestamp /\ nodes[n].Timestamp <= CurTime
    /\ dpc # "idle" => nodes[n].Timestamp = CurTime
    /\ \A s \in Analyser!Counted :
         real[n][s] = nodes[n].Spent[s] + (IF s = nodes[n].State THEN CurTime - nodes[n].Timestamp ELSE 0)
SpentSoFar == \A n \in DOMAIN nodes : SpentBy(n)

\* The times of the two histories: while a sample is being stored the network's has one more.
HistoryTimes ==
    /\ Len(networkHistory) = Len(energyHistoryByNodes) + (IF dpc = "byNodes" THEN 1 ELSE 0)
    /\ \A i \in 1..Len(energyHistoryByNodes) : networkHistory[i] = energyHistoryByNodes[i].t
    /\ dpc # "idle" => networkHistory # <<>> /\ networkHistory[Len(networkHistory)] = CurTime /\ CurTime > 0
    /\ dpc = "idle" /\ networkHistory # <<>> =>
         networkHistory[Len(networkHistory)] <= lastEnergyVizTime /\ lastEnergyVizTime > 0

\* No period passes without a sample.
SampledInPeriod == dpc = "idle" => CurTime < lastEnergyVizTime + ComputePeriod

\* The samples of which clients have been told, which all are but the one being stored.
Told(i) == dpc = "send" => i < Len(energyHistoryByNodes)

\* What client c has of sample i, or will be sent when its handler goes on.
Has(c, i) == energyHistoryByNodes[i].t \in received[c]
WillHave(c, i) == i <= Len(hist[c]) /\ hist[c][i] = energyHistoryByNodes[i].t
ClientsServed ==
    \A c \in Clients :
        /\ pc[c] \in {"none", "network", "byNodes"} => next[c] = 1
        /\ \A i \in 1..Len(energyHistoryByNodes) : Told(i) =>
             /\ pc[c] = "byNodes" => Has(c, i) \/ WillHave(c, i)
             /\ pc[c] = "history" => Has(c, i) \/ (WillHave(c, i) /\ next[c] <= i /\ i <= Len(histByNodes[c]))
             /\ pc[c] = "wait" => Has(c, i)

\* The file is what SavedWithinPeriod says of it.
FileTypes == file.time \in Nat /\ \A n \in DOMAIN file.nodes : file.nodes[n] \in Node

EnergyInv ==
    /\ EnergyTypes /\ SpentSoFar /\ HistoryTimes /\ SampledInPeriod /\ (~panicked => ClientsServed)
    /\ FileTypes /\ Analyser!SamplesExact /\ Analyser!SamplesApart /\ Analyser!SavedWithinPeriod
-----------------------------------------------------------------------------
\* At first there are no nodes, samples and clients.
LEMMA EnergyInitInv == Analyser!EnergyAssumption /\ Analyser!Init => EnergyInv
<1> SUFFICES ASSUME Analyser!EnergyAssumption, Analyser!Init PROVE EnergyInv
  OBVIOUS
<1>1. DOMAIN nodes = {} /\ DOMAIN file.nodes = {}
  BY DEF Analyser!Init, Analyser!Nobody
<1>2. EnergyTypes
  <2>1. /\ hist \in [Clients -> Seq(Nat)] /\ histByNodes \in [Clients -> Seq(Sample)]
        /\ networkHistory \in Seq(Nat) /\ energyHistoryByNodes \in Seq(Sample)
    BY EmptySeq DEF Analyser!Init
  <2>2. nodes \in [DOMAIN nodes -> Node] /\ real \in [DOMAIN nodes -> Times]
    BY <1>1 DEF Analyser!Init, Analyser!Nobody
  <2>3. /\ pc \in [Clients -> {"none", "network", "byNodes", "history", "wait", "closed"}]
        /\ next \in [Clients -> Nat \ {0}] /\ received \in [Clients -> SUBSET Nat]
    BY DEF Analyser!Init
  <2>4. /\ CurTime \in Nat /\ lastEnergyVizTime \in Nat /\ lastEnergyVizTime <= CurTime
        /\ dpc \in {"idle", "byNodes", "send"} /\ DOMAIN nodes \subseteq Ids
    BY <1>1 DEF Analyser!Init
  <2>5. panicked \in BOOLEAN
    BY Zenon DEF Analyser!Init
  <2> QED
    BY <2>1, <2>2, <2>3, <2>4, <2>5, Zenon DEF EnergyTypes
<1>3. SpentSoFar /\ FileTypes /\ Analyser!SavedWithinPeriod
  BY <1>1 DEF Analyser!Init, SpentSoFar, FileTypes, Analyser!SavedWithinPeriod
<1>4. HistoryTimes /\ SampledInPeriod /\ Analyser!SamplesExact /\ Analyser!SamplesApart
  BY DEF Analyser!Init, HistoryTimes, SampledInPeriod, Analyser!SamplesExact, Analyser!SamplesApart, Analyser!EnergyAssumption
<1>5. ClientsServed
  BY DEF Analyser!Init, ClientsServed
<1> QED
  BY <1>2, <1>3, <1>4, <1>5 DEF EnergyInv

\* A new node has spent nothing yet.
LEMMA AddNodeInv ==
    ASSUME Analyser!EnergyAssumption, EnergyInv, NEW n \in Ids, Analyser!AddNode(n)
    PROVE  EnergyInv'
<1> USE DEF EnergyInv
<1> DEFINE new == [State |-> "Disabled", Spent |-> Analyser!NoTime, Timestamp |-> CurTime]
<1>1. new \in Node /\ Analyser!NoTime \in Times
  BY DEF EnergyTypes, Node, Times, Analyser!NoTime, Analyser!EnergyAssumption
<1>2. /\ DOMAIN nodes' = DOMAIN nodes \cup {n} /\ DOMAIN real' = DOMAIN nodes'
      /\ \A m \in DOMAIN nodes' : /\ nodes'[m] = IF m = n THEN new ELSE nodes[m]
                                  /\ real'[m] = IF m = n THEN Analyser!NoTime ELSE real[m]
  BY SMTT(30) DEF Analyser!AddNode, Analyser!With, EnergyTypes
<1>3. EnergyTypes'
  BY <1>1, <1>2 DEF Analyser!AddNode, Analyser!clientVars, Analyser!With, EnergyTypes
<1>4. SpentSoFar'
  <2> SUFFICES ASSUME NEW m \in DOMAIN nodes' PROVE SpentBy(m)'
    BY DEF SpentSoFar
  <2>1. CASE m = n
    <3>1. /\ nodes'[n].Spent = Analyser!NoTime /\ nodes'[n].Timestamp = CurTime /\ real'[n] = Analyser!NoTime
      BY <1>2, <2>1
    <3>2. \A s \in Analyser!Counted : Analyser!NoTime[s] = 0
      BY SMTT(30) DEF Analyser!NoTime
    <3> QED
      BY SMTT(30), <2>1, <3>1, <3>2 DEF Analyser!AddNode, EnergyTypes, SpentBy
  <2>2. CASE m # n
    BY <1>2, <2>2 DEF Analyser!AddNode, SpentSoFar, SpentBy
  <2> QED
    BY <2>1, <2>2
<1>5. HistoryTimes' /\ SampledInPeriod' /\ FileTypes' /\ Analyser!SamplesExact' /\ Analyser!SamplesApart' /\ Analyser!SavedWithinPeriod'
  BY Zenon DEF Analyser!AddNode, HistoryTimes, SampledInPeriod, FileTypes, Analyser!SamplesExact, Analyser!SamplesApart, Analyser!SavedWithinPeriod
<1>6. ~panicked' => ClientsServed'
  BY DEF Analyser!AddNode, Analyser!clientVars, ClientsServed, Told, Has, WillHave
<1> QED
  BY SMTT(30), <1>3, <1>4, <1>5, <1>6

\* With the last node both histories go.
LEMMA DeleteNodeInv ==
    ASSUME Analyser!EnergyAssumption, EnergyInv, NEW n \in Ids, Analyser!DeleteNode(n)
    PROVE  EnergyInv'
<1> USE DEF EnergyInv
<1>1. /\ DOMAIN nodes' = DOMAIN nodes \ {n} /\ DOMAIN real' = DOMAIN nodes'
      /\ \A m \in DOMAIN nodes' : nodes'[m] = nodes[m] /\ real'[m] = real[m]
  BY DEF Analyser!DeleteNode, Analyser!Without, EnergyTypes
<1>2. \/ networkHistory' = <<>> /\ energyHistoryByNodes' = <<>>
      \/ networkHistory' = networkHistory /\ energyHistoryByNodes' = energyHistoryByNodes
  BY DEF Analyser!DeleteNode
<1>3. EnergyTypes'
  BY SMTT(30), <1>1, <1>2 DEF Analyser!DeleteNode, Analyser!clientVars, Analyser!Without, EnergyTypes
<1>4. SpentSoFar'
  BY <1>1 DEF Analyser!DeleteNode, EnergyTypes, SpentSoFar, SpentBy
<1>5. SampledInPeriod' /\ FileTypes' /\ Analyser!SavedWithinPeriod'
  BY SMTT(30) DEF Analyser!DeleteNode, SampledInPeriod, FileTypes, Analyser!SavedWithinPeriod
<1>6. HistoryTimes' /\ Analyser!SamplesExact' /\ Analyser!SamplesApart'
  BY SMTT(30), <1>2 DEF Analyser!DeleteNode, Analyser!Idle, HistoryTimes, Analyser!SamplesExact, Analyser!SamplesApart
<1>7. ~panicked' => ClientsServed'
  BY SMTT(30), <1>2 DEF Analyser!DeleteNode, Analyser!clientVars, ClientsServed, Told, Has, WillHave
<1> QED
  BY SMTT(30), <1>3, <1>4, <1>5, <1>6, <1>7

\* ComputeRadioState counts the time since the last computation for the state.
LEMMA Computed ==
    ASSUME NEW o \in Node, NEW t \in Nat, o.Timestamp <= t
    PROVE  /\ Analyser!ComputeRadioState(o, t) \in Node /\ Analyser!ComputeRadioState(o, t).Timestamp = t
           /\ Analyser!ComputeRadioState(o, t).State = o.State
           /\ \A s \in Analyser!Counted : Analyser!ComputeRadioState(o, t).Spent[s] =
                                   o.Spent[s] + (IF s = o.State THEN t - o.Timestamp ELSE 0)
<1> DEFINE spent == [s \in Analyser!Counted |-> o.Spent[s] + (IF s = o.State THEN t - o.Timestamp ELSE 0)]
<1>1. t - o.Timestamp \in Nat
  BY DEF Node
<1>2. spent \in Times
  BY <1>1 DEF Node, Times
<1>3. Analyser!ComputeRadioState(o, t) = [State |-> o.State, Spent |-> spent, Timestamp |-> t]
  <2>1. Analyser!ComputeRadioState(o, t) = [o EXCEPT !.Spent = spent, !.Timestamp = t]
    BY DEF Analyser!ComputeRadioState
  <2> HIDE DEF spent
  <2> QED
    BY Zenon, <2>1 DEF Node
<1>4. \A s \in Analyser!Counted : spent[s] = o.Spent[s] + (IF s = o.State THEN t - o.Timestamp ELSE 0)
  OBVIOUS
<1> HIDE DEF spent
<1> QED
  BY <1>2, <1>3, <1>4 DEF Node

\* What was spent until now is counted for the old state, and nothing yet for the new one.
LEMMA SetRadioStateInv ==
    ASSUME Analyser!EnergyAssumption, EnergyInv, NEW n \in DOMAIN nodes, NEW s \in States, Analyser!SetRadioState(n, s)
    PROVE  EnergyInv'
<1> USE DEF EnergyInv
<1> DEFINE computed == Analyser!ComputeRadioState(nodes[n], CurTime)
<1>1. /\ nodes[n] \in Node /\ real[n] \in Times /\ CurTime - nodes[n].Timestamp \in Nat
  BY SMTT(30) DEF EnergyTypes, SpentSoFar, SpentBy, Node
<1>2. /\ computed \in Node /\ computed.Timestamp = CurTime
      /\ \A k \in Analyser!Counted : computed.Spent[k] = real[n][k]
  <2>1. SpentBy(n) /\ CurTime \in Nat
    BY DEF SpentSoFar, EnergyTypes
  <2> QED
    BY <1>1, <2>1, Computed DEF SpentBy
<1> DEFINE new == [computed EXCEPT !.State = s]
<1>4. new \in Node /\ new.Spent = computed.Spent /\ new.Timestamp = CurTime
  BY <1>2 DEF Node
<1>5. nodes' = [nodes EXCEPT ![n] = new]
  BY DEF Analyser!SetRadioState
<1> HIDE DEF new, computed
<1>6. EnergyTypes'
  BY ZenonT(60), <1>4, <1>5 DEF Analyser!SetRadioState, Analyser!clientVars, EnergyTypes
<1>7. SpentSoFar'
  <2> SUFFICES ASSUME NEW m \in DOMAIN nodes PROVE SpentBy(m)'
    BY <1>5 DEF SpentSoFar
  <2>1. CASE m = n
    <3>1. nodes'[m] = new
      BY <1>5, <2>1
    <3>2. /\ real' = real /\ CurTime' = CurTime /\ lastEnergyVizTime' = lastEnergyVizTime
          /\ CurTime \in Nat /\ lastEnergyVizTime \in Nat /\ lastEnergyVizTime <= CurTime
      BY SMTT(30) DEF Analyser!SetRadioState, EnergyTypes
    <3>3. \A k \in Analyser!Counted : nodes'[m].Spent[k] = real[m][k] /\ real[m][k] \in Nat
      BY <1>1, <1>2, <1>4, <2>1, <3>1 DEF Times
    <3> QED
      BY <1>4, <3>1, <3>2, <3>3 DEF SpentBy
  <2>2. CASE m # n
    BY <1>5, <2>2 DEF Analyser!SetRadioState, SpentSoFar, SpentBy
  <2> QED
    BY <2>1, <2>2
<1>8. HistoryTimes' /\ SampledInPeriod' /\ FileTypes' /\ Analyser!SamplesExact' /\ Analyser!SamplesApart' /\ Analyser!SavedWithinPeriod'
  BY DEF Analyser!SetRadioState, HistoryTimes, SampledInPeriod, FileTypes, Analyser!SamplesExact, Analyser!SamplesApart, Analyser!SavedWithinPeriod
<1>9. ~panicked' => ClientsServed'
  BY DEF Analyser!SetRadioState, Analyser!clientVars, ClientsServed, Told, Has, WillHave
<1> QED
  BY SMTT(30), <1>6, <1>7, <1>8, <1>9

\* Time advances; if a sample is due what was spent is computed first.
LEMMA AdvanceTimeInv ==
    ASSUME Analyser!EnergyAssumption, EnergyInv, NEW t \in 1..MaxTime, Analyser!AdvanceTime(t)
    PROVE  EnergyInv'
<1> USE DEF EnergyInv
<1>1. /\ t \in Nat /\ t > 0 /\ CurTime < t /\ CurTime' = t /\ dpc = "idle"
      /\ CurTime \in Nat /\ lastEnergyVizTime \in Nat /\ lastEnergyVizTime' = lastEnergyVizTime
      /\ lastEnergyVizTime <= CurTime /\ ComputePeriod \in Nat \ {0}
  BY SMTT(30) DEF Analyser!AdvanceTime, Analyser!Idle, Analyser!EnergyAssumption, EnergyTypes
<1>2. \A n \in DOMAIN nodes : /\ nodes[n] \in Node /\ real[n] \in Times /\ nodes[n].Timestamp <= CurTime
                              /\ lastEnergyVizTime <= nodes[n].Timestamp /\ nodes[n].Timestamp \in Nat
  BY DEF EnergyTypes, SpentSoFar, SpentBy, Node
<1>3. /\ real' \in [DOMAIN nodes -> Times]
      /\ \A n \in DOMAIN nodes, s \in Analyser!Counted :
           real'[n][s] = real[n][s] + (IF s = nodes[n].State THEN t - CurTime ELSE 0)
  <2>1. t - CurTime \in Nat
    BY <1>1
  <2>2. real' = [n \in DOMAIN nodes |-> [s \in Analyser!Counted |-> real[n][s] + (IF s = nodes[n].State THEN t - CurTime ELSE 0)]]
    BY DEF Analyser!AdvanceTime, EnergyTypes
  <2>3. \A n \in DOMAIN nodes : [s \in Analyser!Counted |-> real[n][s] + (IF s = nodes[n].State THEN t - CurTime ELSE 0)] \in Times
    BY SMTT(30), <1>2, <2>1 DEF Times
  <2> QED
    BY Zenon, <2>2, <2>3
<1>4. FileTypes' /\ Analyser!SamplesExact' /\ Analyser!SavedWithinPeriod'
  BY SMTT(30) DEF Analyser!AdvanceTime, FileTypes, Analyser!SamplesExact, Analyser!SavedWithinPeriod
<1>5. ASSUME dpc' # "send" PROVE ~panicked' => ClientsServed'
  BY SMTT(30), <1>1, <1>5 DEF Analyser!AdvanceTime, Analyser!clientVars, ClientsServed, Told, Has, WillHave
<1>6. CASE Analyser!SampleDue(t)
  <2>1. /\ dpc' = "byNodes" /\ networkHistory' = Append(networkHistory, t)
        /\ nodes' = [n \in DOMAIN nodes |-> Analyser!ComputeRadioState(nodes[n], t)]
        /\ energyHistoryByNodes' = energyHistoryByNodes
    BY SMTT(30), <1>6 DEF Analyser!AdvanceTime
  <2>2. \A n \in DOMAIN nodes : /\ nodes'[n] \in Node /\ nodes'[n].Timestamp = t /\ nodes'[n].State = nodes[n].State
                                /\ \A s \in Analyser!Counted : nodes'[n].Spent[s] =
                                     nodes[n].Spent[s] + (IF s = nodes[n].State THEN t - nodes[n].Timestamp ELSE 0)
    <3> TAKE n \in DOMAIN nodes
    <3>1. nodes'[n] = Analyser!ComputeRadioState(nodes[n], t) /\ nodes[n].Timestamp <= t
      BY SMTT(30), <1>1, <1>2, <2>1
    <3> QED
      BY SMTT(30), <1>1, <1>2, <3>1, Computed
  <2>3. DOMAIN nodes' = DOMAIN nodes /\ nodes' \in [DOMAIN nodes -> Node]
    BY <2>1, <2>2
  <2>4. networkHistory' \in Seq(Nat) /\ Len(networkHistory') = Len(networkHistory) + 1
        /\ networkHistory'[Len(networkHistory) + 1] = t
        /\ \A i \in 1..Len(networkHistory) : networkHistory'[i] = networkHistory[i]
    BY SMTT(30), <1>1, <2>1 DEF EnergyTypes
  <2>5. EnergyTypes'
    BY SMTT(30), <1>1, <1>3, <2>1, <2>3, <2>4 DEF Analyser!AdvanceTime, Analyser!clientVars, EnergyTypes
  <2>6. SpentSoFar'
    <3> SUFFICES ASSUME NEW n \in DOMAIN nodes PROVE SpentBy(n)'
      BY SMTT(30), <2>3 DEF SpentSoFar
    <3>1. \A s \in Analyser!Counted : real[n][s] \in Nat /\ nodes[n].Spent[s] \in Nat
      BY <1>2 DEF Times, Node
    <3>2. \A s \in Analyser!Counted :
            real[n][s] = nodes[n].Spent[s] + (IF s = nodes[n].State THEN CurTime - nodes[n].Timestamp ELSE 0)
      BY SMTT(30) DEF SpentSoFar, SpentBy
    <3>3. \A s \in Analyser!Counted : real'[n][s] = nodes'[n].Spent[s]
      BY SMTT(30), <1>1, <1>2, <1>3, <2>2, <3>1, <3>2
    <3>4. \A s \in Analyser!Counted : nodes'[n].Spent[s] \in Nat
      BY SMTT(30), <2>2 DEF Node, Times
    <3> QED
      BY <1>1, <2>2, <3>3, <3>4 DEF SpentBy
  <2>7. HistoryTimes'
    BY SMTT(30), <1>1, <2>1, <2>4 DEF HistoryTimes, EnergyTypes
  <2>8. Analyser!SamplesApart'
    <3> SUFFICES ASSUME NEW i \in 2..(Len(networkHistory) + 1)
                 PROVE  networkHistory'[i] >= networkHistory'[i - 1] + ComputePeriod
      BY <2>4 DEF Analyser!SamplesApart
    <3>0. Len(networkHistory) \in Nat
      BY DEF EnergyTypes
    <3>1. CASE i <= Len(networkHistory)
      <4>1. i \in 2..Len(networkHistory) /\ i \in 1..Len(networkHistory) /\ i - 1 \in 1..Len(networkHistory)
        BY <3>0, <3>1
      <4>2. networkHistory'[i] = networkHistory[i] /\ networkHistory'[i - 1] = networkHistory[i - 1]
        BY Zenon, <2>4, <4>1
      <4> QED
        BY <4>1, <4>2 DEF Analyser!SamplesApart
    <3>2. CASE i = Len(networkHistory) + 1
      <4>0. i - 1 = Len(networkHistory) /\ Len(networkHistory) \in 1..Len(networkHistory)
        BY <3>0, <3>2
      <4>1. /\ networkHistory'[i] = t /\ networkHistory'[i - 1] = networkHistory[Len(networkHistory)]
        BY SMTT(30), <2>4, <3>2, <4>0
      <4>2. networkHistory[Len(networkHistory)] <= lastEnergyVizTime /\ lastEnergyVizTime > 0
        <5>1. networkHistory # <<>>
          BY <4>0
        <5> QED
          BY <1>1, <5>1 DEF HistoryTimes
      <4>3. t >= lastEnergyVizTime + ComputePeriod
        BY SMTT(30), <1>1, <1>6, <4>2 DEF Analyser!SampleDue
      <4>4. networkHistory[Len(networkHistory)] \in Nat
        BY SMTT(30), <4>0, ElementOfSeq DEF EnergyTypes
      <4> QED
        BY <1>1, <4>1, <4>2, <4>3, <4>4
    <3> QED
      BY <3>0, <3>1, <3>2
  <2>9. SampledInPeriod'
    BY <2>1 DEF SampledInPeriod
  <2> QED
    BY SMTT(30), <1>4, <1>5, <2>1, <2>5, <2>6, <2>7, <2>8, <2>9
<1>7. CASE ~Analyser!SampleDue(t)
  <2>1. dpc' = dpc /\ nodes' = nodes /\ networkHistory' = networkHistory /\ energyHistoryByNodes' = energyHistoryByNodes
    BY SMTT(30), <1>7 DEF Analyser!AdvanceTime
  <2>2. EnergyTypes'
    BY SMTT(30), <1>1, <1>3, <2>1 DEF Analyser!AdvanceTime, Analyser!clientVars, EnergyTypes
  <2>3. SpentSoFar'
    <3> SUFFICES ASSUME NEW n \in DOMAIN nodes PROVE SpentBy(n)'
      BY SMTT(30), <2>1 DEF SpentSoFar
    <3>1. \A s \in Analyser!Counted : real[n][s] \in Nat /\ nodes[n].Spent[s] \in Nat
      BY <1>2 DEF Times, Node
    <3>2. \A s \in Analyser!Counted :
            real[n][s] = nodes[n].Spent[s] + (IF s = nodes[n].State THEN CurTime - nodes[n].Timestamp ELSE 0)
      BY DEF SpentSoFar, SpentBy
    <3>3. \A s \in Analyser!Counted :
            real'[n][s] = nodes[n].Spent[s] + (IF s = nodes[n].State THEN t - nodes[n].Timestamp ELSE 0)
      BY SMTT(30), <1>1, <1>2, <1>3, <3>1, <3>2
    <3> QED
      BY <1>1, <1>2, <2>1, <3>3 DEF SpentBy
  <2>4. HistoryTimes' /\ Analyser!SamplesApart'
    BY <1>1, <2>1 DEF HistoryTimes, Analyser!SamplesApart
  <2>5. SampledInPeriod'
    BY <1>1, <1>7 DEF SampledInPeriod, Analyser!SampleDue
  <2> QED
    BY SMTT(30), <1>1, <1>4, <1>5, <2>1, <2>2, <2>3, <2>4, <2>5
<1> QED
  BY <1>6, <1>7

\* The sample of the nodes is stored, with what each spent at this time.
LEMMA StoreNetworkEnergyInv ==
    ASSUME Analyser!EnergyAssumption, EnergyInv, Analyser!StoreNetworkEnergy
    PROVE  EnergyInv'
<1> USE DEF EnergyInv
<1> DEFINE spent == [n \in DOMAIN nodes |-> nodes[n].Spent]
           e == [t |-> CurTime, spent |-> spent, real |-> real]
<1>1. /\ dpc = "byNodes" /\ dpc' = "send" /\ energyHistoryByNodes' = Append(energyHistoryByNodes, e)
      /\ UNCHANGED <<nodes, networkHistory, real, CurTime, lastEnergyVizTime, file, received, panicked>>
      /\ UNCHANGED <<pc, hist, histByNodes, next>>
  BY SMTT(30) DEF Analyser!StoreNetworkEnergy, Analyser!clientVars
<1>2. \A n \in DOMAIN nodes : nodes[n].Spent \in Times /\ real[n] \in Times /\ nodes[n].Spent = real[n]
  <2> TAKE n \in DOMAIN nodes
  <2>1. nodes[n].Spent \in Times /\ real[n] \in Times
    BY SMTT(30) DEF EnergyTypes, Node
  <2>2. \A s \in Analyser!Counted : real[n][s] = nodes[n].Spent[s]
    <3>1. nodes[n].Timestamp = CurTime /\ CurTime \in Nat
      BY SMTT(30), <1>1 DEF SpentSoFar, SpentBy, EnergyTypes
    <3>2. \A s \in Analyser!Counted : nodes[n].Spent[s] \in Nat
      BY <2>1 DEF Times
    <3> QED
      BY SMTT(30), <3>1, <3>2 DEF SpentSoFar, SpentBy
  <2> QED
    BY SMTT(30), <2>1, <2>2 DEF Times
<1>3. spent = real
  BY <1>2 DEF EnergyTypes
<1>4. e \in Sample
  <2>1. real \in OfNodes(Times)
    BY SMTT(30) DEF EnergyTypes, OfNodes
  <2> QED
    BY Zenon, <1>3, <2>1 DEF EnergyTypes, Sample
<1>5. e.t = CurTime /\ e.spent = e.real
  BY <1>3
<1> HIDE DEF e
<1>6. /\ energyHistoryByNodes' \in Seq(Sample) /\ Len(energyHistoryByNodes') = Len(energyHistoryByNodes) + 1
      /\ energyHistoryByNodes'[Len(energyHistoryByNodes) + 1] = e /\ Len(energyHistoryByNodes) \in Nat
      /\ \A i \in 1..Len(energyHistoryByNodes) : energyHistoryByNodes'[i] = energyHistoryByNodes[i]
  BY SMTT(30), <1>1, <1>4 DEF EnergyTypes
<1>7. EnergyTypes'
  BY SMTT(30), <1>1, <1>6 DEF EnergyTypes
<1>8. SpentSoFar'
  BY SMTT(30), <1>1 DEF SpentSoFar, SpentBy
<1>9. HistoryTimes'
  BY SMTT(30), <1>1, <1>5, <1>6 DEF HistoryTimes, EnergyTypes
<1>10. Analyser!SamplesExact'
  BY SMTT(30), <1>5, <1>6 DEF Analyser!SamplesExact
<1>11. SampledInPeriod' /\ FileTypes' /\ Analyser!SamplesApart' /\ Analyser!SavedWithinPeriod'
  <2>1. SampledInPeriod'
    BY SMTT(30), <1>1 DEF SampledInPeriod
  <2>2. FileTypes' /\ Analyser!SavedWithinPeriod'
    BY <1>1 DEF FileTypes, Analyser!SavedWithinPeriod
  <2>3. Analyser!SamplesApart'
    BY SMTT(30), <1>1 DEF Analyser!SamplesApart
  <2> QED
    BY <2>1, <2>2, <2>3
<1>12. ~panicked' => ClientsServed'
  BY <1>1, <1>6 DEF ClientsServed, Told, Has, WillHave
<1> QED
  BY SMTT(30), <1>7, <1>8, <1>9, <1>10, <1>11, <1>12

\* The sample is sent to the streams that are registered.
LEMMA UpdateNodesEnergyInv ==
    ASSUME Analyser!EnergyAssumption, EnergyInv, Analyser!UpdateNodesEnergy
    PROVE  EnergyInv'
<1> USE DEF EnergyInv
<1> DEFINE last == Len(energyHistoryByNodes)
<1>1. /\ dpc = "send" /\ dpc' = "idle" /\ lastEnergyVizTime' = CurTime /\ ~panicked
      /\ UNCHANGED <<nodes, networkHistory, energyHistoryByNodes, real, CurTime, file, panicked>>
      /\ UNCHANGED <<pc, hist, histByNodes, next>>
  BY DEF Analyser!UpdateNodesEnergy, Analyser!clientVars, Analyser!analyserVars
<1>2. last \in Nat /\ last \in 1..last /\ energyHistoryByNodes[last].t = CurTime /\ last = Len(networkHistory)
  <2>1. last = Len(networkHistory) /\ networkHistory # <<>> /\ networkHistory[last] = CurTime
    BY <1>1 DEF HistoryTimes, EnergyTypes
  <2>2. last \in 1..last
    BY SMTT(30), <2>1, EmptySeq DEF EnergyTypes
  <2> QED
    BY <2>1, <2>2 DEF HistoryTimes, EnergyTypes
<1>3. \A c \in Clients : received'[c] = received[c] \cup (IF Analyser!Registered(c) THEN {CurTime} ELSE {})
  BY <1>2 DEF Analyser!UpdateNodesEnergy, Analyser!SendEnergyEvent
<1>4. received' \in [Clients -> SUBSET Nat]
  BY SMTT(30), <1>2 DEF Analyser!UpdateNodesEnergy, Analyser!SendEnergyEvent, EnergyTypes
<1>5. EnergyTypes'
  BY SMTT(30), <1>1, <1>4 DEF EnergyTypes
<1>6. SpentSoFar'
  BY SMTT(30), <1>1 DEF SpentSoFar, SpentBy, EnergyTypes
<1>7. HistoryTimes'
  BY <1>1 DEF HistoryTimes, EnergyTypes
<1>8. SampledInPeriod'
  BY SMTT(30), <1>1 DEF SampledInPeriod, Analyser!EnergyAssumption, EnergyTypes
<1>9. FileTypes' /\ Analyser!SamplesExact' /\ Analyser!SamplesApart' /\ Analyser!SavedWithinPeriod'
  BY SMTT(30), <1>1 DEF FileTypes, Analyser!SamplesExact, Analyser!SamplesApart, Analyser!SavedWithinPeriod
<1>10. ClientsServed'
  <2> SUFFICES ASSUME NEW c \in Clients, NEW i \in 1..last
               PROVE  /\ pc[c] = "byNodes" => Has(c, i)' \/ WillHave(c, i)'
                      /\ pc[c] = "history" => Has(c, i)' \/ (WillHave(c, i)' /\ next[c] <= i /\ i <= Len(histByNodes[c]))
                      /\ pc[c] = "wait" => Has(c, i)'
    BY Zenon, <1>1 DEF ClientsServed
  <2>1. CASE i = last
    BY SMTT(30), <1>1, <1>2, <1>3, <2>1 DEF Has, Analyser!Registered
  <2>2. CASE i # last
    <3>1. Told(i)
      BY <1>2, <2>2 DEF Told
    <3> QED
      BY <1>1, <1>3, <3>1 DEF ClientsServed, Has, WillHave
  <2> QED
    BY SMTT(30), <2>1, <2>2
<1> QED
  BY SMTT(30), <1>5, <1>6, <1>7, <1>8, <1>9, <1>10

\* The file is saved less than a period after what each node spent was computed.
LEMMA SaveInv ==
    ASSUME Analyser!EnergyAssumption, EnergyInv, Analyser!SaveEnergyDataToFile
    PROVE  EnergyInv'
<1> USE DEF EnergyInv
<1>1. /\ dpc = "idle" /\ file' = [time |-> CurTime, lastViz |-> lastEnergyVizTime, nodes |-> nodes, real |-> real]
      /\ UNCHANGED <<nodes, networkHistory, energyHistoryByNodes, real, CurTime, lastEnergyVizTime, dpc, received, panicked>>
      /\ UNCHANGED <<pc, hist, histByNodes, next>>
  BY SMTT(30) DEF Analyser!SaveEnergyDataToFile, Analyser!Idle, Analyser!clientVars, Analyser!analyserVars
<1>2. EnergyTypes' /\ SpentSoFar' /\ HistoryTimes' /\ SampledInPeriod' /\ Analyser!SamplesExact' /\ Analyser!SamplesApart'
  BY SMTT(30), <1>1 DEF EnergyTypes, SpentSoFar, SpentBy, HistoryTimes, SampledInPeriod, Analyser!SamplesExact, Analyser!SamplesApart
<1>3. FileTypes'
  BY SMTT(30), <1>1 DEF FileTypes, EnergyTypes
<1>4. Analyser!SavedWithinPeriod'
  <2> SUFFICES ASSUME NEW n \in DOMAIN nodes PROVE CurTime < nodes[n].Timestamp + ComputePeriod
    BY SMTT(30), <1>1 DEF Analyser!SavedWithinPeriod
  <2>1. nodes[n].Timestamp \in Nat /\ lastEnergyVizTime <= nodes[n].Timestamp
    BY SMTT(30) DEF SpentSoFar, SpentBy, EnergyTypes, Node
  <2> QED
    BY SMTT(30), <1>1, <2>1 DEF SampledInPeriod, EnergyTypes, Analyser!EnergyAssumption
<1>5. ~panicked' => ClientsServed'
  BY SMTT(30), <1>1 DEF ClientsServed, Told, Has, WillHave
<1> QED
  BY SMTT(30), <1>2, <1>3, <1>4, <1>5

\* What the handlers of clients leave alone.
LEMMA HandlerKeeps ==
    ASSUME EnergyInv, UNCHANGED <<Analyser!analyserVars, CurTime, lastEnergyVizTime, dpc, file>>
    PROVE  /\ SpentSoFar' /\ HistoryTimes' /\ SampledInPeriod' /\ FileTypes' /\ Analyser!SamplesExact' /\ Analyser!SamplesApart'
           /\ Analyser!SavedWithinPeriod'
BY DEF EnergyInv, Analyser!analyserVars, SpentSoFar, SpentBy, HistoryTimes, SampledInPeriod, FileTypes, Analyser!SamplesExact,
       Analyser!SamplesApart, Analyser!SavedWithinPeriod

\* A stream is registered before its handler reads the history, which is read before it is sent.
LEMMA HandlerInv ==
    ASSUME Analyser!EnergyAssumption, EnergyInv, NEW c \in Clients, Analyser!Handler(c)
    PROVE  EnergyInv'
<1> USE DEF EnergyInv
<1>0. /\ UNCHANGED <<nodes, networkHistory, energyHistoryByNodes, real, CurTime, lastEnergyVizTime, dpc, file>>
      /\ ~panicked
  BY SMTT(30) DEF Analyser!Handler, Analyser!Register, Analyser!GetNetworkEnergyHistory, Analyser!GetEnergyHistoryByNodes, Analyser!SendHistory, Analyser!HistorySent,
         Analyser!DisposeEnergyStream, Analyser!analyserVars
<1> SUFFICES EnergyTypes' /\ (~panicked' => ClientsServed')
  BY <1>0, HandlerKeeps DEF Analyser!analyserVars
<1>1. CASE Analyser!Register(c)
  <2>1. EnergyTypes'
    BY SMTT(30), <1>0, <1>1 DEF Analyser!Register, EnergyTypes
  <2>2. ClientsServed'
    BY SMTT(30), <1>0, <1>1 DEF Analyser!Register, EnergyTypes, ClientsServed, Told, Has, WillHave
  <2> QED
    BY SMTT(30), <2>1, <2>2
<1>2. CASE Analyser!GetNetworkEnergyHistory(c)
  <2>1. EnergyTypes'
    BY SMTT(30), <1>0, <1>2 DEF Analyser!GetNetworkEnergyHistory, EnergyTypes
  <2>2. \A i \in 1..Len(energyHistoryByNodes) : WillHave(c, i)'
    BY SMTT(30), <1>0, <1>2 DEF Analyser!GetNetworkEnergyHistory, EnergyTypes, HistoryTimes, WillHave
  <2>3. ClientsServed'
    BY SMTT(30), <1>0, <1>2, <2>2 DEF Analyser!GetNetworkEnergyHistory, EnergyTypes, ClientsServed, Told, Has, WillHave
  <2> QED
    BY <2>1, <2>3
<1>3. CASE Analyser!GetEnergyHistoryByNodes(c)
  <2>1. EnergyTypes'
    BY SMTT(30), <1>0, <1>3 DEF Analyser!GetEnergyHistoryByNodes, EnergyTypes
  <2>2. next[c] = 1 /\ Len(histByNodes'[c]) = Len(energyHistoryByNodes)
    BY SMTT(30), <1>0, <1>3 DEF Analyser!GetEnergyHistoryByNodes, EnergyTypes, ClientsServed
  <2>3. ClientsServed'
    BY SMTT(30), <1>0, <1>3, <2>2 DEF Analyser!GetEnergyHistoryByNodes, EnergyTypes, ClientsServed, Told, Has, WillHave
  <2> QED
    BY <2>1, <2>3
<1>4. CASE Analyser!SendHistory(c)
  <2>1. /\ pc[c] = "history" /\ next[c] \in Nat \ {0} /\ next' = [next EXCEPT ![c] = next[c] + 1]
        /\ UNCHANGED <<pc, hist, histByNodes>> /\ panicked' = (next[c] > Len(hist[c]))
    BY <1>4 DEF Analyser!SendHistory, EnergyTypes
  <2>2. panicked' \in BOOLEAN
    BY SMTT(30), <2>1
  <2>3. next' \in [Clients -> Nat \ {0}]
    BY SMTT(30), <2>1 DEF EnergyTypes
  <2>4. CASE panicked'
    <3>1. received' = received
      BY Zenon, <1>4, <2>4 DEF Analyser!SendHistory
    <3> QED
      BY SMTT(30), <1>0, <2>1, <2>2, <2>3, <2>4, <3>1 DEF EnergyTypes
  <2>5. CASE ~panicked'
    <3> DEFINE t == hist[c][next[c]]
    <3>1. next[c] \in 1..Len(hist[c]) /\ t \in Nat
      <4>1. ~(next[c] > Len(hist[c]))
        BY <2>1, <2>5, Zenon
      <4>2. hist[c] \in Seq(Nat)
        BY DEF EnergyTypes
      <4>3. next[c] \in 1..Len(hist[c])
        BY SMTT(30), <2>1, <4>1, <4>2
      <4> QED
        BY <4>2, <4>3, ElementOfSeq
    <3>2. received' = [k \in Clients |-> received[k] \cup (IF Analyser!Registered(k) THEN {t} ELSE {})]
      BY Zenon, <1>4, <2>5 DEF Analyser!SendHistory, Analyser!SendEnergyEvent
    <3> HIDE DEF t
    <3>3. \A k \in Clients : received[k] \subseteq received'[k] /\ received'[k] \subseteq Nat
      BY SMTT(30), <3>1, <3>2 DEF EnergyTypes
    <3>4. t \in received'[c]
      BY SMTT(30), <2>1, <3>2 DEF Analyser!Registered
    <3>5. EnergyTypes'
      <4>1. received' \in [Clients -> SUBSET Nat]
        <5> DEFINE got(k) == received[k] \cup (IF Analyser!Registered(k) THEN {t} ELSE {})
        <5>1. ASSUME NEW k \in Clients PROVE got(k) \in SUBSET Nat
          BY <3>1 DEF EnergyTypes
        <5> HIDE DEF got
        <5>2. received' = [k \in Clients |-> got(k)]
          BY Zenon, <3>2 DEF got
        <5> QED
          BY Zenon, <5>1, <5>2
      <4> QED
        BY SMTT(30), <1>0, <2>1, <2>2, <2>3, <4>1 DEF EnergyTypes
    <3>6. \A k \in Clients, i \in 1..Len(energyHistoryByNodes) :
            /\ Has(k, i) => Has(k, i)'
            /\ WillHave(k, i)' <=> WillHave(k, i)
            /\ Told(i)' <=> Told(i)
      BY ZenonT(60), <1>0, <2>1, <3>3 DEF Has, WillHave, Told
    <3>7. \A i \in 1..Len(energyHistoryByNodes) : WillHave(c, i) /\ next[c] <= i => Has(c, i)' \/ next'[c] <= i
      <4> SUFFICES ASSUME NEW i \in 1..Len(energyHistoryByNodes), WillHave(c, i), next[c] <= i, ~(next'[c] <= i)
                   PROVE  Has(c, i)'
        BY SMTT(30)
      <4>1. i = next[c]
        BY SMTT(30), <2>1 DEF EnergyTypes
      <4> QED
        BY ZenonT(60), <1>0, <3>4, <4>1 DEF Has, WillHave, t
    <3>8. ClientsServed'
      <4> SUFFICES ASSUME NEW k \in Clients
                   PROVE /\ pc[k] \in {"none", "network", "byNodes"} => next'[k] = 1
                         /\ \A i \in 1..Len(energyHistoryByNodes) : Told(i) =>
                              /\ pc[k] = "byNodes" => Has(k, i)' \/ WillHave(k, i)
                              /\ pc[k] = "history" => Has(k, i)' \/ (WillHave(k, i) /\ next'[k] <= i /\ i <= Len(histByNodes[k]))
                              /\ pc[k] = "wait" => Has(k, i)'
        BY SMTT(30), <1>0, <2>1, <3>6 DEF ClientsServed
      <4>1. CASE k = c
        BY SMTT(30), <1>0, <2>1, <3>6, <3>7, <4>1 DEF ClientsServed
      <4>2. CASE k # c
        <5>1. next'[k] = next[k]
          BY SMTT(30), <2>1, <4>2 DEF EnergyTypes
        <5> QED
          BY SMTT(30), <1>0, <3>6, <5>1 DEF ClientsServed
      <4> QED
        BY ZenonT(60), <4>1, <4>2
    <3> QED
      BY <3>5, <3>8
  <2> QED
    BY SMTT(30), <2>4, <2>5
<1>5. CASE Analyser!HistorySent(c)
  <2>1. EnergyTypes'
    BY SMTT(30), <1>0, <1>5, EmptySeq DEF Analyser!HistorySent, EnergyTypes
  <2>2. \A i \in 1..Len(energyHistoryByNodes) : Told(i) => Has(c, i)
    BY SMTT(30), <1>0, <1>5 DEF Analyser!HistorySent, ClientsServed, EnergyTypes
  <2>3. ClientsServed'
    BY SMTT(30), <1>0, <1>5, <2>2 DEF Analyser!HistorySent, EnergyTypes, ClientsServed, Told, Has, WillHave
  <2> QED
    BY <2>1, <2>3
<1>6. CASE Analyser!DisposeEnergyStream(c)
  <2>1. EnergyTypes'
    BY SMTT(30), <1>0, <1>6 DEF Analyser!DisposeEnergyStream, EnergyTypes
  <2>2. ClientsServed'
    BY <1>0, <1>6 DEF Analyser!DisposeEnergyStream, EnergyTypes, ClientsServed, Told, Has, WillHave
  <2> QED
    BY <2>1, <2>2
<1> QED
  BY SMTT(30), <1>1, <1>2, <1>3, <1>4, <1>5, <1>6 DEF Analyser!Handler

\* The invariant holds in every state.
THEOREM EnergyInvariance == Analyser!EnergyAssumption => (Analyser!Spec => []EnergyInv)
<1> SUFFICES ASSUME Analyser!EnergyAssumption PROVE Analyser!Spec => []EnergyInv
  OBVIOUS
<1>1. Analyser!Init => EnergyInv
  BY EnergyInitInv
<1>2. EnergyInv /\ [Analyser!Next]_(Analyser!vars) => EnergyInv'
  <2> SUFFICES ASSUME EnergyInv, [Analyser!Next]_(Analyser!vars) PROVE EnergyInv'
    OBVIOUS
  <2>1. CASE \E n \in Ids : Analyser!AddNode(n) \/ Analyser!DeleteNode(n)
    BY <2>1, AddNodeInv, DeleteNodeInv
  <2>2. CASE \E n \in DOMAIN nodes, s \in States : Analyser!SetRadioState(n, s)
    BY <2>2, SetRadioStateInv
  <2>3. CASE \E t \in 1..MaxTime : Analyser!AdvanceTime(t)
    BY <2>3, AdvanceTimeInv
  <2>4. CASE Analyser!StoreNetworkEnergy \/ Analyser!UpdateNodesEnergy \/ Analyser!SaveEnergyDataToFile
    BY <2>4, StoreNetworkEnergyInv, UpdateNodesEnergyInv, SaveInv
  <2>5. CASE \E c \in Clients : Analyser!Handler(c)
    BY SMTT(30), <2>5, HandlerInv
  <2>6. CASE UNCHANGED Analyser!vars
    <3>1. EnergyTypes' /\ (~panicked' => ClientsServed')
      BY <2>6 DEF Analyser!vars, Analyser!analyserVars, Analyser!clientVars, EnergyInv, EnergyTypes, ClientsServed, Told, Has, WillHave
    <3> QED
      BY SMTT(30), <2>6, <3>1, HandlerKeeps DEF Analyser!vars, EnergyInv
  <2> QED
    BY <2>1, <2>2, <2>3, <2>4, <2>5, <2>6 DEF Analyser!Next
<1> QED
  BY <1>1, <1>2, PTL DEF Analyser!Spec

\* Every sample that is kept has, for every node, the time that its radio really spent in each state
\* (ComputeRadioState, whoever calls it and however often).
THEOREM EnergiesExact == Analyser!EnergyAssumption => (Analyser!Spec => []Analyser!SamplesExact)
<1>1. EnergyInv => Analyser!SamplesExact
  BY DEF EnergyInv
<1> QED
  BY <1>1, EnergyInvariance, PTL

\* Samples are taken at least a period apart (advanceTime).
THEOREM EnergiesApart == Analyser!EnergyAssumption => (Analyser!Spec => []Analyser!SamplesApart)
<1>1. EnergyInv => Analyser!SamplesApart
  BY DEF EnergyInv
<1> QED
  BY <1>1, EnergyInvariance, PTL

\* What is saved leaves out less than a period, whenever it is saved (SaveEnergyDataToFile, which does
\* not compute).
THEOREM SavedRecent == Analyser!EnergyAssumption => (Analyser!Spec => []Analyser!SavedWithinPeriod)
<1>1. EnergyInv => Analyser!SavedWithinPeriod
  BY DEF EnergyInv
<1> QED
  BY <1>1, EnergyInvariance, PTL

\* The two histories, which are appended to and cleared one after the other, have the same samples.
THEOREM SameSamples == Analyser!EnergyAssumption => (Analyser!Spec => []Analyser!HistoriesAgree)
<1>1. EnergyInv => Analyser!HistoriesAgree
  <2> SUFFICES ASSUME EnergyInv, dpc # "byNodes"
               PROVE  networkHistory = [i \in 1..Len(energyHistoryByNodes) |-> energyHistoryByNodes[i].t]
    BY SMTT(30) DEF Analyser!HistoriesAgree
  <2>1. /\ Len(networkHistory) = Len(energyHistoryByNodes) /\ networkHistory \in Seq(Nat)
        /\ \A i \in 1..Len(energyHistoryByNodes) : networkHistory[i] = energyHistoryByNodes[i].t
    BY DEF EnergyInv, HistoryTimes, EnergyTypes
  <2>2. networkHistory = [i \in 1..Len(networkHistory) |-> networkHistory[i]]
    BY SMTT(30), <2>1, LenProperties
  <2> QED
    BY <2>1, <2>2
<1> QED
  BY <1>1, EnergyInvariance, PTL

\* A client misses no sample although its handler reads the histories without a lock, one after the
\* other, while samples are appended and histories cleared (Energy of grpcServer.go).
THEOREM NoneMissed == Analyser!EnergyAssumption => (Analyser!Spec => []Analyser!NoSampleMissed)
<1>1. EnergyInv => Analyser!NoSampleMissed
  BY DEF EnergyInv, Analyser!NoSampleMissed, ClientsServed, Told, Has
<1> QED
  BY <1>1, EnergyInvariance, PTL
=============================================================================
