-------------------------- MODULE PageOutputProofs --------------------------
(***************************************************************************)
(* PageOutput for a month, day and hour of any length, any intervals and   *)
(* any number of reloads and failures: the open file is that of the call's *)
(* interval.  The invariant remembers when the open file was opened: the   *)
(* minutes since are no more than those counted, and an index that is the  *)
(* same within an hour less the interval is that of the same hour, with    *)
(* none other in between (SameHour).                                       *)
(***************************************************************************)
EXTENDS PageOutput, TLAPS

-----------------------------------------------------------------------------
(* Quotients *)

LEMMA DivMod ==
    ASSUME NEW a \in Nat, NEW b \in Nat \ {0}
    PROVE  /\ a \div b \in Nat /\ a % b \in 0 .. b - 1
           /\ a = b * (a \div b) + (a % b)
OBVIOUS

LEMMA Product ==
    ASSUME NEW b \in Nat, NEW x \in Nat, NEW y \in Nat, x + 1 <= y
    PROVE  b * x \in Nat /\ b * y \in Nat /\ b * y >= b * x + b
OBVIOUS

LEMMA DivModUnique ==
    ASSUME NEW a \in Nat, NEW b \in Nat \ {0}, NEW q \in Nat, NEW m \in 0 .. b - 1,
           a = b * q + m
    PROVE  a \div b = q /\ a % b = m
OBVIOUS

LEMMA DivMonotone ==
    ASSUME NEW b \in Nat \ {0}, NEW x \in Nat, NEW y \in Nat, x <= y
    PROVE  x \div b <= y \div b
<1> DEFINE p == x \div b  q == y \div b  m == x % b  n == y % b
<1>1. /\ p \in Nat /\ q \in Nat /\ m \in 0 .. b - 1 /\ n \in 0 .. b - 1
      /\ x = b * p + m /\ y = b * q + n
  BY DivMod
<1> HIDE DEF p, q, m, n
<1>2. ASSUME q + 1 <= p PROVE FALSE
  <2>1. b * q \in Nat /\ b * p \in Nat /\ b * p >= b * q + b
    BY <1>1, <1>2, Product
  <2> QED  BY <1>1, <2>1
<1>3. p <= q
  BY <1>1, <1>2
<1> QED  BY <1>3 DEF p, q

\* The quotient by a product.
LEMMA DivDiv ==
    ASSUME NEW t \in Nat, NEW b \in Nat \ {0}, NEW c \in Nat \ {0}
    PROVE  t \div (c * b) = (t \div b) \div c
<1> DEFINE q == t \div b  m == t % b  d == q \div c  h == q % c
<1>1. q \in Nat /\ m \in 0 .. b - 1 /\ t = b * q + m
  BY DivMod
<1> HIDE DEF q, m
<1>2. d \in Nat /\ h \in 0 .. c - 1 /\ q = c * d + h
  BY <1>1, DivMod
<1> HIDE DEF d, h
<1>3. b * h \in Nat /\ b * h + b <= b * c
  <2>1. h + 1 <= c /\ h \in Nat
    BY <1>2
  <2> QED  BY <2>1, Product
<1>4. c * b \in Nat \ {0} /\ c * b = b * c
  OBVIOUS
<1>5. t = (c * b) * d + (b * h + m)
  <2>1. b * q = (c * b) * d + b * h
    BY <1>2
  <2> QED  BY <1>1, <1>2, <1>3, <1>4, <2>1
<1>6. b * h + m \in 0 .. (c * b) - 1
  BY <1>1, <1>3, <1>4
<1>7. t \div (c * b) = d
  <2> DEFINE e == c * b  r == b * h + m
  <2>1. e \in Nat \ {0} /\ r \in 0 .. e - 1 /\ t = e * d + r
    BY <1>4, <1>5, <1>6
  <2> HIDE DEF e, r
  <2>2. t \div e = d
    BY <1>2, <2>1, DivModUnique
  <2> QED  BY <2>2 DEF e
<1> QED  BY <1>7 DEF d, q

\* Adding a multiple does not change the remainder.
LEMMA ModShift ==
    ASSUME NEW t \in Nat, NEW b \in Nat \ {0}, NEW n \in Nat
    PROVE  (t + n * b) % b = t % b /\ (t + n * b) \div b = (t \div b) + n
<1> DEFINE q == t \div b  m == t % b
<1>1. q \in Nat /\ m \in 0 .. b - 1 /\ t = b * q + m
  BY DivMod
<1> HIDE DEF q, m
<1>2. t + n * b = b * (q + n) + m
  BY <1>1
<1>3. t + n * b \in Nat /\ q + n \in Nat
  BY <1>1
<1>4. (t + n * b) % b = m /\ (t + n * b) \div b = q + n
  <2> DEFINE s == t + n * b  p == q + n
  <2>1. s \in Nat /\ p \in Nat /\ s = b * p + m
    BY <1>2, <1>3
  <2> HIDE DEF s, p
  <2>2. s \div b = p /\ s % b = m
    BY <1>1, <2>1, DivModUnique
  <2> QED  BY <2>2 DEF s, p
<1> QED  BY <1>4 DEF q, m

-----------------------------------------------------------------------------
(* The clock *)

LEMMA Constants ==
    /\ Days \in Nat \ {0} /\ DayHours \in Nat \ {0} /\ HourMins \in Nat \ {0}
    /\ DayHours * HourMins \in Nat \ {0}
    /\ Month \in Nat /\ Month = (Days * DayHours) * HourMins
    /\ Days * DayHours \in Nat \ {0} /\ HourMins <= Month
    /\ Intervals \in SUBSET (Nat \ {0})
<1>1. /\ Days \in Nat \ {0} /\ DayHours \in Nat \ {0} /\ HourMins \in Nat \ {0}
      /\ Intervals \in SUBSET (Nat \ {0})
  BY PageOutputAssumption
<1>2. DayHours * HourMins \in Nat \ {0} /\ Days * DayHours \in Nat \ {0}
  BY <1>1
<1>3. Month \in Nat /\ Month = (Days * DayHours) * HourMins
  BY <1>1 DEF Month
<1>4. HourMins <= (Days * DayHours) * HourMins
  <2> DEFINE n == Days * DayHours
  <2>1. n \in Nat \ {0} /\ HourMins \in Nat
    BY <1>1, <1>2
  <2> HIDE DEF n
  <2>2. HourMins <= n * HourMins
    BY <2>1
  <2> QED  BY <2>2 DEF n
<1> QED  BY <1>1, <1>2, <1>3, <1>4

LEMMA ConstantTypes ==
    /\ Days \in Nat \ {0} /\ HourMins \in Nat \ {0} /\ Month \in Nat \ {0}
    /\ HourMins <= Month /\ Intervals \in SUBSET (Nat \ {0})
BY Constants

LEMMA IndexType ==
    ASSUME NEW t \in Nat, NEW int \in Nat \ {0}
    PROVE  Index(t, int) \in Nat
<1>1. t % HourMins \in Nat
  BY Constants, DivMod
<1> QED  BY <1>1, DivMod DEF Index

\* The index of an interval comes round every month.
LEMMA IndexMonth ==
    ASSUME NEW t \in Nat, NEW int
    PROVE  Index(t + Month, int) = Index(t, int)
<1> DEFINE n == Days * DayHours
<1>1. n \in Nat /\ Month = n * HourMins
  BY Constants
<1> HIDE DEF n
<1>2. (t + n * HourMins) % HourMins = t % HourMins
  BY <1>1, Constants, ModShift
<1> QED  BY <1>1, <1>2 DEF Index

\* Times with the same index that are no more than an hour less the interval
\* apart are of the same hour, and so is what lies between them.
LEMMA SameHour ==
    ASSUME NEW t \in Nat, NEW g \in Nat, NEW int \in Nat \ {0},
           g = 0 \/ g <= HourMins - int, Index(t + g, int) = Index(t, int)
    PROVE  /\ (t + g) \div HourMins = t \div HourMins
           /\ \A k \in 0 .. g : Index(t + k, int) = Index(t, int)
<1> DEFINE H == HourMins
<1>0. H \in Nat \ {0}
  BY Constants
<1> HIDE DEF H
<1>1. CASE g = 0
  <2>1. t + g = t /\ \A k \in 0 .. g : t + k = t
    BY <1>1
  <2> QED  BY <2>1
<1>2. CASE g # 0
  <2>0. g <= H - int
    BY <1>2 DEF H
  <2> DEFINE T == t + g
             q0 == t \div H  m0 == t % H  q1 == T \div H  m1 == T % H
             i0 == m0 \div int  a0 == m0 % int  i1 == m1 \div int  a1 == m1 % int
  <2>1. T \in Nat /\ T = t + g
    OBVIOUS
  <2> HIDE DEF T
  <2>2. /\ q0 \in Nat /\ q1 \in Nat /\ m0 \in 0 .. H - 1 /\ m1 \in 0 .. H - 1
        /\ t = H * q0 + m0 /\ T = H * q1 + m1
    BY <1>0, <2>1, DivMod
  <2>3. i0 = i1
    BY DEF Index, H, T
  <2> HIDE DEF q0, m0, q1, m1
  <2>3a. m0 \in Nat /\ m1 \in Nat
    BY <1>0, <2>2
  <2>4. /\ i0 \in Nat /\ a0 \in 0 .. int - 1 /\ m0 = int * i0 + a0
        /\ a1 \in 0 .. int - 1 /\ m1 = int * i1 + a1
    BY <2>3a, DivMod
  <2>5. q0 <= q1
    BY <1>0, <2>1, DivMonotone DEF q0, q1
  <2> HIDE DEF i0, a0, i1, a1
  <2>6. m1 - m0 > -int
    <3>1. int * i0 \in Nat
      BY <2>4
    <3> QED  BY <2>3, <2>4, <3>1
  <2>7. ASSUME q0 + 1 <= q1 PROVE FALSE
    <3>1. H * q0 \in Nat /\ H * q1 \in Nat /\ H * q1 >= H * q0 + H
      BY <1>0, <2>2, <2>7, Product
    <3> QED  BY <1>0, <2>0, <2>1, <2>2, <2>6, <3>1
  <2>8. q0 = q1
    BY <2>2, <2>5, <2>7
  <2>9. ASSUME NEW k \in 0 .. g PROVE Index(t + k, int) = Index(t, int)
    <3> DEFINE S == t + k  q == S \div H  m == S % H
    <3>1. S \in Nat /\ t <= S /\ S <= T
      BY <2>1
    <3> HIDE DEF S
    <3>2. q \in Nat /\ m \in 0 .. H - 1 /\ S = H * q + m
      BY <1>0, <3>1, DivMod
    <3>3. q0 <= q /\ q <= q1
      BY <1>0, <2>1, <3>1, DivMonotone DEF q0, q1
    <3> HIDE DEF q, m
    <3>4. q = q0 /\ q1 = q0
      BY <2>2, <2>8, <3>2, <3>3
    <3>5. H * q0 \in Nat
      BY <1>0, <2>2
    <3>6. m0 <= m /\ m <= m1
      BY <1>0, <2>2, <3>1, <3>2, <3>4, <3>5
    <3>6a. m \in Nat
      BY <1>0, <3>2
    <3>7. i0 <= m \div int /\ m \div int <= i1
      BY <2>3a, <3>6a, <3>6, DivMonotone DEF i0, i1
    <3>8. m \div int \in Nat
      BY <3>6a, DivMod
    <3>9. m \div int = i0
      BY <2>3, <2>4, <3>7, <3>8
    <3> QED  BY <3>9 DEF Index, i0, m, m0, H, S
  <2> QED  BY <2>8, <2>9 DEF q0, q1, T, H
<1> QED  BY <1>1, <1>2

-----------------------------------------------------------------------------
(* The invariant *)

\* A call's index is that of its time.
IndexOfTime == m_mutex = "held" => tm.index = Index(tm.time, tm.interval)

\* Without a lapse the interval was not reloaded since the file was opened.
IntervalKept == ~lapse => tm.interval = interval

\* The minutes since the last call that succeeded, as Stay counts them.
Since == IF m_mutex = "free" /\ ret = 0 THEN 0 ELSE tm.gap

\* The file that is open is that of t, g minutes before the last call, and the
\* remembered index that of t; or the file of a later index did not open.
OpenedAt(t, g) ==
    /\ t + g = tm.time \/ t + g = tm.time + Month
    /\ m_cur_min = Index(t, tm.interval)
    /\ \/ m_fd = FileOf(t, tm.interval)
       \/ \E k \in 0 .. g : Index(t + k, tm.interval) # m_cur_min

\* What is open was opened within the time that is counted.
OpenedSince ==
    ~lapse /\ m_cur_min # -1 /\ Since < HourMins =>
        \E t \in 0 .. Month - 1, g \in 0 .. Since : OpenedAt(t, g)

Inductive == /\ TypeOK
             /\ IndexOfTime
             /\ IntervalKept
             /\ OpenedSince
             /\ FileOfTheInterval

LEMMA MinOfTwo ==
    ASSUME NEW a \in Int, NEW b \in Int
    PROVE  Min({a, b}) = IF a <= b THEN a ELSE b
BY DEF Min

LEMMA DayAndHour ==
    ASSUME NEW t \in 0 .. Month - 1
    PROVE  Day(t) \in 0 .. Days - 1 /\ Hour(t) \in 0 .. DayHours - 1
<1> DEFINE D == DayHours * HourMins
<1>1. D \in Nat \ {0} /\ t \in Nat /\ t < Days * D /\ Days \in Nat
  BY Constants, PageOutputAssumption DEF Month
<1>2. Hour(t) \in 0 .. DayHours - 1
  <2>1. t \div HourMins \in Nat
    BY <1>1, Constants, DivMod
  <2> QED  BY <2>1, Constants, DivMod DEF Hour
<1> DEFINE d == t \div D  m == t % D
<1>3. Day(t) = d
  BY DEF Day
<1> HIDE DEF D
<1>4. d \in Nat /\ m \in 0 .. D - 1 /\ t = D * d + m
  BY <1>1, DivMod
<1> HIDE DEF d, m
<1>5. ASSUME Days + 1 <= d + 1 PROVE FALSE
  <2>1. D * d >= D * Days /\ D * d \in Nat
    BY <1>1, <1>4, <1>5
  <2>2. D * Days = Days * D
    BY <1>1
  <2> QED  BY <1>1, <1>4, <2>1, <2>2
<1>6. d \in 0 .. Days - 1
  BY <1>1, <1>4, <1>5
<1> QED  BY <1>2, <1>3, <1>6

\* The minutes of the wait, around the end of the month or not.
LEMMA WaitedIs ==
    ASSUME TypeOK
    PROVE  /\ Waited \in 0 .. Month - 1
           /\ Waited = now - tm.time \/ Waited = now - tm.time + Month
<1> DEFINE a == now - tm.time
<1>1. a \in Int /\ -Month < a /\ a < Month /\ Month \in Nat \ {0}
  BY Constants DEF TypeOK
<1>2. Waited = a % Month
  BY DEF Waited
<1> HIDE DEF a
<1>3. CASE a >= 0
  <2>1. a = Month * 0 + a /\ a \in Nat /\ a \in 0 .. Month - 1
    BY <1>1, <1>3
  <2>2. a % Month = a
    BY <1>1, <2>1, DivModUnique
  <2> QED  BY <1>2, <2>1, <2>2 DEF a
<1>4. CASE a < 0
  <2>1. a % Month = a + Month
    BY <1>1, <1>4
  <2>2. a + Month \in 0 .. Month - 1
    BY <1>1, <1>4
  <2> QED  BY <1>2, <2>1, <2>2 DEF a
<1> QED  BY <1>1, <1>3, <1>4

LEMMA IndexBound ==
    ASSUME NEW t \in Nat, NEW int \in Nat \ {0}
    PROVE  Index(t, int) \in 0 .. HourMins - 1
<1> DEFINE m == t % HourMins
<1>1. m \in 0 .. HourMins - 1 /\ m \in Nat
  BY Constants, DivMod
<1>2. Index(t, int) = m \div int
  BY DEF Index
<1> HIDE DEF m
<1>3. m \div int \in Nat /\ m \div int <= m
  BY <1>1
<1> QED  BY <1>1, <1>2, <1>3, Constants

LEMMA TimeStep ==
    ASSUME TypeOK, Time
    PROVE  /\ tm' = [time |-> now, interval |-> interval, index |-> Index(now, interval),
                     gap |-> Min({HourMins, Waited + Since})]
           /\ tm'.gap = IF HourMins <= Waited + Since THEN HourMins ELSE Waited + Since
           /\ tm' \in [time : 0 .. Month - 1, interval : Intervals,
                       index : -1 .. HourMins - 1, gap : 0 .. HourMins]
<1>1. (IF ret = Failed THEN tm.gap ELSE 0) = Since
  BY DEF Time, TypeOK, Since, Failed
<1>2. Since \in Nat /\ Waited \in Nat /\ HourMins \in Nat
  BY WaitedIs, Constants DEF TypeOK, Since
<1>3. tm' = [time |-> now, interval |-> interval, index |-> Index(now, interval),
             gap |-> Min({HourMins, Waited + Since})]
  BY <1>1 DEF Time
<1>4. Min({HourMins, Waited + Since})
        = IF HourMins <= Waited + Since THEN HourMins ELSE Waited + Since
  BY <1>2, MinOfTwo
<1>5. Index(now, interval) \in -1 .. HourMins - 1
  <2>1. now \in Nat /\ interval \in Nat \ {0}
    BY Constants DEF TypeOK
  <2>2. Index(now, interval) \in 0 .. HourMins - 1
    BY <2>1, IndexBound
  <2> QED  BY <2>2, Constants
<1>6. Min({HourMins, Waited + Since}) \in 0 .. HourMins
  BY <1>2, <1>4
<1> QED  BY <1>3, <1>4, <1>5, <1>6 DEF TypeOK

LEMMA CallTypes ==
    ASSUME TypeOK
    PROVE  /\ tm.time \in Nat /\ tm.time < Month /\ tm.gap \in Nat
           /\ tm.interval \in Nat \ {0} /\ interval \in Nat \ {0}
<1>1. PICK t \in 0 .. Month - 1 : t = tm.time
  BY DEF TypeOK
<1>2. PICK i \in Intervals : i = tm.interval
  BY DEF TypeOK
<1>3. PICK j \in Intervals : j = interval
  BY DEF TypeOK
<1>4. PICK g \in 0 .. HourMins : g = tm.gap
  BY DEF TypeOK
<1>5. t \in Nat /\ t < Month
  BY ConstantTypes
<1>6. i \in Nat \ {0} /\ j \in Nat \ {0}
  BY PageOutputAssumption
<1>7. g \in Nat
  BY ConstantTypes
<1> QED  BY <1>1, <1>2, <1>3, <1>4, <1>5, <1>6, <1>7

LEMMA NextType == TypeOK /\ IndexOfTime /\ [Next]_vars => TypeOK'
<1> SUFFICES ASSUME TypeOK, IndexOfTime, [Next]_vars PROVE TypeOK'
  OBVIOUS
<1> USE DEF env, files
<1>0. /\ Day(tm.time) \in 0 .. Days - 1 /\ Hour(tm.time) \in 0 .. DayHours - 1
      /\ tm.time \in 0 .. Month - 1
  BY DayAndHour DEF TypeOK
<1>00. ASSUME EnterDay
       PROVE  dirs' \subseteq 0 .. Days - 1 /\ m_cur_day' \in -1 .. Days - 1
  <2>1. PICK d \in 0 .. Days - 1 : d = Day(tm.time)
    BY <1>0
  <2>2. m_cur_day' = d /\ (dirs' = dirs \/ dirs' = dirs \cup {d})
    BY <1>00, <2>1 DEF EnterDay
  <2>3. dirs \subseteq 0 .. Days - 1
    BY DEF TypeOK
  <2>4. dirs' \subseteq 0 .. Days - 1
    BY <2>2, <2>3
  <2>5. m_cur_day' \in -1 .. Days - 1
    BY <2>2, ConstantTypes
  <2> QED  BY <2>4, <2>5
<1>1. CASE Time
  BY <1>1, TimeStep DEF Time, TypeOK
<1>2. CASE NoDir
  BY <1>0, <1>2 DEF NoDir, Fail, TypeOK
<1>3. CASE NoFileOpened
  BY <1>00, <1>3 DEF NoFileOpened, NoOpen, Fail, TypeOK
<1>4. CASE Append
  <2>1. m_fd' \in Names \cup {NoFile} /\ m_cur_min' \in -1 .. HourMins - 1 /\ lapse' \in BOOLEAN
    <3>1. CASE Switches
      <4>1. tm.index * interval \in Nat
        <5>1. tm.time \in Nat /\ tm.interval \in Nat \ {0} /\ interval \in Nat
          BY CallTypes
        <5>2. tm.index \in Nat
          BY <1>4, <5>1, IndexType DEF Append, EnterDay, IndexOfTime
        <5> QED  BY <5>1, <5>2
      <4> QED  BY <1>0, <1>4, <3>1, <4>1 DEF Append, Open, TypeOK, Names
    <3>2. CASE ~Switches
      BY <1>4, <3>2 DEF Append, Stay, TypeOK
    <3> QED  BY <3>1, <3>2
  <2>2. UNCHANGED <<now, interval, reloads, disk, tm, need_write>> /\ m_mutex' = "free"
    BY <1>4 DEF Append
  <2>3. ret' \in {0, Failed}
    BY <1>4 DEF Append
  <2> QED  BY <1>00, <1>4, <2>1, <2>2, <2>3 DEF Append, TypeOK
<1>5. CASE Fill
  BY <1>5 DEF Fill, TypeOK
<1>6. CASE Reload
  BY <1>6, PageOutputAssumption DEF Reload, TypeOK
<1>7. ASSUME NEW g \in 1 .. MaxGap, Tick(g)
      PROVE  TypeOK'
  <2>1. now' \in 0 .. Month - 1
    <3>1. now + g \in Nat /\ Month \in Nat \ {0}
      BY Constants, PageOutputAssumption DEF TypeOK
    <3> QED  BY <1>7, <3>1, DivMod DEF Tick
  <2> QED  BY <1>7, <2>1 DEF Tick, TypeOK
<1>8. CASE UNCHANGED vars
  BY <1>8 DEF vars, TypeOK
<1> QED  BY <1>1, <1>2, <1>3, <1>4, <1>5, <1>6, <1>7, <1>8 DEF Next, append

LEMMA NextIndex ==
    TypeOK /\ IndexOfTime /\ IntervalKept /\ [Next]_vars => IndexOfTime' /\ IntervalKept'
<1> SUFFICES ASSUME TypeOK, IndexOfTime, IntervalKept, [Next]_vars
             PROVE  IndexOfTime' /\ IntervalKept'
  OBVIOUS
<1> USE DEF IndexOfTime, IntervalKept, env, files
<1>1. CASE Time
  BY <1>1, TimeStep DEF Time
<1>2. CASE NoDir
  BY <1>2 DEF NoDir, Fail
<1>3. CASE NoFileOpened
  BY <1>3 DEF NoFileOpened, Fail
<1>4. CASE Append
  BY <1>4 DEF Append, Open, Stay
<1>5. CASE Fill
  BY <1>5 DEF Fill
<1>6. CASE Reload
  BY <1>6 DEF Reload
<1>7. ASSUME NEW g \in 1 .. MaxGap, Tick(g)
      PROVE  IndexOfTime' /\ IntervalKept'
  BY <1>7 DEF Tick
<1>8. CASE UNCHANGED vars
  BY <1>8 DEF vars
<1> QED  BY <1>1, <1>2, <1>3, <1>4, <1>5, <1>6, <1>7, <1>8 DEF Next, append

\* A file that stays open, without a lapse, is that of the call's time.
LEMMA StayingFile ==
    ASSUME Inductive, m_mutex = "held", tm.index = m_cur_min, ~lapse,
           tm.gap <= HourMins - Min({HourMins, tm.interval})
    PROVE  m_fd = FileOf(tm.time, tm.interval)
<1> DEFINE int == tm.interval
<1>0. TypeOK /\ IndexOfTime /\ OpenedSince
  BY DEF Inductive
<1>1. /\ tm.time \in Nat /\ tm.time < Month /\ tm.gap \in Nat /\ int \in Nat \ {0}
      /\ HourMins \in Nat \ {0} /\ Month \in Nat \ {0}
  BY <1>0, CallTypes, ConstantTypes
<1>2. tm.index = Index(tm.time, int)
  BY <1>0 DEF IndexOfTime
<1>3. m_cur_min # -1
  <2>1. Index(tm.time, int) \in Nat
    BY <1>1, IndexType
  <2> QED  BY <1>2, <2>1
<1>4. Since = tm.gap
  BY DEF Since
<1>5. Min({HourMins, int}) = IF HourMins <= int THEN HourMins ELSE int
  BY <1>1, MinOfTwo
<1>6. tm.gap < HourMins
  BY <1>1, <1>5
<1>7. PICK t \in 0 .. Month - 1, g \in 0 .. tm.gap : OpenedAt(t, g)
  BY <1>0, <1>3, <1>4, <1>6 DEF OpenedSince
<1>8. t \in Nat /\ t < Month /\ g \in Nat /\ (g = 0 \/ g <= HourMins - int)
  BY <1>1, <1>5, <1>7
<1>9. t + g = tm.time \/ t + g = tm.time + Month
  BY <1>7 DEF OpenedAt
<1>10. Index(t + g, int) = Index(t, int)
  <2>1. Index(t + g, int) = Index(tm.time, int)
    <3>1. Index(tm.time + Month, int) = Index(tm.time, int)
      BY <1>1, IndexMonth
    <3> QED  BY <1>9, <3>1
  <2>2. Index(t, int) = m_cur_min
    BY <1>7 DEF OpenedAt
  <2> QED  BY <1>2, <2>1, <2>2
<1>11. /\ (t + g) \div HourMins = t \div HourMins
       /\ \A k \in 0 .. g : Index(t + k, int) = Index(t, int)
  BY <1>1, <1>8, <1>10, SameHour
<1>12. m_fd = FileOf(t, int)
  BY <1>7, <1>11 DEF OpenedAt
\* Had the month ended in between, the hours would differ.
<1>13. t + g = tm.time
  <2> SUFFICES ASSUME t + g = tm.time + Month PROVE FALSE
    BY <1>9
  <2> DEFINE n == Days * DayHours
  <2>1. n \in Nat /\ Month = n * HourMins
    BY Constants
  <2> HIDE DEF n
  <2>2. (tm.time + n * HourMins) \div HourMins = (tm.time \div HourMins) + n
    BY <1>1, <2>1, ModShift
  <2>3. tm.time \div HourMins \in Nat
    BY <1>1, DivMod
  <2> DEFINE q == t \div HourMins  m == t % HourMins
  <2>4. q \in Nat /\ m \in 0 .. HourMins - 1 /\ t = HourMins * q + m
    BY <1>1, <1>8, DivMod
  <2>5. q >= n
    BY <1>11, <2>1, <2>2, <2>3
  <2> HIDE DEF q, m
  <2>6. HourMins * q >= n * HourMins
    BY <1>1, <2>1, <2>4, <2>5
  <2>7. HourMins * q \in Nat /\ n * HourMins \in Nat
    BY <1>1, <2>1, <2>4
  <2> QED  BY <1>8, <2>1, <2>4, <2>6, <2>7
<1>14. tm.time \div HourMins = t \div HourMins
  BY <1>11, <1>13
<1>15. Day(tm.time) = Day(t) /\ Hour(tm.time) = Hour(t)
  <2>1. \A x \in Nat : x \div (DayHours * HourMins) = (x \div HourMins) \div DayHours
    BY Constants, DivDiv
  <2> QED  BY <1>1, <1>8, <1>14, <2>1 DEF Day, Hour
<1>16. Index(tm.time, int) = Index(t, int)
  BY <1>10, <1>13
<1> QED  BY <1>12, <1>15, <1>16 DEF FileOf

\* What a call that keeps or opens its file leaves open, without a lapse.
LEMMA AppendedFile ==
    ASSUME Inductive, Append, ~lapse'
    PROVE  /\ m_fd' = FileOf(tm.time, tm.interval)
           /\ m_cur_min' = Index(tm.time, tm.interval)
<1>0. tm.index = Index(tm.time, tm.interval) /\ m_mutex = "held"
  BY DEF Inductive, IndexOfTime, Append, EnterDay
<1>1. CASE Switches
  <2>1. /\ m_fd' = <<Day(tm.time), Hour(tm.time), tm.index * interval>>
        /\ m_cur_min' = tm.index
        /\ interval = tm.interval
    BY <1>1 DEF Append, Open
  <2> QED  BY <1>0, <2>1 DEF FileOf
<1>2. CASE ~Switches
  <2>1. /\ UNCHANGED <<m_fd, m_cur_min>> /\ tm.index = m_cur_min
        /\ ~lapse /\ ~(tm.gap > HourMins - Min({HourMins, tm.interval}))
    BY <1>2 DEF Append, Stay, Switches
  <2>2. tm.gap <= HourMins - Min({HourMins, tm.interval})
    <3>1. Min({HourMins, tm.interval}) \in Int
      <4>1. HourMins \in Int /\ tm.interval \in Int
        BY CallTypes, ConstantTypes DEF Inductive
      <4> QED  BY <4>1, MinOfTwo
    <3>2. tm.gap \in Int /\ HourMins \in Int
      BY CallTypes, ConstantTypes DEF Inductive
    <3> QED  BY <2>1, <3>1, <3>2
  <2>3. m_fd = FileOf(tm.time, tm.interval)
    BY <1>0, <2>1, <2>2, StayingFile
  <2> QED  BY <1>0, <2>1, <2>3
<1> QED  BY <1>1, <1>2

LEMMA NextFile == Inductive /\ [Next]_vars => FileOfTheInterval'
<1> SUFFICES ASSUME Inductive, [Next]_vars PROVE FileOfTheInterval'
  OBVIOUS
<1> USE DEF FileOfTheInterval, env, files
<1>0. FileOfTheInterval
  BY DEF Inductive
<1>1. CASE Time
  BY <1>1 DEF Time
<1>2. CASE NoDir \/ NoFileOpened
  BY <1>2 DEF NoDir, NoFileOpened, Fail, Failed
<1>3. CASE Append
  <2>1. UNCHANGED tm
    BY <1>3 DEF Append
  <2> QED  BY <1>3, <2>1, AppendedFile DEF FileOf
<1>4. CASE Fill \/ Reload
  BY <1>0, <1>4 DEF Fill, Reload
<1>5. ASSUME NEW g \in 1 .. MaxGap, Tick(g)
      PROVE  FileOfTheInterval'
  BY <1>0, <1>5 DEF Tick
<1>6. CASE UNCHANGED vars
  BY <1>0, <1>6 DEF vars
<1> QED  BY <1>1, <1>2, <1>3, <1>4, <1>5, <1>6 DEF Next, append

\* The wait before a call is counted from where the last count ended.
LEMMA CountedOn ==
    ASSUME Inductive, Time, ~lapse, m_cur_min # -1, Since' < HourMins
    PROVE  \E t \in 0 .. Month - 1, g \in 0 .. Since' : OpenedAt(t, g)'
<1>0. TypeOK /\ OpenedSince /\ IntervalKept
  BY DEF Inductive
<1>1. /\ tm'.time = now /\ tm'.interval = tm.interval
      /\ UNCHANGED <<m_cur_min, m_fd>> /\ Since' = tm'.gap
      /\ tm'.gap = IF HourMins <= Waited + Since THEN HourMins ELSE Waited + Since
  <2>1. UNCHANGED <<m_cur_min, m_fd>> /\ m_mutex' = "held"
    BY DEF Time, files
  <2>2. Since' = tm'.gap
    BY <2>1 DEF Since
  <2> QED  BY <1>0, <2>1, <2>2, TimeStep DEF IntervalKept
<1>2. PICK w \in 0 .. Month - 1 : w = Waited
  BY <1>0, WaitedIs
<1>3. w = now - tm.time \/ w = now - tm.time + Month
  BY <1>0, <1>2, WaitedIs
<1>4. PICK c \in Nat : c = Since
  <2>1. tm.gap \in Nat
    BY <1>0, CallTypes
  <2> QED  BY <2>1 DEF Since
<1>5. /\ tm.time \in Nat /\ tm.time < Month /\ now \in Nat /\ now < Month
      /\ HourMins \in Nat \ {0} /\ Month \in Nat /\ HourMins <= Month
  BY <1>0, CallTypes, ConstantTypes DEF TypeOK
<1>6. w + c < HourMins /\ Since' = w + c /\ c < HourMins
  BY <1>1, <1>2, <1>4, <1>5
<1>7. PICK t \in 0 .. Month - 1, g \in 0 .. Since : OpenedAt(t, g)
  BY <1>0, <1>4, <1>6 DEF OpenedSince
<1>8. t \in Nat /\ t < Month /\ g \in Nat /\ g <= c
  BY <1>4, <1>5, <1>7
<1>9. t + g = tm.time \/ t + g = tm.time + Month
  BY <1>7 DEF OpenedAt
<1>10. t + (g + w) = now \/ t + (g + w) = now + Month
  BY <1>2, <1>3, <1>5, <1>6, <1>8, <1>9
<1>11. OpenedAt(t, g + w)'
  <2>1. m_cur_min = Index(t, tm.interval)
    BY <1>7 DEF OpenedAt
  <2>2. \/ m_fd = FileOf(t, tm.interval)
        \/ \E k \in 0 .. g : Index(t + k, tm.interval) # m_cur_min
    BY <1>7 DEF OpenedAt
  <2>3. 0 .. g \subseteq 0 .. g + w
    BY <1>2, <1>5, <1>8
  <2> QED  BY <1>1, <1>10, <2>1, <2>2, <2>3 DEF OpenedAt, FileOf, Index
<1>12. g + w \in 0 .. Since'
  BY <1>2, <1>5, <1>6, <1>8
<1> QED  BY <1>11, <1>12

LEMMA NextOpened == Inductive /\ [Next]_vars => OpenedSince'
<1> SUFFICES ASSUME Inductive, [Next]_vars PROVE OpenedSince'
  OBVIOUS
<1> USE DEF env, files
<1>0. TypeOK /\ OpenedSince /\ IndexOfTime
  BY DEF Inductive
<1>1. CASE Time
  <2>1. UNCHANGED <<lapse, m_cur_min>>
    BY <1>1 DEF Time
  <2>2. ASSUME ~lapse', m_cur_min' # -1, Since' < HourMins
        PROVE  \E t \in 0 .. Month - 1, g \in 0 .. Since' : OpenedAt(t, g)'
    BY <1>1, <2>1, <2>2, CountedOn
  <2> QED  BY <2>2 DEF OpenedSince
<1>2. CASE NoDir
  <2>1. Since' = Since /\ UNCHANGED <<tm, m_fd, m_cur_min, lapse>>
    BY <1>2 DEF NoDir, Fail, Failed, Since
  <2> QED  BY <1>0, <2>1 DEF OpenedSince, OpenedAt, FileOf
\* The file of another index does not open: so far, t's was left.
<1>3. CASE NoFileOpened
  <2>1. Since' = Since /\ UNCHANGED <<tm, m_cur_min, lapse>>
    BY <1>3 DEF NoFileOpened, EnterDay, NoOpen, Fail, Failed, Since
  <2>2. Index(tm.time, tm.interval) # m_cur_min
    BY <1>0, <1>3 DEF NoFileOpened, EnterDay, Switches, IndexOfTime
  <2>3. Since \in Nat /\ tm.time \in Nat
    BY <1>0, CallTypes DEF Since
  <2>4. ASSUME NEW t \in 0 .. Month - 1, NEW g \in 0 .. Since, OpenedAt(t, g)
        PROVE  OpenedAt(t, g)'
    <3>1. t + g = tm.time \/ t + g = tm.time + Month
      BY <2>4 DEF OpenedAt
    <3>2. Index(tm.time + Month, tm.interval) = Index(tm.time, tm.interval)
      BY <2>3, IndexMonth
    <3>3. Index(t + g, tm.interval) # m_cur_min
      BY <2>2, <3>1, <3>2
    <3>4. g \in 0 .. g
      BY <2>3
    <3> QED  BY <2>1, <2>4, <3>3, <3>4 DEF OpenedAt, Index
  <2> QED  BY <1>0, <2>1, <2>4 DEF OpenedSince
<1>4. CASE Append
  <2>1. UNCHANGED tm
    BY <1>4 DEF Append
  <2>2. Since' \in Nat
    <3>1. tm.gap \in Nat
      BY <1>0, CallTypes
    <3> QED  BY <2>1, <3>1 DEF Since
  <2>3. tm.time \in 0 .. Month - 1 /\ tm.time + 0 = tm.time /\ 0 \in 0 .. Since'
    BY <1>0, <2>2, CallTypes, ConstantTypes
  <2>4. ASSUME ~lapse'
        PROVE  \E t \in 0 .. Month - 1, g \in 0 .. Since' : OpenedAt(t, g)'
    <3>1. PICK t \in 0 .. Month - 1 : t = tm.time
      BY <2>3
    <3>2. OpenedAt(t, 0)'
      <4>1. /\ m_fd' = FileOf(t, tm.interval) /\ m_cur_min' = Index(t, tm.interval)
        BY <1>4, <2>4, <3>1, AppendedFile
      <4>2. t + 0 = tm.time
        BY <2>3, <3>1
      <4> QED  BY <2>1, <4>1, <4>2 DEF OpenedAt, FileOf, Index
    <3> QED  BY <2>3, <3>2
  <2> QED  BY <2>4 DEF OpenedSince
<1>5. CASE Reload
  BY <1>5 DEF Reload, OpenedSince
<1>6. CASE UNCHANGED <<m_mutex, ret, tm, lapse, m_cur_min, m_fd>>
  BY <1>0, <1>6 DEF OpenedSince, OpenedAt, Since, FileOf
<1>7. ASSUME NEW g \in 1 .. MaxGap, Tick(g)
      PROVE  OpenedSince'
  BY <1>6, <1>7 DEF Tick
<1>8. CASE Fill \/ UNCHANGED vars
  BY <1>6, <1>8 DEF Fill, vars
<1> QED  BY <1>1, <1>2, <1>3, <1>4, <1>5, <1>7, <1>8 DEF Next, append

LEMMA InitInductive == Init => Inductive
<1> SUFFICES ASSUME Init PROVE Inductive
  OBVIOUS
<1>1. TypeOK
  <2>1. interval \in Intervals /\ now = 0 /\ MaxReloads \in Nat
    BY PageOutputAssumption DEF Init
  <2>2. /\ 0 \in 0 .. Month - 1 /\ -1 \in -1 .. HourMins - 1 /\ 0 \in 0 .. HourMins
        /\ -1 \in -1 .. Days - 1
    BY ConstantTypes
  <2>3. tm \in [time : 0 .. Month - 1, interval : Intervals, index : -1 .. HourMins - 1,
                gap : 0 .. HourMins]
    BY <2>1, <2>2 DEF Init
  <2>4. now \in 0 .. Month - 1 /\ reloads \in 0 .. MaxReloads
    BY <2>1, <2>2 DEF Init
  <2>5. m_cur_day \in -1 .. Days - 1 /\ m_cur_min \in -1 .. HourMins - 1
    BY <2>2 DEF Init
  <2>6. /\ disk \in {"ok", "full"} /\ dirs \subseteq 0 .. Days - 1
        /\ m_fd \in Names \cup {NoFile} /\ m_mutex \in {"free", "held"}
    BY DEF Init
  <2>7. need_write \in BOOLEAN /\ ret \in {0, Failed} /\ lapse \in BOOLEAN
    BY DEF Init
  <2> QED  BY <2>1, <2>3, <2>4, <2>5, <2>6, <2>7 DEF TypeOK
<1>2. IndexOfTime /\ IntervalKept /\ OpenedSince /\ FileOfTheInterval
  BY DEF Init, IndexOfTime, IntervalKept, OpenedSince, FileOfTheInterval, Failed
<1> QED  BY <1>1, <1>2 DEF Inductive

LEMMA AlwaysInductive == Spec => []Inductive
<1>1. Inductive /\ [Next]_vars => Inductive'
  <2> SUFFICES ASSUME Inductive, [Next]_vars PROVE Inductive'
    OBVIOUS
  <2>1. TypeOK /\ IndexOfTime /\ IntervalKept
    BY DEF Inductive
  <2>2. TypeOK' /\ IndexOfTime' /\ IntervalKept'
    BY <2>1, NextType, NextIndex
  <2> QED  BY <2>2, NextOpened, NextFile DEF Inductive
<1> QED  BY InitInductive, <1>1, PTL DEF Spec

(* The type invariant of the page file, for a month, day and hour of any    *)
(* length.                                                                  *)
THEOREM PageOutputType == Spec => []TypeOK
<1>1. Inductive => TypeOK
  BY DEF Inductive
<1> QED  BY <1>1, AlwaysInductive, PTL

(* After a call that succeeded the open file is that of the call's          *)
(* interval, unless the interval was reloaded since the file was opened or  *)
(* no call succeeded for an hour less the interval: append compares only    *)
(* the index within the hour, and not the hour.                             *)
THEOREM PageOutputFileOfTheInterval == Spec => []FileOfTheInterval
<1>1. Inductive => FileOfTheInterval
  BY DEF Inductive
<1> QED  BY <1>1, AlwaysInductive, PTL
=============================================================================
