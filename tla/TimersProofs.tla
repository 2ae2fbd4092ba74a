---------------------------- MODULE TimersProofs ----------------------------
(***************************************************************************)
(* Timers for every scale of seconds, milliseconds and ints: no sleep ends *)
(* a millisecond early, timer_compare() orders by time, and a sleep that   *)
(* fits into an int ends in time (TimeInv).                                *)
(***************************************************************************)
EXTENDS Timers, TLAPS

\* Division and remainder of naturals.
LEMMA DivMod ==
    ASSUME NEW a \in Nat, NEW b \in Nat \ {0}
    PROVE  /\ a \div b \in Nat
           /\ a % b \in 0 .. b - 1
           /\ a = b * (a \div b) + (a % b)
BY SMT

\* The remainder of a number less than the divisor.
LEMMA ModSmall ==
    ASSUME NEW a \in Nat, NEW b \in Nat \ {0}, a < b
    PROVE  a % b = a
BY SMT

\* A second has at least one nanosecond.
LEMMA Scale == NsPerSec \in Nat \ {0}
BY TimersAssumption, SMT DEF NsPerSec

\* C's division loses less than the divisor to either side: from below ...
LEMMA CDiv ==
    ASSUME NEW a \in Int, NEW b \in Nat \ {0}
    PROVE  /\ cdiv(a, b) \in Int
           /\ a < b * cdiv(a, b) + b
<1>1. CASE a >= 0
  <2>1. a \in Nat
    BY <1>1
  <2>2. /\ a \div b \in Nat
        /\ a % b \in 0 .. b - 1
        /\ a = b * (a \div b) + (a % b)
    BY Zenon, <2>1, DivMod
  <2> QED
    BY <1>1, <2>2, SMT DEF cdiv
<1>2. CASE a < 0
  <2>1. -a \in Nat
    BY <1>2
  <2>2. /\ (-a) \div b \in Nat
        /\ (-a) % b \in 0 .. b - 1
        /\ -a = b * ((-a) \div b) + ((-a) % b)
    BY Zenon, <2>1, DivMod
  <2> DEFINE q == (-a) \div b
  <2>3. b * (-q) = -(b * q)
    BY <2>2, SMT
  <2> QED
    BY <1>2, <2>2, <2>3, SMT DEF cdiv
<1> QED
  BY <1>1, <1>2

\* clock_gettime() returns a normalised timespec of the time.
LEMMA Clock ==
    ASSUME NEW n \in Nat
    PROVE  /\ Timespec(n) \in Timespecs
           /\ Timespec(n).nsec < NsPerSec
           /\ Ns(Timespec(n)) = n
<1>1. /\ n \div NsPerSec \in Nat
      /\ n % NsPerSec \in 0 .. NsPerSec - 1
      /\ n = NsPerSec * (n \div NsPerSec) + (n % NsPerSec)
  BY Zenon, DivMod, Scale
<1> QED
  BY <1>1, Scale, SMT DEF Timespec, Timespecs, Ns

\* timer_expiration() <= 0 means that less than a millisecond is left: the truncation
\* of the nanoseconds gives away no more, whichever way it goes.
LEMMA Expired ==
    ASSUME NEW ts \in Timespecs, NEW n \in Nat,
           timer_expiration(ts, Timespec(n)) <= 0
    PROVE  Ns(ts) - n < NsPerMs
<1> DEFINE k == Timespec(n)
           D == ts.sec - k.sec
           x == ts.nsec - k.nsec
           q == cdiv(x, NsPerMs)
<1>1. /\ k \in Timespecs
      /\ Ns(k) = n
  BY Clock
<1>2. D \in Int /\ x \in Int /\ NsPerMs \in Nat \ {0} /\ MsPerSec \in Nat \ {0}
  BY <1>1, Scale, TimersAssumption, SMT DEF Timespecs
<1>3. q \in Int /\ x < NsPerMs * q + NsPerMs
  BY <1>2, CDiv
<1>4. D * MsPerSec + q <= 0
  BY DEF timer_expiration
<1>5. Ns(ts) - n = D * NsPerSec + x
  BY <1>1, Scale, SMT DEF Ns, Timespecs
<1> HIDE DEF D, x, q
<1>6. D * NsPerSec = NsPerMs * (D * MsPerSec)
  BY <1>2, SMT DEF NsPerSec
<1> DEFINE E == D * MsPerSec
<1>7. E \in Int /\ E <= -q
  BY <1>2, <1>3, <1>4, SMT
<1> HIDE DEF E
<1>8. NsPerMs * E <= NsPerMs * (-q)
  BY <1>2, <1>3, <1>7, SMT
<1>9. NsPerMs * (-q) = -(NsPerMs * q) /\ NsPerMs * E \in Int /\ NsPerMs * q \in Int
  BY <1>2, <1>3, <1>7, SMT
<1>10. Ns(ts) - n = NsPerMs * E + x
  BY <1>5, <1>6 DEF E
<1> QED
  BY <1>2, <1>3, <1>8, <1>9, <1>10, SMT

\* An int is converted to itself.
LEMMA ToInt ==
    ASSUME NEW d \in Int, -(IntMax + 1) <= d, d <= IntMax
    PROVE  to_int(d) = d
<1>1. IntMax \in Nat
  BY TimersAssumption
<1>2. d + IntMax + 1 \in Nat /\ d + IntMax + 1 < 2 * (IntMax + 1)
  BY <1>1, SMT
<1>3. 2 * (IntMax + 1) \in Nat \ {0}
  BY <1>1, SMT
<1>4. (d + IntMax + 1) % (2 * (IntMax + 1)) = d + IntMax + 1
  BY <1>2, <1>3, ModSmall
<1> QED
  BY <1>1, <1>4, SMT DEF to_int

\* timer_compare() agrees with time, for timespecs with up to a second of nanoseconds
\* whose seconds differ by an int.
LEMMA CompareAgrees ==
    ASSUME NEW t1 \in Timespecs, NEW t2 \in Timespecs,
           t2.sec - t1.sec <= IntMax, Ns(t1) < Ns(t2)
    PROVE  timer_compare(t1, t2) < 0
<1>1. /\ t1.sec \in Nat /\ t2.sec \in Nat
      /\ t1.nsec \in 0 .. NsPerSec /\ t2.nsec \in 0 .. NsPerSec
      /\ IntMax \in Nat /\ NsPerSec <= IntMax /\ NsPerSec \in Nat \ {0}
  BY Scale, TimersAssumption DEF Timespecs
<1>2. CASE t1.sec < t2.sec
  <2>1. to_int(t1.sec - t2.sec) = t1.sec - t2.sec
    BY <1>1, <1>2, ToInt, SMT
  <2> QED
    BY <1>1, <1>2, <2>1, SMT DEF timer_compare
<1>3. CASE t1.sec = t2.sec
  <2>1. t1.nsec < t2.nsec
    BY <1>1, <1>3, SMT DEF Ns
  <2>2. to_int(t1.nsec - t2.nsec) = t1.nsec - t2.nsec
    BY <1>1, <2>1, ToInt, SMT
  <2> QED
    BY <1>1, <1>3, <2>1, <2>2, SMT DEF timer_compare
<1>4. CASE t1.sec > t2.sec
  <2> DEFINE g == t1.sec - t2.sec - 1
  <2>1. g \in Nat /\ t1.sec = t2.sec + 1 + g
    BY <1>1, <1>4, SMT
  <2> HIDE DEF g
  <2>2. t1.sec * NsPerSec = t2.sec * NsPerSec + NsPerSec + g * NsPerSec
    BY <1>1, <2>1, SMT
  <2>3. g * NsPerSec >= 0 /\ t2.sec * NsPerSec \in Int /\ g * NsPerSec \in Int
    BY <1>1, <2>1, SMT
  <2> QED
    BY <1>1, <2>2, <2>3, SMT DEF Ns
<1> QED
  BY <1>1, <1>2, <1>3, <1>4, SMT

\* to_int() yields an integer.
LEMMA ToIntType ==
    ASSUME NEW n \in Int
    PROVE  to_int(n) \in Int
BY TimersAssumption, SMT DEF to_int

\* async_sleep_relative() computes a timespec with at most a second of nanoseconds.
LEMMA Carried ==
    ASSUME NEW n \in Nat, NEW ms \in Nat
    PROVE  carry([sec |-> Timespec(n).sec + ms \div MsPerSec,
                  nsec |-> Timespec(n).nsec + (ms % MsPerSec) * NsPerMs]) \in Timespecs
<1> DEFINE k == Timespec(n)
           r == ms % MsPerSec
           v == r * NsPerMs
<1>1. k.sec \in Nat /\ k.nsec \in 0 .. NsPerSec - 1 /\ NsPerSec \in Nat \ {0}
  BY Clock, Scale, SMT DEF Timespecs
<1>2. MsPerSec \in Nat \ {0} /\ NsPerMs \in Nat \ {0}
  BY TimersAssumption
<1>3. ms \div MsPerSec \in Nat /\ r \in 0 .. MsPerSec - 1
  BY Zenon, <1>2, DivMod
<1> HIDE DEF k, r
<1>4. v \in Nat /\ v <= NsPerSec
  BY <1>2, <1>3, SMT DEF NsPerSec
<1> HIDE DEF v
<1>5. carry([sec |-> k.sec + ms \div MsPerSec, nsec |-> k.nsec + v]) \in Timespecs
  BY <1>1, <1>3, <1>4, SMT DEF carry, Timespecs
<1> QED
  BY <1>5 DEF k, r, v

\* timer_expiration() yields an integer.
LEMMA ExpirationType ==
    ASSUME NEW ts \in Timespecs, NEW n \in Nat
    PROVE  timer_expiration(ts, Timespec(n)) \in Int
<1>1. Timespec(n) \in Timespecs
  BY Clock
<1>2. NsPerMs \in Nat \ {0} /\ MsPerSec \in Nat
  BY TimersAssumption
<1>3. ts.nsec - Timespec(n).nsec \in Int /\ ts.sec - Timespec(n).sec \in Int
  BY <1>1, Scale, SMT DEF Timespecs
<1>4. cdiv(ts.nsec - Timespec(n).nsec, NsPerMs) \in Int
  BY <1>2, <1>3, CDiv
<1> QED
  BY <1>2, <1>3, <1>4, SMT DEF timer_expiration

\* epoll_wait() times out at some time or never.
LEMMA DeadlineType ==
    ASSUME now \in Nat, NEW n \in Int
    PROVE  Deadline(n) \in Nat \cup {Never}
<1>1. to_int(n) \in Int /\ NsPerMs \in Nat
  BY ToIntType, TimersAssumption
<1>2. CASE to_int(n) < 0
  BY <1>2 DEF Deadline
<1>3. CASE to_int(n) >= 0
  <2>1. to_int(n) * NsPerMs \in Nat
    BY <1>1, <1>3, SMT
  <2> QED
    BY <1>1, <1>3, <2>1, SMT DEF Deadline
<1> QED
  BY <1>1, <1>2, <1>3, SMT

\* sched_wait() keeps the types.
LEMMA WaitTypes ==
    ASSUME TypeOK, NEW t \in Threads, NEW ts \in Timespecs, sched_wait(t, ts)
    PROVE  TypeOK'
<1>1. current[t] \in Coros
  BY DEF TypeOK, sched_wait
<1>2. time' \in [Coros -> Timespecs] /\ since' \in [Coros -> Nat] /\ heap' \subseteq Coros
  BY <1>1 DEF TypeOK, sched_wait
<1>3. current' \in [Threads -> Coros \cup {None}] /\ list' \in [Coros -> Threads \cup {None}]
  BY DEF TypeOK, sched_wait, LeaveTo
<1> QED
  BY <1>2, <1>3 DEF TypeOK, sched_wait

\* Every step keeps the types.
LEMMA StepTypes == TypeOK /\ [Next]_vars => TypeOK'
<1> SUFFICES ASSUME TypeOK, [Next]_vars
             PROVE  TypeOK'
  OBVIOUS
<1>1. ASSUME NEW t \in Threads, NEW ms \in Delays, async_sleep_relative(t, ms)
      PROVE  TypeOK'
  <2>1. now \in Nat /\ ms \in Nat
    BY TimersAssumption DEF TypeOK
  <2> QED
    BY <1>1, <2>1, Carried, WaitTypes DEF async_sleep_relative
<1>2. ASSUME NEW t \in Threads, NEW s \in 0 .. MaxSec, NEW n \in 0 .. NsPerSec - 1,
             async_sleep_absolute(t, [sec |-> s, nsec |-> n])
      PROVE  TypeOK'
  <2>1. [sec |-> s, nsec |-> n] \in Timespecs
    BY Scale, TimersAssumption, SMT DEF Timespecs
  <2> QED
    BY <1>2, <2>1, WaitTypes DEF async_sleep_absolute
<1>3. ASSUME NEW t \in Threads, sched_poll_timeout(t)
      PROVE  TypeOK'
  <2>1. PICK n \in poll_timeout(t) :
             /\ timeout' = [timeout EXCEPT ![t] = n]
             /\ deadline' = [deadline EXCEPT ![t] = Deadline(n)]
    BY Zenon, <1>3 DEF sched_poll_timeout
  <2>2. \A c \in heap_min : timer_expiration(time[c], Timespec(now)) \in Int
    BY ExpirationType DEF TypeOK, heap_min
  <2>3. n \in Int
    BY <2>2 DEF poll_timeout
  <2>4. Deadline(n) \in Nat \cup {Never}
    BY <2>3, DeadlineType DEF TypeOK
  <2> QED
    BY <1>3, <2>1, <2>3, <2>4 DEF TypeOK, sched_poll_timeout, Goto
<1>4. ASSUME NEW t \in Threads, epoll_wait(t)
      PROVE  TypeOK'
  BY <1>4 DEF TypeOK, epoll_wait, Goto
<1>5. ASSUME NEW t \in Threads, interrupted(t)
      PROVE  TypeOK'
  <2>1. Deadline(timeout[t]) \in Nat \cup {Never}
    BY DeadlineType DEF TypeOK
  <2>2. signals' \in 0 .. MaxSignals
    BY <1>5, TimersAssumption DEF TypeOK, interrupted
  <2> QED
    BY <1>5, <2>1, <2>2 DEF TypeOK, interrupted
<1>6. ASSUME NEW t \in Threads, sched_handle_timers(t)
      PROVE  TypeOK'
  <2>1. Timespec(0) \in Timespecs
    BY Clock
  <2> QED
    BY <1>6, <2>1 DEF TypeOK, sched_handle_timers, heap_min, Goto, RunList
<1>7. CASE tick
  BY <1>7 DEF TypeOK, tick
<1>8. CASE UNCHANGED vars
  BY <1>8 DEF TypeOK, vars
<1> QED
  BY Zenon, <1>1, <1>2, <1>3, <1>4, <1>5, <1>6, <1>7, <1>8 DEF Next

\* Every variable keeps its type; in particular async_sleep_relative() never leaves
\* more than a second of nanoseconds in tv_nsec.
THEOREM TypeCorrect == Spec => []TypeOK
<1>1. Init => TypeOK
  <2>1. Timespec(0) \in Timespecs
    BY Clock
  <2> QED
    BY <2>1, TimersAssumption DEF Init, TypeOK
<1> QED
  BY <1>1, StepTypes, PTL DEF Spec

\* sched_handle_timers() wakes no coroutine a millisecond before its time, whatever
\* the length of a second and of an int.
THEOREM NeverEarly == Spec => NotEarly
<1> DEFINE A == \A c \in heap \ heap' : Ns(time[c]) - now < NsPerMs
<1>1. TypeOK /\ [Next]_vars => [A]_vars
  <2> SUFFICES ASSUME TypeOK, Next, NEW c \in heap, c \notin heap'
               PROVE  Ns(time[c]) - now < NsPerMs
    OBVIOUS
  <2>1. PICK t \in Threads : sched_handle_timers(t)
    BY Zenon DEF Next, async_sleep_relative, async_sleep_absolute, sched_wait,
           sched_poll_timeout, epoll_wait, interrupted, tick
  <2>2. timer_expiration(time[c], Timespec(now)) <= 0
    BY <2>1 DEF sched_handle_timers
  <2>3. time[c] \in Timespecs /\ now \in Nat
    BY DEF TypeOK
  <2> QED
    BY <2>2, <2>3, Expired
<1> QED
  BY <1>1, TypeCorrect, PTL DEF Spec, NotEarly

\* The timers are that close together that their seconds differ by an int.
Near == \A c, d \in heap : time[d].sec - time[c].sec <= IntMax

\* As long as no two timers are further apart than an int counts seconds (68 years),
\* timer_compare() orders them by time.
THEOREM OrderedByTime == Spec => [](Near => OrderAgrees)
<1>1. TypeOK /\ Near => OrderAgrees
  BY CompareAgrees DEF TypeOK, Near, OrderAgrees
<1> QED
  BY <1>1, TypeCorrect, PTL

----------------------------------------------------------------------------

\* ... and from above.
LEMMA RoundsUp ==
    ASSUME NEW a \in Int, NEW b \in Nat \ {0}
    PROVE  b * cdiv(a, b) < a + b
<1>1. CASE a >= 0
  <2>1. a \in Nat
    BY <1>1
  <2>2. /\ a \div b \in Nat
        /\ a % b \in 0 .. b - 1
        /\ a = b * (a \div b) + (a % b)
    BY Zenon, <2>1, DivMod
  <2> QED
    BY <1>1, <2>2, SMT DEF cdiv
<1>2. CASE a < 0
  <2>1. -a \in Nat
    BY <1>2
  <2>2. /\ (-a) \div b \in Nat
        /\ (-a) % b \in 0 .. b - 1
        /\ -a = b * ((-a) \div b) + ((-a) % b)
    BY Zenon, <2>1, DivMod
  <2> DEFINE q == (-a) \div b
  <2>3. b * (-q) = -(b * q)
    BY <2>2, SMT
  <2> QED
    BY <1>2, <2>2, <2>3, SMT DEF cdiv
<1> QED
  BY <1>1, <1>2

\* The timeout for a timer ends less than a millisecond after it.
LEMMA TimeoutShort ==
    ASSUME NEW ts \in Timespecs, NEW n \in Nat
    PROVE  NsPerMs * timer_expiration(ts, Timespec(n)) < Ns(ts) - n + NsPerMs
<1> DEFINE k == Timespec(n)
           D == ts.sec - k.sec
           x == ts.nsec - k.nsec
           q == cdiv(x, NsPerMs)
<1>1. /\ k \in Timespecs
      /\ Ns(k) = n
  BY Clock
<1>2. D \in Int /\ x \in Int /\ NsPerMs \in Nat \ {0} /\ MsPerSec \in Nat \ {0}
  BY <1>1, Scale, TimersAssumption, SMT DEF Timespecs
<1>3. q \in Int /\ NsPerMs * q < x + NsPerMs
  BY <1>2, CDiv, RoundsUp
<1>4. timer_expiration(ts, k) = D * MsPerSec + q
  BY DEF timer_expiration
<1>5. Ns(ts) - n = D * NsPerSec + x
  BY <1>1, Scale, SMT DEF Ns, Timespecs
<1> HIDE DEF k, D, x, q
<1>6. NsPerMs * (D * MsPerSec + q) = D * NsPerSec + NsPerMs * q
  BY <1>2, <1>3, SMT DEF NsPerSec
<1>7. D * NsPerSec \in Int /\ NsPerMs * q \in Int
  BY <1>2, <1>3, Scale, SMT
<1>8. NsPerMs * timer_expiration(ts, k) < Ns(ts) - n + NsPerMs
  BY <1>2, <1>3, <1>4, <1>5, <1>6, <1>7, SMT
<1> QED
  BY <1>8 DEF k

\* Span(c) is the length of c's sleep in milliseconds, rounded up.
LEMMA SpanIsLength ==
    ASSUME TypeOK, NEW c \in Coros
    PROVE  /\ Due(c) \in Nat
           /\ Due(c) >= since[c] /\ Due(c) >= Ns(time[c])
           /\ Span(c) \in Nat
           /\ \A e \in Nat : e * NsPerMs < Due(c) - since[c] + NsPerMs => e <= Span(c)
<1>1. time[c] \in Timespecs /\ since[c] \in Nat /\ NsPerMs \in Nat \ {0}
  BY TimersAssumption DEF TypeOK
<1>2. Ns(time[c]) \in Nat
  BY <1>1, Scale, SMT DEF Ns, Timespecs
<1>3. Due(c) \in Nat /\ Due(c) >= since[c] /\ Due(c) >= Ns(time[c])
  BY <1>1, <1>2, SMT DEF Due
<1> DEFINE w == Due(c) - since[c] + NsPerMs - 1
<1>4. w \in Nat
  BY <1>1, <1>3, SMT
<1>5. /\ w \div NsPerMs \in Nat
      /\ w % NsPerMs \in 0 .. NsPerMs - 1
      /\ w = NsPerMs * (w \div NsPerMs) + (w % NsPerMs)
  BY Zenon, <1>1, <1>4, DivMod
<1>6. Span(c) = w \div NsPerMs
  BY DEF Span
<1>7. ASSUME NEW e \in Nat, e * NsPerMs < Due(c) - since[c] + NsPerMs
      PROVE  e <= Span(c)
  <2>1. e * NsPerMs <= w
    BY <1>1, <1>3, <1>7, SMT
  <2> HIDE DEF w
  <2>2. e * NsPerMs < NsPerMs * (Span(c) + 1)
    BY <1>1, <1>4, <1>5, <1>6, <2>1, SMT
  <2> QED
    BY <1>1, <1>5, <1>6, <2>2, SMT
<1> QED
  BY <1>3, <1>5, <1>6, <1>7

\* A sleep has a latest end, after its time ...
LEMMA LatestType ==
    ASSUME TypeOK, NEW c \in Coros
    PROVE  Latest(c) \in Nat /\ Due(c) < Latest(c)
<1>1. Due(c) \in Nat /\ Span(c) \in Nat /\ signals \in Nat /\ NsPerMs \in Nat \ {0}
  BY SpanIsLength, TimersAssumption DEF TypeOK
<1>2. signals * Span(c) \in Nat
  BY <1>1, SMT
<1>3. (1 + signals * Span(c)) * NsPerMs \in Nat \ {0}
  BY <1>1, <1>2, SMT
<1> QED
  BY <1>1, <1>3, SMT DEF Latest

\* ... and after its start.
LEMMA LatestAfterStart ==
    TypeOK => \A c \in Coros : Latest(c) \in Nat /\ since[c] < Latest(c)
<1> SUFFICES ASSUME TypeOK, NEW c \in Coros
             PROVE  Latest(c) \in Nat /\ since[c] < Latest(c)
  OBVIOUS
<1>1. Due(c) \in Nat /\ Due(c) >= since[c] /\ Latest(c) \in Nat /\ Due(c) < Latest(c)
  BY SpanIsLength, LatestType
<1> QED
  BY <1>1, SMT DEF TypeOK

\* Length and end of a sleep depend on its timer_wait ...
LEMMA SameSleep ==
    ASSUME NEW c \in Coros, time'[c] = time[c], since'[c] = since[c]
    PROVE  Due(c)' = Due(c) /\ Span(c)' = Span(c)
BY DEF Due, Span, Ns

\* ... and its latest end on the interruptions too.
LEMMA SameLatest ==
    ASSUME NEW c \in Coros, time'[c] = time[c], since'[c] = since[c],
           signals' = signals
    PROVE  Latest(c)' = Latest(c)
BY SameSleep DEF Latest

\* heap_min() returns a timer that is not after any other.
LEMMA RootIsFirst ==
    ASSUME TypeOK, Near, NEW m \in heap_min, NEW c \in heap
    PROVE  Ns(time[m]) <= Ns(time[c])
<1>1. /\ m \in heap /\ time[m] \in Timespecs /\ time[c] \in Timespecs
      /\ timer_compare(time[c], time[m]) >= 0
      /\ time[m].sec - time[c].sec <= IntMax
  BY DEF heap_min, TypeOK, Near
<1>2. Ns(time[m]) \in Int /\ Ns(time[c]) \in Int
  BY <1>1, Scale, SMT DEF Ns, Timespecs
<1>3. CASE Ns(time[c]) < Ns(time[m])
  <2>1. timer_compare(time[c], time[m]) < 0
    BY <1>1, <1>3, CompareAgrees
  <2>2. timer_compare(time[c], time[m]) \in Int
    BY <1>1, Scale, ToIntType, SMT DEF timer_compare, Timespecs
  <2> QED
    BY <1>1, <2>1, <2>2, SMT
<1> QED
  BY <1>2, <1>3, SMT

\* A timeout that sched_poll_timeout() computes while c is in the heap fits into an
\* int and ends in time for c, although it is computed from the first timer.
LEMMA PollInTime ==
    ASSUME TypeOK, Near, TimeInv, NEW t \in Threads, NEW n \in poll_timeout(t),
           NEW c \in heap, Span(c) <= IntMax
    PROVE  /\ n \in 0 .. Span(c)
           /\ Deadline(n) # Never /\ Deadline(n) < Latest(c)
<1>1. /\ c \in Coros /\ now \in Nat /\ since[c] \in Nat /\ since[c] <= now
      /\ NsPerMs \in Nat \ {0} /\ IntMax \in Nat
      /\ now < Latest(c)
  BY TimersAssumption DEF TypeOK, TimeInv, WokenInTime
<1>2. /\ Due(c) \in Nat /\ Due(c) >= since[c] /\ Due(c) >= Ns(time[c])
      /\ Span(c) \in Nat /\ Ns(time[c]) \in Int
      /\ Latest(c) \in Nat /\ Due(c) < Latest(c)
  <2>1. Ns(time[c]) \in Int
    BY <1>1, Scale, SMT DEF Ns, Timespecs, TypeOK
  <2> QED
    BY <1>1, <2>1, SpanIsLength, LatestType
<1>3. n \in Nat /\ n <= Span(c) /\ now + n * NsPerMs < Latest(c)
  <2>1. CASE n = 0
    BY <1>1, <1>2, <2>1, SMT
  <2>2. CASE n # 0
    <3>1. PICK m \in heap_min : n = timer_expiration(time[m], Timespec(now)) /\ n >= 0
      <4>1. \A m \in heap_min : timer_expiration(time[m], Timespec(now)) \in Int
        BY <1>1, ExpirationType DEF TypeOK, heap_min
      <4> QED
        BY <2>2, <4>1 DEF poll_timeout
    <3>2. time[m] \in Timespecs /\ Ns(time[m]) \in Int /\ n \in Nat
      <4>1. time[m] \in Timespecs
        BY DEF TypeOK, heap_min
      <4> QED
        BY <1>1, <3>1, <4>1, Scale, ExpirationType, SMT DEF Ns, Timespecs
    <3>3. NsPerMs * n < Ns(time[m]) - now + NsPerMs
      BY <1>1, <3>1, <3>2, TimeoutShort
    <3>4. Ns(time[m]) <= Ns(time[c])
      BY RootIsFirst
    <3>5. NsPerMs * n = n * NsPerMs /\ n * NsPerMs \in Nat
      BY <1>1, <3>2, SMT
    <3>6. n * NsPerMs < Due(c) - since[c] + NsPerMs
      BY <1>1, <1>2, <3>2, <3>3, <3>4, <3>5, SMT
    <3>7. n <= Span(c)
      BY <1>1, <3>2, <3>6, SpanIsLength
    <3>8. Due(c) + NsPerMs <= Latest(c)
      <4>1. signals \in Nat
        BY TimersAssumption DEF TypeOK
      <4>2. signals * Span(c) \in Nat
        BY <1>2, <4>1, SMT
      <4>3. (1 + signals * Span(c)) * NsPerMs >= NsPerMs
        BY <1>1, <4>2, SMT
      <4> QED
        BY <1>1, <1>2, <4>2, <4>3, SMT DEF Latest
    <3> QED
      BY <1>1, <1>2, <3>2, <3>3, <3>4, <3>5, <3>7, <3>8, SMT
  <2> QED
    BY <2>1, <2>2
<1>4. to_int(n) = n
  BY <1>1, <1>2, <1>3, ToInt, SMT
<1>5. n * NsPerMs \in Nat
  BY <1>1, <1>3, SMT
<1> QED
  BY <1>1, <1>2, <1>3, <1>4, <1>5, SMT DEF Deadline, Never

\* sched_wait() keeps TimeInv: its thread has yet to compute a timeout.
LEMMA WaitTimes ==
    ASSUME TypeOK, TypeOK', TimeInv, NEW t \in Threads, NEW ts, sched_wait(t, ts)
    PROVE  TimeInv'
<1>1. PICK n \in Coros : n = current[t]
  BY DEF TypeOK, sched_wait
<1>2. pc[t] = "loop" /\ pc' = pc /\ now' = now /\ signals' = signals
  BY <1>1, TimersAssumption DEF TimeInv, sched_wait
<1>3. \A u \in Threads : u # t => current'[u] = current[u]
  BY DEF TypeOK, sched_wait, LeaveTo
<1>4. \A u \in Threads : current'[u] # None => pc'[u] = "loop"
  BY <1>2, <1>3 DEF TimeInv
<1>5. ASSUME NEW c \in heap', c # n
      PROVE  /\ c \in heap
             /\ since'[c] = since[c] /\ Span(c)' = Span(c) /\ Latest(c)' = Latest(c)
  <2>1. c \in heap /\ c \in Coros /\ time'[c] = time[c] /\ since'[c] = since[c]
    BY <1>1, <1>5 DEF TypeOK, sched_wait
  <2> QED
    BY <1>2, <2>1, SameSleep, SameLatest
<1>6. since'[n] = now
  BY <1>1 DEF TypeOK, sched_wait
<1>7. \A c \in heap' : since'[c] <= now'
  BY <1>2, <1>5, <1>6 DEF TimeInv, TypeOK
<1>8. now' < Latest(n)'
  <2>1. TypeOK' => (\A c \in Coros : Latest(c) \in Nat /\ since[c] < Latest(c))'
    BY LatestAfterStart, PTL
  <2> QED
    BY <1>1, <1>2, <1>6, <2>1
<1>9. WokenInTime'
  BY <1>2, <1>5, <1>8 DEF TimeInv, WokenInTime
<1>10. ASSUME NEW c \in heap'
       PROVE  \E u \in Threads : Watches(u, c)'
  BY <1>2 DEF Watches, InLoop
<1> QED
  BY <1>4, <1>7, <1>9, <1>10 DEF TimeInv

\* Every step keeps TimeInv.
LEMMA StepTimes == TypeOK /\ TypeOK' /\ Near /\ TimeInv /\ [Next]_vars => TimeInv'
<1> SUFFICES ASSUME TypeOK, TypeOK', Near, TimeInv, [Next]_vars
             PROVE  TimeInv'
  OBVIOUS
<1>1. ASSUME NEW t \in Threads, NEW ms \in Delays, async_sleep_relative(t, ms)
      PROVE  TimeInv'
  BY <1>1, WaitTimes DEF async_sleep_relative
<1>2. ASSUME NEW t \in Threads, NEW s \in 0 .. MaxSec, NEW n \in 0 .. NsPerSec - 1,
             async_sleep_absolute(t, [sec |-> s, nsec |-> n])
      PROVE  TimeInv'
  BY <1>2, WaitTimes DEF async_sleep_absolute
<1>3. ASSUME NEW t \in Threads, sched_poll_timeout(t)
      PROVE  TimeInv'
  <2>1. PICK n \in poll_timeout(t) :
             /\ timeout' = [timeout EXCEPT ![t] = n]
             /\ deadline' = [deadline EXCEPT ![t] = Deadline(n)]
    BY Zenon, <1>3 DEF sched_poll_timeout
  <2>2. /\ UNCHANGED <<now, heap, time, since, list, current, signals>>
        /\ current[t] = None /\ pc' = [pc EXCEPT ![t] = "poll"]
    BY <1>3 DEF sched_poll_timeout, InLoop, Goto
  <2>3. \A c \in heap : c \in Coros /\ Span(c)' = Span(c) /\ Latest(c)' = Latest(c)
    BY <2>2, SameSleep, SameLatest DEF TypeOK
  <2>4. ASSUME NEW c \in heap, Span(c) <= IntMax
        PROVE  Watches(t, c)'
    <3>1. /\ n \in 0 .. Span(c)
          /\ Deadline(n) # Never /\ Deadline(n) < Latest(c)
      BY <2>4, PollInTime
    <3>2. timeout'[t] = n /\ deadline'[t] = Deadline(n)
      BY <2>1 DEF TypeOK
    <3> QED
      BY <2>3, <3>1, <3>2 DEF Watches, Never
  <2>5. \A u \in Threads : current'[u] # None => pc'[u] = "loop"
    BY <2>2 DEF TimeInv, TypeOK
  <2> QED
    BY <2>2, <2>3, <2>4, <2>5 DEF TimeInv, WokenInTime
<1>4. ASSUME NEW t \in Threads, epoll_wait(t)
      PROVE  TimeInv'
  <2>1. /\ UNCHANGED <<now, heap, time, since, current, signals>>
        /\ current[t] = None /\ pc' = [pc EXCEPT ![t] = "timers"]
    BY <1>4 DEF epoll_wait, InLoop, Goto
  <2>2. \A c \in heap : c \in Coros /\ Span(c)' = Span(c) /\ Latest(c)' = Latest(c)
    BY <2>1, SameSleep, SameLatest DEF TypeOK
  <2>3. \A c \in heap : Watches(t, c)'
    BY <2>1 DEF Watches, InLoop, TypeOK
  <2>4. \A u \in Threads : current'[u] # None => pc'[u] = "loop"
    BY <2>1 DEF TimeInv, TypeOK
  <2> QED
    BY <2>1, <2>2, <2>3, <2>4 DEF TimeInv, WokenInTime
<1>5. ASSUME NEW t \in Threads, interrupted(t)
      PROVE  TimeInv'
  <2>1. /\ UNCHANGED <<now, heap, time, since, current, pc, timeout>>
        /\ signals' = signals + 1
        /\ deadline' = [deadline EXCEPT ![t] = Deadline(timeout[t])]
        /\ InLoop(t, "poll")
    BY <1>5 DEF interrupted
  <2>2. ASSUME NEW c \in heap
        PROVE  /\ c \in Coros /\ Span(c)' = Span(c) /\ Span(c) \in Nat
               /\ NsPerMs \in Nat \ {0} /\ Latest(c) \in Nat
               /\ Latest(c)' = Latest(c) + Span(c) * NsPerMs
    <3>1. c \in Coros /\ Due(c)' = Due(c) /\ Span(c)' = Span(c)
      BY <2>1, <2>2, SameSleep DEF TypeOK
    <3>2. Due(c) \in Nat /\ Span(c) \in Nat /\ signals \in Nat /\ NsPerMs \in Nat \ {0}
          /\ Latest(c) \in Nat
      BY <3>1, SpanIsLength, LatestType, TimersAssumption DEF TypeOK
    <3>3. (1 + (signals + 1) * Span(c)) * NsPerMs
             = (1 + signals * Span(c)) * NsPerMs + Span(c) * NsPerMs
      BY <3>2, SMT
    <3>4. (1 + signals * Span(c)) * NsPerMs \in Nat /\ Span(c) * NsPerMs \in Nat
      BY <3>2, SMT
    <3>5. Latest(c)' = Due(c) + (1 + (signals + 1) * Span(c)) * NsPerMs
      BY <2>1, <3>1 DEF Latest
    <3> QED
      BY <3>1, <3>2, <3>3, <3>4, <3>5, SMT DEF Latest
  <2>3. \A c \in heap : Latest(c)' \in Nat /\ Latest(c)' >= Latest(c)
    <3>1. \A c \in heap : Span(c) * NsPerMs \in Nat
      BY <2>2, SMT
    <3> QED
      BY <2>2, <3>1, SMT
  <2>4. WokenInTime'
    BY <2>1, <2>2, <2>3, SMT DEF TimeInv, WokenInTime, TypeOK
  <2>5. ASSUME NEW c \in heap, Span(c) <= IntMax, NEW u \in Threads, Watches(u, c)
        PROVE  Watches(u, c)'
    <3>1. CASE u = t
      <4>1. timeout[t] \in 0 .. Span(c)
        BY <2>1, <2>5, <3>1 DEF Watches
      <4> DEFINE n == timeout[t]
      <4>2. n \in Nat /\ n <= Span(c) /\ IntMax \in Nat /\ now \in Nat /\ now < Latest(c)
        BY <2>2, <2>5, <4>1, TimersAssumption DEF TypeOK, TimeInv, WokenInTime
      <4>3. to_int(n) = n
        BY <2>2, <2>5, <4>2, ToInt, SMT
      <4>4. deadline'[t] = Deadline(n) /\ timeout'[t] = n
        BY <2>1 DEF TypeOK
      <4> HIDE DEF n
      <4>5. n * NsPerMs <= Span(c) * NsPerMs /\ n * NsPerMs \in Nat /\ Span(c) * NsPerMs \in Nat
        BY <2>2, <4>2, SMT
      <4>6. Deadline(n) = now + n * NsPerMs
        BY <4>2, <4>3, SMT DEF Deadline
      <4>7. Deadline(n) # Never /\ Deadline(n) < Latest(c)'
        BY <2>2, <4>2, <4>5, <4>6, SMT DEF Never
      <4> QED
        BY <2>2, <3>1, <4>2, <4>4, <4>7 DEF Watches, Never
    <3>2. CASE u # t
      <4>1. deadline'[u] = deadline[u] /\ timeout' = timeout
        BY <2>1, <3>2 DEF TypeOK
      <4>2. InLoop(u, "poll")' = InLoop(u, "poll")
        BY <2>1 DEF InLoop
      <4>3. deadline[u] \in Nat \cup {Never}
        BY DEF TypeOK
      <4>4. deadline[u] < Latest(c) /\ deadline[u] # Never => deadline[u] < Latest(c)'
        BY <2>2, <2>3, <4>3, SMT
      <4> QED
        BY <2>2, <2>5, <4>1, <4>2, <4>4 DEF Watches, Never
    <3> QED
      BY <3>1, <3>2
  <2> QED
    BY <2>1, <2>2, <2>4, <2>5 DEF TimeInv
<1>6. ASSUME NEW t \in Threads, sched_handle_timers(t)
      PROVE  TimeInv'
  <2>1. /\ UNCHANGED <<now, timeout, deadline, signals>> /\ heap' \subseteq heap
        /\ current[t] = None /\ pc[t] = "timers"
        /\ (pc' = pc /\ current' = current) \/ pc' = [pc EXCEPT ![t] = "loop"]
        /\ \A u \in Threads : u # t => current'[u] = current[u]
    BY <1>6 DEF sched_handle_timers, InLoop, Goto, TypeOK
  <2>2. \A c \in heap' : time'[c] = time[c] /\ since'[c] = since[c]
    BY <1>6 DEF sched_handle_timers, TypeOK
  <2>3. \A c \in heap' :
           c \in heap /\ c \in Coros /\ Span(c)' = Span(c) /\ Latest(c)' = Latest(c)
    BY <2>1, <2>2, SameSleep, SameLatest DEF TypeOK
  <2>4. \A c \in heap' : Watches(t, c)'
    BY <2>1 DEF Watches, InLoop, TypeOK
  <2>5. \A u \in Threads : current'[u] # None => pc'[u] = "loop"
    BY ZenonT(40), <2>1 DEF TimeInv, TypeOK
  <2> QED
    BY <2>1, <2>2, <2>3, <2>4, <2>5 DEF TimeInv, WokenInTime
<1>7. CASE tick
  <2>1. /\ UNCHANGED <<heap, time, since, current, pc, timeout, deadline, signals>>
        /\ now' = now + 1
        /\ \A t \in Threads : InLoop(t, "poll") /\ (deadline[t] = Never \/ now < deadline[t])
    BY <1>7 DEF tick
  <2>2. \A c \in heap : c \in Coros /\ Span(c)' = Span(c) /\ Latest(c)' = Latest(c)
    BY <2>1, SameSleep, SameLatest DEF TypeOK
  <2>3. \A c \in heap, t \in Threads : Watches(t, c)' = Watches(t, c)
    BY <2>1, <2>2 DEF Watches, InLoop, Never
  <2>4. ASSUME NEW c \in heap, Span(c) <= IntMax
        PROVE  now' < Latest(c)
    <3>1. PICK t \in Threads : Watches(t, c)
      BY <2>4 DEF TimeInv
    <3>2. deadline[t] \in Nat /\ now < deadline[t] /\ deadline[t] < Latest(c)
      BY <2>1, <3>1 DEF Watches, TypeOK
    <3> QED
      BY <2>1, <2>2, <3>2, LatestType, SMT DEF TypeOK
  <2>5. \A c \in heap : since[c] <= now'
    BY <2>1 DEF TimeInv, TypeOK
  <2> QED
    BY Zenon, <2>1, <2>2, <2>3, <2>4, <2>5 DEF TimeInv, WokenInTime
<1>8. CASE UNCHANGED vars
  <2>1. UNCHANGED <<now, heap, time, since, current, pc, timeout, deadline, signals>>
    BY <1>8 DEF vars
  <2>2. \A c \in heap : c \in Coros /\ Span(c)' = Span(c) /\ Latest(c)' = Latest(c)
    BY <2>1, SameSleep, SameLatest DEF TypeOK
  <2>3. \A c \in heap, t \in Threads : Watches(t, c)' = Watches(t, c)
    BY <2>1, <2>2 DEF Watches, InLoop, Never
  <2> QED
    BY Zenon, <2>1, <2>2, <2>3 DEF TimeInv, WokenInTime
<1> QED
  BY Zenon, <1>1, <1>2, <1>3, <1>4, <1>5, <1>6, <1>7, <1>8 DEF Next

\* TimeInv is inductive as long as timer_compare() does not overflow.
THEOREM TimeInvariance == Spec /\ []Near => []TimeInv
<1>1. Init => TimeInv
  BY DEF Init, TimeInv, WokenInTime
<1> QED
  BY <1>1, StepTimes, TypeCorrect, PTL DEF Spec

\* A sleep whose milliseconds fit into an int ends less than a millisecond late, plus
\* its own length for every EINTR that makes platform_poll_poll() start again.
THEOREM NeverLate == Spec /\ []Near => []WokenInTime
BY TimeInvariance, PTL DEF TimeInv
=============================================================================
