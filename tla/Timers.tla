------------------------------- MODULE Timers -------------------------------
(***************************************************************************)
(* What Scheduler abstracts to "expired or not": the arithmetic of         *)
(* async_sleep_relative(), timer_compare(), timer_expiration() and         *)
(* sched_poll_timeout(), and the timeout that platform_poll_poll() hands   *)
(* to epoll_wait() as an int, with a clock.  Times are timespecs; a second *)
(* has MsPerSec milliseconds of NsPerMs nanoseconds, and an int ends at    *)
(* IntMax.  Computing takes no time here; only waiting does (tick).  The   *)
(* clock is not set while the program runs.                                *)
(***************************************************************************)
EXTENDS Integers, FiniteSets

CONSTANTS
    Threads,    \* threads with an event loop
    Coros,      \* coroutines that sleep
    None,       \* no coroutine, no thread
    NsPerMs, MsPerSec,
    IntMax,     \* the largest int
    Delays,     \* bound on the arguments of async_sleep_relative()
    MaxSec,     \* bound on the arguments of async_sleep_absolute()
    MaxTime,    \* bound on the clock
    MaxSignals  \* bound on the signals that interrupt epoll_wait()

NsPerSec == MsPerSec * NsPerMs

ASSUME TimersAssumption ==
    /\ NsPerMs \in Nat \ {0} /\ MsPerSec \in Nat \ {0}
    /\ IntMax \in Nat /\ NsPerSec <= IntMax
    /\ Delays \subseteq Nat /\ MaxSec \in Nat
    /\ MaxTime \in Nat /\ MaxSignals \in Nat
    /\ None \notin Coros \cup Threads

VARIABLES
    now,       \* CLOCK_REALTIME in nanoseconds
    heap,      \* coroutines whose timer_wait is in the timer heap
    time,      \* per coroutine: the timespec of its timer_wait
    since,     \* per coroutine: when it called sched_wait()
    list,      \* per coroutine: the thread on whose run list it is, or None
    current,   \* per thread: the coroutine it executes; None: its event loop
    pc,        \* per thread: where its event loop is
    timeout,   \* per thread: sched_poll_timeout()'s last result
    deadline,  \* per thread: when epoll_wait() times out
    signals    \* signals that have interrupted epoll_wait()

vars == <<now, heap, time, since, list, current, pc, timeout, deadline, signals>>

Never == -1

\* nsec may be NsPerSec: see carry.
Timespecs == [sec : Nat, nsec : 0 .. NsPerSec]

\* A timespec in nanoseconds, and clock_gettime().
Ns(ts) == ts.sec * NsPerSec + ts.nsec
Timespec(ns) == [sec |-> ns \div NsPerSec, nsec |-> ns % NsPerSec]

\* C's division, which truncates.
cdiv(a, b) == IF a >= 0 THEN a \div b ELSE -((-a) \div b)

\* The conversion of a long to an int.
to_int(n) == ((n + IntMax + 1) % (2 * (IntMax + 1))) - (IntMax + 1)

\* The nanoseconds decide.
Bug_timer_compare(t1, t2) ==
    IF t1.nsec # t2.nsec THEN to_int(t1.nsec - t2.nsec) ELSE to_int(t1.sec - t2.sec)
timer_compare(t1, t2) ==
    IF t1.sec # t2.sec THEN to_int(t1.sec - t2.sec) ELSE to_int(t1.nsec - t2.nsec)

\* The nanoseconds are left out.
Bug_timer_expiration(ts, clock) == (ts.sec - clock.sec) * MsPerSec
timer_expiration(ts, clock) ==
    (ts.sec - clock.sec) * MsPerSec + cdiv(ts.nsec - clock.nsec, NsPerMs)

\* The last of the timers.
Bug_heap_min == {c \in heap : \A d \in heap : timer_compare(time[d], time[c]) <= 0}
\* The timers heap_min() may return: heap_push() and heap_pop_min() keep one at the
\* root than which none is less.
heap_min == {c \in heap : \A d \in heap : timer_compare(time[d], time[c]) >= 0}

Init ==
    /\ now = 0
    /\ heap = {}
    /\ time = [c \in Coros |-> Timespec(0)]
    /\ since = [c \in Coros |-> 0]
    /\ list \in [Coros -> Threads]
    /\ current = [t \in Threads |-> None]
    /\ pc = [t \in Threads |-> "loop"]
    /\ timeout = [t \in Threads |-> 0]
    /\ deadline = [t \in Threads |-> Never]
    /\ signals = 0

InLoop(t, l) == current[t] = None /\ pc[t] = l

Goto(t, l) == pc' = [pc EXCEPT ![t] = l]

RunList(t) == {c \in Coros : list[c] = t}

----------------------------------------------------------------------------
(* Coroutines.                                                             *)

\* The running coroutine leaves the thread to another one or to the event loop.
LeaveTo(t, lists) ==
    \E n \in {c \in Coros : lists[c] = t} \cup {None} :
       /\ current' = [current EXCEPT ![t] = n]
       /\ list' = [c \in Coros |-> IF c = n THEN None ELSE lists[c]]

\* sched_wait()
sched_wait(t, ts) ==
    LET c == current[t] IN
    /\ c # None
    /\ time' = [time EXCEPT ![c] = ts]
    /\ since' = [since EXCEPT ![c] = now]
    /\ heap' = heap \cup {c}
    /\ LeaveTo(t, list)
    /\ UNCHANGED <<now, pc, timeout, deadline, signals>>

\* No carry.
Bug_carry(ts) == ts
\* The test is for more than a second of nanoseconds.
carry(ts) ==
    IF ts.nsec > NsPerSec THEN [sec |-> ts.sec + 1, nsec |-> ts.nsec - NsPerSec] ELSE ts

async_sleep_relative(t, millisecs) ==
    LET clock == Timespec(now) IN
    sched_wait(t, carry([sec |-> clock.sec + millisecs \div MsPerSec,
                         nsec |-> clock.nsec + (millisecs % MsPerSec) * NsPerMs]))

async_sleep_absolute(t, ts) == sched_wait(t, ts)

----------------------------------------------------------------------------
(* The event loop.                                                         *)

\* The timers are forgotten.
Bug_poll_timeout(t) == IF RunList(t) # {} THEN {0} ELSE {-1}
\* What sched_poll_timeout() may return.
poll_timeout(t) ==
    IF RunList(t) # {} THEN {0}
    ELSE IF heap = {} THEN {-1}
    ELSE LET left == {timer_expiration(time[c], Timespec(now)) : c \in heap_min}
         IN {IF e < 0 THEN 0 ELSE e : e \in left}

\* epoll_wait() starts with timeout n: negative is for ever.
Deadline(n) == IF to_int(n) < 0 THEN Never ELSE now + to_int(n) * NsPerMs

sched_poll_timeout(t) ==
    /\ InLoop(t, "loop")
    /\ \E n \in poll_timeout(t) :
          /\ timeout' = [timeout EXCEPT ![t] = n]
          /\ deadline' = [deadline EXCEPT ![t] = Deadline(n)]
    /\ Goto(t, "poll")
    /\ UNCHANGED <<now, heap, time, since, list, current, signals>>

\* epoll_wait() returns: it has timed out, or there are events.
epoll_wait(t) ==
    /\ InLoop(t, "poll")
    /\ deadline' = [deadline EXCEPT ![t] = Never]
    /\ Goto(t, "timers")
    /\ UNCHANGED <<now, heap, time, since, list, current, timeout, signals>>

\* EINTR: epoll_wait() is called again with the whole timeout.
interrupted(t) ==
    /\ InLoop(t, "poll")
    /\ signals < MaxSignals
    /\ signals' = signals + 1
    /\ deadline' = [deadline EXCEPT ![t] = Deadline(timeout[t])]
    /\ UNCHANGED <<now, heap, time, since, list, current, pc, timeout>>

(***************************************************************************)
(* sched_handle_timers(), a round of its loop: the first timer has expired *)
(* and its coroutine is put on the run list (the timer_wait dies with the  *)
(* frame of sched_wait()); or the loop goes on, with a coroutine of the    *)
(* run list if timeout is 0.                                               *)
(***************************************************************************)
sched_handle_timers(t) ==
    /\ InLoop(t, "timers")
    /\ \/ \E c \in heap_min :
             /\ timer_expiration(time[c], Timespec(now)) <= 0
             /\ heap' = heap \ {c}
             /\ time' = [time EXCEPT ![c] = Timespec(0)]
             /\ since' = [since EXCEPT ![c] = 0]
             /\ list' = [list EXCEPT ![c] = t]
             /\ UNCHANGED <<current, pc>>
       \/ /\ \/ heap = {}
             \/ \E c \in heap_min : timer_expiration(time[c], Timespec(now)) > 0
          /\ IF timeout[t] = 0 /\ RunList(t) # {}
             THEN \E c \in RunList(t) :
                     /\ current' = [current EXCEPT ![t] = c]
                     /\ list' = [list EXCEPT ![c] = None]
             ELSE UNCHANGED <<current, list>>
          /\ Goto(t, "loop")
          /\ UNCHANGED <<heap, time, since>>
    /\ UNCHANGED <<now, timeout, deadline, signals>>

----------------------------------------------------------------------------

\* Time passes while every thread is inside epoll_wait() and none is to return.
tick ==
    /\ now < MaxTime
    /\ \A t \in Threads : InLoop(t, "poll") /\ (deadline[t] = Never \/ now < deadline[t])
    /\ now' = now + 1
    /\ UNCHANGED <<heap, time, since, list, current, pc, timeout, deadline, signals>>

Next ==
    \/ \E t \in Threads :
          \/ \E ms \in Delays : async_sleep_relative(t, ms)
          \/ \E s \in 0 .. MaxSec, n \in 0 .. NsPerSec - 1 :
                async_sleep_absolute(t, [sec |-> s, nsec |-> n])
          \/ sched_poll_timeout(t) \/ epoll_wait(t) \/ interrupted(t)
          \/ sched_handle_timers(t)
    \/ tick

Spec == Init /\ [][Next]_vars

----------------------------------------------------------------------------

TypeOK ==
    /\ now \in Nat
    /\ heap \subseteq Coros
    /\ time \in [Coros -> Timespecs]
    /\ since \in [Coros -> Nat]
    /\ list \in [Coros -> Threads \cup {None}]
    /\ current \in [Threads -> Coros \cup {None}]
    /\ pc \in [Threads -> {"loop", "poll", "timers"}]
    /\ timeout \in [Threads -> Int]
    /\ deadline \in [Threads -> Nat \cup {Never}]
    /\ signals \in 0 .. MaxSignals

\* "Suspend the calling coroutine until the given absolute timeout expires": although
\* timer_expiration() divides towards zero, no sleep ends a millisecond early.
NotEarly ==
    [][\A c \in heap \ heap' : Ns(time[c]) - now < NsPerMs]_vars

\* timer_compare() orders the timers by time, although async_sleep_relative() may
\* leave a whole second in tv_nsec.
OrderAgrees ==
    \A c, d \in heap :
       Ns(time[c]) < Ns(time[d]) => timer_compare(time[c], time[d]) < 0

\* The time c is to be woken, and the milliseconds it sleeps, rounded up.
Due(c) == IF Ns(time[c]) < since[c] THEN since[c] ELSE Ns(time[c])
Span(c) == (Due(c) - since[c] + NsPerMs - 1) \div NsPerMs

\* A millisecond late, and as much again for every interruption.
Latest(c) == Due(c) + (1 + signals * Span(c)) * NsPerMs

\* A sleep that fits into the int that epoll_wait() takes ends less than a millisecond
\* late (timer_expiration() rounds up if the nanoseconds have to borrow a second),
\* whatever the other event loops do and however long the other sleeps are, except
\* that every EINTR may add its length: the poller starts again with the whole timeout.
WokenInTime ==
    \A c \in heap : Span(c) <= IntMax => now < Latest(c)

\* If thread t is inside epoll_wait() it comes back in time for c.
Watches(t, c) ==
    InLoop(t, "poll") =>
       /\ deadline[t] # Never /\ deadline[t] < Latest(c)
       /\ timeout[t] \in 0 .. Span(c)

\* The reason: some event loop, the one that ran after c had called sched_wait(), has
\* taken c's timer into account.
TimeInv ==
    /\ \A t \in Threads : current[t] # None => pc[t] = "loop"
    /\ \A c \in heap : since[c] <= now
    /\ WokenInTime
    /\ \A c \in heap : Span(c) <= IntMax => \E t \in Threads : Watches(t, c)
=============================================================================
