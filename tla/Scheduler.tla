----------------------------- MODULE Scheduler -----------------------------
(***************************************************************************)
(* The coroutine scheduler of scheduler.c with the epoll poller            *)
(* (platform/poll_epoll.c) it drives, in the default build: no             *)
(* SCHED_PREEMPTION, no SCHED_WORK_STEALING.                               *)
(*                                                                         *)
(* Every processor is a thread with its own local_sched.  A thread         *)
(* executes on the stack of one coroutine at a time; the program counter   *)
(* and the local variables belong to the coroutine, because a coroutine    *)
(* woken by another thread continues there.  An action holds at most one   *)
(* access to memory that other threads see (an atomic on coroutine.state,  *)
(* wait.coro or local_count, a system call on the poller, or an access to  *)
(* the timer heap); run lists are touched by their own thread only and     *)
(* their accesses are folded into the neighbouring shared one.             *)
(*                                                                         *)
(* Operators named Bug_... are faulty variants of the definition that      *)
(* follows them.  No specification uses them: substituted for it, each     *)
(* makes a property fail, which shows that the property depends on it.     *)
(***************************************************************************)
EXTENDS Integers, Sequences, FiniteSets, Functions

CONSTANTS
    Coros,      \* struct coroutine objects of user code, MainCoro included
    MainCoro,   \* the coroutine that stands for the main thread's own stack
    NoCoro,     \* NULL
    Fds,        \* file descriptors
    LocalSize,  \* gsched->local_size: the number of processors
    MaxEvents   \* MAX_EVENTS of platform/poll_epoll.c

\* Slots of gsched->local_schedulers; slot 0 is the main thread.
Threads == 0 .. LocalSize - 1

ASSUME SchedulerAssumption ==
    /\ LocalSize \in Nat \ {0}
    /\ MaxEvents \in Nat \ {0}
    /\ MainCoro \in Coros
    /\ Coros \cap Threads = {}
    /\ NoCoro \notin Coros \cup Threads

\* The event loop coroutine of thread t is identified with t.
AllCoros == Coros \cup Threads

CoroState == {"RUNNABLE", "BLOCKING", "BLOCKED"}

VARIABLES
    local_count,  \* gsched->local_count
    run_list,     \* per thread: local_sched.run_list
    current_coro, \* per thread: local_sched.current_coro
    stack,        \* per thread: the coroutine whose stack it executes on
    pc,           \* per coroutine: where it is in its code ("free": no such object)
    coro,         \* per coroutine: the coroutine a local variable of it points to
    state,        \* per user coroutine: coroutine.state
    wait,         \* per user coroutine: the wait record alive on its stack
    fd,           \* per user coroutine: event_wait.fd
    waiter,       \* user coroutines whose event_wait.coro is not NULL
    events,       \* user coroutines whose event_wait.events is not 0
    interest,     \* kernel: per descriptor, whose event_wait is its epoll key
    armed,        \* kernel: descriptors whose one-shot registration is enabled
    ready,        \* kernel: descriptors an event is pending on
    timeout,      \* per thread: timeout of sched_loop
    batch,        \* per thread: keys in events[] of platform_poll_poll, not yet handled
    full,         \* per thread: nfds = MAX_EVENTS
    timer_heap,   \* coroutines whose timer_wait is in gsched->timer_heap
    expired,      \* coroutines whose timer_wait has timer_expiration() <= 0
    glock         \* the coroutine holding gsched->lock, or NoCoro

cpuVars   == <<run_list, current_coro, stack>>
waitVars  == <<wait, fd, waiter, events>>
epollVars == <<interest, armed, ready>>
loopVars  == <<timeout, batch, full>>
timerVars == <<timer_heap, expired, glock>>
vars == <<local_count, cpuVars, pc, coro, state, waitVars, epollVars, loopVars,
          timerVars>>

UserPC == {"user", "register", "push", "pushing", "suspend", "cmpxchg", 
           "resume", "fetch_add", "schedule"}
LoopPC == {"loop", "deref", "poll", "events", "timers", "lock", "schedule",
           "resched"}
Timeouts == {"zero", "positive", "infinite"}

\* "JUNK": what malloc() left there, or what free() leaves.
StateOrJunk == CoroState \cup {"JUNK"}

----------------------------------------------------------------------------

(***************************************************************************)
(* sched_init(), called first by the main thread: one local scheduler,     *)
(* its event loop coroutine on the run list, main() running.  The state of *)
(* main's coroutine is not initialised; the one comparison made before it  *)
(* is assigned is with STATE_BLOCKING.                                     *)
(***************************************************************************)
Init ==
    /\ local_count = 1
    /\ run_list = [t \in Threads |-> IF t = 0 THEN <<0>> ELSE <<>>]
    /\ current_coro = [t \in Threads |-> IF t = 0 THEN MainCoro ELSE NoCoro]
    /\ stack = [t \in Threads |-> IF t = 0 THEN MainCoro ELSE NoCoro]
    /\ pc = [c \in AllCoros |-> IF c = MainCoro THEN "user"
                                ELSE IF c = 0 THEN "loop" ELSE "free"]
    /\ coro = [c \in AllCoros |-> NoCoro]
    /\ \E s \in {"BLOCKING", "JUNK"} :
          state = [c \in Coros |-> IF c = MainCoro THEN s ELSE "JUNK"]
    /\ wait = [c \in Coros |-> "none"]
    /\ \E f \in Fds : fd = [c \in Coros |-> f]
    /\ waiter = {} /\ events = {}
    /\ interest = [f \in Fds |-> NoCoro]
    /\ armed = {} /\ ready = {}
    /\ timeout = [t \in Threads |-> "zero"]
    /\ batch = [t \in Threads |-> {}]
    /\ full = [t \in Threads |-> FALSE]
    /\ timer_heap = {} /\ expired = {} /\ glock = NoCoro

\* Thread t executes at label l of the coroutine on whose stack it is.
At(t, l) == stack[t] # NoCoro /\ pc[stack[t]] = l

Goto(c, l) == pc' = [pc EXCEPT ![c] = l]

\* list_push_back(&local->run_list, ...) and list_pop_front(&local->run_list)
\* as the new value of run list t.
Enqueue(t, c) == run_list' = [run_list EXCEPT ![t] = Append(@, c)]
Dequeue(t) == run_list' = [run_list EXCEPT ![t] = Tail(@)]

\* context_restore(): thread t leaves its stack for c's.
SwitchTo(t, c) ==
    /\ current_coro' = [current_coro EXCEPT ![t] = c]
    /\ stack' = [stack EXCEPT ![t] = c]

----------------------------------------------------------------------------
(* Operations of a user coroutine.                                         *)

(***************************************************************************)
(* sched_resched(): go to the back of the run list, run its front.         *)
(***************************************************************************)
sched_resched(t) ==
    /\ At(t, "user") \/ At(t, "resched")
    /\ Goto(stack[t], IF stack[t] = t THEN "loop" ELSE "user")
    /\ IF run_list[t] = <<>>
       THEN UNCHANGED cpuVars
       ELSE LET next == Head(run_list[t]) IN
            /\ run_list' = [run_list EXCEPT
                                ![t] = Tail(Append(@, current_coro[t]))]
            /\ SwitchTo(t, next)
    /\ UNCHANGED <<local_count, coro, state, waitVars, epollVars, loopVars, timerVars>>

(***************************************************************************)
(* sched_event_wait(f), up to sched_prepare_to_suspend().  Its callers in  *)
(* async.c call it when f would block: whatever was pending on f is        *)
(* consumed.  They wait on f from one coroutine at a time.                 *)
(***************************************************************************)
sched_event_wait(t, f) ==
    LET c == stack[t] IN
    /\ At(t, "user")
    /\ \A d \in Coros : wait[d] = "event" => fd[d] # f
    /\ wait' = [wait EXCEPT ![c] = "event"]
    /\ fd' = [fd EXCEPT ![c] = f]
    /\ waiter' = waiter \cup {c}
    /\ events' = events \ {c}
    /\ state' = [state EXCEPT ![c] = "BLOCKING"]
    /\ ready' = ready \ {f}
    /\ Goto(c, "register")
    /\ UNCHANGED <<local_count, cpuVars, coro, interest, armed, loopVars, timerVars>>

\* The descriptor is passed as the key.
Bug_register_key(t) ==
    LET c == stack[t] IN
    /\ At(t, "register")
    /\ interest' = [interest EXCEPT ![fd[c]] = fd[c]]
    /\ armed' = armed \cup {fd[c]}
    /\ Goto(c, "suspend")
    /\ UNCHANGED <<local_count, cpuVars, coro, state, waitVars, ready, loopVars,
                   timerVars>>

(***************************************************************************)
(* platform_poll_register(): EPOLL_CTL_ADD, one-shot.                      *)
(***************************************************************************)
platform_poll_register(t) ==
    LET c == stack[t] IN
    /\ At(t, "register")
    /\ interest' = [interest EXCEPT ![fd[c]] = c]
    /\ armed' = armed \cup {fd[c]}
    /\ Goto(c, "suspend")
    /\ UNCHANGED <<local_count, cpuVars, coro, state, waitVars, ready, loopVars,
                   timerVars>>

(***************************************************************************)
(* sched_wait(), up to sched_prepare_to_suspend(); the time asked for may  *)
(* already have passed.                                                    *)
(***************************************************************************)
sched_wait(t) ==
    LET c == stack[t] IN
    /\ At(t, "user")
    /\ wait' = [wait EXCEPT ![c] = "timer"]
    /\ expired' \in {expired, expired \cup {c}}
    /\ state' = [state EXCEPT ![c] = "BLOCKING"]
    /\ Goto(c, "push")
    /\ UNCHANGED <<local_count, cpuVars, coro, fd, waiter, events, epollVars,
                   loopVars, timer_heap, glock>>

(***************************************************************************)
(* glock() of sched_wait() ...                                             *)
(***************************************************************************)
lock_to_push(t) ==
    /\ At(t, "push")
    /\ glock = NoCoro
    /\ glock' = stack[t]
    /\ Goto(stack[t], "pushing")
    /\ UNCHANGED <<local_count, cpuVars, coro, state, waitVars, epollVars,
                   loopVars, timer_heap, expired>>

(***************************************************************************)
(* ... and the end of heap_push() and gunlock().                           *)
(***************************************************************************)
heap_push(t) ==
    LET c == stack[t] IN
    /\ At(t, "pushing")
    /\ timer_heap' = timer_heap \cup {c}
    /\ glock' = NoCoro
    /\ Goto(c, "suspend")
    /\ UNCHANGED <<local_count, cpuVars, coro, state, waitVars, epollVars,
                   loopVars, expired>>

(***************************************************************************)
(* A direct call of the public sched_suspend(): nothing has set            *)
(* STATE_BLOCKING.                                                         *)
(***************************************************************************)
call_sched_suspend(t) ==
    /\ At(t, "user")
    /\ Goto(stack[t], "suspend")
    /\ UNCHANGED <<local_count, cpuVars, coro, state, waitVars, epollVars,
                   loopVars, timerVars>>

(***************************************************************************)
(* sched_suspend(), first half: the context is saved, the next coroutine   *)
(* is taken off the run list and becomes the current one; the thread is    *)
(* still on the stack of the suspending coroutine.                         *)
(***************************************************************************)
sched_suspend(t) ==
    LET c == stack[t]
        next == Head(run_list[t])
    IN
    /\ At(t, "suspend")
    /\ Dequeue(t)
    /\ coro' = [coro EXCEPT ![c] = next]
    /\ current_coro' = [current_coro EXCEPT ![t] = next]
    /\ Goto(c, "cmpxchg")
    /\ UNCHANGED <<local_count, stack, state, waitVars, epollVars, loopVars,
                   timerVars>>

\* A plain store: the comparison is forgotten.
Bug_cmpxchg(c) == TRUE
\* The comparison of context_cmpxchg_restore().
cmpxchg_succeeds(c) == state[c] = "BLOCKING"

\* The coroutine that was to run next is dropped, or stays current.
Bug_not_requeued(t, c) ==
    current_coro' = [current_coro EXCEPT ![t] = c] /\ UNCHANGED run_list
Bug_not_current(t, c) == Enqueue(t, coro[c]) /\ UNCHANGED current_coro
\* A waker was faster: c carries on.
awoken_before_sleep(t, c) ==
    current_coro' = [current_coro EXCEPT ![t] = c] /\ Enqueue(t, coro[c])

(***************************************************************************)
(* sched_suspend(), second half: context_cmpxchg_restore().  Either        *)
(* BLOCKING becomes BLOCKED and the thread leaves the stack, in one step,  *)
(* or a waker was faster and the coroutine carries on, putting the one it  *)
(* was about to switch to back on the run list.                            *)
(***************************************************************************)
context_cmpxchg_restore(t) ==
    LET c == stack[t] IN
    /\ At(t, "cmpxchg")
    /\ \/ /\ cmpxchg_succeeds(c)
          /\ state' = [state EXCEPT ![c] = "BLOCKED"]
          /\ SwitchTo(t, coro[c])
          /\ UNCHANGED run_list
       \/ /\ ~cmpxchg_succeeds(c)
          /\ awoken_before_sleep(t, c)
          /\ UNCHANGED <<state, stack>>
    /\ coro' = [coro EXCEPT ![c] = NoCoro]
    /\ Goto(c, "resume")
    /\ UNCHANGED <<local_count, waitVars, epollVars, loopVars, timerVars>>

\* The registration is left behind.
Bug_not_unregistered(f) == UNCHANGED <<interest, armed>>
\* platform_poll_unregister(): EPOLL_CTL_DEL.
platform_poll_unregister(f) ==
    /\ interest' = [interest EXCEPT ![f] = NoCoro]
    /\ armed' = armed \ {f}

(***************************************************************************)
(* After sched_suspend() returns.  sched_event_wait() removes its          *)
(* registration; in all three callers the wait record dies with the stack  *)
(* frame.                                                                  *)
(***************************************************************************)
resume(t) ==
    LET c == stack[t] IN
    /\ At(t, "resume")
    /\ \/ wait[c] = "event" /\ platform_poll_unregister(fd[c])
       \/ wait[c] # "event" /\ UNCHANGED <<interest, armed>>
    /\ wait' = [wait EXCEPT ![c] = "none"]
    /\ events' = events \ {c}
    /\ expired' = expired \ {c}
    /\ Goto(c, "user")
    /\ UNCHANGED <<local_count, cpuVars, coro, state, fd, waiter, ready,
                   loopVars, timer_heap, glock>>

\* local_count is not looked at before a slot is taken.
Bug_all_started == FALSE
all_started == local_count >= LocalSize

(***************************************************************************)
(* sched_new_coroutine(): sched_make_coro() and the load of local_count.   *)
(***************************************************************************)
sched_new_coroutine(t, n) ==
    LET c == stack[t] IN
    /\ At(t, "user")
    /\ pc[n] = "free"
    /\ state' = [state EXCEPT ![n] = "BLOCKED"]
    /\ coro' = [coro EXCEPT ![c] = n]
    /\ pc' = [pc EXCEPT ![n] = "user",
                        ![c] = IF all_started THEN "schedule" ELSE "fetch_add"]
    /\ UNCHANGED <<local_count, cpuVars, waitVars, epollVars, loopVars, timerVars>>

\* The slot is read and not taken.
Bug_slot_not_taken == UNCHANGED local_count
\* __atomic_fetch_add(&gsched->local_count, 1): the slot is the old value.
take_slot == local_count' = local_count + 1

(***************************************************************************)
(* The slow path of sched_new_coroutine(): if the slot taken is a real     *)
(* one, sched_new_local() and sched_local_start_thread() start its thread  *)
(* in sched_loop() with the new coroutine on its run list.                 *)
(***************************************************************************)
fetch_add(t) ==
    LET c == stack[t]
        slot == local_count
    IN
    /\ At(t, "fetch_add")
    /\ take_slot
    /\ \/ /\ slot >= LocalSize
          /\ Goto(c, "schedule")
          /\ UNCHANGED <<cpuVars, coro, state>>
       \/ /\ slot < LocalSize
          /\ state' = [state EXCEPT ![coro[c]] = "RUNNABLE"]
          /\ run_list' = [run_list EXCEPT ![slot] = <<coro[c]>>]
          /\ SwitchTo(slot, slot)
          /\ pc' = [pc EXCEPT ![slot] = "loop", ![c] = "user"]
          /\ coro' = [coro EXCEPT ![c] = NoCoro]
    /\ UNCHANGED <<waitVars, epollVars, loopVars, timerVars>>

\* A coroutine going to sleep is taken for one asleep.
Bug_asleep(n) == state[n] # "RUNNABLE"
\* previous_state == STATE_BLOCKED
asleep(n) == state[n] = "BLOCKED"

(***************************************************************************)
(* sched_schedule(): the atomic exchange; the coroutine goes on the run    *)
(* list of the calling thread only if it was asleep.  Called at the end of *)
(* sched_new_coroutine(), by sched_poll_event() and, under gsched->lock,   *)
(* by sched_handle_timers(), which then unlocks.                           *)
(***************************************************************************)
sched_schedule(t) ==
    LET c == stack[t]
        n == coro[c]
    IN
    /\ At(t, "schedule")
    /\ state' = [state EXCEPT ![n] = "RUNNABLE"]
    /\ \/ asleep(n) /\ Enqueue(t, n)
       \/ ~asleep(n) /\ UNCHANGED run_list
    /\ coro' = [coro EXCEPT ![c] = NoCoro]
    /\ Goto(c, IF c \in Coros THEN "user"
               ELSE IF glock = c THEN "timers" ELSE "events")
    /\ glock' = IF glock = c THEN NoCoro ELSE glock
    /\ UNCHANGED <<local_count, current_coro, stack, waitVars, epollVars,
                   loopVars, timer_heap, expired>>

(***************************************************************************)
(* A coroutine's function returns: coro_trampoline(), sched_coro_die() and *)
(* free_coro(), which frees the object and runs the front of the run list. *)
(* main() returning ends the process and is not modelled.                  *)
(***************************************************************************)
sched_coro_die(t) ==
    LET c == stack[t] IN
    /\ At(t, "user")
    /\ c # MainCoro
    /\ Goto(c, "free")
    /\ state' = [state EXCEPT ![c] = "JUNK"]
    /\ SwitchTo(t, Head(run_list[t]))
    /\ Dequeue(t)
    /\ UNCHANGED <<local_count, coro, waitVars, epollVars, loopVars, timerVars>>

----------------------------------------------------------------------------
(* The event loop, sched_loop().                                           *)

\* heap_min(&gsched->timer_heap): an expired timer sorts before the others.
heap_min ==
    IF timer_heap \cap expired # {} THEN timer_heap \cap expired ELSE timer_heap

(***************************************************************************)
(* What heap_min() may return to a caller without gsched->lock.  While     *)
(* another thread holds it the root of the heap may be any element (pop)   *)
(* or, after heap->items++ of the first push, not yet a pointer at all.    *)
(***************************************************************************)
racy_heap_min ==
    IF glock = NoCoro THEN heap_min
    ELSE timer_heap \cup (IF timer_heap = {} /\ glock \in Coros
                          THEN {NoCoro} ELSE {})

\* The run list is not looked at.
Bug_has_work(t) == FALSE
has_work(t) == run_list[t] # <<>>

(***************************************************************************)
(* sched_poll_timeout(): 0 with work on the run list, -1 without timers;   *)
(* otherwise the pointer to the first timer is read without gsched->lock   *)
(* (NoCoro stands for a wild one) ...                                      *)
(***************************************************************************)
sched_poll_timeout(t) ==
    /\ At(t, "loop")
    /\ \/ /\ has_work(t) \/ timer_heap = {}
          /\ timeout' = [timeout EXCEPT ![t] =
                             IF has_work(t) THEN "zero" ELSE "infinite"]
          /\ Goto(t, "poll")
          /\ UNCHANGED coro
       \/ /\ ~has_work(t)
          /\ \E w \in racy_heap_min : coro' = [coro EXCEPT ![t] = w]
          /\ Goto(t, "deref")
          /\ UNCHANGED timeout
    /\ UNCHANGED <<local_count, cpuVars, state, waitVars, epollVars, batch, full,
                   timerVars>>

\* The timer_wait that w points to is alive.
LiveTimer(w) == w \in Coros /\ wait[w] = "timer"

\* A time to wait that is too large for the int that epoll_wait() takes.
Bug_expiration(w) == IF w \in expired THEN "zero" ELSE "infinite"
expiration(w) == IF w \in expired THEN "zero" ELSE "positive"

(***************************************************************************)
(* ... and timer_expiration() reads through it later.  If there is no      *)
(* timer_wait there (any more), what it computes is arbitrary.             *)
(***************************************************************************)
timer_expiration(t) ==
    LET w == coro[t] IN
    /\ At(t, "deref")
    /\ \E v \in Timeouts :
          /\ LiveTimer(w) => v = expiration(w)
          /\ timeout' = [timeout EXCEPT ![t] = v]
    /\ coro' = [coro EXCEPT ![t] = NoCoro]
    /\ Goto(t, "poll")
    /\ UNCHANGED <<local_count, cpuVars, state, waitVars, epollVars, batch, full,
                   timerVars>>

\* Registered without EPOLLONESHOT.
Bug_disarm(S) == UNCHANGED armed
\* EPOLLONESHOT: a registration that reported an event is disabled.
disarm(S) == armed' = armed \ S

(***************************************************************************)
(* epoll_wait() of platform_poll_poll(): as many pending events as fit,    *)
(* disabling their one-shot registrations; or none, once the timeout is    *)
(* over (at once for 0, never for -1).                                     *)
(***************************************************************************)
epoll_wait(t) ==
    LET pending == armed \cap ready IN
    /\ At(t, "poll")
    /\ pending # {} \/ timeout[t] # "infinite"
    /\ \E S \in SUBSET pending :
          /\ \/ S = pending /\ Cardinality(S) <= MaxEvents
             \/ Cardinality(S) = MaxEvents
          /\ disarm(S)
          /\ batch' = [batch EXCEPT ![t] = {interest[f] : f \in S}]
          /\ full' = [full EXCEPT ![t] = Cardinality(S) = MaxEvents]
    /\ Goto(t, "events")
    /\ UNCHANGED <<local_count, cpuVars, coro, state, waitVars, interest, ready,
                   timeout, timerVars>>

(***************************************************************************)
(* sched_poll_event() for one event of the batch: take wait->coro, store   *)
(* wait->events; sched_schedule() follows.                                 *)
(***************************************************************************)
sched_poll_event(t, w) ==
    /\ At(t, "events")
    /\ w \in batch[t]
    /\ batch' = [batch EXCEPT ![t] = @ \ {w}]
    /\ waiter' = waiter \ {w}
    /\ IF w \in waiter
       THEN /\ events' = events \cup {w}
            /\ coro' = [coro EXCEPT ![t] = w]
            /\ Goto(t, "schedule")
       ELSE UNCHANGED <<events, coro, pc>>
    /\ UNCHANGED <<local_count, cpuVars, state, wait, fd, epollVars, timeout,
                   full, timerVars>>

(***************************************************************************)
(* The end of platform_poll_poll()'s batch: a full one polls again, with   *)
(* the timeout it was called with.                                         *)
(***************************************************************************)
poll_done(t) ==
    /\ At(t, "events")
    /\ batch[t] = {}
    /\ full' = [full EXCEPT ![t] = FALSE]
    /\ Goto(t, IF full[t] THEN "poll" ELSE "timers")
    /\ UNCHANGED <<local_count, cpuVars, coro, state, waitVars, epollVars,
                   timeout, batch, timerVars>>

\* sched_handle_timers() returns to sched_loop(), where timeout goes out of scope.
TimersDone(t) ==
    /\ Goto(t, IF timeout[t] = "zero" THEN "resched" ELSE "loop")
    /\ timeout' = [timeout EXCEPT ![t] = "zero"]

(***************************************************************************)
(* sched_handle_timers(): heap_empty() without the lock ...                *)
(***************************************************************************)
check_timers(t) ==
    /\ At(t, "timers")
    /\ \/ timer_heap = {} /\ TimersDone(t)
       \/ timer_heap # {} /\ Goto(t, "lock") /\ UNCHANGED timeout
    /\ UNCHANGED <<local_count, cpuVars, coro, state, waitVars, epollVars,
                   batch, full, timerVars>>

\* The first timer is popped without looking at the clock.
Bug_due == timer_heap
\* timer_expiration(timer) <= 0
due == timer_heap \cap expired

(***************************************************************************)
(* ... then, under it, heap_min() and heap_pop_min() if that has expired   *)
(* (which of several expired timers is first is left open).  The lock is   *)
(* kept until sched_schedule() is done.                                    *)
(***************************************************************************)
sched_handle_timers(t) ==
    /\ At(t, "lock")
    /\ glock = NoCoro
    /\ \/ /\ due = {}
          /\ TimersDone(t)
          /\ UNCHANGED <<coro, timer_heap, glock>>
       \/ \E w \in due :
             /\ timer_heap' = timer_heap \ {w}
             /\ coro' = [coro EXCEPT ![t] = w]
             /\ glock' = t
             /\ Goto(t, "schedule")
             /\ UNCHANGED timeout
    /\ UNCHANGED <<local_count, cpuVars, state, waitVars, epollVars, batch, full,
                   expired>>

----------------------------------------------------------------------------
(* The environment.                                                        *)

\* An event (data, a connection, an error) is pending on f.
become_ready(f) ==
    /\ ready' = ready \cup {f}
    /\ UNCHANGED <<local_count, cpuVars, pc, coro, state, waitVars, interest,
                   armed, loopVars, timerVars>>

\* The time of c's timer_wait is reached.
time_passes(c) ==
    /\ wait[c] = "timer"
    /\ expired' = expired \cup {c}
    /\ UNCHANGED <<local_count, cpuVars, pc, coro, state, waitVars, epollVars,
                   loopVars, timer_heap, glock>>

----------------------------------------------------------------------------

UserStep(t) ==
    \/ sched_resched(t)
    \/ \E f \in Fds : sched_event_wait(t, f)
    \/ platform_poll_register(t)
    \/ sched_wait(t)
    \/ lock_to_push(t)
    \/ heap_push(t)
    \/ call_sched_suspend(t)
    \/ sched_suspend(t)
    \/ context_cmpxchg_restore(t)
    \/ resume(t)
    \/ \E n \in Coros : sched_new_coroutine(t, n)
    \/ fetch_add(t)
    \/ sched_schedule(t)
    \/ sched_coro_die(t)

LoopStep(t) ==
    \/ sched_poll_timeout(t)
    \/ timer_expiration(t)
    \/ epoll_wait(t)
    \/ \E w \in Coros : sched_poll_event(t, w)
    \/ poll_done(t)
    \/ check_timers(t)
    \/ sched_handle_timers(t)

Environment ==
    \/ \E f \in Fds : become_ready(f)
    \/ \E c \in Coros : time_passes(c)

Next ==
    \/ \E t \in Threads : UserStep(t) \/ LoopStep(t)
    \/ Environment

Spec == Init /\ [][Next]_vars

----------------------------------------------------------------------------

TypeOK ==
    /\ local_count \in Nat \ {0}
    /\ run_list \in [Threads -> Seq(AllCoros)]
    /\ current_coro \in [Threads -> AllCoros \cup {NoCoro}]
    /\ stack \in [Threads -> AllCoros \cup {NoCoro}]
    /\ pc \in [AllCoros -> UserPC \cup LoopPC \cup {"free"}]
    /\ coro \in [AllCoros -> AllCoros \cup {NoCoro}]
    /\ state \in [Coros -> StateOrJunk]
    /\ wait \in [Coros -> {"none", "event", "timer"}]
    /\ fd \in [Coros -> Fds]
    /\ waiter \subseteq Coros /\ events \subseteq Coros
    /\ interest \in [Fds -> Coros \cup {NoCoro}]
    /\ armed \subseteq Fds /\ ready \subseteq Fds
    /\ timeout \in [Threads -> Timeouts]
    /\ batch \in [Threads -> SUBSET Coros]
    /\ full \in [Threads -> BOOLEAN]
    /\ timer_heap \subseteq Coros /\ expired \subseteq Coros
    /\ glock \in AllCoros \cup {NoCoro}

----------------------------------------------------------------------------
(* Safety.                                                                 *)

OnCpu(c) == \E t \in Threads : stack[t] = c

Queued(c) == \E t \in Threads : c \in Range(run_list[t])

\* Thread t has taken c off its run list to switch to, but not switched yet.
InHand(t, c) == At(t, "cmpxchg") /\ coro[stack[t]] = c

\* Someone holds a pointer to c and is going to call sched_schedule() on it.
BeingScheduled(c) ==
    \E d \in AllCoros : pc[d] \in {"fetch_add", "schedule"} /\ coro[d] = c

\* c's registration with the poller is still going to report an event, or has.
EventWaker(c) ==
    \/ interest[fd[c]] = c /\ fd[c] \in armed
    \/ \E t \in Threads : c \in batch[t]

HasWaker(c) == c \in timer_heap \/ EventWaker(c) \/ BeingScheduled(c)

\* A coroutine is executed, or waits to be executed, in one place: on the
\* processor of one thread, at one position of one run list, or in the hands of
\* one thread in sched_suspend(); nowhere once free_coro() has freed it.
SingleOwner ==
    /\ \A t, u \in Threads : stack[t] = stack[u] => t = u \/ stack[t] = NoCoro
    /\ \A t \in Threads : IsInjective(run_list[t])
    /\ \A t, u \in Threads :
          t # u => Range(run_list[t]) \cap Range(run_list[u]) = {}
    /\ \A t, u \in Threads : \A c \in AllCoros :
          InHand(t, c) /\ InHand(u, c) => t = u
    /\ \A c \in AllCoros :
          /\ OnCpu(c) => ~Queued(c)
          /\ (\E t \in Threads : InHand(t, c)) => ~OnCpu(c) /\ ~Queued(c)
          /\ pc[c] = "free" =>
                ~OnCpu(c) /\ ~Queued(c) /\ \A t \in Threads : ~InHand(t, c)

\* The handshake between sched_suspend() and sched_schedule() loses no wake-up:
\* a coroutine that is in nobody's hands is BLOCKED and something will wake it,
\* and one about to sleep already has its waker.  (The exception is main()
\* calling sched_suspend() itself on its uninitialised state.)
NoLostWakeup ==
    \A c \in Coros :
       /\ pc[c] # "free" /\ ~OnCpu(c) /\ ~Queued(c)
             /\ (\A t \in Threads : ~InHand(t, c))
          => /\ state[c] = "BLOCKED"
             /\ HasWaker(c) \/ (c = MainCoro /\ wait[c] = "none")
       /\ pc[c] \in {"suspend", "cmpxchg"} /\ state[c] = "BLOCKING"
             /\ wait[c] # "none"
          => HasWaker(c)

\* What sched_poll_event() and sched_handle_timers() find through the pointers
\* they are given is a live wait record of a coroutine that has not been woken
\* yet; sched_schedule() never finds a coroutine RUNNABLE ("we might have raced
\* with another waker" does not happen).
NoStaleWake ==
    \A c \in Coros :
       /\ c \in timer_heap =>
             wait[c] = "timer" /\ state[c] \in {"BLOCKING", "BLOCKED"}
       /\ EventWaker(c) => /\ wait[c] = "event" /\ c \in waiter
                          /\ state[c] \in {"BLOCKING", "BLOCKED"}
       /\ BeingScheduled(c) => /\ pc[c] # "free"
                              /\ state[c] \in {"BLOCKING", "BLOCKED"}
                              /\ c \notin timer_heap /\ ~EventWaker(c)

\* sched_dequeue_locked() always finds a coroutine: a started thread's event loop
\* coroutine is on that thread's processor, on its run list or in its hands, and
\* never moves to another thread.
LoopAtHome ==
    \A t \in Threads :
       /\ stack[t] # NoCoro =>
             \/ stack[t] = t
             \/ InHand(t, t)
             \/ t \in Range(run_list[t])
       /\ At(t, "suspend") \/ At(t, "user") => run_list[t] # <<>>

\* sched_get_current() names the coroutine on whose stack the thread executes,
\* except between the two halves of sched_suspend(), where nothing reads it.
CurrentCoro ==
    \A t \in Threads :
       current_coro[t] = IF At(t, "cmpxchg") THEN coro[stack[t]] ELSE stack[t]

\* "The slot we picked is exclusive": the threads that run are exactly the slots
\* handed out.
SlotExclusive == \A t \in Threads : stack[t] # NoCoro <=> t < local_count

\* local_count goes on growing when all slots are taken, but not for long: it
\* cannot overflow and hand out a slot again.
CounterBounded == local_count <= (IF LocalSize = 1 THEN 1 ELSE 2 * LocalSize - 2)

\* EPOLL_CTL_ADD in sched_event_wait() finds the descriptor unregistered (its
\* assertion holds): a registration ends before the wait that made it.
RegisterSucceeds ==
    \A t \in Threads : At(t, "register") => interest[fd[stack[t]]] = NoCoro

\* sched_wait() returns only when its time has come, sched_event_wait() only with
\* a non-zero event mask (its second assertion).
WaitsHonoured ==
    [][\A c \in Coros :
          wait[c] # "none" /\ wait'[c] = "none" =>
             c \in (IF wait[c] = "timer" THEN expired ELSE events)]_vars

(* Two statements of the repository that the code does not meet.           *)

\* "If there are coroutines on the runlist, the call should not block at all"
\* (scheduler.c, above sched_poll_timeout()), for every epoll_wait() call.
PollDoesNotBlockWork ==
    \A t \in Threads : At(t, "poll") /\ run_list[t] # <<>> => timeout[t] = "zero"

\* "Otherwise this is the expiration time of the soonest-expiring timer" (ibid.):
\* the timer_wait that timer_expiration() reads still exists.
PollReadsTimer ==
    \A t \in Threads : At(t, "deref") /\ coro[t] # NoCoro => LiveTimer(coro[t])
=============================================================================
