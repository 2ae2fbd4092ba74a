---------------------------- MODULE SchedulerInv ----------------------------
(***************************************************************************)
(* The inductive invariant of Scheduler: what is true between any two      *)
(* steps, in enough detail that every step preserves it.                   *)
(***************************************************************************)
EXTENDS Scheduler

Asleep == {"BLOCKING", "BLOCKED"}

\* Inside sched_suspend() or just out of it.
Suspending == {"suspend", "cmpxchg", "resume"}

\* About to call sched_schedule(), or to start a thread, for coro[d].
Waking(d) == pc[d] \in {"fetch_add", "schedule"}

\* Where the coroutines are: a coroutine off the processor has stopped in
\* sched_resched(), in sched_suspend() or before its first step; an event loop in
\* sched_resched() or before its first step.
Labels ==
    /\ \A c \in Coros : pc[c] \in UserPC \cup {"free"}
    /\ \A c \in Coros : pc[c] \notin {"free", "user", "resume"} => OnCpu(c)
    /\ \A t \in Threads : pc[t] \in LoopPC \cup {"free"}
    /\ \A t \in Threads : pc[t] \notin {"free", "loop"} => stack[t] = t
    /\ \A t \in Threads : pc[t] = "free" <=> stack[t] = NoCoro
    /\ \A t \in Threads : stack[t] = NoCoro => run_list[t] = <<>>
    /\ pc[MainCoro] # "free"
    /\ \A t \in Threads : glock = t => pc[t] = "schedule"

\* What the local variable coro[d] points to.
Pointers ==
    /\ \A d \in Coros : pc[d] = "cmpxchg" => coro[d] \in AllCoros
    /\ \A d \in AllCoros : Waking(d) => coro[d] \in Coros

\* A coroutine is in one place at most, an event loop on its own thread, one that
\* is BLOCKED nowhere.
Places ==
    /\ SingleOwner
    /\ \A t, u \in Threads :
          /\ stack[t] = u => u = t
          /\ u \in Range(run_list[t]) => u = t
          /\ InHand(t, u) => u = t
    /\ \A t \in Threads : stack[t] # NoCoro =>
          stack[t] = t \/ InHand(t, t) \/ t \in Range(run_list[t])
    /\ \A c \in Coros : state[c] = "BLOCKED" =>
          /\ ~OnCpu(c) /\ ~Queued(c)
          /\ \A t \in Threads : ~InHand(t, c)

\* A coroutine that is nowhere is BLOCKED.
NotLost ==
    \A c \in Coros :
       /\ pc[c] # "free" /\ ~OnCpu(c) /\ ~Queued(c)
       /\ \A t \in Threads : ~InHand(t, c)
       => state[c] = "BLOCKED"

\* The wait record on c's stack, by where c is.
WaitRecords ==
    \A c \in Coros :
       /\ pc[c] \in {"free", "user", "fetch_add", "schedule"} => wait[c] = "none"
       /\ pc[c] = "register" =>
             wait[c] = "event" /\ state[c] = "BLOCKING" /\ c \in waiter
       /\ pc[c] \in {"push", "pushing"} => wait[c] = "timer" /\ state[c] = "BLOCKING"
       /\ pc[c] = "resume" => state[c] # "BLOCKING"
       /\ state[c] = "JUNK" => c = MainCoro \/ pc[c] = "free"
       /\ pc[c] = "free" => state[c] = "JUNK"
       /\ wait[c] = "none" /\ state[c] = "BLOCKING" => c = MainCoro
       /\ wait[c] = "none" /\ state[c] = "BLOCKED" =>
             c = MainCoro \/ \E d \in Coros : Waking(d) /\ coro[d] = c
       /\ c \in waiter => wait[c] = "event" /\ state[c] \in Asleep

\* Registrations with the poller and the events it has returned.
Registrations ==
    /\ \A f \in Fds : \A c \in Coros : interest[f] = c =>
          wait[c] = "event" /\ fd[c] = f /\ pc[c] \in Suspending
    /\ \A f \in armed : interest[f] \in waiter
    /\ \A c, d \in Coros :
          wait[c] = "event" /\ wait[d] = "event" /\ fd[c] = fd[d] => c = d
    /\ \A t \in Threads : \A c \in batch[t] :
          c \in waiter /\ interest[fd[c]] = c /\ fd[c] \notin armed
    /\ \A t, u \in Threads : t # u => batch[t] \cap batch[u] = {}
    /\ \A t \in Threads : batch[t] # {} => pc[t] \in {"events", "schedule"} /\ glock # t

\* The timer heap holds coroutines that sleep on a timer.
Timers ==
    \A c \in timer_heap :
       wait[c] = "timer" /\ pc[c] \in Suspending /\ state[c] \in Asleep

\* A pending call of sched_schedule(): by an event loop, for a coroutine whose wait
\* is over and that no one else is going to wake; by a creator, for a new one.
Wakers ==
    /\ \A t \in Threads : pc[t] = "schedule" =>
          LET c == coro[t] IN
          /\ wait[c] # "none" /\ pc[c] \in Suspending /\ state[c] \in Asleep
          /\ c \notin waiter /\ c \notin timer_heap
          /\ wait[c] = "timer" => c \in expired
          /\ wait[c] = "event" => c \in events
    /\ \A d \in Coros : Waking(d) =>
          /\ pc[coro[d]] = "user" /\ state[coro[d]] = "BLOCKED"
          /\ coro[d] # MainCoro
    /\ \A d, e \in AllCoros : Waking(d) /\ Waking(e) /\ coro[d] = coro[e] => d = e

\* A coroutine that sleeps in a wait has a waker; one that has been woken has what
\* it waited for.
Woken ==
    \A c \in Coros : wait[c] # "none" /\ pc[c] \in Suspending =>
       /\ state[c] \in Asleep => HasWaker(c)
       /\ state[c] \notin Asleep =>
             c \in (IF wait[c] = "timer" THEN expired ELSE events)

IInv ==
    /\ TypeOK /\ Labels /\ Pointers /\ CurrentCoro /\ SlotExclusive
    /\ Places /\ NotLost
    /\ WaitRecords /\ Registrations /\ Timers /\ Wakers /\ Woken
=============================================================================
