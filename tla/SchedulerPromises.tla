-------------------------- MODULE SchedulerPromises -------------------------
(***************************************************************************)
(* What the scheduler promises its callers: that it implements the         *)
(* abstract coroutines of scheduler.h, and that they make progress.        *)
(***************************************************************************)
EXTENDS Scheduler

----------------------------------------------------------------------------
(* The scheduler implements Coroutines.                                    *)

\* c is inside sched_event_wait() or sched_wait() and has not been woken.
Waiting(c) == wait[c] # "none" /\ state[c] \in {"BLOCKING", "BLOCKED"}

statusBar ==
    [c \in Coros |->
        IF pc[c] = "free" THEN "free"
        ELSE IF Waiting(c) THEN "blocked"
        ELSE IF OnCpu(c) THEN "running"
        ELSE IF c = MainCoro /\ state[c] = "BLOCKED" THEN "blocked"
        ELSE "ready"]

occurredBar ==
    {c \in Coros : Waiting(c) /\ IF wait[c] = "timer" THEN c \in expired
                                 ELSE fd[c] \in ready}

Abstract == INSTANCE Coroutines WITH
    Processors <- LocalSize, status <- statusBar, occurred <- occurredBar

\* The detailed scheduler is one that scheduler.h describes: a blocked coroutine
\* becomes runnable only after what it waits for has happened, and at most
\* local_size coroutines run.
ImplementsCoroutines == Abstract!Spec

----------------------------------------------------------------------------
(* Liveness.                                                               *)

(***************************************************************************)
(* Every thread is scheduled by the kernel; a mutex is not denied for ever *)
(* to a thread that keeps asking for it; coroutines are cooperative: one   *)
(* that keeps running user code yields or returns sooner or later; the     *)
(* loop of sched_handle_timers() does not find yet another expired timer   *)
(* for ever; time passes.  Nothing is assumed of the file descriptors.     *)
(***************************************************************************)
Yield(t) == stack[t] # t /\ (sched_resched(t) \/ sched_coro_die(t))

LeaveTimers(t) ==
    (check_timers(t) \/ sched_handle_timers(t)) /\ pc'[t] \in {"resched", "loop"}

Fairness ==
    /\ \A t \in Threads :
          /\ WF_vars(UserStep(t) \/ LoopStep(t))
          /\ SF_vars(lock_to_push(t) \/ sched_handle_timers(t))
          /\ SF_vars(Yield(t))
          /\ SF_vars(LeaveTimers(t))
    /\ \A c \in Coros : WF_vars(time_passes(c))

FairSpec == Spec /\ Fairness

\* "It will run at some point in the future": a coroutine runs again that is on a
\* run list, that waits for a time, or that waits for a descriptor on which an
\* event is pending; whichever thread's event loop notices, and whatever timeout
\* the other ones sleep with.
CoroutinesResume ==
    \A c \in Coros :
       (Queued(c) \/ wait[c] = "timer" \/ (wait[c] = "event" /\ fd[c] \in ready))
          ~> (OnCpu(c) /\ wait[c] = "none")
=============================================================================
