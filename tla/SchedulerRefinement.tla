------------------------ MODULE SchedulerRefinement -------------------------
(***************************************************************************)
(* Scheduler implements Coroutines, step by step: what every action of it  *)
(* looks like to a caller of scheduler.h, for any number of processors,    *)
(* coroutines and descriptors.  SchedulerProofs concludes.                 *)
(***************************************************************************)
EXTENDS SchedulerMoves, SchedulerPromises

----------------------------------------------------------------------------
(* What is pending for whom.                                               *)

\* What an event loop is about to wake a coroutine for has occurred: sched_event_wait()
\* consumes the events of a descriptor only when nobody waits on it.
Fired ==
    /\ \A t \in Threads : \A c \in batch[t] : fd[c] \in ready
    /\ \A t \in Threads : pc[t] = "schedule" /\ wait[coro[t]] = "event" => fd[coro[t]] \in ready

\* A step that takes nothing from the pending events and adds no waker.
LEMMA FiredSame ==
    ASSUME IInv, Fired, ready \subseteq ready',
           \A t \in Threads : batch'[t] \subseteq batch[t],
           \A t \in Threads : pc'[t] = "schedule" => pc[t] = "schedule" /\ coro'[t] = coro[t],
           \A c \in Coros : fd'[c] = fd[c] /\ (wait'[c] = "event" => wait[c] = "event")
    PROVE  Fired'
<1>1. \A t \in Threads : /\ batch[t] \subseteq Coros
                         /\ pc[t] = "schedule" => coro[t] \in Coros
  BY Zenon, Parts DEF TypeOK, Pointers, Waking, AllCoros
<1>2. \A t \in Threads : \A c \in batch'[t] : fd'[c] \in ready'
  BY Zenon, <1>1 DEF Fired
<1>3. \A t \in Threads : pc'[t] = "schedule" /\ wait'[coro'[t]] = "event" => fd'[coro'[t]] \in ready'
  BY Zenon, <1>1 DEF Fired
<1> QED
  BY Zenon, <1>2, <1>3 DEF Fired

----------------------------------------------------------------------------
(* The abstract state.                                                     *)

Statuses == {"free", "ready", "running", "blocked"}

LEMMA StatusType == statusBar \in [Coros -> Statuses]
BY Zenon DEF statusBar, Statuses

LEMMA StatusType2 == statusBar' \in [Coros -> Statuses]
BY Zenon DEF statusBar, Statuses

\* One coroutine changes its status, or none does.
LEMMA OneChanges ==
    ASSUME NEW c \in Coros, NEW s, statusBar'[c] = s,
           \A d \in Coros : d # c => statusBar'[d] = statusBar[d]
    PROVE  statusBar' = [statusBar EXCEPT ![c] = s]
BY Zenon, StatusType, StatusType2

LEMMA NoneChanges ==
    ASSUME \A d \in Coros : statusBar'[d] = statusBar[d]
    PROVE  statusBar' = statusBar
BY StatusType, StatusType2

\* How a step may leave coroutine d.
Untouched(d) ==
    /\ pc'[d] = "free" <=> pc[d] = "free"
    /\ wait'[d] = wait[d] /\ state'[d] = state[d]
    /\ OnCpu(d)' <=> OnCpu(d)

LEMMA SameStatus ==
    ASSUME NEW d \in Coros, Untouched(d)
    PROVE  statusBar'[d] = statusBar[d] /\ (Waiting(d)' <=> Waiting(d))
<1>1. Waiting(d)' <=> Waiting(d)
  BY Zenon DEF Waiting, Untouched
<1> QED
  BY Zenon, <1>1 DEF statusBar, Untouched

LEMMA SameOccurred ==
    ASSUME \A d \in Coros :
              /\ Waiting(d)' <=> Waiting(d)
              /\ Waiting(d) => /\ wait'[d] = wait[d]
                               /\ d \in expired' <=> d \in expired
                               /\ fd'[d] \in ready' <=> fd[d] \in ready
    PROVE  occurredBar' = occurredBar
BY Zenon DEF occurredBar

Still == statusBar' = statusBar /\ occurredBar' = occurredBar

\* What a step looks like from above.
Simulated == Abstract!Occur \/ Abstract!Step \/ Still

\* A step in which no coroutine changes.
LEMMA NothingHappens ==
    ASSUME \A d \in Coros : Untouched(d), UNCHANGED <<fd, ready, expired>>
    PROVE  Still
<1>1. \A d \in Coros : statusBar'[d] = statusBar[d] /\ (Waiting(d)' <=> Waiting(d))
  BY Zenon, SameStatus
<1>2. statusBar' = statusBar
  BY Zenon, <1>1, NoneChanges
<1>3. \A d \in Coros : wait'[d] = wait[d]
  BY Zenon DEF Untouched
<1>4. occurredBar' = occurredBar
  BY Zenon, <1>1, <1>3, SameOccurred
<1> QED
  BY Zenon, <1>2, <1>4 DEF Still

\* Most steps of the code are such: the coroutine on a processor goes on.
LEMMA GoesOn ==
    ASSUME IInv, NEW t \in Threads, stack[t] # NoCoro, NEW l, l # "free", Goto(stack[t], l),
           UNCHANGED <<stack, wait, state, fd, ready, expired>>
    PROVE  Still
<1>1. stack[t] \in AllCoros /\ pc[stack[t]] # "free" /\ pc \in [AllCoros -> UserPC \cup LoopPC \cup {"free"}]
  BY Zenon, Parts DEF TypeOK, Places, SingleOwner, OnCpu
<1>2. \A d \in Coros : pc'[d] = "free" <=> pc[d] = "free"
  BY Zenon, <1>1 DEF Goto, AllCoros
<1>3. \A d \in Coros : Untouched(d)
  BY Zenon, <1>2 DEF Untouched, OnCpu
<1> QED
  BY Zenon, <1>3, NothingHappens

\* Thread t leaves the stack of coroutine c for that of n.
Passes(c, n) ==
    /\ c \in AllCoros /\ n \in AllCoros /\ n # c /\ OnCpu(c) /\ ~OnCpu(n)
    /\ \A d \in AllCoros : d # c /\ d # n => (OnCpu(d)' <=> OnCpu(d))
    /\ ~OnCpu(c)' /\ OnCpu(n)'

LEMMA Passed ==
    ASSUME IInv, NEW t \in Threads, NEW c, c = stack[t], c # NoCoro,
           NEW n \in AllCoros, ~OnCpu(n), stack' = [stack EXCEPT ![t] = n]
    PROVE  Passes(c, n)
<1>1. /\ stack'[t] = n
      /\ \A u \in Threads : u # t => stack'[u] = stack[u]
  BY Zenon, Parts DEF TypeOK
<1>2. n # c /\ OnCpu(c) /\ c \in AllCoros
  BY Zenon, Parts DEF OnCpu, TypeOK
<1>3. \A u \in Threads : u # t => stack[u] # c
  BY Zenon, Parts DEF Places, SingleOwner
<1>4. \A d \in AllCoros : d # c /\ d # n => (OnCpu(d)' <=> OnCpu(d))
  BY Zenon, <1>1 DEF OnCpu
<1>5. ~OnCpu(c)' /\ OnCpu(n)'
  BY Zenon, <1>1, <1>2, <1>3 DEF OnCpu
<1> QED
  BY Zenon, <1>2, <1>4, <1>5 DEF Passes

\* A coroutine that can be continued is ready from above, and runs when it is.
LEMMA NextIsReady ==
    ASSUME IInv, NEW n \in Coros, ~OnCpu(n), pc[n] # "free", state[n] # "BLOCKED"
    PROVE  statusBar[n] = "ready" /\ ~Waiting(n)
<1>1. pc[n] \in {"user", "resume"}
  BY Zenon, Parts DEF Labels
<1>2. ~Waiting(n)
  BY Zenon, <1>1, Parts DEF Waiting, WaitRecords
<1> QED
  BY Zenon, <1>2 DEF statusBar

LEMMA NextRuns ==
    ASSUME NEW n \in Coros, ~Waiting(n), pc'[n] # "free", wait'[n] = wait[n],
           state'[n] = state[n], OnCpu(n)'
    PROVE  statusBar'[n] = "running" /\ ~Waiting(n)'
<1>1. ~Waiting(n)'
  BY Zenon DEF Waiting
<1> QED
  BY Zenon, <1>1 DEF statusBar

\* Executing user code is running.
LEMMA UserRuns ==
    ASSUME IInv, NEW c \in Coros, OnCpu(c), ~Waiting(c)
    PROVE  statusBar[c] = "running"
<1>1. pc[c] # "free"
  BY Zenon, Parts DEF Places, SingleOwner, AllCoros
<1> QED
  BY Zenon, <1>1 DEF statusBar

\* Whoever leaves the processor, n gets it and nobody else is concerned.
TakesOver(c, n) ==
    /\ \A d \in Coros : d # c /\ d # n => statusBar'[d] = statusBar[d]
    /\ n \in Coros => statusBar[n] = "ready" /\ statusBar'[n] = "running"
    /\ occurredBar' = occurredBar

LEMMA NextTakesOver ==
    ASSUME IInv, NEW c, NEW n, Passes(c, n), pc[n] # "free",
           n \in Coros => state[n] # "BLOCKED",
           NEW l, pc' = [pc EXCEPT ![c] = l], UNCHANGED <<wait, fd, ready, expired>>,
           \A d \in Coros : d # c => state'[d] = state[d],
           c \in Coros => (Waiting(c)' <=> Waiting(c))
    PROVE  TakesOver(c, n)
<1>1. c \in AllCoros /\ n \in AllCoros /\ n # c /\ ~OnCpu(n) /\ OnCpu(n)'
  BY Zenon DEF Passes
<1>2. \A d \in AllCoros : d # c => pc'[d] = pc[d]
  BY Zenon, <1>1, Parts DEF TypeOK
<1>3. \A d \in Coros : d # c /\ d # n => Untouched(d)
  BY Zenon, <1>2 DEF Untouched, Passes, AllCoros
<1>4. \A d \in Coros : d # c /\ d # n => statusBar'[d] = statusBar[d] /\ (Waiting(d)' <=> Waiting(d))
  BY Zenon, <1>3, SameStatus
<1>5. n \in Coros => /\ statusBar[n] = "ready" /\ statusBar'[n] = "running"
                     /\ ~Waiting(n) /\ ~Waiting(n)'
  <2>1. n \in Coros => statusBar[n] = "ready" /\ ~Waiting(n)
    BY Zenon, <1>1, NextIsReady
  <2>2. /\ pc'[n] # "free" /\ wait'[n] = wait[n] /\ OnCpu(n)'
        /\ n \in Coros => state'[n] = state[n]
    BY Zenon, <1>1, <1>2
  <2> QED
    BY Zenon, <2>1, <2>2, NextRuns
<1>6. occurredBar' = occurredBar
  <2>1. \A d \in Coros : Waiting(d)' <=> Waiting(d)
    BY Zenon, <1>4, <1>5
  <2> QED
    BY Zenon, <2>1, SameOccurred
<1> QED
  BY Zenon, <1>4, <1>5, <1>6 DEF TakesOver

\* From above, a coroutine leaves its processor to n, a coroutine or an event loop.
LEMMA Leaves ==
    ASSUME NEW c \in Coros, NEW n, n # c, TakesOver(c, n), NEW s,
           statusBar[c] = "running", statusBar'[c] = s,
           s \in {"ready"} \cup (IF c = MainCoro THEN {"blocked"} ELSE {"free"})
    PROVE  Simulated
<1>1. Abstract!Leave(c, s)
  <2>1. CASE n \in Coros
    <3>1. statusBar[n] = "ready" /\ statusBar'[n] = "running"
      BY Zenon, <2>1 DEF TakesOver
    <3>2. statusBar' = [statusBar EXCEPT ![c] = s, ![n] = "running"]
      BY Zenon, <2>1, <3>1, StatusType, StatusType2 DEF TakesOver
    <3> QED
      BY Zenon, <2>1, <3>1, <3>2 DEF Abstract!Leave, TakesOver
  <2>2. CASE n \notin Coros
    <3>1. \A d \in Coros : d # c => statusBar'[d] = statusBar[d]
      BY Zenon, <2>2 DEF TakesOver
    <3>2. statusBar' = [statusBar EXCEPT ![c] = s]
      BY Zenon, <3>1, OneChanges
    <3> QED
      BY Zenon, <3>2 DEF Abstract!Leave, TakesOver
  <2> QED
    BY Zenon, <2>1, <2>2
<1>2. s \in {"ready", "blocked", "free"}
  BY Zenon
<1> QED
  BY Zenon, <1>1, <1>2 DEF Abstract!Step, Simulated

\* An event loop, or a coroutine that sleeps already, leaves a processor to n.
LEMMA Runs ==
    ASSUME NEW c, NEW n, TakesOver(c, n), c \in Coros => statusBar'[c] = statusBar[c], n # c
    PROVE  Simulated
<1>1. \A d \in Coros : d # n => statusBar'[d] = statusBar[d]
  BY Zenon DEF TakesOver
<1>2. CASE n \in Coros
  <2>1. statusBar[n] = "ready" /\ statusBar'[n] = "running"
    BY Zenon, <1>2 DEF TakesOver
  <2>2. statusBar' = [statusBar EXCEPT ![n] = "running"]
    BY Zenon, <1>1, <1>2, <2>1, OneChanges
  <2>3. Abstract!Run(n)
    BY Zenon, <2>1, <2>2 DEF Abstract!Run, TakesOver
  <2> QED
    BY Zenon, <1>2, <2>3 DEF Abstract!Step, Simulated
<1>3. CASE n \notin Coros
  <2>1. statusBar' = statusBar
    BY Zenon, <1>1, <1>3, NoneChanges
  <2> QED
    BY Zenon, <2>1 DEF Still, Simulated, TakesOver
<1> QED
  BY Zenon, <1>2, <1>3

----------------------------------------------------------------------------
(* Every step.                                                             *)

\* sched_resched(): the running coroutine becomes ready, the next one runs.
LEMMA Sim_sched_resched ==
    ASSUME IInv, NEW t \in Threads, sched_resched(t)
    PROVE  Simulated
<1>1. CASE run_list[t] = <<>>
  <2>1. Still
    BY Zenon, <1>1, GoesOn DEF sched_resched, At, cpuVars, waitVars, epollVars, timerVars
  <2> QED
    BY Zenon, <2>1 DEF Simulated
<1>2. CASE run_list[t] # <<>>
  <2>0. PICK c, n : c = stack[t] /\ n = Head(run_list[t])
    OBVIOUS
  <2>1. /\ n \in AllCoros /\ ~OnCpu(n) /\ pc[n] # "free" /\ c # NoCoro
        /\ n \in Coros => state[n] # "BLOCKED"
    <3>1. n \in AllCoros /\ ~OnCpu(n) /\ n \in Range(run_list[t])
          /\ pc[n] \in {"user", "resume", "loop"} /\ c # NoCoro
      BY Zenon, <1>2, <2>0, Front
    <3> QED
      BY Zenon, <3>1, Parts DEF Places, Queued
  <2>2. /\ stack' = [stack EXCEPT ![t] = n]
        /\ pc' = [pc EXCEPT ![c] = IF c = t THEN "loop" ELSE "user"]
        /\ wait' = wait /\ state' = state /\ fd' = fd /\ ready' = ready /\ expired' = expired
        /\ pc[c] \in {"user", "resched"}
    BY Zenon, <1>2, <2>0 DEF sched_resched, At, SwitchTo, Goto, waitVars, epollVars, timerVars
  <2>3. Passes(c, n)
    BY Zenon, <2>0, <2>1, <2>2, Passed
  <2>4. c \in AllCoros /\ OnCpu(c) /\ n # c /\ ~OnCpu(c)'
    BY Zenon, <2>3 DEF Passes
  <2>5. Waiting(c)' <=> Waiting(c)
    BY Zenon, <2>2 DEF Waiting
  <2>6. TakesOver(c, n)
    BY Zenon, <2>1, <2>2, <2>3, <2>5, NextTakesOver
  <2>7. CASE c \notin Coros
    BY Zenon, <2>4, <2>6, <2>7, Runs
  <2>8. CASE c \in Coros
    <3>1. wait[c] = "none" /\ state[c] # "BLOCKED"
      <4>1. pc[c] = "user"
        BY Zenon, <2>2, <2>8, Parts DEF Labels, UserPC
      <4> QED
        BY Zenon, <2>4, <2>8, <4>1, Parts DEF WaitRecords, Places
    <3>2. ~Waiting(c) /\ ~Waiting(c)'
      BY Zenon, <2>2, <3>1 DEF Waiting
    <3>3. pc'[c] # "free"
      BY Zenon, <2>2, <2>4, Parts DEF TypeOK
    <3>4. statusBar'[c] = "ready"
      BY Zenon, <2>2, <2>4, <2>8, <3>1, <3>2, <3>3 DEF statusBar
    <3>5. statusBar[c] = "running"
      BY Zenon, <2>4, <2>8, <3>2, UserRuns
    <3> QED
      BY Zenon, <2>4, <2>6, <2>8, <3>4, <3>5, Leaves
  <2> QED
    BY Zenon, <2>7, <2>8
<1> QED
  BY Zenon, <1>1, <1>2

\* sched_event_wait() and sched_wait(): the running coroutine blocks.
LEMMA Blocks ==
    ASSUME IInv, NEW t \in Threads, At(t, "user"), NEW c, c = stack[t], NEW w,
           w \in {"event", "timer"}, wait' = [wait EXCEPT ![c] = w],
           state' = [state EXCEPT ![c] = "BLOCKING"],
           NEW l, l # "free", Goto(c, l), stack' = stack,
           \A d \in Coros : d # c =>
              /\ wait[d] = "event" => (fd'[d] \in ready' <=> fd[d] \in ready)
              /\ d \in expired' <=> d \in expired
    PROVE  Simulated
<1>1. c \in Coros /\ pc[c] = "user" /\ OnCpu(c) /\ c \in AllCoros
  BY Zenon, UserAt DEF UserOnly, UserPC
<1>2. /\ wait'[c] # "none" /\ state'[c] = "BLOCKING" /\ pc'[c] # "free"
      /\ \A d \in Coros : d # c => /\ wait'[d] = wait[d] /\ state'[d] = state[d]
                                   /\ pc'[d] = pc[d]
  BY Zenon, <1>1, Parts DEF TypeOK, Goto, AllCoros
<1>3. \A d \in Coros : d # c => statusBar'[d] = statusBar[d] /\ (Waiting(d)' <=> Waiting(d))
  <2>1. \A d \in Coros : d # c => Untouched(d)
    BY Zenon, <1>2 DEF Untouched, OnCpu
  <2> QED
    BY Zenon, <2>1, SameStatus
<1>4. ~Waiting(c) /\ Waiting(c)'
  BY Zenon, <1>1, <1>2, Parts DEF Waiting, WaitRecords
<1>5. statusBar[c] = "running" /\ statusBar'[c] = "blocked"
  <2>1. statusBar'[c] = "blocked"
    BY Zenon, <1>1, <1>2, <1>4 DEF statusBar
  <2> QED
    BY Zenon, <1>1, <1>4, <2>1, UserRuns
<1>6. statusBar' = [statusBar EXCEPT ![c] = "blocked"]
  BY Zenon, <1>1, <1>3, <1>5, OneChanges
<1>7. \A d \in Coros : d # c => (d \in occurredBar' <=> d \in occurredBar)
  <2>1. \A d \in Coros : Waiting(d) => wait[d] \in {"event", "timer"}
    BY Zenon, Parts DEF Waiting, TypeOK
  <2> QED
    BY Zenon, <1>2, <1>3, <2>1 DEF occurredBar
<1>8. c \notin occurredBar /\ occurredBar \subseteq Coros /\ occurredBar' \subseteq Coros
  BY Zenon, <1>4 DEF occurredBar
<1>9. occurredBar' \in {occurredBar, occurredBar \cup {c}}
  <2>1. CASE c \in occurredBar'
    <3>1. occurredBar' = occurredBar \cup {c}
      BY Zenon, <1>7, <1>8, <2>1
    <3> QED
      BY <3>1
  <2>2. CASE c \notin occurredBar'
    <3>1. occurredBar' = occurredBar
      BY <1>7, <1>8, <2>2
    <3> QED
      BY Zenon, <3>1
  <2> QED
    BY Zenon, <2>1, <2>2
<1>10. Abstract!Block(c)
  BY Zenon, <1>5, <1>6, <1>9 DEF Abstract!Block
<1> QED
  BY Zenon, <1>1, <1>10 DEF Abstract!Step, Simulated

LEMMA Sim_sched_event_wait ==
    ASSUME IInv, NEW t \in Threads, NEW f \in Fds, sched_event_wait(t, f)
    PROVE  Simulated
<1>0. PICK c : c = stack[t]
  OBVIOUS
<1>1. c \in Coros
  BY Zenon, <1>0, UserAt DEF sched_event_wait, UserOnly, UserPC
<1>2. /\ At(t, "user") /\ \A d \in Coros : wait[d] = "event" => fd[d] # f
      /\ wait' = [wait EXCEPT ![c] = "event"] /\ fd' = [fd EXCEPT ![c] = f]
      /\ state' = [state EXCEPT ![c] = "BLOCKING"] /\ ready' = ready \ {f}
      /\ Goto(c, "register") /\ stack' = stack /\ expired' = expired
  BY Zenon, <1>0 DEF sched_event_wait, cpuVars, timerVars
<1>3. \A d \in Coros : d # c => fd'[d] = fd[d]
  BY Zenon, <1>1, <1>2, Parts DEF TypeOK
<1>4. \A d \in Coros : d # c =>
         /\ wait[d] = "event" => (fd'[d] \in ready' <=> fd[d] \in ready)
         /\ d \in expired' <=> d \in expired
  BY <1>2, <1>3
<1> QED
  BY Zenon, <1>0, <1>2, <1>4, Blocks

LEMMA Sim_sched_wait ==
    ASSUME IInv, NEW t \in Threads, sched_wait(t)
    PROVE  Simulated
<1>0. PICK c : c = stack[t]
  OBVIOUS
<1>1. /\ At(t, "user") /\ wait' = [wait EXCEPT ![c] = "timer"] /\ fd' = fd /\ ready' = ready
      /\ state' = [state EXCEPT ![c] = "BLOCKING"]
      /\ expired' \in {expired, expired \cup {c}} /\ Goto(c, "push") /\ stack' = stack
  BY Zenon, <1>0 DEF sched_wait, cpuVars, epollVars
<1>2. \A d \in Coros : d # c => (d \in expired' <=> d \in expired)
  BY Zenon, <1>1
<1> QED
  BY Zenon, <1>0, <1>1, <1>2, Blocks

\* The steps of a wait and of sched_suspend() in which its caller goes on.
LEMMA Sim_quiet ==
    ASSUME IInv, NEW t \in Threads,
           \/ platform_poll_register(t) \/ lock_to_push(t) \/ heap_push(t)
           \/ call_sched_suspend(t) \/ sched_suspend(t)
    PROVE  Simulated
<1>1. \E l \in {"suspend", "pushing", "cmpxchg"} : stack[t] # NoCoro /\ Goto(stack[t], l)
  BY Zenon DEF platform_poll_register, lock_to_push, heap_push, call_sched_suspend,
     sched_suspend, At
<1>2. UNCHANGED <<stack, wait, state, fd, ready, expired>>
  BY Zenon DEF platform_poll_register, lock_to_push, heap_push, call_sched_suspend,
     sched_suspend, cpuVars, waitVars, epollVars, timerVars
<1>3. Still
  BY Zenon, <1>1, <1>2, GoesOn
<1> QED
  BY Zenon, <1>3 DEF Simulated

\* sched_suspend(), second half: a coroutine that waits has been blocked already and
\* gives its processor up; main() without a wait blocks.
LEMMA Sim_context_cmpxchg_restore ==
    ASSUME IInv, NEW t \in Threads, context_cmpxchg_restore(t)
    PROVE  Simulated
<1>0. PICK c, n : c = stack[t] /\ n = coro[c]
  OBVIOUS
<1>1. /\ At(t, "cmpxchg") /\ pc' = [pc EXCEPT ![c] = "resume"]
      /\ wait' = wait /\ fd' = fd /\ ready' = ready /\ expired' = expired
  BY Zenon, <1>0 DEF context_cmpxchg_restore, Goto, waitVars, epollVars, timerVars
<1>2. CASE ~cmpxchg_succeeds(c)
  <2>1. UNCHANGED <<stack, state>>
    BY Zenon, <1>0, <1>2 DEF context_cmpxchg_restore
  <2>2. Still
    BY Zenon, <1>0, <1>1, <2>1, GoesOn DEF Goto, At
  <2> QED
    BY Zenon, <2>2 DEF Simulated
<1>3. CASE cmpxchg_succeeds(c)
  <2>1. /\ state[c] = "BLOCKING" /\ state' = [state EXCEPT ![c] = "BLOCKED"]
        /\ stack' = [stack EXCEPT ![t] = n]
    BY Zenon, <1>0, <1>3 DEF context_cmpxchg_restore, cmpxchg_succeeds, SwitchTo
  <2>2. /\ c \in Coros /\ c # NoCoro /\ n \in AllCoros /\ ~OnCpu(n) /\ pc[n] # "free"
        /\ InHand(t, n) /\ pc[c] = "cmpxchg"
    BY Zenon, <1>0, <1>1, Holding, SchedulerAssumption
  <2>3. n \in Coros => state[n] # "BLOCKED"
    BY Zenon, <2>2, Parts DEF Places
  <2>4. Passes(c, n)
    BY Zenon, <1>0, <2>1, <2>2, Passed
  <2>5. n # c /\ c \in AllCoros /\ OnCpu(c) /\ ~OnCpu(c)'
    BY Zenon, <2>4 DEF Passes
  <2>6. /\ state'[c] = "BLOCKED" /\ pc'[c] = "resume" /\ wait'[c] = wait[c]
        /\ \A d \in Coros : d # c => state'[d] = state[d]
    BY Zenon, <1>1, <2>1, <2>2, <2>5, Parts DEF TypeOK
  <2>7. Waiting(c)' <=> Waiting(c)
    BY Zenon, <2>1, <2>6 DEF Waiting
  <2>8. TakesOver(c, n)
    BY Zenon, <1>1, <2>2, <2>3, <2>4, <2>6, <2>7, NextTakesOver
  <2>9. CASE wait[c] # "none"
    <3>1. Waiting(c)
      BY Zenon, <2>1, <2>9 DEF Waiting
    <3>2. statusBar[c] = "blocked" /\ statusBar'[c] = "blocked"
      BY Zenon, <2>2, <2>6, <2>7, <3>1 DEF statusBar
    <3> QED
      BY Zenon, <2>5, <2>8, <3>2, Runs
  <2>10. CASE wait[c] = "none"
    <3>1. ~Waiting(c) /\ ~Waiting(c)'
      BY Zenon, <2>7, <2>10 DEF Waiting
    <3>2. c = MainCoro
      BY Zenon, <2>1, <2>2, <2>10, Parts DEF WaitRecords
    <3>3. statusBar'[c] = "blocked"
      BY Zenon, <2>2, <2>5, <2>6, <3>1, <3>2 DEF statusBar
    <3>4. statusBar[c] = "running"
      BY Zenon, <2>2, <2>5, <3>1, UserRuns
    <3>5. "blocked" \in {"ready"} \cup (IF c = MainCoro THEN {"blocked"} ELSE {"free"})
      BY <3>2
    <3> QED
      BY Zenon, <2>2, <2>5, <2>8, <3>3, <3>4, <3>5, Leaves
  <2> QED
    BY Zenon, <2>9, <2>10
<1> QED
  BY Zenon, <1>2, <1>3

\* sched_coro_die(): the coroutine is free, the next one runs.
LEMMA Sim_sched_coro_die ==
    ASSUME IInv, NEW t \in Threads, sched_coro_die(t)
    PROVE  Simulated
<1>0. PICK c, n : c = stack[t] /\ n = Head(run_list[t])
  OBVIOUS
<1>1. /\ At(t, "user") /\ c # MainCoro /\ pc' = [pc EXCEPT ![c] = "free"]
      /\ state' = [state EXCEPT ![c] = "JUNK"] /\ stack' = [stack EXCEPT ![t] = n]
      /\ wait' = wait /\ fd' = fd /\ ready' = ready /\ expired' = expired
  BY Zenon, <1>0 DEF sched_coro_die, Goto, SwitchTo, waitVars, epollVars, timerVars
<1>2. c \in Coros /\ pc[c] = "user" /\ c # NoCoro /\ OnCpu(c) /\ c \in AllCoros
  BY Zenon, <1>0, <1>1, UserAt DEF UserOnly, UserPC
<1>3. run_list[t] # <<>>
  BY Zenon, <1>0, <1>2, UserHasNext
<1>4. n \in AllCoros /\ n \in Range(run_list[t]) /\ ~OnCpu(n) /\ pc[n] # "free"
  BY Zenon, <1>0, <1>3, Front
<1>5. n \in Coros => state[n] # "BLOCKED"
  BY Zenon, <1>4, Parts DEF Places, Queued
<1>6. Passes(c, n)
  BY Zenon, <1>0, <1>1, <1>2, <1>4, Passed
<1>7. n # c
  BY Zenon, <1>6 DEF Passes
<1>8. /\ pc'[c] = "free" /\ \A d \in Coros : d # c => state'[d] = state[d]
  BY Zenon, <1>1, <1>2, Parts DEF TypeOK
<1>9. ~Waiting(c) /\ ~Waiting(c)'
  BY Zenon, <1>1, <1>2, Parts DEF Waiting, WaitRecords
<1>10. TakesOver(c, n)
  BY Zenon, <1>1, <1>4, <1>5, <1>6, <1>8, <1>9, NextTakesOver
<1>11. statusBar[c] = "running"
  BY Zenon, <1>2, <1>9, UserRuns
<1>12. statusBar'[c] = "free"
  BY Zenon, <1>2, <1>8 DEF statusBar
<1>13. "free" \in {"ready"} \cup (IF c = MainCoro THEN {"blocked"} ELSE {"free"})
  BY <1>1
<1> QED
  BY Zenon, <1>2, <1>7, <1>10, <1>11, <1>12, <1>13, Leaves

\* The end of a wait: the coroutine has been running again since it was woken.
LEMMA Sim_resume ==
    ASSUME IInv, NEW t \in Threads, resume(t)
    PROVE  Simulated
<1>0. PICK c : c = stack[t]
  OBVIOUS
<1>1. /\ At(t, "resume") /\ wait' = [wait EXCEPT ![c] = "none"] /\ state' = state /\ fd' = fd
      /\ ready' = ready /\ expired' = expired \ {c} /\ pc' = [pc EXCEPT ![c] = "user"]
      /\ stack' = stack
  BY Zenon, <1>0 DEF resume, Goto, cpuVars
<1>2. c \in Coros /\ pc[c] = "resume" /\ OnCpu(c) /\ c \in AllCoros
  BY Zenon, <1>0, <1>1, UserAt DEF UserOnly, UserPC
<1>3. ~Waiting(c) /\ state[c] \notin Asleep
  BY Zenon, <1>2, Parts DEF WaitRecords, Places, Asleep, Waiting
<1>4. /\ wait'[c] = "none" /\ pc'[c] = "user"
      /\ \A d \in Coros : d # c => wait'[d] = wait[d] /\ pc'[d] = pc[d]
  BY Zenon, <1>1, <1>2, Parts DEF TypeOK, AllCoros
<1>5. ~Waiting(c)' /\ OnCpu(c)'
  BY Zenon, <1>1, <1>2, <1>4 DEF Waiting, OnCpu
<1>6. statusBar[c] = "running" /\ statusBar'[c] = "running"
  <2>1. statusBar'[c] = "running"
    BY Zenon, <1>2, <1>4, <1>5 DEF statusBar
  <2> QED
    BY Zenon, <1>2, <1>3, <2>1, UserRuns
<1>7. \A d \in Coros : d # c => statusBar'[d] = statusBar[d] /\ (Waiting(d)' <=> Waiting(d))
  <2>1. \A d \in Coros : d # c => Untouched(d)
    BY Zenon, <1>1, <1>4 DEF Untouched, OnCpu
  <2> QED
    BY Zenon, <2>1, SameStatus
<1>8. statusBar' = statusBar
  BY Zenon, <1>6, <1>7, NoneChanges
<1>9. occurredBar' = occurredBar
  <2>1. \A d \in Coros : d # c => (d \in expired' <=> d \in expired)
    BY Zenon, <1>1
  <2> QED
    BY Zenon, <1>1, <1>3, <1>4, <1>5, <1>7, <2>1, SameOccurred
<1> QED
  BY Zenon, <1>8, <1>9 DEF Still, Simulated

\* sched_new_coroutine(): from above, the new coroutine is ready at once.
LEMMA Sim_sched_new_coroutine ==
    ASSUME IInv, NEW t \in Threads, NEW n \in Coros, sched_new_coroutine(t, n)
    PROVE  Simulated
<1>0. PICK c, l : c = stack[t] /\ l = IF all_started THEN "schedule" ELSE "fetch_add"
  OBVIOUS
<1>1. /\ At(t, "user") /\ pc[n] = "free" /\ pc' = [pc EXCEPT ![n] = "user", ![c] = l]
      /\ state' = [state EXCEPT ![n] = "BLOCKED"] /\ l # "free"
      /\ stack' = stack /\ wait' = wait /\ fd' = fd /\ ready' = ready /\ expired' = expired
  BY Zenon, <1>0 DEF sched_new_coroutine, cpuVars, waitVars, epollVars, timerVars
<1>2. c \in Coros /\ pc[c] = "user" /\ OnCpu(c) /\ c \in AllCoros /\ n \in AllCoros
  BY Zenon, <1>0, <1>1, UserAt DEF UserOnly, UserPC, AllCoros
<1>3. /\ n # c /\ n # MainCoro /\ ~OnCpu(n) /\ wait[n] = "none"
  BY Zenon, <1>1, <1>2, Parts DEF Labels, Places, SingleOwner, WaitRecords
<1>4. /\ pc'[n] = "user" /\ pc'[c] # "free"
      /\ \A d \in Coros : d # n /\ d # c => pc'[d] = pc[d]
      /\ \A d \in Coros : d # n => state'[d] = state[d]
  BY Zenon, <1>1, <1>2, <1>3, Parts DEF TypeOK, AllCoros
<1>5. \A d \in Coros : d # n => statusBar'[d] = statusBar[d] /\ (Waiting(d)' <=> Waiting(d))
  <2>1. \A d \in Coros : d # n => Untouched(d)
    BY Zenon, <1>1, <1>2, <1>4 DEF Untouched, OnCpu
  <2> QED
    BY Zenon, <2>1, SameStatus
<1>6. ~Waiting(n) /\ ~Waiting(n)' /\ ~OnCpu(n)'
  BY Zenon, <1>1, <1>3 DEF Waiting, OnCpu
<1>7. statusBar[n] = "free" /\ statusBar'[n] = "ready"
  BY Zenon, <1>1, <1>3, <1>4, <1>6 DEF statusBar
<1>8. statusBar' = [statusBar EXCEPT ![n] = "ready"]
  BY Zenon, <1>5, <1>7, OneChanges
<1>9. occurredBar' = occurredBar
  BY Zenon, <1>1, <1>5, <1>6, SameOccurred
<1>10. Abstract!Running # {}
  <2>1. ~Waiting(c)
    BY Zenon, <1>2, Parts DEF Waiting, WaitRecords
  <2>2. statusBar[c] = "running"
    BY Zenon, <1>2, <2>1, UserRuns
  <2> QED
    BY Zenon, <1>2, <2>2 DEF Abstract!Running
<1>11. Abstract!Create(n)
  BY Zenon, <1>7, <1>8, <1>9, <1>10 DEF Abstract!Create
<1> QED
  BY Zenon, <1>11 DEF Abstract!Step, Simulated

\* Its first wake-up, by its creator or with its thread, changes nothing.
LEMMA Released ==
    ASSUME IInv, NEW n \in Coros, n # MainCoro, pc[n] = "user", pc'[n] = "user",
           state[n] = "BLOCKED", state'[n] = "RUNNABLE",
           \A d \in Coros : OnCpu(d)' <=> OnCpu(d),
           \A d \in Coros : d # n => /\ pc'[d] = "free" <=> pc[d] = "free"
                                     /\ state'[d] = state[d],
           UNCHANGED <<wait, fd, ready, expired>>
    PROVE  Simulated
<1>1. wait[n] = "none" /\ ~OnCpu(n)
  BY Zenon, Parts DEF WaitRecords, Places
<1>2. ~Waiting(n) /\ ~Waiting(n)'
  BY Zenon, <1>1 DEF Waiting
<1>3. statusBar'[n] = statusBar[n]
  BY Zenon, <1>1, <1>2 DEF statusBar
<1>4. \A d \in Coros : d # n => statusBar'[d] = statusBar[d] /\ (Waiting(d)' <=> Waiting(d))
  <2>1. \A d \in Coros : d # n => Untouched(d)
    BY Zenon DEF Untouched
  <2> QED
    BY Zenon, <2>1, SameStatus
<1>5. statusBar' = statusBar
  BY Zenon, <1>3, <1>4, NoneChanges
<1>6. occurredBar' = occurredBar
  BY Zenon, <1>2, <1>4, SameOccurred
<1> QED
  BY Zenon, <1>5, <1>6 DEF Still, Simulated

LEMMA Sim_fetch_add ==
    ASSUME IInv, NEW t \in Threads, fetch_add(t)
    PROVE  Simulated
<1>0. PICK c, n, slot : c = stack[t] /\ n = coro[c] /\ slot = local_count
  OBVIOUS
<1>1. /\ At(t, "fetch_add")
      /\ wait' = wait /\ fd' = fd /\ ready' = ready /\ expired' = expired
  BY Zenon, <1>0 DEF fetch_add, waitVars, epollVars, timerVars
<1>2. c \in Coros /\ pc[c] = "fetch_add" /\ c \in AllCoros
  BY Zenon, <1>0, <1>1, UserAt DEF UserOnly, UserPC
<1>3. CASE Goto(c, "schedule") /\ UNCHANGED <<cpuVars, coro, state>>
  <2>1. Still
    BY Zenon, <1>0, <1>1, <1>3, GoesOn DEF At, cpuVars
  <2> QED
    BY Zenon, <2>1 DEF Simulated
<1>4. CASE /\ slot < LocalSize /\ state' = [state EXCEPT ![n] = "RUNNABLE"]
           /\ stack' = [stack EXCEPT ![slot] = slot]
           /\ pc' = [pc EXCEPT ![slot] = "loop", ![c] = "user"]
  <2>1. slot \in Threads /\ stack[slot] = NoCoro
    BY <1>0, <1>4, SchedulerAssumption, Parts DEF TypeOK, Threads, SlotExclusive
  <2>2. n \in Coros /\ n # MainCoro /\ pc[n] = "user" /\ state[n] = "BLOCKED"
    BY Zenon, <1>0, <1>2, Parts DEF Pointers, Wakers, Waking
  <2>3. \A d \in Coros : d # slot /\ d # NoCoro /\ d \in AllCoros
    BY Zenon, <2>1, SchedulerAssumption DEF AllCoros
  <2>4. \A d \in Coros : OnCpu(d)' <=> OnCpu(d)
    <3>1. stack'[slot] = slot /\ \A u \in Threads : u # slot => stack'[u] = stack[u]
      BY Zenon, <1>4, <2>1, Parts DEF TypeOK
    <3> QED
      BY Zenon, <2>1, <2>3, <3>1 DEF OnCpu
  <2>5. /\ state'[n] = "RUNNABLE" /\ \A d \in Coros : d # n => state'[d] = state[d]
    BY Zenon, <1>4, <2>2, Parts DEF TypeOK
  <2>6. pc'[c] = "user" /\ \A d \in Coros : d # c => pc'[d] = pc[d]
    BY Zenon, <1>2, <1>4, <2>3, Parts DEF TypeOK
  <2>7. /\ pc'[n] = "user"
        /\ \A d \in Coros : d # n => (pc'[d] = "free" <=> pc[d] = "free")
    BY Zenon, <1>2, <2>2, <2>6
  <2> QED
    BY Zenon, <1>1, <2>2, <2>4, <2>5, <2>7, Released
<1> QED
  BY Zenon, <1>0, <1>3, <1>4 DEF fetch_add, SwitchTo

\* sched_schedule(): the wake-up of a coroutine whose wait is over, on whichever side of
\* its going to sleep it comes.
LEMMA Sim_sched_schedule ==
    ASSUME IInv, Fired, NEW t \in Threads, sched_schedule(t)
    PROVE  Simulated
<1>0. PICK c, n, l : /\ c = stack[t] /\ n = coro[c]
                     /\ l = IF c \in Coros THEN "user"
                            ELSE IF glock = c THEN "timers" ELSE "events"
  OBVIOUS
<1>1. /\ At(t, "schedule") /\ pc' = [pc EXCEPT ![c] = l] /\ l # "free"
      /\ state' = [state EXCEPT ![n] = "RUNNABLE"] /\ stack' = stack
      /\ wait' = wait /\ fd' = fd /\ ready' = ready /\ expired' = expired
  BY Zenon, <1>0 DEF sched_schedule, Goto, waitVars, epollVars
<1>2. c \in AllCoros /\ pc[c] = "schedule" /\ Waking(c) /\ n \in Coros
  BY Zenon, <1>0, <1>1, Parts DEF At, TypeOK, Pointers, Waking
<1>3. /\ state'[n] = "RUNNABLE" /\ \A d \in Coros : d # n => state'[d] = state[d]
      /\ pc'[c] # "free" /\ \A d \in AllCoros : d # c => pc'[d] = pc[d]
  BY Zenon, <1>1, <1>2, Parts DEF TypeOK
<1>4. \A d \in Coros : pc'[d] = "free" <=> pc[d] = "free"
  BY Zenon, <1>2, <1>3 DEF AllCoros
<1>5. \A d \in Coros : OnCpu(d)' <=> OnCpu(d)
  BY Zenon, <1>1 DEF OnCpu
<1>6. CASE c \in Coros
  <2>1. n # MainCoro /\ pc[n] = "user" /\ state[n] = "BLOCKED"
    BY Zenon, <1>0, <1>2, <1>6, Parts DEF Wakers
  <2>2. pc'[n] = "user"
    BY Zenon, <1>2, <1>3, <2>1 DEF AllCoros
  <2> QED
    BY Zenon, <1>1, <1>2, <1>3, <1>4, <1>5, <2>1, <2>2, Released
<1>7. CASE c \notin Coros
  <2>1. c = t
    BY Zenon, <1>0, <1>2, <1>7, Parts DEF Places, AllCoros
  <2>2. /\ wait[n] # "none" /\ pc[n] \in Suspending /\ state[n] \in Asleep
        /\ wait[n] = "timer" => n \in expired
        /\ wait[n] = "event" => fd[n] \in ready
    BY Zenon, <1>0, <1>2, <2>1, Parts DEF Wakers, Fired
  <2>3. Waiting(n) /\ ~Waiting(n)' /\ pc[n] # "free" /\ pc'[n] # "free"
    BY Zenon, <1>2, <1>3, <1>4, <2>2 DEF Waiting, Asleep, Suspending
  <2>4. n \in occurredBar
    BY Zenon, <1>2, <2>2, <2>3, Parts DEF occurredBar, TypeOK
  <2>5. statusBar[n] = "blocked"
    BY Zenon, <1>2, <2>3 DEF statusBar
  <2>6. statusBar'[n] \in {"ready", "running"}
    BY Zenon, <1>2, <1>3, <2>3 DEF statusBar
  <2>7. \A d \in Coros : d # n => statusBar'[d] = statusBar[d] /\ (Waiting(d)' <=> Waiting(d))
    <3>1. \A d \in Coros : d # n => Untouched(d)
      BY Zenon, <1>1, <1>3, <1>4, <1>5 DEF Untouched
    <3> QED
      BY Zenon, <3>1, SameStatus
  <2>8. \E s \in {"ready", "running"} : statusBar' = [statusBar EXCEPT ![n] = s]
    BY Zenon, <1>2, <2>6, <2>7, OneChanges
  <2>9. occurredBar' = occurredBar \ {n}
    BY Zenon, <1>1, <2>3, <2>7 DEF occurredBar
  <2>10. Abstract!Wake(n)
    BY Zenon, <2>4, <2>5, <2>8, <2>9 DEF Abstract!Wake
  <2> QED
    BY Zenon, <1>2, <2>10 DEF Abstract!Step, Simulated
<1> QED
  BY Zenon, <1>6, <1>7

\* The event loops: nothing that shows, until they call sched_schedule().
LEMMA Sim_LoopStep ==
    ASSUME IInv, NEW t \in Threads, LoopStep(t)
    PROVE  Simulated
<1>1. UNCHANGED <<stack, wait, state, fd, ready, expired>>
  BY Zenon DEF LoopStep, sched_poll_timeout, timer_expiration, epoll_wait, sched_poll_event,
     poll_done, check_timers, sched_handle_timers, cpuVars, waitVars, epollVars, timerVars
<1>2. \E l \in LoopOnly : At(t, l)
  BY Zenon DEF LoopStep, sched_poll_timeout, timer_expiration, epoll_wait, sched_poll_event,
     poll_done, check_timers, sched_handle_timers, LoopOnly, LoopPC
<1>3. stack[t] = t /\ t \in AllCoros /\ t # NoCoro
  BY Zenon, <1>2, LoopAt, SchedulerAssumption DEF AllCoros
<1>4. \/ pc' = pc
      \/ \E l \in LoopPC : Goto(t, l)
  BY Zenon DEF LoopStep, sched_poll_timeout, timer_expiration, epoll_wait, sched_poll_event,
     poll_done, check_timers, sched_handle_timers, TimersDone, LoopPC
<1>5. CASE pc' = pc
  <2>1. \A d \in Coros : Untouched(d)
    BY Zenon, <1>1, <1>5 DEF Untouched, OnCpu
  <2>2. Still
    BY Zenon, <1>1, <2>1, NothingHappens
  <2> QED
    BY Zenon, <2>2 DEF Simulated
<1>6. CASE \E l \in LoopPC : Goto(t, l)
  <2>1. PICK l \in LoopPC : Goto(t, l)
    BY Zenon, <1>6
  <2>2. l # "free"
    BY Zenon, <2>1 DEF LoopPC
  <2>3. Still
    BY Zenon, <1>1, <1>3, <2>1, <2>2, GoesOn
  <2> QED
    BY Zenon, <2>3 DEF Simulated
<1> QED
  BY Zenon, <1>4, <1>5, <1>6

\* What coroutines wait for happens.
LEMMA Sim_Environment ==
    ASSUME IInv, Environment
    PROVE  Simulated
<1>1. /\ UNCHANGED <<pc, stack, wait, state, fd>>
      /\ ready \subseteq ready' /\ expired \subseteq expired'
  BY Zenon DEF Environment, become_ready, time_passes, cpuVars, waitVars, epollVars, timerVars
<1>2. \A d \in Coros : statusBar'[d] = statusBar[d] /\ (Waiting(d)' <=> Waiting(d))
  <2>1. \A d \in Coros : Untouched(d)
    BY Zenon, <1>1 DEF Untouched, OnCpu
  <2> QED
    BY Zenon, <2>1, SameStatus
<1>3. statusBar' = statusBar
  BY Zenon, <1>2, NoneChanges
<1>4. occurredBar \subseteq occurredBar'
  BY Zenon, <1>1, <1>2 DEF occurredBar
<1>5. ASSUME NEW c \in occurredBar' PROVE statusBar[c] = "blocked"
  <2>1. c \in Coros /\ Waiting(c)
    BY Zenon, <1>2, <1>5 DEF occurredBar
  <2>2. pc[c] # "free"
    BY Zenon, <2>1, Parts DEF Waiting, WaitRecords
  <2> QED
    BY Zenon, <2>1, <2>2 DEF statusBar
<1>6. Abstract!Occur
  BY Zenon, <1>3, <1>4, <1>5 DEF Abstract!Occur
<1> QED
  BY Zenon, <1>6 DEF Simulated

\* Every step of the scheduler is one of the abstract coroutines, or none.
LEMMA StepSimulated ==
    ASSUME IInv, Fired, Next
    PROVE  Simulated
<1>1. ASSUME NEW t \in Threads, UserStep(t) PROVE Simulated
  BY Zenon, <1>1, Sim_sched_resched, Sim_sched_event_wait, Sim_quiet, Sim_sched_wait,
     Sim_context_cmpxchg_restore, Sim_resume, Sim_sched_new_coroutine, Sim_fetch_add,
     Sim_sched_schedule, Sim_sched_coro_die DEF UserStep
<1> QED
  BY Zenon, <1>1, Sim_LoopStep, Sim_Environment DEF Next

----------------------------------------------------------------------------
(* What is pending, preserved.                                             *)

\* A step of one coroutine that waits for no descriptor anew, and that sends no event
\* loop to sched_schedule().
LEMMA FiredQuiet ==
    ASSUME IInv, Fired, NEW x \in AllCoros, NEW l, pc' = [pc EXCEPT ![x] = l],
           x \in Coros \/ l # "schedule",
           coro' = coro \/ \E e : coro' = [coro EXCEPT ![x] = e],
           \A c \in Coros : wait'[c] = "event" => wait[c] = "event",
           UNCHANGED <<fd, ready, batch>>
    PROVE  Fired'
<1>1. \A t \in Threads : pc'[t] = "schedule" => pc[t] = "schedule" /\ coro'[t] = coro[t]
  <2>1. \A t \in Threads : t \in AllCoros /\ t \notin Coros
    BY Zenon, SchedulerAssumption DEF AllCoros
  <2>2. pc'[x] = l /\ \A t \in AllCoros : t # x => pc'[t] = pc[t] /\ coro'[t] = coro[t]
    BY Zenon, Parts DEF TypeOK
  <2> QED
    BY Zenon, <2>1, <2>2
<1>2. ready \subseteq ready' /\ \A t \in Threads : batch'[t] \subseteq batch[t]
  BY Zenon
<1> QED
  BY Zenon, <1>1, <1>2, FiredSame

LEMMA Fired_UserStep ==
    ASSUME IInv, Fired, NEW t \in Threads, UserStep(t)
    PROVE  Fired'
<1>0. PICK c : c = stack[t]
  OBVIOUS
<1>1. CASE \/ platform_poll_register(t) \/ lock_to_push(t) \/ heap_push(t)
           \/ call_sched_suspend(t) \/ sched_suspend(t) \/ context_cmpxchg_restore(t)
           \/ sched_coro_die(t)
  <2>1. \E l \in UserOnly : At(t, l)
    BY Zenon, <1>1 DEF platform_poll_register, lock_to_push, heap_push, call_sched_suspend,
       sched_suspend, context_cmpxchg_restore, sched_coro_die, UserOnly, UserPC
  <2>2. c \in Coros /\ c \in AllCoros
    BY Zenon, <1>0, <2>1, UserAt
  <2>3. /\ \E l : pc' = [pc EXCEPT ![c] = l]
        /\ coro' = coro \/ \E e : coro' = [coro EXCEPT ![c] = e]
    BY Zenon, <1>0, <1>1 DEF platform_poll_register, lock_to_push, heap_push,
       call_sched_suspend, sched_suspend, context_cmpxchg_restore, sched_coro_die, Goto
  <2>4. UNCHANGED <<wait, fd, ready, batch>>
    BY Zenon, <1>1 DEF platform_poll_register, lock_to_push, heap_push, call_sched_suspend,
       sched_suspend, context_cmpxchg_restore, sched_coro_die, waitVars, epollVars, loopVars
  <2> QED
    BY Zenon, <2>2, <2>3, <2>4, FiredQuiet
<1>2. CASE sched_resched(t)
  <2>1. c \in AllCoros
    BY Zenon, <1>0, <1>2, Parts DEF sched_resched, At, TypeOK
  <2>2. pc' = [pc EXCEPT ![c] = IF c = t THEN "loop" ELSE "user"] /\ coro' = coro
        /\ UNCHANGED <<wait, fd, ready, batch>>
    BY Zenon, <1>0, <1>2 DEF sched_resched, Goto, waitVars, epollVars, loopVars
  <2>3. (IF c = t THEN "loop" ELSE "user") # "schedule"
    BY Zenon
  <2> QED
    BY Zenon, <2>1, <2>2, <2>3, FiredQuiet
<1>3. CASE sched_wait(t) \/ resume(t)
  <2>1. c \in Coros /\ c \in AllCoros
    BY Zenon, <1>0, <1>3, UserAt DEF sched_wait, resume, UserOnly, UserPC
  <2>2. /\ \E l : pc' = [pc EXCEPT ![c] = l]
        /\ \E w \in {"none", "timer"} : wait' = [wait EXCEPT ![c] = w]
        /\ coro' = coro /\ UNCHANGED <<fd, ready, batch>>
    BY Zenon, <1>0, <1>3 DEF sched_wait, resume, Goto, epollVars, loopVars
  <2>3. \A d \in Coros : wait'[d] = "event" => wait[d] = "event"
    BY Zenon, <2>1, <2>2, Parts DEF TypeOK
  <2> QED
    BY Zenon, <2>1, <2>2, <2>3, FiredQuiet
<1>4. CASE sched_schedule(t)
  <2>1. PICK l : l = IF c \in Coros THEN "user" ELSE IF glock = c THEN "timers" ELSE "events"
    BY Zenon
  <2>2. c \in AllCoros /\ l # "schedule"
    BY Zenon, <1>0, <1>4, <2>1, Parts DEF sched_schedule, At, TypeOK
  <2>3. /\ pc' = [pc EXCEPT ![c] = l] /\ coro' = [coro EXCEPT ![c] = NoCoro]
        /\ UNCHANGED <<wait, fd, ready, batch>>
    BY Zenon, <1>0, <1>4, <2>1 DEF sched_schedule, Goto, waitVars, epollVars, loopVars
  <2> QED
    BY Zenon, <2>2, <2>3, FiredQuiet
<1>5. ASSUME NEW f \in Fds, sched_event_wait(t, f) PROVE Fired'
  <2>1. /\ At(t, "user") /\ \A d \in Coros : wait[d] = "event" => fd[d] # f
        /\ wait' = [wait EXCEPT ![c] = "event"] /\ fd' = [fd EXCEPT ![c] = f]
        /\ ready' = ready \ {f} /\ batch' = batch /\ coro' = coro
        /\ pc' = [pc EXCEPT ![c] = "register"]
    BY Zenon, <1>0, <1>5 DEF sched_event_wait, Goto, loopVars
  <2>2. c \in Coros /\ c \in AllCoros /\ c \notin Threads /\ pc[c] = "user" /\ OnCpu(c)
    BY Zenon, <1>0, <2>1, UserAt DEF UserOnly, UserPC
  <2>3. /\ \A d \in Coros : d # c => fd'[d] = fd[d] /\ wait'[d] = wait[d]
        /\ \A u \in Threads : pc'[u] = pc[u] /\ u \in AllCoros
    BY Zenon, <2>1, <2>2, Parts DEF TypeOK, AllCoros
  <2>4. /\ \A u \in Threads : c \notin batch[u]
        /\ \A d \in AllCoros : Waking(d) => coro[d] # c
    BY Zenon, <2>2, UserUnreferenced
  <2>5. ASSUME NEW u \in Threads, NEW d \in batch[u] PROVE fd'[d] \in ready'
    <3>1. d \in Coros /\ d # c /\ wait[d] = "event"
      <4>1. d # c
        BY Zenon, <2>4, <2>5
      <4>2. d \in waiter
        BY Zenon, <2>5, Parts DEF Registrations
      <4>3. d \in Coros
        BY Zenon, <4>2, Parts DEF TypeOK
      <4> QED
        BY Zenon, <4>1, <4>2, <4>3, Parts DEF WaitRecords
    <3>2. fd[d] \in ready /\ fd[d] # f /\ fd'[d] = fd[d]
      BY Zenon, <2>1, <2>3, <2>5, <3>1 DEF Fired
    <3> QED
      BY <2>1, <3>2
  <2>6. ASSUME NEW u \in Threads, pc[u] = "schedule", wait'[coro[u]] = "event"
        PROVE  fd'[coro[u]] \in ready'
    <3>1. coro[u] \in Coros /\ coro[u] # c
      BY Zenon, <2>3, <2>4, <2>6, Parts DEF Pointers, Waking
    <3>2. fd[coro[u]] \in ready /\ fd[coro[u]] # f /\ fd'[coro[u]] = fd[coro[u]]
      BY Zenon, <2>1, <2>3, <2>6, <3>1 DEF Fired
    <3> QED
      BY <2>1, <3>2
  <2> QED
    BY Zenon, <2>1, <2>3, <2>5, <2>6 DEF Fired
<1>6. CASE fetch_add(t) \/ \E n \in Coros : sched_new_coroutine(t, n)
  <2>1. c \in Coros /\ c \in AllCoros
    BY Zenon, <1>0, <1>6, UserAt DEF fetch_add, sched_new_coroutine, UserOnly, UserPC
  <2>2. \A u \in Threads : u \in AllCoros /\ u # c /\ u \notin Coros
    BY Zenon, <2>1, SchedulerAssumption DEF AllCoros
  <2>3. /\ coro' = coro \/ \E e : coro' = [coro EXCEPT ![c] = e]
        /\ UNCHANGED <<wait, fd, ready, batch>>
    BY Zenon, <1>0, <1>6 DEF fetch_add, sched_new_coroutine, waitVars, epollVars, loopVars
  <2>4. \A u \in Threads : coro'[u] = coro[u]
    BY Zenon, <2>2, <2>3, Parts DEF TypeOK
  <2>5. \A u \in Threads : pc'[u] = pc[u] \/ pc'[u] = "loop"
    <3>1. CASE fetch_add(t)
      <4>1. \/ pc' = [pc EXCEPT ![c] = "schedule"]
            \/ pc' = [pc EXCEPT ![local_count] = "loop", ![c] = "user"]
        BY Zenon, <1>0, <3>1 DEF fetch_add, Goto
      <4> QED
        BY Zenon, <2>2, <4>1, Parts DEF TypeOK
    <3>2. ASSUME NEW n \in Coros, sched_new_coroutine(t, n)
          PROVE  \A u \in Threads : pc'[u] = pc[u]
      <4>1. \E l : pc' = [pc EXCEPT ![n] = "user", ![c] = l]
        BY Zenon, <1>0, <3>2 DEF sched_new_coroutine
      <4>2. \A u \in Threads : u # n
        BY Zenon, <2>2
      <4> QED
        BY Zenon, <2>2, <4>1, <4>2, Parts DEF TypeOK
    <3> QED
      BY Zenon, <1>6, <3>1, <3>2
  <2>6. \A u \in Threads : pc'[u] = "schedule" => pc[u] = "schedule" /\ coro'[u] = coro[u]
    BY Zenon, <2>4, <2>5
  <2>7. ready \subseteq ready' /\ \A u \in Threads : batch'[u] \subseteq batch[u]
    BY Zenon, <2>3
  <2> QED
    BY Zenon, <2>3, <2>6, <2>7, FiredSame
<1> QED
  BY Zenon, <1>1, <1>2, <1>3, <1>4, <1>5, <1>6 DEF UserStep

LEMMA Fired_LoopStep ==
    ASSUME IInv, Fired, NEW t \in Threads, LoopStep(t)
    PROVE  Fired'
<1>0. UNCHANGED <<wait, fd, ready>>
  BY Zenon DEF LoopStep, sched_poll_timeout, timer_expiration, epoll_wait, sched_poll_event,
     poll_done, check_timers, sched_handle_timers, waitVars, epollVars
<1>1. t \in AllCoros
  BY Zenon DEF AllCoros
<1>2. CASE sched_poll_timeout(t) \/ timer_expiration(t) \/ poll_done(t) \/ check_timers(t)
  <2>1. \E l \in LoopOnly : pc' = [pc EXCEPT ![t] = l]
    BY Zenon, <1>2 DEF sched_poll_timeout, timer_expiration, poll_done, check_timers, TimersDone,
       Goto, LoopOnly, LoopPC
  <2>2. batch' = batch /\ (coro' = coro \/ \E e : coro' = [coro EXCEPT ![t] = e])
    BY Zenon, <1>2 DEF sched_poll_timeout, timer_expiration, poll_done, check_timers, loopVars
  <2>3. \A l \in LoopOnly : l # "schedule"
    BY Zenon DEF LoopOnly
  <2> QED
    BY Zenon, <1>0, <1>1, <2>1, <2>2, <2>3, FiredQuiet
<1>3. CASE epoll_wait(t)
  <2>1. PICK S \in SUBSET (armed \cap ready) : batch' = [batch EXCEPT ![t] = {interest[f] : f \in S}]
    BY Zenon, <1>3 DEF epoll_wait
  <2>2. pc' = [pc EXCEPT ![t] = "events"] /\ coro' = coro
    BY Zenon, <1>3 DEF epoll_wait, Goto
  <2>3. /\ batch'[t] = {interest[f] : f \in S}
        /\ \A u \in Threads : u # t => batch'[u] = batch[u]
    BY Zenon, <2>1, Parts DEF TypeOK
  <2>4. ASSUME NEW f \in S PROVE fd[interest[f]] \in ready
    <3>1. f \in Fds /\ f \in armed /\ f \in ready
      BY Zenon, <2>1, <2>4, Parts DEF TypeOK
    <3>2. interest[f] \in Coros
      BY Zenon, <3>1, Parts DEF TypeOK, Registrations
    <3>3. fd[interest[f]] = f
      BY Zenon, <3>1, <3>2, Parts DEF Registrations
    <3> QED
      BY Zenon, <3>1, <3>3
  <2>5. ASSUME NEW u \in Threads, NEW c \in batch'[u] PROVE fd[c] \in ready
    <3>1. CASE u = t
      <4>1. PICK f \in S : c = interest[f]
        BY Zenon, <2>3, <2>5, <3>1
      <4> QED
        BY Zenon, <2>4, <4>1
    <3>2. CASE u # t
      BY Zenon, <2>3, <2>5, <3>2 DEF Fired
    <3> QED
      BY Zenon, <3>1, <3>2
  <2>6. /\ pc'[t] = "events"
        /\ \A u \in Threads : u # t => pc'[u] = pc[u]
    BY Zenon, <1>1, <2>2, Parts DEF TypeOK, AllCoros
  <2>7. \A u \in Threads : pc'[u] = "schedule" /\ wait[coro[u]] = "event" => fd[coro[u]] \in ready
    BY Zenon, <2>6 DEF Fired
  <2> QED
    BY Zenon, <1>0, <2>2, <2>5, <2>7 DEF Fired
<1>4. ASSUME NEW w \in Coros, sched_poll_event(t, w) PROVE Fired'
  <2>1. w \in batch[t] /\ batch' = [batch EXCEPT ![t] = batch[t] \ {w}]
    BY Zenon, <1>4 DEF sched_poll_event
  <2>2. \A u \in Threads : batch'[u] \subseteq batch[u]
    BY Zenon, <2>1, Parts DEF TypeOK
  <2>3. fd[w] \in ready
    BY Zenon, <2>1 DEF Fired
  <2>4. \/ coro' = coro /\ pc' = pc
        \/ coro' = [coro EXCEPT ![t] = w] /\ pc' = [pc EXCEPT ![t] = "schedule"]
    BY Zenon, <1>4 DEF sched_poll_event, Goto
  <2>5. \A u \in Threads : \/ coro'[u] = coro[u] /\ pc'[u] = pc[u]
                           \/ coro'[u] = w
    BY Zenon, <1>1, <2>4, Parts DEF TypeOK, AllCoros
  <2>6. \A u \in Threads : pc'[u] = "schedule" /\ wait[coro'[u]] = "event" => fd[coro'[u]] \in ready
    BY Zenon, <2>3, <2>5 DEF Fired
  <2>7. \A u \in Threads : \A c \in batch'[u] : fd[c] \in ready
    BY Zenon, <2>2 DEF Fired
  <2> QED
    BY Zenon, <1>0, <2>6, <2>7 DEF Fired
<1>5. CASE sched_handle_timers(t)
  <2>1. batch' = batch
    BY Zenon, <1>5 DEF sched_handle_timers
  <2>2. CASE TimersDone(t) /\ UNCHANGED coro
    <3>1. PICK l : l = IF timeout[t] = "zero" THEN "resched" ELSE "loop"
      BY Zenon
    <3>2. l # "schedule"
      BY Zenon, <3>1
    <3>3. pc' = [pc EXCEPT ![t] = l]
      BY Zenon, <2>2, <3>1 DEF TimersDone, Goto
    <3> QED
      BY Zenon, <1>0, <1>1, <2>1, <2>2, <3>2, <3>3, FiredQuiet
  <2>3. ASSUME NEW w \in timer_heap, coro' = [coro EXCEPT ![t] = w],
               pc' = [pc EXCEPT ![t] = "schedule"]
        PROVE  Fired'
    <3>1. wait[w] = "timer"
      BY Zenon, <2>3, Parts DEF Timers
    <3>2. \A u \in Threads : \/ coro'[u] = coro[u] /\ pc'[u] = pc[u]
                             \/ coro'[u] = w
      BY Zenon, <1>1, <2>3, Parts DEF TypeOK, AllCoros
    <3>3. \A u \in Threads : pc'[u] = "schedule" /\ wait[coro'[u]] = "event" => fd[coro'[u]] \in ready
      BY Zenon, <3>1, <3>2 DEF Fired
    <3> QED
      BY Zenon, <1>0, <2>1, <3>3 DEF Fired
  <2> QED
    BY Zenon, <1>5, <2>2, <2>3 DEF sched_handle_timers, due, Goto
<1> QED
  BY Zenon, <1>2, <1>3, <1>4, <1>5 DEF LoopStep

LEMMA FiredInit == Init => Fired
<1> SUFFICES ASSUME Init PROVE Fired
  BY Zenon
<1>1. \A t \in Threads : batch[t] = {} /\ pc[t] # "schedule"
  BY Zenon DEF Init, AllCoros
<1> QED
  BY Zenon, <1>1 DEF Fired

LEMMA FiredStep == IInv /\ Fired /\ [Next]_vars => Fired'
<1> SUFFICES ASSUME IInv, Fired, [Next]_vars PROVE Fired'
  BY Zenon
<1>1. ASSUME Environment \/ UNCHANGED vars PROVE Fired'
  <2>1. UNCHANGED <<pc, coro, wait, fd, batch>> /\ ready \subseteq ready'
    BY Zenon, <1>1 DEF Environment, become_ready, time_passes, vars, waitVars, epollVars, loopVars
  <2>2. \A t \in Threads : batch'[t] \subseteq batch[t]
    BY Zenon, <2>1
  <2> QED
    BY Zenon, <2>1, <2>2, FiredSame
<1> QED
  BY Zenon, <1>1, Fired_UserStep, Fired_LoopStep DEF Next

----------------------------------------------------------------------------
(* The refinement.                                                         *)

\* The initial states.
LEMMA InitMaps == Init => Abstract!Init
<1> SUFFICES ASSUME Init PROVE Abstract!Init
  BY Zenon
<1>1. \A c \in Coros : ~Waiting(c)
  BY Zenon DEF Init, Waiting
<1>2. occurredBar = {}
  BY Zenon, <1>1 DEF occurredBar
<1>3. ASSUME NEW c \in Coros
      PROVE  statusBar[c] = IF c = MainCoro THEN "running" ELSE "free"
  <2>1. c \in AllCoros /\ c # 0 /\ 0 \in Threads
    BY SchedulerAssumption DEF AllCoros, Threads
  <2>2. pc[c] = IF c = MainCoro THEN "user" ELSE "free"
    BY Zenon, <2>1 DEF Init
  <2>3. stack[0] = MainCoro
    BY Zenon, <2>1 DEF Init
  <2> QED
    BY Zenon, <1>1, <2>1, <2>2, <2>3 DEF statusBar, OnCpu
<1>4. statusBar = [c \in Coros |-> IF c = MainCoro THEN "running" ELSE "free"]
  BY Zenon, <1>3 DEF statusBar
<1> QED
  BY Zenon, <1>2, <1>4 DEF Abstract!Init
=============================================================================
