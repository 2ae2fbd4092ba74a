-------------------------- MODULE SchedulerProofs ---------------------------
(***************************************************************************)
(* The safety of Scheduler, and that it implements Coroutines, for any     *)
(* number of threads, coroutines and descriptors.                          *)
(***************************************************************************)
EXTENDS SchedulerRefinement, FiniteSetTheorems

----------------------------------------------------------------------------
(* Safety.                                                                 *)

\* Every step preserves the invariant.
LEMMA StepInv == IInv /\ [Next]_vars => IInv'
<1> SUFFICES ASSUME IInv, [Next]_vars PROVE IInv'
  BY Zenon
<1>1. ASSUME NEW t \in Threads, UserStep(t) PROVE IInv'
  BY Zenon, <1>1, Keep_sched_resched, Keep_sched_event_wait, Keep_platform_poll_register,
     Keep_sched_wait, Keep_lock_to_push, Keep_heap_push, Keep_call_sched_suspend,
     Keep_sched_suspend, Keep_context_cmpxchg_restore, Keep_resume,
     Keep_sched_new_coroutine, Keep_fetch_add, Keep_sched_schedule, Keep_sched_coro_die
     DEF UserStep
<1>2. ASSUME NEW t \in Threads, LoopStep(t) PROVE IInv'
  BY Zenon, <1>2, Keep_sched_poll_timeout, Keep_timer_expiration, Keep_epoll_wait,
     Keep_sched_poll_event, Keep_poll_done, Keep_check_timers, Keep_sched_handle_timers
     DEF LoopStep
<1>3. CASE Environment
  BY Zenon, <1>3, Keep_become_ready, Keep_time_passes DEF Environment
<1> QED
  BY Zenon, <1>1, <1>2, <1>3, Keep_stutter DEF Next

\* The invariant is one.
THEOREM Invariance == Spec => []IInv
  BY InitInv, StepInv, PTL DEF Spec

\* Every variable of the scheduler has its type.
THEOREM TypeCorrect == Spec => []TypeOK
<1>1. IInv => TypeOK
  BY Zenon DEF IInv
<1> QED
  BY <1>1, Invariance, PTL

\* A coroutine never runs on two processors, nor is it on two run lists, nor on one
\* twice (sched_suspend() against sched_schedule() on another thread).
THEOREM OwnedOnce == Spec => []SingleOwner
<1>1. IInv => SingleOwner
  BY Zenon, Parts DEF Places
<1> QED
  BY <1>1, Invariance, PTL

\* No wake-up is lost between sched_suspend() and sched_schedule(): whoever sleeps
\* has a waker.
THEOREM WakeupsKept == Spec => []NoLostWakeup
<1>1. ASSUME IInv PROVE NoLostWakeup
  <2>1. ASSUME NEW c \in Coros, pc[c] # "free", ~OnCpu(c), ~Queued(c),
               \A t \in Threads : ~InHand(t, c)
        PROVE  /\ state[c] = "BLOCKED"
               /\ HasWaker(c) \/ (c = MainCoro /\ wait[c] = "none")
    <3>1. state[c] = "BLOCKED"
      BY Zenon, <1>1, <2>1, Parts DEF NotLost
    <3>2. pc[c] \in {"user", "resume"}
      BY Zenon, <1>1, <2>1, Parts DEF Labels
    <3>3. CASE wait[c] = "none"
      <4>1. c = MainCoro \/ \E d \in Coros : Waking(d) /\ coro[d] = c
        BY Zenon, <1>1, <3>1, <3>3, Parts DEF WaitRecords
      <4>2. c # MainCoro => BeingScheduled(c)
        BY Zenon, <4>1 DEF BeingScheduled, Waking, AllCoros
      <4> QED
        BY Zenon, <3>1, <3>3, <4>2 DEF HasWaker
    <3>4. CASE wait[c] # "none"
      <4>1. pc[c] = "resume"
        BY Zenon, <1>1, <3>2, <3>4, Parts DEF WaitRecords
      <4> QED
        BY Zenon, <1>1, <3>1, <3>4, <4>1, Parts DEF Woken, Suspending, Asleep
    <3> QED
      BY Zenon, <3>1, <3>3, <3>4
  <2>2. ASSUME NEW c \in Coros, pc[c] \in {"suspend", "cmpxchg"},
               state[c] = "BLOCKING", wait[c] # "none"
        PROVE  HasWaker(c)
    BY Zenon, <1>1, <2>2, Parts DEF Woken, Suspending, Asleep
  <2> QED
    BY Zenon, <2>1, <2>2 DEF NoLostWakeup
<1> QED
  BY <1>1, Invariance, PTL

\* sched_poll_event(), sched_handle_timers() and sched_schedule() follow pointers to
\* live wait records and coroutines only, each of them once.
THEOREM WakesFresh == Spec => []NoStaleWake
<1>1. ASSUME IInv PROVE NoStaleWake
  <2>1. \A c \in Coros : c \in timer_heap => wait[c] = "timer" /\ state[c] \in Asleep
    BY Zenon, <1>1, Parts DEF Timers
  <2>2. \A c \in Coros : EventWaker(c) => c \in waiter
    BY <1>1, Parts DEF EventWaker, Registrations, TypeOK
  <2>3. \A c \in Coros : c \in waiter => wait[c] = "event" /\ state[c] \in Asleep
    BY Zenon, <1>1, Parts DEF WaitRecords
  <2>4. ASSUME NEW c \in Coros, BeingScheduled(c)
        PROVE  /\ pc[c] # "free" /\ state[c] \in Asleep
               /\ c \notin timer_heap /\ c \notin waiter
    <3>1. PICK d \in AllCoros : Waking(d) /\ coro[d] = c
      BY Zenon, <2>4 DEF BeingScheduled, Waking
    <3>2. CASE d \in Threads
      <4>1. pc[d] = "schedule"
        BY Zenon, <1>1, <3>1, <3>2, Parts DEF Waking, Labels, LoopPC
      <4> QED
        BY Zenon, <1>1, <3>1, <3>2, <4>1, Parts DEF Wakers, Suspending
    <3>3. CASE d \in Coros
      <4>1. pc[c] = "user" /\ state[c] = "BLOCKED"
        BY Zenon, <1>1, <3>1, <3>3, Parts DEF Wakers
      <4>2. wait[c] = "none"
        BY Zenon, <1>1, <4>1, Parts DEF WaitRecords
      <4> QED
        BY Zenon, <2>1, <2>3, <4>1, <4>2 DEF Asleep
    <3> QED
      BY Zenon, <3>2, <3>3 DEF AllCoros
  <2> QED
    BY Zenon, <2>1, <2>2, <2>3, <2>4 DEF NoStaleWake, Asleep
<1> QED
  BY <1>1, Invariance, PTL

\* sched_dequeue_locked() always finds a coroutine on the run list.
THEOREM LoopStaysHome == Spec => []LoopAtHome
<1>1. ASSUME IInv PROVE LoopAtHome
  <2>1. \A t \in Threads : At(t, "suspend") \/ At(t, "user") => run_list[t] # <<>>
    <3> SUFFICES ASSUME NEW t \in Threads, NEW l \in {"suspend", "user"}, At(t, l)
                 PROVE  run_list[t] # <<>>
      BY Zenon
    <3>1. stack[t] \in Coros /\ pc[stack[t]] = l
      BY Zenon, <1>1, UserAt DEF UserOnly, UserPC
    <3> QED
      BY Zenon, <1>1, <3>1, UserHasNext
  <2> QED
    BY Zenon, <1>1, <2>1, Parts DEF LoopAtHome, Places
<1> QED
  BY <1>1, Invariance, PTL

\* sched_get_current() is right wherever it is called.
THEOREM CurrentIsRight == Spec => []CurrentCoro
<1>1. IInv => CurrentCoro
  BY Zenon DEF IInv
<1> QED
  BY <1>1, Invariance, PTL

\* The slot that sched_new_coroutine() picks is exclusive.
THEOREM SlotIsExclusive == Spec => []SlotExclusive
<1>1. IInv => SlotExclusive
  BY Zenon DEF IInv
<1> QED
  BY <1>1, Invariance, PTL

\* The assertion after platform_poll_register() in sched_event_wait() holds.
THEOREM Registers == Spec => []RegisterSucceeds
<1>1. ASSUME IInv PROVE RegisterSucceeds
  <2> SUFFICES ASSUME NEW t \in Threads, At(t, "register")
               PROVE  interest[fd[stack[t]]] = NoCoro
    BY Zenon DEF RegisterSucceeds
  <2> DEFINE c == stack[t]
  <2>1. c \in Coros /\ pc[c] = "register"
    BY Zenon, <1>1, UserAt DEF UserOnly, UserPC
  <2>2. wait[c] = "event" /\ fd[c] \in Fds
    BY Zenon, <1>1, <2>1, Parts DEF WaitRecords, TypeOK
  <2>3. interest[fd[c]] \in Coros => interest[fd[c]] = c /\ pc[c] \in Suspending
    BY <1>1, <2>1, <2>2, Parts DEF Registrations
  <2> QED
    BY Zenon, <1>1, <2>1, <2>2, <2>3, Parts DEF TypeOK, Suspending
<1> QED
  BY <1>1, Invariance, PTL

\* sched_wait() returns no earlier than its time, and sched_event_wait() only with an
\* event: its second assertion holds.
THEOREM WaitsAreHonoured == Spec => WaitsHonoured
<1> DEFINE Honoured(c) ==
        wait[c] # "none" /\ wait'[c] = "none" =>
           c \in (IF wait[c] = "timer" THEN expired ELSE events)
<1>1. ASSUME IInv, Next, NEW c \in Coros, wait[c] # "none", wait'[c] = "none"
      PROVE  \E t \in Threads : resume(t) /\ stack[t] = c
  <2>1. PICK t \in Threads : resume(t)
    <3>1. wait' # wait
      BY Zenon, <1>1
    <3>2. \A t \in Threads : ~sched_wait(t) /\ \A f \in Fds : ~sched_event_wait(t, f)
      BY <1>1, Parts DEF sched_wait, sched_event_wait, TypeOK
    <3>3. \A t \in Threads : LoopStep(t) => wait' = wait
      BY Zenon DEF LoopStep, sched_poll_timeout, timer_expiration, epoll_wait,
         sched_poll_event,
         poll_done, check_timers, sched_handle_timers, waitVars
    <3>4. Environment => wait' = wait
      BY Zenon DEF Environment, become_ready, time_passes, waitVars
    <3>5. \A t \in Threads : UserStep(t) =>
             \/ wait' = wait
             \/ resume(t)
             \/ sched_wait(t)
             \/ \E f \in Fds : sched_event_wait(t, f)
      BY ZenonT(60) DEF UserStep, sched_resched, platform_poll_register, lock_to_push,
         heap_push,
         call_sched_suspend, sched_suspend, context_cmpxchg_restore, sched_new_coroutine,
         fetch_add, sched_schedule, sched_coro_die, waitVars
    <3> QED
      BY Zenon, <1>1, <3>1, <3>2, <3>3, <3>4, <3>5 DEF Next
  <2>2. stack[t] = c
    BY Zenon, <1>1, <2>1, Parts DEF resume, TypeOK
  <2> QED
    BY Zenon, <2>1, <2>2
<1>2. ASSUME IInv, NEW t \in Threads, resume(t), wait[stack[t]] # "none"
      PROVE  stack[t] \in (IF wait[stack[t]] = "timer" THEN expired ELSE events)
  <2> DEFINE c == stack[t]
  <2>1. c \in Coros /\ pc[c] = "resume" /\ OnCpu(c)
    BY Zenon, <1>2, UserAt DEF resume, UserOnly, UserPC
  <2>2. state[c] \notin Asleep
    BY Zenon, <1>2, <2>1, Parts DEF WaitRecords, Places, Asleep
  <2> QED
    BY Zenon, <1>2, <2>1, <2>2, Parts DEF Woken, Suspending
<1>3. ASSUME IInv, [Next]_vars PROVE [\A c \in Coros : Honoured(c)]_vars
  BY ZenonT(40), <1>1, <1>2, <1>3
<1> QED
  BY <1>3, Invariance, PTL DEF Spec, WaitsHonoured

----------------------------------------------------------------------------
(* The bound on local_count.                                               *)

\* The threads that have seen a free slot and are going to take one.
Fetching == {t \in Threads : At(t, "fetch_add")}

\* Each of them will increment local_count once more.
Counting ==
    local_count + Cardinality(Fetching) <= (IF LocalSize = 1 THEN 1 ELSE 2 * LocalSize - 2)

\* Only sched_new_coroutine() brings a coroutine to the fetch-and-add, and it stays on
\* its thread there.
LEMMA OnlyCreatorsFetch ==
    ASSUME IInv, NEW t \in Threads,
           UserStep(t), \A n \in Coros : ~sched_new_coroutine(t, n)
    PROVE  /\ \A d \in AllCoros : pc'[d] = "fetch_add" => pc[d] = "fetch_add"
           /\ \A u \in Fetching : stack'[u] = stack[u]
           /\ ~fetch_add(t) => local_count' = local_count
<1>1. /\ pc \in [AllCoros -> UserPC \cup LoopPC \cup {"free"}]
      /\ stack \in [Threads -> AllCoros \cup {NoCoro}]
  BY Zenon, Parts DEF TypeOK
<1>2. \A u \in Fetching : u \in Threads /\ stack[u] # NoCoro /\ pc[stack[u]] = "fetch_add"
  BY Zenon DEF Fetching, At
<1>3. CASE fetch_add(t)
  <2>1. \A d \in AllCoros : pc'[d] = "fetch_add" => pc[d] = "fetch_add"
    BY Zenon, <1>1, <1>3 DEF fetch_add, Goto
  <2>2. \A u \in Threads : stack[u] # NoCoro => u < local_count
    BY Zenon, Parts DEF SlotExclusive
  <2>3. \A u \in Fetching : u # local_count
    BY <1>2, <2>2, Parts DEF TypeOK, Threads
  <2>4. \A u \in Fetching : stack'[u] = stack[u]
    BY Zenon, <1>1, <1>2, <1>3, <2>3 DEF fetch_add, SwitchTo, cpuVars
  <2> QED
    BY Zenon, <1>3, <2>1, <2>4
<1>4. CASE sched_resched(t) \/ context_cmpxchg_restore(t) \/ sched_coro_die(t)
  <2>1. local_count' = local_count
    BY Zenon, <1>4 DEF sched_resched, context_cmpxchg_restore, sched_coro_die
  <2>2. \A d \in AllCoros : pc'[d] = "fetch_add" => pc[d] = "fetch_add"
    BY Zenon, <1>1, <1>4 DEF sched_resched, context_cmpxchg_restore, sched_coro_die, Goto
  <2>3. t \notin Fetching
    BY Zenon, <1>2, <1>4 DEF sched_resched, context_cmpxchg_restore, sched_coro_die, At
  <2>4. \A u \in Threads : u # t => stack'[u] = stack[u]
    <3>1. stack' = stack \/ \E n : stack' = [stack EXCEPT ![t] = n]
      BY Zenon, <1>4 DEF sched_resched, context_cmpxchg_restore, sched_coro_die, cpuVars,
         SwitchTo
    <3> QED
      BY Zenon, <1>1, <3>1
  <2>5. \A u \in Fetching : stack'[u] = stack[u]
    BY Zenon, <1>2, <2>3, <2>4
  <2> QED
    BY Zenon, <2>1, <2>2, <2>5
<1>5. ASSUME \/ \E f \in Fds : sched_event_wait(t, f)
             \/ platform_poll_register(t) \/ sched_wait(t) \/ lock_to_push(t)
             \/ heap_push(t) \/ call_sched_suspend(t) \/ sched_suspend(t) \/ resume(t)
             \/ sched_schedule(t)
      PROVE  /\ stack' = stack /\ local_count' = local_count
             /\ \A d \in AllCoros : pc'[d] = "fetch_add" => pc[d] = "fetch_add"
  <2>1. stack' = stack /\ local_count' = local_count
    BY Zenon, <1>5 DEF sched_event_wait, platform_poll_register, sched_wait, lock_to_push,
       heap_push, call_sched_suspend, sched_suspend, resume, sched_schedule, cpuVars
  <2> QED
    BY Zenon, <1>1, <1>5, <2>1 DEF sched_event_wait, platform_poll_register, sched_wait, lock_to_push,
       heap_push, call_sched_suspend, sched_suspend, resume, sched_schedule, Goto
<1> QED
  BY Zenon, <1>3, <1>4, <1>5 DEF UserStep

\* A step changes who is at the fetch-and-add in one of three ways.
LEMMA FetchingStep ==
    ASSUME IInv, IInv', [Next]_vars
    PROVE  \/ local_count' = local_count /\ Fetching' \subseteq Fetching
           \/ local_count' = local_count /\ local_count < LocalSize
           \/ \E t \in Fetching : /\ local_count' = local_count + 1
                                  /\ Fetching' \subseteq Fetching \ {t}
<1>1. ASSUME \A d \in AllCoros : pc'[d] = "fetch_add" => pc[d] = "fetch_add",
             \A u \in Fetching : stack'[u] = stack[u]
      PROVE  Fetching' \subseteq Fetching
  <2> SUFFICES ASSUME NEW u \in Fetching' PROVE u \in Fetching
    BY Zenon
  <2>1. u \in Threads /\ stack'[u] # NoCoro /\ pc'[stack'[u]] = "fetch_add"
    BY Zenon DEF Fetching, At
  <2>2. stack'[u] \in AllCoros
    <3>1. TypeOK'
      BY Zenon DEF IInv
    <3> QED
      BY Zenon, <2>1, <3>1 DEF TypeOK
  <2>3. pc[stack'[u]] = "fetch_add"
    BY Zenon, <1>1, <2>1, <2>2
  <2>4. PICK v \in Threads : stack[v] = stack'[u]
    <3>1. stack'[u] \notin Threads
      BY Zenon, <2>3, Parts DEF Labels, LoopPC
    <3> QED
      BY Zenon, <2>2, <2>3, <3>1, Parts DEF Labels, OnCpu, AllCoros
  <2>5. stack'[v] = stack'[u]
    BY Zenon, <1>1, <2>1, <2>3, <2>4 DEF Fetching, At
  <2>6. u = v
    <3>1. SingleOwner'
      BY Zenon DEF IInv, Places
    <3> QED
      BY Zenon, <2>1, <2>5, <3>1 DEF SingleOwner
  <2> QED
    BY Zenon, <2>1, <2>3, <2>4, <2>6 DEF Fetching, At
<1>2. ASSUME NEW t \in Threads, UserStep(t), \A n \in Coros : ~sched_new_coroutine(t, n)
      PROVE  \/ local_count' = local_count /\ Fetching' \subseteq Fetching
             \/ /\ t \in Fetching /\ local_count' = local_count + 1
                /\ Fetching' \subseteq Fetching \ {t}
  <2>1. Fetching' \subseteq Fetching
    BY Zenon, <1>1, <1>2, OnlyCreatorsFetch
  <2>2. ASSUME fetch_add(t)
        PROVE  t \in Fetching /\ local_count' = local_count + 1 /\ t \notin Fetching'
    <3>1. t \in Fetching /\ local_count' = local_count + 1
      BY Zenon, <2>2 DEF fetch_add, take_slot, Fetching
    <3>2. stack'[t] = stack[t]
      BY Zenon, <1>2, <3>1, OnlyCreatorsFetch
    <3>3. stack[t] \in Coros
      BY Zenon, <2>2, UserAt DEF fetch_add, UserOnly, UserPC
    <3>4. pc'[stack[t]] # "fetch_add"
      BY Zenon, <2>2, <3>3, SchedulerAssumption, Parts DEF fetch_add, Goto, TypeOK, AllCoros
    <3> QED
      BY Zenon, <3>1, <3>2, <3>4 DEF Fetching, At
  <2> QED
    BY Zenon, <1>2, <2>1, <2>2, OnlyCreatorsFetch
<1>3. ASSUME NEW t \in Threads, NEW n \in Coros, sched_new_coroutine(t, n)
      PROVE  local_count' = local_count /\ (local_count < LocalSize \/ Fetching' \subseteq Fetching)
  <2>1. local_count' = local_count /\ stack' = stack
    BY Zenon, <1>3 DEF sched_new_coroutine, cpuVars
  <2>2. ASSUME all_started
        PROVE  \A d \in AllCoros : pc'[d] = "fetch_add" => pc[d] = "fetch_add"
    BY Zenon, <1>3, <2>2, Parts DEF sched_new_coroutine, TypeOK
  <2>3. all_started \/ local_count < LocalSize
    BY SchedulerAssumption, Parts DEF all_started, TypeOK
  <2> QED
    BY Zenon, <1>1, <2>1, <2>2, <2>3
<1>4. ASSUME NEW t \in Threads, LoopStep(t)
      PROVE  local_count' = local_count /\ Fetching' \subseteq Fetching
  <2>1. local_count' = local_count /\ stack' = stack
    BY Zenon, <1>4 DEF LoopStep, sched_poll_timeout, timer_expiration, epoll_wait,
       sched_poll_event, poll_done, check_timers, sched_handle_timers, cpuVars
  <2>2. \A d \in AllCoros : pc'[d] = "fetch_add" => pc[d] = "fetch_add"
    <3>1. CASE sched_poll_timeout(t)
      BY Zenon, <3>1, Parts DEF sched_poll_timeout, Goto, TypeOK
    <3>2. CASE timer_expiration(t)
      BY Zenon, <3>2, Parts DEF timer_expiration, Goto, TypeOK
    <3>3. CASE epoll_wait(t) \/ poll_done(t) \/ check_timers(t)
      <4>1. \E l \in LoopPC : Goto(t, l)
        BY Zenon, <3>3 DEF epoll_wait, poll_done, check_timers, TimersDone, LoopPC
      <4> QED
        BY Zenon, <4>1, Parts DEF Goto, LoopPC, TypeOK
    <3>4. ASSUME NEW w \in Coros, sched_poll_event(t, w)
          PROVE  \A d \in AllCoros : pc'[d] = "fetch_add" => pc[d] = "fetch_add"
      BY Zenon, <3>4, Parts DEF sched_poll_event, Goto, TypeOK
    <3>5. CASE sched_handle_timers(t)
      BY Zenon, <3>5, Parts DEF sched_handle_timers, TimersDone, Goto, TypeOK
    <3> QED
      BY Zenon, <1>4, <3>1, <3>2, <3>3, <3>4, <3>5 DEF LoopStep
  <2> QED
    BY Zenon, <1>1, <2>1, <2>2
<1>5. ASSUME Environment \/ UNCHANGED vars
      PROVE  local_count' = local_count /\ Fetching' \subseteq Fetching
  <2>1. local_count' = local_count /\ stack' = stack /\ pc' = pc
    BY Zenon, <1>5 DEF Environment, become_ready, time_passes, vars, cpuVars
  <2> QED
    BY Zenon, <1>1, <2>1
<1> QED
  BY Zenon, <1>2, <1>3, <1>4, <1>5 DEF Next

\* Fetching is a finite set, no larger than the number of threads that run.
LEMMA FetchingSize ==
    ASSUME IInv
    PROVE  /\ IsFiniteSet(Fetching) /\ Cardinality(Fetching) \in Nat
           /\ local_count < LocalSize => Cardinality(Fetching) <= local_count
<1>1. local_count \in Nat \ {0} /\ LocalSize \in Nat \ {0}
  BY Zenon, SchedulerAssumption, Parts DEF TypeOK
<1>2. IsFiniteSet(Fetching)
  <2>1. IsFiniteSet(Threads)
    BY <1>1, FS_Interval, LocalSize - 1 \in Int DEF Threads
  <2> QED
    BY Zenon, <2>1, FS_Subset DEF Fetching
<1>3. Cardinality(Fetching) \in Nat
  BY Zenon, <1>2, FS_CardinalityType
<1>4. ASSUME local_count < LocalSize PROVE Cardinality(Fetching) <= local_count
  <2> DEFINE Running == 0 .. local_count - 1
  <2>1. Fetching \in SUBSET Running
    <3> SUFFICES ASSUME NEW t \in Fetching PROVE t \in Running
      BY Zenon
    <3>1. t \in Threads /\ stack[t] # NoCoro
      BY Zenon DEF Fetching, At
    <3>2. t < local_count
      BY Zenon, <3>1, Parts DEF SlotExclusive
    <3> QED
      BY <1>1, <3>1, <3>2 DEF Threads
  <2>2. IsFiniteSet(Running) /\ Cardinality(Running) = local_count
    BY <1>1, FS_Interval, local_count - 1 \in Int
  <2> HIDE DEF Running
  <2> QED
    BY Zenon, <2>1, <2>2, FS_Subset
<1> QED
  BY Zenon, <1>2, <1>3, <1>4

\* local_count cannot overflow: when all slots are taken only the threads that are
\* between the load and the fetch-and-add still increment it.
THEOREM CounterIsBounded == Spec => []CounterBounded
<1>1. LocalSize \in Nat \ {0}
  BY Zenon, SchedulerAssumption
<1>2. Init => Counting
  <2> SUFFICES ASSUME Init PROVE Counting
    BY Zenon
  <2>1. Fetching = {}
    BY Zenon, SchedulerAssumption DEF Init, Fetching, At, Threads, AllCoros
  <2> QED
    BY <1>1, <2>1, FS_EmptySet DEF Init, Counting
<1>3. IInv /\ IInv' /\ Counting /\ [Next]_vars => Counting'
  <2> SUFFICES ASSUME IInv, IInv', Counting, [Next]_vars PROVE Counting'
    BY Zenon
  <2>1. /\ local_count \in Nat \ {0}
        /\ IsFiniteSet(Fetching) /\ Cardinality(Fetching) \in Nat
    BY Zenon, FetchingSize, Parts DEF TypeOK
  <2>2. /\ Cardinality(Fetching') \in Nat
        /\ local_count' < LocalSize => Cardinality(Fetching') <= local_count'
    <3>1. IInv' => (/\ IsFiniteSet(Fetching) /\ Cardinality(Fetching) \in Nat
                    /\ local_count < LocalSize => Cardinality(Fetching) <= local_count)'
      BY FetchingSize, PTL
    <3> QED
      BY Zenon, <3>1
  <2>3. CASE local_count' = local_count /\ Fetching' \subseteq Fetching
    <3>1. Cardinality(Fetching') <= Cardinality(Fetching)
      BY Zenon, <2>1, <2>3, FS_Subset
    <3> QED
      BY <1>1, <2>1, <2>2, <2>3, <3>1 DEF Counting
  <2>4. CASE local_count' = local_count /\ local_count < LocalSize
    BY <1>1, <2>1, <2>2, <2>4 DEF Counting
  <2>5. ASSUME NEW t \in Fetching, local_count' = local_count + 1,
               Fetching' \subseteq Fetching \ {t}
        PROVE  Counting'
    <3>1. /\ IsFiniteSet(Fetching \ {t})
          /\ Cardinality(Fetching \ {t}) = Cardinality(Fetching) - 1
      BY Zenon, <2>1, FS_RemoveElement
    <3>2. Cardinality(Fetching') <= Cardinality(Fetching \ {t})
      BY Zenon, <2>5, <3>1, FS_Subset
    <3> QED
      BY <1>1, <2>1, <2>2, <2>5, <3>1, <3>2 DEF Counting
  <2> QED
    BY Zenon, <2>3, <2>4, <2>5, FetchingStep
<1>4. IInv /\ Counting => CounterBounded
  BY <1>1, FetchingSize, Parts DEF Counting, CounterBounded, TypeOK
<1> QED
  BY <1>2, <1>3, <1>4, Invariance, PTL DEF Spec

----------------------------------------------------------------------------
(* What callers see.                                                       *)

\* Coroutines counts with the Cardinality of its own instance of FiniteSets.
LEMMA SameCardinality ==
    ASSUME NEW S
    PROVE  Abstract!Cardinality(S) = Cardinality(S)
BY Zenon DEF Abstract!Cardinality, Cardinality

\* A coroutine that runs has a processor of its own.
LEMMA RunningFits == IInv => Cardinality(Abstract!Running) <= LocalSize
<1> SUFFICES ASSUME IInv PROVE Cardinality(Abstract!Running) <= LocalSize
  BY Zenon
<1> DEFINE Executed == {stack[t] : t \in Threads}
<1>1. IsFiniteSet(Threads) /\ Cardinality(Threads) = LocalSize
  BY SchedulerAssumption, FS_Interval, LocalSize - 1 \in Int DEF Threads
<1>2. stack \in Surjection(Threads, Executed)
  <2>1. stack \in [Threads -> Executed]
    BY Parts DEF TypeOK
  <2> QED
    BY Zenon, <2>1 DEF Surjection
<1>3. Abstract!Running \in SUBSET Executed
  BY Zenon DEF Abstract!Running, statusBar, OnCpu
<1> HIDE DEF Executed
<1>4. IsFiniteSet(Executed) /\ Cardinality(Executed) <= Cardinality(Threads)
  BY Zenon, <1>1, <1>2, FS_Surjection
<1>5. Cardinality(Abstract!Running) <= Cardinality(Executed)
  BY Zenon, <1>3, <1>4, FS_Subset
<1>6. IsFiniteSet(Abstract!Running)
  BY Zenon, <1>3, <1>4, FS_Subset
<1>7. Cardinality(Abstract!Running) \in Nat /\ Cardinality(Executed) \in Nat
  BY Zenon, <1>4, <1>6, FS_CardinalityType
<1> QED
  BY <1>1, <1>4, <1>5, <1>7, SchedulerAssumption

\* scheduler.c keeps what scheduler.h promises: whatever the threads, the run lists and
\* the wake-up handshake do, its coroutines behave as those of Coroutines do.  One that
\* blocks becomes runnable only after its event or its time, and no more of them run
\* than there are processors.
THEOREM Implements == Spec => ImplementsCoroutines
<1>1. IInv /\ IInv' /\ Fired /\ [Next]_vars => [Abstract!Next]_(Abstract!vars)
  <2> SUFFICES ASSUME IInv, IInv', Fired, [Next]_vars
               PROVE  [Abstract!Next]_(Abstract!vars)
    BY Zenon
  <2>1. Cardinality(Abstract!Running') <= LocalSize
    <3>1. IInv' => (Cardinality(Abstract!Running) <= LocalSize)'
      BY RunningFits, PTL
    <3> QED
      BY Zenon, <3>1
  <2>2. CASE Next
    <3>1. Simulated
      BY Zenon, <2>2, StepSimulated
    <3>2. Abstract!Cardinality(Abstract!Running') <= LocalSize
      BY Zenon, <2>1, SameCardinality
    <3> QED
      BY Zenon, <3>1, <3>2 DEF Simulated, Still, Abstract!Next, Abstract!vars
  <2>3. CASE UNCHANGED vars
    <3>1. \A d \in Coros : Untouched(d)
      BY Zenon, <2>3 DEF vars, cpuVars, waitVars, Untouched, OnCpu
    <3>2. Still
      BY Zenon, <2>3, <3>1, NothingHappens DEF vars, waitVars, epollVars, timerVars
    <3> QED
      BY Zenon, <3>2 DEF Still, Abstract!vars
  <2> QED
    BY Zenon, <2>2, <2>3
<1> QED
  BY <1>1, InitMaps, FiredInit, FiredStep, Invariance, PTL
     DEF Spec, ImplementsCoroutines, Abstract!Spec
=============================================================================
