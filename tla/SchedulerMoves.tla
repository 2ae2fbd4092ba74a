--------------------------- MODULE SchedulerMoves ---------------------------
(***************************************************************************)
(* Towards the inductive invariant of Scheduler: the steps that move a     *)
(* coroutine, by who owns it.  A thread exchanges its coroutine for another *)
(* one, sched_schedule() gives a sleeping coroutine an owner,              *)
(* sched_suspend() with its compare-and-exchange puts one to sleep, one     *)
(* ends, and one is created, with a thread to run it if there is a slot.    *)
(***************************************************************************)
EXTENDS SchedulerSteps

----------------------------------------------------------------------------
(* Ownership.                                                              *)

Owns(t, x) == stack[t] = x \/ x \in Range(run_list[t]) \/ InHand(t, x)

Unowned(x) == \A t \in Threads : ~Owns(t, x)

\* Only what thread t owns changes: it keeps, receives coroutines that had no
\* owner, and gives up ones that go to sleep or end.
OneThreadMoves(t) ==
    /\ \A u \in Threads : u # t =>
          /\ stack'[u] = stack[u] /\ run_list'[u] = run_list[u]
          /\ \A x \in AllCoros : InHand(u, x)' <=> InHand(u, x)
    /\ IsInjective(run_list'[t])
    /\ stack'[t] # NoCoro /\ stack'[t] \notin Range(run_list'[t])
    /\ \A x \in AllCoros :
          InHand(t, x)' => x # stack'[t] /\ x \notin Range(run_list'[t])
    /\ Owns(t, t)'
    /\ \A x \in AllCoros : Owns(t, x)' =>
          (Owns(t, x) \/ Unowned(x)) /\ pc'[x] # "free" /\ (x \in Threads => x = t)
    /\ \A x \in AllCoros : pc'[x] = "free" => pc[x] = "free" \/ Owns(t, x)
    /\ \A x \in Coros : state'[x] = "BLOCKED" =>
          /\ state[x] = "BLOCKED" \/ Owns(t, x) \/ Unowned(x)
          /\ ~Owns(t, x)'
    /\ \A x \in Coros :
          (Owns(t, x) \/ Unowned(x)) /\ ~Owns(t, x)' /\ pc'[x] # "free" =>
             state'[x] = "BLOCKED"

\* Such a step preserves what is said about places.
LEMMA OwnershipKept ==
    ASSUME IInv, TypeOK', NEW t \in Threads, OneThreadMoves(t)
    PROVE  Places' /\ NotLost'
<1> USE SchedulerAssumption DEF OneThreadMoves
<1>0. /\ \A x \in Coros : x \in AllCoros
      /\ \A u \in Threads : u \in AllCoros
      /\ NoCoro \notin AllCoros
  BY ZenonT(40) DEF AllCoros
<1>1. /\ \A u \in Threads : Range(run_list[u]) \subseteq AllCoros
      /\ \A u \in Threads : Range(run_list'[u]) \subseteq AllCoros
      /\ \A u \in Threads : stack[u] # NoCoro => stack[u] \in AllCoros
      /\ \A u \in Threads : stack'[u] # NoCoro => stack'[u] \in AllCoros
  <2>1. \A u \in Threads : run_list[u] \in Seq(AllCoros) /\ run_list'[u] \in Seq(AllCoros)
    BY ZenonT(40), Parts DEF TypeOK
  <2> QED
    BY <2>1, RangeType, Parts DEF TypeOK
<1>2. \A u, v \in Threads : \A x \in AllCoros : Owns(u, x) /\ Owns(v, x) => u = v
  BY <1>0, Parts DEF Places, SingleOwner, Owns, OnCpu, Queued
<1>3. \A u \in Threads : \A x \in AllCoros : u # t => (Owns(u, x)' <=> Owns(u, x))
  BY Zenon DEF Owns
<1>4. \A u, v \in Threads : \A x \in AllCoros : Owns(u, x)' /\ Owns(v, x)' => u = v
  BY <1>2, <1>3 DEF Unowned
<1>5. \A u \in Threads :
        /\ IsInjective(run_list'[u])
        /\ stack'[u] \in AllCoros => stack'[u] \notin Range(run_list'[u])
        /\ \A x \in AllCoros :
              InHand(u, x)' => x # stack'[u] /\ x \notin Range(run_list'[u])
  BY Parts DEF Places, SingleOwner, OnCpu, Queued
<1>6. \A x \in AllCoros : pc'[x] = "free" => \A u \in Threads : ~Owns(u, x)'
  <2>1. \A x \in AllCoros : pc[x] = "free" => Unowned(x)
    BY Zenon, Parts DEF Places, SingleOwner, Unowned, Owns, OnCpu, Queued
  <2> QED
    BY ZenonT(40), <1>2, <1>3, <2>1 DEF Unowned
<1>7. SingleOwner'
  <2>1. \A u, v \in Threads : stack'[u] = stack'[v] => u = v \/ stack'[u] = NoCoro
    BY Zenon, <1>1, <1>4 DEF Owns
  <2>2. \A u, v \in Threads : u # v => Range(run_list'[u]) \cap Range(run_list'[v]) = {}
    BY ZenonT(40), <1>1, <1>4 DEF Owns
  <2>3. \A u, v \in Threads : \A x \in AllCoros : InHand(u, x)' /\ InHand(v, x)' => u = v
    BY Zenon, <1>4 DEF Owns
  <2>4. \A x \in AllCoros : OnCpu(x)' => ~Queued(x)'
    BY ZenonT(40), <1>4, <1>5 DEF Owns, OnCpu, Queued
  <2>5. \A x \in AllCoros : \A u \in Threads : InHand(u, x)' => ~OnCpu(x)' /\ ~Queued(x)'
    BY ZenonT(90), <1>4, <1>5 DEF Owns, OnCpu, Queued
  <2>6. \A x \in AllCoros : pc'[x] = "free" =>
           ~OnCpu(x)' /\ ~Queued(x)' /\ \A u \in Threads : ~InHand(u, x)'
    BY Zenon, <1>6 DEF Owns, OnCpu, Queued
  <2> QED
    BY Zenon, <1>5, <2>1, <2>2, <2>3, <2>4, <2>5, <2>6 DEF SingleOwner
<1>8. Places'
  <2>1. \A u, v \in Threads : Owns(u, v)' => v = u
    BY <1>0, <1>3, Parts DEF Places, Owns
  <2>2. \A u \in Threads : stack'[u] # NoCoro => Owns(u, u)'
    BY ZenonT(90), <1>0, <1>3, Parts DEF Places, Owns
  <2>3. \A x \in Coros : state'[x] = "BLOCKED" => \A u \in Threads : ~Owns(u, x)'
    <3>1. \A x \in Coros : state[x] = "BLOCKED" => Unowned(x)
      BY Zenon, Parts DEF Places, Unowned, Owns, OnCpu, Queued
    <3> QED
      BY ZenonT(40), <1>0, <1>2, <1>3, <3>1 DEF Unowned
  <2> QED
    BY Zenon, <1>7, <2>1, <2>2, <2>3 DEF Places, Owns, OnCpu, Queued
<1>9. NotLost'
  <2>1. ASSUME NEW x \in Coros, pc'[x] # "free", \A u \in Threads : ~Owns(u, x)'
        PROVE  state'[x] = "BLOCKED"
    BY ZenonT(40), <1>0, <1>3, <2>1 DEF Unowned
  <2> QED
    BY Zenon, <2>1 DEF NotLost, Owns, OnCpu, Queued
<1> QED
  BY Zenon, <1>8, <1>9

\* The front of a run list: sched_dequeue_locked() gets a coroutine that no thread
\* executes and that has stopped where it can be continued.
LEMMA Front ==
    ASSUME IInv, NEW t \in Threads, run_list[t] # <<>>
    PROVE  /\ Head(run_list[t]) \in AllCoros
           /\ Head(run_list[t]) \in Range(run_list[t])
           /\ Tail(run_list[t]) \in Seq(AllCoros)
           /\ Range(Tail(run_list[t])) = Range(run_list[t]) \ {Head(run_list[t])}
           /\ IsInjective(Tail(run_list[t]))
           /\ ~OnCpu(Head(run_list[t])) /\ Head(run_list[t]) # NoCoro
           /\ pc[Head(run_list[t])] \in {"user", "resume", "loop"}
           /\ Head(run_list[t]) \in Threads => Head(run_list[t]) = t
           /\ stack[t] # NoCoro
<1> DEFINE next == Head(run_list[t])
<1>1. /\ next \in AllCoros /\ next \in Range(run_list[t])
      /\ Tail(run_list[t]) \in Seq(AllCoros)
      /\ Range(Tail(run_list[t])) = Range(run_list[t]) \ {next}
      /\ IsInjective(Tail(run_list[t]))
  BY ZenonT(40), RangeTail, Parts DEF TypeOK, Places, SingleOwner
<1> HIDE DEF next
<1>2. Queued(next)
  BY Zenon, <1>1 DEF Queued
<1>3. ~OnCpu(next) /\ pc[next] # "free" /\ (next \in Threads => next = t)
  BY Zenon, <1>1, <1>2, Parts DEF Places, SingleOwner
<1>4. pc[next] \in {"user", "resume", "loop"}
  BY Zenon, <1>1, <1>3, Parts DEF Labels, AllCoros, OnCpu
<1> QED
  BY Zenon, <1>1, <1>3, <1>4, SchedulerAssumption, Parts DEF next, AllCoros, Labels

\* A user coroutine always finds one, the event loop if no other.
LEMMA UserHasNext ==
    ASSUME IInv, NEW t \in Threads, stack[t] \in Coros, pc[stack[t]] # "cmpxchg"
    PROVE  run_list[t] # <<>>
<1>1. t \in Range(run_list[t])
  BY ZenonT(40), SchedulerAssumption, Parts DEF Places, InHand, At
<1> QED
  BY Zenon, <1>1, RangeType, Parts DEF TypeOK

\* What the places say about ownership.
LEMMA Owners ==
    ASSUME IInv, NEW t \in Threads
    PROVE  /\ stack[t] # NoCoro => Owns(t, t)
           /\ \A x \in AllCoros : Owns(t, x) => pc[x] # "free" /\ (x \in Threads => x = t)
           /\ \A x \in Coros : state[x] = "BLOCKED" => Unowned(x) /\ ~Owns(t, x)
           /\ \A x \in AllCoros : pc[x] = "free" => Unowned(x)
           /\ \A x \in Coros : Unowned(x) /\ pc[x] # "free" => state[x] = "BLOCKED"
<1>1. stack[t] # NoCoro => Owns(t, t)
  BY Zenon, Parts DEF Places, Owns
<1>2. \A x \in AllCoros : Owns(t, x) => pc[x] # "free" /\ (x \in Threads => x = t)
  BY Zenon, Parts DEF Places, SingleOwner, Owns, OnCpu, Queued
<1>3. \A x \in Coros : state[x] = "BLOCKED" => Unowned(x) /\ ~Owns(t, x)
  BY Zenon, Parts DEF Places, Unowned, Owns, OnCpu, Queued
<1>4. \A x \in AllCoros : pc[x] = "free" => Unowned(x)
  BY Zenon, Parts DEF Places, SingleOwner, Unowned, Owns, OnCpu, Queued
<1>5. \A x \in Coros : Unowned(x) /\ pc[x] # "free" => state[x] = "BLOCKED"
  BY Zenon, Parts DEF NotLost, Unowned, Owns, OnCpu, Queued
<1> QED
  BY Zenon, <1>1, <1>2, <1>3, <1>4, <1>5

----------------------------------------------------------------------------
(* The steps.                                                              *)

\* sched_resched() with a run list that is not empty.
LEMMA Keep_switch ==
    ASSUME IInv, NEW t \in Threads, sched_resched(t), run_list[t] # <<>>
    PROVE  IInv'
<1> DEFINE c == stack[t]
           next == Head(run_list[t])
           l == IF c = t THEN "loop" ELSE "user"
<1> USE SchedulerAssumption
<1>0. /\ \A x \in Coros : x \in AllCoros
      /\ \A u \in Threads : u \in AllCoros
      /\ NoCoro \notin AllCoros
      /\ \A x \in AllCoros : x \in Coros \/ x \in Threads
  BY Zenon DEF AllCoros
<1>1. /\ c \in AllCoros /\ c # NoCoro /\ OnCpu(c) /\ ~Queued(c)
      /\ pc[c] \in {"user", "resched"}
      /\ c \in Threads => c = t /\ pc[c] = "resched"
      /\ c \in Coros => pc[c] = "user"
  <2>1. c \in AllCoros /\ c # NoCoro /\ OnCpu(c) /\ pc[c] \in {"user", "resched"}
    BY Zenon, Parts DEF sched_resched, At, TypeOK, OnCpu
  <2> QED
    BY ZenonT(90), <2>1, <1>0, Parts DEF Labels, Places, SingleOwner, LoopPC, UserPC
<1>2. /\ next \in AllCoros /\ next \in Range(run_list[t]) /\ ~OnCpu(next)
      /\ pc[next] \in {"user", "resume", "loop"} /\ next # NoCoro
      /\ next \in Threads => next = t
  BY Zenon, Front
<1>3. current_coro[t] = c
  BY Zenon, <1>1, Parts DEF CurrentCoro, At
<1>4. /\ stack' = [stack EXCEPT ![t] = next]
      /\ current_coro' = [current_coro EXCEPT ![t] = next]
      /\ run_list' = [run_list EXCEPT ![t] = Tail(Append(run_list[t], c))]
      /\ pc' = [pc EXCEPT ![c] = l]
      /\ UNCHANGED <<local_count, coro, state, waitVars, epollVars, loopVars, timerVars>>
  BY Zenon, <1>3 DEF sched_resched, SwitchTo, Goto
<1>5. /\ Tail(Append(run_list[t], c)) \in Seq(AllCoros)
      /\ Range(Tail(Append(run_list[t], c))) = (Range(run_list[t]) \cup {c}) \ {next}
      /\ IsInjective(Tail(Append(run_list[t], c)))
  <2>1. run_list[t] \in Seq(AllCoros) /\ IsInjective(run_list[t]) /\ c \notin Range(run_list[t])
    BY <1>1, Parts DEF TypeOK, Places, SingleOwner, Queued
  <2>2. /\ Append(run_list[t], c) \in Seq(AllCoros) /\ Append(run_list[t], c) # <<>>
        /\ Range(Append(run_list[t], c)) = Range(run_list[t]) \cup {c}
        /\ IsInjective(Append(run_list[t], c))
        /\ Head(Append(run_list[t], c)) = next
    BY <1>1, <2>1, RangeAppend
  <2> QED
    BY ZenonT(60), <2>2, RangeTail
<1>6. /\ \A x \in AllCoros : x # c => pc'[x] = pc[x]
      /\ pc'[c] = l /\ c # next
      /\ \A u \in Threads : u # t => stack'[u] = stack[u] /\ stack[u] # c
      /\ stack'[t] = next
      /\ \A u \in Threads : u # t => run_list'[u] = run_list[u]
      /\ run_list'[t] = Tail(Append(run_list[t], c))
      /\ \A u \in Threads : u # t => current_coro'[u] = current_coro[u]
      /\ current_coro'[t] = next
  BY <1>0, <1>1, <1>2, <1>4, Parts DEF TypeOK, Places, SingleOwner
<1>7. TypeOK'
  BY Zenon, <1>1, <1>2, <1>4, <1>5, Parts DEF TypeOK, LoopPC, UserPC, waitVars, epollVars,
     loopVars, timerVars
<1> HIDE DEF c, next
<1>8. /\ \A u \in Threads : At(u, "cmpxchg")' <=> At(u, "cmpxchg")
      /\ ~At(t, "cmpxchg")
      /\ \A u \in Threads : u # t => \A x : InHand(u, x)' <=> InHand(u, x)
      /\ \A x : ~InHand(t, x) /\ ~InHand(t, x)'
  <2>1. ~At(t, "cmpxchg") /\ ~At(t, "cmpxchg")'
    BY ZenonT(40), <1>1, <1>2, <1>6 DEF At, c
  <2>2. \A u \in Threads : u # t => (At(u, "cmpxchg")' <=> At(u, "cmpxchg"))
    BY <1>6, Parts DEF At, TypeOK
  <2> QED
    BY ZenonT(60), <1>4, <1>6, <2>1, <2>2 DEF InHand
<1>9. Labels'
  <2>1. \A d \in Coros : d # c /\ OnCpu(d) => OnCpu(d)'
    BY ZenonT(40), <1>6 DEF OnCpu, c
  <2>2. \A u \in Threads : pc'[u] \notin {"free", "loop"} => stack'[u] = u
    <3>1. \A u \in Threads : pc[u] \notin {"free", "loop"} => stack[u] = u
      BY Zenon, Parts DEF Labels
    <3>2. \A u \in Threads : u # c => pc'[u] = pc[u]
      BY ZenonT(40), <1>0, <1>6
    <3> QED
      BY ZenonT(40), <1>0, <1>1, <1>6, <3>1, <3>2 DEF c
  <2>3. \A u \in Threads : (pc'[u] = "free" <=> stack'[u] = NoCoro)
    BY <1>0, <1>1, <1>2, <1>6, Parts DEF Labels, c
  <2>4. \A u \in Threads : glock = u => pc'[u] = "schedule"
    BY <1>0, <1>1, <1>6, Parts DEF Labels
  <2>5. \A u \in Threads : pc'[u] \in LoopPC \cup {"free"}
    BY ZenonT(40), <1>0, <1>1, <1>6, Parts DEF Labels, LoopPC
  <2>6. Labels
    BY Zenon, Parts
  <2>7. /\ \A d \in Coros : pc'[d] \in UserPC \cup {"free"}
        /\ \A d \in Coros : pc'[d] \notin {"free", "user", "resume"} => OnCpu(d)'
        /\ pc'[MainCoro] # "free"
    BY ZenonT(90), <1>0, <1>1, <1>6, <2>1, <2>6 DEF Labels, UserPC
  <2>8. /\ \A u \in Threads : stack'[u] = NoCoro => run_list'[u] = <<>>
        /\ glock' = glock
    BY ZenonT(90), <1>0, <1>2, <1>4, <1>6, <2>6 DEF Labels, timerVars
  <2> QED
    BY ZenonT(40), <2>2, <2>3, <2>4, <2>5, <2>7, <2>8 DEF Labels
<1>10. Pointers' /\ SlotExclusive'
  <2>1. Pointers'
    <3>1. coro' = coro /\ \A d \in AllCoros : pc'[d] = "cmpxchg" => pc[d] = "cmpxchg"
      <4>1. coro' = coro
        BY Zenon, <1>4
      <4>2. pc'[c] # "cmpxchg"
        BY Zenon, <1>6
      <4> QED
        BY Zenon, <1>6, <4>1, <4>2
    <3>2. \A d \in AllCoros : Waking(d)' => Waking(d)
      BY Zenon, <1>6 DEF Waking
    <3> QED
      BY Zenon, <1>0, <3>1, <3>2, Parts DEF Pointers
  <2>2. SlotExclusive'
    <3>1. SlotExclusive /\ local_count' = local_count
      BY Zenon, <1>4, Parts
    <3>2. \A u \in Threads : stack'[u] = NoCoro <=> stack[u] = NoCoro
      BY ZenonT(40), <1>1, <1>2, <1>6 DEF c
    <3> QED
      BY Zenon, <3>1, <3>2 DEF SlotExclusive
  <2> QED
    BY Zenon, <2>1, <2>2
<1>11. CurrentCoro'
  BY <1>4, <1>6, <1>8, Parts DEF CurrentCoro
<1>12. Places' /\ NotLost'
  <2>1. \A x \in AllCoros : Owns(t, x)' <=> Owns(t, x)
    BY ZenonT(90), <1>2, <1>5, <1>6, <1>8 DEF Owns, c
  <2>2. \A x \in AllCoros : pc'[x] = "free" <=> pc[x] = "free"
    BY Zenon, <1>1, <1>6
  <2>3. /\ Owns(t, t)
        /\ \A x \in AllCoros : Owns(t, x) => pc[x] # "free" /\ (x \in Threads => x = t)
        /\ \A x \in Coros : state[x] = "BLOCKED" => ~Owns(t, x)
        /\ \A x \in Coros : Unowned(x) /\ pc[x] # "free" => state[x] = "BLOCKED"
    BY Zenon, <1>1, Owners DEF c
  <2>4. OneThreadMoves(t)
    BY ZenonT(60), <1>0, <1>2, <1>4, <1>5, <1>6, <1>8, <2>1, <2>2, <2>3 DEF OneThreadMoves
  <2> QED
    BY Zenon, <1>7, <2>4, OwnershipKept
<1>13. WaitRecords' /\ Registrations' /\ Timers' /\ Wakers' /\ Woken'
  <2>1. SameWaits
    BY <1>0, <1>1, <1>4, <1>6, Parts DEF SameWaits, Waking, loopVars, timerVars,
       Registrations
  <2> QED
    BY ZenonT(40), <2>1, WaitsKept
<1> QED
  BY Zenon, <1>7, <1>9, <1>10, <1>11, <1>12, <1>13 DEF IInv

\* sched_schedule(): a sleeping coroutine, which nobody owned, goes on the run list.
LEMMA Keep_sched_schedule ==
    ASSUME IInv, NEW t \in Threads, sched_schedule(t)
    PROVE  IInv'
<1> DEFINE c == stack[t]
           n == coro[c]
           l == IF c \in Coros THEN "user" ELSE IF glock = c THEN "timers" ELSE "events"
           sleeps == state[n] = "BLOCKED"
<1> USE SchedulerAssumption
<1>0. /\ \A x \in Coros : x \in AllCoros
      /\ \A u \in Threads : u \in AllCoros /\ u \notin Coros
      /\ NoCoro \notin AllCoros
      /\ \A x \in AllCoros : x \in Coros \/ x \in Threads
  BY Zenon DEF AllCoros
<1>1. /\ c \in AllCoros /\ pc[c] = "schedule" /\ c # NoCoro /\ OnCpu(c)
      /\ c \in Threads => c = t
      /\ \A u \in Threads : stack[u] = c => u = t
  <2>1. c \in AllCoros /\ pc[c] = "schedule" /\ c # NoCoro /\ OnCpu(c)
    BY Zenon, Parts DEF sched_schedule, At, TypeOK, OnCpu
  <2> QED
    BY Zenon, <2>1, Parts DEF Places, SingleOwner
<1>2. Waking(c) /\ n \in Coros /\ n \in AllCoros
  BY Zenon, <1>0, <1>1, Parts DEF Pointers, Waking
<1>3. /\ pc' = [pc EXCEPT ![c] = l]
      /\ state' = [state EXCEPT ![n] = "RUNNABLE"]
      /\ run_list' = IF sleeps THEN [run_list EXCEPT ![t] = Append(run_list[t], n)]
                     ELSE run_list
      /\ coro' = [coro EXCEPT ![c] = NoCoro]
      /\ glock' = IF glock = c THEN NoCoro ELSE glock
      /\ UNCHANGED <<local_count, current_coro, stack, waitVars, epollVars, loopVars,
                     timer_heap, expired>>
  BY Zenon DEF sched_schedule, asleep, Enqueue, Goto
<1>4. /\ pc[n] \in Suspending \cup {"user"} /\ state[n] \in Asleep
      /\ n \notin waiter /\ n \notin timer_heap /\ n # c
      /\ wait[n] # "none" =>
            pc[n] \in Suspending /\ n \in (IF wait[n] = "timer" THEN expired ELSE events)
  <2>1. CASE c \in Coros
    <3>1. pc[n] = "user" /\ state[n] = "BLOCKED"
      BY Zenon, <2>1, <1>2, Parts DEF Wakers
    <3>2. wait[n] = "none" /\ n \notin waiter /\ n \notin timer_heap
      BY Zenon, <3>1, <1>2, Parts DEF WaitRecords, Timers
    <3> QED
      BY Zenon, <3>1, <3>2, <1>1 DEF Asleep
  <2>2. CASE c \in Threads
    <3>1. /\ wait[n] # "none" /\ pc[n] \in Suspending /\ state[n] \in Asleep
          /\ n \notin waiter /\ n \notin timer_heap
          /\ wait[n] = "timer" => n \in expired
          /\ wait[n] = "event" => n \in events
      BY Zenon, <2>2, <1>1, Parts DEF Wakers
    <3>2. wait[n] \in {"none", "event", "timer"}
      BY Zenon, <1>2, Parts DEF TypeOK
    <3> QED
      BY Zenon, <3>1, <3>2, <1>1 DEF Suspending
  <2> QED
    BY Zenon, <2>1, <2>2, <1>0, <1>1
<1>5. \A d \in AllCoros : Waking(d) /\ d # c => coro[d] # n
  BY Zenon, <1>1, <1>2, Parts DEF Wakers
<1>6. /\ l \in UserPC \cup LoopPC /\ l \notin {"schedule", "fetch_add", "cmpxchg", "free"}
      /\ c \in Coros => l = "user"
      /\ c \in Threads => l \in {"timers", "events"}
      /\ c \in Threads /\ l = "timers" => glock = c
  BY Zenon, <1>0 DEF UserPC, LoopPC
<1> HIDE DEF c, n, l, sleeps
<1>7. /\ Append(run_list[t], n) \in Seq(AllCoros)
      /\ Range(Append(run_list[t], n)) = Range(run_list[t]) \cup {n}
      /\ IsInjective(run_list[t])
      /\ n \notin Range(run_list[t]) => IsInjective(Append(run_list[t], n))
  BY <1>2, RangeAppend, Parts DEF TypeOK, Places, SingleOwner
<1>8. TypeOK'
  <2>1. run_list' \in [Threads -> Seq(AllCoros)]
    BY Zenon, <1>3, <1>7, Parts DEF TypeOK
  <2>2. pc' \in [AllCoros -> UserPC \cup LoopPC \cup {"free"}]
    BY ZenonT(60), <1>3, <1>6, Parts DEF TypeOK
  <2>3. state' \in [Coros -> StateOrJunk]
    BY ZenonT(60), <1>3, Parts DEF TypeOK, StateOrJunk, CoroState
  <2>4. /\ coro' \in [AllCoros -> AllCoros \cup {NoCoro}]
        /\ glock' \in AllCoros \cup {NoCoro}
    BY ZenonT(60), <1>3, Parts DEF TypeOK
  <2> QED
    BY Zenon, <1>3, <2>1, <2>2, <2>3, <2>4, Parts DEF TypeOK, waitVars, epollVars,
       loopVars
<1>9. /\ \A x \in AllCoros : x # c => pc'[x] = pc[x] /\ coro'[x] = coro[x]
      /\ pc'[c] = l /\ coro'[c] = NoCoro
      /\ \A x \in Coros : x # n => state'[x] = state[x]
      /\ state'[n] = "RUNNABLE"
      /\ \A u \in Threads : u # t => run_list'[u] = run_list[u]
      /\ run_list'[t] = IF sleeps THEN Append(run_list[t], n) ELSE run_list[t]
  BY ZenonT(40), <1>1, <1>2, <1>3, Parts DEF TypeOK
<1>10. UNCHANGED <<local_count, current_coro, stack, wait, fd, waiter, events, interest,
                   armed, batch, timer_heap, expired>>
  BY Zenon, <1>3 DEF waitVars, epollVars, loopVars
<1>11. \A d \in AllCoros : Waking(d)' <=> Waking(d) /\ d # c
  BY Zenon, <1>6, <1>9 DEF Waking
<1>12. \A u \in Threads : glock' = u => glock = u /\ u # c
  BY Zenon, <1>0, <1>3
<1>13. Labels'
  <2>1. \A d \in Coros : OnCpu(d)' <=> OnCpu(d)
    BY Zenon, <1>10 DEF OnCpu
  <2>2. \A u \in Threads : /\ pc'[u] \in LoopPC \cup {"free"}
                           /\ pc'[u] = "free" <=> pc[u] = "free"
                           /\ pc'[u] \notin {"free", "loop"} => stack[u] = u
    BY ZenonT(90), <1>0, <1>1, <1>6, <1>9, Parts DEF Labels, LoopPC, c
  <2>3. \A u \in Threads : stack[u] = NoCoro => run_list'[u] = run_list[u]
    BY Zenon, <1>1, <1>9 DEF c
  <2>4. \A x \in Coros : /\ pc'[x] \in UserPC \cup {"free"}
                         /\ pc'[x] \notin {"free", "user", "resume"} => OnCpu(x)
                         /\ pc'[x] = "free" => pc[x] = "free"
    BY ZenonT(40), <1>0, <1>1, <1>6, <1>9, Parts DEF Labels, UserPC
  <2>5. \A u \in Threads : glock' = u => pc'[u] = "schedule"
    BY ZenonT(40), <1>0, <1>9, <1>12, Parts DEF Labels
  <2> QED
    BY ZenonT(40), <1>10, <2>1, <2>2, <2>3, <2>4, <2>5, Parts DEF Labels
<1>14. Pointers' /\ SlotExclusive'
  <2>1. Pointers'
    BY ZenonT(40), <1>0, <1>6, <1>9, <1>11, Parts DEF Pointers
  <2> QED
    BY Zenon, <1>10, <2>1, Parts DEF SlotExclusive
<1>15. /\ \A u \in Threads : At(u, "cmpxchg")' <=> At(u, "cmpxchg")
       /\ \A u \in Threads : At(u, "cmpxchg") => coro'[stack[u]] = coro[stack[u]]
       /\ \A u \in Threads : \A x : InHand(u, x)' <=> InHand(u, x)
  <2>1. \A u \in Threads : stack[u] # NoCoro => stack[u] \in AllCoros
    BY Zenon, Parts DEF TypeOK
  <2>2. \A x \in AllCoros :
           /\ pc'[x] = "cmpxchg" <=> pc[x] = "cmpxchg"
           /\ pc[x] = "cmpxchg" => coro'[x] = coro[x]
    BY Zenon, <1>1, <1>6, <1>9
  <2>3. /\ \A u \in Threads : At(u, "cmpxchg")' <=> At(u, "cmpxchg")
        /\ \A u \in Threads : At(u, "cmpxchg") => coro'[stack[u]] = coro[stack[u]]
    BY Zenon, <1>10, <2>1, <2>2 DEF At
  <2> QED
    BY Zenon, <1>10, <2>3 DEF InHand
<1>16. CurrentCoro'
  BY Zenon, <1>10, <1>15, Parts DEF CurrentCoro
<1>17. Places' /\ NotLost'
  <2>1. \A x \in AllCoros : Owns(t, x)' <=> Owns(t, x) \/ (sleeps /\ x = n)
    BY ZenonT(40), <1>2, <1>7, <1>9, <1>10, <1>15 DEF Owns
  <2>2. /\ Owns(t, t)
        /\ \A x \in AllCoros : Owns(t, x) => pc[x] # "free" /\ (x \in Threads => x = t)
        /\ \A x \in Coros : state[x] = "BLOCKED" => ~Owns(t, x)
        /\ \A x \in Coros : Unowned(x) /\ pc[x] # "free" => state[x] = "BLOCKED"
        /\ sleeps => Unowned(n) /\ ~Owns(t, n)
    BY Zenon, <1>0, <1>1, <1>2, Owners DEF sleeps, c
  <2>3. /\ stack[t] \in AllCoros /\ stack[t] # NoCoro
        /\ stack[t] \notin Range(run_list[t])
        /\ \A x \in AllCoros : InHand(t, x) => x # stack[t] /\ x \notin Range(run_list[t])
    BY Zenon, <1>1, Parts DEF Places, SingleOwner, OnCpu, Queued, c
  <2>4. sleeps => n # stack[t] /\ n \notin Range(run_list[t]) /\ ~InHand(t, n)
    BY Zenon, <2>2 DEF Owns
  <2>5. /\ stack'[t] = stack[t]
        /\ stack[t] \notin Range(run_list'[t]) /\ IsInjective(run_list'[t])
        /\ \A x \in AllCoros : InHand(t, x)' => x # stack[t] /\ x \notin Range(run_list'[t])
    <3>1. stack' = stack /\ \A x \in AllCoros : InHand(t, x)' => InHand(t, x)
      BY Zenon, <1>10, <1>15
    <3>2. CASE sleeps
      <4>1. Range(run_list'[t]) = Range(run_list[t]) \cup {n} /\ IsInjective(run_list'[t])
        BY Zenon, <3>2, <1>7, <1>9, <2>4
      <4> QED
        BY Zenon, <3>1, <3>2, <4>1, <2>3, <2>4
    <3>3. CASE ~sleeps
      BY Zenon, <3>1, <3>3, <1>7, <1>9, <2>3
    <3> QED
      BY Zenon, <3>2, <3>3
  <2>6. /\ \A x \in AllCoros : pc'[x] = "free" <=> pc[x] = "free"
        /\ pc[n] # "free" /\ n \notin Threads
    BY Zenon, <1>0, <1>1, <1>2, <1>4, <1>6, <1>9 DEF Suspending
  <2>7. \A x \in Coros : state'[x] = "BLOCKED" <=> state[x] = "BLOCKED" /\ x # n
    BY Zenon, <1>9
  <2>8. Unowned(n) => sleeps
    BY Zenon, <1>2, <2>2, <2>6 DEF sleeps
  <2>9. Owns(t, t)' /\ t \in AllCoros
    BY Zenon, <1>0, <2>1, <2>2
  <2>10. \A u \in Threads : u # t =>
          /\ stack'[u] = stack[u] /\ run_list'[u] = run_list[u]
          /\ \A x \in AllCoros : InHand(u, x)' <=> InHand(u, x)
    BY Zenon, <1>9, <1>10, <1>15
  <2>11. \A x \in AllCoros : Owns(t, x)' =>
            (Owns(t, x) \/ Unowned(x)) /\ pc'[x] # "free" /\ (x \in Threads => x = t)
    BY Zenon, <2>1, <2>2, <2>6
  <2>12. \A x \in Coros : state'[x] = "BLOCKED" => state[x] = "BLOCKED" /\ ~Owns(t, x)'
    BY Zenon, <1>0, <2>1, <2>2, <2>7
  <2>13. \A x \in Coros :
            (Owns(t, x) \/ Unowned(x)) /\ ~Owns(t, x)' /\ pc'[x] # "free" =>
               state'[x] = "BLOCKED"
    BY ZenonT(40), <1>0, <2>1, <2>2, <2>6, <2>7, <2>8
  <2>14. OneThreadMoves(t)
    BY ZenonT(40), <2>3, <2>5, <2>6, <2>9, <2>10, <2>11, <2>12, <2>13 DEF OneThreadMoves
  <2> QED
    BY Zenon, <1>8, <2>14, OwnershipKept
<1>18. WaitRecords'
  <2>1. \A x \in Coros : x # n /\ (\E d \in Coros : Waking(d) /\ coro[d] = x) =>
           \E d \in Coros : Waking(d)' /\ coro'[d] = x
    BY Zenon, <1>0, <1>9, <1>11 DEF n
  <2>2. \A x \in Coros : x # c => pc'[x] = pc[x]
    BY Zenon, <1>0, <1>9
  <2>3. c \in Coros => pc'[c] = "user" /\ wait[c] = "none" /\ state'[c] = state[c]
    BY ZenonT(40), <1>1, <1>4, <1>6, <1>9, Parts DEF WaitRecords
  <2>4. pc'[n] \in Suspending \cup {"user"} /\ pc'[n] = pc[n]
    BY Zenon, <1>2, <1>4, <1>9
  <2>5. ASSUME NEW x \in Coros, x # n, x # c PROVE WaitRecords!(x)'
    <3>1. WaitRecords!(x)
      BY ZenonT(40), Parts DEF WaitRecords
    <3>2. /\ pc'[x] = pc[x] /\ state'[x] = state[x]
          /\ wait'[x] = wait[x] /\ waiter' = waiter
          /\ (\E d \in Coros : Waking(d) /\ coro[d] = x) =>
                \E d \in Coros : Waking(d)' /\ coro'[d] = x
      BY Zenon, <1>9, <1>10, <2>1, <2>2, <2>5
    <3> QED
      BY ZenonT(40), <3>1, <3>2
  <2>6. ASSUME NEW x \in Coros, x = n PROVE WaitRecords!(x)'
    BY ZenonT(40), <1>2, <1>4, <1>9, <1>10, <2>4, <2>6, Parts DEF WaitRecords, Suspending
  <2>7. ASSUME NEW x \in Coros, x = c PROVE WaitRecords!(x)'
    <3>1. WaitRecords!(x)
      BY ZenonT(40), Parts DEF WaitRecords
    <3> QED
      BY <1>1, <1>4, <1>9, <1>10, <2>1, <2>3, <2>7, <3>1
  <2> QED
    BY Zenon, <2>5, <2>6, <2>7 DEF WaitRecords
<1>19. Registrations'
  <2>1. \A u \in Threads : batch[u] # {} => pc'[u] \in {"events", "schedule"} /\ glock' # u
    <3>1. \A u \in Threads : batch[u] # {} => pc[u] \in {"events", "schedule"} /\ glock # u
      BY Zenon, Parts DEF Registrations
    <3>2. \A u \in Threads : batch[u] # {} /\ u = c => pc'[u] = "events"
      BY Zenon, <1>6, <1>9, <3>1
    <3> QED
      BY ZenonT(40), <1>0, <1>9, <1>12, <3>1, <3>2
  <2>2. \A x \in Coros : pc[x] \in Suspending => pc'[x] = pc[x]
    BY Zenon, <1>0, <1>1, <1>9 DEF Suspending
  <2>3. Registrations
    BY Zenon, Parts
  <2> QED
    BY <1>10, <2>1, <2>2, <2>3 DEF Registrations
<1>20. Timers'
  <2>1. \A x \in timer_heap : x \in Coros /\ x # n /\ pc[x] \in Suspending /\ x # c
    BY ZenonT(40), <1>1, <1>4, Parts DEF Timers, TypeOK, Suspending
  <2> QED
    BY ZenonT(40), <1>0, <1>9, <1>10, <2>1, Parts DEF Timers
<1>21. Wakers'
  <2>1. \A d \in AllCoros : Waking(d) => coro[d] \in Coros /\ coro[d] # c
    BY Zenon, <1>1, Parts DEF Pointers, Wakers, Waking, Labels, AllCoros, LoopPC,
       Suspending
  <2>2. \A d \in AllCoros : Waking(d) /\ d # c =>
           /\ coro[d] \in Coros /\ coro'[d] = coro[d]
           /\ pc'[coro[d]] = pc[coro[d]] /\ state'[coro[d]] = state[coro[d]]
    BY ZenonT(40), <1>0, <1>5, <1>9, <2>1
  <2>3. \A u \in Threads : pc'[u] = "schedule" => pc[u] = "schedule" /\ Waking(u) /\ u # c
    BY Zenon, <1>0, <1>1, <1>6, <1>9 DEF Waking
  <2>4. Wakers
    BY Zenon, Parts
  <2> QED
    BY <1>0, <1>10, <1>11, <2>2, <2>3, <2>4 DEF Wakers
<1>22. Woken'
  <2>1. \A d \in Coros : d # n /\ BeingScheduled(d) => BeingScheduled(d)'
    BY Zenon, <1>9, <1>11 DEF BeingScheduled, Waking, n
  <2>2. \A d \in Coros : d # n /\ HasWaker(d) => HasWaker(d)'
    BY Zenon, <1>10, <2>1 DEF HasWaker, EventWaker
  <2>3. \A x \in Coros : pc'[x] \in Suspending => pc[x] \in Suspending
    BY Zenon, <1>0, <1>6, <1>9 DEF Suspending
  <2>4. state'[n] \notin Asleep
    BY Zenon, <1>9 DEF Asleep
  <2> QED
    BY ZenonT(40), <1>2, <1>4, <1>9, <1>10, <2>2, <2>3, <2>4, Parts DEF Woken
<1> QED
  BY ZenonT(40), <1>8, <1>13, <1>14, <1>16, <1>17, <1>18, <1>19, <1>20, <1>21, <1>22 DEF IInv

----------------------------------------------------------------------------
(* Leaving the processor.                                                  *)

\* sched_resched(): the event loop may find its run list empty, others may not.
LEMMA Keep_sched_resched ==
    ASSUME IInv, NEW t \in Threads, sched_resched(t)
    PROVE  IInv'
<1>1. CASE run_list[t] # <<>>
  BY Zenon, <1>1, Keep_switch
<1>2. CASE run_list[t] = <<>> /\ At(t, "resched")
  <2>1. /\ stack[t] = t /\ t \in AllCoros /\ t \notin Coros /\ pc[t] = "resched"
    BY Zenon, <1>2, LoopAt DEF LoopOnly, LoopPC
  <2>2. batch[t] = {}
    BY Zenon, <2>1, Parts DEF Registrations
  <2>3. TypeOK'
    BY Zenon, <1>2, <2>1, Parts DEF sched_resched, Goto, LoopPC, cpuVars, waitVars,
       epollVars,
       loopVars, timerVars, TypeOK
  <2>4. QuietLoopStep(t, "loop")
    BY Zenon, <1>2, <2>1, <2>2 DEF sched_resched, QuietLoopStep, Goto, LoopOnly, LoopPC,
       loopVars
  <2> QED
    BY Zenon, <2>3, <2>4, Keep_QuietLoopStep
<1>3. CASE run_list[t] = <<>> /\ At(t, "user")
  BY <1>3, UserAt, UserHasNext DEF UserOnly, UserPC
<1> QED
  BY Zenon, <1>1, <1>2, <1>3 DEF sched_resched

\* sched_suspend(), first half: the next coroutine moves from the run list into the
\* thread's hands.
LEMMA Keep_sched_suspend ==
    ASSUME IInv, NEW t \in Threads, sched_suspend(t)
    PROVE  IInv'
<1> DEFINE c == stack[t]
           next == Head(run_list[t])
<1> USE SchedulerAssumption
<1>0. /\ \A x \in Coros : x \in AllCoros
      /\ \A u \in Threads : u \in AllCoros
      /\ NoCoro \notin AllCoros
  BY Zenon DEF AllCoros
<1>1. /\ c \in Coros /\ c \notin Threads /\ pc[c] = "suspend" /\ OnCpu(c)
      /\ \A u \in Threads : stack[u] = c => u = t
  BY Zenon, UserAt DEF sched_suspend, UserOnly, UserPC
<1>2. /\ next \in AllCoros /\ next \in Range(run_list[t]) /\ ~OnCpu(next)
      /\ next # NoCoro /\ Tail(run_list[t]) \in Seq(AllCoros)
      /\ Range(Tail(run_list[t])) = Range(run_list[t]) \ {next}
      /\ IsInjective(Tail(run_list[t])) /\ run_list[t] # <<>>
  BY Zenon, <1>1, UserHasNext, Front
<1>3. /\ current_coro' = [current_coro EXCEPT ![t] = next]
      /\ run_list' = [run_list EXCEPT ![t] = Tail(run_list[t])]
      /\ coro' = [coro EXCEPT ![c] = next]
      /\ pc' = [pc EXCEPT ![c] = "cmpxchg"]
      /\ UNCHANGED <<local_count, stack, state, waitVars, epollVars, loopVars, timerVars>>
  BY Zenon DEF sched_suspend, Dequeue, Goto
<1>4. /\ \A x \in AllCoros : x # c => pc'[x] = pc[x] /\ coro'[x] = coro[x]
      /\ pc'[c] = "cmpxchg" /\ coro'[c] = next
      /\ \A u \in Threads : u # t => run_list'[u] = run_list[u]
      /\ run_list'[t] = Tail(run_list[t])
      /\ \A u \in Threads : u # t => current_coro'[u] = current_coro[u]
      /\ current_coro'[t] = next
  BY ZenonT(40), <1>0, <1>1, <1>3, Parts DEF TypeOK
<1>5. TypeOK'
  BY Zenon, <1>0, <1>1, <1>2, <1>3, Parts DEF TypeOK, UserPC, waitVars, epollVars,
     loopVars,
     timerVars
<1>6. c # next /\ c \notin Range(run_list[t])
  BY ZenonT(40), <1>0, <1>1, <1>2, Parts DEF Places, SingleOwner, Queued
<1> HIDE DEF c, next
<1>7. /\ \A u \in Threads : u # t => (At(u, "cmpxchg")' <=> At(u, "cmpxchg"))
      /\ At(t, "cmpxchg")' /\ ~At(t, "cmpxchg")
      /\ \A u \in Threads : u # t => \A x : InHand(u, x)' <=> InHand(u, x)
      /\ \A x : ~InHand(t, x) /\ (InHand(t, x)' <=> x = next)
  <2>1. ~At(t, "cmpxchg") /\ At(t, "cmpxchg")' /\ stack'[t] = c
    BY Zenon, <1>0, <1>1, <1>3, <1>4 DEF At, c
  <2>2. \A u \in Threads : u # t =>
           /\ At(u, "cmpxchg")' <=> At(u, "cmpxchg")
           /\ At(u, "cmpxchg") => coro'[stack[u]] = coro[stack[u]]
    <3>1. \A u \in Threads : u # t /\ stack[u] # NoCoro =>
             stack[u] \in AllCoros /\ stack[u] # c
      BY ZenonT(40), <1>1, Parts DEF TypeOK
    <3>2. \A u \in Threads : u # t => stack'[u] = stack[u]
      BY ZenonT(40), <1>1, <1>3, <1>4
    <3>3. \A u \in Threads : u # t /\ stack[u] # NoCoro =>
             pc'[stack[u]] = pc[stack[u]] /\ coro'[stack[u]] = coro[stack[u]]
      BY ZenonT(40), <1>1, <1>3, <1>4, <3>1
    <3> QED
      BY ZenonT(60), <3>2, <3>3 DEF At
  <2> QED
    BY ZenonT(40), <1>3, <1>4, <2>1, <2>2 DEF InHand
<1>8. Labels'
  <2>1. \A u \in Threads : pc'[u] = pc[u]
    BY Zenon, <1>0, <1>1, <1>4
  <2>2. \A d \in Coros : OnCpu(d)' <=> OnCpu(d)
    BY Zenon, <1>3 DEF OnCpu
  <2>3. \A u \in Threads : stack[u] = NoCoro => run_list'[u] = <<>>
    BY ZenonT(40), <1>0, <1>1, <1>4, Parts DEF Labels, c
  <2>4. Labels
    BY Zenon, Parts
  <2>5. /\ \A d \in Coros : pc'[d] \in UserPC \cup {"free"}
        /\ \A d \in Coros : pc'[d] \notin {"free", "user", "resume"} => OnCpu(d)'
        /\ pc'[MainCoro] # "free"
    BY ZenonT(40), <1>0, <1>1, <1>4, <2>2, <2>4 DEF Labels, UserPC
  <2>6. stack' = stack /\ glock' = glock
    BY Zenon, <1>3 DEF timerVars
  <2> QED
    BY ZenonT(40), <2>1, <2>3, <2>4, <2>5, <2>6 DEF Labels
<1>9. Pointers' /\ SlotExclusive'
  BY ZenonT(90), <1>0, <1>1, <1>2, <1>3, <1>4, Parts DEF Pointers, SlotExclusive, Waking
<1>10. CurrentCoro'
  <2>1. \A u \in Threads : u # t /\ At(u, "cmpxchg") => coro'[stack[u]] = coro[stack[u]]
    BY <1>1, <1>3, <1>4, Parts DEF At, TypeOK
  <2>2. coro'[stack'[t]] = next
    BY Zenon, <1>3, <1>4 DEF c
  <2>3. CurrentCoro
    BY Zenon, Parts
  <2>4. ASSUME NEW u \in Threads, u # t
        PROVE  current_coro'[u] = IF At(u, "cmpxchg")' THEN coro'[stack'[u]] ELSE stack'[u]
    <3>1. /\ current_coro'[u] = current_coro[u] /\ stack'[u] = stack[u]
          /\ At(u, "cmpxchg")' <=> At(u, "cmpxchg")
          /\ At(u, "cmpxchg") => coro'[stack[u]] = coro[stack[u]]
      BY Zenon, <1>3, <1>4, <1>7, <2>1, <2>4
    <3>2. current_coro[u] = IF At(u, "cmpxchg") THEN coro[stack[u]] ELSE stack[u]
      BY ZenonT(40), <2>3 DEF CurrentCoro
    <3> QED
      BY ZenonT(40), <3>1, <3>2
  <2>5. current_coro'[t] = IF At(t, "cmpxchg")' THEN coro'[stack'[t]] ELSE stack'[t]
    BY <1>3, <1>4, <1>7, <2>2
  <2> QED
    BY Zenon, <2>4, <2>5 DEF CurrentCoro
<1>11. Places' /\ NotLost'
  <2>1. \A x \in AllCoros : Owns(t, x)' <=> Owns(t, x)
    BY ZenonT(60), <1>2, <1>3, <1>4, <1>7 DEF Owns
  <2>2. \A x \in AllCoros : pc'[x] = "free" <=> pc[x] = "free"
    BY Zenon, <1>1, <1>4
  <2>3. /\ Owns(t, t)
        /\ \A x \in AllCoros : Owns(t, x) => pc[x] # "free" /\ (x \in Threads => x = t)
        /\ \A x \in Coros : state[x] = "BLOCKED" => ~Owns(t, x)
        /\ \A x \in Coros : Unowned(x) /\ pc[x] # "free" => state[x] = "BLOCKED"
    BY Zenon, <1>0, <1>1, Owners DEF c
  <2>4. stack'[t] = c /\ c # NoCoro
    BY Zenon, <1>0, <1>1, <1>3 DEF c
  <2>5. OneThreadMoves(t)
    BY ZenonT(90), <1>0, <1>2, <1>3, <1>4, <1>6, <1>7, <2>1, <2>2, <2>3, <2>4 DEF
       OneThreadMoves
  <2> QED
    BY Zenon, <1>5, <2>5, OwnershipKept
<1>12. WaitRecords' /\ Registrations' /\ Timers' /\ Wakers' /\ Woken'
  <2>1. SameWaits
    BY ZenonT(40), <1>0, <1>1, <1>3, <1>4 DEF SameWaits, Waking, loopVars, timerVars
  <2> QED
    BY Zenon, <2>1, WaitsKept
<1> QED
  BY Zenon, <1>5, <1>8, <1>9, <1>10, <1>11, <1>12 DEF IInv

\* Between the two halves of sched_suspend().
LEMMA Holding ==
    ASSUME IInv, NEW t \in Threads, At(t, "cmpxchg")
    PROVE  /\ stack[t] \in Coros /\ stack[t] \notin Threads /\ pc[stack[t]] = "cmpxchg"
           /\ \A u \in Threads : stack[u] = stack[t] => u = t
           /\ coro[stack[t]] \in AllCoros /\ InHand(t, coro[stack[t]])
           /\ coro[stack[t]] # stack[t] /\ coro[stack[t]] \notin Range(run_list[t])
           /\ stack[t] \notin Range(run_list[t]) /\ ~OnCpu(coro[stack[t]])
           /\ pc[coro[stack[t]]] \notin {"free", "cmpxchg"}
           /\ coro[stack[t]] \in Threads => coro[stack[t]] = t
<1> DEFINE c == stack[t]
           next == coro[c]
<1>1. /\ c \in Coros /\ c \in AllCoros /\ c \notin Threads /\ pc[c] = "cmpxchg" /\ OnCpu(c)
      /\ \A u \in Threads : stack[u] = c => u = t
  BY Zenon, UserAt DEF UserOnly, UserPC
<1>2. next \in AllCoros /\ InHand(t, next)
  BY Zenon, <1>1, Parts DEF Pointers, InHand
<1> HIDE DEF c, next
<1>3. /\ ~OnCpu(next) /\ ~Queued(next) /\ pc[next] # "free" /\ ~Queued(c)
      /\ next \in Threads => next = t
  BY Zenon, <1>1, <1>2, Parts DEF Places, SingleOwner
<1>4. pc[next] # "cmpxchg"
  BY Zenon, <1>2, <1>3, Parts DEF Labels, AllCoros, LoopPC
<1> QED
  BY Zenon, <1>1, <1>2, <1>3, <1>4 DEF Queued, c, next

\* sched_suspend(), second half: to sleep, or back with the next coroutine returned
\* to the run list.
LEMMA Keep_context_cmpxchg_restore ==
    ASSUME IInv, NEW t \in Threads, context_cmpxchg_restore(t)
    PROVE  IInv'
<1> DEFINE c == stack[t]
           next == coro[c]
           sleeps == state[c] = "BLOCKING"
<1> USE SchedulerAssumption
<1>0. /\ \A x \in Coros : x \in AllCoros
      /\ \A u \in Threads : u \in AllCoros
      /\ NoCoro \notin AllCoros
  BY Zenon DEF AllCoros
<1>1. /\ c \in Coros /\ c \notin Threads /\ pc[c] = "cmpxchg"
      /\ \A u \in Threads : stack[u] = c => u = t
      /\ next \in AllCoros /\ InHand(t, next)
      /\ next # c /\ next \notin Range(run_list[t]) /\ c \notin Range(run_list[t])
      /\ ~OnCpu(next) /\ pc[next] \notin {"free", "cmpxchg"}
      /\ next \in Threads => next = t
  BY Zenon, Holding DEF context_cmpxchg_restore
<1>2. /\ Append(run_list[t], next) \in Seq(AllCoros)
      /\ Range(Append(run_list[t], next)) = Range(run_list[t]) \cup {next}
      /\ IsInjective(Append(run_list[t], next)) /\ IsInjective(run_list[t])
  <2>1. run_list[t] \in Seq(AllCoros) /\ IsInjective(run_list[t])
    BY ZenonT(40), Parts DEF TypeOK, Places, SingleOwner
  <2> QED
    BY <1>1, <2>1, RangeAppend
<1>3. /\ coro' = [coro EXCEPT ![c] = NoCoro]
      /\ pc' = [pc EXCEPT ![c] = "resume"]
      /\ state' = IF sleeps THEN [state EXCEPT ![c] = "BLOCKED"] ELSE state
      /\ stack' = IF sleeps THEN [stack EXCEPT ![t] = next] ELSE stack
      /\ current_coro' = [current_coro EXCEPT ![t] = IF sleeps THEN next ELSE c]
      /\ run_list' = IF sleeps THEN run_list
                     ELSE [run_list EXCEPT ![t] = Append(run_list[t], next)]
      /\ UNCHANGED <<local_count, waitVars, epollVars, loopVars, timerVars>>
  BY Zenon DEF context_cmpxchg_restore, cmpxchg_succeeds, awoken_before_sleep, Enqueue,
     SwitchTo,
     Goto
<1>4. TypeOK'
  <2>1. /\ run_list' \in [Threads -> Seq(AllCoros)]
        /\ current_coro' \in [Threads -> AllCoros \cup {NoCoro}]
        /\ stack' \in [Threads -> AllCoros \cup {NoCoro}]
    BY Zenon, <1>0, <1>1, <1>2, <1>3, Parts DEF TypeOK
  <2>2. /\ pc' \in [AllCoros -> UserPC \cup LoopPC \cup {"free"}]
        /\ coro' \in [AllCoros -> AllCoros \cup {NoCoro}]
        /\ state' \in [Coros -> StateOrJunk]
    BY Zenon, <1>0, <1>1, <1>3, Parts DEF TypeOK, UserPC, StateOrJunk, CoroState
  <2> QED
    BY Zenon, <1>3, <2>1, <2>2, Parts DEF TypeOK, waitVars, epollVars, loopVars, timerVars
<1>5. /\ \A x \in AllCoros : x # c => pc'[x] = pc[x] /\ coro'[x] = coro[x]
      /\ pc'[c] = "resume" /\ coro'[c] = NoCoro
      /\ \A x \in Coros : x # c => state'[x] = state[x]
      /\ state'[c] = IF sleeps THEN "BLOCKED" ELSE state[c]
      /\ \A u \in Threads : u # t => /\ stack'[u] = stack[u]
                                     /\ run_list'[u] = run_list[u]
                                     /\ current_coro'[u] = current_coro[u]
      /\ stack'[t] = IF sleeps THEN next ELSE c
      /\ current_coro'[t] = IF sleeps THEN next ELSE c
      /\ run_list'[t] = IF sleeps THEN run_list[t] ELSE Append(run_list[t], next)
  BY ZenonT(40), <1>0, <1>1, <1>3, Parts DEF TypeOK
<1> HIDE DEF c, next, sleeps
<1>6. /\ \A u \in Threads : u # t => (At(u, "cmpxchg")' <=> At(u, "cmpxchg"))
      /\ ~At(t, "cmpxchg")'
      /\ \A u \in Threads : u # t /\ At(u, "cmpxchg") => coro'[stack[u]] = coro[stack[u]]
      /\ \A u \in Threads : u # t => \A x : InHand(u, x)' <=> InHand(u, x)
      /\ \A x : (InHand(t, x) <=> x = next) /\ ~InHand(t, x)'
  <2>1. ~At(t, "cmpxchg")'
    BY ZenonT(40), <1>0, <1>1, <1>5 DEF At
  <2>2. \A u \in Threads : u # t =>
           /\ At(u, "cmpxchg")' <=> At(u, "cmpxchg")
           /\ At(u, "cmpxchg") => coro'[stack[u]] = coro[stack[u]]
    <3>1. \A u \in Threads : u # t /\ stack[u] # NoCoro =>
             stack[u] \in AllCoros /\ stack[u] # c
      BY ZenonT(40), <1>1, Parts DEF TypeOK
    <3>2. \A u \in Threads : u # t => stack'[u] = stack[u]
      BY ZenonT(40), <1>1, <1>5
    <3>3. \A u \in Threads : u # t /\ stack[u] # NoCoro =>
             pc'[stack[u]] = pc[stack[u]] /\ coro'[stack[u]] = coro[stack[u]]
      BY ZenonT(40), <1>1, <1>5, <3>1
    <3> QED
      BY ZenonT(60), <3>2, <3>3 DEF At
  <2> QED
    BY <1>1, <1>5, <2>1, <2>2 DEF InHand, c, next
<1>6a. /\ \A u \in Threads : stack'[u] = NoCoro <=> stack[u] = NoCoro
       /\ \A u \in Threads : stack'[u] = NoCoro => run_list'[u] = run_list[u]
       /\ stack'[t] = current_coro'[t]
  <2>1. /\ stack[t] # NoCoro /\ stack'[t] # NoCoro /\ stack'[t] = current_coro'[t]
        /\ \A u \in Threads : u # t => stack'[u] = stack[u] /\ run_list'[u] = run_list[u]
    BY ZenonT(90), <1>0, <1>1, <1>5 DEF c
  <2> QED
    BY Zenon, <2>1
<1>7. Labels'
  <2>1. \A u \in Threads : pc'[u] = pc[u]
    BY ZenonT(40), <1>0, <1>1, <1>5
  <2>2. \A d \in Coros : d # c /\ OnCpu(d) => OnCpu(d)'
    BY Zenon, <1>5 DEF OnCpu, c
  <2>3. \A u \in Threads : pc[u] \notin {"free", "loop"} => stack'[u] = u
    <3>1. pc[t] \in {"free", "loop"}
      BY ZenonT(40), <1>1, Parts DEF Labels, c
    <3> QED
      BY ZenonT(40), <1>5, <3>1, Parts DEF Labels
  <2>4. Labels
    BY Zenon, Parts
  <2>5. /\ \A d \in Coros : pc'[d] \in UserPC \cup {"free"}
        /\ \A d \in Coros : pc'[d] \notin {"free", "user", "resume"} => OnCpu(d)'
        /\ pc'[MainCoro] # "free"
    BY ZenonT(40), <1>0, <1>1, <1>5, <2>2, <2>4 DEF Labels, UserPC
  <2>6. glock' = glock
    BY Zenon, <1>3 DEF timerVars
  <2> QED
    BY ZenonT(40), <1>6a, <2>1, <2>3, <2>4, <2>5, <2>6 DEF Labels
<1>8. Pointers' /\ SlotExclusive'
  <2>1. Pointers'
    BY ZenonT(40), <1>0, <1>1, <1>5, Parts DEF Pointers, Waking
  <2>2. SlotExclusive'
    BY ZenonT(40), <1>3, <1>6a, Parts DEF SlotExclusive
  <2> QED
    BY Zenon, <2>1, <2>2
<1>9. CurrentCoro'
  <2>1. \A u \in Threads : u # t => stack'[u] = stack[u] /\ current_coro'[u] = current_coro[u]
    BY ZenonT(40), <1>5
  <2>2. CurrentCoro
    BY Zenon, Parts
  <2>3. ASSUME NEW u \in Threads, u # t
        PROVE  current_coro'[u] = IF At(u, "cmpxchg")' THEN coro'[stack'[u]] ELSE stack'[u]
    <3>1. /\ current_coro'[u] = current_coro[u] /\ stack'[u] = stack[u]
          /\ At(u, "cmpxchg")' <=> At(u, "cmpxchg")
          /\ At(u, "cmpxchg") => coro'[stack[u]] = coro[stack[u]]
      BY Zenon, <1>6, <2>1, <2>3
    <3>2. current_coro[u] = IF At(u, "cmpxchg") THEN coro[stack[u]] ELSE stack[u]
      BY Zenon, <2>2 DEF CurrentCoro
    <3> QED
      BY ZenonT(40), <3>1, <3>2
  <2>4. current_coro'[t] = IF At(t, "cmpxchg")' THEN coro'[stack'[t]] ELSE stack'[t]
    BY ZenonT(40), <1>6, <1>6a
  <2> QED
    BY ZenonT(40), <2>3, <2>4 DEF CurrentCoro
<1>10. Places' /\ NotLost'
  <2>1. \A x \in AllCoros : Owns(t, x)' <=> Owns(t, x) /\ ~(sleeps /\ x = c)
    BY ZenonT(90), <1>1, <1>2, <1>5, <1>6 DEF Owns, c
  <2>2. \A x \in AllCoros : pc'[x] = "free" <=> pc[x] = "free"
    BY Zenon, <1>1, <1>5
  <2>3. /\ Owns(t, t)
        /\ \A x \in AllCoros : Owns(t, x) => pc[x] # "free" /\ (x \in Threads => x = t)
        /\ \A x \in Coros : state[x] = "BLOCKED" => ~Owns(t, x)
        /\ \A x \in Coros : Unowned(x) /\ pc[x] # "free" => state[x] = "BLOCKED"
    BY ZenonT(40), <1>0, <1>1, Owners DEF c
  <2>4. /\ stack'[t] # NoCoro /\ stack'[t] \notin Range(run_list'[t])
        /\ IsInjective(run_list'[t]) /\ Owns(t, c)
    BY ZenonT(90), <1>0, <1>1, <1>2, <1>5 DEF Owns, c
  <2>5. \A x \in Coros : state'[x] = "BLOCKED" <=> state[x] = "BLOCKED" \/ (sleeps /\ x = c)
    BY ZenonT(60), <1>1, <1>5
  <2>6. OneThreadMoves(t)
    BY ZenonT(90), <1>0, <1>1, <1>5, <1>6, <2>1, <2>2, <2>3, <2>4, <2>5 DEF OneThreadMoves
  <2> QED
    BY Zenon, <1>4, <2>6, OwnershipKept
<1>11. WaitRecords' /\ Registrations' /\ Timers' /\ Wakers' /\ Woken'
  <2>1. SameWaits
    BY ZenonT(40), <1>0, <1>1, <1>3, <1>5 DEF SameWaits, Waking, loopVars, timerVars, sleeps
  <2> QED
    BY Zenon, <2>1, WaitsKept
<1> QED
  BY Zenon, <1>4, <1>7, <1>8, <1>9, <1>10, <1>11 DEF IInv

\* The end of a coroutine, to which nothing refers.
LEMMA Keep_sched_coro_die ==
    ASSUME IInv, NEW t \in Threads, sched_coro_die(t)
    PROVE  IInv'
<1> DEFINE c == stack[t]
           next == Head(run_list[t])
<1> USE SchedulerAssumption
<1>0. /\ \A x \in Coros : x \in AllCoros
      /\ \A u \in Threads : u \in AllCoros /\ u \notin Coros
      /\ NoCoro \notin AllCoros
  BY Zenon DEF AllCoros
<1>1. /\ c \in Coros /\ c \notin Threads /\ pc[c] = "user" /\ OnCpu(c) /\ c # MainCoro
      /\ \A u \in Threads : stack[u] = c => u = t
  BY Zenon, UserAt DEF sched_coro_die, UserOnly, UserPC
<1>2. /\ next \in AllCoros /\ next \in Range(run_list[t]) /\ ~OnCpu(next)
      /\ next # NoCoro /\ Tail(run_list[t]) \in Seq(AllCoros)
      /\ Range(Tail(run_list[t])) = Range(run_list[t]) \ {next}
      /\ IsInjective(Tail(run_list[t])) /\ run_list[t] # <<>>
      /\ pc[next] \in {"user", "resume", "loop"}
  BY Zenon, <1>1, UserHasNext, Front
<1>3. /\ pc' = [pc EXCEPT ![c] = "free"]
      /\ state' = [state EXCEPT ![c] = "JUNK"]
      /\ run_list' = [run_list EXCEPT ![t] = Tail(run_list[t])]
      /\ current_coro' = [current_coro EXCEPT ![t] = next]
      /\ stack' = [stack EXCEPT ![t] = next]
      /\ UNCHANGED <<local_count, coro, waitVars, epollVars, loopVars, timerVars>>
  BY Zenon DEF sched_coro_die, SwitchTo, Dequeue, Goto
<1>4. /\ wait[c] = "none" /\ c \notin waiter /\ c \notin timer_heap
      /\ state[c] # "BLOCKED"
      /\ \A f \in Fds : interest[f] # c
      /\ \A u \in Threads : c \notin batch[u]
      /\ \A d \in AllCoros : Waking(d) => coro[d] # c
  BY Zenon, <1>1, UserUnreferenced
<1>5. c # next /\ c \notin Range(run_list[t])
  BY ZenonT(40), <1>0, <1>1, <1>2, Parts DEF Places, SingleOwner, Queued
<1> HIDE DEF c, next
<1>6. TypeOK'
  BY ZenonT(40), <1>0, <1>1, <1>2, <1>3, Parts DEF TypeOK, StateOrJunk, waitVars, epollVars,
     loopVars, timerVars
<1>7. /\ \A x \in AllCoros : x # c => pc'[x] = pc[x]
      /\ pc'[c] = "free" /\ state'[c] = "JUNK"
      /\ \A x \in Coros : x # c => state'[x] = state[x]
      /\ \A u \in Threads : u # t => /\ stack'[u] = stack[u]
                                     /\ run_list'[u] = run_list[u]
                                     /\ current_coro'[u] = current_coro[u]
      /\ stack'[t] = next /\ current_coro'[t] = next /\ run_list'[t] = Tail(run_list[t])
  BY ZenonT(40), <1>0, <1>1, <1>3, Parts DEF TypeOK
<1>8. UNCHANGED <<local_count, coro, wait, fd, waiter, events, interest, armed, batch,
                  timer_heap, expired, glock>>
  BY Zenon, <1>3 DEF waitVars, epollVars, loopVars, timerVars
<1>9. \A u \in Threads : pc'[u] = pc[u]
  BY Zenon, <1>0, <1>1, <1>7
<1>10. \A d \in AllCoros : Waking(d)' <=> Waking(d)
  BY ZenonT(40), <1>1, <1>7 DEF Waking
<1>11. Labels'
  <2>1. \A d \in Coros : d # c /\ OnCpu(d) => OnCpu(d)'
    BY Zenon, <1>7 DEF OnCpu, c
  <2>2. /\ \A u \in Threads : stack'[u] = NoCoro <=> stack[u] = NoCoro
        /\ \A u \in Threads : stack'[u] = NoCoro => run_list'[u] = run_list[u]
    BY ZenonT(40), <1>0, <1>1, <1>2, <1>7 DEF c
  <2>3. \A u \in Threads : pc[u] \notin {"free", "loop"} => stack'[u] = u
    BY ZenonT(40), <1>0, <1>1, <1>7, Parts DEF Labels, c
  <2>4. Labels
    BY Zenon, Parts
  <2>5. /\ \A d \in Coros : pc'[d] \in UserPC \cup {"free"}
        /\ \A d \in Coros : pc'[d] \notin {"free", "user", "resume"} => OnCpu(d)'
        /\ pc'[MainCoro] # "free"
    BY ZenonT(40), <1>0, <1>1, <1>7, <2>1, <2>4 DEF Labels
  <2>6. /\ \A u \in Threads : pc'[u] \in LoopPC \cup {"free"}
        /\ \A u \in Threads : pc'[u] \notin {"free", "loop"} => stack'[u] = u
        /\ \A u \in Threads : pc'[u] = "free" <=> stack'[u] = NoCoro
        /\ \A u \in Threads : stack'[u] = NoCoro => run_list'[u] = <<>>
        /\ \A u \in Threads : glock' = u => pc'[u] = "schedule"
    BY ZenonT(40), <1>8, <1>9, <2>2, <2>3, <2>4 DEF Labels
  <2> QED
    BY ZenonT(40), <2>5, <2>6 DEF Labels
<1>12. Pointers' /\ SlotExclusive'
  <2>1. Pointers'
    BY Zenon, <1>0, <1>7, <1>8, <1>10, Parts DEF Pointers
  <2>2. SlotExclusive'
    BY ZenonT(40), <1>0, <1>1, <1>2, <1>7, <1>8, Parts DEF SlotExclusive, c
  <2> QED
    BY Zenon, <2>1, <2>2
<1>13. /\ \A u \in Threads : At(u, "cmpxchg")' <=> At(u, "cmpxchg")
       /\ ~At(t, "cmpxchg")
       /\ \A u \in Threads : u # t => \A x : InHand(u, x)' <=> InHand(u, x)
       /\ \A x : ~InHand(t, x) /\ ~InHand(t, x)'
  <2>1. ~At(t, "cmpxchg") /\ ~At(t, "cmpxchg")'
    BY ZenonT(40), <1>1, <1>2, <1>5, <1>7 DEF At, c
  <2>2. \A u \in Threads : u # t => (At(u, "cmpxchg")' <=> At(u, "cmpxchg"))
    <3>1. stack \in [Threads -> AllCoros \cup {NoCoro}]
      BY Zenon, Parts DEF TypeOK
    <3> QED
      BY <1>1, <1>7, <3>1 DEF At, c
  <2> QED
    BY ZenonT(40), <1>7, <1>8, <2>1, <2>2 DEF InHand
<1>14. CurrentCoro'
  BY ZenonT(40), <1>7, <1>8, <1>13, Parts DEF CurrentCoro
<1>15. Places' /\ NotLost'
  <2>1. \A x \in AllCoros : Owns(t, x)' <=> Owns(t, x) /\ x # c
    BY ZenonT(40), <1>2, <1>5, <1>7, <1>13 DEF Owns, c
  <2>2. /\ Owns(t, t) /\ Owns(t, c)
        /\ \A x \in AllCoros : Owns(t, x) => pc[x] # "free" /\ (x \in Threads => x = t)
        /\ \A x \in Coros : state[x] = "BLOCKED" => ~Owns(t, x)
        /\ \A x \in Coros : Unowned(x) /\ pc[x] # "free" => state[x] = "BLOCKED"
    BY ZenonT(40), <1>0, <1>1, Owners DEF Owns, c
  <2>3. /\ \A x \in AllCoros : pc'[x] = "free" <=> pc[x] = "free" \/ x = c
        /\ \A x \in Coros : state'[x] = "BLOCKED" <=> state[x] = "BLOCKED"
    BY Zenon, <1>4, <1>7
  <2>4. OneThreadMoves(t)
    BY ZenonT(90), <1>0, <1>1, <1>2, <1>5, <1>7, <1>13, <2>1, <2>2, <2>3 DEF OneThreadMoves
  <2> QED
    BY Zenon, <1>6, <2>4, OwnershipKept
<1>16. WaitRecords'
  <2>1. \A d \in Coros : (\E e \in Coros : Waking(e) /\ coro[e] = d)
                            => (\E e \in Coros : Waking(e) /\ coro[e] = d)'
    BY Zenon, <1>0, <1>8, <1>10
  <2>2. WaitRecords /\ wait' = wait /\ waiter' = waiter
    BY Zenon, <1>8, Parts
  <2>3. /\ pc'[c] = "free" /\ state'[c] = "JUNK"
        /\ \A x \in Coros : x # c => pc'[x] = pc[x] /\ state'[x] = state[x]
    BY Zenon, <1>0, <1>7
  <2>4. wait[c] = "none" /\ c \notin waiter
    BY ZenonT(40), <1>4
  <2> QED
    BY <2>1, <2>2, <2>3, <2>4 DEF WaitRecords
<1>17. Registrations'
  <2>1. \A f \in Fds : \A d \in Coros : interest[f] = d => pc'[d] = pc[d]
    BY ZenonT(40), <1>0, <1>4, <1>7
  <2>2. Registrations
    BY Zenon, Parts
  <2> QED
    BY <1>8, <1>9, <2>1, <2>2 DEF Registrations
<1>18. Timers'
  BY ZenonT(40), <1>0, <1>4, <1>7, <1>8, Parts DEF Timers, TypeOK
<1>19. Wakers'
  <2>1. \A d \in AllCoros : Waking(d) =>
           /\ coro[d] \in Coros
           /\ pc'[coro[d]] = pc[coro[d]] /\ state'[coro[d]] = state[coro[d]]
    BY ZenonT(40), <1>0, <1>4, <1>7, Parts DEF Pointers
  <2>2. \A u \in Threads : pc[u] = "schedule" => Waking(u)
    BY Zenon DEF Waking
  <2> QED
    BY ZenonT(60), <1>0, <1>8, <1>9, <1>10, <2>1, <2>2, Parts DEF Wakers
<1>20. Woken'
  <2>1. \A d \in Coros : BeingScheduled(d)' <=> BeingScheduled(d)
    BY Zenon, <1>8, <1>10 DEF BeingScheduled, Waking
  <2>2. \A d \in Coros : HasWaker(d)' <=> HasWaker(d)
    BY Zenon, <1>8, <2>1 DEF HasWaker, EventWaker
  <2> QED
    BY ZenonT(40), <1>0, <1>4, <1>7, <1>8, <2>2, Parts DEF Woken
<1> QED
  BY Zenon, <1>6, <1>11, <1>12, <1>14, <1>15, <1>16, <1>17, <1>18, <1>19, <1>20 DEF IInv

----------------------------------------------------------------------------
(* Creation.                                                               *)

\* sched_new_coroutine(): the new coroutine sleeps, and its creator is its waker.
LEMMA Keep_sched_new_coroutine ==
    ASSUME IInv, NEW t \in Threads, NEW n \in Coros, sched_new_coroutine(t, n)
    PROVE  IInv'
<1> DEFINE c == stack[t]
           l == IF all_started THEN "schedule" ELSE "fetch_add"
<1> USE SchedulerAssumption
<1>0. /\ \A x \in Coros : x \in AllCoros
      /\ \A u \in Threads : u \in AllCoros /\ u \notin Coros
      /\ NoCoro \notin AllCoros
  BY Zenon DEF AllCoros
<1>1. /\ c \in Coros /\ c \notin Threads /\ pc[c] = "user" /\ OnCpu(c)
      /\ \A u \in Threads : stack[u] = c => u = t
  BY Zenon, UserAt DEF sched_new_coroutine, UserOnly, UserPC
<1>2. /\ wait[c] = "none" /\ c \notin waiter /\ c \notin timer_heap
      /\ state[c] # "BLOCKED"
      /\ \A f \in Fds : interest[f] # c
      /\ \A u \in Threads : c \notin batch[u]
      /\ \A d \in AllCoros : Waking(d) => coro[d] # c
  BY Zenon, <1>1, UserUnreferenced
<1>3. /\ pc' = [pc EXCEPT ![n] = "user", ![c] = l]
      /\ coro' = [coro EXCEPT ![c] = n]
      /\ state' = [state EXCEPT ![n] = "BLOCKED"]
      /\ UNCHANGED <<local_count, cpuVars, waitVars, epollVars, loopVars, timerVars>>
      /\ pc[n] = "free" /\ n # c
  BY Zenon, <1>1 DEF sched_new_coroutine
<1>4. l \in {"schedule", "fetch_add"}
  BY Zenon
<1> HIDE DEF c, l
<1>5. TypeOK'
  BY ZenonT(60), <1>0, <1>1, <1>3, <1>4, Parts DEF TypeOK, UserPC, StateOrJunk,
     CoroState, cpuVars, waitVars, epollVars, loopVars, timerVars
<1>6. /\ \A x \in AllCoros : x # c /\ x # n => pc'[x] = pc[x]
      /\ \A x \in AllCoros : x # c => coro'[x] = coro[x]
      /\ \A x \in Coros : x # n => state'[x] = state[x]
      /\ pc'[c] = l /\ pc'[n] = "user" /\ coro'[c] = n /\ state'[n] = "BLOCKED"
  BY ZenonT(40), <1>0, <1>1, <1>3, Parts DEF TypeOK
<1>7. /\ \A d \in AllCoros : Waking(d)' <=> Waking(d) \/ d = c
      /\ ~Waking(c)
  BY ZenonT(60), <1>0, <1>1, <1>3, <1>4, <1>6 DEF Waking
<1>8. /\ wait[n] = "none" /\ n \notin waiter /\ n \notin timer_heap
      /\ \A f \in Fds : interest[f] # n
      /\ \A u \in Threads : n \notin batch[u]
      /\ n # MainCoro
  <2>1. wait[n] = "none" /\ n \notin waiter /\ n # MainCoro
    BY Zenon, <1>3, Parts DEF WaitRecords, Labels
  <2>2. n \notin timer_heap /\ \A f \in Fds : interest[f] # n
    BY Zenon, <1>3, <2>1, Parts DEF Timers, Registrations
  <2>3. \A u \in Threads : n \notin batch[u]
    BY Zenon, <2>1, Parts DEF Registrations
  <2> QED
    BY Zenon, <2>1, <2>2, <2>3
<1>9. \A d \in AllCoros : Waking(d) => coro[d] # n
  BY Zenon, <1>3, Parts DEF Wakers, Waking, Labels, AllCoros, LoopPC, Suspending
<1>10. UNCHANGED <<local_count, run_list, current_coro, stack, wait, fd, waiter, events,
                   interest, armed, batch, timer_heap, expired, glock>>
  BY Zenon, <1>3 DEF cpuVars, waitVars, epollVars, loopVars, timerVars
<1>11. \A u \in Threads : pc'[u] = pc[u] /\ coro'[u] = coro[u]
  BY ZenonT(40), <1>0, <1>1, <1>6
<1>12. Labels' /\ Pointers'
  <2>1. \A d \in Coros : OnCpu(d)' <=> OnCpu(d)
    BY ZenonT(40), <1>10 DEF OnCpu
  <2>2. Labels'
    <3>1. Labels
      BY Zenon, Parts
    <3>2. /\ \A d \in Coros : pc'[d] \in UserPC \cup {"free"}
          /\ \A d \in Coros : pc'[d] \notin {"free", "user", "resume"} => OnCpu(d)'
          /\ pc'[MainCoro] # "free"
      BY ZenonT(40), <1>0, <1>1, <1>4, <1>6, <2>1, <3>1 DEF Labels, UserPC
    <3> QED
      BY ZenonT(40), <1>10, <1>11, <3>1, <3>2 DEF Labels
  <2>3. Pointers'
    BY Zenon, <1>0, <1>1, <1>4, <1>6, <1>7, Parts DEF Pointers
  <2> QED
    BY Zenon, <2>2, <2>3
<1>13. /\ \A u \in Threads : At(u, "cmpxchg")' <=> At(u, "cmpxchg")
       /\ \A u \in Threads : At(u, "cmpxchg") => coro'[stack[u]] = coro[stack[u]]
       /\ \A u \in Threads : \A x : InHand(u, x)' <=> InHand(u, x)
  <2>1. \A u \in Threads : stack[u] # NoCoro => stack[u] # n /\ stack[u] \in AllCoros
    BY <1>0, <1>3, Parts DEF TypeOK, Places, SingleOwner, OnCpu
  <2>2. \A x \in AllCoros : x # n =>
           /\ pc'[x] = "cmpxchg" <=> pc[x] = "cmpxchg"
           /\ pc[x] = "cmpxchg" => coro'[x] = coro[x]
    BY Zenon, <1>1, <1>4, <1>6
  <2>3. /\ \A u \in Threads : At(u, "cmpxchg")' <=> At(u, "cmpxchg")
        /\ \A u \in Threads : At(u, "cmpxchg") => coro'[stack[u]] = coro[stack[u]]
    BY Zenon, <1>10, <2>1, <2>2 DEF At
  <2> QED
    BY ZenonT(40), <1>10, <2>3 DEF InHand
<1>14. CurrentCoro' /\ SlotExclusive'
  BY Zenon, <1>10, <1>13, Parts DEF CurrentCoro, SlotExclusive
<1>15. Places' /\ NotLost'
  <2>1. /\ \A x \in AllCoros : Owns(t, x)' <=> Owns(t, x)
        /\ stack[t] # NoCoro /\ stack[t] \in AllCoros
    BY Zenon, <1>0, <1>1, <1>10, <1>13 DEF Owns, c
  <2>2. /\ Owns(t, t)
        /\ \A x \in AllCoros : Owns(t, x) => pc[x] # "free" /\ (x \in Threads => x = t)
        /\ \A x \in Coros : state[x] = "BLOCKED" => ~Owns(t, x)
        /\ \A x \in Coros : Unowned(x) /\ pc[x] # "free" => state[x] = "BLOCKED"
        /\ Unowned(n) /\ ~Owns(t, n)
    BY Zenon, <1>0, <1>3, <2>1, Owners DEF Unowned
  <2>3. /\ IsInjective(run_list[t]) /\ stack[t] \notin Range(run_list[t])
        /\ \A x \in AllCoros : InHand(t, x) => x # stack[t] /\ x \notin Range(run_list[t])
    BY Zenon, <2>1, Parts DEF Places, SingleOwner, OnCpu, Queued
  <2>4. /\ \A x \in AllCoros : pc[x] # "free" => pc'[x] # "free"
        /\ \A x \in Coros : state'[x] = "BLOCKED" <=> state[x] = "BLOCKED" \/ x = n
    BY Zenon, <1>4, <1>6
  <2>5. /\ \A u \in Threads : u # t =>
              /\ stack'[u] = stack[u] /\ run_list'[u] = run_list[u]
              /\ \A x \in AllCoros : InHand(u, x)' <=> InHand(u, x)
        /\ stack'[t] = stack[t] /\ run_list'[t] = run_list[t]
        /\ \A x \in AllCoros : InHand(t, x)' <=> InHand(t, x)
        /\ Owns(t, t)' /\ t \in AllCoros
    BY Zenon, <1>0, <1>10, <1>13, <2>1, <2>2
  <2>6. \A x \in Coros : x # n /\ Unowned(x) /\ pc'[x] # "free" => state'[x] = "BLOCKED"
    BY ZenonT(40), <1>0, <1>6, <1>1, <2>2
  <2>7. OneThreadMoves(t)
    BY ZenonT(40), <1>0, <1>6, <2>1, <2>2, <2>3, <2>4, <2>5, <2>6 DEF OneThreadMoves
  <2> QED
    BY Zenon, <1>5, <2>7, OwnershipKept
<1>16. WaitRecords'
  <2>1. \A d \in Coros : Waking(d) => Waking(d)' /\ coro'[d] = coro[d]
    BY Zenon, <1>0, <1>6, <1>7
  <2>2. \E d \in Coros : Waking(d)' /\ coro'[d] = n
    BY Zenon, <1>0, <1>1, <1>6, <1>7
  <2>3. \A x \in Coros : x # c /\ x # n => pc'[x] = pc[x] /\ state'[x] = state[x]
    BY Zenon, <1>0, <1>6
  <2>4. state'[c] = state[c] /\ pc'[c] \in {"schedule", "fetch_add"}
    BY ZenonT(40), <1>1, <1>3, <1>4, <1>6
  <2>5. WaitRecords
    BY Zenon, Parts
  <2>6. /\ wait' = wait /\ waiter' = waiter
        /\ wait[c] = "none" /\ c \notin waiter /\ state[c] # "BLOCKED" /\ pc[c] = "user"
        /\ wait[n] = "none" /\ n \notin waiter /\ pc'[n] = "user" /\ state'[n] = "BLOCKED"
    BY Zenon, <1>1, <1>2, <1>6, <1>8, <1>10
  <2>7. \A x \in Coros : (\E d \in Coros : Waking(d) /\ coro[d] = x) =>
           \E d \in Coros : Waking(d)' /\ coro'[d] = x
    BY Zenon, <2>1
  <2> DEFINE Record(x) ==
         /\ pc[x] \in {"free", "user", "fetch_add", "schedule"} => wait[x] = "none"
         /\ pc[x] = "register" =>
               wait[x] = "event" /\ state[x] = "BLOCKING" /\ x \in waiter
         /\ pc[x] \in {"push", "pushing"} => wait[x] = "timer" /\ state[x] = "BLOCKING"
         /\ pc[x] = "resume" => state[x] # "BLOCKING"
         /\ state[x] = "JUNK" => x = MainCoro \/ pc[x] = "free"
         /\ pc[x] = "free" => state[x] = "JUNK"
         /\ wait[x] = "none" /\ state[x] = "BLOCKING" => x = MainCoro
         /\ wait[x] = "none" /\ state[x] = "BLOCKED" =>
               x = MainCoro \/ \E d \in Coros : Waking(d) /\ coro[d] = x
         /\ x \in waiter => wait[x] = "event" /\ state[x] \in Asleep
  <2>8. \A x \in Coros : Record(x)
    BY Zenon, <2>5 DEF WaitRecords
  <2>9. Record(n)'
    BY ZenonT(40), <2>2, <2>6
  <2>10. ASSUME NEW x \in Coros, x = c PROVE Record(x)'
    <3>1. /\ state'[x] = state[x] /\ pc'[x] \in {"schedule", "fetch_add"}
          /\ wait'[x] = "none" /\ wait[x] = "none" /\ pc[x] = "user"
          /\ x \notin waiter' /\ state[x] # "BLOCKED"
      BY ZenonT(40), <2>4, <2>6, <2>10
    <3> QED
      BY <2>8, <3>1
  <2>11. ASSUME NEW x \in Coros, x # c, x # n PROVE Record(x)'
    <3>1. /\ pc'[x] = pc[x] /\ state'[x] = state[x] /\ wait'[x] = wait[x]
          /\ (x \in waiter') <=> x \in waiter
      BY Zenon, <2>3, <2>6, <2>11
    <3> QED
      BY <2>7, <2>8, <3>1
  <2> HIDE DEF Record
  <2>12. \A x \in Coros : Record(x)'
    BY ZenonT(40), <2>9, <2>10, <2>11
  <2> QED
    BY Zenon, <2>12 DEF WaitRecords, Record
<1>17. Registrations'
  <2>1. Registrations
    BY Zenon, Parts
  <2>2. \A f \in Fds : \A x \in Coros : interest[f] = x => x # c /\ x # n
    BY Zenon, <1>2, <1>8
  <2>3. \A x \in AllCoros : x # c /\ x # n => pc'[x] = pc[x]
    BY Zenon, <1>6
  <2> QED
    BY <1>0, <1>10, <1>11, <2>1, <2>2, <2>3 DEF Registrations
<1>18. Timers'
  BY ZenonT(60), <1>0, <1>2, <1>6, <1>8, <1>10, Parts DEF Timers, TypeOK
<1>19. Wakers'
  <2>0. Wakers
    BY Zenon, Parts
  <2>1. \A d \in AllCoros : Waking(d) => coro[d] \in Coros /\ coro[d] \in AllCoros
    BY ZenonT(40), <1>0, Parts DEF Pointers
  <2>2. \A d, e \in AllCoros : Waking(d)' /\ Waking(e)' /\ coro'[d] = coro'[e] => d = e
    <3>1. \A d, e \in AllCoros : Waking(d) /\ Waking(e) /\ coro[d] = coro[e] => d = e
      BY Zenon, <2>0 DEF Wakers
    <3>2. \A d \in AllCoros : Waking(d)' /\ d # c =>
             Waking(d) /\ coro'[d] = coro[d] /\ coro'[d] # n
      BY Zenon, <1>6, <1>7, <1>9
    <3> QED
      BY ZenonT(40), <1>6, <3>1, <3>2
  <2>3. ASSUME NEW d \in Coros, Waking(d)'
        PROVE  /\ pc'[coro'[d]] = "user" /\ state'[coro'[d]] = "BLOCKED"
               /\ coro'[d] # MainCoro
    <3>1. CASE d = c
      BY Zenon, <1>6, <1>8, <3>1
    <3>2. CASE d # c
      <4>1. /\ Waking(d) /\ coro'[d] = coro[d] /\ coro[d] \in Coros
            /\ coro[d] # c /\ coro[d] # n
        BY ZenonT(40), <1>0, <1>2, <1>6, <1>7, <1>9, <2>1, <2>3, <3>2
      <4>2. pc[coro[d]] = "user" /\ state[coro[d]] = "BLOCKED" /\ coro[d] # MainCoro
        BY Zenon, <2>0, <4>1 DEF Wakers
      <4> QED
        BY ZenonT(40), <1>0, <1>6, <4>1, <4>2
    <3> QED
      BY Zenon, <3>1, <3>2
  <2>4. \A u \in Threads : pc[u] = "schedule" =>
           Waking(u) /\ pc'[coro[u]] = pc[coro[u]] /\ state'[coro[u]] = state[coro[u]]
    BY ZenonT(40), <1>0, <1>2, <1>6, <1>9, <2>1 DEF Waking
  <2> QED
    BY <1>10, <1>11, <2>0, <2>2, <2>3, <2>4 DEF Wakers
<1>20. Woken'
  <2>1. \A d \in Coros : BeingScheduled(d) => BeingScheduled(d)'
    BY ZenonT(40), <1>6, <1>7 DEF BeingScheduled, Waking
  <2>2. \A d \in Coros : HasWaker(d) => HasWaker(d)'
    BY Zenon, <1>10, <2>1 DEF HasWaker, EventWaker
  <2> QED
    BY Zenon, <1>0, <1>2, <1>6, <1>8, <1>10, <2>2, Parts DEF Woken
<1> QED
  BY ZenonT(40), <1>5, <1>12, <1>14, <1>15, <1>16, <1>17, <1>18, <1>19, <1>20 DEF IInv

\* fetch_add when all slots are taken: on to sched_schedule().
LEMMA Keep_no_slot ==
    ASSUME IInv, NEW t \in Threads, fetch_add(t), local_count >= LocalSize
    PROVE  IInv'
<1> DEFINE c == stack[t]
<1> USE SchedulerAssumption
<1>1. /\ c \in Coros /\ c \in AllCoros /\ c \notin Threads /\ pc[c] = "fetch_add"
      /\ OnCpu(c)
  BY Zenon, UserAt DEF fetch_add, UserOnly, UserPC
<1>2. local_count \in Nat \ {0} /\ ~(local_count < LocalSize)
  BY Parts DEF TypeOK
<1>3. /\ pc' = [pc EXCEPT ![c] = "schedule"] /\ local_count' = local_count + 1
      /\ UNCHANGED <<cpuVars, coro, state, waitVars, epollVars, loopVars, timerVars>>
  BY ZenonT(40), <1>2 DEF fetch_add, take_slot, Goto
<1> HIDE DEF c
<1>4. TypeOK'
  BY <1>1, <1>2, <1>3, Parts DEF TypeOK, UserPC, cpuVars, waitVars, epollVars, loopVars,
     timerVars
<1>5. /\ \A x \in AllCoros : x # c => pc'[x] = pc[x]
      /\ pc'[c] = "schedule"
  BY ZenonT(40), <1>1, <1>3, Parts DEF TypeOK
<1>6. \A u \in Threads : u < local_count' <=> u < local_count
  BY <1>2, <1>3 DEF Threads
<1>7. Labels' /\ CurrentCoro' /\ SlotExclusive' /\ Places' /\ NotLost'
  <2>1. StepInPlace(c, "schedule")
    BY Zenon, <1>1, <1>3, <1>6 DEF StepInPlace, UserPC, cpuVars, timerVars
  <2> QED
    BY Zenon, <1>1, <2>1, NothingMoves
<1>8. Pointers'
  BY Zenon, <1>1, <1>3, <1>5, Parts DEF Pointers, Waking, AllCoros
<1>9. WaitRecords' /\ Registrations' /\ Timers' /\ Wakers' /\ Woken'
  <2>1. SameWaits
    BY Zenon, <1>1, <1>3, <1>5 DEF SameWaits, Waking, AllCoros, loopVars, timerVars
  <2> QED
    BY Zenon, <2>1, WaitsKept
<1> QED
  BY ZenonT(40), <1>4, <1>7, <1>8, <1>9 DEF IInv

\* fetch_add with a slot: its thread starts, owning its event loop and the new
\* coroutine, which nobody owned.
LEMMA Keep_slot ==
    ASSUME IInv, NEW t \in Threads, fetch_add(t), local_count < LocalSize
    PROVE  IInv'
<1> DEFINE c == stack[t]
           n == coro[c]
           slot == local_count
<1> USE SchedulerAssumption
<1>0. /\ \A x \in Coros : x \in AllCoros
      /\ \A u \in Threads : u \in AllCoros /\ u \notin Coros
      /\ NoCoro \notin AllCoros
  BY Zenon DEF AllCoros
<1>1. /\ c \in Coros /\ c \notin Threads /\ pc[c] = "fetch_add" /\ OnCpu(c)
      /\ \A u \in Threads : stack[u] = c => u = t
  BY Zenon, UserAt DEF fetch_add, UserOnly, UserPC
<1>2. slot \in Threads /\ slot \in Nat \ {0} /\ ~(slot >= LocalSize)
  BY Parts DEF TypeOK, Threads
<1>3. /\ pc' = [pc EXCEPT ![slot] = "loop", ![c] = "user"]
      /\ local_count' = slot + 1
      /\ state' = [state EXCEPT ![n] = "RUNNABLE"]
      /\ run_list' = [run_list EXCEPT ![slot] = <<n>>]
      /\ current_coro' = [current_coro EXCEPT ![slot] = slot]
      /\ stack' = [stack EXCEPT ![slot] = slot]
      /\ coro' = [coro EXCEPT ![c] = NoCoro]
      /\ UNCHANGED <<waitVars, epollVars, loopVars, timerVars>>
  BY Zenon, <1>2 DEF fetch_add, take_slot, SwitchTo
<1>4. Waking(c) /\ n \in Coros /\ pc[n] = "user" /\ state[n] = "BLOCKED" /\ n # MainCoro
      /\ n # c
  BY Zenon, <1>0, <1>1, Parts DEF Pointers, Wakers, Waking
<1> HIDE DEF c, n, slot
<1>5. /\ stack[slot] = NoCoro /\ pc[slot] = "free" /\ run_list[slot] = <<>>
      /\ batch[slot] = {} /\ glock # slot /\ slot # c /\ slot # n
  <2>1. stack[slot] = NoCoro
    BY <1>2, Parts DEF SlotExclusive, slot
  <2> QED
    BY ZenonT(40), <1>0, <1>1, <1>2, <1>4, <2>1, Parts DEF Labels, Registrations
<1>6. TypeOK'
  <2>1. run_list' \in [Threads -> Seq(AllCoros)]
    BY ZenonT(40), <1>0, <1>2, <1>3, <1>4, RangeShort, Parts DEF TypeOK
  <2>2. pc' \in [AllCoros -> UserPC \cup LoopPC \cup {"free"}]
    BY ZenonT(60), <1>3, Parts DEF TypeOK, UserPC, LoopPC
  <2>3. state' \in [Coros -> StateOrJunk]
    BY ZenonT(60), <1>3, Parts DEF TypeOK, StateOrJunk, CoroState
  <2>4. /\ stack' \in [Threads -> AllCoros \cup {NoCoro}]
        /\ current_coro' \in [Threads -> AllCoros \cup {NoCoro}]
        /\ coro' \in [AllCoros -> AllCoros \cup {NoCoro}]
    BY ZenonT(60), <1>0, <1>2, <1>3, Parts DEF TypeOK
  <2>5. local_count' \in Nat \ {0}
    BY <1>2, <1>3
  <2> QED
    BY ZenonT(60), <1>3, <2>1, <2>2, <2>3, <2>4, <2>5, Parts DEF TypeOK, waitVars,
       epollVars, loopVars, timerVars
<1>7. /\ \A x \in AllCoros : x # c /\ x # slot => pc'[x] = pc[x]
      /\ pc'[c] = "user" /\ pc'[slot] = "loop" /\ coro'[c] = NoCoro
      /\ \A x \in AllCoros : x # c => coro'[x] = coro[x]
      /\ \A x \in Coros : x # n => state'[x] = state[x]
      /\ state'[n] = "RUNNABLE"
      /\ \A u \in Threads : u # slot => /\ stack'[u] = stack[u]
                                        /\ run_list'[u] = run_list[u]
                                        /\ current_coro'[u] = current_coro[u]
      /\ stack'[slot] = slot /\ run_list'[slot] = <<n>> /\ current_coro'[slot] = slot
  BY ZenonT(90), <1>0, <1>1, <1>2, <1>3, <1>4, <1>5, Parts DEF TypeOK
<1>8. UNCHANGED <<wait, fd, waiter, events, interest, armed, batch, timer_heap, expired,
                  glock>>
  BY Zenon, <1>3 DEF waitVars, epollVars, loopVars, timerVars
<1>9. Labels'
  <2>1. \A d \in Coros : OnCpu(d) => OnCpu(d)'
    <3>1. \A d \in Coros : \A u \in Threads : stack[u] = d => stack'[u] = d
      <4>1. \A d \in Coros : stack[slot] # d
        BY Zenon, <1>0, <1>5
      <4> QED
        BY Zenon, <1>7, <4>1
    <3> QED
      BY Zenon, <3>1 DEF OnCpu
  <2>2. \A u \in Threads : u # slot => pc'[u] = pc[u]
    BY ZenonT(40), <1>0, <1>1, <1>7
  <2>3. \A x \in Coros : x # c => pc'[x] = pc[x]
    BY ZenonT(40), <1>0, <1>2, <1>7
  <2>4. slot # NoCoro
    BY Zenon, <1>0, <1>2
  <2>5. Labels
    BY Zenon, Parts
  <2>6. /\ \A d \in Coros : pc'[d] \in UserPC \cup {"free"}
        /\ \A d \in Coros : pc'[d] \notin {"free", "user", "resume"} => OnCpu(d)'
        /\ pc'[MainCoro] # "free"
    BY ZenonT(40), <1>2, <1>5, <1>7, <2>1, <2>3, <2>5 DEF Labels, UserPC
  <2>7. /\ \A u \in Threads : pc'[u] \in LoopPC \cup {"free"}
        /\ \A u \in Threads : pc'[u] \notin {"free", "loop"} => stack'[u] = u
        /\ \A u \in Threads : glock' = u => pc'[u] = "schedule"
    BY ZenonT(90), <1>1, <1>2, <1>5, <1>7, <1>8, <2>2, <2>5 DEF Labels, LoopPC
  <2>8. /\ \A u \in Threads : pc'[u] = "free" <=> stack'[u] = NoCoro
        /\ \A u \in Threads : stack'[u] = NoCoro => run_list'[u] = <<>>
    <3>1. \A u \in Threads : u # slot =>
             pc'[u] = pc[u] /\ stack'[u] = stack[u] /\ run_list'[u] = run_list[u]
      BY Zenon, <1>7, <2>2
    <3>2. /\ \A u \in Threads : pc[u] = "free" <=> stack[u] = NoCoro
          /\ \A u \in Threads : stack[u] = NoCoro => run_list[u] = <<>>
      BY Zenon, <2>5 DEF Labels
    <3>3. pc'[slot] # "free" /\ stack'[slot] # NoCoro
      BY Zenon, <1>7, <2>4
    <3> QED
      BY ZenonT(40), <3>1, <3>2, <3>3
  <2> QED
    BY ZenonT(40), <2>6, <2>7, <2>8 DEF Labels
<1>10. \A d \in AllCoros : Waking(d)' <=> Waking(d) /\ d # c
  BY Zenon, <1>1, <1>5, <1>7 DEF Waking
<1>11. Pointers'
  BY ZenonT(40), <1>0, <1>2, <1>7, <1>10, Parts DEF Pointers
<1>12. SlotExclusive'
  <2>1. \A u \in Threads : u < local_count' <=> u < slot \/ u = slot
    BY <1>2, <1>3 DEF Threads
  <2>2. \A u \in Threads : stack[u] # NoCoro <=> u < slot
    BY ZenonT(40), Parts DEF SlotExclusive, slot
  <2>3. slot # NoCoro
    BY Zenon, <1>0, <1>2
  <2> QED
    BY ZenonT(40), <1>7, <2>1, <2>2, <2>3 DEF SlotExclusive
<1>13. /\ \A u \in Threads : u # slot => (At(u, "cmpxchg")' <=> At(u, "cmpxchg"))
       /\ \A u \in Threads : u # slot /\ At(u, "cmpxchg") => coro'[stack[u]] = coro[stack[u]]
       /\ \A u \in Threads : u = slot => ~At(u, "cmpxchg")' /\ ~At(u, "cmpxchg")
       /\ \A u \in Threads : u # slot => \A x : InHand(u, x)' <=> InHand(u, x)
       /\ \A u \in Threads : u = slot => \A x : ~InHand(u, x)' /\ ~InHand(u, x)
  <2>0. \A u \in Threads : stack[u] # NoCoro => stack[u] \in AllCoros
    BY Zenon, Parts DEF TypeOK
  <2>1. \A u \in Threads : u # slot /\ stack[u] # NoCoro =>
           stack[u] # slot /\ stack[u] \in AllCoros
    BY ZenonT(40), <1>2, <2>0, Parts DEF Places
  <2>2. \A x \in AllCoros : x # slot =>
           /\ pc'[x] = "cmpxchg" <=> pc[x] = "cmpxchg"
           /\ pc[x] = "cmpxchg" => coro'[x] = coro[x]
    BY Zenon, <1>1, <1>7
  <2>3. /\ \A u \in Threads : u # slot => (At(u, "cmpxchg")' <=> At(u, "cmpxchg"))
        /\ \A u \in Threads : u # slot /\ At(u, "cmpxchg") => coro'[stack[u]] = coro[stack[u]]
        /\ \A u \in Threads : u = slot => ~At(u, "cmpxchg")' /\ ~At(u, "cmpxchg")
    BY ZenonT(90), <1>5, <1>7, <2>1, <2>2 DEF At
  <2> QED
    BY <1>7, <2>3 DEF InHand
<1>14. CurrentCoro'
  BY <1>2, <1>7, <1>13, Parts DEF CurrentCoro
<1>15. Places' /\ NotLost'
  <2> DEFINE s == slot
  <2>1. \A u \in Threads : u = slot =>
           /\ \A x \in AllCoros : Owns(u, x)' <=> x = slot \/ x = n
           /\ \A x \in AllCoros : ~Owns(u, x)
    <3>1. Range(<<n>>) = {n} /\ Range(<<>>) = {}
      BY Zenon, <1>4, RangeShort
    <3> QED
      BY <1>0, <1>5, <1>7, <1>13, <3>1 DEF Owns
  <2>2. Unowned(slot) /\ Unowned(n)
    BY Zenon, <1>0, <1>2, <1>4, <1>5, Owners
  <2>3. \A x \in Coros : Unowned(x) /\ pc[x] # "free" => state[x] = "BLOCKED"
    BY Zenon, <1>2, Owners
  <2>4. IsInjective(<<n>>) /\ Range(<<n>>) = {n}
    BY Zenon, <1>4, RangeShort
  <2>5. \A x \in AllCoros : pc'[x] = "free" => pc[x] = "free" /\ x # slot /\ x # n
    BY ZenonT(40), <1>0, <1>2, <1>4, <1>5, <1>7
  <2>6. \A x \in Coros : x # n /\ pc'[x] # "free" => pc[x] # "free"
    BY ZenonT(40), <1>0, <1>1, <1>2, <1>7
  <2>7. PICK u \in Threads : u = slot
    BY ZenonT(40), <1>2
  <2>8. OneThreadMoves(u)
    <3>1. /\ stack'[u] = u /\ run_list'[u] = <<n>> /\ u # NoCoro /\ u # n
          /\ n \notin Threads /\ \A x \in Coros : x # u
      BY ZenonT(40), <1>0, <1>4, <1>5, <1>7, <2>7
    <3>2. /\ \A x \in AllCoros : (Owns(u, x)' <=> x = u \/ x = n) /\ ~Owns(u, x)
          /\ \A x \in AllCoros : ~InHand(u, x)'
          /\ Unowned(u) /\ Unowned(n) /\ u \in AllCoros
      BY ZenonT(40), <1>0, <1>13, <2>1, <2>2, <2>7
    <3>3. \A v \in Threads : v # u =>
             /\ stack'[v] = stack[v] /\ run_list'[v] = run_list[v]
             /\ \A x \in AllCoros : InHand(v, x)' <=> InHand(v, x)
      BY Zenon, <1>7, <1>13, <2>7
    <3>4. /\ IsInjective(run_list'[u])
          /\ stack'[u] # NoCoro /\ stack'[u] \notin Range(run_list'[u])
      BY Zenon, <2>4, <3>1
    <3>5. /\ \A x \in AllCoros : Owns(u, x)' =>
                (Owns(u, x) \/ Unowned(x)) /\ pc'[x] # "free" /\ (x \in Threads => x = u)
          /\ \A x \in AllCoros : pc'[x] = "free" => pc[x] = "free" \/ Owns(u, x)
      BY Zenon, <2>5, <2>7, <3>1, <3>2
    <3>6. \A x \in Coros : state'[x] = "BLOCKED" =>
             (state[x] = "BLOCKED" \/ Owns(u, x) \/ Unowned(x)) /\ ~Owns(u, x)'
      <4>1. \A x \in Coros : state'[x] = "BLOCKED" => state[x] = "BLOCKED" /\ x # n
        BY Zenon, <1>7
      <4> QED
        BY Zenon, <1>0, <3>1, <3>2, <4>1
    <3>7. \A x \in Coros :
             (Owns(u, x) \/ Unowned(x)) /\ ~Owns(u, x)' /\ pc'[x] # "free" =>
                state'[x] = "BLOCKED"
      <4>1. \A x \in Coros : ~Owns(u, x) /\ (x = n => Owns(u, x)')
        BY Zenon, <1>0, <3>2
      <4>2. \A x \in Coros : x # n => state'[x] = state[x]
        BY Zenon, <1>7
      <4> QED
        BY Zenon, <2>3, <2>6, <4>1, <4>2
    <3> QED
      BY ZenonT(40), <3>2, <3>3, <3>4, <3>5, <3>6, <3>7 DEF OneThreadMoves
  <2> QED
    BY ZenonT(40), <1>6, <2>8, OwnershipKept
<1>16. wait[n] = "none" /\ wait[c] = "none" /\ n \notin waiter /\ n \notin timer_heap
       /\ \A d \in AllCoros : Waking(d) /\ d # c => coro[d] # n /\ coro[d] # c
  <2>1. wait[n] = "none" /\ wait[c] = "none" /\ n \notin waiter /\ n \notin timer_heap
    BY Zenon, <1>1, <1>4, Parts DEF WaitRecords, Timers
  <2>2. \A d \in AllCoros : Waking(d) /\ d # c => coro[d] # n
    BY Zenon, <1>0, <1>1, <1>4, Parts DEF Wakers, n
  <2>3. \A d \in AllCoros : Waking(d) => coro[d] # c
    BY ZenonT(40), <1>1, Parts DEF Wakers, Waking, Labels, AllCoros, LoopPC, Suspending
  <2> QED
    BY Zenon, <2>1, <2>2, <2>3
<1>17. WaitRecords'
  <2>1. \A x \in Coros : x # c => pc'[x] = pc[x]
    BY Zenon, <1>0, <1>2, <1>7
  <2>2. \A x \in Coros : x # n /\ (\E d \in Coros : Waking(d) /\ coro[d] = x) =>
           \E d \in Coros : Waking(d)' /\ coro'[d] = x
    BY ZenonT(40), <1>0, <1>7, <1>10 DEF n
  <2>3. WaitRecords
    BY Zenon, Parts
  <2>4. /\ wait' = wait /\ waiter' = waiter /\ n \notin waiter
        /\ wait[n] = "none" /\ wait[c] = "none"
    BY Zenon, <1>8, <1>16
  <2>5. /\ pc'[c] = "user" /\ state'[n] = "RUNNABLE"
        /\ \A x \in Coros : x # n => state'[x] = state[x]
    BY ZenonT(40), <1>7
  <2>6. ASSUME NEW x \in Coros, x # n, x # c PROVE WaitRecords!(x)'
    <3>1. WaitRecords!(x)
      BY ZenonT(40), <2>3 DEF WaitRecords
    <3>2. /\ pc'[x] = pc[x] /\ state'[x] = state[x]
          /\ wait'[x] = wait[x] /\ waiter' = waiter
          /\ (\E d \in Coros : Waking(d) /\ coro[d] = x) =>
                \E d \in Coros : Waking(d)' /\ coro'[d] = x
      BY ZenonT(40), <2>1, <2>2, <2>4, <2>5, <2>6
    <3> QED
      BY ZenonT(40), <3>1, <3>2
  <2>7. ASSUME NEW x \in Coros, x = n \/ x = c PROVE WaitRecords!(x)'
    <3>1. pc'[x] = "user" /\ wait[x] = "none"
      BY ZenonT(40), <1>1, <1>4, <2>1, <2>4, <2>5, <2>7
    <3>2. x = n => state'[x] = "RUNNABLE" /\ x \notin waiter
      BY Zenon, <2>4, <2>5
    <3>3. x # n => state'[x] = state[x] /\ pc[x] = "fetch_add"
      BY ZenonT(40), <1>1, <2>5, <2>7
    <3>4. WaitRecords!(x)
      BY ZenonT(40), <2>3 DEF WaitRecords
    <3> QED
      BY <2>2, <2>4, <3>1, <3>2, <3>3, <3>4
  <2> QED
    BY ZenonT(40), <2>6, <2>7 DEF WaitRecords
<1>18. Registrations'
  <2>1. Registrations
    BY ZenonT(40), Parts
  <2>2. \A x \in Coros : x # c => pc'[x] = pc[x]
    BY Zenon, <1>0, <1>2, <1>7
  <2>3. \A u \in Threads : u # slot => pc'[u] = pc[u]
    BY Zenon, <1>0, <1>1, <1>7
  <2> QED
    <3>1. \A f \in Fds : \A x \in Coros : interest[f] = x =>
             wait[x] = "event" /\ fd[x] = f /\ pc'[x] \in Suspending
      <4>1. \A f \in Fds : \A x \in Coros : interest[f] = x =>
               wait[x] = "event" /\ fd[x] = f /\ pc[x] \in Suspending
        BY Zenon, <2>1 DEF Registrations
      <4>2. pc[c] \notin Suspending
        BY Zenon, <1>1 DEF Suspending
      <4> QED
        BY ZenonT(40), <2>2, <4>1, <4>2
    <3>2. \A u \in Threads : batch[u] # {} =>
             pc'[u] \in {"events", "schedule"} /\ glock # u
      BY Zenon, <1>5, <2>1, <2>3 DEF Registrations
    <3> QED
      BY <1>8, <2>1, <3>1, <3>2 DEF Registrations
<1>19. Timers'
  <2>1. \A x \in timer_heap : x \in Coros /\ x # n /\ x # c /\ x # slot
    <3>1. \A x \in timer_heap : x \in Coros /\ wait[x] = "timer"
      BY Zenon, Parts DEF Timers, TypeOK
    <3> QED
      BY Zenon, <1>0, <1>2, <1>16, <3>1
  <2> QED
    BY ZenonT(40), <1>0, <1>7, <1>8, <2>1, Parts DEF Timers
<1>20. Wakers'
  <2>1. \A d \in AllCoros : Waking(d) /\ d # c =>
           /\ coro[d] \in Coros /\ coro'[d] = coro[d]
           /\ pc'[coro[d]] = pc[coro[d]] /\ state'[coro[d]] = state[coro[d]]
    <3>1. \A d \in AllCoros : Waking(d) => coro[d] \in Coros
      BY Zenon, Parts DEF Pointers
    <3>2. \A x \in Coros : x # c => pc'[x] = pc[x]
      BY Zenon, <1>0, <1>2, <1>7
    <3> QED
      BY ZenonT(40), <1>7, <1>16, <3>1, <3>2
  <2>2. \A u \in Threads : pc'[u] = "schedule" => pc[u] = "schedule" /\ Waking(u) /\ u # c
    BY ZenonT(40), <1>0, <1>1, <1>7 DEF Waking
  <2>3. Wakers
    BY Zenon, Parts
  <2> QED
    BY <1>0, <1>8, <1>10, <2>1, <2>2, <2>3 DEF Wakers
<1>21. Woken'
  <2>1. \A d \in Coros : d # n /\ BeingScheduled(d) => BeingScheduled(d)'
    BY ZenonT(40), <1>7, <1>10 DEF BeingScheduled, Waking, n
  <2>2. \A d \in Coros : d # n /\ HasWaker(d) => HasWaker(d)'
    BY Zenon, <1>8, <2>1 DEF HasWaker, EventWaker
  <2>3. \A x \in Coros : x # c => pc'[x] = pc[x]
    BY Zenon, <1>0, <1>2, <1>7
  <2> QED
    BY ZenonT(40), <1>7, <1>8, <1>16, <2>2, <2>3, Parts DEF Woken
<1> QED
  BY ZenonT(40), <1>6, <1>9, <1>11, <1>12, <1>14, <1>15, <1>17, <1>18, <1>19, <1>20, <1>21
     DEF IInv

\* The slow path of sched_new_coroutine().
LEMMA Keep_fetch_add ==
    ASSUME IInv, NEW t \in Threads, fetch_add(t)
    PROVE  IInv'
<1>1. local_count \in Nat
  BY Zenon, Parts DEF TypeOK
<1> QED
  BY <1>1, Keep_slot, Keep_no_slot, SchedulerAssumption
=============================================================================
