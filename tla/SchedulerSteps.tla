--------------------------- MODULE SchedulerSteps ---------------------------
(***************************************************************************)
(* Towards the inductive invariant of Scheduler: facts about run lists,    *)
(* the initial state, and the steps that move no coroutine between         *)
(* processors, run lists and sleep: those of user coroutines, of the event *)
(* loops and of the environment.                                           *)
(***************************************************************************)
EXTENDS SchedulerInv, TLAPS

----------------------------------------------------------------------------
(* Run lists as sets.                                                      *)

\* list_push_back() adds one element.
LEMMA RangeAppend ==
    ASSUME NEW S, NEW s \in Seq(S), NEW x \in S
    PROVE  /\ Append(s, x) \in Seq(S) /\ Append(s, x) # <<>>
           /\ Range(Append(s, x)) = Range(s) \cup {x}
           /\ IsInjective(s) /\ x \notin Range(s) => IsInjective(Append(s, x))
           /\ s # <<>> => Head(Append(s, x)) = Head(s)
<1>1. /\ Append(s, x) \in Seq(S) /\ DOMAIN s = 1 .. Len(s) /\ Len(s) \in Nat
      /\ DOMAIN Append(s, x) = 1 .. Len(s) + 1
      /\ \A i \in 1 .. Len(s) : Append(s, x)[i] = s[i]
      /\ Append(s, x)[Len(s) + 1] = x
  OBVIOUS
<1>2. Range(Append(s, x)) = Range(s) \cup {x}
  BY <1>1 DEF Range
<1>3. IsInjective(s) /\ x \notin Range(s) => IsInjective(Append(s, x))
  BY <1>1 DEF Range, IsInjective
<1> QED
  BY <1>1, <1>2, <1>3

\* list_pop_front() removes the first element.
LEMMA RangeTail ==
    ASSUME NEW S, NEW s \in Seq(S), s # <<>>, IsInjective(s)
    PROVE  /\ Head(s) \in Range(s) /\ Head(s) \in S /\ Tail(s) \in Seq(S)
           /\ Range(Tail(s)) = Range(s) \ {Head(s)}
           /\ IsInjective(Tail(s))
<1>1. /\ Tail(s) \in Seq(S) /\ DOMAIN s = 1 .. Len(s) /\ Len(s) \in Nat \ {0}
      /\ DOMAIN Tail(s) = 1 .. Len(s) - 1
      /\ \A i \in 1 .. Len(s) - 1 : Tail(s)[i] = s[i + 1]
      /\ Head(s) = s[1]
  OBVIOUS
<1>2. Head(s) \in Range(s) /\ Head(s) \in S
  BY <1>1 DEF Range
<1>3. Range(Tail(s)) \subseteq Range(s) \ {Head(s)}
  BY <1>1 DEF Range, IsInjective
<1>4. ASSUME NEW y \in Range(s) \ {Head(s)} PROVE y \in Range(Tail(s))
  <2>1. PICK i \in 1 .. Len(s) : s[i] = y
    BY Zenon, <1>1 DEF Range
  <2>2. i - 1 \in 1 .. Len(s) - 1 /\ Tail(s)[i - 1] = y
    BY <1>1, <1>4, <2>1
  <2> QED
    BY ZenonT(60), <1>1, <2>2 DEF Range
<1>5. IsInjective(Tail(s))
  BY <1>1 DEF IsInjective
<1> QED
  BY Zenon, <1>1, <1>2, <1>3, <1>4, <1>5

\* A run list with at most one element.
LEMMA RangeShort ==
    ASSUME NEW S, NEW x \in S
    PROVE  /\ <<>> \in Seq(S) /\ Range(<<>>) = {} /\ IsInjective(<<>>)
           /\ <<x>> \in Seq(S) /\ Range(<<x>>) = {x} /\ IsInjective(<<x>>)
  BY DEF Range, IsInjective

\* A run list of AllCoros holds nothing else, and is empty only if its range is.
LEMMA RangeType ==
    ASSUME NEW S, NEW s \in Seq(S)
    PROVE  Range(s) \subseteq S /\ (Range(s) # {} => s # <<>>)
  BY DEF Range

----------------------------------------------------------------------------
(* The invariant holds initially.                                          *)

\* What sched_init() sets up satisfies the invariant.
LEMMA InitInv == Init => IInv
<1> SUFFICES ASSUME Init PROVE IInv
  BY Zenon
<1> USE SchedulerAssumption
<1>1. 0 \in Threads /\ 0 \notin Coros /\ MainCoro \notin Threads /\ MainCoro # NoCoro
      /\ NoCoro \notin AllCoros
  BY DEF Threads, AllCoros
<1>2. /\ \A t \in Threads : run_list[t] = IF t = 0 THEN <<0>> ELSE <<>>
      /\ \A t \in Threads : Range(run_list[t]) = IF t = 0 THEN {0} ELSE {}
      /\ \A t \in Threads : IsInjective(run_list[t])
      /\ run_list \in [Threads -> Seq(AllCoros)]
  BY Zenon, <1>1, RangeShort DEF Init, AllCoros
<1>3. TypeOK
  <2>1. /\ current_coro \in [Threads -> AllCoros \cup {NoCoro}]
        /\ stack \in [Threads -> AllCoros \cup {NoCoro}]
        /\ coro \in [AllCoros -> AllCoros \cup {NoCoro}]
        /\ pc \in [AllCoros -> UserPC \cup LoopPC \cup {"free"}]
    BY Zenon, <1>1 DEF Init, AllCoros, UserPC, LoopPC
  <2>2. /\ state \in [Coros -> StateOrJunk]
        /\ wait \in [Coros -> {"none", "event", "timer"}]
        /\ fd \in [Coros -> Fds]
    BY ZenonT(40) DEF Init, StateOrJunk, CoroState
  <2>3. /\ interest \in [Fds -> Coros \cup {NoCoro}]
        /\ timeout \in [Threads -> Timeouts]
        /\ batch \in [Threads -> SUBSET Coros]
        /\ full \in [Threads -> BOOLEAN]
    BY Zenon DEF Init, Timeouts
  <2> QED
    BY <1>2, <2>1, <2>2, <2>3 DEF Init, TypeOK
<1>4. Labels /\ Pointers /\ SlotExclusive
  BY <1>1, <1>2 DEF Init, Labels, Pointers, SlotExclusive, OnCpu, Waking, Threads,
     AllCoros, UserPC, LoopPC
<1>5. CurrentCoro
  BY Zenon, <1>1 DEF Init, CurrentCoro, At, AllCoros
<1>6. \A t \in Threads : ~At(t, "cmpxchg")
  BY Zenon, <1>1 DEF Init, At, AllCoros
<1>7. Places /\ NotLost
  BY <1>1, <1>2, <1>6 DEF Init, Places, NotLost, SingleOwner, OnCpu, Queued, InHand,
     AllCoros
<1>8. WaitRecords /\ Registrations /\ Timers /\ Wakers /\ Woken
  BY ZenonT(40), <1>1 DEF Init, WaitRecords, Registrations, Timers, Wakers, Woken, Waking,
     AllCoros
<1> QED
  BY Zenon, <1>3, <1>4, <1>5, <1>7, <1>8 DEF IInv

\* What the inductive invariant is made of.
LEMMA Parts ==
    ASSUME IInv
    PROVE  /\ TypeOK /\ Labels /\ Pointers /\ CurrentCoro /\ SlotExclusive
           /\ Places /\ NotLost
           /\ WaitRecords /\ Registrations /\ Timers /\ Wakers /\ Woken
  BY Zenon DEF IInv

----------------------------------------------------------------------------
(* Steps that move no coroutine.                                           *)

\* A step of the coroutine c on a processor that is neither the switch of
\* sched_suspend() nor the end of a coroutine, and moves nothing.
StepInPlace(c, l) ==
    /\ OnCpu(c) /\ pc[c] # "cmpxchg" /\ l # "cmpxchg"
    /\ l \in (IF c \in Coros THEN UserPC ELSE LoopPC)
    /\ pc' = [pc EXCEPT ![c] = l]
    /\ run_list' = run_list /\ current_coro' = current_coro /\ stack' = stack
    /\ \A t \in Threads : t < local_count' <=> t < local_count
    /\ \A d \in AllCoros : d # c => coro'[d] = coro[d]
    /\ \A d \in Coros : state'[d] = "BLOCKED" <=> state[d] = "BLOCKED"
    /\ \A t \in Threads : glock' = t => IF t = c THEN l = "schedule" ELSE glock = t

\* Such a step preserves what is said about places.
LEMMA NothingMoves ==
    ASSUME IInv, NEW c \in AllCoros, NEW l, StepInPlace(c, l)
    PROVE  Labels' /\ CurrentCoro' /\ SlotExclusive' /\ Places' /\ NotLost'
<1> USE SchedulerAssumption, Parts
    DEF StepInPlace
<1>0. Coros \cap Threads = {} /\ NoCoro \notin AllCoros /\ AllCoros = Coros \cup Threads
      /\ MainCoro \in Coros
  BY Zenon DEF AllCoros
<1>1. pc \in [AllCoros -> UserPC \cup LoopPC \cup {"free"}] /\ c # NoCoro
  BY Zenon, <1>0 DEF TypeOK
<1>2. pc[c] # "free" /\ l # "free"
  BY Zenon, <1>0 DEF Places, SingleOwner, UserPC, LoopPC
<1>3. PICK t0 \in Threads : stack[t0] = c
  BY Zenon DEF OnCpu
<1>4. c \in Threads => stack[c] = c
  BY <1>3 DEF Places
<1>5. \A t \in Threads : \A d \in AllCoros : InHand(t, d)' <=> InHand(t, d)
  BY <1>0, <1>1 DEF InHand, At, TypeOK
<1>6. /\ \A d \in AllCoros : OnCpu(d)' <=> OnCpu(d)
      /\ \A d \in AllCoros : Queued(d)' <=> Queued(d)
  BY Zenon DEF OnCpu, Queued
<1>7. \A d \in AllCoros : pc'[d] = "free" <=> pc[d] = "free"
  BY Zenon, <1>1, <1>2
<1>8. Labels'
  BY ZenonT(90), <1>0, <1>1, <1>2, <1>4, <1>6 DEF Labels
<1>9. CurrentCoro'
  <2>1. \A t \in Threads : At(t, "cmpxchg")' <=> At(t, "cmpxchg")
    BY <1>1 DEF At, TypeOK
  <2>2. \A t \in Threads : At(t, "cmpxchg") => coro'[stack[t]] = coro[stack[t]]
    BY <1>1 DEF At, TypeOK
  <2> QED
    BY Zenon, <2>1, <2>2 DEF CurrentCoro
<1>10. SlotExclusive'
  BY Zenon DEF SlotExclusive
<1>11. Places'
  BY ZenonT(40), <1>0, <1>5, <1>6, <1>7 DEF Places, SingleOwner
<1>12. NotLost'
  BY Zenon, <1>0, <1>5, <1>6, <1>7 DEF NotLost
<1> QED
  BY Zenon, <1>8, <1>9, <1>10, <1>11, <1>12

----------------------------------------------------------------------------
(* Who executes what.                                                      *)

UserOnly == UserPC \ {"schedule"}
LoopOnly == LoopPC \ {"schedule"}

\* The functions for user coroutines are executed by user coroutines.
LEMMA UserAt ==
    ASSUME IInv, NEW t \in Threads, NEW l \in UserOnly, At(t, l)
    PROVE  /\ stack[t] \in Coros /\ stack[t] \in AllCoros /\ stack[t] \notin Threads
           /\ stack[t] # NoCoro /\ pc[stack[t]] = l /\ OnCpu(stack[t])
           /\ \A u \in Threads : stack[u] = stack[t] => u = t
<1>1. stack[t] \in AllCoros /\ stack[t] # NoCoro /\ pc[stack[t]] = l /\ OnCpu(stack[t])
  BY Zenon, Parts DEF TypeOK, At, OnCpu
<1>2. stack[t] \notin Threads
  BY Zenon, <1>1, Parts DEF Labels, UserOnly, UserPC, LoopPC
<1>3. \A u \in Threads : stack[u] = stack[t] => u = t
  BY Zenon, <1>1, Parts DEF Places, SingleOwner
<1> QED
  BY Zenon, <1>1, <1>2, <1>3 DEF AllCoros

\* sched_loop() is executed by the event loop coroutine of the thread.
LEMMA LoopAt ==
    ASSUME IInv, NEW t \in Threads, NEW l \in LoopOnly, At(t, l)
    PROVE  /\ stack[t] = t /\ t \in AllCoros /\ t \notin Coros /\ pc[t] = l /\ OnCpu(t)
           /\ \A u \in Threads : stack[u] = t => u = t
<1>1. stack[t] \in AllCoros /\ pc[stack[t]] = l
  BY Zenon, Parts DEF TypeOK, At
<1>2. stack[t] \notin Coros
  BY Zenon, <1>1, Parts DEF Labels, LoopOnly, UserPC, LoopPC
<1>3. stack[t] = t /\ t \in AllCoros /\ t \notin Coros
  BY Zenon, <1>1, <1>2, SchedulerAssumption, Parts DEF Places, AllCoros
<1> QED
  BY ZenonT(40), <1>1, <1>3, Parts DEF Places, OnCpu

\* Nothing refers to the wait record, or is about to wake, a coroutine that
\* executes user code.
LEMMA UserUnreferenced ==
    ASSUME IInv, NEW c \in Coros, pc[c] = "user", OnCpu(c)
    PROVE  /\ wait[c] = "none" /\ c \notin waiter /\ c \notin timer_heap
           /\ state[c] # "BLOCKED"
           /\ \A f \in Fds : interest[f] # c
           /\ \A t \in Threads : c \notin batch[t]
           /\ \A d \in AllCoros : Waking(d) => coro[d] # c
<1> USE SchedulerAssumption, Parts
<1>1. wait[c] = "none" /\ c \notin waiter /\ c \notin timer_heap /\ state[c] # "BLOCKED"
  BY Zenon DEF WaitRecords, Timers, Places, Suspending
<1>2. \A f \in Fds : interest[f] # c
  BY Zenon DEF Registrations, Suspending
<1>3. \A t \in Threads : c \notin batch[t]
  BY Zenon, <1>1 DEF Registrations
<1>4. \A d \in AllCoros : Waking(d) => coro[d] # c
  BY <1>1 DEF Wakers, Waking, Labels, AllCoros, LoopPC
<1> QED
  BY Zenon, <1>1, <1>2, <1>3, <1>4

\* A step of the user coroutine c that starts or ends no call of sched_schedule() and
\* leaves the waits of the others alone.
OthersKept(c) ==
    /\ coro' = coro
    /\ \A d \in AllCoros : Waking(d)' <=> Waking(d)
    /\ \A t \in Threads : pc'[t] = pc[t]
    /\ \A d \in Coros : d # c =>
          /\ pc'[d] = pc[d] /\ wait'[d] = wait[d] /\ state'[d] = state[d]
          /\ d \in waiter' <=> d \in waiter
          /\ d \in timer_heap' <=> d \in timer_heap
          /\ d \in expired' <=> d \in expired
          /\ d \in events' <=> d \in events

\* If nobody is about to wake c, such a step preserves what is said about wake-ups.
LEMMA WakersKept ==
    ASSUME IInv, NEW c \in Coros, OthersKept(c),
           \A d \in AllCoros : Waking(d) => coro[d] # c
    PROVE  Wakers'
<1>1. /\ \A d \in Coros : d \in AllCoros
      /\ \A t \in Threads : t \in AllCoros /\ (pc[t] = "schedule" => Waking(t))
  BY Zenon DEF AllCoros, Waking
<1>2. Wakers /\ \A d \in AllCoros : Waking(d) => coro[d] \in Coros /\ coro[d] # c
  BY Zenon, Parts DEF Pointers
<1>3. ASSUME NEW t \in Threads, pc'[t] = "schedule"
      PROVE  LET d == coro'[t] IN
             /\ wait'[d] # "none" /\ pc'[d] \in Suspending /\ state'[d] \in Asleep
             /\ d \notin waiter' /\ d \notin timer_heap'
             /\ wait'[d] = "timer" => d \in expired'
             /\ wait'[d] = "event" => d \in events'
  <2>1. pc[t] = "schedule" /\ coro[t] \in Coros /\ coro[t] # c /\ coro' = coro
    BY Zenon, <1>1, <1>2, <1>3 DEF OthersKept
  <2> QED
    BY <2>1, <1>2 DEF OthersKept, Wakers
<1>4. ASSUME NEW d \in Coros, Waking(d)'
      PROVE  /\ pc'[coro'[d]] = "user" /\ state'[coro'[d]] = "BLOCKED"
             /\ coro'[d] # MainCoro
  <2>1. Waking(d) /\ coro[d] \in Coros /\ coro[d] # c /\ coro' = coro
    BY Zenon, <1>1, <1>2, <1>4 DEF OthersKept
  <2> QED
    BY <2>1, <1>2 DEF OthersKept, Wakers
<1>5. \A d, e \in AllCoros : Waking(d)' /\ Waking(e)' /\ coro'[d] = coro'[e] => d = e
  BY Zenon, <1>2 DEF OthersKept, Wakers
<1> QED
  BY Zenon, <1>3, <1>4, <1>5 DEF Wakers

\* Such a step preserves the wait records if that of c is as it should be ...
LEMMA RecordsOfOthers ==
    ASSUME WaitRecords, NEW c \in Coros, OthersKept(c),
           \A d \in Coros : d = c => WaitRecords!(d)'
    PROVE  WaitRecords'
<1>1. ASSUME NEW d \in Coros, d # c
      PROVE  WaitRecords!(d)'
  <2>1. WaitRecords!(d)
    BY ZenonT(40) DEF WaitRecords
  <2>2. /\ pc'[d] = pc[d] /\ wait'[d] = wait[d] /\ state'[d] = state[d]
        /\ d \in waiter' <=> d \in waiter
        /\ (\E e \in Coros : Waking(e) /\ coro[e] = d) =>
              \E e \in Coros : Waking(e)' /\ coro'[e] = d
    BY ZenonT(40), <1>1 DEF OthersKept, AllCoros
  <2> QED
    BY ZenonT(40), <2>1, <2>2
<1> QED
  BY ZenonT(40), <1>1 DEF WaitRecords

\* ... and the registrations if c has none.
LEMMA RegistrationsKept ==
    ASSUME IInv, NEW c \in Coros, OthersKept(c),
           interest' = interest, armed' = armed, batch' = batch,
           \A f \in Fds : interest[f] # c,
           \A u \in Threads : c \notin batch[u] /\ (glock # u => glock' # u),
           \A d \in Coros : d # c => fd'[d] = fd[d],
           \A d \in Coros : d # c /\ wait'[c] = "event" /\ wait[d] = "event" =>
              fd[d] # fd'[c]
    PROVE  Registrations'
<1>0. /\ Registrations /\ armed \subseteq Fds /\ waiter \subseteq Coros
      /\ \A u \in Threads : batch[u] \subseteq Coros
  BY Zenon, Parts DEF TypeOK
<1>1. \A d \in Coros : d # c =>
        pc'[d] = pc[d] /\ wait'[d] = wait[d] /\ (d \in waiter' <=> d \in waiter)
  BY Zenon DEF OthersKept
<1>2. \A f \in Fds : \A d \in Coros : interest'[f] = d =>
         wait'[d] = "event" /\ fd'[d] = f /\ pc'[d] \in Suspending
  <2>1. \A f \in Fds : \A d \in Coros : interest[f] = d =>
           wait[d] = "event" /\ fd[d] = f /\ pc[d] \in Suspending
    BY Zenon, <1>0 DEF Registrations
  <2> QED
    BY ZenonT(60), <1>1, <2>1
<1>3. \A f \in armed' : interest'[f] \in waiter'
  BY ZenonT(40), <1>0, <1>1 DEF Registrations
<1>4. \A d, e \in Coros :
         wait'[d] = "event" /\ wait'[e] = "event" /\ fd'[d] = fd'[e] => d = e
  <2>1. \A d, e \in Coros : d # c /\ e # c =>
           (wait'[d] = "event" /\ wait'[e] = "event" /\ fd'[d] = fd'[e] => d = e)
    <3>1. \A d, e \in Coros :
             wait[d] = "event" /\ wait[e] = "event" /\ fd[d] = fd[e] => d = e
      BY Zenon, <1>0 DEF Registrations
    <3> QED
      BY ZenonT(40), <1>1, <3>1
  <2>2. \A d \in Coros : d # c /\ wait'[c] = "event" /\ wait'[d] = "event" =>
           fd'[d] # fd'[c]
    BY ZenonT(40), <1>1
  <2> QED
    BY ZenonT(40), <2>1, <2>2
<1>5. \A u \in Threads : \A d \in batch'[u] :
         d \in waiter' /\ interest'[fd'[d]] = d /\ fd'[d] \notin armed'
  <2>1. \A u \in Threads : \A d \in batch[u] :
           d \in waiter /\ interest[fd[d]] = d /\ fd[d] \notin armed
    BY Zenon, <1>0 DEF Registrations
  <2>2. \A u \in Threads : \A d \in batch[u] :
           fd'[d] = fd[d] /\ (d \in waiter => d \in waiter')
    BY ZenonT(40), <1>0, <1>1
  <2> QED
    BY ZenonT(40), <2>1, <2>2
<1>6. /\ \A u, v \in Threads : u # v => batch'[u] \cap batch'[v] = {}
      /\ \A u \in Threads :
            batch'[u] # {} => pc'[u] \in {"events", "schedule"} /\ glock' # u
  BY ZenonT(40), <1>0 DEF Registrations, OthersKept
<1> QED
  BY ZenonT(40), <1>2, <1>3, <1>4, <1>5, <1>6 DEF Registrations

\* A step that lets no coroutine start or end its wait: at most the event loop
\* withdraws the pointer to the record of one that has registered it.
LEMMA RecordsKept ==
    ASSUME WaitRecords, wait' = wait, state' = state,
           \A d \in Coros : d \in waiter' => d \in waiter,
           \A d \in Coros : d \in waiter /\ pc[d] = "register" => d \in waiter',
           \A d \in Coros : pc'[d] = pc[d],
           \A d \in Coros : Waking(d) => Waking(d)' /\ coro'[d] = coro[d]
    PROVE  WaitRecords'
  BY DEF WaitRecords

\* A step that takes nobody to the compare-and-swap, and starts or ends no call of
\* sched_schedule(), leaves the pointers valid.
LEMMA PointersKept ==
    ASSUME Pointers, coro' = coro,
           \A d \in Coros : pc'[d] = "cmpxchg" => pc[d] = "cmpxchg",
           \A d \in AllCoros : Waking(d)' <=> Waking(d)
    PROVE  Pointers'
  BY Zenon DEF Pointers

----------------------------------------------------------------------------
(* Every action preserves the invariant.                                   *)

\* sched_event_wait(): the wait record is new, and nobody knows it.
LEMMA Keep_sched_event_wait ==
    ASSUME IInv, NEW t \in Threads, NEW f \in Fds, sched_event_wait(t, f)
    PROVE  IInv'
<1> DEFINE c == stack[t]
<1> USE SchedulerAssumption, Parts
    DEF sched_event_wait, Goto, cpuVars, loopVars, timerVars
<1>1. /\ c \in Coros /\ c \in AllCoros /\ c \notin Threads /\ pc[c] = "user" /\ OnCpu(c)
  BY Zenon, UserAt DEF UserOnly, UserPC
<1>2. /\ wait[c] = "none" /\ c \notin waiter /\ c \notin timer_heap
      /\ state[c] # "BLOCKED"
      /\ \A g \in Fds : interest[g] # c
      /\ \A u \in Threads : c \notin batch[u]
      /\ \A d \in AllCoros : Waking(d) => coro[d] # c
  BY Zenon, <1>1, UserUnreferenced
<1> HIDE DEF c
<1>3. TypeOK'
  BY Zenon, <1>1 DEF TypeOK, UserPC, StateOrJunk, CoroState, waitVars, epollVars, c
<1>4. Labels' /\ CurrentCoro' /\ SlotExclusive' /\ Places' /\ NotLost'
  <2>1. StepInPlace(c, "register")
    BY ZenonT(40), <1>1, <1>2 DEF StepInPlace, UserPC, TypeOK, c
  <2> QED
    BY Zenon, <1>1, <2>1, NothingMoves
<1>5. \A d \in AllCoros : Waking(d)' <=> Waking(d)
  BY Zenon, <1>1 DEF Waking, TypeOK, c
<1>5a. OthersKept(c)
  BY ZenonT(90), <1>1, <1>5 DEF OthersKept, TypeOK, AllCoros, c
<1>6. Pointers'
  <2>1. Pointers /\ coro' = coro
    BY Zenon
  <2>2. \A d \in Coros : pc'[d] = "cmpxchg" => pc[d] = "cmpxchg"
    BY Zenon, <1>1 DEF TypeOK, AllCoros, c
  <2> QED
    BY Zenon, <1>5, <2>1, <2>2, PointersKept
<1>7. WaitRecords'
  <2>1. pc'[c] = "register" /\ wait'[c] = "event" /\ state'[c] = "BLOCKING" /\ c \in waiter'
    BY ZenonT(40), <1>1, <1>2 DEF TypeOK, c
  <2>2. WaitRecords
    BY Zenon
  <2>3. ASSUME NEW d \in Coros, d = c PROVE WaitRecords!(d)'
    <3> HIDE SchedulerAssumption, Parts DEF sched_event_wait
    <3> QED
      BY <2>1, <2>3 DEF Asleep
  <2> QED
    BY ZenonT(40), <1>1, <1>5a, <2>2, <2>3, RecordsOfOthers
<1>8. Registrations'
  <2>1. /\ interest' = interest /\ armed' = armed /\ batch' = batch
        /\ \A u \in Threads : glock # u => glock' # u
    BY Zenon, <1>1 DEF c
  <2>2. /\ \A d \in Coros : d # c => fd'[d] = fd[d]
        /\ \A d \in Coros : d # c /\ wait'[c] = "event" /\ wait[d] = "event" =>
              fd[d] # fd'[c]
    BY ZenonT(40), <1>1, <1>2 DEF TypeOK, c
  <2> QED
    BY Zenon, <1>1, <1>2, <1>5a, <2>1, <2>2, RegistrationsKept
<1>9. Timers'
  BY ZenonT(40), <1>1, <1>2 DEF Timers, TypeOK, AllCoros, c
<1>10. Wakers'
  BY Zenon, <1>1, <1>2, <1>5a, WakersKept
<1>11. Woken'
  <2>1. \A d \in Coros : d # c => (HasWaker(d)' <=> HasWaker(d))
    <3>1. \A d \in Coros : BeingScheduled(d)' <=> BeingScheduled(d)
      BY Zenon, <1>1 DEF BeingScheduled, TypeOK, c
    <3>2. \A d \in Coros : d # c => (EventWaker(d)' <=> EventWaker(d))
      BY ZenonT(40), <1>1 DEF EventWaker, TypeOK, c
    <3> QED
      BY Zenon, <3>1, <3>2 DEF HasWaker
  <2> QED
    BY <1>1, <2>1 DEF Woken, TypeOK, Suspending, c
<1> QED
  BY Zenon, <1>3, <1>4, <1>6, <1>7, <1>8, <1>9, <1>10, <1>11 DEF IInv

\* platform_poll_register(): the new registration wakes the caller and nobody else.
LEMMA Keep_platform_poll_register ==
    ASSUME IInv, NEW t \in Threads, platform_poll_register(t)
    PROVE  IInv'
<1> DEFINE c == stack[t]
<1> USE SchedulerAssumption, Parts
    DEF platform_poll_register, Goto, cpuVars, waitVars, loopVars, timerVars
<1>1. /\ c \in Coros /\ c \in AllCoros /\ c \notin Threads /\ pc[c] = "register"
      /\ OnCpu(c)
  BY Zenon, UserAt DEF UserOnly, UserPC
<1>2. /\ wait[c] = "event" /\ state[c] = "BLOCKING" /\ c \in waiter
      /\ c \notin timer_heap /\ fd[c] \in Fds
      /\ \A u \in Threads : c \notin batch[u]
      /\ \A d \in Coros : d # c /\ wait[d] = "event" => fd[d] # fd[c]
  <2>1. wait[c] = "event" /\ state[c] = "BLOCKING" /\ c \in waiter
    BY Zenon, <1>1 DEF WaitRecords, Suspending
  <2>2. c \notin timer_heap
    BY Zenon, <1>1, <2>1 DEF Timers
  <2>3. fd[c] \in Fds
    BY Zenon, <1>1 DEF TypeOK
  <2>4. \A u \in Threads : c \notin batch[u]
    <3>1. interest[fd[c]] # c
      BY ZenonT(40), <1>1, <2>3 DEF Registrations, Suspending
    <3> QED
      BY <3>1 DEF Registrations
  <2>5. \A d \in Coros : d # c /\ wait[d] = "event" => fd[d] # fd[c]
    BY ZenonT(90), <1>1, <2>1 DEF Registrations
  <2> QED
    BY Zenon, <2>1, <2>2, <2>3, <2>4, <2>5
<1> HIDE DEF c
<1>3. TypeOK'
  BY Zenon, <1>1, <1>2 DEF TypeOK, UserPC, c
<1>4. Labels' /\ CurrentCoro' /\ SlotExclusive' /\ Places' /\ NotLost'
  <2>1. StepInPlace(c, "suspend")
    BY Zenon, <1>1 DEF StepInPlace, UserPC, c
  <2> QED
    BY Zenon, <1>1, <2>1, NothingMoves
<1>5. \A d \in AllCoros : Waking(d)' <=> Waking(d)
  BY Zenon, <1>1 DEF Waking, TypeOK, c
<1>6. Pointers'
  <2>1. Pointers /\ coro' = coro
    BY Zenon
  <2>2. \A d \in Coros : pc'[d] = "cmpxchg" => pc[d] = "cmpxchg"
    BY Zenon, <1>1 DEF TypeOK, AllCoros, c
  <2> QED
    BY Zenon, <1>5, <2>1, <2>2, PointersKept
<1>7. WaitRecords'
  <2>1. pc'[c] = "suspend" /\ \A d \in Coros : d # c => pc'[d] = pc[d]
    BY Zenon, <1>1 DEF TypeOK, AllCoros, c
  <2>2. UNCHANGED <<wait, state, waiter, coro>>
    BY Zenon
  <2>3. \A d \in Coros : Waking(d)' <=> Waking(d)
    BY Zenon, <1>5 DEF AllCoros
  <2>4. WaitRecords
    BY Zenon
  <2> HIDE SchedulerAssumption, Parts DEF platform_poll_register
  <2> QED
    BY <1>1, <1>2, <2>1, <2>2, <2>3, <2>4 DEF WaitRecords
<1>7a. \A d \in Coros : fd[d] \in Fds
  BY Zenon DEF TypeOK
<1>8. Registrations'
  <2>1. /\ UNCHANGED <<wait, fd, waiter, batch, glock>>
        /\ pc'[c] = "suspend" /\ \A d \in AllCoros : d # c => pc'[d] = pc[d]
    BY Zenon, <1>1 DEF TypeOK, c
  <2>2. /\ interest'[fd[c]] = c /\ \A f \in Fds : f # fd[c] => interest'[f] = interest[f]
        /\ armed' = armed \cup {fd[c]}
    BY ZenonT(40), <1>1, <1>2 DEF TypeOK, c
  <2>3. Registrations /\ armed \subseteq Fds
    BY Zenon DEF TypeOK
  <2>4. \A d \in Coros : d \in AllCoros
    BY Zenon DEF AllCoros
  <2>5. \A u \in Threads : u \in AllCoros /\ u # c
    BY Zenon, <1>1 DEF AllCoros
  <2>6. \A d \in waiter : d \in Coros /\ wait[d] = "event"
    BY Zenon DEF TypeOK, WaitRecords
  <2> HIDE SchedulerAssumption, Parts DEF platform_poll_register
  <2>7. \A f \in Fds : \A d \in Coros : interest'[f] = d =>
           wait[d] = "event" /\ fd[d] = f /\ pc'[d] \in Suspending
    BY <1>1, <1>2, <2>1, <2>2, <2>3, <2>4 DEF Registrations, Suspending
  <2>8. \A f \in armed' : interest'[f] \in waiter
    BY <1>2, <2>2, <2>3 DEF Registrations
  <2>9. \A u \in Threads : \A d \in batch[u] :
           d \in waiter /\ interest'[fd[d]] = d /\ fd[d] \notin armed'
    <3>1. ASSUME NEW u \in Threads, NEW d \in batch[u]
          PROVE  d \in waiter /\ interest[fd[d]] = d /\ fd[d] \notin armed
      BY Zenon, <2>3 DEF Registrations
    <3>2. ASSUME NEW u \in Threads, NEW d \in batch[u]
          PROVE  d \in Coros /\ d # c /\ fd[d] # fd[c] /\ fd[d] \in Fds
      BY Zenon, <1>2, <2>6, <1>7a, <3>1
    <3> QED
      BY Zenon, <2>2, <3>1, <3>2
  <2>10. /\ \A u \in Threads : batch[u] # {} => pc'[u] \in {"events", "schedule"} /\ glock # u
         /\ \A d, e \in Coros :
               wait[d] = "event" /\ wait[e] = "event" /\ fd[d] = fd[e] => d = e
         /\ \A u, v \in Threads : u # v => batch[u] \cap batch[v] = {}
    BY ZenonT(40), <2>1, <2>3, <2>5 DEF Registrations
  <2> QED
    BY <2>1, <2>7, <2>8, <2>9, <2>10 DEF Registrations
<1>9. Timers'
  BY Zenon, <1>1, <1>2 DEF Timers, TypeOK, AllCoros, c
<1>10. Wakers'
  BY ZenonT(40), <1>1, <1>2, <1>5 DEF Wakers, Pointers, Waking, TypeOK, AllCoros, Suspending, c
<1>11. Woken'
  <2>1. \A d \in Coros : BeingScheduled(d)' <=> BeingScheduled(d)
    BY ZenonT(40), <1>1 DEF BeingScheduled, TypeOK, c
  <2>2. \A d \in Coros : EventWaker(d) => EventWaker(d)'
    BY <1>1, <1>2 DEF EventWaker, Registrations, TypeOK, c
  <2>3. EventWaker(c)'
    BY Zenon, <1>1, <1>2 DEF EventWaker, TypeOK, c
  <2> QED
    <3>1. HasWaker(c)' /\ \A d \in Coros : HasWaker(d) => HasWaker(d)'
      BY Zenon, <2>1, <2>2, <2>3 DEF HasWaker
    <3> QED
      BY <1>1, <1>2, <3>1 DEF Woken, TypeOK, Asleep, Suspending, c
<1> QED
  BY Zenon, <1>3, <1>4, <1>6, <1>7, <1>8, <1>9, <1>10, <1>11 DEF IInv

\* sched_wait(): the wait record is new, and nobody knows it.
LEMMA Keep_sched_wait ==
    ASSUME IInv, NEW t \in Threads, sched_wait(t)
    PROVE  IInv'
<1> DEFINE c == stack[t]
<1> USE SchedulerAssumption, Parts
    DEF sched_wait, Goto, cpuVars, epollVars, loopVars
<1>1. /\ c \in Coros /\ c \in AllCoros /\ c \notin Threads /\ pc[c] = "user" /\ OnCpu(c)
  BY Zenon, UserAt DEF UserOnly, UserPC
<1>2. /\ wait[c] = "none" /\ c \notin waiter /\ c \notin timer_heap
      /\ state[c] # "BLOCKED"
      /\ \A g \in Fds : interest[g] # c
      /\ \A u \in Threads : c \notin batch[u]
      /\ \A d \in AllCoros : Waking(d) => coro[d] # c
  BY Zenon, <1>1, UserUnreferenced
<1> HIDE DEF c
<1>3. TypeOK'
  BY ZenonT(40), <1>1 DEF TypeOK, UserPC, StateOrJunk, CoroState, c
<1>4. Labels' /\ CurrentCoro' /\ SlotExclusive' /\ Places' /\ NotLost'
  <2>1. StepInPlace(c, "push")
    BY ZenonT(40), <1>1, <1>2 DEF StepInPlace, UserPC, TypeOK, c
  <2> QED
    BY Zenon, <1>1, <2>1, NothingMoves
<1>5. \A d \in AllCoros : Waking(d)' <=> Waking(d)
  BY ZenonT(40), <1>1 DEF Waking, TypeOK, c
<1>5a. OthersKept(c)
  BY ZenonT(90), <1>1, <1>5 DEF OthersKept, TypeOK, AllCoros, c
<1>6. Pointers'
  <2>1. Pointers /\ coro' = coro
    BY Zenon
  <2>2. \A d \in Coros : pc'[d] = "cmpxchg" => pc[d] = "cmpxchg"
    BY ZenonT(40), <1>1 DEF TypeOK, AllCoros, c
  <2> QED
    BY Zenon, <1>5, <2>1, <2>2, PointersKept
<1>7. WaitRecords'
  <2>1. pc'[c] = "push" /\ wait'[c] = "timer" /\ state'[c] = "BLOCKING" /\ c \notin waiter'
    BY ZenonT(40), <1>1, <1>2 DEF TypeOK, c
  <2>2. WaitRecords
    BY Zenon
  <2>3. ASSUME NEW d \in Coros, d = c PROVE WaitRecords!(d)'
    <3> HIDE SchedulerAssumption, Parts DEF sched_wait
    <3> QED
      BY <2>1, <2>3 DEF Asleep
  <2> QED
    BY ZenonT(40), <1>1, <1>5a, <2>2, <2>3, RecordsOfOthers
<1>8. Registrations'
  <2>1. /\ interest' = interest /\ armed' = armed /\ batch' = batch
        /\ \A u \in Threads : glock # u => glock' # u
    BY Zenon, <1>1 DEF c
  <2>2. /\ \A d \in Coros : d # c => fd'[d] = fd[d]
        /\ \A d \in Coros : d # c /\ wait'[c] = "event" /\ wait[d] = "event" =>
              fd[d] # fd'[c]
    BY ZenonT(40), <1>1, <1>2 DEF TypeOK, c
  <2> QED
    BY Zenon, <1>1, <1>2, <1>5a, <2>1, <2>2, RegistrationsKept
<1>9. Timers'
  BY ZenonT(40), <1>1, <1>2 DEF Timers, TypeOK, AllCoros, c
<1>10. Wakers'
  BY Zenon, <1>1, <1>2, <1>5a, WakersKept
<1>11. Woken'
  <2>1. \A d \in Coros : BeingScheduled(d)' <=> BeingScheduled(d)
    BY ZenonT(40), <1>1 DEF BeingScheduled, TypeOK, c
  <2>2. \A d \in Coros : EventWaker(d)' <=> EventWaker(d)
    BY Zenon DEF EventWaker
  <2> QED
    BY <1>1, <2>1, <2>2 DEF Woken, HasWaker, TypeOK, Suspending, c
<1> QED
  BY Zenon, <1>3, <1>4, <1>6, <1>7, <1>8, <1>9, <1>10, <1>11 DEF IInv

\* Taking gsched->lock in sched_wait().
LEMMA Keep_lock_to_push ==
    ASSUME IInv, NEW t \in Threads, lock_to_push(t)
    PROVE  IInv'
<1> DEFINE c == stack[t]
<1> USE SchedulerAssumption, Parts
    DEF lock_to_push, Goto, cpuVars, waitVars, epollVars, loopVars
<1>1. /\ c \in Coros /\ c \in AllCoros /\ c \notin Threads /\ pc[c] = "push"
      /\ OnCpu(c)
  BY Zenon, UserAt DEF UserOnly, UserPC
<1>2. wait[c] = "timer" /\ state[c] = "BLOCKING" /\ c \notin timer_heap
  BY Zenon, <1>1 DEF WaitRecords, Timers, Suspending
<1> HIDE DEF c
<1>3. TypeOK'
  BY Zenon, <1>1 DEF TypeOK, UserPC, c
<1>4. Labels' /\ CurrentCoro' /\ SlotExclusive' /\ Places' /\ NotLost'
  <2>1. StepInPlace(c, "pushing")
    BY Zenon, <1>1, SchedulerAssumption DEF StepInPlace, UserPC, TypeOK, c
  <2> QED
    BY Zenon, <1>1, <2>1, NothingMoves
<1>5. \A d \in AllCoros : Waking(d)' <=> Waking(d)
  BY ZenonT(40), <1>1 DEF Waking, TypeOK, c
<1>5a. OthersKept(c)
  BY ZenonT(90), <1>1, <1>5 DEF OthersKept, TypeOK, AllCoros, c
<1>6. Pointers'
  <2>1. Pointers /\ coro' = coro
    BY Zenon
  <2>2. \A d \in Coros : pc'[d] = "cmpxchg" => pc[d] = "cmpxchg"
    BY Zenon, <1>1 DEF TypeOK, AllCoros, c
  <2> QED
    BY Zenon, <1>5, <2>1, <2>2, PointersKept
<1>7. WaitRecords'
  <2>1. /\ pc'[c] = "pushing" /\ wait'[c] = wait[c] /\ waiter' = waiter
        /\ state'[c] = state[c] /\ WaitRecords!(c)
    <3>1. WaitRecords!(c)
      BY ZenonT(40), <1>1 DEF WaitRecords
    <3>2. /\ pc'[c] = "pushing" /\ wait'[c] = wait[c] /\ waiter' = waiter
          /\ state'[c] = state[c]
      BY ZenonT(40), <1>1, <1>2 DEF TypeOK, c
    <3> QED
      BY ZenonT(40), <3>1, <3>2
  <2>2. WaitRecords
    BY Zenon
  <2>3. ASSUME NEW d \in Coros, d = c PROVE WaitRecords!(d)'
    <3> HIDE SchedulerAssumption, Parts DEF lock_to_push
    <3> QED
      BY <1>1, <1>2, <2>1, <2>3
  <2> QED
    BY ZenonT(40), <1>1, <1>5a, <2>2, <2>3, RecordsOfOthers
<1>8. Registrations'
  <2>1. \A g \in Fds : interest[g] # c
    BY Zenon, <1>1, <1>2 DEF Registrations
  <2>2. \A u \in Threads : c \notin batch[u]
    <3>1. fd[c] \in Fds
      BY Zenon, <1>1 DEF TypeOK
    <3>2. \A u \in Threads : \A d \in batch[u] : interest[fd[d]] = d
      BY Zenon DEF Registrations
    <3> QED
      BY ZenonT(40), <2>1, <3>1, <3>2
  <2>3. /\ interest' = interest /\ armed' = armed /\ batch' = batch
        /\ \A u \in Threads : glock # u => glock' # u
    BY Zenon, <1>1 DEF c
  <2>4. /\ \A d \in Coros : d # c => fd'[d] = fd[d]
        /\ \A d \in Coros : d # c /\ wait'[c] = "event" /\ wait[d] = "event" =>
              fd[d] # fd'[c]
    BY ZenonT(40), <1>1, <1>2 DEF TypeOK, c
  <2> QED
    BY Zenon, <1>1, <2>1, <2>2, <1>5a, <2>3, <2>4, RegistrationsKept
<1>9. Timers'
  BY ZenonT(90), <1>1, <1>2 DEF Timers, TypeOK, AllCoros, c
<1>10. Wakers'
  BY ZenonT(40), <1>1, <1>2, <1>5 DEF Wakers, Pointers, Waking, TypeOK, AllCoros, Suspending, c
<1>11. Woken'
  <2>1. \A d \in Coros : HasWaker(d)' <=> HasWaker(d)
    BY ZenonT(40), <1>1 DEF HasWaker, EventWaker, BeingScheduled, TypeOK, c
  <2> QED
    BY <1>1, <2>1 DEF Woken, TypeOK, Suspending, c
<1> QED
  BY Zenon, <1>3, <1>4, <1>6, <1>7, <1>8, <1>9, <1>10, <1>11 DEF IInv

\* heap_push(): the timer wakes the caller and nobody else.
LEMMA Keep_heap_push ==
    ASSUME IInv, NEW t \in Threads, heap_push(t)
    PROVE  IInv'
<1> DEFINE c == stack[t]
<1> USE SchedulerAssumption, Parts
    DEF heap_push, Goto, cpuVars, waitVars, epollVars, loopVars
<1>1. /\ c \in Coros /\ c \in AllCoros /\ c \notin Threads /\ pc[c] = "pushing"
      /\ OnCpu(c)
  BY Zenon, UserAt DEF UserOnly, UserPC
<1>2. wait[c] = "timer" /\ state[c] = "BLOCKING" /\ c \notin timer_heap
  BY Zenon, <1>1 DEF WaitRecords, Timers, Suspending
<1> HIDE DEF c
<1>3. TypeOK'
  BY Zenon, <1>1 DEF TypeOK, UserPC, c
<1>4. Labels' /\ CurrentCoro' /\ SlotExclusive' /\ Places' /\ NotLost'
  <2>1. StepInPlace(c, "suspend")
    BY Zenon, <1>1, SchedulerAssumption DEF StepInPlace, UserPC, TypeOK, c
  <2> QED
    BY Zenon, <1>1, <2>1, NothingMoves
<1>5. \A d \in AllCoros : Waking(d)' <=> Waking(d)
  BY Zenon, <1>1 DEF Waking, TypeOK, c
<1>5a. OthersKept(c)
  BY ZenonT(90), <1>1, <1>5 DEF OthersKept, TypeOK, AllCoros, c
<1>6. Pointers'
  <2>1. Pointers /\ coro' = coro
    BY Zenon
  <2>2. \A d \in Coros : pc'[d] = "cmpxchg" => pc[d] = "cmpxchg"
    BY ZenonT(40), <1>1 DEF TypeOK, AllCoros, c
  <2> QED
    BY Zenon, <1>5, <2>1, <2>2, PointersKept
<1>7. WaitRecords'
  <2>1. /\ pc'[c] = "suspend" /\ wait'[c] = wait[c] /\ waiter' = waiter
        /\ state'[c] = state[c] /\ WaitRecords!(c)
    <3>1. WaitRecords!(c)
      BY ZenonT(40), <1>1 DEF WaitRecords
    <3>2. /\ pc'[c] = "suspend" /\ wait'[c] = wait[c] /\ waiter' = waiter
          /\ state'[c] = state[c]
      BY ZenonT(40), <1>1, <1>2 DEF TypeOK, c
    <3> QED
      BY ZenonT(40), <3>1, <3>2
  <2>2. WaitRecords
    BY Zenon
  <2>3. ASSUME NEW d \in Coros, d = c PROVE WaitRecords!(d)'
    <3> HIDE SchedulerAssumption, Parts DEF heap_push
    <3> QED
      BY <1>1, <1>2, <2>1, <2>3
  <2> QED
    BY ZenonT(40), <1>1, <1>5a, <2>2, <2>3, RecordsOfOthers
<1>8. Registrations'
  <2>1. \A g \in Fds : interest[g] # c
    BY Zenon, <1>1, <1>2 DEF Registrations
  <2>2. \A u \in Threads : c \notin batch[u]
    <3>1. fd[c] \in Fds
      BY Zenon, <1>1 DEF TypeOK
    <3>2. \A u \in Threads : \A d \in batch[u] : interest[fd[d]] = d
      BY Zenon DEF Registrations
    <3> QED
      BY ZenonT(40), <2>1, <3>1, <3>2
  <2>3. /\ interest' = interest /\ armed' = armed /\ batch' = batch
        /\ \A u \in Threads : glock # u => glock' # u
    BY Zenon, <1>1 DEF c
  <2>4. /\ \A d \in Coros : d # c => fd'[d] = fd[d]
        /\ \A d \in Coros : d # c /\ wait'[c] = "event" /\ wait[d] = "event" =>
              fd[d] # fd'[c]
    BY ZenonT(40), <1>1, <1>2 DEF TypeOK, c
  <2> QED
    BY Zenon, <1>1, <2>1, <2>2, <1>5a, <2>3, <2>4, RegistrationsKept
<1>9. Timers'
  BY <1>1, <1>2 DEF Timers, TypeOK, AllCoros, Suspending, Asleep, c
<1>10. Wakers'
  BY ZenonT(40), <1>1, <1>2, <1>5 DEF Wakers, Pointers, Waking, TypeOK, AllCoros, Suspending, c
<1>11. Woken'
  <2>1. HasWaker(c)' /\ \A d \in Coros : HasWaker(d) => HasWaker(d)'
    BY ZenonT(40), <1>1 DEF HasWaker, EventWaker, BeingScheduled, TypeOK, c
  <2> QED
    BY <1>1, <1>2, <2>1 DEF Woken, TypeOK, Suspending, Asleep, c
<1> QED
  BY Zenon, <1>3, <1>4, <1>6, <1>7, <1>8, <1>9, <1>10, <1>11 DEF IInv

\* Calling sched_suspend() without a wait record.
LEMMA Keep_call_sched_suspend ==
    ASSUME IInv, NEW t \in Threads, call_sched_suspend(t)
    PROVE  IInv'
<1> DEFINE c == stack[t]
<1> USE SchedulerAssumption, Parts
    DEF call_sched_suspend, Goto, cpuVars, waitVars, epollVars, loopVars, timerVars
<1>1. /\ c \in Coros /\ c \in AllCoros /\ c \notin Threads /\ pc[c] = "user"
      /\ OnCpu(c)
  BY Zenon, UserAt DEF UserOnly, UserPC
<1>2. /\ wait[c] = "none" /\ c \notin waiter /\ c \notin timer_heap
      /\ state[c] # "BLOCKED"
      /\ \A g \in Fds : interest[g] # c
      /\ \A u \in Threads : c \notin batch[u]
      /\ \A d \in AllCoros : Waking(d) => coro[d] # c
  BY Zenon, <1>1, UserUnreferenced
<1> HIDE DEF c
<1>3. TypeOK'
  BY Zenon, <1>1 DEF TypeOK, UserPC, c
<1>4. Labels' /\ CurrentCoro' /\ SlotExclusive' /\ Places' /\ NotLost'
  <2>1. StepInPlace(c, "suspend")
    BY Zenon, <1>1, SchedulerAssumption DEF StepInPlace, UserPC, TypeOK, c
  <2> QED
    BY Zenon, <1>1, <2>1, NothingMoves
<1>5. \A d \in AllCoros : Waking(d)' <=> Waking(d)
  BY ZenonT(40), <1>1 DEF Waking, TypeOK, c
<1>5a. OthersKept(c)
  BY ZenonT(90), <1>1, <1>5 DEF OthersKept, TypeOK, AllCoros, c
<1>6. Pointers'
  <2>1. Pointers /\ coro' = coro
    BY Zenon
  <2>2. \A d \in Coros : pc'[d] = "cmpxchg" => pc[d] = "cmpxchg"
    BY Zenon, <1>1 DEF TypeOK, AllCoros, c
  <2> QED
    BY Zenon, <1>5, <2>1, <2>2, PointersKept
<1>7. WaitRecords'
  <2>1. /\ pc'[c] = "suspend" /\ wait'[c] = wait[c] /\ waiter' = waiter
        /\ state'[c] = state[c] /\ WaitRecords!(c)
    <3>1. WaitRecords!(c)
      BY ZenonT(40), <1>1 DEF WaitRecords
    <3>2. /\ pc'[c] = "suspend" /\ wait'[c] = wait[c] /\ waiter' = waiter
          /\ state'[c] = state[c]
      BY ZenonT(40), <1>1, <1>2 DEF TypeOK, c
    <3> QED
      BY ZenonT(40), <3>1, <3>2
  <2>2. WaitRecords
    BY Zenon
  <2>3. ASSUME NEW d \in Coros, d = c PROVE WaitRecords!(d)'
    <3> HIDE SchedulerAssumption, Parts DEF call_sched_suspend
    <3> QED
      BY <1>1, <1>2, <2>1, <2>3
  <2> QED
    BY ZenonT(40), <1>1, <1>5a, <2>2, <2>3, RecordsOfOthers
<1>8. Registrations'
  <2>1. /\ interest' = interest /\ armed' = armed /\ batch' = batch
        /\ \A u \in Threads : glock # u => glock' # u
    BY Zenon, <1>1 DEF c
  <2>2. /\ \A d \in Coros : d # c => fd'[d] = fd[d]
        /\ \A d \in Coros : d # c /\ wait'[c] = "event" /\ wait[d] = "event" =>
              fd[d] # fd'[c]
    BY ZenonT(40), <1>1, <1>2 DEF TypeOK, c
  <2> QED
    BY Zenon, <1>1, <1>2, <1>5a, <2>1, <2>2, RegistrationsKept
<1>9. Timers'
  BY Zenon, <1>1, <1>2 DEF Timers, TypeOK, AllCoros, c
<1>10. Wakers'
  BY Zenon, <1>1, <1>2, <1>5a, WakersKept
<1>11. Woken'
  <2>1. \A d \in Coros : HasWaker(d)' <=> HasWaker(d)
    BY ZenonT(40), <1>1 DEF HasWaker, EventWaker, BeingScheduled, TypeOK, c
  <2> QED
    BY <1>1, <1>2, <2>1 DEF Woken, TypeOK, c
<1> QED
  BY Zenon, <1>3, <1>4, <1>6, <1>7, <1>8, <1>9, <1>10, <1>11 DEF IInv

\* The end of a wait: nothing refers to the wait record when it dies.
LEMMA Keep_resume ==
    ASSUME IInv, NEW t \in Threads, resume(t)
    PROVE  IInv'
<1> DEFINE c == stack[t]
<1> USE SchedulerAssumption, Parts
    DEF resume, Goto, cpuVars, loopVars
<1>1. /\ c \in Coros /\ c \in AllCoros /\ c \notin Threads /\ pc[c] = "resume"
      /\ OnCpu(c)
  BY Zenon, UserAt DEF UserOnly, UserPC
<1>2. /\ state[c] \notin Asleep /\ c \notin waiter /\ c \notin timer_heap
      /\ fd[c] \in Fds /\ \A u \in Threads : c \notin batch[u]
  <2>1. state[c] \notin Asleep
    BY Zenon, <1>1 DEF WaitRecords, Places, Asleep
  <2>2. c \notin waiter /\ c \notin timer_heap /\ fd[c] \in Fds
    <3>1. fd[c] \in Fds
      BY Zenon, <1>1 DEF TypeOK
    <3>2. c \notin waiter
      BY Zenon, <1>1, <2>1 DEF WaitRecords
    <3>3. c \notin timer_heap
      BY Zenon, <2>1 DEF Timers
    <3> QED
      BY Zenon, <3>1, <3>2, <3>3
  <2>3. \A u \in Threads : c \notin batch[u]
    BY Zenon, <2>2 DEF Registrations
  <2> QED
    BY Zenon, <2>1, <2>2, <2>3
<1>2a. \A d \in AllCoros : Waking(d) => coro[d] # c
  BY ZenonT(40), <1>1, <1>2 DEF Wakers, Waking, Labels, AllCoros, LoopPC
<1> HIDE DEF c
<1>3. TypeOK'
  BY ZenonT(60), <1>1, <1>2 DEF TypeOK, UserPC, platform_poll_unregister, c
<1>4. Labels' /\ CurrentCoro' /\ SlotExclusive' /\ Places' /\ NotLost'
  <2>1. StepInPlace(c, "user")
    BY Zenon, <1>1, SchedulerAssumption DEF StepInPlace, UserPC, TypeOK, c
  <2> QED
    BY Zenon, <1>1, <2>1, NothingMoves
<1>5. \A d \in AllCoros : Waking(d)' <=> Waking(d)
  BY Zenon, <1>1 DEF Waking, TypeOK, c
<1>5a. OthersKept(c)
  BY ZenonT(90), <1>1, <1>5 DEF OthersKept, TypeOK, AllCoros, c
<1>6. Pointers'
  <2>1. Pointers /\ coro' = coro
    BY Zenon
  <2>2. \A d \in Coros : pc'[d] = "cmpxchg" => pc[d] = "cmpxchg"
    BY ZenonT(40), <1>1 DEF TypeOK, AllCoros, c
  <2> QED
    BY Zenon, <1>5, <2>1, <2>2, PointersKept
<1>7. WaitRecords'
  <2>1. /\ pc'[c] = "user" /\ wait'[c] = "none" /\ c \notin waiter'
        /\ state'[c] = state[c] /\ WaitRecords!(c)
    <3>1. WaitRecords!(c)
      BY ZenonT(40), <1>1 DEF WaitRecords
    <3>2. /\ pc'[c] = "user" /\ wait'[c] = "none" /\ c \notin waiter'
          /\ state'[c] = state[c]
      BY ZenonT(40), <1>1, <1>2 DEF TypeOK, c
    <3> QED
      BY ZenonT(40), <3>1, <3>2
  <2>2. WaitRecords
    BY Zenon
  <2>3. ASSUME NEW d \in Coros, d = c PROVE WaitRecords!(d)'
    <3> HIDE SchedulerAssumption, Parts DEF resume
    <3> QED
      BY <1>1, <1>2, <2>1, <2>3 DEF Asleep
  <2> QED
    BY ZenonT(40), <1>1, <1>5a, <2>2, <2>3, RecordsOfOthers
<1>8. Registrations'
  <2>1. CASE wait[c] = "event"
    <3>1. \A d \in Coros : d \in waiter => d # c /\ wait[d] = "event"
      BY Zenon, <1>2 DEF WaitRecords
    <3>2. \A u \in Threads : \A d \in batch[u] :
             d \in Coros /\ d # c /\ fd[d] # fd[c] /\ fd[d] \in Fds
      <4>1. TypeOK /\ Registrations
        BY Zenon
      <4> HIDE Parts DEF resume, Goto, cpuVars, loopVars
      <4>2. \A u \in Threads : \A d \in batch[u] : d \in Coros /\ fd[d] \in Fds
        BY Zenon, <4>1 DEF TypeOK
      <4>3. \A u \in Threads : \A d \in batch[u] : d # c /\ wait[d] = "event"
        BY Zenon, <1>2, <3>1, <4>1, <4>2 DEF Registrations
      <4>4. \A d, e \in Coros :
               wait[d] = "event" /\ wait[e] = "event" /\ fd[d] = fd[e] => d = e
        BY Zenon, <4>1 DEF Registrations
      <4> QED
        BY ZenonT(40), <1>1, <2>1, <4>2, <4>3, <4>4
    <3>3. \A f \in Fds : interest'[f] = IF f = fd[c] THEN NoCoro ELSE interest[f]
      BY ZenonT(40), <1>1, <2>1 DEF platform_poll_unregister, TypeOK, c
    <3>4. armed' = armed \ {fd[c]}
      BY Zenon, <2>1 DEF platform_poll_unregister, c
    <3>5. /\ wait' = [wait EXCEPT ![c] = "none"] /\ fd' = fd /\ batch' = batch
          /\ pc' = [pc EXCEPT ![c] = "user"] /\ waiter' = waiter /\ glock' = glock
      BY Zenon, <1>1, <2>1 DEF platform_poll_unregister, TypeOK, waitVars, c
    <3>6. TypeOK /\ Registrations
      BY Zenon
    <3> HIDE Parts DEF resume, Goto, cpuVars, loopVars
    <3>7. \A f \in Fds : \A d \in Coros : interest'[f] = d =>
             wait'[d] = "event" /\ fd'[d] = f /\ pc'[d] \in Suspending
      <4>1. \A f \in Fds : \A d \in Coros : interest'[f] = d =>
               d # c /\ wait[d] = "event" /\ fd[d] = f /\ pc[d] \in Suspending
        <5>1. \A f \in Fds : \A d \in Coros : interest[f] = d =>
                 wait[d] = "event" /\ fd[d] = f /\ pc[d] \in Suspending
          BY Zenon, <3>6 DEF Registrations
        <5>2. NoCoro \notin Coros
          BY Zenon DEF AllCoros
        <5> QED
          BY SMTT(30), <3>3, <5>1, <5>2
      <4>2. \A d \in Coros : d # c => wait'[d] = wait[d] /\ pc'[d] = pc[d]
        BY Zenon, <3>5, <3>6 DEF TypeOK, AllCoros
      <4> QED
        BY <3>5, <4>1, <4>2
    <3>8. \A f \in armed' : interest'[f] \in waiter'
      BY ZenonT(40), <3>3, <3>4, <3>5, <3>6 DEF Registrations, TypeOK
    <3>9. \A d, e \in Coros :
             wait'[d] = "event" /\ wait'[e] = "event" /\ fd'[d] = fd'[e] => d = e
      BY <3>5, <3>6 DEF Registrations, TypeOK
    <3>10. \A u \in Threads : \A d \in batch'[u] :
             d \in waiter' /\ interest'[fd'[d]] = d /\ fd'[d] \notin armed'
      <4>1. \A u \in Threads : \A d \in batch[u] :
               d \in waiter /\ interest[fd[d]] = d /\ fd[d] \notin armed
        BY Zenon, <3>6 DEF Registrations
      <4> QED
        BY ZenonT(40), <3>2, <3>3, <3>4, <3>5, <4>1
    <3>11. \A u \in Threads : pc'[u] = pc[u]
      BY <1>1, <3>5, <3>6 DEF TypeOK
    <3>12. /\ \A u, v \in Threads : u # v => batch'[u] \cap batch'[v] = {}
           /\ \A u \in Threads :
                 batch'[u] # {} => pc'[u] \in {"events", "schedule"} /\ glock' # u
      <4>1. /\ \A u, v \in Threads : u # v => batch[u] \cap batch[v] = {}
            /\ \A u \in Threads :
                  batch[u] # {} => pc[u] \in {"events", "schedule"} /\ glock # u
        BY Zenon, <3>6 DEF Registrations
      <4> QED
        BY ZenonT(40), <3>5, <3>11, <4>1
    <3> QED
      BY ZenonT(40), <3>7, <3>8, <3>9, <3>10, <3>12 DEF Registrations
  <2>2. CASE wait[c] # "event"
    <3>1. \A g \in Fds : interest[g] # c
      BY ZenonT(40), <1>1, <2>2 DEF Registrations
    <3>2. /\ interest' = interest /\ armed' = armed /\ batch' = batch
          /\ glock' = glock /\ fd' = fd /\ wait'[c] = "none"
      BY ZenonT(40), <1>1, <2>2 DEF TypeOK, c
    <3> QED
      BY ZenonT(40), <1>1, <1>2, <1>5a, <3>1, <3>2, RegistrationsKept
  <2> QED
    BY ZenonT(40), <2>1, <2>2
<1>9. Timers'
  BY ZenonT(60), <1>1, <1>2 DEF Timers, TypeOK, AllCoros, c
<1>10. Wakers'
  BY Zenon, <1>1, <1>2a, <1>5a, WakersKept
<1>11. Woken'
  <2>1. \A d \in Coros : BeingScheduled(d)' <=> BeingScheduled(d)
    BY ZenonT(60), <1>1 DEF BeingScheduled, TypeOK, c
  <2>2. \A d \in Coros : d # c /\ EventWaker(d) => EventWaker(d)'
    <3>1. CASE wait[c] = "event"
      <4>1. \A f \in Fds : interest'[f] = IF f = fd[c] THEN NoCoro ELSE interest[f]
        BY Zenon, <1>1, <3>1 DEF platform_poll_unregister, TypeOK, c
      <4>2. armed' = armed \ {fd[c]}
        BY Zenon, <3>1 DEF platform_poll_unregister, c
      <4>3. /\ fd' = fd /\ batch' = batch /\ waiter' = waiter /\ ready' = ready
            /\ events' = events \ {c}
        BY Zenon, <1>1, <3>1 DEF waitVars, c
      <4>4. TypeOK /\ Registrations
        BY Zenon
      <4> HIDE Parts DEF resume, Goto, cpuVars, loopVars
      <4> QED
        BY <1>1, <1>2, <3>1, <4>1, <4>2, <4>3, <4>4 DEF EventWaker, Registrations, TypeOK
    <3>2. CASE wait[c] # "event"
      BY Zenon, <3>2 DEF EventWaker, c
    <3> QED
      BY Zenon, <3>1, <3>2
  <2>3. \A d \in Coros : d # c /\ HasWaker(d) => HasWaker(d)'
    BY Zenon, <2>1, <2>2 DEF HasWaker
  <2> QED
    BY <1>1, <2>3 DEF Woken, TypeOK, c
<1> QED
  BY Zenon, <1>3, <1>4, <1>6, <1>7, <1>8, <1>9, <1>10, <1>11 DEF IInv

\* What is said about waits and wake-ups, in a step that changes no wait, no state
\* and no waker.
SameWaits ==
    /\ UNCHANGED <<waitVars, epollVars, batch, timer_heap, expired, glock>>
    /\ \A d \in AllCoros : (Waking(d)' <=> Waking(d)) /\ (Waking(d) => coro'[d] = coro[d])
    /\ \A u \in Threads : Waking(u) \/ batch[u] # {} => pc'[u] = pc[u]
    /\ \A d \in Coros :
          \/ pc'[d] = pc[d] /\ state'[d] = state[d]
          \/ pc[d] = "suspend" /\ pc'[d] = "cmpxchg" /\ state'[d] = state[d]
          \/ pc[d] = "fetch_add" /\ pc'[d] = "schedule" /\ state'[d] = state[d]
          \/ /\ pc[d] = "cmpxchg" /\ pc'[d] = "resume"
             /\ state'[d] = IF state[d] = "BLOCKING" THEN "BLOCKED" ELSE state[d]

\* Such a step preserves it.
LEMMA WaitsKept ==
    ASSUME IInv, SameWaits
    PROVE  WaitRecords' /\ Registrations' /\ Timers' /\ Wakers' /\ Woken'
<1> USE SchedulerAssumption DEF SameWaits, waitVars, epollVars
<1>0. /\ \A d \in Coros : d \in AllCoros
      /\ \A u \in Threads : u \in AllCoros
  BY Zenon DEF AllCoros
<1>1. \A d \in Coros :
        /\ pc'[d] \in Suspending <=> pc[d] \in Suspending
        /\ state'[d] \in Asleep <=> state[d] \in Asleep
        /\ pc[d] \notin {"suspend", "cmpxchg", "fetch_add"} =>
              pc'[d] = pc[d] /\ state'[d] = state[d]
  BY ZenonT(40) DEF Suspending, Asleep
<1>2. WaitRecords'
  <2>1. \A d \in Coros : Waking(d) => Waking(d)' /\ coro'[d] = coro[d]
    BY Zenon, <1>0
  <2>2. WaitRecords /\ wait' = wait /\ waiter' = waiter
    BY Zenon, Parts
  <2>3. \A d \in Coros :
          \/ pc'[d] = pc[d] /\ state'[d] = state[d]
          \/ pc[d] = "suspend" /\ pc'[d] = "cmpxchg" /\ state'[d] = state[d]
          \/ pc[d] = "fetch_add" /\ pc'[d] = "schedule" /\ state'[d] = state[d]
          \/ /\ pc[d] = "cmpxchg" /\ pc'[d] = "resume"
             /\ state'[d] = IF state[d] = "BLOCKING" THEN "BLOCKED" ELSE state[d]
    BY ZenonT(40)
  <2> HIDE DEF SameWaits
  <2> QED
    BY <2>1, <2>2, <2>3 DEF WaitRecords, Asleep
<1>3. Registrations'
  <2>1. Registrations
    BY Zenon, Parts
  <2>2. \A f \in Fds : \A c \in Coros : interest'[f] = c =>
           wait'[c] = "event" /\ fd'[c] = f /\ pc'[c] \in Suspending
    <3>1. \A f \in Fds : \A c \in Coros : interest[f] = c =>
             wait[c] = "event" /\ fd[c] = f /\ pc[c] \in Suspending
      BY Zenon, <2>1 DEF Registrations
    <3>2. interest' = interest /\ wait' = wait /\ fd' = fd
      BY Zenon
    <3> HIDE SchedulerAssumption DEF SameWaits
    <3> QED
      BY ZenonT(60), <1>1, <3>1, <3>2
  <2>3. \A u \in Threads :
           batch'[u] # {} => pc'[u] \in {"events", "schedule"} /\ glock' # u
    <3>1. \A u \in Threads : batch[u] # {} => pc[u] \in {"events", "schedule"} /\ glock # u
      BY Zenon, <2>1 DEF Registrations
    <3>2. /\ batch' = batch /\ glock' = glock
          /\ \A u \in Threads : batch[u] # {} => pc'[u] = pc[u]
      BY ZenonT(40)
    <3> HIDE SchedulerAssumption DEF SameWaits
    <3> QED
      BY ZenonT(60), <3>1, <3>2
  <2>4. UNCHANGED <<wait, fd, waiter, interest, armed, batch>>
    BY Zenon
  <2> HIDE SchedulerAssumption DEF SameWaits
  <2>5. /\ \A f \in armed' : interest'[f] \in waiter'
        /\ \A u \in Threads : \A c \in batch'[u] :
              c \in waiter' /\ interest'[fd'[c]] = c /\ fd'[c] \notin armed'
    BY ZenonT(40), <2>1, <2>4 DEF Registrations
  <2>6. /\ \A c, d \in Coros :
              wait'[c] = "event" /\ wait'[d] = "event" /\ fd'[c] = fd'[d] => c = d
        /\ \A u, v \in Threads : u # v => batch'[u] \cap batch'[v] = {}
    BY ZenonT(40), <2>1, <2>4 DEF Registrations
  <2> QED
    BY ZenonT(40), <2>2, <2>3, <2>5, <2>6 DEF Registrations
<1>4. Timers'
  BY ZenonT(40), <1>0, <1>1, Parts DEF Timers, TypeOK
<1>5. Wakers'
  <2>1. \A d \in AllCoros : Waking(d) => coro[d] \in Coros
    BY Zenon, Parts DEF Pointers
  <2>2. \A u \in Threads : pc'[u] = "schedule" =>
           Waking(u) /\ pc[u] = "schedule" /\ coro'[u] = coro[u]
    BY Zenon, <1>0 DEF Waking
  <2>3. Wakers
    BY Zenon, Parts
  <2>4. \A d \in AllCoros : Waking(d)' =>
           Waking(d) /\ coro'[d] = coro[d] /\ coro[d] \in Coros
    BY ZenonT(40), <2>1
  <2>5. UNCHANGED <<wait, waiter, events, timer_heap, expired>>
    BY Zenon
  <2>6. \A d \in Coros : pc[d] = "user" => pc'[d] = pc[d] /\ state'[d] = state[d]
    BY ZenonT(40), <1>1
  <2> HIDE SchedulerAssumption DEF SameWaits
  <2>7. /\ \A d \in Coros : Waking(d)' =>
              /\ pc'[coro'[d]] = "user" /\ state'[coro'[d]] = "BLOCKED"
              /\ coro'[d] # MainCoro
        /\ \A d, e \in AllCoros :
              Waking(d)' /\ Waking(e)' /\ coro'[d] = coro'[e] => d = e
    BY <1>0, <2>3, <2>4, <2>6 DEF Wakers
  <2>8. ASSUME NEW u \in Threads, pc'[u] = "schedule"
        PROVE  LET c == coro'[u] IN
               /\ wait'[c] # "none" /\ pc'[c] \in Suspending /\ state'[c] \in Asleep
               /\ c \notin waiter' /\ c \notin timer_heap'
               /\ wait'[c] = "timer" => c \in expired'
               /\ wait'[c] = "event" => c \in events'
    <3>1. pc[u] = "schedule" /\ coro'[u] = coro[u] /\ coro[u] \in Coros
      BY Zenon, <1>0, <2>1, <2>2, <2>8
    <3> QED
      BY <1>1, <2>3, <2>5, <3>1 DEF Wakers
  <2> QED
    BY ZenonT(40), <2>7, <2>8 DEF Wakers
<1>6. Woken'
  <2>1. \A d \in Coros : BeingScheduled(d)' <=> BeingScheduled(d)
    BY Zenon DEF BeingScheduled, Waking
  <2>2. \A d \in Coros : HasWaker(d)' <=> HasWaker(d)
    BY Zenon, <2>1 DEF HasWaker, EventWaker
  <2> QED
    BY Zenon, <1>1, <2>2, Parts DEF Woken
<1> QED
  BY Zenon, <1>2, <1>3, <1>4, <1>5, <1>6

----------------------------------------------------------------------------
(* The event loop preserves the invariant.                                 *)

\* A step of event loop t that changes its locals only.
QuietLoopStep(t, l) ==
    /\ stack[t] = t /\ t \notin Coros
    /\ pc[t] \in LoopOnly /\ l \in LoopOnly
    /\ batch[t] = {}
    /\ pc' = [pc EXCEPT ![t] = l]
    /\ \A d \in AllCoros : d # t => coro'[d] = coro[d]
    /\ UNCHANGED <<local_count, cpuVars, state, waitVars, epollVars, batch, timerVars>>

\* Such a step preserves the invariant.
LEMMA Keep_QuietLoopStep ==
    ASSUME IInv, TypeOK', NEW t \in Threads, NEW l, QuietLoopStep(t, l)
    PROVE  IInv'
<1>0. /\ stack[t] = t /\ t \notin Coros /\ pc[t] \in LoopOnly /\ l \in LoopOnly /\ batch[t] = {}
      /\ pc' = [pc EXCEPT ![t] = l] /\ \A d \in AllCoros : d # t => coro'[d] = coro[d]
      /\ UNCHANGED <<local_count, run_list, current_coro, stack, state, waitVars, epollVars,
                     batch, timer_heap, expired, glock>>
  BY Zenon DEF QuietLoopStep, cpuVars, timerVars
<1>1. t \in AllCoros /\ OnCpu(t) /\ glock # t
  BY Zenon, <1>0, Parts DEF AllCoros, OnCpu, Labels, LoopOnly, LoopPC
<1>2. pc[t] \notin {"fetch_add", "schedule", "cmpxchg"}
      /\ l \notin {"fetch_add", "schedule", "cmpxchg"} /\ l \in LoopPC
  BY Zenon, <1>0 DEF LoopOnly, LoopPC
<1>3. Labels' /\ CurrentCoro' /\ SlotExclusive' /\ Places' /\ NotLost'
  <2>1. StepInPlace(t, l)
    BY Zenon, <1>0, <1>1, <1>2 DEF StepInPlace
  <2> QED
    BY Zenon, <1>1, <2>1, NothingMoves
<1>4. pc'[t] = l /\ \A d \in AllCoros : d # t => pc'[d] = pc[d]
  BY Zenon, <1>0, <1>1, Parts DEF TypeOK
<1>5. /\ \A d \in AllCoros : Waking(d)' <=> Waking(d)
      /\ \A d \in AllCoros : Waking(d) => coro'[d] = coro[d]
      /\ \A d \in Coros : pc'[d] = pc[d] /\ coro'[d] = coro[d]
  BY Zenon, <1>0, <1>1, <1>2, <1>4 DEF Waking, AllCoros
<1>6. Pointers'
  BY Zenon, <1>1, <1>5, Parts DEF Pointers
<1>7. WaitRecords' /\ Registrations' /\ Timers' /\ Wakers' /\ Woken'
  <2>1. \A u \in Threads : Waking(u) \/ batch[u] # {} => pc'[u] = pc[u]
    BY Zenon, <1>0, <1>2, <1>4 DEF Waking, AllCoros
  <2>2. SameWaits
    BY Zenon, <1>0, <1>5, <2>1 DEF SameWaits
  <2> QED
    BY Zenon, <2>2, WaitsKept
<1> QED
  BY Zenon, <1>3, <1>6, <1>7 DEF IInv

\* sched_poll_timeout() touches local variables only.
LEMMA Keep_sched_poll_timeout ==
    ASSUME IInv, NEW t \in Threads, sched_poll_timeout(t)
    PROVE  IInv'
<1>1. /\ stack[t] = t /\ t \in AllCoros /\ t \notin Coros /\ pc[t] = "loop"
  BY Zenon, LoopAt DEF sched_poll_timeout, LoopOnly, LoopPC
<1>2. batch[t] = {}
  BY Zenon, <1>1, Parts DEF Registrations
<1>3. racy_heap_min \subseteq AllCoros \cup {NoCoro}
  BY Zenon, Parts DEF racy_heap_min, heap_min, TypeOK, AllCoros
<1>4. PICK l \in {"poll", "deref"} : Goto(t, l)
  BY Zenon DEF sched_poll_timeout
<1>5. TypeOK'
  <2>1. timeout' \in [Threads -> Timeouts]
    BY ZenonT(60), Parts DEF sched_poll_timeout, TypeOK, Timeouts
  <2>2. coro' \in [AllCoros -> AllCoros \cup {NoCoro}]
    BY ZenonT(60), <1>3, Parts DEF sched_poll_timeout, TypeOK
  <2>3. pc' \in [AllCoros -> UserPC \cup LoopPC \cup {"free"}]
    BY ZenonT(60), <1>4, Parts DEF Goto, LoopPC, TypeOK
  <2> QED
    BY Zenon, <2>1, <2>2, <2>3, Parts DEF sched_poll_timeout, cpuVars, waitVars,
       epollVars,
       timerVars, TypeOK
<1>6. QuietLoopStep(t, l)
  <2>1. \A d \in AllCoros : d # t => coro'[d] = coro[d]
    BY Zenon, Parts DEF sched_poll_timeout, TypeOK
  <2> QED
    BY Zenon, <1>1, <1>2, <1>4, <2>1 DEF sched_poll_timeout, QuietLoopStep, Goto,
       LoopOnly, LoopPC
<1> QED
  BY Zenon, <1>5, <1>6, Keep_QuietLoopStep

\* timer_expiration() touches local variables only.
LEMMA Keep_timer_expiration ==
    ASSUME IInv, NEW t \in Threads, timer_expiration(t)
    PROVE  IInv'
<1>1. /\ stack[t] = t /\ t \in AllCoros /\ t \notin Coros /\ pc[t] = "deref"
  BY Zenon, LoopAt DEF timer_expiration, LoopOnly, LoopPC
<1>2. batch[t] = {}
  BY Zenon, <1>1, Parts DEF Registrations
<1>3. TypeOK'
  <2>1. timeout' \in [Threads -> Timeouts]
    BY ZenonT(40), Parts DEF timer_expiration, TypeOK
  <2>2. /\ pc' \in [AllCoros -> UserPC \cup LoopPC \cup {"free"}]
        /\ coro' \in [AllCoros -> AllCoros \cup {NoCoro}]
    BY ZenonT(40), Parts DEF timer_expiration, Goto, LoopPC, TypeOK
  <2>3. UNCHANGED <<local_count, cpuVars, state, waitVars, epollVars, batch, full,
                    timerVars>>
    BY Zenon DEF timer_expiration
  <2> QED
    BY ZenonT(40), <2>1, <2>2, <2>3, Parts DEF cpuVars, waitVars, epollVars, timerVars,
       TypeOK
<1>4. QuietLoopStep(t, "poll")
  BY Zenon, <1>1, <1>2, Parts DEF timer_expiration, QuietLoopStep, Goto, LoopOnly, LoopPC,
     TypeOK
<1> QED
  BY Zenon, <1>3, <1>4, Keep_QuietLoopStep

\* The end of a batch of platform_poll_poll() touches local variables only.
LEMMA Keep_poll_done ==
    ASSUME IInv, NEW t \in Threads, poll_done(t)
    PROVE  IInv'
<1>1. /\ stack[t] = t /\ t \in AllCoros /\ t \notin Coros /\ pc[t] = "events"
  BY Zenon, LoopAt DEF poll_done, LoopOnly, LoopPC
<1>2. PICK l \in {"poll", "timers"} : Goto(t, l)
  BY Zenon DEF poll_done
<1>3. TypeOK'
  BY ZenonT(60), <1>2, Parts DEF poll_done, Goto, LoopPC, cpuVars, waitVars, epollVars,
     timerVars, TypeOK
<1>4. QuietLoopStep(t, l)
  BY ZenonT(60), <1>1, <1>2 DEF poll_done, QuietLoopStep, Goto, LoopOnly, LoopPC
<1> QED
  BY Zenon, <1>3, <1>4, Keep_QuietLoopStep

\* heap_empty() without the lock touches local variables only.
LEMMA Keep_check_timers ==
    ASSUME IInv, NEW t \in Threads, check_timers(t)
    PROVE  IInv'
<1>1. /\ stack[t] = t /\ t \in AllCoros /\ t \notin Coros /\ pc[t] = "timers"
  BY Zenon, LoopAt DEF check_timers, LoopOnly, LoopPC
<1>2. batch[t] = {}
  BY Zenon, <1>1, Parts DEF Registrations
<1>3. PICK l \in {"resched", "loop", "lock"} : Goto(t, l)
  BY Zenon DEF check_timers, TimersDone
<1>4. TypeOK'
  BY ZenonT(60), <1>3, Parts DEF check_timers, TimersDone, Timeouts, Goto, LoopPC,
     cpuVars, waitVars, epollVars, timerVars, TypeOK
<1>5. QuietLoopStep(t, l)
  BY Zenon, <1>1, <1>2, <1>3 DEF check_timers, QuietLoopStep, Goto, LoopOnly, LoopPC
<1> QED
  BY Zenon, <1>4, <1>5, Keep_QuietLoopStep

\* epoll_wait(): a reported registration is disabled and its event is in the batch.
LEMMA Keep_epoll_wait ==
    ASSUME IInv, NEW t \in Threads, epoll_wait(t)
    PROVE  IInv'
<1> USE SchedulerAssumption, Parts
    DEF epoll_wait, Goto, cpuVars, waitVars, timerVars
<1>1. /\ stack[t] = t /\ t \in AllCoros /\ t \notin Coros /\ pc[t] = "poll" /\ OnCpu(t)
      /\ batch[t] = {} /\ glock # t
  <2>1. /\ stack[t] = t /\ t \in AllCoros /\ t \notin Coros /\ pc[t] = "poll"
        /\ OnCpu(t)
    BY Zenon, LoopAt DEF LoopOnly, LoopPC
  <2>2. batch[t] = {}
    BY Zenon, <2>1 DEF Registrations
  <2>3. glock # t
    BY Zenon, <2>1 DEF Labels
  <2> QED
    BY Zenon, <2>1, <2>2, <2>3
<1>2. PICK S \in SUBSET (armed \cap ready) :
        /\ disarm(S)
        /\ batch' = [batch EXCEPT ![t] = {interest[f] : f \in S}]
        /\ full' = [full EXCEPT ![t] = Cardinality(S) = MaxEvents]
  BY ZenonT(60)
<1>3. \A f \in S : /\ f \in Fds /\ f \in armed /\ interest[f] \in Coros
                    /\ interest[f] \in waiter /\ fd[interest[f]] = f
  BY ZenonT(40) DEF Registrations, TypeOK
<1>4. TypeOK'
  <2>1. {interest[f] : f \in S} \subseteq Coros
    <3> HIDE SchedulerAssumption, Parts DEF epoll_wait
    <3> QED
      BY <1>3
  <2>2. (Cardinality(S) = MaxEvents) \in BOOLEAN
    BY Zenon
  <2> QED
    BY Zenon, <1>1, <1>2, <2>1, <2>2 DEF disarm, TypeOK, LoopPC
<1>5. Labels' /\ CurrentCoro' /\ SlotExclusive' /\ Places' /\ NotLost'
  <2>1. StepInPlace(t, "events")
    BY Zenon, <1>1 DEF StepInPlace, LoopPC
  <2> HIDE DEF epoll_wait
  <2> QED
    BY Zenon, <1>1, <2>1, NothingMoves
<1>6. /\ \A d \in AllCoros : Waking(d)' <=> Waking(d)
      /\ \A d \in Coros : pc'[d] = pc[d]
      /\ \A u \in Threads : u # t => pc'[u] = pc[u]
      /\ pc'[t] = "events"
  BY ZenonT(40), <1>1 DEF Waking, AllCoros, TypeOK
<1>6a. /\ UNCHANGED <<state, wait, fd, waiter, events, interest, timer_heap, expired, glock>>
       /\ coro' = coro
  BY Zenon
<1>9. /\ \A u \in Threads : u # t => batch'[u] = batch[u]
      /\ batch'[t] = {interest[f] : f \in S}
      /\ armed' = armed \ S
  BY ZenonT(40), <1>2 DEF disarm, TypeOK
<1> HIDE Parts DEF epoll_wait, cpuVars, waitVars, timerVars
<1>7. Pointers'
  BY Zenon, <1>6, <1>6a, Parts DEF Pointers
<1>8. WaitRecords'
  <2>1. WaitRecords /\ \A d \in Coros : d \in AllCoros
    BY Zenon, Parts DEF AllCoros
  <2> QED
    BY Zenon, <1>6, <1>6a, <2>1, RecordsKept
<1>10. Registrations'
  <2>0. Registrations
    BY Zenon, Parts
  <2>1. \A c \in batch'[t] : c \in waiter /\ interest[fd[c]] = c /\ fd[c] \notin armed'
    BY <1>3, <1>9
  <2>2. \A u \in Threads : \A c \in batch'[u] :
           c \in waiter /\ interest[fd[c]] = c /\ fd[c] \notin armed'
    <3>1. \A u \in Threads : \A c \in batch[u] :
             c \in waiter /\ interest[fd[c]] = c /\ fd[c] \notin armed
      BY Zenon, <2>0 DEF Registrations
    <3> QED
      BY Zenon, <1>9, <2>1, <3>1
  <2>3. \A u, v \in Threads : u # v => batch'[u] \cap batch'[v] = {}
    <3>1. \A u \in Threads : u # t => batch[u] \cap batch'[t] = {}
      <4> SUFFICES ASSUME NEW u \in Threads, NEW f \in S, interest[f] \in batch[u] PROVE FALSE
        BY <1>9
      <4>1. fd[interest[f]] = f /\ f \in armed
        BY Zenon, <1>3
      <4>2. fd[interest[f]] \notin armed
        BY Zenon, <2>0 DEF Registrations
      <4> QED
        BY Zenon, <4>1, <4>2
    <3>2. \A u, v \in Threads : u # v => batch[u] \cap batch[v] = {}
      BY Zenon, <2>0 DEF Registrations
    <3> QED
      BY <1>9, <3>1, <3>2
  <2>4. \A u \in Threads : batch'[u] # {} => pc'[u] \in {"events", "schedule"} /\ glock # u
    BY ZenonT(40), <1>1, <1>6, <1>9, <2>0 DEF Registrations
  <2>5. \A f \in armed' : interest[f] \in waiter
    BY ZenonT(40), <1>9, <2>0 DEF Registrations
  <2>6. \A f \in Fds : \A c \in Coros : interest[f] = c =>
           wait[c] = "event" /\ fd[c] = f /\ pc'[c] \in Suspending
    BY <1>6, <2>0 DEF Registrations
  <2>7. \A c, d \in Coros :
           wait[c] = "event" /\ wait[d] = "event" /\ fd[c] = fd[d] => c = d
    BY Zenon, <2>0 DEF Registrations
  <2> QED
    BY ZenonT(90), <1>6a, <2>2, <2>3, <2>4, <2>5, <2>6, <2>7 DEF Registrations
<1>11. Timers'
  BY ZenonT(40), <1>6, <1>6a, Parts DEF Timers, TypeOK
<1>12. Wakers'
  <2>1. Wakers /\ \A d \in AllCoros : Waking(d) => coro[d] \in Coros
    BY Zenon, Parts DEF Pointers
  <2>2. \A u \in Threads : pc'[u] = "schedule" =>
           pc[u] = "schedule" /\ Waking(u) /\ u \in AllCoros
    BY Zenon, <1>6 DEF Waking, AllCoros
  <2>3. \A d \in Coros : d \in AllCoros
    BY Zenon DEF AllCoros
  <2> QED
    BY ZenonT(40), <1>6, <1>6a, <2>1, <2>2, <2>3 DEF Wakers
<1>13. Woken'
  <2>1. \A d \in Coros : BeingScheduled(d)' <=> BeingScheduled(d)
    BY Zenon, <1>6, <1>6a DEF BeingScheduled, Waking
  <2>2. ASSUME NEW d \in Coros, EventWaker(d) PROVE EventWaker(d)'
    <3>1. CASE interest[fd[d]] = d /\ fd[d] \in armed
      <4>1. fd[d] \in S => d \in batch'[t]
        BY ZenonT(40), <1>9, <3>1
      <4>2. fd[d] \notin S => fd[d] \in armed'
        BY Zenon, <1>9, <3>1
      <4> QED
        BY Zenon, <1>6a, <3>1, <4>1, <4>2 DEF EventWaker
    <3>2. ASSUME NEW u \in Threads, d \in batch[u] PROVE d \in batch'[u]
      BY Zenon, <1>1, <1>9, <3>2
    <3> QED
      BY Zenon, <2>2, <3>1, <3>2 DEF EventWaker
  <2>3. \A d \in Coros : HasWaker(d) => HasWaker(d)'
    BY Zenon, <1>6a, <2>1, <2>2 DEF HasWaker
  <2> QED
    BY Zenon, <1>6, <1>6a, <2>3, Parts DEF Woken
<1> QED
  BY Zenon, <1>4, <1>5, <1>7, <1>8, <1>10, <1>11, <1>12, <1>13 DEF IInv

\* sched_poll_event(): the event loop takes over as the waker.
LEMMA Keep_sched_poll_event ==
    ASSUME IInv, NEW t \in Threads, NEW w \in Coros, sched_poll_event(t, w)
    PROVE  IInv'
<1> USE SchedulerAssumption, Parts
    DEF sched_poll_event, Goto, cpuVars, epollVars, timerVars
<1>1. /\ stack[t] = t /\ t \in AllCoros /\ t \notin Coros /\ pc[t] = "events" /\ OnCpu(t)
  BY ZenonT(40), LoopAt DEF LoopOnly, LoopPC
<1>2. /\ w \in waiter /\ interest[fd[w]] = w /\ fd[w] \notin armed /\ glock # t
      /\ fd[w] \in Fds
  BY DEF Registrations, TypeOK
<1>3. /\ wait[w] = "event" /\ state[w] \in Asleep /\ pc[w] \in Suspending
      /\ w \notin timer_heap
  BY ZenonT(90), <1>2 DEF WaitRecords, Registrations, Timers
<1>4. \A d \in AllCoros : Waking(d) => coro[d] # w
  <2>1. \A u \in Threads : pc[u] = "schedule" => coro[u] # w
    BY ZenonT(40), <1>2, <1>3 DEF Wakers
  <2>2. \A d \in Coros : Waking(d) => coro[d] # w
    BY ZenonT(40), <1>3 DEF Wakers, Suspending
  <2>3. \A u \in Threads : Waking(u) => pc[u] = "schedule"
    BY ZenonT(40) DEF Labels, Waking, LoopPC
  <2> QED
    BY ZenonT(40), <2>1, <2>2, <2>3 DEF AllCoros
<1>5. /\ events' = events \cup {w} /\ coro' = [coro EXCEPT ![t] = w]
      /\ pc' = [pc EXCEPT ![t] = "schedule"] /\ waiter' = waiter \ {w}
      /\ batch' = [batch EXCEPT ![t] = @ \ {w}]
  BY Zenon, <1>2
<1>6. TypeOK'
  <2>1. /\ events' \subseteq Coros /\ waiter' \subseteq Coros
        /\ batch' \in [Threads -> SUBSET Coros]
    <3>1. /\ events \subseteq Coros /\ waiter \subseteq Coros /\ w \in Coros
          /\ batch \in [Threads -> SUBSET Coros]
      BY Zenon DEF TypeOK
    <3> HIDE SchedulerAssumption, Parts DEF sched_poll_event
    <3> QED
      BY <1>5, <3>1
  <2>2. /\ pc' \in [AllCoros -> UserPC \cup LoopPC \cup {"free"}]
        /\ coro' \in [AllCoros -> AllCoros \cup {NoCoro}]
    BY ZenonT(40), <1>1, <1>5 DEF TypeOK, LoopPC, AllCoros
  <2> QED
    BY ZenonT(40), <2>1, <2>2 DEF TypeOK
<1>7. Labels' /\ CurrentCoro' /\ SlotExclusive' /\ Places' /\ NotLost'
  <2>1. StepInPlace(t, "schedule")
    BY ZenonT(40), <1>1, <1>5 DEF StepInPlace, LoopPC, TypeOK
  <2> HIDE DEF sched_poll_event
  <2> QED
    BY Zenon, <1>1, <2>1, NothingMoves
<1>8. /\ \A d \in AllCoros : d # t => pc'[d] = pc[d] /\ coro'[d] = coro[d]
      /\ \A d \in AllCoros : Waking(d)' <=> Waking(d) \/ d = t
      /\ pc'[t] = "schedule" /\ coro'[t] = w /\ ~Waking(t)
      /\ \A u \in Threads : u \in AllCoros
      /\ \A d \in Coros : d \in AllCoros /\ d # t
  BY ZenonT(40), <1>1, <1>5 DEF Waking, AllCoros, TypeOK
<1>9. UNCHANGED <<state, wait, fd, interest, armed, timer_heap, expired, glock>>
  BY Zenon
<1>11. /\ \A u \in Threads : u # t => batch'[u] = batch[u] /\ w \notin batch[u]
       /\ batch'[t] = batch[t] \ {w}
  <2>1. /\ \A u \in Threads : u # t => batch'[u] = batch[u]
        /\ batch'[t] = batch[t] \ {w} /\ w \in batch[t]
    BY ZenonT(40), <1>5 DEF TypeOK
  <2>2. \A u \in Threads : u # t => w \notin batch[u]
    BY Zenon, <2>1 DEF Registrations
  <2> QED
    BY Zenon, <2>1, <2>2
<1>12. \A d \in AllCoros : Waking(d) => coro[d] \in Coros
  BY Zenon DEF Pointers
<1> HIDE Parts DEF sched_poll_event, cpuVars, epollVars, timerVars
<1>13. Pointers'
  BY Zenon, <1>8, Parts DEF Pointers
<1>14. WaitRecords'
  <2>1. WaitRecords
    BY Zenon, Parts
  <2>2. \A d \in Coros : d \in waiter /\ pc[d] = "register" => d \in waiter'
    BY Zenon, <1>3, <1>5 DEF Suspending
  <2>3. /\ \A d \in Coros : Waking(d) => Waking(d)' /\ coro'[d] = coro[d]
        /\ \A d \in Coros : pc'[d] = pc[d]
        /\ \A d \in Coros : d \in waiter' => d \in waiter
    BY Zenon, <1>5, <1>8
  <2> QED
    BY Zenon, <1>9, <2>1, <2>2, <2>3, RecordsKept
<1>15. Registrations'
  <2>0. Registrations
    BY Zenon, Parts
  <2>1. \A u \in Threads : \A c \in batch'[u] :
           c \in waiter' /\ interest[fd[c]] = c /\ fd[c] \notin armed
    <3>1. \A u \in Threads : \A c \in batch[u] :
             c \in waiter /\ interest[fd[c]] = c /\ fd[c] \notin armed
      BY Zenon, <2>0 DEF Registrations
    <3>2. \A u \in Threads : \A c \in batch'[u] : c \in batch[u] /\ c # w
      BY Zenon, <1>11
    <3> QED
      BY Zenon, <1>5, <3>1, <3>2
  <2>2. \A u, v \in Threads : u # v => batch'[u] \cap batch'[v] = {}
    <3>1. \A u, v \in Threads : u # v => batch[u] \cap batch[v] = {}
      BY Zenon, <2>0 DEF Registrations
    <3>2. \A u \in Threads : batch'[u] \subseteq batch[u]
      BY Zenon, <1>11
    <3> QED
      BY <3>1, <3>2
  <2>3. \A u \in Threads : batch'[u] # {} => pc'[u] \in {"events", "schedule"} /\ glock # u
    BY ZenonT(40), <1>2, <1>8, <1>11, <2>0 DEF Registrations
  <2>4. \A f \in armed : interest[f] \in waiter'
    <3>1. \A f \in armed : interest[f] \in waiter /\ (interest[f] = w => fd[w] = f)
      BY ZenonT(40), <2>0, Parts DEF Registrations, TypeOK
    <3> QED
      BY Zenon, <1>2, <1>5, <3>1
  <2>6. \A f \in Fds : \A c \in Coros : interest[f] = c =>
           wait[c] = "event" /\ fd[c] = f /\ pc'[c] \in Suspending
    <3>1. \A c \in Coros : pc'[c] = pc[c]
      BY Zenon, <1>8
    <3>2. \A f \in Fds : \A c \in Coros : interest[f] = c =>
             wait[c] = "event" /\ fd[c] = f /\ pc[c] \in Suspending
      BY Zenon, <2>0 DEF Registrations
    <3> QED
      BY Zenon, <3>1, <3>2
  <2>7. \A c, d \in Coros :
           wait[c] = "event" /\ wait[d] = "event" /\ fd[c] = fd[d] => c = d
    BY Zenon, <2>0 DEF Registrations
  <2> QED
    BY ZenonT(90), <1>9, <2>1, <2>2, <2>3, <2>4, <2>6, <2>7 DEF Registrations
<1>16. Timers'
  BY Zenon, <1>8, <1>9, Parts DEF Timers, TypeOK
<1>17. Wakers'
  <2>0. Wakers
    BY Zenon, Parts
  <2>2. \A d, e \in AllCoros : Waking(d)' /\ Waking(e)' /\ coro'[d] = coro'[e] => d = e
    <3>1. \A d, e \in AllCoros : Waking(d) /\ Waking(e) /\ coro[d] = coro[e] => d = e
      BY ZenonT(40), <2>0 DEF Wakers
    <3> QED
      BY ZenonT(40), <1>4, <1>8, <3>1
  <2>3. \A d \in Coros : Waking(d)' =>
          pc'[coro'[d]] = "user" /\ state[coro'[d]] = "BLOCKED" /\ coro'[d] # MainCoro
    <3>1. \A d \in Coros : Waking(d)' =>
             Waking(d) /\ coro'[d] = coro[d] /\ pc'[coro[d]] = pc[coro[d]]
      BY ZenonT(40), <1>8, <1>12
    <3>2. \A d \in Coros : Waking(d) =>
             pc[coro[d]] = "user" /\ state[coro[d]] = "BLOCKED" /\ coro[d] # MainCoro
      BY Zenon, <2>0 DEF Wakers
    <3> QED
      BY Zenon, <3>1, <3>2
  <2>4. ASSUME NEW u \in Threads, pc'[u] = "schedule"
        PROVE  LET c == coro'[u] IN
          /\ wait[c] # "none" /\ pc'[c] \in Suspending /\ state[c] \in Asleep
          /\ c \notin waiter' /\ c \notin timer_heap
          /\ wait[c] = "timer" => c \in expired
          /\ wait[c] = "event" => c \in events'
    <3>1. CASE u = t
      <4>1. /\ coro'[u] = w /\ pc'[w] = pc[w]
            /\ w \notin waiter' /\ w \in events' /\ wait[w] # "timer"
        BY ZenonT(40), <1>3, <1>5, <1>8, <3>1
      <4> QED
        BY Zenon, <1>3, <4>1
    <3>2. CASE u # t
      <4>1. pc[u] = "schedule" /\ coro'[u] = coro[u] /\ coro[u] \in Coros
        BY Zenon, <1>8, <1>12, <2>4, <3>2 DEF Waking
      <4>2. pc'[coro[u]] = pc[coro[u]]
        BY Zenon, <1>8, <4>1
      <4>3. PICK c : c = coro[u]
        OBVIOUS
      <4>4. /\ wait[c] # "none" /\ pc[c] \in Suspending /\ state[c] \in Asleep
            /\ c \notin waiter /\ c \notin timer_heap
            /\ wait[c] = "timer" => c \in expired
            /\ wait[c] = "event" => c \in events
        BY Zenon, <2>0, <4>1, <4>3 DEF Wakers
      <4>5. /\ coro'[u] = c /\ pc'[c] = pc[c] /\ c \notin waiter'
            /\ c \in events => c \in events'
        BY Zenon, <1>5, <4>1, <4>2, <4>3, <4>4
      <4> QED
        BY ZenonT(40), <4>4, <4>5
    <3> QED
      BY Zenon, <3>1, <3>2
  <2> QED
    BY Zenon, <1>9, <2>2, <2>3, <2>4 DEF Wakers
<1>18. Woken'
  <2>1. BeingScheduled(w)' /\ \A d \in Coros : BeingScheduled(d) => BeingScheduled(d)'
    BY Zenon, <1>1, <1>8 DEF BeingScheduled, Waking
  <2>2. \A d \in Coros : d # w /\ EventWaker(d) => EventWaker(d)'
    BY Zenon, <1>1, <1>9, <1>11 DEF EventWaker
  <2>3. \A d \in Coros : HasWaker(d) => HasWaker(d)'
    BY Zenon, <1>9, <2>1, <2>2 DEF HasWaker
  <2> QED
    BY Zenon, <1>5, <1>8, <1>9, <2>3, Parts DEF Woken
<1> QED
  BY ZenonT(40), <1>6, <1>7, <1>13, <1>14, <1>15, <1>16, <1>17, <1>18 DEF IInv

\* sched_handle_timers(): the event loop takes over as the waker.
LEMMA Keep_pop ==
    ASSUME IInv, NEW t \in Threads, sched_handle_timers(t), NEW w \in due,
           timer_heap' = timer_heap \ {w}, coro' = [coro EXCEPT ![t] = w],
           glock' = t, Goto(t, "schedule"), UNCHANGED timeout
    PROVE  IInv'
<1>0. At(t, "lock") /\ glock = NoCoro
  BY SMT DEF sched_handle_timers
<1>1. /\ stack[t] = t /\ t \in AllCoros /\ t \notin Coros /\ pc[t] = "lock" /\ OnCpu(t)
      /\ batch[t] = {} /\ glock = NoCoro
  <2>0. "lock" \in LoopOnly
    BY Zenon DEF LoopOnly, LoopPC
  <2>1. stack[t] = t /\ t \in AllCoros /\ t \notin Coros /\ pc[t] = "lock" /\ OnCpu(t)
    BY Zenon, <1>0, <2>0, LoopAt
  <2>2. batch[t] = {}
    BY Zenon, <2>1, Parts DEF Registrations
  <2> QED
    BY Zenon, <1>0, <2>1, <2>2
<1> USE SchedulerAssumption, Parts
    DEF Goto, cpuVars, waitVars, epollVars
<1>2. UNCHANGED <<local_count, run_list, current_coro, stack, state, wait, fd, waiter,
                  events, interest, armed, ready, batch, full, timeout, expired>>
  BY Zenon DEF sched_handle_timers
<1>3. /\ w \in timer_heap /\ w \in expired /\ w \in Coros
      /\ wait[w] = "timer" /\ state[w] \in Asleep /\ pc[w] \in Suspending
      /\ w \notin waiter
  BY Zenon DEF due, WaitRecords, Timers, TypeOK
<1>4. \A d \in AllCoros : Waking(d) => coro[d] # w
  <2>1. \A u \in Threads : pc[u] = "schedule" => coro[u] # w
    BY ZenonT(40), <1>3 DEF Wakers
  <2>2. \A d \in Coros : Waking(d) => coro[d] # w
    BY ZenonT(40), <1>3 DEF Wakers, Suspending
  <2>3. \A u \in Threads : Waking(u) => pc[u] = "schedule"
    BY ZenonT(40) DEF Labels, Waking, LoopPC
  <2> QED
    BY ZenonT(40), <2>1, <2>2, <2>3 DEF AllCoros
<1>6. TypeOK'
  BY Zenon, <1>1, <1>2, <1>3 DEF TypeOK, LoopPC, AllCoros
<1>7. Labels' /\ CurrentCoro' /\ SlotExclusive' /\ Places' /\ NotLost'
  <2>1. StepInPlace(t, "schedule")
    BY Zenon, <1>1, <1>2 DEF StepInPlace, LoopPC, TypeOK
  <2> QED
    BY Zenon, <1>1, <2>1, NothingMoves
<1>8. /\ \A d \in AllCoros : d # t => pc'[d] = pc[d] /\ coro'[d] = coro[d]
      /\ \A d \in AllCoros : Waking(d)' <=> Waking(d) \/ d = t
      /\ pc'[t] = "schedule" /\ coro'[t] = w /\ ~Waking(t)
      /\ \A u \in Threads : u \in AllCoros
      /\ \A d \in Coros : d \in AllCoros /\ d # t
  BY Zenon, <1>1 DEF Waking, AllCoros, TypeOK
<1>9. Pointers'
  BY Zenon, <1>3, <1>8 DEF Pointers
<1>10. \A d \in AllCoros : Waking(d) => coro[d] \in Coros
  BY Zenon DEF Pointers
<1> HIDE Parts DEF cpuVars, waitVars, epollVars
<1>11. WaitRecords' /\ Registrations'
  <2>0. WaitRecords /\ Registrations
    BY Zenon, Parts
  <2>1. WaitRecords'
    <3>1. \A d \in Coros : Waking(d) => Waking(d)' /\ coro'[d] = coro[d]
      BY Zenon, <1>8
    <3> QED
      BY Zenon, <1>2, <1>8, <2>0, <3>1, RecordsKept
  <2>2. \A u \in Threads : batch[u] # {} => pc'[u] \in {"events", "schedule"} /\ glock' # u
    BY ZenonT(40), <1>1, <1>8, <2>0 DEF Registrations
  <2>3. \A f \in Fds : \A c \in Coros : interest[f] = c =>
           wait[c] = "event" /\ fd[c] = f /\ pc'[c] \in Suspending
    <3>1. \A c \in Coros : pc'[c] = pc[c]
      BY Zenon, <1>8
    <3>2. \A f \in Fds : \A c \in Coros : interest[f] = c =>
             wait[c] = "event" /\ fd[c] = f /\ pc[c] \in Suspending
      BY Zenon, <2>0 DEF Registrations
    <3> QED
      BY ZenonT(40), <3>1, <3>2
  <2>4. /\ \A f \in armed : interest[f] \in waiter
        /\ \A c, d \in Coros :
              wait[c] = "event" /\ wait[d] = "event" /\ fd[c] = fd[d] => c = d
        /\ \A u \in Threads : \A c \in batch[u] :
              c \in waiter /\ interest[fd[c]] = c /\ fd[c] \notin armed
        /\ \A u, v \in Threads : u # v => batch[u] \cap batch[v] = {}
    BY Zenon, <2>0 DEF Registrations
  <2>5. \A f \in Fds : \A c \in Coros : interest'[f] = c =>
           wait'[c] = "event" /\ fd'[c] = f /\ pc'[c] \in Suspending
    BY Zenon, <1>2, <2>3
  <2>6. /\ \A f \in armed' : interest'[f] \in waiter'
        /\ \A u \in Threads : \A c \in batch'[u] :
              c \in waiter' /\ interest'[fd'[c]] = c /\ fd'[c] \notin armed'
    BY Zenon, <1>2, <2>4
  <2>7. /\ \A c, d \in Coros :
              wait'[c] = "event" /\ wait'[d] = "event" /\ fd'[c] = fd'[d] => c = d
        /\ \A u, v \in Threads : u # v => batch'[u] \cap batch'[v] = {}
    BY Zenon, <1>2, <2>4
  <2>8. \A u \in Threads : batch'[u] # {} => pc'[u] \in {"events", "schedule"} /\ glock' # u
    BY Zenon, <1>2, <2>2
  <2> QED
    BY Zenon, <2>1, <2>5, <2>6, <2>7, <2>8 DEF Registrations
<1>12. Timers'
  BY ZenonT(40), <1>2, <1>8, Parts DEF Timers, TypeOK
<1>13. Wakers'
  <2>0. Wakers
    BY ZenonT(40), Parts
  <2>2. \A d, e \in AllCoros : Waking(d)' /\ Waking(e)' /\ coro'[d] = coro'[e] => d = e
    <3>1. \A d, e \in AllCoros : Waking(d) /\ Waking(e) /\ coro[d] = coro[e] => d = e
      BY Zenon, <2>0 DEF Wakers
    <3> QED
      BY ZenonT(40), <1>4, <1>8, <3>1
  <2>3. \A d \in Coros : Waking(d)' =>
          pc'[coro'[d]] = "user" /\ state[coro'[d]] = "BLOCKED" /\ coro'[d] # MainCoro
    <3>1. \A d \in Coros : Waking(d)' =>
             Waking(d) /\ coro'[d] = coro[d] /\ pc'[coro[d]] = pc[coro[d]]
      BY ZenonT(40), <1>8, <1>10
    <3>2. \A d \in Coros : Waking(d) =>
             pc[coro[d]] = "user" /\ state[coro[d]] = "BLOCKED" /\ coro[d] # MainCoro
      BY Zenon, <2>0 DEF Wakers
    <3> QED
      BY ZenonT(40), <3>1, <3>2
  <2>4. ASSUME NEW u \in Threads, pc'[u] = "schedule"
        PROVE  LET c == coro'[u] IN
          /\ wait[c] # "none" /\ pc'[c] \in Suspending /\ state[c] \in Asleep
          /\ c \notin waiter /\ c \notin timer_heap'
          /\ wait[c] = "timer" => c \in expired
          /\ wait[c] = "event" => c \in events
    <3>1. CASE u = t
      <4>1. w \notin timer_heap' /\ pc'[w] = pc[w] /\ coro'[u] = w /\ wait[w] # "event"
        BY ZenonT(40), <1>3, <1>8, <3>1
      <4> QED
        BY Zenon, <1>3, <4>1
    <3>2. CASE u # t
      <4>1. pc[u] = "schedule" /\ coro'[u] = coro[u] /\ coro[u] \in Coros
        BY Zenon, <1>8, <1>10, <2>4, <3>2 DEF Waking
      <4>2. pc'[coro[u]] = pc[coro[u]]
        BY Zenon, <1>8, <4>1
      <4>3. PICK c : c = coro[u]
        OBVIOUS
      <4>4. /\ wait[c] # "none" /\ pc[c] \in Suspending /\ state[c] \in Asleep
            /\ c \notin waiter /\ c \notin timer_heap
            /\ wait[c] = "timer" => c \in expired
            /\ wait[c] = "event" => c \in events
        BY Zenon, <2>0, <4>1, <4>3 DEF Wakers
      <4>5. coro'[u] = c /\ pc'[c] = pc[c] /\ c \notin timer_heap'
        BY Zenon, <4>1, <4>2, <4>3, <4>4
      <4> QED
        BY ZenonT(40), <4>4, <4>5
    <3> QED
      BY Zenon, <3>1, <3>2
  <2> QED
    BY ZenonT(40), <1>2, <2>2, <2>3, <2>4 DEF Wakers
<1>14. Woken'
  <2>1. BeingScheduled(w)' /\ \A d \in Coros : BeingScheduled(d) => BeingScheduled(d)'
    BY Zenon, <1>1, <1>8 DEF BeingScheduled, Waking
  <2>2. \A d \in Coros : EventWaker(d) => EventWaker(d)'
    BY Zenon, <1>2 DEF EventWaker
  <2>3. \A d \in Coros : HasWaker(d) => HasWaker(d)'
    BY Zenon, <2>1, <2>2 DEF HasWaker
  <2> QED
    BY Zenon, <1>2, <1>8, <2>3, Parts DEF Woken
<1> QED
  BY ZenonT(40), <1>6, <1>7, <1>9, <1>11, <1>12, <1>13, <1>14 DEF IInv

\* Both outcomes of looking at the first timer preserve the invariant.
LEMMA Keep_sched_handle_timers ==
    ASSUME IInv, NEW t \in Threads, sched_handle_timers(t)
    PROVE  IInv'
<1>1. CASE TimersDone(t) /\ UNCHANGED <<coro, timer_heap, glock>>
  <2>1. /\ stack[t] = t /\ t \in AllCoros /\ t \notin Coros /\ pc[t] = "lock"
    BY Zenon, LoopAt DEF sched_handle_timers, LoopOnly, LoopPC
  <2>2. batch[t] = {}
    BY Zenon, <2>1, Parts DEF Registrations
  <2>3. PICK l \in {"resched", "loop"} : Goto(t, l)
    BY Zenon, <1>1 DEF TimersDone
  <2>4. TypeOK'
    BY ZenonT(60), <1>1, <2>3, Parts DEF sched_handle_timers, TimersDone, Timeouts,
       Goto, LoopPC, cpuVars, waitVars, epollVars, TypeOK
  <2>5. QuietLoopStep(t, l)
    BY Zenon, <1>1, <2>1, <2>2, <2>3
       DEF sched_handle_timers, QuietLoopStep, Goto, LoopOnly, LoopPC, timerVars
  <2> QED
    BY Zenon, <2>4, <2>5, Keep_QuietLoopStep
<1>2. ASSUME NEW w \in due,
             timer_heap' = timer_heap \ {w}, coro' = [coro EXCEPT ![t] = w],
             glock' = t, Goto(t, "schedule"), UNCHANGED timeout
      PROVE  IInv'
  BY ZenonT(60), <1>2, Keep_pop
<1> QED
  BY Zenon, <1>1, <1>2 DEF sched_handle_timers

\* What is said about places depends on the program's variables only.
LEMMA SameProgram ==
    ASSUME IInv,
           UNCHANGED <<local_count, run_list, current_coro, stack, pc, coro, state, glock>>
    PROVE  Labels' /\ Pointers' /\ CurrentCoro' /\ SlotExclusive' /\ Places' /\ NotLost'
<1>1. /\ \A c : OnCpu(c)' <=> OnCpu(c)
      /\ \A c : Queued(c)' <=> Queued(c)
      /\ \A t, c : InHand(t, c)' <=> InHand(t, c)
      /\ \A c : Waking(c)' <=> Waking(c)
      /\ \A t, l : At(t, l)' <=> At(t, l)
  BY Zenon DEF OnCpu, Queued, InHand, At, Waking
<1>2. Labels' /\ Pointers'
  BY Zenon, <1>1, Parts DEF Labels, Pointers
<1>3. CurrentCoro' /\ SlotExclusive'
  BY Zenon, <1>1, Parts DEF CurrentCoro, SlotExclusive
<1>4. Places'
  BY Zenon, <1>1, Parts DEF Places, SingleOwner
<1>5. NotLost'
  BY Zenon, <1>1, Parts DEF NotLost
<1> QED
  BY Zenon, <1>2, <1>3, <1>4, <1>5

\* An event becomes pending: no variable of the program changes.
LEMMA Keep_become_ready ==
    ASSUME IInv, NEW f \in Fds, become_ready(f)
    PROVE  IInv'
<1> USE DEF become_ready, cpuVars, waitVars, loopVars, timerVars
<1>1. TypeOK'
  BY Zenon, Parts DEF TypeOK
<1>2. Labels' /\ Pointers' /\ CurrentCoro' /\ SlotExclusive' /\ Places' /\ NotLost'
  BY ZenonT(40), SameProgram
<1>3. WaitRecords' /\ Registrations' /\ Timers'
  <2>0. WaitRecords /\ Registrations /\ Timers
    BY Zenon, Parts
  <2>1. WaitRecords'
    BY ZenonT(40), <2>0, RecordsKept DEF Waking
  <2>2. Registrations'
    BY <2>0 DEF Registrations
  <2> QED
    BY Zenon, <2>0, <2>1, <2>2 DEF Timers
<1>4. Wakers'
  BY Zenon, Parts DEF Wakers, Waking
<1>5. Woken'
  <2>1. \A d \in Coros : HasWaker(d)' <=> HasWaker(d)
    BY Zenon DEF HasWaker, EventWaker, BeingScheduled
  <2> QED
    BY Zenon, <2>1, Parts DEF Woken
<1> QED
  BY Zenon, <1>1, <1>2, <1>3, <1>4, <1>5 DEF IInv

\* A timer expires: no variable of the program changes.
LEMMA Keep_time_passes ==
    ASSUME IInv, NEW c \in Coros, time_passes(c)
    PROVE  IInv'
<1> USE DEF time_passes, cpuVars, waitVars, epollVars, loopVars
<1>1. TypeOK'
  BY Zenon, Parts DEF TypeOK
<1>2. Labels' /\ Pointers' /\ CurrentCoro' /\ SlotExclusive' /\ Places' /\ NotLost'
  BY ZenonT(40), SameProgram
<1>3. WaitRecords' /\ Registrations' /\ Timers'
  <2>0. WaitRecords /\ Registrations /\ Timers
    BY Zenon, Parts
  <2>1. WaitRecords'
    BY ZenonT(40), <2>0, RecordsKept DEF Waking
  <2>2. Registrations'
    BY <2>0 DEF Registrations
  <2> QED
    BY Zenon, <2>0, <2>1, <2>2 DEF Timers
<1>4. Wakers'
  BY Zenon, Parts DEF Wakers, Waking
<1>5. Woken'
  <2>1. \A d \in Coros : HasWaker(d)' <=> HasWaker(d)
    BY Zenon DEF HasWaker, EventWaker, BeingScheduled
  <2> QED
    BY Zenon, <2>1, Parts DEF Woken
<1> QED
  BY Zenon, <1>1, <1>2, <1>3, <1>4, <1>5 DEF IInv

\* Nothing happens.
LEMMA Keep_stutter ==
    ASSUME IInv, UNCHANGED vars
    PROVE  IInv'
<1> USE DEF vars, cpuVars, waitVars, epollVars, loopVars, timerVars
<1>1. TypeOK'
  BY Zenon, Parts DEF TypeOK
<1>2. Labels' /\ Pointers' /\ CurrentCoro' /\ SlotExclusive' /\ Places' /\ NotLost'
  BY ZenonT(40), SameProgram
<1>3. WaitRecords' /\ Registrations' /\ Timers'
  <2>0. WaitRecords /\ Registrations /\ Timers
    BY Zenon, Parts
  <2>1. WaitRecords'
    BY ZenonT(40), <2>0, RecordsKept DEF Waking
  <2>2. Registrations'
    BY <2>0 DEF Registrations
  <2> QED
    BY Zenon, <2>0, <2>1, <2>2 DEF Timers
<1>4. Wakers'
  BY Zenon, Parts DEF Wakers, Waking
<1>5. Woken'
  <2>1. \A d \in Coros : HasWaker(d)' <=> HasWaker(d)
    BY Zenon DEF HasWaker, EventWaker, BeingScheduled
  <2> QED
    BY Zenon, <2>1, Parts DEF Woken
<1> QED
  BY Zenon, <1>1, <1>2, <1>3, <1>4, <1>5 DEF IInv
=============================================================================
