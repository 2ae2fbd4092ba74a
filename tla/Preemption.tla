----------------------------- MODULE Preemption -----------------------------
(***************************************************************************)
(* The build with SCHED_PREEMPTION, on one processor: a timer signal may   *)
(* interrupt the thread between any two steps and call sched_resched(),    *)
(* unless preempt_lock is held.  The run list is the linked list of        *)
(* util/list.h, one pointer write per step.  A coroutine's stack holds the *)
(* calls into the scheduler that are under way in it; the handler runs on  *)
(* the stack of the coroutine it interrupts.                               *)
(*                                                                         *)
(* The other locks are left out: slock() is empty, and gsched->lock is not *)
(* taken by the calls modelled here.                                       *)
(***************************************************************************)
EXTENDS Naturals, Sequences

CONSTANTS
    Coros,      \* coroutines, with Main and Loop
    Main,       \* main()
    Loop,       \* the event loop
    RunList,    \* the sentinel of the run list
    Null,
    MaxSignals  \* bound on signals

Nodes == Coros \cup {RunList}

VARIABLES
    next, prev,    \* per node: its pointers
    current_coro,
    state,         \* per coroutine: "blocked" or "runnable"
    preempt_lock,
    stack,         \* per coroutine: its calls, the innermost first
    signals,       \* signals so far
    aborted        \* an assertion has failed

vars == <<next, prev, current_coro, state, preempt_lock, stack, signals, aborted>>

\* A call: the next step, the coroutine it enqueues, the neighbour that list_insert()
\* has read, and the coroutine it switches to.
Call(pc, coro) == [pc |-> pc, coro |-> coro, after |-> Null, to |-> Null]

\* sched_init() has enqueued the event loop; the others are created but not scheduled.
\* A new coroutine starts in coro_trampoline().
Init ==
    /\ next = [n \in Nodes |-> CASE n = RunList -> Loop [] n = Loop -> RunList
                                 [] OTHER -> Null]
    /\ prev = next
    /\ current_coro = Main
    /\ state = [c \in Coros |-> IF c \in {Main, Loop} THEN "runnable" ELSE "blocked"]
    /\ preempt_lock = 0
    /\ stack = [c \in Coros |-> IF c = Main THEN <<>> ELSE <<Call("unblock", Null)>>]
    /\ signals = 0
    /\ aborted = FALSE

Frames == stack[current_coro]

At(l) == ~aborted /\ Frames # <<>> /\ Head(Frames).pc = l

\* The innermost call goes on as f, or returns; a call is made.
Replace(f) == stack' = [stack EXCEPT ![current_coro] = <<f>> \o Tail(@)]
Goto(l) == Replace([Head(Frames) EXCEPT !.pc = l])
Return == stack' = [stack EXCEPT ![current_coro] = Tail(@)]
Enter(f) == stack' = [stack EXCEPT ![current_coro] = <<f>> \o @]

Check(p) == aborted' = ~p

list_in_list(n) == next[n] # Null \/ prev[n] # Null

----------------------------------------------------------------------------
(* Calls from coroutines, and the signal.                                  *)

sched_resched ==
    /\ ~aborted /\ Frames = <<>>
    /\ Enter(Call("empty", Null))
    /\ UNCHANGED <<next, prev, current_coro, state, preempt_lock, signals, aborted>>

\* sched_new_coroutine() on one processor, and every other sched_schedule(): the
\* state is exchanged, a coroutine that was blocked is enqueued.
sched_schedule(c) ==
    /\ ~aborted /\ Frames = <<>>
    /\ state[c] = "blocked"
    /\ state' = [state EXCEPT ![c] = "runnable"]
    /\ Enter(Call("enqueue", c))
    /\ UNCHANGED <<next, prev, current_coro, preempt_lock, signals, aborted>>

\* SIGRTMIN, every 200 ms; SA_NODEFER lets it interrupt its own handler.
signal ==
    /\ ~aborted /\ signals < MaxSignals
    /\ signals' = signals + 1
    /\ Enter(Call("callback", Null))
    /\ UNCHANGED <<next, prev, current_coro, state, preempt_lock, aborted>>

sched_resched_callback ==
    /\ At("callback")
    /\ IF preempt_lock = 0 THEN Goto("empty") ELSE Return
    /\ UNCHANGED <<next, prev, current_coro, state, preempt_lock, signals, aborted>>

----------------------------------------------------------------------------
(* Steps of sched_resched() and sched_schedule().                          *)

list_empty ==
    /\ At("empty")
    /\ IF next[RunList] = RunList THEN Return ELSE Goto("get_current")
    /\ UNCHANGED <<next, prev, current_coro, state, preempt_lock, signals, aborted>>

sched_get_current ==
    /\ At("get_current")
    /\ Replace([Head(Frames) EXCEPT !.pc = "enqueue", !.coro = current_coro])
    /\ UNCHANGED <<next, prev, current_coro, state, preempt_lock, signals, aborted>>

sched_enqueue_locked ==
    /\ At("enqueue")
    /\ Check(~list_in_list(Head(Frames).coro))
    /\ Replace([Head(Frames) EXCEPT !.pc = "item_next", !.after = prev[RunList]])
    /\ UNCHANGED <<next, prev, current_coro, state, preempt_lock, signals>>

(***************************************************************************)
(* The four writes of list_insert(), after which sched_schedule() returns  *)
(* (it enqueues another coroutine than its caller).                        *)
(***************************************************************************)
list_insert ==
    LET f == Head(Frames)
        item == f.coro
    IN
    /\ \/ /\ At("item_next") /\ Goto("item_prev")
          /\ next' = [next EXCEPT ![item] = next[f.after]] /\ UNCHANGED prev
       \/ /\ At("item_prev") /\ Goto("after_next")
          /\ prev' = [prev EXCEPT ![item] = f.after] /\ UNCHANGED next
       \/ /\ At("after_next") /\ Goto("next_prev")
          /\ next' = [next EXCEPT ![f.after] = item] /\ UNCHANGED prev
       \/ /\ At("next_prev")
          /\ IF item = current_coro THEN Goto("front") ELSE Return
          /\ prev' = [prev EXCEPT ![next[item]] = item] /\ UNCHANGED next
    /\ UNCHANGED <<current_coro, state, preempt_lock, signals, aborted>>

\* list_pop_front() reads the front ...
sched_dequeue_locked ==
    /\ At("front")
    /\ Replace([Head(Frames) EXCEPT !.pc = "prev_next", !.to = next[RunList]])
    /\ UNCHANGED <<next, prev, current_coro, state, preempt_lock, signals, aborted>>

\* ... and list_remove() takes it out in four writes.
list_remove ==
    LET item == Head(Frames).to IN
    /\ \/ /\ At("prev_next") /\ Goto("remove_prev")
          /\ next' = [next EXCEPT ![prev[item]] = next[item]] /\ UNCHANGED prev
       \/ /\ At("remove_prev") /\ Goto("clear_prev")
          /\ prev' = [prev EXCEPT ![next[item]] = prev[item]] /\ UNCHANGED next
       \/ /\ At("clear_prev") /\ Goto("clear_next")
          /\ prev' = [prev EXCEPT ![item] = Null] /\ UNCHANGED next
       \/ /\ At("clear_next") /\ Goto("block")
          /\ next' = [next EXCEPT ![item] = Null] /\ UNCHANGED prev
    /\ UNCHANGED <<current_coro, state, preempt_lock, signals, aborted>>

\* sched_switch_context() from sched_block_preempt() to the switch; the coroutine
\* that is switched to goes on, with the lock, in its own innermost call.
sched_switch_context ==
    /\ At("block")
    /\ Check(preempt_lock = 0)
    /\ preempt_lock' = 1
    /\ Goto("unblock")
    /\ current_coro' = Head(Frames).to
    /\ UNCHANGED <<next, prev, state, signals>>

\* sched_unblock_preempt() in sched_switch_context() and in coro_trampoline().
sched_unblock_preempt ==
    /\ At("unblock")
    /\ Check(preempt_lock = 1)
    /\ preempt_lock' = 0
    /\ Return
    /\ UNCHANGED <<next, prev, current_coro, state, signals>>

----------------------------------------------------------------------------

Next ==
    \/ sched_resched \/ (\E c \in Coros : sched_schedule(c))
    \/ signal \/ sched_resched_callback
    \/ list_empty \/ sched_get_current \/ sched_enqueue_locked \/ list_insert
    \/ sched_dequeue_locked \/ list_remove
    \/ sched_switch_context \/ sched_unblock_preempt

Spec == Init /\ [][Next]_vars

----------------------------------------------------------------------------

\* "assert(!list_in_list(&coro->list))" (sched_enqueue_locked()): a coroutine that
\* sched_resched() is about to put on the run list is not on it.
NotEnqueuedTwice ==
    At("enqueue") => ~list_in_list(Head(Frames).coro)
=============================================================================
