----------------------------- MODULE Coroutines -----------------------------
(***************************************************************************)
(* What scheduler.h promises its callers, without threads, run lists or    *)
(* wake-up handshakes: coroutines that run, at most Processors of them at  *)
(* a time; that block for a reason, and are unblocked only once that       *)
(* reason has occurred.                                                    *)
(***************************************************************************)
EXTENDS Integers, FiniteSets

CONSTANTS
    Coros,      \* coroutines, the main one included
    MainCoro,
    Processors  \* how many coroutines can run at a time

VARIABLES
    status,     \* per coroutine: "free", "ready", "running" or "blocked"
    occurred    \* blocked coroutines whose event or time has come

vars == <<status, occurred>>

Running == {c \in Coros : status[c] = "running"}

Init ==
    /\ status = [c \in Coros |-> IF c = MainCoro THEN "running" ELSE "free"]
    /\ occurred = {}

\* sched_new_coroutine()
Create(c) ==
    /\ Running # {}
    /\ status[c] = "free"
    /\ status' = [status EXCEPT ![c] = "ready"]
    /\ UNCHANGED occurred

\* sched_event_wait() and sched_wait() begin; the time may have come already.
Block(c) ==
    /\ status[c] = "running"
    /\ status' = [status EXCEPT ![c] = "blocked"]
    /\ occurred' \in {occurred, occurred \cup {c}}

\* What some coroutines are blocked for happens.
Occur ==
    /\ UNCHANGED status
    /\ occurred \subseteq occurred'
    /\ \A c \in occurred' \ occurred : status[c] = "blocked"

\* c is made runnable; it may not even have left its processor.
Wake(c) ==
    /\ status[c] = "blocked"
    /\ c \in occurred
    /\ \E s \in {"ready", "running"} : status' = [status EXCEPT ![c] = s]
    /\ occurred' = occurred \ {c}

\* c gets a processor.
Run(c) ==
    /\ status[c] = "ready"
    /\ status' = [status EXCEPT ![c] = "running"]
    /\ UNCHANGED occurred

\* c gives its processor up (sched_resched()), or dies; another one may get it.
\* main() does not die, but may sleep for ever.
Leave(c, s) ==
    /\ status[c] = "running"
    /\ s \in {"ready"} \cup (IF c = MainCoro THEN {"blocked"} ELSE {"free"})
    /\ \/ status' = [status EXCEPT ![c] = s]
       \/ \E d \in Coros : /\ status[d] = "ready"
                           /\ status' = [status EXCEPT ![c] = s, ![d] = "running"]
    /\ UNCHANGED occurred

\* One coroutine changes its status.
Step ==
    \E c \in Coros :
       \/ Create(c) \/ Block(c) \/ Wake(c) \/ Run(c)
       \/ \E s \in {"ready", "blocked", "free"} : Leave(c, s)

\* No step oversubscribes the processors.
Next == Occur \/ (Step /\ Cardinality(Running') <= Processors)

Spec == Init /\ [][Next]_vars
=============================================================================
