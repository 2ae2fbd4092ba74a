--------------------------- MODULE PriorityQueue ---------------------------
(***************************************************************************)
(* What util/heap.h promises: a multiset of keys from which the smallest   *)
(* is taken first.                                                         *)
(***************************************************************************)
EXTENDS Integers

CONSTANTS
    Keys,   \* what items are compared by
    Null    \* NULL, returned for an empty heap

VARIABLES
    contents,  \* how often each key is in the queue
    result     \* the key heap_pop_min() returned last

vars == <<contents, result>>

Init == contents = [k \in Keys |-> 0] /\ result = Null

Push(k) ==
    /\ contents' = [contents EXCEPT ![k] = @ + 1]
    /\ UNCHANGED result

PopMin(k) ==
    /\ contents[k] > 0
    /\ \A j \in Keys : contents[j] > 0 => k <= j
    /\ contents' = [contents EXCEPT ![k] = @ - 1]
    /\ result' = k

PopNothing ==
    /\ \A k \in Keys : contents[k] = 0
    /\ result' = Null
    /\ UNCHANGED contents

Next == PopNothing \/ \E k \in Keys : Push(k) \/ PopMin(k)

Spec == Init /\ [][Next]_vars
=============================================================================
