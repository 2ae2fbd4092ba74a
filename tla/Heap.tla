-------------------------------- MODULE Heap --------------------------------
(***************************************************************************)
(* The binary heap of util/heap.c.  The loops of heap_push() and           *)
(* heap_pop_min() are taken one iteration at a time, the array as it is in *)
(* between; heap->size, which the code believes to be the number of cells, *)
(* is kept apart from the number that realloc() has last been asked for.   *)
(*                                                                         *)
(* Keys stand for the items, compared by subtraction.  Operators named     *)
(* Bug_... are faulty variants of the definition that follows them.        *)
(***************************************************************************)
EXTENDS Integers, FiniteSets

CONSTANTS
    Keys,
    Null,
    INITIAL_SIZE,
    MaxItems      \* bound: no more than this many items are pushed

ASSUME HeapAssumption ==
    /\ Keys \subseteq Int
    /\ Null \notin Keys
    /\ INITIAL_SIZE \in Nat /\ INITIAL_SIZE > 1
    /\ MaxItems \in Nat \ {0}

VARIABLES
    heap,     \* heap->heap; cell 0 is not used
    size,     \* heap->size
    items,    \* heap->items
    alloc,    \* the number of cells heap->heap has
    pc,       \* "idle", a loop, or the end: "overrun" the array, "aborted"
    item,     \* item of heap_push(), new_root of heap_pop_min()
    current,  \* current of heap_push(), parent of heap_pop_min()
    result    \* what heap_pop_min() returned last

vars == <<heap, size, items, alloc, pc, item, current, result>>

\* heap_init(); what malloc() leaves in the cells is arbitrary.
Init ==
    /\ \E k \in Keys : heap = [i \in 0 .. MaxItems |-> k] /\ item = k
    /\ size = INITIAL_SIZE /\ alloc = INITIAL_SIZE /\ items = 0
    /\ pc = "idle" /\ current = 1 /\ result = Null

is_full == items + 1 >= size

(***************************************************************************)
(* heap_push(), up to its loop.  The array is enlarged when it is full, as *)
(* the code counts; a cell it does not have is then written to.            *)
(***************************************************************************)
heap_push(k) ==
    /\ pc = "idle" /\ items < MaxItems
    /\ size' = IF is_full THEN 2 * size ELSE size
    /\ alloc' = IF is_full THEN 2 * size ELSE alloc
    /\ items' = items + 1
    /\ heap' = [heap EXCEPT ![items + 1] = k]
    /\ item' = k /\ current' = items + 1
    /\ pc' = IF items + 1 < alloc' THEN "sift_up" ELSE "overrun"
    /\ UNCHANGED result

\* realloc() fails: the array is freed and sched_wait() asserts.
heap_push_nomem ==
    /\ pc = "idle" /\ is_full
    /\ alloc' = 0
    /\ pc' = "aborted"
    /\ UNCHANGED <<heap, size, items, item, current, result>>

\* The parent of an array that starts with cell 0.
Bug_parent(i) == (i - 1) \div 2
parent(i) == i \div 2

\* The parent moves down into the hole; it is greater than the new item.
sift_up ==
    /\ pc = "sift_up" /\ current > 1 /\ heap[parent(current)] > item
    /\ heap' = [heap EXCEPT ![current] = heap[parent(current)]]
    /\ current' = parent(current)
    /\ UNCHANGED <<size, items, alloc, pc, item, result>>

\* The end of heap_push().
place_pushed ==
    /\ pc = "sift_up" /\ ~(current > 1 /\ heap[parent(current)] > item)
    /\ heap' = [heap EXCEPT ![current] = item]
    /\ pc' = "idle"
    /\ UNCHANGED <<size, items, alloc, item, current, result>>

\* heap_pop_min(), up to its loop: the last item is to replace the first.
heap_pop_min ==
    /\ pc = "idle" /\ items > 0
    /\ result' = heap[1]
    /\ item' = heap[items]
    /\ heap' = [heap EXCEPT ![1] = heap[items]]
    /\ items' = items - 1
    /\ current' = 1 /\ pc' = "sift_down"
    /\ UNCHANGED <<size, alloc>>

heap_pop_empty ==
    /\ pc = "idle" /\ items = 0
    /\ result' = Null
    /\ UNCHANGED <<heap, size, items, alloc, pc, item, current>>

\* The left child is chosen whenever it is less than the item.
Bug_smaller_child(left, right) ==
    IF item > heap[left] THEN left
    ELSE IF item > heap[right] THEN right ELSE 0
\* The child that heap_pop_min() moves up into the hole, 0 for neither.  The cell
\* of a right child that does not exist is read all the same.
smaller_child(left, right) ==
    IF item > heap[left]
    THEN IF right > items \/ heap[left] < heap[right] THEN left ELSE right
    ELSE IF item > heap[right] THEN right ELSE 0

sift_child == IF 2 * current <= items
              THEN smaller_child(2 * current, 2 * current + 1) ELSE 0

sift_down ==
    /\ pc = "sift_down" /\ sift_child # 0
    /\ heap' = [heap EXCEPT ![current] = heap[sift_child]]
    /\ current' = sift_child
    /\ UNCHANGED <<size, items, alloc, pc, item, result>>

\* The item is not put in the hole.
Bug_place_last ==
    /\ pc = "sift_down" /\ sift_child = 0
    /\ pc' = "idle"
    /\ UNCHANGED <<heap, size, alloc, items, item, current, result>>

(***************************************************************************)
(* The end of heap_pop_min(), "Resize smaller" included: the array is      *)
(* halved, if realloc() succeeds; heap->size is left as it is.             *)
(***************************************************************************)
place_last ==
    /\ pc = "sift_down" /\ sift_child = 0
    /\ heap' = [heap EXCEPT ![current] = item]
    /\ alloc' \in {alloc} \cup (IF items + 1 < size \div 4 /\ size > INITIAL_SIZE
                               THEN {size \div 2} ELSE {})
    /\ pc' = "idle"
    /\ UNCHANGED <<size, items, item, current, result>>

Next ==
    \/ \E k \in Keys : heap_push(k)
    \/ heap_push_nomem
    \/ sift_up
    \/ place_pushed
    \/ heap_pop_min
    \/ heap_pop_empty
    \/ sift_down
    \/ place_last

Spec == Init /\ [][Next]_vars

----------------------------------------------------------------------------

\* The values of the variables; the hole is a cell of the array other than cell 0.
TypeOK ==
    /\ heap \in [0 .. MaxItems -> Keys]
    /\ size \in Nat /\ size >= INITIAL_SIZE
    /\ items \in 0 .. MaxItems
    /\ alloc \in Nat
    /\ pc \in {"idle", "sift_up", "sift_down", "overrun", "aborted"}
    /\ item \in Keys
    /\ current \in 1 .. MaxItems
    /\ result \in Keys \cup {Null}

\* Between operations the array is a heap: no item is less than its parent.  It is
\* what makes heap_min() the soonest-expiring timer.
HeapOrder ==
    pc = "idle" => \A i \in 2 .. items : heap[i \div 2] <= heap[i]

\* Both loops keep the array a heap but for the hole at current: parents are in
\* order around it and across it, and the item fits above what is below it
\* (heap_push()) or below what is above it (heap_pop_min()).
HoleOrder ==
    /\ pc = "sift_up" =>
          /\ current \in 1 .. items
          /\ \A i \in 2 .. items : i # current => heap[i \div 2] <= heap[i]
          /\ \A i \in 2 .. items : i \div 2 = current =>
                /\ item <= heap[i]
                /\ current > 1 => heap[current \div 2] <= heap[i]
    /\ pc = "sift_down" =>
          /\ current = 1 \/ current \in 1 .. items
          /\ items < MaxItems /\ heap[items + 1] = item
          /\ \A i \in 2 .. items : i \div 2 # current => heap[i \div 2] <= heap[i]
          /\ current > 1 =>
                /\ heap[current \div 2] <= item
                /\ \A i \in 2 .. items :
                      i \div 2 = current => heap[current \div 2] <= heap[i]

\* The array has the cells that heap->size says it has, so that heap_push() writes
\* only to cells of it ("Resize smaller", heap.c).
SizeIsAllocated == pc # "aborted" => size <= alloc

----------------------------------------------------------------------------
(* The heap implements PriorityQueue, until it overruns its array.         *)

\* The items: what is in the array once the hole is filled.
Filled ==
    IF pc \in {"sift_up", "sift_down"} THEN [heap EXCEPT ![current] = item] ELSE heap

contentsBar ==
    [k \in Keys |-> Cardinality({i \in 1 .. items : Filled[i] = k})]

Queue == INSTANCE PriorityQueue WITH contents <- contentsBar

\* heap_pop_min() returns the smallest key and removes just that one; moving items
\* about in the loops neither loses nor duplicates any.
ImplementsQueue == Queue!Spec
=============================================================================
