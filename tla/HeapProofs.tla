----------------------------- MODULE HeapProofs -----------------------------
(***************************************************************************)
(* The heap order of util/heap.c, for any keys, any initial size and any   *)
(* number of items.                                                        *)
(***************************************************************************)
EXTENDS Heap, TLAPS, FiniteSetTheorems, WellFoundedInduction

\* What every step preserves: between operations the array is a heap, inside the
\* loops it is one but for the hole.
IInv == TypeOK /\ HeapOrder /\ HoleOrder

\* What parent() computes for the cells of the heap.
LEMMA HalfIsParent ==
    ASSUME NEW i \in Nat, i >= 2
    PROVE  /\ i \div 2 \in Nat /\ 1 <= i \div 2 /\ i \div 2 < i
           /\ i = 2 * (i \div 2) \/ i = 2 * (i \div 2) + 1
  OBVIOUS

\* heap_init() makes an empty heap.
LEMMA InitInv == Init => IInv
  BY HeapAssumption DEF Init, IInv, TypeOK, HeapOrder, HoleOrder

\* Every iteration of the loops, and what is before and after them, preserves it.
LEMMA StepInv == IInv /\ [Next]_vars => IInv'
<1> SUFFICES ASSUME IInv, [Next]_vars PROVE IInv'
  OBVIOUS
<1> USE HeapAssumption DEF IInv
<1>0. item \in Int /\ \A i \in 0 .. MaxItems : heap[i] \in Int
  BY ZenonT(40) DEF TypeOK
<1>1. ASSUME NEW k \in Keys, heap_push(k) PROVE IInv'
  <2>1. TypeOK'
    BY <1>1 DEF TypeOK, heap_push, is_full
  <2>2. HeapOrder'
    BY <1>1 DEF HeapOrder, heap_push
  <2>3. HoleOrder'
    <3>1. \A i \in 2 .. items' : i # current' => heap'[i \div 2] <= heap'[i]
      BY <1>1, HalfIsParent DEF TypeOK, HeapOrder, heap_push
    <3>2. \A i \in 2 .. items' : i \div 2 # current'
      BY <1>1, HalfIsParent DEF TypeOK, heap_push
    <3> QED
      BY <1>1, <2>1, <3>1, <3>2 DEF TypeOK, HoleOrder, heap_push
  <2> QED
    BY <2>1, <2>2, <2>3
<1>2. CASE heap_push_nomem
  BY <1>2 DEF TypeOK, HeapOrder, HoleOrder, heap_push_nomem
<1>3. CASE sift_up
  <2> DEFINE p == current \div 2
  <2>1. /\ current \in 2 .. items /\ p \in 1 .. items /\ p < current
        /\ current = 2 * p \/ current = 2 * p + 1
        /\ heap[p] > item /\ current' = p /\ heap' = [heap EXCEPT ![current] = heap[p]]
        /\ pc = "sift_up" /\ pc' = "sift_up"
        /\ UNCHANGED <<size, items, alloc, item, result>>
    BY <1>3, HalfIsParent DEF TypeOK, HoleOrder, sift_up, parent
  <2> HIDE DEF p
  <2>2. TypeOK'
    BY <2>1 DEF TypeOK
  <2>3. HeapOrder'
    BY <2>1 DEF HeapOrder
  <2>4. ASSUME NEW i \in 2 .. items, i # p PROVE heap'[i \div 2] <= heap'[i]
    <3> DEFINE q == i \div 2
    <3>1. q \in 1 .. items /\ q < i /\ i \in 0 .. MaxItems
      BY HalfIsParent DEF TypeOK
    <3>2. heap[p] \in Int /\ heap[q] \in Int /\ heap[i] \in Int
      BY <1>0, <2>1, <3>1 DEF TypeOK
    <3>3. CASE i = current
      BY <2>1, <3>2, <3>3 DEF TypeOK, p
    <3>4. CASE q = current
      <4>1. heap[p] <= heap[i]
        BY <2>1, <3>4 DEF HoleOrder, p
      <4> QED
        BY <2>1, <3>1, <3>2, <3>4, <4>1 DEF TypeOK
    <3>5. CASE i # current /\ q # current
      <4>1. heap[q] <= heap[i]
        BY <2>1, <3>5 DEF HoleOrder
      <4> QED
        BY <2>1, <3>1, <3>5, <4>1 DEF TypeOK
    <3> QED
      BY <3>3, <3>4, <3>5
  <2>5. ASSUME NEW i \in 2 .. items, i \div 2 = p
        PROVE  item <= heap'[i] /\ (p > 1 => heap'[p \div 2] <= heap'[i])
    <3>1. i # p /\ i \in 0 .. MaxItems /\ i # current => heap[p] <= heap[i]
      BY <2>1, <2>5, HalfIsParent DEF TypeOK, HoleOrder
    <3>2. heap[p] \in Int /\ heap[i] \in Int /\ item \in Int
      BY <1>0, <2>1, <3>1 DEF TypeOK
    <3>3. heap[p] <= heap'[i]
      BY <2>1, <3>1, <3>2 DEF TypeOK
    <3>4. CASE p > 1
      <4>1. p \div 2 \in 1 .. MaxItems /\ p \div 2 # current
        BY <2>1, <3>4, HalfIsParent DEF TypeOK
      <4>2. heap[p \div 2] <= heap[p] /\ heap[p \div 2] \in Int
        BY <1>0, <2>1, <3>4, <4>1 DEF HoleOrder
      <4>3. heap'[p \div 2] = heap[p \div 2] /\ heap'[i] \in Int
        BY <2>1, <3>1, <3>2, <4>1 DEF TypeOK
      <4> QED
        BY <2>1, <3>2, <3>3, <4>2, <4>3
    <3>5. heap'[i] \in Int
      BY <2>1, <3>1, <3>2 DEF TypeOK
    <3> QED
      BY <2>1, <3>2, <3>3, <3>4, <3>5
  <2> QED
    BY <2>1, <2>2, <2>3, <2>4, <2>5 DEF HoleOrder
<1>4. CASE place_pushed
  <2>1. /\ pc = "sift_up" /\ pc' = "idle" /\ heap' = [heap EXCEPT ![current] = item]
        /\ UNCHANGED <<size, items, alloc, item, current, result>>
    BY <1>4 DEF place_pushed
  <2>2. TypeOK'
    BY <2>1 DEF TypeOK
  <2>3. ASSUME NEW i \in 2 .. items PROVE heap'[i \div 2] <= heap'[i]
    <3> DEFINE q == i \div 2
    <3>1. q \in 1 .. items /\ q < i /\ i \in 0 .. MaxItems
      BY HalfIsParent DEF TypeOK
    <3>2. CASE i = current
      <4>1. heap[q] <= item
        BY <1>0, <1>4, <3>1, <3>2 DEF place_pushed, parent, TypeOK
      <4> QED
        BY <2>1, <3>1, <3>2, <4>1 DEF TypeOK
    <3>3. CASE q = current
      <4>1. item <= heap[i]
        BY <2>1, <3>3 DEF HoleOrder
      <4> QED
        BY <2>1, <3>1, <3>3, <4>1 DEF TypeOK
    <3>4. CASE i # current /\ q # current
      <4>1. heap[q] <= heap[i]
        BY <2>1, <3>4 DEF HoleOrder
      <4> QED
        BY <2>1, <3>1, <3>4, <4>1 DEF TypeOK
    <3> QED
      BY <3>2, <3>3, <3>4
  <2> QED
    BY <2>1, <2>2, <2>3 DEF HeapOrder, HoleOrder
<1>5. CASE heap_pop_min
  BY <1>5, HalfIsParent DEF TypeOK, HeapOrder, HoleOrder, heap_pop_min
<1>6. CASE heap_pop_empty
  BY <1>6 DEF TypeOK, HeapOrder, HoleOrder, heap_pop_empty
<1>7. CASE sift_down
  <2> DEFINE ch == sift_child
  <2>1. /\ 2 * current <= items /\ current \in 1 .. items
        /\ ch \in 1 .. items /\ (ch = 2 * current \/ ch = 2 * current + 1)
        /\ heap[ch] < item
        /\ \A i \in 2 .. items : i \div 2 = current => heap[ch] <= heap[i]
    <3>1. /\ pc = "sift_down" /\ 2 * current <= items
          /\ ch = smaller_child(2 * current, 2 * current + 1) /\ ch # 0
      BY <1>7 DEF sift_down, sift_child
    <3>2. current \in 1 .. items /\ items < MaxItems /\ heap[items + 1] = item
      BY <3>1 DEF TypeOK, HoleOrder
    <3>3. item \in Int /\ heap[2 * current] \in Int /\ heap[2 * current + 1] \in Int
      <4>1. 2 * current \in 0 .. MaxItems /\ 2 * current + 1 \in 0 .. MaxItems
        BY <3>1, <3>2 DEF TypeOK
      <4> QED
        BY <1>0, <4>1
    <3>4. \A i \in 2 .. items :
             i \div 2 = current => i = 2 * current \/ i = 2 * current + 1
      BY HalfIsParent DEF TypeOK
    <3>5. /\ ch = 2 * current \/ (ch = 2 * current + 1 /\ ch <= items)
          /\ heap[ch] < item
          /\ heap[ch] <= heap[2 * current]
          /\ 2 * current + 1 <= items => heap[ch] <= heap[2 * current + 1]
      BY <3>1, <3>2, <3>3 DEF smaller_child, TypeOK
    <3> QED
      BY <3>1, <3>2, <3>4, <3>5 DEF TypeOK
  <2>2. /\ current' = ch /\ heap' = [heap EXCEPT ![current] = heap[ch]]
        /\ pc = "sift_down" /\ pc' = "sift_down"
        /\ UNCHANGED <<size, items, alloc, item, result>>
    BY <1>7 DEF sift_down
  <2> HIDE DEF ch
  <2>3. TypeOK'
    BY <2>1, <2>2 DEF TypeOK
  <2>4. HeapOrder'
    BY <2>2 DEF HeapOrder
  <2>5. ASSUME NEW i \in 2 .. items, i \div 2 # ch PROVE heap'[i \div 2] <= heap'[i]
    BY <2>1, <2>2, <2>5, HalfIsParent DEF TypeOK, HoleOrder
  <2>6. ch \div 2 = current
    BY <2>1 DEF TypeOK
  <2>7. \A i \in 2 .. items : i \div 2 = ch => heap'[ch \div 2] <= heap'[i]
    BY <2>1, <2>2, <2>6, HalfIsParent DEF TypeOK, HoleOrder
  <2> QED
    <3>1. items < MaxItems /\ heap'[items + 1] = item
      BY <2>1, <2>2 DEF HoleOrder, TypeOK
    <3>2. heap'[ch \div 2] <= item
      BY <1>0, <2>1, <2>2, <2>6 DEF TypeOK
    <3> QED
      BY <2>1, <2>2, <2>3, <2>4, <2>5, <2>7, <3>1, <3>2 DEF HoleOrder
<1>8. CASE place_last
  <2>1. \A i \in 2 .. items : i \div 2 = current => item <= heap[i]
    <3>1. \A i \in 2 .. items :
             i \div 2 = current => i = 2 * current \/ i = 2 * current + 1
      BY HalfIsParent DEF TypeOK
    <3>2. CASE 2 * current > items
      BY <3>1, <3>2 DEF TypeOK
    <3>3. CASE 2 * current <= items
      <4>1. smaller_child(2 * current, 2 * current + 1) = 0
        BY <1>8, <3>3 DEF place_last, sift_child
      <4>2. 2 * current + 1 <= MaxItems
        BY <1>8, <3>3 DEF place_last, HoleOrder, TypeOK
      <4>3. /\ item \in Int /\ heap[2 * current] \in Int
            /\ heap[2 * current + 1] \in Int
        <5>1. 2 * current \in 0 .. MaxItems /\ 2 * current + 1 \in 0 .. MaxItems
          BY <4>2 DEF TypeOK
        <5> QED
          BY <1>0, <5>1
      <4>4. item <= heap[2 * current] /\ item <= heap[2 * current + 1]
        BY <4>1, <4>3 DEF smaller_child, TypeOK
      <4> QED
        BY <3>1, <4>4
    <3> QED
      BY <3>2, <3>3 DEF TypeOK
  <2> QED
    BY <1>8, <2>1, HalfIsParent DEF TypeOK, HeapOrder, HoleOrder, place_last
<1>9. CASE UNCHANGED vars
  BY <1>9 DEF TypeOK, HeapOrder, HoleOrder, vars
<1> QED
  BY <1>1, <1>2, <1>3, <1>4, <1>5, <1>6, <1>7, <1>8, <1>9 DEF Next

\* The variables of util/heap.c keep their types: no loop runs off the array.
THEOREM TypeCorrect == Spec => []TypeOK
  BY InitInv, StepInv, PTL DEF Spec, IInv

\* The array of util/heap.c is a heap between operations.
THEOREM HeapOrdered == Spec => []HeapOrder
  BY InitInv, StepInv, PTL DEF Spec, IInv

\* Inside heap_push() and heap_pop_min() it is a heap but for the hole.
THEOREM HoleOrdered == Spec => []HoleOrder
  BY InitInv, StepInv, PTL DEF Spec, IInv

----------------------------------------------------------------------------
(* The heap implements the priority queue.                                 *)

\* The cells among the first n that hold the key k.
Cells(f, n, k) == {i \in 1 .. n : f[i] = k}

\* They can be counted.
LEMMA CellsFinite ==
    ASSUME NEW f, NEW n \in Nat, NEW k
    PROVE  IsFiniteSet(Cells(f, n, k)) /\ Cardinality(Cells(f, n, k)) \in Nat
<1>1. IsFiniteSet(1 .. n)
  BY FS_Interval
<1>2. Cells(f, n, k) \in SUBSET (1 .. n)
  BY DEF Cells
<1> QED
  BY Zenon, <1>1, <1>2, FS_Subset, FS_CardinalityType

\* g is f, of whose first n cells a and b are exchanged.
Swapped(f, g, n, a, b) ==
    /\ a \in 1 .. n /\ b \in 1 .. n
    /\ g[a] = f[b] /\ g[b] = f[a]
    /\ \A i \in 1 .. n : i # a /\ i # b => g[i] = f[i]

\* An iteration of a loop exchanges the hole with its parent or one of its children:
\* no key is lost, none is duplicated.
LEMMA SwapKeepsCount ==
    ASSUME NEW n \in Nat, NEW f, NEW g, NEW a, NEW b, NEW k, Swapped(f, g, n, a, b)
    PROVE  Cardinality(Cells(g, n, k)) = Cardinality(Cells(f, n, k))
<1> DEFINE F == Cells(f, n, k)
           G == Cells(g, n, k)
<1>1. IsFiniteSet(F) /\ IsFiniteSet(G) /\ Cardinality(F) \in Nat
  BY Zenon, CellsFinite
<1>2. CASE (f[a] = k) = (f[b] = k)
  <2>1. F = G
    BY <1>2 DEF Cells, Swapped
  <2> QED
    BY Zenon, <2>1
<1>3. CASE f[a] = k /\ f[b] # k
  <2>1. G = (F \ {a}) \cup {b} /\ a \in F /\ b \notin F
    BY <1>3 DEF Cells, Swapped
  <2> HIDE DEF F, G
  <2>2. IsFiniteSet(F \ {a}) /\ Cardinality(F \ {a}) = Cardinality(F) - 1
    BY <1>1, <2>1, FS_RemoveElement
  <2>3. Cardinality(G) = Cardinality(F \ {a}) + 1
    BY <2>1, <2>2, FS_AddElement
  <2>4. Cardinality(G) = Cardinality(F)
    BY <1>1, <2>2, <2>3
  <2> QED
    BY Zenon, <2>4 DEF F, G
<1>4. CASE f[a] # k /\ f[b] = k
  <2>1. G = (F \ {b}) \cup {a} /\ b \in F /\ a \notin F
    BY <1>4 DEF Cells, Swapped
  <2> HIDE DEF F, G
  <2>2. IsFiniteSet(F \ {b}) /\ Cardinality(F \ {b}) = Cardinality(F) - 1
    BY <1>1, <2>1, FS_RemoveElement
  <2>3. Cardinality(G) = Cardinality(F \ {b}) + 1
    BY <2>1, <2>2, FS_AddElement
  <2>4. Cardinality(G) = Cardinality(F)
    BY <1>1, <2>2, <2>3
  <2> QED
    BY Zenon, <2>4 DEF F, G
<1> QED
  BY Zenon, <1>2, <1>3, <1>4

\* f and g have the same first n cells.
SameUpTo(f, g, n) == \A i \in 1 .. n : g[i] = f[i]

\* One more cell, and what it adds to the count of a key.
LEMMA OneMoreCell ==
    ASSUME NEW n \in Nat, NEW f, NEW g, NEW k, SameUpTo(f, g, n)
    PROVE  Cardinality(Cells(g, n + 1, k)) =
              IF g[n + 1] = k THEN Cardinality(Cells(f, n, k)) + 1
              ELSE Cardinality(Cells(f, n, k))
<1>1. /\ g[n + 1] = k => Cells(g, n + 1, k) = Cells(f, n, k) \cup {n + 1}
      /\ g[n + 1] # k => Cells(g, n + 1, k) = Cells(f, n, k)
      /\ n + 1 \notin Cells(f, n, k)
  BY DEF Cells, SameUpTo
<1>2. IsFiniteSet(Cells(f, n, k))
  BY Zenon, CellsFinite
<1>3. Cardinality(Cells(f, n, k) \cup {n + 1}) = Cardinality(Cells(f, n, k)) + 1
  BY Zenon, <1>1, <1>2, FS_AddElement
<1> QED
  BY Zenon, <1>1, <1>3

\* Of a set of cells that is not empty, one comes first.
LEMMA FirstCell ==
    ASSUME NEW S \in SUBSET Nat, S # {}
    PROVE  \E m \in S : \A i \in S : m <= i
<1> DEFINE R == {p \in Nat \X Nat : p[1] < p[2]}
<1>1. IsWellFoundedOn(R, Nat)
  BY NatLessThanWellFounded DEF OpToRel
<1> HIDE DEF R
<1>2. \E m \in S : \A i \in S : ~(<<i, m>> \in R)
  BY Zenon, <1>1, WFMin
<1>3. ASSUME NEW i \in Nat, NEW m \in Nat, ~(<<i, m>> \in R) PROVE m <= i
  BY <1>3 DEF R
<1> QED
  BY Zenon, <1>2, <1>3

\* heap_min() reads the least key from cell 1: the first cell with a lesser one would
\* be less than its parent.
LEMMA RootIsLeast ==
    ASSUME IInv, pc = "idle", NEW j \in 1 .. items
    PROVE  heap[1] <= heap[j]
<1>0. items \in Nat /\ \A i \in 1 .. items : heap[i] \in Int
  <2>1. items \in Nat /\ \A i \in 1 .. items : i \in 0 .. MaxItems
    BY HeapAssumption DEF IInv, TypeOK
  <2> QED
    BY Zenon, <2>1, HeapAssumption DEF IInv, TypeOK
<1> DEFINE S == {i \in 1 .. items : heap[i] < heap[1]}
<1>1. S = {}
  <2> SUFFICES ASSUME S # {} PROVE FALSE
    OBVIOUS
  <2>1. S \in SUBSET Nat
    BY <1>0
  <2>2. PICK m \in S : \A i \in S : m <= i
    BY Zenon, <2>1, FirstCell
  <2>3. m \in 1 .. items /\ m \in Nat /\ heap[m] < heap[1] /\ m # 1 /\ 1 \in 1 .. items
    BY <1>0, <2>2
  <2>4. m \div 2 \in 1 .. items /\ m \div 2 < m
    BY <1>0, <2>3, HalfIsParent
  <2>5. heap[m \div 2] <= heap[m]
    BY <1>0, <2>3 DEF IInv, HeapOrder
  <2>6. m \div 2 \notin S
    BY <1>0, <2>2, <2>3, <2>4
  <2> QED
    BY <1>0, <2>3, <2>4, <2>5, <2>6
<1> QED
  BY <1>0, <1>1

\* What the array holds once the hole is filled.
LEMMA FilledType ==
    ASSUME IInv
    PROVE  /\ items \in Nat
           /\ Filled \in [0 .. MaxItems -> Keys] /\ heap \in [0 .. MaxItems -> Keys]
           /\ \A i \in 1 .. items : i \in 0 .. MaxItems
  BY HeapAssumption DEF IInv, TypeOK, Filled

\* A step that changes the count of no key is none of the queue's.
LEMMA SameCounts ==
    ASSUME \A k \in Keys : Cardinality(Cells(Filled', items', k)) =
                           Cardinality(Cells(Filled, items, k))
    PROVE  contentsBar' = contentsBar
  BY Zenon DEF contentsBar, Cells

\* heap_push() adds its key, at the first instruction that writes it to the array.
LEMMA Sim_heap_push ==
    ASSUME IInv, NEW k \in Keys, heap_push(k)
    PROVE  Queue!Push(k)
<1> USE HeapAssumption
<1>1. /\ pc = "idle" /\ items' = items + 1 /\ result' = result /\ items + 1 \in 1 .. MaxItems
      /\ heap' = [heap EXCEPT ![items + 1] = k] /\ item' = k /\ current' = items + 1
  BY DEF heap_push, IInv, TypeOK
<1>2. Filled = heap /\ Filled' = heap'
  <2>1. heap' = [heap' EXCEPT ![items + 1] = k]
    BY ZenonT(40), <1>1, FilledType
  <2> QED
    BY Zenon, <1>1, <2>1 DEF Filled
<1>3. Filled'[items + 1] = k /\ SameUpTo(Filled, Filled', items)
  BY <1>1, <1>2, FilledType DEF SameUpTo
<1>4. ASSUME NEW j \in Keys
      PROVE  Cardinality(Cells(Filled', items', j)) =
               IF j = k THEN Cardinality(Cells(Filled, items, j)) + 1
               ELSE Cardinality(Cells(Filled, items, j))
  <2>1. items \in Nat
    BY Zenon, FilledType
  <2>2. Cardinality(Cells(Filled', items + 1, j)) =
          IF Filled'[items + 1] = j THEN Cardinality(Cells(Filled, items, j)) + 1
          ELSE Cardinality(Cells(Filled, items, j))
    BY <1>3, <2>1, OneMoreCell
  <2> QED
    BY Zenon, <1>1, <1>3, <2>2
<1>5. contentsBar' = [contentsBar EXCEPT ![k] = @ + 1]
  BY ZenonT(40), <1>4 DEF contentsBar, Cells
<1> QED
  BY Zenon, <1>1, <1>5 DEF Queue!Push

\* Moving the hole up in heap_push() changes the count of no key.
LEMMA Sim_sift_up ==
    ASSUME IInv, sift_up
    PROVE  contentsBar' = contentsBar /\ result' = result
<1> USE HeapAssumption
<1> DEFINE p == current \div 2
<1>1. /\ current \in 1 .. items /\ p \in 1 .. items /\ p # current
      /\ current' = p /\ heap' = [heap EXCEPT ![current] = heap[p]]
      /\ pc = "sift_up" /\ pc' = "sift_up"
      /\ UNCHANGED <<items, item, result>>
  BY HalfIsParent DEF IInv, TypeOK, HoleOrder, sift_up, parent
<1> HIDE DEF p
<1>2. /\ Filled = [heap EXCEPT ![current] = item]
      /\ Filled' = [heap' EXCEPT ![p] = item]
  BY Zenon, <1>1 DEF Filled
<1>3. Swapped(Filled, Filled', items, current, p)
  BY <1>1, <1>2, FilledType DEF Swapped
<1>4. \A k \in Keys : Cardinality(Cells(Filled', items', k)) =
                      Cardinality(Cells(Filled, items, k))
  <2>1. items \in Nat
    BY Zenon, FilledType
  <2>2. \A k \in Keys : Cardinality(Cells(Filled', items, k)) =
                        Cardinality(Cells(Filled, items, k))
    BY <1>3, <2>1, SwapKeepsCount
  <2> QED
    BY Zenon, <1>1, <2>2
<1> QED
  BY Zenon, <1>1, <1>4, SameCounts

\* Moving the hole down in heap_pop_min() changes the count of no key.
LEMMA Sim_sift_down ==
    ASSUME IInv, sift_down
    PROVE  contentsBar' = contentsBar /\ result' = result
<1> USE HeapAssumption
<1> DEFINE c == sift_child
<1>1. 2 * current <= items /\ current \in 1 .. items /\ c # 0
  BY DEF IInv, TypeOK, sift_down, sift_child
<1>2. c \in 1 .. items /\ c # current
  <2>1. c = 2 * current \/ (c = 2 * current + 1 /\ c <= items)
    <3>0. items < MaxItems /\ heap[items + 1] = item
      BY Zenon DEF IInv, HoleOrder, sift_down
    <3>1. 2 * current \in 0 .. MaxItems /\ item \in Int
      BY <1>1, <3>0 DEF IInv, TypeOK
    <3>2. heap[2 * current] \in Int
      BY ZenonT(40), <3>1 DEF IInv, TypeOK
    <3> QED
      BY <1>1, <3>0, <3>1, <3>2 DEF sift_child, smaller_child, IInv, TypeOK
  <2> QED
    BY <1>1, <2>1 DEF IInv, TypeOK
<1>3. /\ current' = c /\ heap' = [heap EXCEPT ![current] = heap[c]]
      /\ pc = "sift_down" /\ pc' = "sift_down"
      /\ UNCHANGED <<items, item, result>>
  BY Zenon DEF sift_down
<1> HIDE DEF c
<1>4. /\ Filled = [heap EXCEPT ![current] = item]
      /\ Filled' = [heap' EXCEPT ![c] = item]
  BY Zenon, <1>3 DEF Filled
<1>5. Swapped(Filled, Filled', items, current, c)
  BY <1>1, <1>2, <1>3, <1>4, FilledType DEF Swapped
<1>6. \A k \in Keys : Cardinality(Cells(Filled', items', k)) =
                      Cardinality(Cells(Filled, items, k))
  <2>1. items \in Nat
    BY Zenon, FilledType
  <2>2. \A k \in Keys : Cardinality(Cells(Filled', items, k)) =
                        Cardinality(Cells(Filled, items, k))
    BY <1>5, <2>1, SwapKeepsCount
  <2> QED
    BY Zenon, <1>3, <2>2
<1> QED
  BY Zenon, <1>3, <1>6, SameCounts

\* heap_pop_min() takes the root out, and the root holds the least key.
LEMMA Sim_heap_pop_min ==
    ASSUME IInv, heap_pop_min
    PROVE  Queue!PopMin(heap[1])
<1> USE HeapAssumption
<1> DEFINE n == items - 1
           g == [heap EXCEPT ![1] = heap[items], ![items] = heap[1]]
<1>1. /\ pc = "idle" /\ pc' = "sift_down" /\ items \in 1 .. MaxItems /\ items' = n
      /\ n \in Nat /\ items = n + 1 /\ 1 \in 1 .. items /\ items \in Nat
      /\ heap' = [heap EXCEPT ![1] = heap[items]] /\ item' = heap[items]
      /\ current' = 1 /\ result' = heap[1]
  BY DEF heap_pop_min, IInv, TypeOK
<1>2. /\ heap \in [0 .. MaxItems -> Keys] /\ heap[1] \in Keys
      /\ \A i \in 1 .. items : i \in 0 .. MaxItems
  BY <1>1, FilledType
<1>3. Filled = heap /\ Filled' = heap'
  <2>1. heap' = [heap' EXCEPT ![1] = heap[items]]
    BY ZenonT(40), <1>1, <1>2
  <2> QED
    BY Zenon, <1>1, <2>1 DEF Filled
<1>4. Swapped(heap, g, items, 1, items) /\ SameUpTo(heap', g, n) /\ g[items] = heap[1]
  BY <1>1, <1>2 DEF Swapped, SameUpTo
<1> HIDE DEF n, g
<1>5. ASSUME NEW j \in Keys
      PROVE  /\ Cardinality(Cells(heap, items, j)) =
                  IF heap[1] = j THEN Cardinality(Cells(heap', n, j)) + 1
                  ELSE Cardinality(Cells(heap', n, j))
             /\ Cardinality(Cells(heap', n, j)) \in Nat
  <2>1. Cardinality(Cells(g, items, j)) = Cardinality(Cells(heap, items, j))
    BY <1>1, <1>4, SwapKeepsCount
  <2>2. Cardinality(Cells(g, n + 1, j)) =
          IF g[n + 1] = j THEN Cardinality(Cells(heap', n, j)) + 1
          ELSE Cardinality(Cells(heap', n, j))
    BY <1>1, <1>4, OneMoreCell
  <2>3. Cardinality(Cells(heap', n, j)) \in Nat
    BY Zenon, <1>1, CellsFinite
  <2> QED
    BY Zenon, <1>1, <1>4, <2>1, <2>2, <2>3
<1>6. /\ \A j \in Keys : contentsBar[j] = Cardinality(Cells(heap, items, j))
      /\ contentsBar' = [j \in Keys |-> Cardinality(Cells(heap', n, j))]
  BY Zenon, <1>1, <1>3 DEF contentsBar, Cells
<1>7. contentsBar[heap[1]] > 0
  <2>1. contentsBar[heap[1]] = Cardinality(Cells(heap', n, heap[1])) + 1
    BY Zenon, <1>2, <1>5, <1>6
  <2>2. Cardinality(Cells(heap', n, heap[1])) \in Nat
    BY Zenon, <1>2, <1>5
  <2> QED
    BY <2>1, <2>2
<1>8. ASSUME NEW j \in Keys, contentsBar[j] > 0 PROVE heap[1] <= j
  <2>1. Cells(heap, items, j) # {}
    BY <1>6, <1>8, FS_EmptySet
  <2>2. PICK i \in 1 .. items : heap[i] = j
    BY Zenon, <2>1 DEF Cells
  <2> QED
    BY Zenon, <1>1, <2>2, RootIsLeast
<1>9. contentsBar' = [contentsBar EXCEPT ![heap[1]] = @ - 1]
  <2>1. \A j \in Keys : Cardinality(Cells(heap', n, j)) =
          IF j = heap[1] THEN contentsBar[j] - 1 ELSE contentsBar[j]
    BY <1>5, <1>6
  <2>2. contentsBar = [j \in Keys |-> contentsBar[j]]
    BY Zenon DEF contentsBar
  <2> HIDE DEF contentsBar
  <2> QED
    BY <1>2, <1>6, <2>1, <2>2
<1> QED
  BY Zenon, <1>1, <1>7, <1>8, <1>9 DEF Queue!PopMin

\* Every step of util/heap.c is one step of the queue, or none.
LEMMA StepMaps ==
    ASSUME IInv, [Next]_vars
    PROVE  [Queue!Next]_(Queue!vars)
<1> USE HeapAssumption
<1> SUFFICES Queue!Next \/ (contentsBar' = contentsBar /\ result' = result)
  BY Zenon DEF Queue!vars
<1>1. ASSUME NEW k \in Keys, heap_push(k) PROVE Queue!Next
  BY Zenon, <1>1, Sim_heap_push DEF Queue!Next
<1>2. CASE heap_push_nomem
  BY Zenon, <1>2 DEF heap_push_nomem, contentsBar, Filled
<1>3. CASE sift_up
  BY Zenon, <1>3, Sim_sift_up
<1>4. CASE place_pushed
  <2>1. Filled' = Filled /\ items' = items /\ result' = result
    BY Zenon, <1>4 DEF place_pushed, Filled
  <2> QED
    BY Zenon, <2>1 DEF contentsBar
<1>5. CASE heap_pop_min
  <2>1. heap[1] \in Keys
    BY DEF IInv, TypeOK
  <2> QED
    BY Zenon, <1>5, <2>1, Sim_heap_pop_min DEF Queue!Next
<1>6. CASE heap_pop_empty
  <2>1. /\ pc = "idle" /\ pc' = "idle" /\ items = 0 /\ items' = 0 /\ heap' = heap
        /\ result' = Null
    BY Zenon, <1>6 DEF heap_pop_empty
  <2>2. \A k \in Keys : {i \in 1 .. items : Filled[i] = k} = {}
    BY <2>1
  <2>3. \A k \in Keys : contentsBar[k] = 0
    BY Zenon, <2>2, FS_EmptySet DEF contentsBar
  <2>4. contentsBar' = contentsBar
    BY Zenon, <2>1 DEF contentsBar, Filled
  <2> QED
    BY Zenon, <2>1, <2>3, <2>4 DEF Queue!Next, Queue!PopNothing
<1>7. CASE sift_down
  BY Zenon, <1>7, Sim_sift_down
<1>8. CASE place_last
  <2>1. Filled' = Filled /\ items' = items /\ result' = result
    BY Zenon, <1>8 DEF place_last, Filled
  <2> QED
    BY Zenon, <2>1 DEF contentsBar
<1>9. CASE UNCHANGED vars
  BY Zenon, <1>9 DEF vars, contentsBar, Filled
<1> QED
  BY ZenonT(40), <1>1, <1>2, <1>3, <1>4, <1>5, <1>6, <1>7, <1>8, <1>9 DEF Next

\* heap_init() makes an empty queue.
LEMMA InitMaps == Init => Queue!Init
<1> SUFFICES ASSUME Init PROVE Queue!Init
  BY Zenon
<1>1. items = 0 /\ result = Null
  BY Zenon DEF Init
<1>2. \A k \in Keys : {i \in 1 .. items : Filled[i] = k} = {}
  BY <1>1
<1>3. contentsBar = [k \in Keys |-> 0]
  BY Zenon, <1>2, FS_EmptySet DEF contentsBar
<1> QED
  BY Zenon, <1>1, <1>3 DEF Queue!Init

\* util/heap.c implements a priority queue: heap_pop_min() returns the least of the
\* keys pushed and not yet popped and removes that one only, however the loops of
\* heap_push() and heap_pop_min() move the items.
THEOREM Implements == Spec => ImplementsQueue
<1>1. IInv /\ [Next]_vars => [Queue!Next]_(Queue!vars)
  BY Zenon, StepMaps
<1> QED
  BY InitInv, StepInv, InitMaps, <1>1, PTL DEF Spec, ImplementsQueue, Queue!Spec
=============================================================================
