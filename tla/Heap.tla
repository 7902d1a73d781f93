-------------------------------- MODULE Heap --------------------------------
(***************************************************************************)
(* The binary heaps: BinaryHeap of packages/cron, and PriorityQueue of     *)
(* shareds/async with and without a capacity.  An item is its priority;    *)
(* the array starts at 1 here.                                             *)
(***************************************************************************)
EXTENDS Integers, Sequences, SequencesExt, FiniteSets, FiniteSetsExt

CONSTANTS
    HeapKinds,   \* among "heap", "unbounded" and "bounded"
    Priorities,
    MaxHeap      \* the capacity of a bounded queue, a bound on the others

VARIABLE heap
\* kind and a, the array; beside the code: kept, how many items of a priority
\* there should be, and misplaced, that the queue lost its order since it was
\* empty: an eviction has put an item beneath a worse parent

HeapInit ==
    \E kind \in HeapKinds :
        heap = [kind |-> kind, a |-> <<>>, kept |-> [p \in Priorities |-> 0],
                misplaced |-> FALSE]

Swapped(a, i, j) == [a EXCEPT ![i] = a[j], ![j] = a[i]]

RECURSIVE SiftUp(_, _)
SiftUp(a, i) ==
    IF i > 1 /\ a[i] < a[i \div 2] THEN SiftUp(Swapped(a, i, i \div 2), i \div 2) ELSE a

\* Mutant of LeastOf: the right child is not compared with the left one.
LeastOfRight(a, i) ==
    LET child(s, j) == IF j <= Len(a) /\ a[j] < a[i] THEN j ELSE s
    IN  child(child(i, 2 * i), 2 * i + 1)

\* The index of the least of an item and its children, itself on a tie.
LeastOf(a, i) ==
    LET child(s, j) == IF j <= Len(a) /\ a[j] < a[s] THEN j ELSE s
    IN  child(child(i, 2 * i), 2 * i + 1)

RECURSIVE SiftDown(_, _)
SiftDown(a, i) ==
    LET s == LeastOf(a, i)
    IN  IF s = i THEN a ELSE SiftDown(Swapped(a, i, s), s)

\* The first of the worst items.
WorstIndex(a) ==
    CHOOSE i \in DOMAIN a : \A j \in DOMAIN a : a[j] < a[i] \/ (a[j] = a[i] /\ i <= j)

Pushed(a, x) == SiftUp(Append(a, x), Len(a) + 1)

\* What takes the place of the worst item is sifted down only, from a leaf.
PushedFull(a, x) ==
    IF x < a[WorstIndex(a)] THEN SiftDown([a EXCEPT ![WorstIndex(a)] = x], WorstIndex(a))
    ELSE a

Popped(a) == IF Len(a) = 1 THEN <<>> ELSE SiftDown(<<Last(a)>> \o SubSeq(a, 2, Len(a) - 1), 1)

\* remove(predicate), from the end; what the last item pushes down to i as it
\* rises is not asked.
Removed(a, S) ==
    LET step(b, i) ==
            IF b[i] \notin S THEN b
            ELSE IF i = Len(b) THEN Front(b)
            ELSE SiftUp(SiftDown([Front(b) EXCEPT ![i] = Last(b)], i), i)
    IN  FoldLeft(step, a, [i \in DOMAIN a |-> Len(a) + 1 - i])

----------------------------------------------------------------------------
\* How many there are of each, and how many more of one.
Counts(a) == [p \in Priorities |-> Cardinality({i \in DOMAIN a : a[i] = p})]
More(kept, p, n) == [kept EXCEPT ![p] = @ + n]

\* Sifting down does not mend what is less than the parent of the replaced one.
Beneath(a, i, x) == i > 1 /\ x < a[i \div 2]

PushItem(x) ==
    \/ /\ Len(heap.a) < MaxHeap
       /\ heap' = [heap EXCEPT !.a = Pushed(@, x), !.kept = More(@, x, 1)]
    \/ /\ Len(heap.a) = MaxHeap /\ heap.kind = "bounded"
       /\ LET worst == Max({p \in Priorities : heap.kept[p] > 0})
          IN  heap' = [heap EXCEPT
                !.a = PushedFull(@, x),
                !.kept = IF x < worst THEN More(More(@, worst, -1), x, 1) ELSE @,
                !.misplaced = @ \/ (x < worst /\ Beneath(heap.a, WorstIndex(heap.a), x))]

PopItem ==
    /\ heap.a # <<>>
    /\ heap' = [heap EXCEPT !.a = Popped(@), !.kept = More(@, heap.a[1], -1),
                            !.misplaced = @ /\ Len(heap.a) > 1]

\* The predicate holds for the items in S.  Of several, one may be overlooked.
RemoveItems(S) ==
    /\ heap.kind = "heap"
    /\ LET left == Removed(heap.a, S)
           one == Cardinality({i \in DOMAIN heap.a : heap.a[i] \in S}) = 1
       IN  heap' = [heap EXCEPT
                !.a = left,
                !.kept = [p \in Priorities |->
                    CASE p \notin S -> @[p] [] one -> 0 [] OTHER -> Counts(left)[p]]]

HeapNext ==
    \/ \E x \in Priorities : PushItem(x)
    \/ PopItem
    \/ \E S \in SUBSET Priorities : RemoveItems(S)

----------------------------------------------------------------------------
\* No item is before its parent, so that pop gives the least one, after any
\* sequence of pushes, pops, removals and evictions, unless an eviction has put
\* an item beneath a worse parent since the queue was last empty.
HeapIsOrdered ==
    ~heap.misplaced => \A i \in 2..Len(heap.a) : heap.a[i \div 2] <= heap.a[i]

\* Even then nothing is lost or doubled: a full queue drops the worst of what it
\* holds and what is pushed, pop takes what it gives, and remove takes nothing
\* its predicate does not hold for, and the one item it holds for.
HeapKeeps == Len(heap.a) <= MaxHeap /\ heap.kept = Counts(heap.a)
=============================================================================
