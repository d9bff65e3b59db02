-------------------------------- MODULE Heap --------------------------------
(***************************************************************************)
(* The user memory allocator (umalloc.c) and the queue built on it         *)
(* (queue.c), as operators.  An address counts units of one header.  A     *)
(* heap is the free list (ptr and size of the headers), freep and the      *)
(* break; base is address 0, below the memory sbrk returns.  thQ2 is the   *)
(* null pointer and exec() maps page 0, so the queue's own words are the   *)
(* ones a node at NULL would have: its value is size, its link is head.    *)
(***************************************************************************)
EXTENDS Integers, Sequences, FiniteSets

CONSTANTS
    NALLOC,   \* least number of units asked of sbrk
    LIMIT,    \* units sbrk can give at most
    NODE,     \* units of a queue node with its header
    STACK     \* units of a thread's stack with its header

ASSUME HeapAssumption == {NALLOC, LIMIT, NODE, STACK} \subseteq Nat \ {0}

Addr == 0..LIMIT
base == 0
NULL == -1

Fresh == [ptr |-> [a \in Addr |-> 0], size |-> [a \in Addr |-> 0], freep |-> NULL, brk |-> 1]

\* free's loop: the block after which bp belongs in the list.
RECURSIVE Before(_, _, _)
Before(h, bp, p) ==
    IF \/ bp > p /\ bp < h.ptr[p]
       \/ p >= h.ptr[p] /\ (bp > p \/ bp < h.ptr[p])
    THEN p ELSE Before(h, bp, h.ptr[p])

\* bp joined to the block above it, then to the block below.
JoinUpper(h, bp, p) ==
    IF bp + h.size[bp] = h.ptr[p]
    THEN [h EXCEPT !.size[bp] = @ + h.size[h.ptr[p]], !.ptr[bp] = h.ptr[h.ptr[p]]]
    ELSE [h EXCEPT !.ptr[bp] = h.ptr[p]]
\* Mutant: the block below is not extended.
JoinLower_Never(h, bp, p) == [h EXCEPT !.ptr[p] = bp, !.freep = p]
JoinLower(h, bp, p) ==
    IF p + h.size[p] = bp
    THEN [h EXCEPT !.size[p] = @ + h.size[bp], !.ptr[p] = h.ptr[bp], !.freep = p]
    ELSE [h EXCEPT !.ptr[p] = bp, !.freep = p]
Free(h, bp) == LET p == Before(h, bp, h.freep) IN JoinLower(JoinUpper(h, bp, p), bp, p)

\* morecore: the heap with more free units, or as it was when sbrk fails (~ok).
CanGrow(h, nu, ok) == ok /\ h.brk + nu <= LIMIT + 1
Units(nu) == IF nu < NALLOC THEN NALLOC ELSE nu
morecore(h, nu) == Free([h EXCEPT !.size[h.brk] = nu, !.brk = @ + nu], h.brk)

\* malloc: the first block from freep on that is large enough, of which the upper end
\* is taken; NULL when there is none and no more memory.
\* Mutant: a block taken whole stays in the list.
Took_Keeps(h, prevp, p, n) ==
    [heap |-> [h EXCEPT !.size[p + h.size[p] - n] = n, !.freep = prevp,
                        !.size[p] = IF @ = n THEN @ ELSE @ - n],
     at |-> p + h.size[p] - n]
Took(h, prevp, p, n) ==
    IF h.size[p] = n
    THEN [heap |-> [h EXCEPT !.ptr[prevp] = h.ptr[p], !.freep = prevp], at |-> p]
    ELSE [heap |-> [h EXCEPT !.size[p] = @ - n, !.size[p + h.size[p] - n] = n, !.freep = prevp],
          at |-> p + h.size[p] - n]
RECURSIVE Search(_, _, _, _, _)
Search(h, prevp, p, n, ok) ==
    IF h.size[p] >= n THEN Took(h, prevp, p, n)
    ELSE IF p # h.freep THEN Search(h, p, h.ptr[p], n, ok)
    ELSE IF ~CanGrow(h, Units(n), ok) THEN [heap |-> h, at |-> NULL]
    ELSE LET g == morecore(h, Units(n)) IN Search(g, g.freep, g.ptr[g.freep], n, ok)
Malloc(h, n, ok) ==
    IF h.freep # NULL THEN Search(h, h.freep, h.ptr[h.freep], n, ok)
    ELSE Search([h EXCEPT !.freep = base], base, base, n, ok)

\* The blocks of the free list other than base, from freep on.
RECURSIVE ListFrom(_, _, _)
ListFrom(h, p, seen) == IF p \in seen THEN seen ELSE ListFrom(h, h.ptr[p], seen \cup {p})
FreeList(h) == IF h.freep = NULL THEN {} ELSE ListFrom(h, h.freep, {})

(***************************************************************************)
(* The queue: size, head and tail, and the nodes' values and links.        *)
(***************************************************************************)
init_q == [size |-> 0, head |-> NULL, tail |-> NULL,
           val |-> [a \in Addr |-> 0], next |-> [a \in Addr |-> NULL]]
empty_q(q) == q.size = 0
SetValue(q, n, v) == IF n = NULL THEN [q EXCEPT !.size = v] ELSE [q EXCEPT !.val[n] = v]
SetNext(q, n, m) == IF n = NULL THEN [q EXCEPT !.head = m] ELSE [q EXCEPT !.next[n] = m]
Linked(q, n) ==
    LET linked == IF q.head = NULL THEN [q EXCEPT !.head = n] ELSE SetNext(q, q.tail, n)
    IN  [linked EXCEPT !.tail = n, !.size = @ + 1]
\* Mutant: the link of the new node is not cleared.
add_q_Stale(q, n, v) == Linked(SetValue(q, n, v), n)
\* n is the node malloc gave, or NULL: add_q does not look.
add_q(q, n, v) == Linked(SetValue(SetNext(q, n, NULL), n, v), n)
\* For a queue with a head; the head's node is freed by the caller.
pop_q(q) ==
    [q EXCEPT !.head = IF q.size = 1 THEN NULL ELSE q.next[q.head],
              !.tail = IF q.size = 1 THEN NULL ELSE @, !.size = @ - 1]
\* The nodes from the head on, following the links.
RECURSIVE Nodes(_, _, _)
Nodes(q, a, k) == IF a = NULL \/ k = 0 THEN <<>> ELSE <<a>> \o Nodes(q, q.next[a], k - 1)
=============================================================================
