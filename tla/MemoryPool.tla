----------------------------- MODULE MemoryPool -----------------------------
(***************************************************************************)
(* The allocator of internal/memory that packs container layers onto a     *)
(* virtual PMem device: a tree of regions, each a quarter of its parent.   *)
(* A pool is the set of free and the set of busy regions of all classes; a *)
(* region that is split is busy.  Regions are aligned to their size, so a  *)
(* region's parent is known from its offset.                               *)
(***************************************************************************)
EXTENDS FiniteSetsExt, Integers

CONSTANTS
    NumClasses,   \* memoryClassNumber: 7 in the code
    MinimumClassSize,
    Word          \* sizes are counted modulo Word: 2^64 in the code

ASSUME MemoryPoolAssumption ==
    /\ NumClasses \in Nat \ {0} /\ MinimumClassSize \in Nat \ {0}
    /\ Word > MinimumClassSize * 4^NumClasses

Classes == 0..(NumClasses - 1)
Largest == NumClasses - 1
GetMemoryClassSize(c) == MinimumClassSize * 4^c

\* The class is found by shifting, so a size of zero wraps around; every class
\* that is too large is NumClasses.
GetMemoryClassType(s) ==
    LET blocks == ((s - 1) % Word) \div MinimumClassSize
    IN Min({c \in Classes : blocks \div 4^c = 0} \cup {NumClasses})

Region(c, o) == [class |-> c, offset |-> o]
Parent(r) ==
    Region(r.class + 1, r.offset - (r.offset % GetMemoryClassSize(r.class + 1)))
Children(r) ==
    {Region(r.class - 1, r.offset + i * GetMemoryClassSize(r.class - 1)) : i \in 0..3}

NewPool == [free |-> {Region(Largest, 0)}, busy |-> {}]

FreeOf(pool, c) == {r \in pool.free : r.class = c}

\* The smallest class from c on that has a free region.
NextClass(pool, c) == Min({d \in c..Largest : FreeOf(pool, d) # {}} \cup {NumClasses})

\* The free region of class c with the smallest offset.
NextRegion(pool, c) ==
    CHOOSE r \in FreeOf(pool, c) : \A q \in FreeOf(pool, c) : r.offset <= q.offset

MarkBusy(pool, r) == [free |-> pool.free \ {r}, busy |-> pool.busy \cup {r}]
MarkFree(pool, r) == [free |-> pool.free \cup {r}, busy |-> pool.busy \ {r}]

\* Mutant: the region that is split stays free.
SplitKeepsFree(pool, r) == [pool EXCEPT !.free = @ \cup Children(r)]

SplitRegion(pool, r) ==
    [MarkBusy(pool, r) EXCEPT !.free = @ \cup Children(r)]

\* split: the pool with a free region of class c, made by splitting down from the
\* class the next free region was found in.
Split(pool, c) ==
    LET found == NextClass(pool, c)
        down[d \in c..found] ==
            IF d = found THEN pool ELSE SplitRegion(down[d + 1], NextRegion(down[d + 1], d + 1))
    IN down[c]

CanAllocate(pool, size) == NextClass(pool, GetMemoryClassType(size)) # NumClasses

\* The region Allocate returns, and the pool it leaves.
Allocate(pool, size) ==
    LET c == GetMemoryClassType(size)
        r == NextRegion(Split(pool, c), c)
    IN [region |-> r, pool |-> MarkBusy(Split(pool, c), r)]

\* Mutant: regions are never merged again.
NoMerge(pool, r) == pool

\* merge: while all four children of a parent are free they become the parent.
Merge(pool, r) ==
    LET up[c \in r.class..Largest] ==
            IF c = r.class THEN [pool |-> pool, at |-> r]
            ELSE LET below == up[c - 1]
                     p == Parent(below.at)
                 IN [at |-> p,
                     pool |-> IF Children(p) \subseteq below.pool.free
                              THEN MarkFree([below.pool EXCEPT !.free = @ \ Children(p)], p)
                              ELSE below.pool]
    IN up[Largest].pool

ReleaseRegion(pool, r) ==
    IF r \in pool.busy THEN Merge(MarkFree(pool, r), r) ELSE pool
=============================================================================
