----------------------------- MODULE TigrisMem -----------------------------
(***************************************************************************)
(* The tensor memory manager (src/src/tigris_mem.c) and the pool           *)
(* compaction the executor runs on it (compact_pool, tigris_executor.c).   *)
(*                                                                         *)
(* A memory manager is a record m:                                         *)
(*   m.ptr[t]      tensor_ptrs[t], an address or NULL                      *)
(*   m.cells[a]    the byte at address a                                   *)
(*   m.size[p]     fast_size / slow_size                                   *)
(*   m.used[p]     fast_used / slow_used, the bump offset of pool p        *)
(*   m.reserved    fast_reserved, where tigris_mem_reset_fast goes back to *)
(*                                                                         *)
(* Addresses are integers and both pools lie in one address space, so the  *)
(* pointer comparisons of the code are integer comparisons here.  The      *)
(* statistics (peaks, byte counts, trace events) are left out.             *)
(***************************************************************************)
EXTENDS Integers, FiniteSets

CONSTANTS
    ALIGN,      \* TIGRIS_TENSOR_ALIGN
    U32_MAX,    \* UINT32_MAX
    Tensor      \* the tensor indices

ASSUME AlignAssumption == ALIGN \in Nat \ {0}
ASSUME U32Assumption == U32_MAX \in Nat /\ ALIGN <= U32_MAX
ASSUME TensorAssumption == Tensor \subseteq Nat

NULL == 0

Pool == {"fast", "slow"}

\* (value + mask) & ~mask, which for a power of two drops the remainder.
AlignUp(v) == v + (ALIGN - 1) - ((v + (ALIGN - 1)) % ALIGN)

\* align_up_u32 refuses a size whose rounding would wrap.
Alignable(v) == v <= U32_MAX - (ALIGN - 1)

\* Bytes from an address to the next aligned one, 0 when it is aligned.
AlignAdjust(a) == (ALIGN - (a % ALIGN)) % ALIGN

\* memcpy and memmove of n bytes.
Copy(cells, dst, src, n) ==
    [a \in DOMAIN cells |->
        IF dst <= a /\ a < dst + n THEN cells[a - dst + src] ELSE cells[a]]

-----------------------------------------------------------------------------
(* Allocation *)

\* Mutant: compares the size before it is rounded up.
CanAllocUnrounded(m, pool, n) ==
    Alignable(n) /\ m.used[pool] <= m.size[pool] /\ n <= m.size[pool] - m.used[pool]

CanAlloc(m, pool, n) ==
    /\ Alignable(n)
    /\ m.used[pool] <= m.size[pool]
    /\ AlignUp(n) <= m.size[pool] - m.used[pool]

\* Mutant: bumps the offset by the size before it is rounded up.
AllocUnrounded(m, bases, pool, t, n) ==
    [m EXCEPT !.ptr[t] = bases[pool] + m.used[pool], !.used[pool] = @ + n]

\* alloc_bump on its success path: bases[pool] is fast_base or slow_base.
Alloc(m, bases, pool, t, n) ==
    [m EXCEPT !.ptr[t] = bases[pool] + m.used[pool],
              !.used[pool] = @ + AlignUp(n)]

\* tigris_mem_load (pool = "fast") and tigris_mem_spill (pool = "slow") on
\* their success path: a fresh allocation that takes the tensor's bytes along.
Transfer(m, bases, pool, t, n) ==
    LET moved == Alloc(m, bases, pool, t, n)
    IN  [moved EXCEPT !.cells = Copy(m.cells, moved.ptr[t], m.ptr[t], n)]

CanTransfer(m, pool, t, n) == m.ptr[t] # NULL /\ CanAlloc(m, pool, n)

\* tigris_mem_reset_fast forgets the allocations; the pointers stay as they are.
ResetFast(m) == [m EXCEPT !.used["fast"] = m.reserved]

\* Mutant: leaves stale pointers in the table.
DropNoPointers(ptr, low, high, keep) == ptr

\* Every pointer of the table that keep does not excuse and that points into
\* [low, high) becomes NULL.
DropPointers(ptr, low, high, keep) ==
    [t \in DOMAIN ptr |->
        IF low <= ptr[t] /\ ptr[t] < high /\ t \notin keep THEN NULL ELSE ptr[t]]

-----------------------------------------------------------------------------
(* Compaction.  A compaction in progress is a record                       *)
(* c = [ptr, cells, wp, cursor]: the write offset and the address the next *)
(* live allocation is searched from.                                       *)

\* Mutant: misses an allocation in the last aligned unit of the pool.
LiveButLast(c, end) == {t \in Tensor : c.cursor <= c.ptr[t] /\ c.ptr[t] < end - ALIGN}

\* The tensors the search from the cursor still finds.
LiveFrom(c, end) == {t \in Tensor : c.cursor <= c.ptr[t] /\ c.ptr[t] < end}

\* Mutant: moves allocations in the order of the table.
IsFirst(ptr, live, t) == \A u \in live : t <= u

\* t is the first tensor of the table at the lowest address of live.
IsLowest(ptr, live, t) ==
    \A u \in live : ptr[t] < ptr[u] \/ (ptr[t] = ptr[u] /\ t <= u)

\* Mutant: leaves the other tensors of a shared buffer behind.
MoveDownOne(c, size, base, t) ==
    [ptr    |-> [c.ptr EXCEPT ![t] = base + c.wp],
     cells  |-> Copy(c.cells, base + c.wp, c.ptr[t], AlignUp(size[t])),
     wp     |-> c.wp + AlignUp(size[t]),
     cursor |-> c.ptr[t] + AlignUp(size[t])]

\* Mutant: packs without keeping the alignment.
MoveDownUnrounded(c, size, base, t) ==
    [ptr    |-> [u \in DOMAIN c.ptr |-> IF c.ptr[u] = c.ptr[t] THEN base + c.wp ELSE c.ptr[u]],
     cells  |-> Copy(c.cells, base + c.wp, c.ptr[t], size[t]),
     wp     |-> c.wp + size[t],
     cursor |-> c.ptr[t] + size[t]]

\* Mutant: does not get past the allocation it moved.
MoveDownAgain(c, size, base, t) == [c EXCEPT !.ptr[t] = base + c.wp, !.cursor = base + c.wp]

\* One pass of the loop: move the allocation of t down to base + wp and
\* retarget every tensor that points at it.
MoveDown(c, size, base, t) ==
    LET src == c.ptr[t]
        dst == base + c.wp
        sz  == AlignUp(size[t])
        Retarget(p) == IF p = src THEN dst ELSE p
    IN  [ptr    |-> [u \in DOMAIN c.ptr |-> Retarget(c.ptr[u])],
         cells  |-> Copy(c.cells, dst, src, sz),
         wp     |-> c.wp + sz,
         cursor |-> src + sz]

\* Mutant: packs from the base of the buffer.
StartAtBase(ptr, cells, base, first) ==
    [ptr |-> ptr, cells |-> cells, wp |-> 0, cursor |-> base + first]

StartCompaction(ptr, cells, base, first) ==
    [ptr |-> ptr, cells |-> cells, wp |-> first, cursor |-> base + first]

\* compact_pool run to its end, which module Compaction reaches pass by pass:
\* a live allocation ends up above as many bytes as are live below it.
CompactPool(ptr, cells, size, base, first, capacity) ==
    LET live      == {t \in Tensor : base + first <= ptr[t] /\ ptr[t] < base + capacity}
        Bytes(t)  == ptr[t] .. (ptr[t] + AlignUp(size[t]) - 1)
        Target(t) == base + first + Cardinality(UNION {Bytes(u) : u \in {v \in live : ptr[v] < ptr[t]}})
        Covers(t, a) == Target(t) <= a /\ a < Target(t) + AlignUp(size[t])
    IN  [ptr   |-> [t \in DOMAIN ptr |-> IF t \in live THEN Target(t) ELSE ptr[t]],
         cells |-> [a \in DOMAIN cells |->
                       IF \E t \in live : Covers(t, a)
                       THEN LET t == CHOOSE u \in live : Covers(u, a)
                            IN  cells[a - Target(t) + ptr[t]]
                       ELSE cells[a]],
         wp    |-> first + Cardinality(UNION {Bytes(t) : t \in live})]

\* Mutant: retargets the pointers and moves no byte.
CompactFastPointers(m, bases, size) ==
    LET c == CompactPool(m.ptr, m.cells, size, bases["fast"], m.reserved, m.size["fast"])
    IN  [m EXCEPT !.ptr = c.ptr, !.used["fast"] = c.wp]

\* Mutant: packs over the weights and the caller's bytes.
CompactFastFromBase(m, bases, size) ==
    LET c == CompactPool(m.ptr, m.cells, size, bases["fast"], AlignAdjust(bases["fast"]), m.size["fast"])
    IN  [m EXCEPT !.ptr = c.ptr, !.cells = c.cells, !.used["fast"] = c.wp]

CompactFast(m, bases, size) ==
    LET c == CompactPool(m.ptr, m.cells, size, bases["fast"], m.reserved, m.size["fast"])
    IN  [m EXCEPT !.ptr = c.ptr, !.cells = c.cells, !.used["fast"] = c.wp]

\* Mutant: never packs the slow pool.
CompactSlowNever(m, bases, size) == m

CompactSlow(m, bases, size) ==
    LET c == CompactPool(m.ptr, m.cells, size, bases["slow"], AlignAdjust(bases["slow"]), m.size["slow"])
    IN  [m EXCEPT !.ptr = c.ptr, !.cells = c.cells, !.used["slow"] = c.wp]

=============================================================================
