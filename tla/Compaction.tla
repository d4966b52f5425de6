---------------------------- MODULE Compaction ----------------------------
(***************************************************************************)
(* compact_pool (src/src/tigris_executor.c) pass by pass, from any pointer *)
(* table the executor can hold: live allocations of one pool, some of them *)
(* shared by several tensors (a reshape in place), and tensors that are    *)
(* dead or live in the other pool.  Each byte of memory is tagged with the *)
(* address it started at, so a byte that is lost or duplicated shows.      *)
(***************************************************************************)
EXTENDS TigrisMem

CONSTANTS
    Size,       \* plan->tensors[t].size_bytes
    Base,       \* fast_base or slow_base
    First,      \* fast_reserved, or the alignment offset of the slow pool
    Capacity,   \* fast_size or slow_size
    Addr        \* every address: the pool, the other pool, what surrounds them

End == Base + Capacity

ASSUME SizeAssumption == Size \in [Tensor -> Nat \ {0}]
ASSUME PoolAssumption ==
    /\ Base \in Nat \ {0} /\ First \in Nat /\ Capacity \in Nat /\ First <= Capacity
    /\ Addr \subseteq Nat /\ NULL \notin Addr
    /\ (Base + First) .. (End - 1) \subseteq Addr

\* First starts at the offset tigris_mem_init aligns, and moves by aligned sizes.
ASSUME FirstAssumption == AlignAdjust(Base + First) = 0

VARIABLES
    c,          \* the compaction in progress
    ptr0,       \* the pointer table it started from
    pc          \* "scan" in the loop, "done" after it

vars == <<c, ptr0, pc>>

InPool(a) == Base + First <= a /\ a < End

\* The aligned bytes of tensor t when it lies at address a.
Extent(a, t) == a .. (a + AlignUp(Size[t]) - 1)

\* Allocations of the pool: whole, and shared only at one address by tensors
\* of one size, which is what tigris_pure_reinterpretation asks of an alias.
\* The loader admits no tensor of zero bytes.
Disjoint(ptr) ==
    /\ \A t \in Tensor : InPool(ptr[t]) => ptr[t] + AlignUp(Size[t]) <= End
    /\ \A t, u \in Tensor : InPool(ptr[t]) /\ InPool(ptr[u]) =>
           \/ ptr[t] = ptr[u] /\ Size[t] = Size[u]
           \/ ptr[t] + AlignUp(Size[t]) <= ptr[u]
           \/ ptr[u] + AlignUp(Size[u]) <= ptr[t]

\* Every allocation starts aligned, whatever the alignment of the buffer.
Aligned(ptr) == \A t \in Tensor : AlignAdjust(ptr[t]) = 0

Init ==
    /\ ptr0 \in {p \in [Tensor -> Addr \cup {NULL}] : Disjoint(p) /\ Aligned(p)}
    /\ c = StartCompaction(ptr0, [a \in Addr |-> a], Base, First)
    /\ pc = "scan"

\* One pass that finds a live allocation.
Pass ==
    /\ pc = "scan"
    /\ \E t \in LiveFrom(c, End) :
           /\ IsLowest(c.ptr, LiveFrom(c, End), t)
           /\ c' = MoveDown(c, Size, Base, t)
    /\ UNCHANGED <<ptr0, pc>>

\* No live allocation is left: the loop ends and returns wp.
Finish ==
    /\ pc = "scan"
    /\ LiveFrom(c, End) = {}
    /\ pc' = "done"
    /\ UNCHANGED <<c, ptr0>>

Next == Pass \/ Finish

Spec == Init /\ [][Next]_vars /\ WF_vars(Next)

-----------------------------------------------------------------------------

TypeOK ==
    /\ c \in [ptr: [Tensor -> Addr \cup {NULL}], cells: [Addr -> Addr],
              wp: First .. Capacity, cursor: Nat]
    /\ ptr0 \in [Tensor -> Addr \cup {NULL}]
    /\ pc \in {"scan", "done"}

\* Compaction keeps every live tensor's bytes: after each pass a tensor reads,
\* through its current pointer, exactly the bytes it held at the start.
BytesPreserved ==
    \A t \in Tensor : InPool(ptr0[t]) =>
        \A k \in 0 .. (Size[t] - 1) : c.cells[c.ptr[t] + k] = ptr0[t] + k

\* A pass separates what was separate and keeps together what was shared: two
\* tensors share a pointer now exactly when they did at the start, and
\* allocations never overlap.
SharingPreserved ==
    /\ Disjoint(c.ptr)
    /\ \A t, u \in Tensor : InPool(ptr0[t]) /\ InPool(ptr0[u]) =>
           (c.ptr[t] = c.ptr[u]) <=> (ptr0[t] = ptr0[u])

\* Nothing outside the pool moves: neither the caller's bytes below First and
\* the other pool, nor the pointers of dead tensors and of the other pool.
OutsideUntouched ==
    /\ \A a \in Addr : ~InPool(a) => c.cells[a] = a
    /\ \A t \in Tensor : ~InPool(ptr0[t]) => c.ptr[t] = ptr0[t]

\* At the end the returned offset is exactly the live bytes: no gap is left
\* below it, and no live byte above it where the next allocation would land.
Packed ==
    pc = "done" =>
        {a \in Addr : Base + First <= a /\ a < Base + c.wp} =
        UNION {Extent(c.ptr[t], t) : t \in {u \in Tensor : InPool(c.ptr[u])}}

\* The passes compute what CompactPool says in one step, which is what the
\* executor's modules use: where each allocation ends up is independent of the
\* order of the table and of the gaps.
ComputesCompactPool ==
    pc = "done" =>
        LET r == CompactPool(ptr0, [a \in Addr |-> a], Size, Base, First, Capacity)
        IN  c.ptr = r.ptr /\ c.cells = r.cells /\ c.wp = r.wp

\* Allocations stay aligned in an unaligned buffer: wp starts on an aligned
\* address and grows by aligned sizes.
StaysAligned ==
    \A t \in Tensor : InPool(c.ptr[t]) => AlignAdjust(c.ptr[t]) = 0

\* The loop ends: each pass gets past the allocation it moved.
Terminates == <>(pc = "done")

=============================================================================
