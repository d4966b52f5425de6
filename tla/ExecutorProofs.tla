--------------------------- MODULE ExecutorProofs ---------------------------
(***************************************************************************)
(* The executor's memory for every plan the loader admits: the caller's    *)
(* steps between runs, the beginning of a run, and what follows; and that  *)
(* what the caller of tigris_run_with_state keeps in the fast arena is     *)
(* never written over (CallerBytesKept), with the invariant that makes it  *)
(* inductive.                                                              *)
(***************************************************************************)
EXTENDS RunProofs

-----------------------------------------------------------------------------
(* The caller *)

LEMMA FreshIdle ==
    ASSUME Loaded(plan), NEW size \in [Pool -> Nat],
           FirstOf("fast") <= size["fast"], FirstOf("slow") <= size["slow"],
           \/ Bases["fast"] + size["fast"] <= Bases["slow"]
           \/ Bases["slow"] + size["slow"] <= Bases["fast"]
    PROVE  Idle(FreshMem(size)) /\ ~SomePending(FreshMem(size))
<1>1. PICK mem : mem = FreshMem(size)
  OBVIOUS
<1>2. /\ Bases["fast"] \in Nat /\ Bases["fast"] > 0 /\ Bases["slow"] \in Nat
      /\ FirstOf("fast") \in Nat /\ FirstOf("slow") \in Nat
      /\ size["fast"] \in Nat /\ size["slow"] \in Nat
  BY Numbers DEF Pool
<1>3. /\ mem = [ptr |-> mem.ptr, cells |-> mem.cells, size |-> mem.size, used |-> mem.used,
                reserved |-> mem.reserved]
      /\ mem.ptr = [t \in Tensor |-> NULL] /\ mem.size = size
      /\ mem.used = [p \in Pool |-> FirstOf(p)] /\ mem.reserved = FirstOf("fast")
      /\ DOMAIN mem.cells = UNION {Bases[p] .. (Bases[p] + size[p] - 1) : p \in Pool}
  BY <1>1 DEF FreshMem, FirstOf
<1>4. mem.ptr \in [Tensor -> Nat] /\ mem.used \in [Pool -> Nat]
  <2>1. \A p \in Pool : FirstOf(p) \in Nat
    BY <1>2 DEF Pool
  <2>2. QED
    BY <1>3, <2>1 DEF NULL
<1>5. IsMemory(mem)
  BY <1>2, <1>3, <1>4 DEF IsMemory
<1>6. mem.used["fast"] = FirstOf("fast") /\ mem.used["slow"] = FirstOf("slow")
  BY <1>3 DEF Pool
<1>7. DOMAIN mem.cells = (Bases["fast"] .. Bases["fast"] + size["fast"] - 1)
                         \cup (Bases["slow"] .. Bases["slow"] + size["slow"] - 1)
  BY <1>3 DEF Pool
<1>8. Arenas(mem, mem.size["fast"])
  BY <1>2, <1>3, <1>5, <1>6, <1>7 DEF Arenas
<1>9. ASSUME NEW t \in Tensor PROVE mem.ptr[t] = NULL /\ IdleSlot(mem, t) /\ ~Pending(mem, t)
  BY <1>2, <1>3 DEF IdleSlot, Pending, InFast, NULL
<1>10. Clear(Blocks(Masked(mem), plan.size))
  <2>1. \A t \in Tensor : Masked(mem)[t] = NULL
    BY <1>9 DEF Masked
  <2>2. Blocks(Masked(mem), plan.size) = {}
    BY <2>1 DEF Blocks
  <2>3. QED
    BY <2>2 DEF Clear
<1>11. Idle(mem)
  BY <1>2, <1>3, <1>6, <1>8, <1>9, <1>10 DEF Idle
<1>12. QED
  BY <1>1, <1>9, <1>11 DEF SomePending

\* Bytes may be rewritten and room taken off the fast arena.
LEMMA IdleGrows ==
    ASSUME Loaded(plan), NEW mem, Idle(mem), NEW other, IsMemory(other),
           DOMAIN other.cells = DOMAIN mem.cells, other.ptr = mem.ptr,
           other.size["fast"] = mem.size["fast"], other.size["slow"] = mem.size["slow"],
           other.used["slow"] = mem.used["slow"], other.reserved = mem.reserved,
           mem.used["fast"] <= other.used["fast"], other.used["fast"] <= mem.size["fast"]
    PROVE  /\ Idle(other) /\ \A t \in Tensor : Pending(other, t) <=> Pending(mem, t)
           /\ SomePending(other) <=> SomePending(mem)
<1>1. IsMemory(mem)
  BY DEF Idle, Arenas
<1>2. /\ mem.used["fast"] \in Nat /\ other.used["fast"] \in Nat /\ mem.size["fast"] \in Nat
      /\ mem.reserved \in Nat /\ Bases["fast"] \in Nat
  BY <1>1, MemoryNumbers, Numbers
<1>3. \A t \in Tensor : Pending(other, t) <=> Pending(mem, t)
  BY DEF Pending
<1>4. Masked(other) = Masked(mem)
  BY <1>3 DEF Masked
<1>5. ASSUME NEW t \in Tensor, IdleSlot(mem, t) PROVE IdleSlot(other, t)
  <2>1. mem.ptr[t] \in Nat /\ Span(t) \in Nat
    BY <1>1, MemoryNumbers, Numbers
  <2>2. QED
    BY <1>2, <1>5, <2>1 DEF IdleSlot, InFast
<1>6. Arenas(other, other.size["fast"])
  BY DEF Idle, Arenas
<1>7. other.reserved = FirstOf("fast") /\ other.reserved <= other.used["fast"] /\ other.used["fast"] <= other.size["fast"]
  BY <1>2 DEF Idle
<1>8. Idle(other)
  BY <1>3, <1>4, <1>5, <1>6, <1>7 DEF Idle
<1>9. QED
  BY <1>3, <1>8 DEF SomePending

LEMMA IdleShape ==
    ASSUME Loaded(plan), NEW mem, Idle(mem), NEW other, SameShape(mem, other)
    PROVE  /\ Idle(other) /\ (SomePending(other) <=> SomePending(mem))
           /\ \A b : Layout(mem, b) => Layout(other, b)
<1>1. /\ IsMemory(other) /\ DOMAIN other.cells = DOMAIN mem.cells /\ other.ptr = mem.ptr
      /\ other.size["fast"] = mem.size["fast"] /\ other.size["slow"] = mem.size["slow"]
      /\ other.used["slow"] = mem.used["slow"] /\ other.reserved = mem.reserved
      /\ other.used["fast"] = mem.used["fast"]
  BY DEF SameShape
<1>2. mem.used["fast"] <= other.used["fast"] /\ other.used["fast"] <= mem.size["fast"]
  <2>1. mem.used["fast"] \in Nat
    BY MemoryNumbers DEF Idle, Arenas
  <2>2. QED
    BY <1>1, <2>1 DEF Idle
<1>3. /\ Idle(other) /\ (SomePending(other) <=> SomePending(mem))
      /\ \A t \in Tensor : Pending(other, t) <=> Pending(mem, t)
  BY <1>1, <1>2, IdleGrows
<1>4. ASSUME NEW b, Layout(mem, b) PROVE Layout(other, b)
  BY <1>1, <1>3, <1>4 DEF Layout
<1>5. QED
  BY <1>3, <1>4

\* The steps of the caller that leave the pointers alone.
LEMMA IdleStepKeeps ==
    ASSUME ControlInv, IdleInv, HoldRuns \in 0 .. 1,
           MemInit \/ CallerAlloc \/ StateInit \/ Collect
    PROVE  MemoryInv'
<1>1. Loaded(plan) /\ pc \in {"idle", "returned"} /\ ~Running /\ Idle(m)
  BY DEF ControlInv, Counters, MemInit, CallerAlloc, StateInit, Collect, IdleInv, Running
<1>2. pc' = "idle" /\ plan' = plan /\ runs' = runs /\ ~Running'
  BY DEF MemInit, CallerAlloc, StateInit, Collect, Running
<1>3. PICK mem, other : mem = m /\ other = m'
  OBVIOUS
<1>4. ASSUME Idle(other), SomePending(other) => runs >= 1 /\ \E b \in Nat : Layout(other, b)
      PROVE  MemoryInv'
  <2>1. Idle(other)' /\ (SomePending(other)' => runs >= 1 /\ \E b \in Nat : Layout(other, b)')
    BY <1>2, <1>4, IdleStays
  <2>2. QED
    BY <1>2, <1>3, <2>1 DEF MemoryInv, RunInv, IdleInv
<1>5. CASE MemInit
  <2>1. PICK size : size = mem.size /\ other = FreshMem(size)
    BY <1>3, <1>5 DEF MemInit
  <2>2. /\ size \in [Pool -> Nat] /\ FirstOf("fast") <= size["fast"] /\ FirstOf("slow") <= size["slow"]
        /\ \/ Bases["fast"] + size["fast"] <= Bases["slow"]
           \/ Bases["slow"] + size["slow"] <= Bases["fast"]
    <3>1. Arenas(mem, size["fast"]) /\ IsMemory(mem)
      BY <1>1, <1>3, <2>1 DEF Idle, Arenas
    <3>2. /\ mem.used["fast"] \in Nat /\ mem.used["slow"] \in Nat /\ size["fast"] \in Nat /\ size["slow"] \in Nat
          /\ FirstOf("fast") \in Nat /\ FirstOf("slow") \in Nat
      BY <1>1, <2>1, <3>1, MemoryNumbers, Numbers
    <3>3. FirstOf("fast") <= mem.used["fast"] /\ mem.used["fast"] <= size["fast"]
      BY <1>1, <1>3, <2>1 DEF Idle
    <3>4. FirstOf("slow") <= mem.used["slow"] /\ mem.used["slow"] <= size["slow"]
      BY <2>1, <3>1 DEF Arenas
    <3>5. size \in [Pool -> Nat]
      BY <2>1, <3>1 DEF IsMemory
    <3>6. \/ Bases["fast"] + size["fast"] <= Bases["slow"]
          \/ Bases["slow"] + size["slow"] <= Bases["fast"]
      BY <2>1, <3>1 DEF Arenas
    <3>7. QED
      BY <3>2, <3>3, <3>4, <3>5, <3>6
  <2>3. Idle(other) /\ ~SomePending(other)
    BY <1>1, <2>1, <2>2, FreshIdle
  <2>4. QED
    BY <1>4, <2>3
<1>6. CASE CallerAlloc
  <2>1. PICK used \in Nat, top \in Nat, size \in Nat :
            used = mem.used["fast"] /\ top = used + ALIGN /\ size = mem.size["fast"] /\ top <= size
    <3>1. mem.used["fast"] \in Nat /\ mem.size["fast"] \in Nat
      BY <1>1, <1>3, MemoryNumbers DEF Idle, Arenas
    <3>2. ALIGN \in Nat /\ ALIGN <= mem.size["fast"] - mem.used["fast"]
      BY <1>3, <1>6, AlignAssumption DEF CallerAlloc
    <3>3. QED
      BY <3>1, <3>2
  <2>2. PICK a, wrote : wrote = WriteAt(mem, a, ALIGN, CallerValue) /\ other = [wrote EXCEPT !.used["fast"] = @ + ALIGN]
    BY <1>3, <1>6 DEF CallerAlloc
  <2>3. IsMemory(mem) /\ SameShape(mem, wrote)
    BY <1>1, <1>3, <2>2, WriteAtShape DEF Idle, Arenas
  <2>4. FastBounds(wrote, size, top, mem.reserved, other)
    <3>1. IsMemory(wrote) /\ wrote.used["fast"] = used /\ wrote.size["fast"] = size /\ wrote.reserved = mem.reserved
      BY <2>1, <2>3 DEF SameShape
    <3>2. other = [ptr |-> wrote.ptr, cells |-> wrote.cells, size |-> wrote.size,
                   used |-> [wrote.used EXCEPT !["fast"] = wrote.used["fast"] + ALIGN], reserved |-> wrote.reserved]
      BY <2>2, <3>1 DEF IsMemory
    <3>3. wrote.size = [wrote.size EXCEPT !["fast"] = size] /\ wrote.reserved \in Nat
      BY <3>1 DEF IsMemory, Pool
    <3>4. QED
      BY <2>1, <3>1, <3>2, <3>3, SetBounds
  <2>5. /\ IsMemory(other) /\ DOMAIN other.cells = DOMAIN mem.cells /\ other.ptr = mem.ptr
        /\ other.size["fast"] = mem.size["fast"] /\ other.size["slow"] = mem.size["slow"]
        /\ other.used["slow"] = mem.used["slow"] /\ other.reserved = mem.reserved
        /\ mem.used["fast"] <= other.used["fast"] /\ other.used["fast"] <= mem.size["fast"]
    <3>1. used <= top
      BY <2>1, AlignAssumption
    <3>2. QED
      BY <2>1, <2>3, <2>4, <3>1 DEF FastBounds, SameShape
  <2>6. Idle(other) /\ (SomePending(other) <=> SomePending(mem))
    BY <1>1, <1>3, <2>5, IdleGrows
  <2>7. ~SomePending(mem)
    <3>1. runs < HoldRuns /\ runs \in Nat
      BY <1>6, MaxRunsAssumption DEF CallerAlloc, ControlInv, Counters
    <3>2. ~(runs >= 1)
      BY <3>1
    <3>3. QED
      BY <1>1, <1>3, <3>2 DEF IdleInv
  <2>8. QED
    BY <1>4, <2>6, <2>7
<1>7. CASE StateInit \/ Collect
  <2>1. other = mem
    BY <1>3, <1>7 DEF StateInit, Collect
  <2>2. SomePending(mem) => runs >= 1 /\ \E b \in Nat : Layout(mem, b)
    BY <1>1, <1>3 DEF IdleInv
  <2>3. QED
    BY <1>1, <1>3, <1>4, <2>1, <2>2
<1>8. QED
  BY <1>5, <1>6, <1>7

\* The memory without the outputs that are still to be read, as a run that would
\* use the whole fast arena sees it.
Hidden(mem) == [mem EXCEPT !.ptr = Masked(mem)]
Whole(mem) == [in_fast |-> FALSE, floor |-> FirstOf("fast"), gap |-> 0,
               capacity |-> mem.size["fast"], reserved |-> FirstOf("fast")]

LEMMA HiddenShape ==
    ASSUME NEW mem, IsMemory(mem)
    PROVE  Fewer(mem, Hidden(mem)) /\ Hidden(mem).ptr = Masked(mem)
<1>1. PICK ptr : ptr = Masked(mem)
  OBVIOUS
<1>2. DOMAIN ptr = Tensor /\ ptr = [t \in Tensor |-> ptr[t]] /\ \A t \in Tensor : ptr[t] \in {mem.ptr[t], NULL}
  BY <1>1 DEF Masked
<1>3. Fewer(mem, [mem EXCEPT !.ptr = ptr])
  BY <1>2, DropShape
<1>4. [mem EXCEPT !.ptr = ptr].ptr = ptr
  BY DEF IsMemory
<1>5. QED
  BY <1>1, <1>3, <1>4 DEF Hidden

LEMMA IdleHeap ==
    ASSUME Loaded(plan), NEW mem, Idle(mem)
    PROVE  /\ RunNumbers(Whole(mem))
           /\ Heap(Whole(mem), Hidden(mem), FirstOf("fast"), mem.used["fast"], {})
<1>1. PICK r : r = Whole(mem)
  OBVIOUS
<1>2. /\ r.in_fast = FALSE /\ r.floor = FirstOf("fast") /\ r.gap = 0 /\ r.capacity = mem.size["fast"]
      /\ r.reserved = FirstOf("fast")
  BY <1>1 DEF Whole
<1>3. IsMemory(mem)
  BY DEF Idle, Arenas
<1>4. /\ FirstOf("fast") \in Nat /\ mem.size["fast"] \in Nat /\ mem.used["fast"] \in Nat
      /\ FirstOf("fast") <= mem.used["fast"] /\ mem.used["fast"] <= mem.size["fast"]
  <2>1. FirstOf("fast") \in Nat /\ mem.size["fast"] \in Nat /\ mem.used["fast"] \in Nat
    BY <1>3, MemoryNumbers, Numbers
  <2>2. QED
    BY <2>1 DEF Idle
<1>5. RunNumbers(r)
  <2>1. PICK first \in Nat, cap \in Nat : first = FirstOf("fast") /\ cap = mem.size["fast"] /\ first + 0 <= cap
    BY <1>4
  <2>2. r.floor = first /\ r.capacity = cap /\ r.reserved = first /\ first <= first /\ cap \in Nat
    BY <1>2, <2>1
  <2>3. r.in_fast \in BOOLEAN
    BY <1>2
  <2>4. QED
    BY <1>2, <2>1, <2>2, <2>3 DEF RunNumbers
<1>6. PICK other : other = Hidden(mem) /\ Fewer(mem, other) /\ other.ptr = Masked(mem)
  BY <1>3, HiddenShape
<1>7. Arenas(other, r.capacity)
  BY <1>2, <1>6 DEF Idle, Arenas, Fewer
<1>8. ASSUME NEW t \in Tensor PROVE Slot(r, other, FirstOf("fast"), mem.used["fast"], t)
  <2>1. other.ptr[t] = NULL \/ (other.ptr[t] = mem.ptr[t] /\ IdleSlot(mem, t))
    BY <1>6 DEF Idle, Masked
  <2>2. other.used["slow"] = mem.used["slow"]
    BY <1>6 DEF Fewer
  <2>3. QED
    BY <2>1, <2>2 DEF Slot, IdleSlot
<1>9. Clear(Blocks(other.ptr, plan.size) \cup {})
  BY <1>6 DEF Idle
<1>10. Heap(r, other, FirstOf("fast"), mem.used["fast"], {})
  BY <1>7, <1>8, <1>9 DEF Heap
<1>11. QED
  BY <1>1, <1>5, <1>6, <1>10

\* other is mem with a buffer for the input t, taken from either arena.
Placed(mem, t, other) ==
    /\ IsMemory(other) /\ other.cells = mem.cells
    /\ other.size = mem.size /\ other.reserved = mem.reserved
    /\ other.ptr = [mem.ptr EXCEPT ![t] = other.ptr[t]]
    /\ mem.used["slow"] <= other.used["slow"] /\ other.used["slow"] <= mem.size["slow"]
    /\ mem.used["fast"] <= other.used["fast"] /\ other.used["fast"] <= mem.size["fast"]
    /\ \/ InSlow(other.ptr[t], Span(t), other.used["slow"])
       \/ PlanIoInFast(plan) /\ InFast(other.ptr[t], Span(t), FirstOf("fast"), other.used["fast"])
    /\ Clear(Blocks([Masked(mem) EXCEPT ![t] = other.ptr[t]], plan.size))

LEMMA PlacedIdle ==
    ASSUME Loaded(plan), NEW mem, Idle(mem), NEW t \in Inputs, t \in Tensor, NEW other, Placed(mem, t, other)
    PROVE  /\ Idle(other)
           /\ \A u \in Tensor : Pending(other, u) <=> Pending(mem, u)
           /\ SomePending(other) <=> SomePending(mem)
<1>1. IsMemory(mem) /\ IsMemory(other)
  BY DEF Idle, Arenas, Placed
<1>2. /\ mem.used["fast"] \in Nat /\ other.used["fast"] \in Nat /\ mem.size["fast"] \in Nat
      /\ mem.used["slow"] \in Nat /\ other.used["slow"] \in Nat /\ mem.size["slow"] \in Nat
      /\ mem.reserved \in Nat /\ Bases["fast"] \in Nat /\ Bases["slow"] \in Nat /\ FirstOf("slow") \in Nat
  BY <1>1, MemoryNumbers, Numbers
<1>3. \A u \in Tensor : u # t => other.ptr[u] = mem.ptr[u]
  BY <1>1 DEF Placed, IsMemory
<1>4. ASSUME NEW u \in Tensor PROVE Pending(other, u) <=> Pending(mem, u)
  BY <1>3 DEF Pending, Placed
<1>5. ~Pending(mem, t)
  BY DEF Pending
<1>6. Masked(other) = [Masked(mem) EXCEPT ![t] = other.ptr[t]]
  BY <1>3, <1>4, <1>5 DEF Masked
<1>7. ASSUME NEW u \in Tensor PROVE IdleSlot(other, u) \/ Pending(other, u)
  <2>1. CASE u = t
    BY <2>1 DEF IdleSlot, Placed
  <2>2. CASE u # t
    <3>1. mem.ptr[u] \in Nat /\ Span(u) \in Nat /\ other.ptr[u] = mem.ptr[u]
      BY <1>1, <1>3, <2>2, MemoryNumbers, Numbers
    <3>2. IdleSlot(mem, u) \/ Pending(mem, u)
      BY DEF Idle
    <3>3. IdleSlot(mem, u) => IdleSlot(other, u)
      BY <1>2, <3>1 DEF IdleSlot, InSlow, InFast, Placed
    <3>4. QED
      BY <1>4, <3>2, <3>3
  <2>3. QED
    BY <2>1, <2>2
<1>8. Arenas(other, other.size["fast"])
  BY <1>1, <1>2 DEF Idle, Arenas, Placed
<1>9. other.reserved = FirstOf("fast") /\ other.reserved <= other.used["fast"] /\ other.used["fast"] <= other.size["fast"]
  BY <1>2 DEF Idle, Placed
<1>10. Idle(other)
  BY <1>6, <1>7, <1>8, <1>9 DEF Idle, Placed
<1>11. QED
  BY <1>4, <1>10 DEF SomePending

\* In slow memory.
LEMMA PlacedSlow ==
    ASSUME Loaded(plan), NEW mem, Idle(mem), NEW t \in Tensor, CanAlloc(mem, "slow", plan.size[t])
    PROVE  Placed(mem, t, AllocIn(mem, "slow", t))
<1>1. PICK other, hidden, moved, r : /\ other = AllocIn(mem, "slow", t) /\ hidden = Hidden(mem)
                                     /\ moved = AllocIn(hidden, "slow", t) /\ r = Whole(mem)
  OBVIOUS
<1>2. IsMemory(mem) /\ Fewer(mem, hidden) /\ hidden.ptr = Masked(mem)
  BY <1>1, HiddenShape DEF Idle, Arenas
<1>3. Allocated(mem, "slow", t, other) /\ Allocated(hidden, "slow", t, moved)
  BY <1>1, <1>2, AllocSlow DEF Fewer
<1>4. CanAlloc(hidden, "slow", plan.size[t])
  BY <1>2 DEF CanAlloc, Fewer
<1>5. /\ RunNumbers(r) /\ Heap(r, hidden, FirstOf("fast"), mem.used["fast"], {}) /\ r.capacity = mem.size["fast"]
      /\ mem.used["fast"] <= r.capacity
  BY <1>1, IdleHeap DEF Whole, Idle
<1>6. FirstOf("fast") \in Nat /\ mem.used["fast"] \in Nat
  BY <1>2, MemoryNumbers, Numbers
<1>7. Heap(r, moved, FirstOf("fast"), mem.used["fast"], {}) /\ InSlow(moved.ptr[t], Span(t), moved.used["slow"])
  BY <1>1, <1>4, <1>5, <1>6, AllocSlowKeeps
<1>8. other.used["slow"] = moved.used["slow"] /\ other.used["fast"] = mem.used["fast"]
  BY <1>2, <1>3 DEF Allocated, Fewer, Pool
<1>9. moved.ptr = [Masked(mem) EXCEPT ![t] = moved.ptr[t]] /\ other.ptr = [mem.ptr EXCEPT ![t] = other.ptr[t]]
      /\ other.ptr[t] = moved.ptr[t]
  <2>1. mem.ptr \in [Tensor -> Nat] /\ DOMAIN hidden.ptr = Tensor
    BY <1>2 DEF IsMemory, Masked
  <2>2. QED
    BY <1>2, <1>3, <2>1 DEF Allocated, Fewer
<1>10. Clear(Blocks([Masked(mem) EXCEPT ![t] = other.ptr[t]], plan.size))
  BY <1>7, <1>9 DEF Heap
<1>11. mem.used["slow"] <= other.used["slow"] /\ other.used["slow"] <= mem.size["slow"]
  <2>1. mem.used["slow"] \in Nat /\ mem.size["slow"] \in Nat /\ Span(t) \in Nat
    BY <1>2, MemoryNumbers, Numbers
  <2>2. Span(t) <= mem.size["slow"] - mem.used["slow"]
    BY DEF CanAlloc, Span
  <2>3. other.used["slow"] = mem.used["slow"] + Span(t)
    BY <1>3 DEF Allocated
  <2>4. QED
    BY <2>1, <2>2, <2>3
<1>12. mem.used["fast"] <= other.used["fast"] /\ other.used["fast"] <= mem.size["fast"]
  BY <1>6, <1>8 DEF Idle
<1>13. IsMemory(other) /\ other.cells = mem.cells /\ other.size = mem.size /\ other.reserved = mem.reserved
  BY <1>3 DEF Allocated
<1>14. Placed(mem, t, other)
  BY <1>7, <1>8, <1>9, <1>10, <1>11, <1>12, <1>13 DEF Placed
<1>15. QED
  BY <1>1, <1>14

\* In fast memory, above `room` bytes.
Above(mem, room) == [mem EXCEPT !.used["fast"] = @ + room]

LEMMA PlacedFast ==
    ASSUME Loaded(plan), NEW mem, Idle(mem), PlanIoInFast(plan), NEW t \in Tensor, NEW room \in Nat,
           room <= mem.size["fast"] - mem.used["fast"], CanAlloc(Above(mem, room), "fast", plan.size[t])
    PROVE  /\ Placed(mem, t, AllocIn(Above(mem, room), "fast", t))
           /\ AllocIn(Above(mem, room), "fast", t).ptr[t] = Bases["fast"] + mem.used["fast"] + room
           /\ AllocIn(Above(mem, room), "fast", t).used["fast"] = mem.used["fast"] + room + Span(t)
<1>1. PICK other, hidden, moved, r, up : /\ up = Above(mem, room)
                                         /\ other = AllocIn(up, "fast", t) /\ hidden = Above(Hidden(mem), room)
                                         /\ moved = AllocIn(hidden, "fast", t) /\ r = Whole(mem)
  OBVIOUS
<1>2. IsMemory(mem) /\ Fewer(mem, Hidden(mem)) /\ Hidden(mem).ptr = Masked(mem)
  BY HiddenShape DEF Idle, Arenas
<1>3. PICK used \in Nat, size \in Nat, top \in Nat, n \in Nat, first \in Nat, fast \in Nat :
          /\ used = mem.used["fast"] /\ size = mem.size["fast"] /\ top = used + room /\ n = Span(t)
          /\ first = FirstOf("fast") /\ first <= used /\ fast = Bases["fast"]
  <2>1. mem.used["fast"] \in Nat /\ mem.size["fast"] \in Nat /\ Span(t) \in Nat /\ FirstOf("fast") \in Nat
        /\ Bases["fast"] \in Nat
    BY <1>2, MemoryNumbers, Numbers
  <2>2. FirstOf("fast") <= mem.used["fast"] /\ mem.used["fast"] + room \in Nat
    BY <2>1 DEF Idle
  <2>3. QED
    BY <2>1, <2>2
<1>4. ASSUME NEW x, IsMemory(x), x.used["fast"] = used
      PROVE  FastBounds(x, x.size["fast"], top, x.reserved, Above(x, room))
  <2>1. Above(x, room) = [ptr |-> x.ptr, cells |-> x.cells, size |-> x.size,
                          used |-> [x.used EXCEPT !["fast"] = x.used["fast"] + room], reserved |-> x.reserved]
    BY <1>4 DEF IsMemory, Above
  <2>2. x.size = [x.size EXCEPT !["fast"] = x.size["fast"]] /\ x.size["fast"] \in Nat /\ x.reserved \in Nat
    BY <1>4 DEF IsMemory, Pool
  <2>3. x.used["fast"] + room = top
    BY <1>3, <1>4
  <2>4. QED
    BY <1>4, <2>1, <2>2, <2>3, SetBounds
<1>5. FastBounds(mem, size, top, mem.reserved, up)
  BY <1>1, <1>2, <1>3, <1>4
<1>6. FastBounds(Hidden(mem), size, top, mem.reserved, hidden)
  BY <1>1, <1>2, <1>3, <1>4 DEF Fewer
<1>7. Allocated(up, "fast", t, other) /\ Allocated(hidden, "fast", t, moved)
  BY <1>1, <1>5, <1>6, AllocFast DEF FastBounds
<1>8. /\ other.used["fast"] = top + n /\ other.ptr[t] = fast + top /\ other.ptr = [mem.ptr EXCEPT ![t] = fast + top]
      /\ other.used["slow"] = mem.used["slow"] /\ other.cells = mem.cells /\ other.reserved = mem.reserved
      /\ moved.ptr = [Masked(mem) EXCEPT ![t] = fast + top] /\ IsMemory(other)
  <2>1. other.used["fast"] = top + n /\ other.ptr = [mem.ptr EXCEPT ![t] = fast + top] /\ IsMemory(other)
    BY <1>3, <1>5, <1>7 DEF Allocated, FastBounds
  <2>2. other.ptr[t] = fast + top
    BY <1>2, <2>1 DEF IsMemory
  <2>3. moved.ptr = [Masked(mem) EXCEPT ![t] = fast + top]
    BY <1>2, <1>3, <1>6, <1>7 DEF Allocated, FastBounds
  <2>4. other.used["slow"] = mem.used["slow"] /\ other.cells = mem.cells /\ other.reserved = mem.reserved
    BY <1>5, <1>7 DEF Allocated, FastBounds, Pool
  <2>5. QED
    BY <2>1, <2>2, <2>3, <2>4
<1>9. other.size = mem.size
  <2>1. up.size = mem.size
    BY <1>1, <1>2 DEF IsMemory, Above
  <2>2. QED
    BY <1>7, <2>1 DEF Allocated
<1>10. top + n <= size
  <2>1. up.used["fast"] = top /\ up.size["fast"] = size
    BY <1>5 DEF FastBounds
  <2>2. n <= size - top
    BY <1>1, <1>3, <2>1 DEF CanAlloc, Span
  <2>3. QED
    BY <1>3, <2>2
<1>11. Clear(Blocks(moved.ptr, plan.size))
  <2>1. RunNumbers(r) /\ Heap(r, Hidden(mem), first, used, {}) /\ r.floor = first /\ r.capacity = size
    BY <1>1, <1>3, IdleHeap DEF Whole
  <2>2. first <= first /\ used <= top /\ {} \in SUBSET {}
    BY <1>3
  <2>3. /\ IsMemory(hidden) /\ DOMAIN hidden.cells = DOMAIN Hidden(mem).cells
        /\ \A u \in Tensor : hidden.ptr[u] \in {Hidden(mem).ptr[u], NULL}
        /\ hidden.used["slow"] = Hidden(mem).used["slow"] /\ hidden.size["slow"] = Hidden(mem).size["slow"]
        /\ hidden.used["fast"] = top /\ hidden.size["fast"] = size
    BY <1>6 DEF FastBounds
  <2>4. Heap(r, hidden, first, top, {})
    <3>1. PICK x, none : x = Hidden(mem) /\ none = {}
      OBVIOUS
    <3>2. Heap(r, x, first, used, none) /\ none \in SUBSET none
      BY <2>1, <3>1
    <3>3. /\ IsMemory(hidden) /\ DOMAIN hidden.cells = DOMAIN x.cells
          /\ \A u \in Tensor : hidden.ptr[u] \in {x.ptr[u], NULL}
          /\ hidden.used["slow"] = x.used["slow"] /\ hidden.size["slow"] = x.size["slow"]
      BY <2>3, <3>1
    <3>4. Heap(r, hidden, first, top, none)
      BY <2>1, <2>2, <3>2, <3>3, HeapShrinks
    <3>5. QED
      BY <3>1, <3>4
  <2>5. CanAlloc(hidden, "fast", plan.size[t])
    BY <1>1, <1>5, <2>3 DEF CanAlloc, FastBounds
  <2>6. Heap(r, moved, first, moved.used["fast"], {})
    <3>1. r.floor <= first /\ first <= hidden.used["fast"] /\ hidden.size["fast"] <= r.capacity
      BY <1>3, <2>1, <2>3
    <3>2. Heap(r, hidden, first, hidden.used["fast"], {})
      BY <2>3, <2>4
    <3>3. QED
      BY <1>1, <2>1, <2>5, <3>1, <3>2, AllocFastKeeps
  <2>7. QED
    BY <2>6 DEF Heap
<1>12. InFast(fast + top, n, first, top + n)
  BY <1>3 DEF InFast
<1>13. /\ mem.used["fast"] <= other.used["fast"] /\ other.used["fast"] <= mem.size["fast"]
       /\ mem.used["slow"] <= other.used["slow"] /\ other.used["slow"] <= mem.size["slow"]
  <2>1. mem.used["slow"] \in Nat /\ mem.used["slow"] <= mem.size["slow"]
    BY <1>2, MemoryNumbers DEF Idle, Arenas
  <2>2. QED
    BY <1>3, <1>8, <1>10, <2>1
<1>14. Placed(mem, t, other)
  <2>1. InFast(other.ptr[t], Span(t), FirstOf("fast"), other.used["fast"])
    BY <1>3, <1>8, <1>12
  <2>2. Clear(Blocks([Masked(mem) EXCEPT ![t] = other.ptr[t]], plan.size))
    BY <1>8, <1>11
  <2>3. other.ptr = [mem.ptr EXCEPT ![t] = other.ptr[t]]
    BY <1>8
  <2>4. QED
    BY <1>8, <1>9, <1>13, <2>1, <2>2, <2>3 DEF Placed
<1>15. QED
  BY <1>1, <1>3, <1>8, <1>14

LEMMA RoomIsNat ==
    ASSUME Loaded(plan), PlanIoInFast(plan)
    PROVE  WeightRoom \in Nat
<1>1. DOMAIN plan.stages = {1}
  BY PlanTypes DEF PlanIoInFast
<1>2. QED
  BY <1>1, OverheadOfOne DEF WeightRoom

\* An input placed next to those below it.
LEMMA LayoutPlaced ==
    ASSUME Loaded(plan), PlanIoInFast(plan), NEW mem, Idle(mem), NEW b \in Nat, Layout(mem, b),
           NEW t \in Inputs, t \in Tensor, mem.ptr[t] = NULL, NEW other, Placed(mem, t, other), NEW room,
           room = IF {u \in Inputs : mem.ptr[u] # NULL} = {} THEN WeightRoom ELSE 0,
           other.ptr[t] = Bases["fast"] + mem.used["fast"] + room,
           other.used["fast"] = mem.used["fast"] + room + Span(t)
    PROVE  Layout(other, b)
<1>1. IsMemory(mem) /\ IsMemory(other) /\ \A u \in Tensor : Pending(other, u) <=> Pending(mem, u)
  BY PlacedIdle DEF Idle, Arenas, Placed
<1>2. PICK placed, after : /\ placed = {u \in Inputs : mem.ptr[u] # NULL}
                           /\ after = {u \in Inputs : other.ptr[u] # NULL}
  OBVIOUS
<1>3. PICK used \in Nat, n \in Nat, weight \in Nat, gap \in Nat, fast \in Nat, first \in Nat :
          /\ used = mem.used["fast"] /\ n = Span(t) /\ n > 0 /\ weight = WeightRoom
          /\ gap = room /\ gap = (IF placed = {} THEN weight ELSE 0)
          /\ fast = Bases["fast"] /\ fast > 0 /\ first = FirstOf("fast")
  <2>1. /\ mem.used["fast"] \in Nat /\ Span(t) \in Nat /\ Span(t) > 0 /\ FirstOf("fast") \in Nat
        /\ Bases["fast"] \in Nat /\ Bases["fast"] > 0
    BY <1>1, MemoryNumbers, Numbers
  <2>2. PICK weight \in Nat : weight = WeightRoom
    BY RoomIsNat
  <2>3. PICK gap \in Nat : gap = room /\ gap = (IF placed = {} THEN weight ELSE 0)
    BY <1>2, <2>2
  <2>4. QED
    BY <2>1, <2>2, <2>3
<1>4. /\ other.ptr[t] = fast + used + gap /\ other.used["fast"] = used + gap + n
      /\ \A u \in Tensor : u # t => other.ptr[u] = mem.ptr[u]
  BY <1>1, <1>3 DEF Placed, IsMemory
<1>5. Inputs \subseteq Tensor /\ t \notin placed /\ after = placed \cup {t}
  <2>1. Inputs \subseteq Tensor
    BY InputNumbers
  <2>2. other.ptr[t] # NULL
    BY <1>3, <1>4 DEF NULL
  <2>3. QED
    BY <1>2, <1>4, <2>1, <2>2
<1>6. PICK sum \in Nat : sum = InputBytes(placed) /\ InputBytes(after) = sum + n
  <2>1. placed \in SUBSET Inputs /\ after \in SUBSET Inputs /\ after \ {t} = placed /\ t \in after
    BY <1>2, <1>5
  <2>2. PICK sum \in Nat : sum = InputBytes(placed)
    BY <2>1, InputNumbers
  <2>3. PICK f : f = [u \in Inputs |-> Span(u)]
    OBVIOUS
  <2>4. f[t] = n /\ \A u \in after : f[u] \in Nat
    BY <1>3, <1>5, <2>1, <2>3, Numbers
  <2>5. IsFiniteSet(after)
    BY <2>1, InputNumbers
  <2>6. SumFunctionOnSet(f, after) = f[t] + SumFunctionOnSet(f, after \ {t})
    BY <2>1, <2>4, <2>5, SumOfRest
  <2>7. InputBytes(after) = n + sum
    BY <2>1, <2>2, <2>3, <2>4, <2>6 DEF InputBytes
  <2>8. QED
    BY <1>3, <2>2, <2>7
<1>7. /\ first <= b /\ used = b + sum + IF placed = {} THEN 0 ELSE weight
      /\ \A u \in placed : InFast(mem.ptr[u], Span(u), b + weight, used)
      /\ placed # {} => \E u \in placed : mem.ptr[u] = fast + b + weight
      /\ \A u, v \in placed : mem.ptr[u] = mem.ptr[v] => u = v
      /\ \A u \in Tensor : Pending(mem, u) => fast + b + weight <= mem.ptr[u]
  BY <1>2, <1>3, <1>6 DEF Layout
<1>8. placed = {} => sum = 0
  BY <1>6, InputNumbers
<1>9. /\ b + weight <= used + gap
      /\ placed = {} => used + gap = b + weight
      /\ placed # {} => gap = 0
  <2>1. CASE placed = {}
    BY <1>3, <1>7, <1>8, <2>1
  <2>2. CASE placed # {}
    BY <1>3, <1>7, <2>2
  <2>3. QED
    BY <2>1, <2>2
<1>10. PICK top \in Nat : top = other.used["fast"] /\ top = used + gap + n
  BY <1>3, <1>4
<1>11. ASSUME NEW u \in after PROVE InFast(other.ptr[u], Span(u), b + weight, top)
  <2>1. CASE u = t
    BY <1>3, <1>4, <1>9, <1>10, <2>1 DEF InFast
  <2>2. CASE u # t
    <3>1. u \in placed /\ u \in Tensor /\ other.ptr[u] = mem.ptr[u]
      BY <1>2, <1>4, <1>5, <2>2
    <3>2. mem.ptr[u] \in Nat /\ Span(u) \in Nat
      BY <1>1, <3>1, MemoryNumbers, Numbers
    <3>3. InFast(mem.ptr[u], Span(u), b + weight, used)
      BY <1>7, <3>1
    <3>4. QED
      BY <1>3, <1>10, <3>1, <3>2, <3>3 DEF InFast
  <2>3. QED
    BY <2>1, <2>2
<1>12. \E u \in after : other.ptr[u] = fast + b + weight
  <2>1. CASE placed = {}
    <3>1. other.ptr[t] = fast + b + weight
      BY <1>3, <1>4, <1>9, <2>1
    <3>2. QED
      BY <1>5, <3>1
  <2>2. CASE placed # {}
    <3>1. PICK u \in placed : mem.ptr[u] = fast + b + weight
      BY <1>7, <2>2
    <3>2. u \in after /\ u # t /\ u \in Tensor
      BY <1>2, <1>5
    <3>3. QED
      BY <1>4, <3>1, <3>2
  <2>3. QED
    BY <2>1, <2>2
<1>13. ASSUME NEW u \in placed PROVE u \in Tensor /\ u # t /\ other.ptr[u] = mem.ptr[u] /\ mem.ptr[u] < other.ptr[t]
  <2>1. u \in Tensor /\ u # t /\ other.ptr[u] = mem.ptr[u]
    BY <1>2, <1>4, <1>5
  <2>2. mem.ptr[u] \in Nat /\ Span(u) \in Nat /\ Span(u) > 0
    BY <1>1, <2>1, MemoryNumbers, Numbers
  <2>3. InFast(mem.ptr[u], Span(u), b + weight, used)
    BY <1>7
  <2>4. QED
    BY <1>3, <1>4, <2>1, <2>2, <2>3 DEF InFast
<1>14. ASSUME NEW u \in after, NEW v \in after, other.ptr[u] = other.ptr[v] PROVE u = v
  <2>1. other.ptr[t] \in Nat
    BY <1>3, <1>4
  <2>2. CASE u = t /\ v = t
    BY <2>2
  <2>3. CASE u \in placed /\ v \in placed
    BY <1>7, <1>13, <1>14, <2>3
  <2>4. CASE (u = t /\ v \in placed) \/ (v = t /\ u \in placed)
    <3>1. PICK x \in placed : other.ptr[x] = other.ptr[t]
      BY <1>14, <2>4
    <3>2. mem.ptr[x] < other.ptr[t] /\ mem.ptr[x] = other.ptr[t]
      BY <1>13, <3>1
    <3>3. QED
      BY <2>1, <3>2
  <2>5. QED
    BY <1>5, <2>2, <2>3, <2>4
<1>15. top = b + (sum + n) + weight
  <2>1. CASE placed = {}
    <3>1. sum = 0 /\ used + gap = b + weight
      BY <1>8, <1>9, <2>1
    <3>2. QED
      BY <1>10, <3>1
  <2>2. CASE placed # {}
    <3>1. used = b + sum + weight /\ gap = 0
      BY <1>7, <1>9, <2>2
    <3>2. QED
      BY <1>3, <1>10, <3>1
  <2>3. QED
    BY <2>1, <2>2
<1>16. ASSUME NEW u \in Tensor, Pending(other, u) PROVE fast + b + weight <= other.ptr[u]
  <2>1. Pending(mem, u) /\ u # t
    BY <1>1, <1>16 DEF Pending
  <2>2. QED
    BY <1>4, <1>7, <2>1
<1>17. after # {}
  BY <1>5
<1>18. QED
  BY <1>2, <1>3, <1>6, <1>7, <1>10, <1>11, <1>12, <1>14, <1>15, <1>16, <1>17 DEF Layout

LEMMA InputWriteKeeps ==
    ASSUME ControlInv, IdleInv, NEW t \in Range(plan.inputs), NEW value, InputWrite(t, value)
    PROVE  MemoryInv'
<1>1. Loaded(plan) /\ ~Running /\ Idle(m) /\ (SomePending(m) => runs >= 1 /\ \E b \in Nat : Layout(m, b))
  BY DEF ControlInv, Counters, InputWrite, IdleInv, Running
<1>2. pc' = "idle" /\ plan' = plan /\ runs' = runs /\ ~Running'
  BY DEF InputWrite, Running
<1>3. PICK mem, other : mem = m /\ other = m'
  OBVIOUS
<1>4. ASSUME Idle(other), SomePending(other) => runs >= 1 /\ \E b \in Nat : Layout(other, b)
      PROVE  MemoryInv'
  <2>1. Idle(other)' /\ (SomePending(other)' => runs >= 1 /\ \E b \in Nat : Layout(other, b)')
    BY <1>2, <1>4, IdleStays
  <2>2. QED
    BY <1>2, <1>3, <2>1 DEF MemoryInv, RunInv, IdleInv
<1>5. t \in Inputs /\ t \in Tensor
  BY <1>1, InputNumbers DEF Inputs
<1>6. ASSUME NEW moved, other = Write(moved, t, value), Idle(moved),
             SomePending(moved) => runs >= 1 /\ \E b \in Nat : Layout(moved, b)
      PROVE  MemoryInv'
  <2>1. SameShape(moved, other)
    BY <1>6, WriteShape DEF Idle, Arenas
  <2>2. Idle(other) /\ (SomePending(other) => SomePending(moved)) /\ \A b : Layout(moved, b) => Layout(other, b)
    BY <1>1, <1>6, <2>1, IdleShape
  <2>3. QED
    BY <1>4, <1>6, <2>2
<1>7. CASE mem.ptr[t] # NULL
  <2>1. other = Write(mem, t, value)
    BY <1>3, <1>7 DEF InputWrite
  <2>2. QED
    BY <1>1, <1>3, <1>6, <2>1
<1>8. CASE mem.ptr[t] = NULL /\ ~PlanIoInFast(plan)
  <2>1. PICK moved : moved = AllocIn(mem, "slow", t) /\ other = Write(moved, t, value) /\ CanAlloc(mem, "slow", plan.size[t])
    BY <1>3, <1>8 DEF InputWrite, InputPlaced
  <2>2. Placed(mem, t, moved)
    BY <1>1, <1>3, <1>5, <2>1, PlacedSlow
  <2>3. Idle(moved) /\ (SomePending(moved) => SomePending(mem))
    BY <1>1, <1>3, <1>5, <2>2, PlacedIdle
  <2>4. ~SomePending(mem)
    BY <1>8 DEF SomePending, Pending
  <2>5. QED
    BY <1>6, <2>1, <2>3, <2>4
<1>9. CASE mem.ptr[t] = NULL /\ PlanIoInFast(plan)
  <2>1. PICK placed, room : /\ placed = {u \in Inputs : mem.ptr[u] # NULL}
                            /\ room = IF placed = {} THEN WeightRoom ELSE 0
    OBVIOUS
  <2>2. {u \in Range(plan.inputs) : u # t /\ m.ptr[u] # NULL} = placed
    BY <1>3, <1>9, <2>1 DEF Inputs
  <2>3. plan.inputs # <<>>
    <3>1. plan.inputs = <<>> => Range(plan.inputs) = {}
      BY DEF Range
    <3>2. QED
      BY <3>1
  <2>4. WeightRoom = WeightOverhead(plan)
    BY <2>3 DEF WeightRoom
  <2>5. PICK moved : /\ moved = AllocIn(Above(mem, room), "fast", t) /\ other = Write(moved, t, value)
                     /\ room <= mem.size["fast"] - mem.used["fast"]
                     /\ CanAlloc(Above(mem, room), "fast", plan.size[t])
    <3>1. (IF {u \in Range(plan.inputs) : u # t /\ m.ptr[u] # NULL} = {} THEN WeightOverhead(plan) ELSE 0) = room
      BY <2>1, <2>2, <2>4
    <3>2. QED
      BY <1>3, <1>9, <3>1 DEF InputWrite, InputPlaced, Above
  <2>6. room \in Nat
    BY <1>1, <1>9, <2>1, RoomIsNat
  <2>7. /\ Placed(mem, t, moved) /\ moved.ptr[t] = Bases["fast"] + mem.used["fast"] + room
        /\ moved.used["fast"] = mem.used["fast"] + room + Span(t)
    BY <1>1, <1>3, <1>5, <1>9, <2>5, <2>6, PlacedFast
  <2>8. Idle(moved) /\ (SomePending(moved) => SomePending(mem))
    BY <1>1, <1>3, <1>5, <2>7, PlacedIdle
  <2>9. ASSUME NEW b \in Nat, Layout(mem, b) PROVE Layout(moved, b)
    BY <1>1, <1>3, <1>5, <1>9, <2>1, <2>7, <2>9, LayoutPlaced
  <2>10. SomePending(moved) => runs >= 1 /\ \E b \in Nat : Layout(moved, b)
    BY <1>1, <1>3, <2>8, <2>9
  <2>11. QED
    BY <1>6, <2>5, <2>8, <2>10
<1>10. QED
  BY <1>7, <1>8, <1>9

-----------------------------------------------------------------------------
(* The beginning of a run *)

\* Where the inputs begin, and whether they can be read where they are.
Low(mem) == Min({mem.used["fast"]} \cup {mem.ptr[t] - Bases["fast"] : t \in Inputs})

InPlace(mem) ==
    /\ PlanIoInFast(plan)
    /\ \A t \in Inputs : /\ mem.reserved <= mem.ptr[t] - Bases["fast"]
                         /\ mem.ptr[t] - Bases["fast"] < mem.used["fast"]
                         /\ Span(t) <= mem.used["fast"] - (mem.ptr[t] - Bases["fast"])
    /\ \A t, u \in Inputs : t # u =>
           \/ mem.ptr[t] - Bases["fast"] + Span(t) <= mem.ptr[u] - Bases["fast"]
           \/ mem.ptr[u] - Bases["fast"] + Span(u) <= mem.ptr[t] - Bases["fast"]
    /\ InputBytes(Inputs) = mem.used["fast"] - Low(mem)
    /\ WeightRoom <= Low(mem) - mem.reserved
    /\ \A t \in Tensor : ~(/\ Low(mem) - WeightRoom <= mem.ptr[t] - Bases["fast"]
                           /\ mem.ptr[t] - Bases["fast"] < Low(mem))

LEMMA FloorFields ==
    ASSUME NEW mem
    PROVE  /\ InPlace(mem) =>
                  FastFloor(plan, mem, Bases["fast"])
                      = [in_fast |-> TRUE, gap |-> WeightRoom, floor |-> Low(mem) - WeightRoom]
           /\ ~InPlace(mem) =>
                  FastFloor(plan, mem, Bases["fast"])
                      = [in_fast |-> FALSE, gap |-> 0, floor |-> mem.used["fast"]]
<1>1. PICK low, room, sum : low = Low(mem) /\ room = WeightRoom /\ sum = InputBytes(Inputs)
  OBVIOUS
<1>2. /\ Min({mem.used["fast"]} \cup {mem.ptr[t] - Bases["fast"] : t \in Range(plan.inputs)}) = low
      /\ (IF plan.inputs = <<>> THEN 0 ELSE WeightOverhead(plan)) = room
      /\ SumFunctionOnSet([t \in Range(plan.inputs) |-> AlignUp(plan.size[t])], Range(plan.inputs)) = sum
  BY <1>1 DEF Low, WeightRoom, InputBytes, Inputs, Span
<1> DEFINE placed == \A t \in Range(plan.inputs) :
                         /\ mem.reserved <= mem.ptr[t] - Bases["fast"]
                         /\ mem.ptr[t] - Bases["fast"] < mem.used["fast"]
                         /\ AlignUp(plan.size[t]) <= mem.used["fast"] - (mem.ptr[t] - Bases["fast"])
           apart == \A t, u \in Range(plan.inputs) : t # u =>
               \/ mem.ptr[t] - Bases["fast"] + AlignUp(plan.size[t]) <= mem.ptr[u] - Bases["fast"]
               \/ mem.ptr[u] - Bases["fast"] + AlignUp(plan.size[u]) <= mem.ptr[t] - Bases["fast"]
           together == sum = mem.used["fast"] - low /\ room <= low - mem.reserved
           free == \A t \in Tensor : ~(/\ low - room <= mem.ptr[t] - Bases["fast"]
                                       /\ mem.ptr[t] - Bases["fast"] < low)
           ok == PlanIoInFast(plan) /\ placed /\ apart /\ together /\ free
<1>3. InPlace(mem) <=> ok
  BY <1>1 DEF InPlace, Inputs, Span
<1>4. FastFloor(plan, mem, Bases["fast"])
      = [in_fast |-> ok, gap |-> IF ok THEN room ELSE 0, floor |-> IF ok THEN low - room ELSE mem.used["fast"]]
  BY <1>2, Zenon DEF FastFloor
<1>5. ~ok => ok = FALSE
  OBVIOUS
<1> HIDE DEF ok
<1>6. ok => FastFloor(plan, mem, Bases["fast"]) = [in_fast |-> TRUE, gap |-> room, floor |-> low - room]
  BY <1>4, Zenon
<1>7. ~ok => FastFloor(plan, mem, Bases["fast"]) = [in_fast |-> FALSE, gap |-> 0, floor |-> mem.used["fast"]]
  <2>1. ASSUME ok = FALSE, ~ok
        PROVE  FastFloor(plan, mem, Bases["fast"]) = [in_fast |-> FALSE, gap |-> 0, floor |-> mem.used["fast"]]
    BY <1>4, <2>1, Zenon
  <2>2. QED
    BY <1>5, <2>1, Zenon
<1>8. QED
  BY <1>1, <1>3, <1>6, <1>7, Zenon

\* Inputs that are read in place lie together at the top of the fast arena.
LEMMA InPlaceNumbers ==
    ASSUME Loaded(plan), NEW mem, Idle(mem), InPlace(mem)
    PROVE  /\ Low(mem) \in Nat /\ WeightRoom \in Nat /\ FirstOf("fast") + WeightRoom <= Low(mem)
           /\ mem.used["fast"] = Low(mem) + InputBytes(Inputs)
           /\ \A t \in Inputs : InFast(mem.ptr[t], Span(t), Low(mem), mem.used["fast"])
<1>1. IsMemory(mem) /\ Inputs \subseteq Tensor
  BY InputNumbers DEF Idle, Arenas
<1>2. PICK used \in Nat, room \in Nat, fast \in Nat, first \in Nat, sum \in Nat :
          /\ used = mem.used["fast"] /\ room = WeightRoom /\ fast = Bases["fast"]
          /\ first = FirstOf("fast") /\ mem.reserved = first /\ sum = InputBytes(Inputs)
  <2>1. mem.used["fast"] \in Nat /\ Bases["fast"] \in Nat /\ FirstOf("fast") \in Nat /\ mem.reserved = FirstOf("fast")
    BY <1>1, MemoryNumbers, Numbers DEF Idle
  <2>2. WeightRoom \in Nat
    BY RoomIsNat DEF InPlace
  <2>3. Inputs \in SUBSET Inputs /\ InputBytes(Inputs) \in Nat
    BY InputNumbers
  <2>4. QED
    BY <2>1, <2>2, <2>3
<1>3. PICK S : S = {used} \cup {mem.ptr[t] - fast : t \in Inputs}
  OBVIOUS
<1>4. ASSUME NEW t \in Inputs
      PROVE  /\ mem.ptr[t] \in Nat /\ Span(t) \in Nat /\ mem.ptr[t] - fast \in Nat
             /\ Span(t) <= used - (mem.ptr[t] - fast)
  <2>1. mem.ptr[t] \in Nat /\ Span(t) \in Nat
    BY <1>1, MemoryNumbers, Numbers
  <2>2. first <= mem.ptr[t] - fast /\ Span(t) <= used - (mem.ptr[t] - fast)
    BY <1>2 DEF InPlace
  <2>3. QED
    BY <1>2, <2>1, <2>2
<1>5. S \in SUBSET Nat /\ S # {} /\ \A t \in Inputs : mem.ptr[t] - fast \in S
  BY <1>3, <1>4
<1>6. PICK low \in Nat : low = Low(mem) /\ \A x \in S : low <= x
  <2>1. Low(mem) = Min(S)
    BY <1>2, <1>3 DEF Low
  <2>2. Min(S) \in S /\ \A x \in S : Min(S) <= x
    BY <1>5, MinOfNats
  <2>3. QED
    BY <1>5, <2>1, <2>2
<1>7. used = low + sum /\ first + room <= low
  <2>1. sum = used - low /\ room <= low - first
    BY <1>2, <1>6 DEF InPlace
  <2>2. QED
    BY <1>2, <2>1
<1>8. ASSUME NEW t \in Inputs PROVE InFast(mem.ptr[t], Span(t), low, used)
  <2>1. PICK a \in Nat, n \in Nat : a = mem.ptr[t] /\ n = Span(t) /\ low <= a - fast /\ n <= used - (a - fast)
    BY <1>4, <1>5, <1>6
  <2>2. fast + low <= a /\ a + n <= fast + used
    BY <1>2, <2>1
  <2>3. QED
    BY <1>2, <2>1, <2>2 DEF InFast
<1>9. QED
  BY <1>2, <1>6, <1>7, <1>8

\* The inputs of a run that follows one in place are read in place again.
LEMMA PendingInPlace ==
    ASSUME Loaded(plan), NEW mem, Idle(mem), SomePending(mem), NEW b \in Nat, Layout(mem, b),
           \A t \in Inputs : mem.ptr[t] # NULL
    PROVE  InPlace(mem) /\ Low(mem) = b + WeightRoom
<1>1. IsMemory(mem) /\ Inputs \subseteq Tensor /\ PlanIoInFast(plan) /\ Arenas(mem, mem.size["fast"])
  BY InputNumbers DEF Idle, Arenas, SomePending, Pending
<1>2. PICK used \in Nat, room \in Nat, fast \in Nat, first \in Nat, sum \in Nat, size \in Nat :
          /\ used = mem.used["fast"] /\ room = WeightRoom /\ fast = Bases["fast"] /\ fast > 0
          /\ first = FirstOf("fast") /\ mem.reserved = first /\ sum = InputBytes(Inputs)
          /\ size = mem.size["fast"] /\ used <= size
  <2>1. mem.used["fast"] \in Nat /\ Bases["fast"] \in Nat /\ Bases["fast"] > 0 /\ FirstOf("fast") \in Nat
        /\ mem.size["fast"] \in Nat
    BY <1>1, MemoryNumbers, Numbers
  <2>2. WeightRoom \in Nat
    BY <1>1, RoomIsNat
  <2>3. Inputs \in SUBSET Inputs /\ InputBytes(Inputs) \in Nat
    BY InputNumbers
  <2>4. mem.reserved = FirstOf("fast") /\ mem.used["fast"] <= mem.size["fast"]
    BY DEF Idle
  <2>5. QED
    BY <2>1, <2>2, <2>3, <2>4
<1>3. {t \in Inputs : mem.ptr[t] # NULL} = Inputs
  OBVIOUS
<1>4. /\ first <= b /\ \A t \in Inputs : InFast(mem.ptr[t], Span(t), b + room, used)
      /\ Inputs # {} => \E t \in Inputs : mem.ptr[t] = fast + b + room
      /\ \A t, u \in Inputs : mem.ptr[t] = mem.ptr[u] => t = u
      /\ used = b + sum + IF Inputs = {} THEN 0 ELSE room
      /\ \A t \in Tensor : Pending(mem, t) => fast + b + room <= mem.ptr[t]
  BY <1>2, <1>3 DEF Layout
<1>5. Inputs = {} => sum = 0 /\ room = 0
  <2>1. ASSUME Inputs = {} PROVE plan.inputs = <<>>
    <3>1. DOMAIN plan.inputs = 1 .. Len(plan.inputs) /\ Len(plan.inputs) \in Nat /\ plan.inputs \in Seq(Tensor)
      BY PlanTypes
    <3>2. Len(plan.inputs) = 0
      <4>1. \A k \in DOMAIN plan.inputs : plan.inputs[k] \in Inputs
        BY DEF Inputs, Range
      <4>2. 1 \notin DOMAIN plan.inputs
        BY <2>1, <4>1
      <4>3. QED
        BY <3>1, <4>2
    <3>3. QED
      BY <3>1, <3>2
  <2>2. QED
    BY <1>2, <2>1, InputNumbers DEF WeightRoom
<1>6. used = b + sum + room
  BY <1>4, <1>5
<1>7. ASSUME NEW t \in Inputs
      PROVE  /\ mem.ptr[t] \in Nat /\ Span(t) \in Nat /\ Span(t) > 0
             /\ fast + b + room <= mem.ptr[t] /\ mem.ptr[t] + Span(t) <= fast + used
             /\ mem.ptr[t] - fast \in Nat /\ b + room <= mem.ptr[t] - fast
  <2>1. PICK a \in Nat, n \in Nat : a = mem.ptr[t] /\ n = Span(t) /\ n > 0
    BY <1>1, MemoryNumbers, Numbers
  <2>2. fast + b + room <= a /\ a + n <= fast + used
    BY <1>2, <1>4, <2>1 DEF InFast
  <2>3. a - fast \in Nat /\ b + room <= a - fast
    BY <1>2, <2>2
  <2>4. QED
    BY <2>1, <2>2, <2>3
<1>8. Low(mem) = b + room
  <2>1. PICK S : S = {used} \cup {mem.ptr[t] - fast : t \in Inputs}
    OBVIOUS
  <2>2. S \in SUBSET Nat /\ S # {} /\ \A x \in S : b + room <= x
    BY <1>2, <1>6, <1>7, <2>1
  <2>3. b + room \in S
    <3>1. CASE Inputs = {}
      BY <1>5, <1>6, <2>1, <3>1
    <3>2. CASE Inputs # {}
      <4>1. PICK t \in Inputs : mem.ptr[t] = fast + b + room
        BY <1>4, <3>2
      <4>2. mem.ptr[t] - fast = b + room
        BY <1>2, <4>1
      <4>3. QED
        BY <2>1, <4>2
    <3>3. QED
      BY <3>1, <3>2
  <2>4. PICK low \in Nat : low = Low(mem) /\ low \in S /\ \A x \in S : low <= x
    <3>1. Low(mem) = Min(S)
      BY <1>2, <2>1 DEF Low
    <3>2. Min(S) \in S /\ \A x \in S : Min(S) <= x
      BY <2>2, MinOfNats
    <3>3. QED
      BY <2>2, <3>1, <3>2
  <2>5. QED
    BY <1>2, <2>2, <2>3, <2>4
<1>9. ASSUME NEW t \in Inputs
      PROVE  /\ first <= mem.ptr[t] - fast /\ mem.ptr[t] - fast < used
             /\ Span(t) <= used - (mem.ptr[t] - fast)
  BY <1>2, <1>4, <1>7
<1>10. ASSUME NEW t \in Inputs, NEW u \in Inputs, t # u
       PROVE  \/ mem.ptr[t] - fast + Span(t) <= mem.ptr[u] - fast
              \/ mem.ptr[u] - fast + Span(u) <= mem.ptr[t] - fast
  <2>1. /\ mem.ptr[t] # mem.ptr[u] /\ t \in Tensor /\ u \in Tensor
        /\ Masked(mem)[t] = mem.ptr[t] /\ Masked(mem)[u] = mem.ptr[u]
    BY <1>1, <1>4, <1>10 DEF Masked, Pending
  <2>2. <<mem.ptr[t], Span(t)>> \in Blocks(Masked(mem), plan.size)
    BY <2>1, BlocksOf DEF Span
  <2>3. <<mem.ptr[u], Span(u)>> \in Blocks(Masked(mem), plan.size)
    BY <2>1, BlocksOf DEF Span
  <2>4. <<mem.ptr[t], Span(t)>> # <<mem.ptr[u], Span(u)>>
    BY <2>1
  <2>5. Off(<<mem.ptr[t], Span(t)>>, <<mem.ptr[u], Span(u)>>)
    BY <2>2, <2>3, <2>4 DEF Idle, Clear
  <2>6. mem.ptr[t] + Span(t) <= mem.ptr[u] \/ mem.ptr[u] + Span(u) <= mem.ptr[t]
    BY <2>5 DEF Off
  <2>7. QED
    BY <1>2, <1>7, <2>6
<1>11. ASSUME NEW t \in Tensor
       PROVE  ~(b + room - room <= mem.ptr[t] - fast /\ mem.ptr[t] - fast < b + room)
  <2>1. PICK a \in Nat, n \in Nat : a = mem.ptr[t] /\ n = Span(t) /\ n > 0
    BY <1>1, MemoryNumbers, Numbers
  <2>2. a = NULL \/ InSlow(a, n, mem.used["slow"]) \/ fast + b + room <= a
    BY <1>4, <1>7, <2>1 DEF Idle, IdleSlot
  <2>3. CASE a = NULL
    BY <1>2, <2>1, <2>3 DEF NULL
  <2>4. CASE InSlow(a, n, mem.used["slow"])
    <3>1. PICK slow \in Nat, bottom \in Nat, top \in Nat, whole \in Nat :
              /\ slow = Bases["slow"] /\ bottom = FirstOf("slow") /\ top = mem.used["slow"]
              /\ whole = mem.size["slow"] /\ top <= whole
              /\ fast + size <= slow \/ slow + whole <= fast
      <4>1. Bases["slow"] \in Nat /\ FirstOf("slow") \in Nat /\ mem.used["slow"] \in Nat /\ mem.size["slow"] \in Nat
        BY <1>1, MemoryNumbers, Numbers
      <4>2. QED
        BY <1>1, <1>2, <4>1 DEF Arenas
    <3>2. slow <= a /\ a + n <= slow + whole
      BY <2>1, <2>4, <3>1 DEF InSlow
    <3>3. b + room <= size
      BY <1>2, <1>6
    <3>4. QED
      BY <1>2, <2>1, <3>1, <3>2, <3>3
  <2>5. CASE fast + b + room <= a
    BY <1>2, <2>1, <2>5
  <2>6. QED
    BY <2>2, <2>3, <2>4, <2>5
<1>12. sum = used - (b + room) /\ room <= (b + room) - first
  BY <1>2, <1>4, <1>6
<1>13. InPlace(mem)
  <2>1. PICK low : low = b + room
    OBVIOUS
  <2>2. QED
    BY <1>1, <1>2, <1>8, <1>9, <1>10, <1>11, <1>12, <2>1 DEF InPlace
<1>14. QED
  BY <1>2, <1>8, <1>13

\* other is mem as a run from floor on begins.
Begins(mem, floor, keep, other) ==
    /\ IsMemory(other) /\ other.cells = mem.cells /\ other.size = mem.size
    /\ other.used = mem.used /\ other.reserved = floor
    /\ \A t \in Tensor :
           other.ptr[t] = IF /\ Bases["fast"] + floor <= mem.ptr[t]
                             /\ mem.ptr[t] < Bases["fast"] + mem.size["fast"]
                             /\ t \notin keep
                          THEN NULL ELSE mem.ptr[t]

Starting(mem, floor, keep) ==
    [mem EXCEPT !.ptr = DropPointers(mem.ptr, Bases["fast"] + floor, Bases["fast"] + mem.size["fast"], keep),
                !.reserved = floor]

LEMMA BeginFields ==
    ASSUME NEW mem, IsMemory(mem), NEW floor \in Nat, NEW keep
    PROVE  Begins(mem, floor, keep, Starting(mem, floor, keep))
<1>1. PICK ptr : ptr = DropPointers(mem.ptr, Bases["fast"] + floor, Bases["fast"] + mem.size["fast"], keep)
  OBVIOUS
<1>2. /\ DOMAIN ptr = Tensor /\ ptr = [t \in Tensor |-> ptr[t]]
      /\ \A t \in Tensor :
             ptr[t] = IF /\ Bases["fast"] + floor <= mem.ptr[t] /\ mem.ptr[t] < Bases["fast"] + mem.size["fast"]
                         /\ t \notin keep
                      THEN NULL ELSE mem.ptr[t]
  BY <1>1 DEF DropPointers, IsMemory
<1>3. ptr \in [Tensor -> Nat]
  <2>1. \A t \in Tensor : ptr[t] \in Nat
    BY <1>2 DEF IsMemory, NULL
  <2>2. QED
    BY <1>2, <2>1
<1>4. PICK other : other = [mem EXCEPT !.ptr = ptr, !.reserved = floor]
  OBVIOUS
<1>5. other = [ptr |-> ptr, cells |-> mem.cells, size |-> mem.size, used |-> mem.used, reserved |-> floor]
  BY <1>4 DEF IsMemory
<1>6. /\ other.ptr = ptr /\ other.cells = mem.cells /\ other.size = mem.size /\ other.used = mem.used
      /\ other.reserved = floor
      /\ other = [ptr |-> other.ptr, cells |-> other.cells, size |-> other.size,
                  used |-> other.used, reserved |-> other.reserved]
  BY <1>5
<1>7. IsMemory(other)
  BY <1>3, <1>6 DEF IsMemory
<1>8. Begins(mem, floor, keep, other)
  BY <1>2, <1>6, <1>7 DEF Begins
<1>9. QED
  BY <1>1, <1>4, <1>8 DEF Starting

\* A run that copies its inputs.
LEMMA BeginsCopying ==
    ASSUME Loaded(plan), NEW mem, Idle(mem), ~SomePending(mem), NEW r, r.in_fast = FALSE, r.gap = 0,
           r.floor = mem.used["fast"], r.capacity = mem.size["fast"], r.reserved = mem.reserved,
           NEW keep, NEW other, Begins(mem, r.floor, keep, other)
    PROVE  RunNumbers(r) /\ Copying(r, other) /\ NoneAbove(r, mem)
<1>1. IsMemory(mem) /\ IsMemory(other) /\ Arenas(mem, r.capacity)
  BY DEF Idle, Arenas, Begins
<1>2. PICK floor \in Nat, cap \in Nat, first \in Nat, fast \in Nat, slow \in Nat, bottom \in Nat, top \in Nat,
           room \in Nat :
          /\ floor = r.floor /\ cap = r.capacity /\ first = FirstOf("fast") /\ r.reserved = first
          /\ first <= floor /\ floor <= cap /\ fast = Bases["fast"] /\ fast > 0 /\ slow = Bases["slow"]
          /\ bottom = FirstOf("slow") /\ top = mem.used["slow"] /\ room = mem.size["slow"]
  <2>1. /\ mem.used["fast"] \in Nat /\ mem.size["fast"] \in Nat /\ FirstOf("fast") \in Nat
        /\ Bases["fast"] \in Nat /\ Bases["fast"] > 0 /\ Bases["slow"] \in Nat /\ FirstOf("slow") \in Nat
        /\ mem.used["slow"] \in Nat /\ mem.size["slow"] \in Nat
    BY <1>1, MemoryNumbers, Numbers
  <2>2. mem.reserved = FirstOf("fast") /\ mem.reserved <= mem.used["fast"] /\ mem.used["fast"] <= mem.size["fast"]
    BY DEF Idle
  <2>3. QED
    BY <2>1, <2>2
<1>3. RunNumbers(r)
  <2>1. floor + 0 <= cap
    BY <1>2
  <2>2. r.in_fast \in BOOLEAN
    OBVIOUS
  <2>3. QED
    BY <1>2, <2>1, <2>2 DEF RunNumbers
<1>4. top <= room /\ (fast + cap <= slow \/ slow + room <= fast)
  BY <1>1, <1>2 DEF Arenas
<1>5. ASSUME NEW t \in Tensor
      PROVE  /\ Slot(r, other, floor, floor, t) /\ other.ptr[t] = mem.ptr[t]
             /\ ~(fast + floor <= mem.ptr[t] /\ mem.ptr[t] < fast + cap) /\ Masked(mem)[t] = mem.ptr[t]
  <2>1. PICK a \in Nat, n \in Nat : a = mem.ptr[t] /\ n = Span(t) /\ n > 0
    BY <1>1, MemoryNumbers, Numbers
  <2>2. ~Pending(mem, t) /\ Masked(mem)[t] = a
    BY <2>1 DEF SomePending, Masked
  <2>3. \/ a = NULL \/ InSlow(a, n, top)
        \/ PlanIoInFast(plan) /\ t \in Inputs /\ InFast(a, n, first, floor)
    BY <1>2, <2>1, <2>2 DEF Idle, IdleSlot
  <2>4. ~(fast + floor <= a /\ a < fast + cap)
    <3>1. CASE a = NULL
      BY <1>2, <3>1 DEF NULL
    <3>2. CASE InSlow(a, n, top)
      <4>1. slow <= a /\ a + n <= slow + room
        BY <1>2, <1>4, <2>1, <3>2 DEF InSlow
      <4>2. QED
        BY <1>2, <1>4, <2>1, <4>1
    <3>3. CASE InFast(a, n, first, floor)
      BY <1>2, <2>1, <3>3 DEF InFast
    <3>4. QED
      BY <2>3, <3>1, <3>2, <3>3
  <2>5. other.ptr[t] = a /\ other.used["slow"] = top
    BY <1>2, <2>1, <2>4 DEF Begins
  <2>6. Slot(r, other, floor, floor, t)
    BY <1>2, <2>1, <2>3, <2>5 DEF Slot, Kept
  <2>7. QED
    BY <2>1, <2>2, <2>4, <2>5, <2>6
<1>6. Clear(Blocks(other.ptr, plan.size) \cup {})
  <2>1. PICK masked : masked = Masked(mem)
    OBVIOUS
  <2>2. \A t \in Tensor : other.ptr[t] \in {masked[t], NULL}
    BY <1>5, <2>1
  <2>3. Blocks(other.ptr, plan.size) \subseteq Blocks(masked, plan.size)
    BY <2>2, BlocksDrop
  <2>4. Clear(Blocks(other.ptr, plan.size))
    BY <2>1, <2>3, ClearSubset DEF Idle
  <2>5. Blocks(other.ptr, plan.size) \cup {} = Blocks(other.ptr, plan.size)
    OBVIOUS
  <2>6. QED
    BY <2>4, <2>5
<1>7. Arenas(other, cap)
  BY <1>1, <1>2 DEF Arenas, Begins
<1>8. Heap(r, other, floor, floor, {})
  BY <1>2, <1>5, <1>6, <1>7 DEF Heap
<1>9. Copying(r, other)
  BY <1>2, <1>8 DEF Copying, Begins
<1>10. NoneAbove(r, mem)
  BY <1>2, <1>5 DEF NoneAbove, InPool
<1>11. QED
  BY <1>3, <1>9, <1>10

\* A run that reads them in place.
LEMMA BeginsWaiting ==
    ASSUME Loaded(plan), NEW mem, Idle(mem), InPlace(mem),
           \A t \in Tensor : Pending(mem, t) => Bases["fast"] + Low(mem) <= mem.ptr[t],
           NEW r, r.in_fast = TRUE, r.gap = WeightRoom, r.floor = Low(mem) - WeightRoom,
           r.capacity = mem.size["fast"], r.reserved = mem.reserved,
           NEW other, Begins(mem, r.floor, Inputs, other)
    PROVE  RunNumbers(r) /\ Waiting(r, other)
<1>1. IsMemory(mem) /\ IsMemory(other) /\ Arenas(mem, r.capacity) /\ Inputs \subseteq Tensor
  BY InputNumbers DEF Idle, Arenas, Begins
<1>2. PICK floor \in Nat, gap \in Nat, low \in Nat, used \in Nat, cap \in Nat, first \in Nat, fast \in Nat :
          /\ floor = r.floor /\ gap = r.gap /\ gap = WeightRoom /\ low = Low(mem) /\ low = floor + gap
          /\ cap = r.capacity /\ first = FirstOf("fast") /\ r.reserved = first
          /\ first <= floor /\ used = mem.used["fast"] /\ used <= cap /\ fast = Bases["fast"]
          /\ used = low + InputBytes(Inputs) /\ low <= used
  <2>1. PICK low \in Nat, gap \in Nat, first \in Nat, used \in Nat, cap \in Nat, sum \in Nat :
            /\ low = Low(mem) /\ gap = WeightRoom /\ first = FirstOf("fast") /\ used = mem.used["fast"]
            /\ cap = mem.size["fast"] /\ sum = InputBytes(Inputs)
    <3>1. Low(mem) \in Nat /\ WeightRoom \in Nat
      BY InPlaceNumbers
    <3>2. FirstOf("fast") \in Nat /\ mem.used["fast"] \in Nat /\ mem.size["fast"] \in Nat
      BY <1>1, MemoryNumbers, Numbers
    <3>3. InputBytes(Inputs) \in Nat
      BY InputNumbers
    <3>4. QED
      BY <3>1, <3>2, <3>3
  <2>2. first + gap <= low /\ used = low + sum
    BY <2>1, InPlaceNumbers
  <2>3. PICK floor \in Nat : floor = low - gap
    BY <2>1, <2>2
  <2>4. low = floor + gap /\ first <= floor /\ low <= used /\ Bases["fast"] \in Nat
    BY <2>1, <2>2, <2>3, Numbers
  <2>5. mem.reserved = first /\ used <= cap
    BY <2>1 DEF Idle
  <2>6. QED
    BY <2>1, <2>2, <2>3, <2>4, <2>5
<1>3. RunNumbers(r)
  <2>1. floor + gap <= cap
    BY <1>2
  <2>2. r.in_fast \in BOOLEAN
    OBVIOUS
  <2>3. QED
    BY <1>2, <2>1, <2>2 DEF RunNumbers
<1>4. ASSUME NEW t \in Inputs PROVE other.ptr[t] = mem.ptr[t] /\ InFast(other.ptr[t], Span(t), low, used)
  <2>1. InFast(mem.ptr[t], Span(t), low, used)
    BY <1>2, InPlaceNumbers
  <2>2. other.ptr[t] = mem.ptr[t]
    BY <1>1 DEF Begins
  <2>3. QED
    BY <2>1, <2>2
<1>5. ASSUME NEW t \in Tensor
      PROVE  Slot(r, other, low, used, t) /\ other.ptr[t] \in {Masked(mem)[t], NULL}
  <2>1. PICK a \in Nat, n \in Nat : a = mem.ptr[t] /\ n = Span(t) /\ n > 0
    BY <1>1, MemoryNumbers, Numbers
  <2>2. CASE t \in Inputs
    <3>1. Masked(mem)[t] = mem.ptr[t]
      BY <2>2 DEF Masked, Pending
    <3>2. QED
      BY <1>4, <2>2, <3>1 DEF Slot
  <2>3. CASE Pending(mem, t)
    <3>1. fast + floor <= a /\ a < fast + cap /\ t \notin Inputs
      <4>1. fast + low <= a /\ t \notin Inputs /\ InFast(a, n, first, cap)
        BY <1>2, <2>1, <2>3 DEF Pending
      <4>2. QED
        BY <1>2, <2>1, <4>1 DEF InFast
    <3>2. other.ptr[t] = NULL
      BY <1>2, <2>1, <3>1 DEF Begins
    <3>3. QED
      BY <3>2 DEF Slot
  <2>4. CASE t \notin Inputs /\ ~Pending(mem, t)
    <3>1. Masked(mem)[t] = a /\ (a = NULL \/ InSlow(a, n, mem.used["slow"]))
      BY <2>1, <2>4 DEF Idle, IdleSlot, Masked
    <3>2. other.ptr[t] \in {a, NULL} /\ other.used["slow"] = mem.used["slow"]
      BY <2>1 DEF Begins
    <3>3. QED
      BY <2>1, <3>1, <3>2 DEF Slot
  <2>5. QED
    BY <2>2, <2>3, <2>4
<1>6. Clear(Blocks(other.ptr, plan.size) \cup {})
  <2>1. PICK masked : masked = Masked(mem)
    OBVIOUS
  <2>2. \A t \in Tensor : other.ptr[t] \in {masked[t], NULL}
    BY <1>5, <2>1
  <2>3. Blocks(other.ptr, plan.size) \subseteq Blocks(masked, plan.size)
    BY <2>2, BlocksDrop
  <2>4. Clear(Blocks(other.ptr, plan.size))
    BY <2>1, <2>3, ClearSubset DEF Idle
  <2>5. Blocks(other.ptr, plan.size) \cup {} = Blocks(other.ptr, plan.size)
    OBVIOUS
  <2>6. QED
    BY <2>4, <2>5
<1>7. Arenas(other, cap)
  BY <1>1, <1>2 DEF Arenas, Begins
<1>8. Heap(r, other, low, used, {})
  BY <1>2, <1>5, <1>6, <1>7 DEF Heap
<1>9. Waiting(r, other)
  <2>1. other.reserved = floor /\ other.size["fast"] = cap /\ other.used["fast"] = used
    BY <1>2 DEF Begins
  <2>2. QED
    BY <1>2, <1>4, <1>8, <2>1 DEF Waiting
<1>10. QED
  BY <1>3, <1>9

\* A run that cannot go on drops what it would have dropped and returns.
Dropped(mem, floor, low, reserved) ==
    [mem EXCEPT !.ptr = DropPointers(mem.ptr, low, Bases["fast"] + mem.size["fast"], {}),
                !.used["fast"] = floor, !.reserved = reserved]

LEMMA DroppedRestores ==
    ASSUME Loaded(plan), NEW r, RunNumbers(r), NEW mem, IsMemory(mem), mem.size["fast"] = r.capacity,
           NEW low, low = Bases["fast"] + r.floor
    PROVE  Restores(r, mem, {}, Dropped(mem, r.floor, low, r.reserved))
<1>1. PICK ptr : ptr = DropPointers(mem.ptr, low, Bases["fast"] + mem.size["fast"], {})
  OBVIOUS
<1>2. /\ DOMAIN ptr = Tensor /\ ptr = [t \in Tensor |-> ptr[t]]
      /\ \A t \in Tensor :
             ptr[t] = IF /\ Bases["fast"] + r.floor <= mem.ptr[t] /\ mem.ptr[t] < Bases["fast"] + r.capacity
                         /\ t \notin {}
                      THEN NULL ELSE mem.ptr[t]
  BY <1>1 DEF DropPointers, IsMemory
<1>3. ptr \in [Tensor -> Nat]
  <2>1. \A t \in Tensor : ptr[t] \in Nat
    BY <1>2 DEF IsMemory, NULL
  <2>2. QED
    BY <1>2, <2>1
<1>4. PICK other, floor, reserved :
          /\ other = [mem EXCEPT !.ptr = ptr, !.used["fast"] = floor, !.reserved = reserved]
          /\ floor = r.floor /\ reserved = r.reserved
  OBVIOUS
<1>5. other = [ptr |-> ptr, cells |-> mem.cells, size |-> mem.size,
               used |-> [mem.used EXCEPT !["fast"] = floor], reserved |-> reserved]
  BY <1>4 DEF IsMemory
<1>6. /\ other.ptr = ptr /\ other.cells = mem.cells /\ other.size = mem.size
      /\ other.used = [mem.used EXCEPT !["fast"] = floor] /\ other.reserved = reserved
      /\ other = [ptr |-> other.ptr, cells |-> other.cells, size |-> other.size,
                  used |-> other.used, reserved |-> other.reserved]
  BY <1>5
<1>7. floor \in Nat /\ reserved \in Nat /\ "fast" \in Pool /\ "slow" \in Pool /\ "fast" # "slow"
  BY <1>4, Numbers DEF RunNumbers, Pool
<1>8. other.used \in [Pool -> Nat] /\ other.used["fast"] = floor /\ other.used["slow"] = mem.used["slow"]
  BY <1>6, <1>7 DEF IsMemory
<1>9. IsMemory(other)
  BY <1>3, <1>6, <1>7, <1>8 DEF IsMemory
<1>10. Restores(r, mem, {}, other)
  BY <1>2, <1>4, <1>6, <1>8, <1>9 DEF Restores
<1>11. QED
  BY <1>1, <1>4, <1>10 DEF Dropped

LEMMA RunBeginKeeps ==
    ASSUME ControlInv, IdleInv, NEW has_state \in BOOLEAN, RunBegin(has_state)
    PROVE  MemoryInv'
<1>1. /\ Loaded(plan) /\ ~Running /\ Idle(m) /\ (SomePending(m) => runs >= 1 /\ \E b \in Nat : Layout(m, b))
      /\ runs \in Nat
  BY MaxRunsAssumption DEF ControlInv, Counters, RunBegin, IdleInv, Running
<1>2. PICK mem, other, r, fl : mem = m /\ other = m' /\ r = run' /\ fl = FastFloor(plan, mem, Bases["fast"])
  OBVIOUS
<1>3. /\ plan' = plan /\ runs' = runs + 1 /\ \A t \in Inputs : mem.ptr[t] # NULL
      /\ r.floor = fl.floor /\ r.gap = fl.gap /\ r.in_fast = fl.in_fast /\ r.reserved = mem.reserved
      /\ r.capacity = mem.size["fast"]
  BY <1>2 DEF RunBegin, Inputs
<1>4. runs' >= 1
  BY <1>1, <1>3
<1>5. IsMemory(mem)
  BY <1>1, <1>2 DEF Idle, Arenas
<1>6. /\ InPlace(mem) => fl.in_fast = TRUE /\ fl.gap = WeightRoom /\ fl.floor = Low(mem) - WeightRoom
      /\ ~InPlace(mem) => fl.in_fast = FALSE /\ fl.gap = 0 /\ fl.floor = mem.used["fast"]
  <2>1. /\ InPlace(mem) => fl = [in_fast |-> TRUE, gap |-> WeightRoom, floor |-> Low(mem) - WeightRoom]
        /\ ~InPlace(mem) => fl = [in_fast |-> FALSE, gap |-> 0, floor |-> mem.used["fast"]]
    BY <1>2, FloorFields, Zenon
  <2>2. ASSUME NEW gap, NEW floor, fl = [in_fast |-> TRUE, gap |-> gap, floor |-> floor]
        PROVE  fl.in_fast = TRUE /\ fl.gap = gap /\ fl.floor = floor
    BY <2>2
  <2>3. ASSUME NEW gap, NEW floor, fl = [in_fast |-> FALSE, gap |-> gap, floor |-> floor]
        PROVE  fl.in_fast = FALSE /\ fl.gap = gap /\ fl.floor = floor
    BY <2>3
  <2>4. QED
    BY <2>1, <2>2, <2>3, Zenon
<1> DEFINE keep == IF fl.in_fast THEN Range(plan.inputs) ELSE {}
<1>7. PICK starting : starting = Starting(mem, fl.floor, keep)
  OBVIOUS
<1>8. \/ pc' = "returned" /\ other = mem
      \/ /\ pc' = "returned" /\ plan.state # <<>>
         /\ other = Dropped(starting, fl.floor, Bases["fast"] + fl.floor, mem.reserved)
      \/ pc' = "state_in" /\ other = starting
  <2>1. starting.size = mem.size
    BY <1>5, <1>7 DEF IsMemory, Starting
  <2>2. QED
    BY <1>2, <1>7, <2>1 DEF RunBegin, Starting, Dropped
<1> HIDE DEF keep
<1>9. ASSUME pc' = "returned", Idle(other), SomePending(other) => \E b \in Nat : Layout(other, b),
             ~r.in_fast => NoneAbove(r, other)
      PROVE  MemoryInv'
  <2>1. Idle(other)' /\ (SomePending(other)' => \E b \in Nat : Layout(other, b)')
    BY <1>3, <1>9, IdleStays
  <2>2. ~Running'
    BY <1>9 DEF Running
  <2>3. NoStaleFastPointer'
    BY <1>2, <1>9 DEF NoStaleFastPointer, NoneAbove, InPool
  <2>4. QED
    BY <1>2, <1>4, <2>1, <2>2, <2>3 DEF MemoryInv, RunInv, IdleInv
<1>10. CASE InPlace(mem)
  <2>1. PlanIoInFast(plan) /\ plan.state = <<>> /\ keep = Inputs
    BY <1>6, <1>10 DEF InPlace, PlanIoInFast, keep, Inputs
  <2>2. CASE pc' = "returned"
    <3>1. other = mem
      BY <1>8, <2>1, <2>2
    <3>2. QED
      BY <1>1, <1>2, <1>3, <1>6, <1>9, <1>10, <2>2, <3>1
  <2>3. CASE pc' = "state_in"
    <3>1. other = starting
      BY <1>8, <2>3
    <3>2. r.floor \in Nat /\ r.floor = Low(mem) - WeightRoom
      <4>1. FirstOf("fast") \in Nat /\ Low(mem) \in Nat /\ WeightRoom \in Nat
            /\ FirstOf("fast") + WeightRoom <= Low(mem)
        BY <1>1, <1>2, <1>10, InPlaceNumbers, Numbers
      <4>2. QED
        BY <1>3, <1>6, <1>10, <4>1
    <3>3. Begins(mem, r.floor, Inputs, other)
      BY <1>3, <1>5, <1>7, <2>1, <3>1, <3>2, BeginFields
    <3>4. ASSUME NEW t \in Tensor, Pending(mem, t) PROVE Bases["fast"] + Low(mem) <= mem.ptr[t]
      <4>1. PICK b \in Nat : Layout(mem, b)
        BY <1>1, <1>2, <3>4 DEF SomePending
      <4>2. Low(mem) = b + WeightRoom
        BY <1>1, <1>2, <1>3, <3>4, <4>1, PendingInPlace DEF SomePending
      <4>3. Bases["fast"] + b + WeightRoom <= mem.ptr[t]
        BY <3>4, <4>1 DEF Layout
      <4>4. Bases["fast"] \in Nat /\ b \in Nat /\ WeightRoom \in Nat
        BY <1>1, <1>2, <1>10, InPlaceNumbers, Numbers
      <4>5. QED
        BY <4>2, <4>3, <4>4
    <3>5. RunNumbers(r) /\ Waiting(r, other)
      BY <1>1, <1>2, <1>3, <1>6, <1>10, <3>2, <3>3, <3>4, BeginsWaiting
    <3>6. Waiting(r, other)' /\ PlanIoInFast(plan)' /\ WeightRoom' = WeightRoom
      BY <1>3, <2>1, <3>5, OutsideStays, SpanStays
    <3>7. Running' /\ ~InStage' /\ ~Done'
      BY <2>3 DEF Running, InStage, Done
    <3>8. RunInv'
      <4>1. r.in_fast /\ r.gap = WeightRoom
        BY <1>3, <1>6, <1>10
      <4>2. RunNumbers(run)' /\ Waiting(run, m)' /\ (run.in_fast)' /\ (run.gap = WeightRoom)'
        BY <1>2, <3>5, <3>6, <4>1 DEF RunNumbers, FirstOf
      <4>3. QED
        BY <1>4, <2>3, <3>6, <3>7, <4>2 DEF RunInv
    <3>9. QED
      BY <3>7, <3>8 DEF MemoryInv, IdleInv
  <2>4. QED
    BY <1>8, <2>2, <2>3
<1>11. CASE ~InPlace(mem)
  <2>1. ~SomePending(mem)
    BY <1>1, <1>2, <1>3, <1>11, PendingInPlace
  <2>2. r.floor = mem.used["fast"] /\ r.gap = 0 /\ r.in_fast = FALSE /\ mem.used["fast"] \in Nat
    BY <1>3, <1>5, <1>6, <1>11, MemoryNumbers
  <2>3. Begins(mem, r.floor, keep, starting)
    BY <1>3, <1>5, <1>7, <2>2, BeginFields
  <2>4. RunNumbers(r) /\ Copying(r, starting) /\ NoneAbove(r, mem)
    BY <1>1, <1>2, <1>3, <2>1, <2>2, <2>3, BeginsCopying
  <2>5. CASE other = mem /\ pc' = "returned"
    BY <1>1, <1>2, <1>9, <2>1, <2>4, <2>5
  <2>6. CASE /\ pc' = "returned"
             /\ other = Dropped(starting, fl.floor, Bases["fast"] + fl.floor, mem.reserved)
    <3>1. IsMemory(starting) /\ starting.size["fast"] = r.capacity
      BY <1>3, <2>3 DEF Begins
    <3>2. Restores(r, starting, {}, other)
      BY <1>1, <1>3, <2>4, <2>6, <3>1, DroppedRestores
    <3>3. Heap(r, starting, r.floor, r.floor, {}) /\ r.floor <= r.floor /\ r.floor <= r.capacity /\ r.floor \in Nat
      BY <2>2, <2>4 DEF Copying, RunNumbers
    <3>4. Quiet(r, other)
      BY <1>1, <2>4, <3>2, <3>3, RestoresQuiet
    <3>5. QED
      BY <1>9, <2>6, <3>4 DEF Quiet
  <2>7. CASE pc' = "state_in" /\ other = starting
    <3>1. Copying(r, other)'
      BY <1>3, <2>4, <2>7, OutsideStays
    <3>2. Running' /\ ~InStage' /\ ~(run.in_fast)'
      BY <1>2, <2>2, <2>7 DEF Running, InStage
    <3>3. RunInv'
      <4>1. RunNumbers(run)' /\ Copying(run, m)'
        BY <1>2, <2>4, <3>1 DEF RunNumbers, FirstOf
      <4>2. QED
        BY <1>4, <2>7, <3>2, <4>1 DEF RunInv
    <3>4. QED
      BY <3>2, <3>3 DEF MemoryInv, IdleInv
  <2>8. QED
    BY <1>8, <2>5, <2>6, <2>7
<1>12. QED
  BY <1>10, <1>11

-----------------------------------------------------------------------------
(* The invariant holds *)

LEMMA MemoryInit == Init => MemoryInv
<1> SUFFICES ASSUME Init PROVE MemoryInv
  OBVIOUS
<1>1. PICK setup \in Setup : /\ plan = setup.plan
                             /\ m = FreshMem([fast |-> setup.fast, slow |-> setup.slow])
  BY DEF Init
<1>2. PICK size : size = [fast |-> setup.fast, slow |-> setup.slow]
  OBVIOUS
<1>3. /\ setup.fast \in Nat /\ setup.slow \in Nat /\ FirstOf("fast") <= setup.fast /\ FirstOf("slow") <= setup.slow
      /\ \/ Bases["fast"] + setup.fast <= Bases["slow"]
         \/ Bases["slow"] + setup.slow <= Bases["fast"]
      /\ Loaded(plan)
  BY <1>1, SetupAssumption DEF FirstOf
<1>4. size \in [Pool -> Nat] /\ size["fast"] = setup.fast /\ size["slow"] = setup.slow
  BY <1>2, <1>3 DEF Pool
<1>5. Idle(m) /\ ~SomePending(m)
  BY <1>1, <1>2, <1>3, <1>4, FreshIdle
<1>6. pc = "idle" /\ ~Running
  BY DEF Init, Running
<1>7. QED
  BY <1>5, <1>6 DEF MemoryInv, RunInv, IdleInv

LEMMA MemoryStays ==
    ASSUME MemoryInv, UNCHANGED vars
    PROVE  MemoryInv'
<1>1. UNCHANGED <<plan, m, pc, s, j, i, flow, run, stage_run, runs>>
  BY DEF vars
<1>2. PICK r, mem, saved, ins, block, scratch :
          /\ r = run /\ mem = m /\ saved = stage_run.saved /\ ins = Stage.ins /\ block = Stage.block
          /\ scratch = stage_run.scratch
  OBVIOUS
<1>3. /\ Stage' = Stage /\ Running' = Running /\ InStage' = InStage /\ Done' = Done
      /\ PlanIoInFast(plan)' = PlanIoInFast(plan) /\ WeightRoom' = WeightRoom
      /\ RunNumbers(run)' = RunNumbers(run)
  BY <1>1, SpanStays DEF Stage, Running, InStage, Done, RunNumbers, FirstOf
<1>4. /\ Copying(run, m)' <=> Copying(run, m)
      /\ Waiting(run, m)' <=> Waiting(run, m)
      /\ Finished(run, m)' <=> Finished(run, m)
      /\ NoneKept(run, m)' <=> NoneKept(run, m)
  <2>1. /\ Copying(r, mem)' <=> Copying(r, mem)
        /\ Waiting(r, mem)' <=> Waiting(r, mem)
        /\ Finished(r, mem)' <=> Finished(r, mem)
        /\ NoneKept(r, mem)' <=> NoneKept(r, mem)
    BY <1>1, OutsideStays
  <2>2. QED
    BY <1>1, <1>2, <2>1
<1>5. /\ Staged(run, m, stage_run.saved, Stage.ins, Stage.block, stage_run.scratch)'
             <=> Staged(run, m, stage_run.saved, Stage.ins, Stage.block, stage_run.scratch)
      /\ Loading(run, m, Stage.ins, i)' <=> Loading(run, m, Stage.ins, i)
  <2>1. PICK n : n = i
    OBVIOUS
  <2>2. /\ Staged(r, mem, saved, ins, block, scratch)' <=> Staged(r, mem, saved, ins, block, scratch)
        /\ Loading(r, mem, ins, n)' <=> Loading(r, mem, ins, n)
    BY <1>1, StagedStays
  <2>3. QED
    BY <1>1, <1>2, <1>3, <2>1, <2>2
<1>6. RunInv'
  BY <1>1, <1>3, <1>4, <1>5 DEF MemoryInv, RunInv
<1>7. IdleInv'
  <2>1. /\ Idle(mem)' <=> Idle(mem)
        /\ SomePending(mem)' <=> SomePending(mem)
        /\ \A b : Layout(mem, b)' <=> Layout(mem, b)
    BY <1>1, IdleStays
  <2>2. NoStaleFastPointer' <=> NoStaleFastPointer
    BY <1>1 DEF NoStaleFastPointer, InPool
  <2>3. (Idle(m)' <=> Idle(m)) /\ (SomePending(m)' <=> SomePending(m)) /\ \A b : Layout(m, b)' <=> Layout(m, b)
    <3>1. (Idle(m)' <=> Idle(m)) /\ (SomePending(m)' <=> SomePending(m))
      BY <1>1, <1>2, <2>1
    <3>2. ASSUME NEW b PROVE Layout(m, b)' <=> Layout(m, b)
      <4>1. Layout(mem, b)' <=> Layout(mem, b)
        BY <2>1
      <4>2. QED
        BY <1>1, <1>2, <4>1
    <3>3. QED
      BY <3>1, <3>2
  <2>4. QED
    BY <1>1, <1>3, <2>2, <2>3 DEF MemoryInv, IdleInv
<1>8. QED
  BY <1>6, <1>7 DEF MemoryInv

LEMMA MemoryNext ==
    ASSUME HoldRuns \in 0 .. 1, ControlInv, MemoryInv, [Next]_vars
    PROVE  MemoryInv'
<1>1. RunInv /\ IdleInv
  BY DEF MemoryInv
<1>2. CASE UNCHANGED vars
  BY <1>2, MemoryStays
<1>3. CASE Step
  BY <1>1, <1>3, CopyStepKeeps, UnwindStepKeeps, ControlStepKeeps, RunEndKeeps, BreakDownKeeps, OpsBeginKeeps,
     ReshapeKeeps, RunKernelKeeps, AllocOutputKeeps, SpillStepKeeps, LoadInputKeeps, StageBeginKeeps,
     StageEndLeaves DEF Step
<1>4. CASE MemInit \/ CallerAlloc \/ StateInit \/ Collect
  BY <1>1, <1>4, IdleStepKeeps
<1>5. ASSUME NEW t \in Range(plan.inputs), NEW value \in InputValue, InputWrite(t, value) PROVE MemoryInv'
  BY <1>1, <1>5, InputWriteKeeps
<1>6. ASSUME NEW has_state \in BOOLEAN, RunBegin(has_state) PROVE MemoryInv'
  BY <1>1, <1>6, RunBeginKeeps
<1>7. QED
  BY <1>2, <1>3, <1>4, <1>5, <1>6 DEF Next, Caller

-----------------------------------------------------------------------------
(* What it says *)

\* Where a tensor's block can be at any time.
LEMMA PointersInside ==
    ASSUME Loaded(plan), MemoryInv
    PROVE  /\ IsMemory(m) /\ m.used["slow"] <= m.size["slow"]
           /\ \A t \in Tensor : m.ptr[t] \in DOMAIN m.cells \cup {NULL}
<1>1. PICK fast \in Nat, slow \in Nat, first \in Nat, bottom \in Nat :
          /\ fast = Bases["fast"] /\ slow = Bases["slow"] /\ first = FirstOf("fast") /\ bottom = FirstOf("slow")
  BY Numbers
<1>2. PICK cap \in Nat : Arenas(m, cap) /\ first <= cap /\ \A t \in Tensor :
          \/ m.ptr[t] = NULL \/ InSlow(m.ptr[t], Span(t), m.used["slow"])
          \/ InFast(m.ptr[t], Span(t), first, cap)
  <2>1. CASE Running
    <3>. PICK lo \in Nat, hi \in Nat :
              (\E saved : Heap(run, m, lo, hi, saved)) /\ run.floor <= lo /\ hi <= run.capacity
      BY <2>1, RunningHeap DEF MemoryInv
    <3>1. PICK saved : Heap(run, m, lo, hi, saved) /\ run.floor <= lo /\ hi <= run.capacity
      OBVIOUS
    <3>2. PICK floor \in Nat, cap \in Nat : floor = run.floor /\ cap = run.capacity /\ first <= floor /\ floor <= cap
      BY <1>1, <2>1 DEF MemoryInv, RunInv, RunNumbers
    <3>3. ASSUME NEW t \in Tensor
          PROVE  \/ m.ptr[t] = NULL \/ InSlow(m.ptr[t], Span(t), m.used["slow"])
                 \/ InFast(m.ptr[t], Span(t), first, cap)
      <4>1. PICK a \in Nat, n \in Nat : a = m.ptr[t] /\ n = Span(t)
        BY <3>1, MemoryNumbers, Numbers DEF Heap, Arenas
      <4>2. InFast(a, n, lo, hi) => InFast(a, n, first, cap)
        BY <1>1, <3>1, <3>2 DEF InFast
      <4>3. Kept(run, a, t) => InFast(a, n, first, cap)
        BY <1>1, <3>2, <4>1 DEF InFast, Kept
      <4>4. QED
        BY <3>1, <4>1, <4>2, <4>3 DEF Heap, Slot
    <3>4. QED
      BY <3>1, <3>2, <3>3 DEF Heap
  <2>2. CASE ~Running
    <3>1. Idle(m)
      BY <2>2 DEF MemoryInv, IdleInv
    <3>2. PICK cap \in Nat, used \in Nat : cap = m.size["fast"] /\ used = m.used["fast"] /\ first <= used /\ used <= cap
      BY <1>1, <3>1, MemoryNumbers DEF Idle, Arenas
    <3>3. ASSUME NEW t \in Tensor
          PROVE  \/ m.ptr[t] = NULL \/ InSlow(m.ptr[t], Span(t), m.used["slow"])
                 \/ InFast(m.ptr[t], Span(t), first, cap)
      <4>1. PICK a \in Nat, n \in Nat : a = m.ptr[t] /\ n = Span(t)
        BY <3>1, MemoryNumbers, Numbers DEF Idle, Arenas
      <4>2. InFast(a, n, first, used) => InFast(a, n, first, cap)
        BY <1>1, <3>2 DEF InFast
      <4>3. QED
        BY <1>1, <3>1, <3>2, <4>1, <4>2 DEF Idle, IdleSlot, Pending
    <3>4. QED
      BY <3>1, <3>2, <3>3 DEF Idle
  <2>3. QED
    BY <2>1, <2>2
<1>3. IsMemory(m)
  BY <1>2 DEF Arenas
<1>4. PICK used \in Nat, size \in Nat : used = m.used["slow"] /\ size = m.size["slow"] /\ used <= size
  BY <1>2, <1>3, MemoryNumbers DEF Arenas
<1>5. ASSUME NEW t \in Tensor PROVE m.ptr[t] \in DOMAIN m.cells \cup {NULL}
  <2>1. PICK a \in Nat, n \in Nat : a = m.ptr[t] /\ n = Span(t) /\ n > 0
    BY <1>3, MemoryNumbers, Numbers
  <2>2. DOMAIN m.cells = (fast .. fast + cap - 1) \cup (slow .. slow + size - 1)
    BY <1>1, <1>2, <1>4 DEF Arenas
  <2>3. InSlow(a, n, used) => a \in slow .. slow + size - 1
    BY <1>1, <1>4, <2>1 DEF InSlow
  <2>4. InFast(a, n, first, cap) => a \in fast .. fast + cap - 1
    BY <1>1, <2>1 DEF InFast
  <2>5. QED
    BY <1>2, <1>4, <2>1, <2>2, <2>3, <2>4
<1>6. QED
  BY <1>3, <1>4, <1>5

LEMMA BoundsOrdered ==
    ASSUME Loaded(plan), MemoryInv
    PROVE  m.reserved <= m.used["fast"] /\ m.used["fast"] <= m.size["fast"]
<1>1. CASE ~Running
  BY <1>1 DEF MemoryInv, IdleInv, Idle
<1>2. CASE Running
  <2>1. PICK floor \in Nat, gap \in Nat, cap \in Nat : /\ floor = run.floor /\ gap = run.gap /\ cap = run.capacity
                                                       /\ floor + gap <= cap
    BY <1>2 DEF MemoryInv, RunInv, RunNumbers
  <2>2. CASE InStage
    BY <1>2, <2>2 DEF MemoryInv, RunInv, Staged
  <2>3. CASE ~InStage
    <3>1. Copying(run, m) \/ Waiting(run, m) \/ Finished(run, m)
      BY <1>2, <2>3 DEF MemoryInv, RunInv
    <3>2. CASE Copying(run, m) \/ Finished(run, m)
      BY <2>1, <3>2 DEF Copying, Finished
    <3>3. CASE Waiting(run, m)
      <4>1. InputBytes(Inputs) \in Nat
        BY InputNumbers
      <4>2. QED
        BY <2>1, <3>3, <4>1 DEF Waiting
    <3>4. QED
      BY <3>1, <3>2, <3>3
  <2>4. QED
    BY <2>2, <2>3
<1>3. QED
  BY <1>1, <1>2

LEMMA MemoryImpliesTypes == ControlInv /\ MemoryInv => TypeOK
<1> SUFFICES ASSUME ControlInv, MemoryInv PROVE TypeOK
  OBVIOUS
<1>1. Loaded(plan)
  BY DEF ControlInv, Counters
<1>2. IsMemory(m) /\ m.used["slow"] <= m.size["slow"] /\ \A t \in Tensor : m.ptr[t] \in DOMAIN m.cells \cup {NULL}
  BY <1>1, PointersInside
<1>3. m.reserved <= m.used["fast"] /\ \A p \in Pool : m.used[p] <= m.size[p]
  BY <1>1, <1>2, BoundsOrdered DEF Pool
<1>4. m.ptr \in [Tensor -> DOMAIN m.cells \cup {NULL}]
  BY <1>2 DEF IsMemory
<1>5. QED
  BY <1>2, <1>3, <1>4 DEF TypeOK, IsMemory, ControlInv, Counters

LEMMA MemoryImpliesNoStale == ControlInv /\ MemoryInv => NoStaleFastPointer
<1> SUFFICES ASSUME ControlInv, MemoryInv, ~run.in_fast,
                    pc \in {"stage", "unwind", "copy_in", "copy_out", "store"}, NEW t \in Tensor
             PROVE  ~InPool(m, "fast", run.floor, m.size["fast"], t)
  BY DEF MemoryInv, IdleInv, NoStaleFastPointer, Running
<1>1. Loaded(plan) /\ Copying(run, m) /\ RunNumbers(run)
  BY DEF ControlInv, Counters, MemoryInv, RunInv, Running, InStage
<1>2. PICK r, mem : r = run /\ mem = m
  OBVIOUS
<1>3. Heap(r, mem, r.floor, r.floor, {}) /\ mem.size["fast"] = r.capacity
  BY <1>1, <1>2 DEF Copying
<1>4. NoneAbove(r, mem)
  <2>1. r.floor \in Nat /\ r.floor <= r.floor /\ r.floor <= r.capacity
    BY <1>1, <1>2 DEF RunNumbers
  <2>2. IsMemory(mem) /\ Arenas(mem, r.capacity)
    BY <1>3 DEF Heap, Arenas
  <2>3. PICK fast \in Nat, slow \in Nat, bottom \in Nat, top \in Nat, room \in Nat, floor \in Nat, cap \in Nat :
            /\ fast = Bases["fast"] /\ fast > 0 /\ slow = Bases["slow"] /\ bottom = FirstOf("slow")
            /\ top = mem.used["slow"] /\ room = mem.size["slow"] /\ floor = r.floor /\ cap = r.capacity
    <3>1. Bases["fast"] \in Nat /\ Bases["fast"] > 0 /\ Bases["slow"] \in Nat /\ FirstOf("slow") \in Nat
      BY <1>1, Numbers
    <3>2. mem.used["slow"] \in Nat /\ mem.size["slow"] \in Nat
      BY <2>2, MemoryNumbers
    <3>3. r.floor \in Nat /\ r.capacity \in Nat
      BY <1>1, <1>2 DEF RunNumbers
    <3>4. QED
      BY <3>1, <3>2, <3>3
  <2>4. top <= room /\ (fast + cap <= slow \/ slow + room <= fast)
    BY <2>2, <2>3 DEF Arenas
  <2>5. ASSUME NEW u \in Tensor PROVE ~(fast + floor <= mem.ptr[u] /\ mem.ptr[u] < fast + cap)
    <3>1. PICK a \in Nat, n \in Nat : a = mem.ptr[u] /\ n = Span(u) /\ n > 0
      BY <1>1, <2>2, MemoryNumbers, Numbers
    <3>2. a = NULL \/ InSlow(a, n, top) \/ InFast(a, n, floor, floor) \/ Kept(r, a, u)
      BY <1>3, <2>3, <3>1 DEF Heap, Slot
    <3>3. CASE a = NULL
      BY <2>3, <3>1, <3>3 DEF NULL
    <3>4. CASE InSlow(a, n, top)
      <4>1. slow <= a /\ a + n <= slow + room
        BY <2>3, <2>4, <3>1, <3>4 DEF InSlow
      <4>2. QED
        BY <2>3, <2>4, <3>1, <4>1
    <3>5. CASE InFast(a, n, floor, floor) \/ Kept(r, a, u)
      <4>1. a + n <= fast + floor
        BY <2>3, <3>1, <3>5 DEF InFast, Kept
      <4>2. QED
        BY <2>3, <3>1, <4>1
    <3>6. QED
      BY <3>2, <3>3, <3>4, <3>5
  <2>6. QED
    BY <1>3, <2>3, <2>5 DEF NoneAbove, InPool
<1>5. QED
  BY <1>2, <1>4 DEF NoneAbove

\* x is a block within what one of the arenas has in use.
Within(mem, x) == \E p \in Pool : Bases[p] <= x[1] /\ x[1] + x[2] <= Bases[p] + mem.used[p]

LEMMA WithinPools ==
    ASSUME Loaded(plan), NEW mem, IsMemory(mem), NEW a \in Nat, NEW n \in Nat, NEW lo \in Nat, NEW hi \in Nat
    PROVE  /\ InSlow(a, n, mem.used["slow"]) => Within(mem, <<a, n>>)
           /\ InFast(a, n, lo, hi) /\ hi <= mem.used["fast"] => Within(mem, <<a, n>>)
<1>1. PICK fast \in Nat, slow \in Nat, bottom \in Nat, used \in Nat, top \in Nat :
          /\ fast = Bases["fast"] /\ slow = Bases["slow"] /\ bottom = FirstOf("slow")
          /\ used = mem.used["fast"] /\ top = mem.used["slow"]
  BY Numbers, MemoryNumbers
<1>2. ASSUME InSlow(a, n, top) PROVE Bases["slow"] <= a /\ a + n <= Bases["slow"] + top
  BY <1>1, <1>2 DEF InSlow
<1>3. ASSUME InFast(a, n, lo, hi), hi <= used PROVE Bases["fast"] <= a /\ a + n <= Bases["fast"] + used
  BY <1>1, <1>3 DEF InFast
<1>4. "fast" \in Pool /\ "slow" \in Pool /\ <<a, n>>[1] = a /\ <<a, n>>[2] = n
  BY DEF Pool
<1>5. QED
  BY <1>1, <1>2, <1>3, <1>4 DEF Within

\* The weights of a stage lie apart from its tensors and from what it has saved.
LEMMA ScratchApart ==
    ASSUME Loaded(plan), NEW r, RunNumbers(r), NEW mem, NEW saved, NEW ins, NEW block \in Nat, NEW scratch \in Nat,
           Staged(r, mem, saved, ins, block, scratch), \A k \in DOMAIN ins : ins[k] \in Tensor, block # 0,
           NEW x \in Blocks(mem.ptr, plan.size) \cup SavedBlocks(saved, ins)
    PROVE  Off(<<scratch, AlignUp(block)>>, x)
<1>1. /\ IsMemory(mem) /\ Arenas(mem, r.capacity)
      /\ Heap(r, mem, mem.reserved, mem.used["fast"], SavedBlocks(saved, ins))
  BY StagedNumbers
<1>2. PICK fast \in Nat, slow \in Nat, first \in Nat, bottom \in Nat, used \in Nat, top \in Nat, room \in Nat,
           low \in Nat, floor \in Nat, cap \in Nat :
          /\ fast = Bases["fast"] /\ slow = Bases["slow"] /\ first = FirstOf("fast") /\ bottom = FirstOf("slow")
          /\ used = mem.used["fast"] /\ top = mem.used["slow"] /\ room = mem.size["slow"]
          /\ low = mem.reserved /\ floor = r.floor /\ cap = r.capacity
  <2>1. Bases["fast"] \in Nat /\ Bases["slow"] \in Nat /\ FirstOf("fast") \in Nat /\ FirstOf("slow") \in Nat
    BY Numbers
  <2>2. /\ mem.used["fast"] \in Nat /\ mem.used["slow"] \in Nat /\ mem.size["slow"] \in Nat
        /\ mem.reserved \in Nat
    BY <1>1, MemoryNumbers
  <2>3. r.floor \in Nat /\ r.capacity \in Nat
    BY DEF RunNumbers
  <2>4. QED
    BY <2>1, <2>2, <2>3
<1>3. first <= floor /\ floor <= low /\ low <= used /\ used <= cap /\ top <= room
      /\ (fast + cap <= slow \/ slow + room <= fast)
  <2>1. first <= floor
    BY <1>2 DEF RunNumbers
  <2>2. floor <= low /\ low <= used /\ used <= cap
    BY <1>2, StagedNumbers
  <2>3. top <= room /\ (fast + cap <= slow \/ slow + room <= fast)
    BY <1>1, <1>2 DEF Arenas
  <2>4. QED
    BY <2>1, <2>2, <2>3
<1>4. PICK n \in Nat : n = AlignUp(block) /\ fast + floor <= scratch /\ scratch + n <= fast + low
  <2>1. AlignUp(block) \in Nat
    BY AlignUpFacts
  <2>2. InFast(scratch, AlignUp(block), floor, low)
    BY <1>2 DEF Staged
  <2>3. QED
    BY <1>2, <2>1, <2>2 DEF InFast
<1>5. ASSUME NEW a \in Nat, NEW b \in Nat,
             InSlow(a, b, top) \/ InFast(a, b, low, used) \/ InFast(a, b, first, floor)
      PROVE  scratch + n <= a \/ a + b <= scratch
  <2>1. CASE InSlow(a, b, top)
    <3>1. slow <= a /\ a + b <= slow + room
      BY <1>2, <1>3, <2>1 DEF InSlow
    <3>2. QED
      BY <1>3, <1>4, <3>1
  <2>2. CASE InFast(a, b, low, used)
    BY <1>2, <1>4, <2>2 DEF InFast
  <2>3. CASE InFast(a, b, first, floor)
    BY <1>2, <1>4, <2>3 DEF InFast
  <2>4. QED
    BY <1>5, <2>1, <2>2, <2>3
<1>6. PICK a \in Nat, b \in Nat : /\ x = <<a, b>>
                                  /\ InSlow(a, b, top) \/ InFast(a, b, low, used) \/ InFast(a, b, first, floor)
  <2>1. CASE x \in Blocks(mem.ptr, plan.size)
    <3>1. PICK t \in Tensor : mem.ptr[t] # NULL /\ x = <<mem.ptr[t], Span(t)>>
      BY <2>1 DEF Blocks, Span
    <3>2. mem.ptr[t] \in Nat /\ Span(t) \in Nat
      BY <1>1, MemoryNumbers, Numbers
    <3>3. Slot(r, mem, low, used, t)
      BY <1>1, <1>2 DEF Heap
    <3>4. InSlow(mem.ptr[t], Span(t), top) \/ InFast(mem.ptr[t], Span(t), low, used)
          \/ InFast(mem.ptr[t], Span(t), first, floor)
      BY <1>2, <3>1, <3>3 DEF Slot, Kept
    <3>5. QED
      BY <3>1, <3>2, <3>4
  <2>2. CASE x \in SavedBlocks(saved, ins)
    <3>1. PICK k \in DOMAIN ins : saved[k] # NULL /\ x = <<saved[k], Span(ins[k])>>
      BY <2>2 DEF SavedBlocks
    <3>2. saved[k] \in Nat /\ Span(ins[k]) \in Nat
      BY Numbers DEF Staged
    <3>3. InSlow(saved[k], Span(ins[k]), top) \/ InFast(saved[k], Span(ins[k]), first, floor)
      BY <1>2, <3>1 DEF Staged, Kept
    <3>4. QED
      BY <3>1, <3>2, <3>3
  <2>3. QED
    BY <2>1, <2>2
<1>7. QED
  BY <1>4, <1>5, <1>6 DEF Off

\* All a stage has allocated lies apart and below the bump offsets.
LEMMA StagedApart ==
    ASSUME Loaded(plan), NEW r, RunNumbers(r), NEW mem, NEW saved, NEW ins, NEW block \in Nat, NEW scratch,
           Staged(r, mem, saved, ins, block, scratch), \A k \in DOMAIN ins : ins[k] \in Tensor,
           block # 0 => scratch \in Nat,
           NEW A, A = Blocks(mem.ptr, plan.size) \cup SavedBlocks(saved, ins)
                      \cup {<<scratch, AlignUp(block)>> : e \in {y \in {1} : block # 0}}
    PROVE  Clear(A) /\ \A x \in A : Within(mem, x)
<1>1. /\ IsMemory(mem) /\ Heap(r, mem, mem.reserved, mem.used["fast"], SavedBlocks(saved, ins))
      /\ mem.reserved \in Nat /\ mem.used["fast"] \in Nat
      /\ r.floor \in Nat /\ r.floor <= mem.reserved /\ mem.reserved <= mem.used["fast"]
  BY StagedNumbers
<1>2. PICK B : B = Blocks(mem.ptr, plan.size) \cup SavedBlocks(saved, ins)
  OBVIOUS
<1>3. Clear(B)
  BY <1>1, <1>2 DEF Heap
<1>4. Clear(A)
  <2>1. CASE block = 0
    <3>1. A = B
      BY <1>2, <2>1
    <3>2. QED
      BY <1>3, <3>1
  <2>2. CASE block # 0
    <3>1. PICK e : e = <<scratch, AlignUp(block)>>
      OBVIOUS
    <3>2. A = B \cup {e}
      BY <1>2, <2>2, <3>1
    <3>3. \A y \in B : Off(e, y)
      BY <1>2, <2>2, <3>1, ScratchApart
    <3>4. QED
      BY <1>3, <3>2, <3>3, ClearAdd
  <2>3. QED
    BY <2>1, <2>2
<1>5. FirstOf("fast") \in Nat /\ r.floor <= mem.used["fast"] /\ mem.used["fast"] <= mem.used["fast"]
  BY <1>1, Numbers
<1>6. ASSUME NEW x \in Blocks(mem.ptr, plan.size) PROVE Within(mem, x)
  <2>1. PICK t \in Tensor : mem.ptr[t] # NULL /\ x = <<mem.ptr[t], Span(t)>>
    BY DEF Blocks, Span
  <2>2. mem.ptr[t] \in Nat /\ Span(t) \in Nat
    BY <1>1, MemoryNumbers, Numbers
  <2>3. \/ InSlow(mem.ptr[t], Span(t), mem.used["slow"])
        \/ InFast(mem.ptr[t], Span(t), mem.reserved, mem.used["fast"])
        \/ InFast(mem.ptr[t], Span(t), FirstOf("fast"), r.floor)
    BY <1>1, <2>1 DEF Heap, Slot, Kept
  <2>4. QED
    BY <1>1, <1>5, <2>1, <2>2, <2>3, WithinPools
<1>7. ASSUME NEW x \in SavedBlocks(saved, ins) PROVE Within(mem, x)
  <2>1. PICK k \in DOMAIN ins : saved[k] # NULL /\ x = <<saved[k], Span(ins[k])>>
    BY DEF SavedBlocks
  <2>2. saved[k] \in Nat /\ Span(ins[k]) \in Nat
    BY Numbers DEF Staged
  <2>3. \/ InSlow(saved[k], Span(ins[k]), mem.used["slow"])
        \/ InFast(saved[k], Span(ins[k]), FirstOf("fast"), r.floor)
    BY <2>1 DEF Staged, Kept
  <2>4. QED
    BY <1>1, <1>5, <2>1, <2>2, <2>3, WithinPools
<1>8. ASSUME block # 0 PROVE Within(mem, <<scratch, AlignUp(block)>>)
  <2>1. scratch \in Nat /\ AlignUp(block) \in Nat /\ InFast(scratch, AlignUp(block), r.floor, mem.reserved)
    BY <1>8, AlignUpFacts DEF Staged
  <2>2. QED
    BY <1>1, <2>1, WithinPools
<1>9. QED
  BY <1>4, <1>6, <1>7, <1>8

LEMMA MemoryImpliesApart == ControlInv /\ MemoryInv => AllocationsApart
<1> SUFFICES ASSUME ControlInv, MemoryInv, Running
             PROVE  /\ Clear(Allocations)
                    /\ ~(run.in_fast /\ ~InStage) => \A x \in Allocations : Within(m, x)
  BY DEF AllocationsApart, Clear, Off, Within
<1>1. Loaded(plan) /\ RunNumbers(run)
  BY DEF ControlInv, Counters, MemoryInv, RunInv
<1>2. PICK r, mem : r = run /\ mem = m
  OBVIOUS
<1>3. CASE InStage
  <2>1. PICK saved, ins, block, scratch :
            /\ saved = stage_run.saved /\ ins = Stage.ins /\ block = Stage.block /\ scratch = stage_run.scratch
    OBVIOUS
  <2>2. Staged(r, mem, saved, ins, block, scratch)
    BY <1>2, <1>3, <2>1 DEF MemoryInv, RunInv
  <2>3. block \in Nat /\ \A k \in DOMAIN ins : ins[k] \in Tensor
    BY <1>3, <2>1, StageTypes
  <2>4. saved \in [DOMAIN ins -> Nat]
    BY <2>2 DEF Staged
  <2>5. {<<stage_run.saved[k], AlignUp(plan.size[Stage.ins[k]])>> :
             k \in {h \in DOMAIN stage_run.saved : InStage /\ stage_run.saved[h] # NULL}}
        = SavedBlocks(saved, ins)
    BY <1>3, <2>1, <2>4 DEF SavedBlocks, Span
  <2>6. PICK A : A = Blocks(mem.ptr, plan.size) \cup SavedBlocks(saved, ins)
                     \cup {<<scratch, AlignUp(block)>> : e \in {y \in {1} : block # 0}}
    OBVIOUS
  <2>7. Allocations = A
    BY <1>2, <1>3, <2>1, <2>5, <2>6 DEF Allocations, Blocks
  <2>8. block # 0 => scratch \in Nat
    BY <2>2 DEF Staged
  <2>9. Clear(A) /\ \A x \in A : Within(mem, x)
    BY <1>1, <1>2, <2>2, <2>3, <2>6, <2>8, StagedApart
  <2>10. QED
    BY <1>2, <2>7, <2>9
<1>4. CASE ~InStage
  <2>1. PICK A : A = Blocks(mem.ptr, plan.size)
    OBVIOUS
  <2>2. Allocations = A
    BY <1>2, <1>4, <2>1 DEF Allocations, Blocks
  <2>3. Clear(A)
    <3>1. PICK lo, hi, saved : Heap(r, mem, lo, hi, saved)
      BY <1>1, <1>2, RunningHeap DEF MemoryInv
    <3>2. QED
      BY <2>1, <3>1, ClearSubset DEF Heap
  <2>4. ASSUME ~run.in_fast, NEW x \in A PROVE Within(mem, x)
    <3>1. /\ Heap(r, mem, r.floor, r.floor, {}) /\ mem.used["fast"] = r.floor /\ r.floor \in Nat
          /\ FirstOf("fast") \in Nat
      BY <1>1, <1>2, <1>4, <2>4, Numbers DEF MemoryInv, RunInv, Copying, RunNumbers
    <3>2. IsMemory(mem) /\ r.floor <= mem.used["fast"]
      BY <3>1 DEF Heap, Arenas
    <3>3. PICK t \in Tensor : mem.ptr[t] # NULL /\ x = <<mem.ptr[t], Span(t)>>
      BY <2>1, <2>4 DEF Blocks, Span
    <3>4. mem.ptr[t] \in Nat /\ Span(t) \in Nat
      BY <1>1, <3>2, MemoryNumbers, Numbers
    <3>5. \/ InSlow(mem.ptr[t], Span(t), mem.used["slow"])
          \/ InFast(mem.ptr[t], Span(t), r.floor, r.floor)
          \/ InFast(mem.ptr[t], Span(t), FirstOf("fast"), r.floor)
      BY <3>1, <3>3 DEF Heap, Slot, Kept
    <3>6. QED
      BY <1>1, <3>1, <3>2, <3>3, <3>4, <3>5, WithinPools
  <2>5. QED
    BY <1>2, <1>4, <2>2, <2>3, <2>4
<1>5. QED
  BY <1>3, <1>4

-----------------------------------------------------------------------------
(* Theorems *)

\* The inductive invariant, from the caller's first input to the last return.  The
\* hypothesis is about a caller with allocations of its own: it makes them before
\* its first run, as the arenas of test_weight_arena.c:445 do.  A caller that makes
\* them later meets the outputs that a run in place left above the arena's
\* bump offset (tigris_executor.c:3628, the run MCStaleOutput).
THEOREM MemoryInvariant == ASSUME HoldRuns \in 0 .. 1 PROVE Spec => [](ControlInv /\ MemoryInv)
<1>1. Spec => Init /\ [][Next]_vars
  BY DEF Spec
<1>2. Init => ControlInv /\ MemoryInv
  BY ControlInit, MemoryInit
<1>3. (ControlInv /\ MemoryInv) /\ [Next]_vars => (ControlInv /\ MemoryInv)'
  <2>1. ASSUME ControlInv, MemoryInv, [Next]_vars PROVE ControlInv' /\ MemoryInv'
    BY <2>1, ControlNext, MemoryNext
  <2>2. QED
    BY <2>1
<1>4. QED
  BY <1>1, <1>2, <1>3, PTL

\* The executor's state keeps its types: every pointer is null or an address of an
\* arena, no bump offset passes its arena's size, and what stays below a stage's
\* reset never passes what is in use, through every run, failed ones too.
THEOREM TypeCorrect == ASSUME HoldRuns \in 0 .. 1 PROVE Spec => []TypeOK
  BY MemoryInvariant, MemoryImpliesTypes, PTL

\* While tigris_run_with_state is on, no two live allocations overlap and none lies
\* beyond the next allocation's place, whatever exec_stage, the control operators
\* and compaction did, for every plan, memory and schedule of the caller's calls.
THEOREM AllocationsStayApart == ASSUME HoldRuns \in 0 .. 1 PROVE Spec => []AllocationsApart
  BY MemoryInvariant, MemoryImpliesApart, PTL

\* Between the stages of a run that copies its inputs, and after it, no tensor
\* points above the floor: cleanup and drop_free_fast_pointers miss no pointer on
\* any path, so compact_pool never moves what is no longer allocated.
THEOREM NoStalePointers == ASSUME HoldRuns \in 0 .. 1 PROVE Spec => []NoStaleFastPointer
  BY MemoryInvariant, MemoryImpliesNoStale, PTL

-----------------------------------------------------------------------------
(* Where the caller's bytes are *)

\* The bytes lie in the fast arena below offset top.
BytesBelow(bytes, top) ==
    \A x \in bytes : x \in Nat /\ Bases["fast"] <= x /\ x < Bases["fast"] + top

\* None of them is among the n bytes at address a.
Spares(bytes, a, n) == \A x \in bytes : x < a \/ a + n <= x

HoldsIn(bytes, mem) == \A x \in bytes : mem.cells[x][1] = CallerValue

\* A model input that stays in the caller's part of the fast arena during a run,
\* or that a stage has saved there, is clear of them.
KeptSpares(r, mem, bytes) ==
    \A t \in Tensor : Kept(r, mem.ptr[t], t) => Spares(bytes, mem.ptr[t], Span(t))

SavedSpares(r, saved, ins, bytes) ==
    \A k \in DOMAIN ins : Kept(r, saved[k], ins[k]) => Spares(bytes, saved[k], Span(ins[k]))

\* So is a model input that the caller has placed in the fast arena.
PlacedSpares(mem, bytes) ==
    PlanIoInFast(plan) =>
        \A t \in Inputs : InFast(mem.ptr[t], Span(t), FirstOf("fast"), mem.used["fast"])
                              => Spares(bytes, mem.ptr[t], Span(t))

\* While a run is on, its floor is above them; between two runs, the offset that
\* the caller's next allocation starts from.
During(r, mem, bytes) ==
    BytesBelow(bytes, r.floor) /\ HoldsIn(bytes, mem) /\ KeptSpares(r, mem, bytes)

Between(mem, bytes) ==
    BytesBelow(bytes, mem.used["fast"]) /\ HoldsIn(bytes, mem) /\ PlacedSpares(mem, bytes)

HeldInv ==
    /\ Running => During(run, m, held)
    /\ InStage => SavedSpares(run, stage_run.saved, Stage.ins, held)
    /\ ~Running => Between(m, held)

LEMMA HeldImpliesKept == HeldInv => CallerBytesKept
  BY DEF HeldInv, During, Between, HoldsIn, CallerBytesKept

-----------------------------------------------------------------------------
(* Writes that miss them *)

\* n bytes at address a that a run may write: in the slow arena, or in the fast
\* one above the run's floor.
Elsewhere(r, mem, a, n) == InSlow(a, n, mem.used["slow"]) \/ InFast(a, n, r.floor, r.capacity)

LEMMA ElsewhereMisses ==
    ASSUME Loaded(plan), NEW r, RunNumbers(r), NEW mem, Arenas(mem, r.capacity),
           NEW a \in Nat, NEW n \in Nat, Elsewhere(r, mem, a, n),
           NEW x \in Nat, Bases["fast"] <= x, x < Bases["fast"] + r.floor
    PROVE  x \in DOMAIN mem.cells /\ (x < a \/ a + n <= x)
<1>1. PICK fast \in Nat, slow \in Nat, bottom \in Nat, floor \in Nat, cap \in Nat, room \in Nat, top \in Nat :
          /\ fast = Bases["fast"] /\ slow = Bases["slow"] /\ bottom = FirstOf("slow")
          /\ floor = r.floor /\ cap = r.capacity /\ room = mem.size["slow"] /\ top = mem.used["slow"]
  <2>1. /\ Bases["fast"] \in Nat /\ Bases["slow"] \in Nat /\ FirstOf("slow") \in Nat
        /\ r.floor \in Nat /\ r.capacity \in Nat /\ mem.size["slow"] \in Nat /\ mem.used["slow"] \in Nat
    BY Numbers, MemoryNumbers DEF RunNumbers, Arenas
  <2>2. QED
    BY <2>1
<1>2. floor <= cap /\ top <= room /\ (fast + cap <= slow \/ slow + room <= fast)
  BY <1>1 DEF Arenas, RunNumbers
<1>3. x \in DOMAIN mem.cells
  <2>1. DOMAIN mem.cells = (fast .. fast + cap - 1) \cup (slow .. slow + room - 1)
    BY <1>1 DEF Arenas
  <2>2. fast <= x /\ x <= fast + cap - 1
    BY <1>1, <1>2
  <2>3. QED
    BY <2>1, <2>2
<1>4. CASE InSlow(a, n, mem.used["slow"])
  <2>1. slow <= a /\ a + n <= slow + top
    BY <1>1, <1>4 DEF InSlow
  <2>2. QED
    BY <1>1, <1>2, <1>3, <2>1
<1>5. CASE InFast(a, n, r.floor, r.capacity)
  <2>1. fast + floor <= a
    BY <1>1, <1>5 DEF InFast
  <2>2. QED
    BY <1>1, <1>3, <2>1
<1>6. QED
  BY <1>4, <1>5 DEF Elsewhere

LEMMA SameBelowTop ==
    ASSUME NEW low \in Nat, NEW top \in Nat, low <= top, NEW mem, NEW other, SameBelow(top, mem, other)
    PROVE  SameBelow(low, mem, other)
<1>1. PICK fast \in Nat : fast = Bases["fast"]
  BY BasesAssumption DEF Pool
<1>2. QED
  BY <1>1 DEF SameBelow

LEMMA SameBelowOnward ==
    ASSUME NEW top, NEW mem, NEW middle, NEW other, SameBelow(top, mem, middle), SameBelow(top, middle, other)
    PROVE  SameBelow(top, mem, other)
  BY DEF SameBelow

LEMMA SameBelowCells ==
    ASSUME NEW top, NEW mem, NEW other, other.cells = mem.cells
    PROVE  SameBelow(top, mem, other)
  BY DEF SameBelow

\* What is the same below the bytes' bound keeps them.
LEMMA HoldsOn ==
    ASSUME NEW bytes, NEW top, BytesBelow(bytes, top), NEW mem, NEW other, SameBelow(top, mem, other),
           HoldsIn(bytes, mem)
    PROVE  HoldsIn(bytes, other)
  BY DEF BytesBelow, SameBelow, HoldsIn

\* The bytes of a tensor are no more than its span.
LEMMA SizeInSpan ==
    ASSUME Loaded(plan), NEW t \in Tensor
    PROVE  plan.size[t] \in Nat /\ plan.size[t] <= Span(t)
<1>1. plan.size[t] \in Nat \ {0}
  BY Numbers
<1>2. QED
  BY <1>1, AlignUpFacts DEF Span

LEMMA WriteAtBelow ==
    ASSUME Loaded(plan), NEW r, RunNumbers(r), NEW mem, Arenas(mem, r.capacity),
           NEW a \in Nat, NEW n \in Nat, Elsewhere(r, mem, a, n), NEW k \in Nat, k <= n, NEW value
    PROVE  SameBelow(r.floor, mem, WriteAt(mem, a, k, value))
<1>1. PICK cells : cells = [b \in DOMAIN mem.cells |->
                               IF a <= b /\ b < a + k THEN Cell(value, b - a) ELSE mem.cells[b]]
  OBVIOUS
<1>2. PICK other : other = WriteAt(mem, a, k, value)
  OBVIOUS
<1>3. other = [mem EXCEPT !.cells = cells]
  BY <1>1, <1>2 DEF WriteAt
<1>4. other.cells = cells
  BY <1>3 DEF Arenas, IsMemory
<1>5. ASSUME NEW x \in Nat, Bases["fast"] <= x, x < Bases["fast"] + r.floor
      PROVE  other.cells[x] = mem.cells[x]
  <2>1. x \in DOMAIN mem.cells /\ (x < a \/ a + n <= x)
    BY <1>5, ElsewhereMisses
  <2>2. ~(a <= x /\ x < a + k)
    BY <2>1
  <2>3. QED
    BY <1>1, <1>4, <2>1, <2>2
<1>6. QED
  BY <1>2, <1>5 DEF SameBelow

LEMMA CopyBelow ==
    ASSUME Loaded(plan), NEW r, RunNumbers(r), NEW mem, Arenas(mem, r.capacity),
           NEW a \in Nat, NEW n \in Nat, Elsewhere(r, mem, a, n), NEW k \in Nat, k <= n, NEW b,
           NEW other, other.cells = Copy(mem.cells, a, b, k)
    PROVE  SameBelow(r.floor, mem, other)
<1>1. ASSUME NEW x \in Nat, Bases["fast"] <= x, x < Bases["fast"] + r.floor
      PROVE  other.cells[x] = mem.cells[x]
  <2>1. x \in DOMAIN mem.cells /\ (x < a \/ a + n <= x)
    BY <1>1, ElsewhereMisses
  <2>2. ~(a <= x /\ x < a + k)
    BY <2>1
  <2>3. QED
    BY <2>1, <2>2 DEF Copy
<1>2. QED
  BY <1>1 DEF SameBelow

\* A tensor that a run may write lies there.
LEMMA TensorElsewhere ==
    ASSUME Loaded(plan), NEW r, RunNumbers(r), NEW mem, NEW lo \in Nat, NEW hi \in Nat, NEW saved,
           Heap(r, mem, lo, hi, saved), r.floor <= lo, hi <= r.capacity,
           NEW t \in Tensor, mem.ptr[t] # NULL, ~Kept(r, mem.ptr[t], t)
    PROVE  mem.ptr[t] \in Nat /\ Elsewhere(r, mem, mem.ptr[t], Span(t))
<1>1. PICK a \in Nat, n \in Nat, fast \in Nat, floor \in Nat, cap \in Nat :
          /\ a = mem.ptr[t] /\ n = Span(t) /\ fast = Bases["fast"] /\ floor = r.floor /\ cap = r.capacity
  <2>1. mem.ptr[t] \in Nat /\ Span(t) \in Nat /\ Bases["fast"] \in Nat /\ r.floor \in Nat /\ r.capacity \in Nat
    BY Numbers, MemoryNumbers DEF Heap, Arenas, RunNumbers
  <2>2. QED
    BY <2>1
<1>2. InSlow(a, n, mem.used["slow"]) \/ InFast(a, n, lo, hi)
  BY <1>1 DEF Heap, Slot
<1>3. InFast(a, n, lo, hi) => InFast(a, n, r.floor, r.capacity)
  BY <1>1 DEF InFast
<1>4. QED
  BY <1>1, <1>2, <1>3 DEF Elsewhere

LEMMA WriteBelow ==
    ASSUME Loaded(plan), NEW r, RunNumbers(r), NEW mem, Arenas(mem, r.capacity), NEW t \in Tensor,
           Elsewhere(r, mem, mem.ptr[t], Span(t)), NEW value
    PROVE  SameBelow(r.floor, mem, Write(mem, t, value))
<1>1. mem.ptr[t] \in Nat /\ Span(t) \in Nat /\ plan.size[t] \in Nat /\ plan.size[t] <= Span(t)
  BY Numbers, MemoryNumbers, SizeInSpan DEF Arenas
<1>2. QED
  BY <1>1, WriteAtBelow DEF Write

LEMMA CopyTensorBelow ==
    ASSUME Loaded(plan), NEW r, RunNumbers(r), NEW mem, Arenas(mem, r.capacity), NEW t \in Tensor,
           Elsewhere(r, mem, mem.ptr[t], Span(t)), NEW u
    PROVE  SameBelow(r.floor, mem, CopyTensor(mem, t, u))
<1>1. mem.ptr[t] \in Nat /\ Span(t) \in Nat /\ plan.size[t] \in Nat /\ plan.size[t] <= Span(t)
  BY Numbers, MemoryNumbers, SizeInSpan DEF Arenas
<1>2. PICK other : other = CopyTensor(mem, t, u)
  OBVIOUS
<1>3. other.cells = Copy(mem.cells, mem.ptr[t], mem.ptr[u], plan.size[t])
  BY <1>2 DEF CopyTensor, Arenas, IsMemory
<1>4. SameBelow(r.floor, mem, other)
  BY <1>1, <1>3, CopyBelow
<1>5. QED
  BY <1>2, <1>4

LEMMA WriteAllBelow ==
    ASSUME Loaded(plan), NEW r, RunNumbers(r), NEW mem, Arenas(mem, r.capacity), NEW value,
           \A t \in DOMAIN value : t \in Tensor /\ Elsewhere(r, mem, mem.ptr[t], Span(t))
    PROVE  SameBelow(r.floor, mem, WriteAll(mem, value))
<1> DEFINE Holders(a) == {t \in DOMAIN value : mem.ptr[t] <= a /\ a < mem.ptr[t] + plan.size[t]}
<1>1. PICK cells : cells = [a \in DOMAIN mem.cells |->
            IF Holders(a) = {} THEN mem.cells[a]
            ELSE LET t == CHOOSE t \in Holders(a) : TRUE IN Cell(value[t], a - mem.ptr[t])]
  OBVIOUS
<1>2. PICK other : other = WriteAll(mem, value)
  OBVIOUS
<1>3. other = [mem EXCEPT !.cells = cells]
  BY <1>1, <1>2, Zenon DEF WriteAll
<1>4. other.cells = cells
  BY <1>3 DEF Arenas, IsMemory
<1>5. ASSUME NEW x \in Nat, Bases["fast"] <= x, x < Bases["fast"] + r.floor
      PROVE  x \in DOMAIN mem.cells /\ Holders(x) = {}
  <2>1. FirstOf("fast") \in Nat /\ r.floor \in Nat /\ r.capacity \in Nat /\ Bases["fast"] \in Nat
        /\ r.floor <= r.capacity
    BY Numbers DEF RunNumbers
  <2>2. x \in DOMAIN mem.cells
    <3>1. Elsewhere(r, mem, Bases["fast"] + r.floor, 0)
      BY <2>1 DEF Elsewhere, InFast
    <3>2. Bases["fast"] + r.floor \in Nat /\ 0 \in Nat
      BY <2>1
    <3>3. QED
      BY <1>5, <3>1, <3>2, ElsewhereMisses
  <2>3. ASSUME NEW t \in DOMAIN value PROVE ~(mem.ptr[t] <= x /\ x < mem.ptr[t] + plan.size[t])
    <3>1. t \in Tensor /\ Elsewhere(r, mem, mem.ptr[t], Span(t))
      OBVIOUS
    <3>2. mem.ptr[t] \in Nat /\ Span(t) \in Nat /\ plan.size[t] \in Nat /\ plan.size[t] <= Span(t)
      BY <3>1, Numbers, MemoryNumbers, SizeInSpan DEF Arenas
    <3>3. x < mem.ptr[t] \/ mem.ptr[t] + Span(t) <= x
      BY <1>5, <3>1, <3>2, ElsewhereMisses
    <3>4. QED
      BY <3>2, <3>3
  <2>4. QED
    BY <2>2, <2>3
<1>6. ASSUME NEW x \in Nat, Bases["fast"] <= x, x < Bases["fast"] + r.floor
      PROVE  other.cells[x] = mem.cells[x]
  <2>1. x \in DOMAIN mem.cells /\ Holders(x) = {}
    BY <1>5, <1>6
  <2> HIDE DEF Holders
  <2>2. QED
    BY <1>1, <1>4, <2>1
<1>7. QED
  BY <1>2, <1>6 DEF SameBelow

\* A transfer copies into the block it has allocated.
LEMMA TransferBelow ==
    ASSUME Loaded(plan), NEW r, RunNumbers(r), NEW mem, IsMemory(mem), NEW pool \in Pool, NEW t \in Tensor,
           Arenas(AllocIn(mem, pool, t), r.capacity),
           Elsewhere(r, AllocIn(mem, pool, t), AllocIn(mem, pool, t).ptr[t], Span(t))
    PROVE  SameBelow(r.floor, mem, Transfer(mem, Bases, pool, t, plan.size[t]))
<1>1. PICK moved : moved = AllocIn(mem, pool, t)
  OBVIOUS
<1>2. Allocated(mem, pool, t, moved)
  BY <1>1, AllocFields
<1>3. PICK other : other = Transfer(mem, Bases, pool, t, plan.size[t])
  OBVIOUS
<1>4. other = [moved EXCEPT !.cells = Copy(mem.cells, moved.ptr[t], mem.ptr[t], plan.size[t])]
  BY <1>1, <1>3 DEF Transfer, AllocIn
<1>5. other.cells = Copy(moved.cells, moved.ptr[t], mem.ptr[t], plan.size[t])
  BY <1>2, <1>4 DEF Allocated, IsMemory
<1>6. moved.ptr[t] \in Nat /\ Span(t) \in Nat /\ plan.size[t] \in Nat /\ plan.size[t] <= Span(t)
  BY <1>2, Numbers, MemoryNumbers, SizeInSpan DEF Allocated
<1>7. SameBelow(r.floor, moved, other)
  BY <1>1, <1>5, <1>6, CopyBelow
<1>8. SameBelow(r.floor, mem, other)
  BY <1>2, <1>7 DEF Allocated, SameBelow
<1>9. QED
  BY <1>3, <1>8

-----------------------------------------------------------------------------
(* Steps of a run *)

LEMMA SparesStays ==
    ASSUME plan' = plan, NEW r, NEW mem, NEW saved, NEW ins, NEW bytes
    PROVE  /\ During(r, mem, bytes)' <=> During(r, mem, bytes)
           /\ Between(mem, bytes)' <=> Between(mem, bytes)
           /\ SavedSpares(r, saved, ins, bytes)' <=> SavedSpares(r, saved, ins, bytes)
<1>1. KeptSpares(r, mem, bytes)' <=> KeptSpares(r, mem, bytes)
  BY SpanStays, KeptStays DEF KeptSpares
<1>2. PlacedSpares(mem, bytes)' <=> PlacedSpares(mem, bytes)
  BY SpanStays DEF PlacedSpares
<1>3. SavedSpares(r, saved, ins, bytes)' <=> SavedSpares(r, saved, ins, bytes)
  BY SpanStays, KeptStays DEF SavedSpares
<1>4. QED
  BY <1>1, <1>2, <1>3 DEF During, Between

\* A step that the run goes on from.
LEMMA HeldRuns ==
    ASSUME HeldInv, Running, Running', UNCHANGED <<plan, run, held>>,
           SameBelow(run.floor, m, m'), KeptSpares(run, m', held),
           InStage' => s' = s /\ SavedSpares(run, stage_run'.saved, Stage.ins, held)
    PROVE  HeldInv'
<1>1. PICK r, mem, other, bytes, saved, ins :
          /\ r = run /\ mem = m /\ other = m' /\ bytes = held /\ saved = stage_run'.saved /\ ins = Stage.ins
  OBVIOUS
<1>2. During(r, mem, bytes)
  BY <1>1 DEF HeldInv
<1>3. HoldsIn(bytes, other)
  BY <1>1, <1>2, HoldsOn DEF During
<1>4. During(r, other, bytes) /\ (InStage' => SavedSpares(r, saved, ins, bytes))
  BY <1>1, <1>2, <1>3 DEF During
<1>5. During(r, other, bytes)' /\ (InStage' => SavedSpares(r, saved, ins, bytes)')
  BY <1>4, SparesStays
<1>6. InStage' => Stage' = Stage
  BY DEF Stage
<1>7. QED
  BY <1>1, <1>5, <1>6 DEF HeldInv

\* A tensor in the caller's part of the fast arena is one that a run leaves there.
LEMMA BelowIsKept ==
    ASSUME Loaded(plan), NEW r, RunNumbers(r), NEW mem, NEW lo \in Nat, NEW hi \in Nat, NEW saved,
           Heap(r, mem, lo, hi, saved), r.floor <= lo,
           NEW t \in Tensor, InFast(mem.ptr[t], Span(t), FirstOf("fast"), r.floor)
    PROVE  Kept(r, mem.ptr[t], t)
<1>1. Arenas(mem, r.capacity) /\ mem.ptr[t] \in Nat /\ Slot(r, mem, lo, hi, t)
  BY MemoryNumbers DEF Heap, Arenas
<1>2. ~Away(mem, lo, hi, mem.ptr[t], Span(t))
  BY <1>1, AwayIsAbove
<1>3. QED
  BY <1>1, <1>2 DEF Slot, Away

\* A step that returns to the caller.
LEMMA HeldReturns ==
    ASSUME Loaded(plan), RunInv, HeldInv, Running, NEW code, NEW mem, Return(code, mem),
           NEW lo \in Nat, NEW hi \in Nat, NEW saved, Heap(run, mem, lo, hi, saved), run.floor <= lo,
           SameBelow(run.floor, m, mem), KeptSpares(run, mem, held)
    PROVE  HeldInv'
<1>1. PICK r, old, other, bytes, keep :
          r = run /\ old = m /\ other = m' /\ bytes = held /\ keep = Owed(code = "OK")
  OBVIOUS
<1>2. /\ RunNumbers(r) /\ plan' = plan /\ pc' = "returned" /\ held' = bytes
      /\ other = Restored(mem, code = "OK")
  BY <1>1 DEF RunInv, Return, caller
<1>3. Restores(r, mem, keep, other)
  BY <1>1, <1>2, RestoredFields DEF Heap, Arenas
<1>4. During(r, old, bytes)
  BY <1>1 DEF HeldInv
<1>5. HoldsIn(bytes, other)
  <2>1. HoldsIn(bytes, mem)
    BY <1>1, <1>4, HoldsOn DEF During
  <2>2. QED
    BY <1>3, <2>1 DEF Restores, HoldsIn
<1>6. PlacedSpares(other, bytes)
  <2>1. SUFFICES ASSUME PlanIoInFast(plan), NEW t \in Inputs,
                        InFast(other.ptr[t], Span(t), FirstOf("fast"), other.used["fast"])
                 PROVE  Spares(bytes, other.ptr[t], Span(t))
    BY DEF PlacedSpares
  <2>2. t \in Tensor /\ InFast(other.ptr[t], Span(t), FirstOf("fast"), r.floor)
    BY <1>3, <2>1, InputNumbers DEF Restores
  <2>3. ~InFast(NULL, Span(t), FirstOf("fast"), r.floor)
    <3>1. Bases["fast"] \in Nat \ {0} /\ FirstOf("fast") \in Nat
      BY Numbers
    <3>2. QED
      BY <3>1 DEF InFast, NULL
  <2>4. other.ptr[t] = mem.ptr[t]
    BY <1>3, <2>2, <2>3 DEF Restores
  <2>5. Kept(r, mem.ptr[t], t)
    BY <1>1, <1>2, <2>2, <2>4, BelowIsKept
  <2>6. QED
    BY <1>1, <2>2, <2>4, <2>5 DEF KeptSpares
<1>7. BytesBelow(bytes, other.used["fast"])
  BY <1>3, <1>4 DEF During, Restores
<1>8. Between(other, bytes)'
  BY <1>2, <1>5, <1>6, <1>7, SparesStays DEF Between
<1>9. ~Running' /\ ~InStage'
  BY <1>2 DEF Running, InStage
<1>10. QED
  BY <1>1, <1>2, <1>8, <1>9 DEF HeldInv

\* A run that fails with its memory as it is.
LEMMA HeldFails ==
    ASSUME Loaded(plan), RunInv, HeldInv, Running, NEW code, Fail(code, m)
    PROVE  HeldInv'
<1>1. PICK lo, hi, saved : /\ lo \in Nat /\ hi \in Nat /\ Heap(run, m, lo, hi, saved)
                           /\ run.floor <= lo /\ hi <= run.capacity
  BY RunningHeap
<1>2. SameBelow(run.floor, m, m) /\ KeptSpares(run, m, held) /\ Return(code, m)
  BY SameBelowCells DEF HeldInv, During, Fail
<1>3. QED
  BY <1>1, <1>2, HeldReturns

\* Steps outside the stages that leave the memory alone.
LEMMA HeldControlStep ==
    ASSUME ControlInv, RunInv, HeldInv,
           \/ StagesBegin \/ EnterIf \/ EnterWhile \/ LoopBegin \/ GraphBegin
           \/ GraphEnd \/ StagesEnd \/ StateStore
    PROVE  HeldInv'
<1>1. Running /\ Loaded(plan)
  BY DEF StagesBegin, EnterIf, EnterWhile, LoopBegin, GraphBegin, GraphEnd, StagesEnd, StateStore,
         Running, ControlInv, Counters
<1>2. CASE pc' = "returned"
  <2>1. \E code : Fail(code, m)
    BY <1>2 DEF StagesBegin, EnterIf, EnterWhile, LoopBegin, GraphBegin, GraphEnd, StagesEnd,
                StateStore, Goto
  <2>2. QED
    BY <1>1, <2>1, HeldFails
<1>3. CASE pc' # "returned"
  <2>1. UNCHANGED <<plan, run, held, m>> /\ pc' \in {"stage", "loop_init", "copy_in", "copy_out", "store"}
    BY <1>3 DEF StagesBegin, EnterIf, EnterWhile, LoopBegin, GraphBegin, GraphEnd, StagesEnd,
                StateStore, Goto, Fail, Return, caller
  <2>2. Running' /\ ~InStage'
    BY <2>1 DEF Running, InStage
  <2>3. SameBelow(run.floor, m, m') /\ KeptSpares(run, m', held)
    BY <1>1, <2>1, SameBelowCells DEF HeldInv, During
  <2>4. QED
    BY <1>1, <2>1, <2>2, <2>3, HeldRuns
<1>4. QED
  BY <1>2, <1>3

\* Where a plan has state variables or control flow, no run is in place.
LEMMA NothingInPlace ==
    ASSUME ControlInv, RunInv,
           \/ pc = "state_in" /\ i <= Len(plan.state)
           \/ pc \in {"loop_init", "copy_in", "unwind", "copy_out"}
    PROVE  ~PlanIoInFast(plan) /\ ~run.in_fast /\ Copying(run, m) /\ RunNumbers(run) /\ Running /\ ~InStage
<1>1. Loaded(plan) /\ i \in Nat /\ i >= 1 /\ s \in Nat /\ Running /\ ~InStage
  BY DEF ControlInv, Counters, Running, InStage
<1>2. ~PlanIoInFast(plan)
  <2>1. CASE pc = "state_in" /\ i <= Len(plan.state)
    BY <1>1, <2>1 DEF PlanIoInFast
  <2>2. CASE pc = "loop_init"
    <3>1. IsControl(s)
      BY <2>2 DEF ControlInv, InGraph, Running, Position
    <3>2. QED
      BY <3>1 DEF IsControl, PlanIoInFast
  <2>3. CASE pc = "copy_in"
    <3>1. copy.graph \in DOMAIN plan.graphs
      BY <2>3, GraphCopied
    <3>2. QED
      BY <3>1 DEF PlanIoInFast
  <2>4. CASE pc \in {"unwind", "copy_out"}
    <3>1. IsControl(Frame.stage)
      BY <2>4, FrameOperator
    <3>2. QED
      BY <3>1 DEF IsControl, PlanIoInFast
  <2>5. QED
    BY <2>1, <2>2, <2>3, <2>4
<1>3. QED
  BY <1>1, <1>2 DEF RunInv

\* A step outside the stages of a run that copies its inputs.
LEMMA HeldOutside ==
    ASSUME HeldInv, Running, ~PlanIoInFast(plan), UNCHANGED <<plan, run, held>>, Running', ~InStage',
           SameBelow(run.floor, m, m')
    PROVE  HeldInv'
<1>1. KeptSpares(run, m', held)
  BY DEF KeptSpares, Kept
<1>2. QED
  BY <1>1, HeldRuns

\* A tensor enters slow memory and is written, or copied to.
LEMMA PlacedBelow ==
    ASSUME Loaded(plan), NEW r, RunNumbers(r), NEW mem, Copying(r, mem), NEW t \in Tensor,
           CanAlloc(mem, "slow", plan.size[t])
    PROVE  LET placed == AllocIn(mem, "slow", t)
           IN  /\ \A value : SameBelow(r.floor, mem, Write(placed, t, value))
               /\ \A u : SameBelow(r.floor, mem, CopyTensor(placed, t, u))
<1>1. PICK placed : placed = AllocIn(mem, "slow", t)
  OBVIOUS
<1>2. r.floor \in Nat /\ r.floor <= r.capacity /\ Heap(r, mem, r.floor, r.floor, {}) /\ IsMemory(mem)
  BY DEF RunNumbers, Copying, Heap, Arenas
<1>3. Heap(r, placed, r.floor, r.floor, {}) /\ InSlow(placed.ptr[t], Span(t), placed.used["slow"])
  BY <1>1, <1>2, AllocSlowKeeps
<1>4. Arenas(placed, r.capacity) /\ Elsewhere(r, placed, placed.ptr[t], Span(t))
  BY <1>3 DEF Heap, Elsewhere
<1>5. SameBelow(r.floor, mem, placed)
  BY <1>1, <1>2, AllocSlow, SameBelowCells DEF Allocated
<1>6. ASSUME NEW value PROVE SameBelow(r.floor, mem, Write(placed, t, value))
  BY <1>4, <1>5, WriteBelow, SameBelowOnward
<1>7. ASSUME NEW u PROVE SameBelow(r.floor, mem, CopyTensor(placed, t, u))
  BY <1>4, <1>5, CopyTensorBelow, SameBelowOnward
<1>8. QED
  BY <1>1, <1>6, <1>7

LEMMA HeldCopyStep ==
    ASSUME ControlInv, RunInv, HeldInv, StateIn \/ LoopInit \/ CopyIn \/ CopyOut
    PROVE  HeldInv'
<1>1. pc \in {"state_in", "loop_init", "copy_in", "copy_out"} /\ Running /\ Loaded(plan)
  BY DEF StateIn, LoopInit, CopyIn, CopyOut, Running, ControlInv, Counters
<1>2. CASE pc' = "returned"
  <2>1. Fail("ERR_MEM", m)
    BY <1>1, <1>2 DEF StateIn, LoopInit, CopyIn, CopyOut
  <2>2. QED
    BY <1>1, <2>1, HeldFails
<1>3. CASE pc' # "returned"
  <2>1. pc' = pc /\ UNCHANGED <<plan, run, held>>
    BY <1>1, <1>3 DEF StateIn, LoopInit, CopyIn, CopyOut, Fail, Return, caller
  <2>2. pc = "state_in" => i <= Len(plan.state)
    BY DEF StateIn, LoopInit, CopyIn, CopyOut
  <2>3. PICK r, mem, other : r = run /\ mem = m /\ other = m'
    OBVIOUS
  <2>4. ~PlanIoInFast(plan) /\ RunNumbers(r) /\ Copying(r, mem)
    BY <1>1, <2>2, <2>3, NothingInPlace
  <2>5. ASSUME NEW t \in Tensor, CanAlloc(mem, "slow", plan.size[t]), NEW value,
               other = Write(AllocIn(mem, "slow", t), t, value)
        PROVE  SameBelow(r.floor, mem, other)
    BY <1>1, <2>4, <2>5, PlacedBelow
  <2>6. ASSUME NEW t \in Tensor, NEW u,
               \/ CanAlloc(mem, "slow", plan.size[t]) /\ other = CopyTensor(AllocIn(mem, "slow", t), t, u)
               \/ mem.ptr[t] # NULL /\ other = CopyTensor(mem, t, u)
        PROVE  SameBelow(r.floor, mem, other)
    <3>1. CASE mem.ptr[t] # NULL /\ other = CopyTensor(mem, t, u)
      <4>1. /\ Heap(r, mem, r.floor, r.floor, {}) /\ Arenas(mem, r.capacity) /\ r.floor \in Nat
            /\ r.floor <= r.floor /\ r.floor <= r.capacity /\ ~Kept(r, mem.ptr[t], t)
        BY <2>4 DEF Copying, Heap, RunNumbers, Kept
      <4>2. Elsewhere(r, mem, mem.ptr[t], Span(t))
        BY <1>1, <2>4, <3>1, <4>1, TensorElsewhere
      <4>3. QED
        BY <1>1, <2>4, <3>1, <4>1, <4>2, CopyTensorBelow
    <3>2. CASE CanAlloc(mem, "slow", plan.size[t]) /\ other = CopyTensor(AllocIn(mem, "slow", t), t, u)
      BY <1>1, <2>4, <3>2, PlacedBelow
    <3>3. QED
      BY <2>6, <3>1, <3>2
  <2>7. ASSUME StateIn PROVE SameBelow(r.floor, mem, other)
    <3>1. PICK t : t = plan.state[i].input
      OBVIOUS
    <3>2. i <= Len(plan.state) /\ pc = "state_in" /\ CanAlloc(mem, "slow", plan.size[t])
          /\ other = Write(AllocIn(mem, "slow", t), t, state[i])
      BY <1>3, <2>3, <2>7, <3>1 DEF StateIn, Fail, Return
    <3>3. QED
      BY <2>5, <3>1, <3>2, CopyTargets
  <2>8. ASSUME LoopInit PROVE SameBelow(r.floor, mem, other)
    <3>1. PICK t : t = Control(s).outs[i]
      OBVIOUS
    <3>2. /\ i <= Len(Control(s).outs) /\ pc = "loop_init" /\ CanAlloc(mem, "slow", plan.size[t])
          /\ \E value : other = Write(AllocIn(mem, "slow", t), t, value)
      BY <1>3, <2>3, <2>8, <3>1 DEF LoopInit, Fail, Return
    <3>3. QED
      BY <2>5, <3>1, <3>2, CopyTargets
  <2>9. ASSUME CopyIn PROVE SameBelow(r.floor, mem, other)
    <3>1. PICK t : t = plan.graphs[copy.graph].ins[i]
      OBVIOUS
    <3>2. /\ i <= Len(plan.graphs[copy.graph].ins) /\ pc = "copy_in" /\ CanAlloc(mem, "slow", plan.size[t])
          /\ other = CopyTensor(AllocIn(mem, "slow", t), t, copy.tensors[i])
      BY <1>3, <2>3, <2>9, <3>1 DEF CopyIn, Fail, Return
    <3>3. QED
      BY <2>6, <3>1, <3>2, CopyTargets
  <2>10. ASSUME CopyOut PROVE SameBelow(r.floor, mem, other)
    <3>1. PICK t, u : t = Control(Frame.stage).outs[i] /\ u = plan.graphs[Frame.graph].outs[i]
      OBVIOUS
    <3>2. /\ i <= Len(plan.graphs[Frame.graph].outs) /\ pc = "copy_out"
          /\ \/ CanAlloc(mem, "slow", plan.size[t]) /\ other = CopyTensor(AllocIn(mem, "slow", t), t, u)
             \/ mem.ptr[t] # NULL /\ other = CopyTensor(mem, t, u)
      BY <1>3, <2>3, <2>10, <3>1 DEF CopyOut, Fail, Return
    <3>3. QED
      BY <2>6, <3>1, <3>2, CopyTargets
  <2>11. SameBelow(run.floor, m, m')
    BY <2>3, <2>7, <2>8, <2>9, <2>10
  <2>12. Running' /\ ~InStage'
    BY <1>1, <2>1 DEF Running, InStage
  <2>13. QED
    BY <1>1, <2>1, <2>4, <2>11, <2>12, HeldOutside
<1>4. QED
  BY <1>2, <1>3

\* Packing the slow arena leaves the whole fast arena as it is.
LEMMA PackedBelow ==
    ASSUME Loaded(plan), NEW r, RunNumbers(r), NEW mem, NEW lo, NEW hi, NEW other,
           SlowPacked(r, mem, lo, hi, other)
    PROVE  SameBelow(r.floor, mem, other)
<1>1. r.floor \in Nat /\ r.capacity \in Nat /\ r.floor <= r.capacity
  BY DEF RunNumbers
<1>2. QED
  BY <1>1, SameBelowTop DEF SlowPacked

LEMMA HeldUnwindStep ==
    ASSUME ControlInv, RunInv, HeldInv, LoopDecide \/ BranchDone \/ BodyDone
    PROVE  HeldInv'
<1>1. pc \in {"unwind", "copy_out"} /\ Running /\ Loaded(plan)
  BY DEF LoopDecide, BranchDone, BodyDone, Running, ControlInv, Counters
<1>2. CASE pc' = "returned"
  <2>1. Fail("ERR_MEM", m)
    BY <1>2 DEF LoopDecide, BranchDone, BodyDone, Goto, OperatorDone, After
  <2>2. QED
    BY <1>1, <2>1, HeldFails
<1>3. CASE pc' # "returned"
  <2>1. /\ pc' \in {"unwind", "stage", "copy_in"} /\ UNCHANGED <<plan, run, held>>
        /\ \/ m' = GraphReleased
           \/ m' = FreeDead(GraphReleased, Frame.first, Frame.stage)
    BY <1>3 DEF LoopDecide, BranchDone, BodyDone, Goto, OperatorDone, After, Fail, Return, caller
  <2>2. PICK r, mem, other, left : r = run /\ mem = m /\ other = m' /\ left = GraphReleased
    OBVIOUS
  <2>3. ~PlanIoInFast(plan) /\ RunNumbers(r) /\ Copying(r, mem)
    BY <1>1, <2>2, NothingInPlace
  <2>4. r.floor \in Nat /\ r.floor <= r.capacity /\ Heap(r, mem, r.floor, r.floor, {})
    BY <2>3 DEF RunNumbers, Copying
  <2>5. SlowPacked(r, mem, r.floor, r.floor, left)
    <3>1. \E dead : left = CompactSlow(Nulled(mem, dead), Bases, plan.size)
      BY <2>2 DEF GraphReleased, Nulled
    <3>2. QED
      BY <1>1, <2>3, <2>4, <3>1, NulledAndPacked
  <2>6. SameBelow(r.floor, mem, left)
    BY <1>1, <2>3, <2>5, PackedBelow
  <2>7. SameBelow(r.floor, left, FreeDead(left, Frame.first, Frame.stage))
    <3>1. Heap(r, left, r.floor, r.floor, {})
      BY <2>5 DEF SlowPacked
    <3>2. SlowPacked(r, left, r.floor, r.floor, FreeDead(left, Frame.first, Frame.stage))
      BY <1>1, <2>3, <2>4, <3>1, FreeDeadKeeps
    <3>3. QED
      BY <1>1, <2>3, <3>2, PackedBelow
  <2>8. SameBelow(r.floor, mem, other)
    BY <2>1, <2>2, <2>6, <2>7, SameBelowOnward
  <2>9. Running' /\ ~InStage'
    BY <2>1 DEF Running, InStage
  <2>10. QED
    BY <1>1, <2>1, <2>2, <2>3, <2>8, <2>9, HeldOutside
<1>4. QED
  BY <1>2, <1>3

-----------------------------------------------------------------------------
(* Steps of a stage *)

\* The weights of a stage are decompressed above the floor.
LEMMA WeightsElsewhere ==
    ASSUME ControlInv, RunInv, pc = "stage", s < flow.end, WeightsFit, Stage.block # 0, NEW value
    PROVE  SameBelow(run.floor, m, WriteAt(m, Scratch, Stage.block, value))
<1>1. Loaded(plan) /\ Running /\ Stage.block \in Nat /\ RunNumbers(run)
  BY StageTypes DEF RunInv
<1>2. PICK r, mem, block, at, after :
          r = run /\ mem = m /\ block = Stage.block /\ at = Scratch /\ after = WeightsPrepared
  OBVIOUS
<1>3. Prepares(r, block, at, after) /\ RunNumbers(r) /\ block \in Nat /\ block # 0
  BY <1>1, <1>2, WeightsPrepare
<1>4. PICK n \in Nat : n = AlignUp(block) /\ block <= n
  BY <1>3, AlignUpFacts
<1>5. PICK low \in Nat, used \in Nat, cap \in Nat, fast \in Nat :
          low = after.reserved /\ used = after.used["fast"] /\ cap = r.capacity /\ fast = Bases["fast"]
  <2>1. after.reserved \in Nat /\ after.used["fast"] \in Nat /\ r.capacity \in Nat /\ Bases["fast"] \in Nat
    BY <1>1, <1>3, MemoryNumbers, Numbers DEF Prepares, RunNumbers
  <2>2. QED
    BY <2>1
<1>6. at \in Nat /\ InFast(at, n, r.floor, low) /\ low <= used /\ used <= cap
  BY <1>3, <1>4, <1>5 DEF Prepares
<1>7. InFast(at, n, r.floor, r.capacity)
  BY <1>5, <1>6 DEF InFast
<1>8. Arenas(mem, r.capacity)
  BY <1>1, <1>2, RunningHeap DEF Heap
<1>9. Elsewhere(r, mem, at, n)
  BY <1>7 DEF Elsewhere
<1>10. SameBelow(r.floor, mem, WriteAt(mem, at, block, value))
  BY <1>1, <1>3, <1>4, <1>6, <1>8, <1>9, WriteAtBelow
<1>11. QED
  BY <1>2, <1>10

LEMMA WeightsSpare ==
    ASSUME ControlInv, RunInv, pc = "stage", s < flow.end, WeightsFit
    PROVE  SameBelow(run.floor, m, WeightsPrepared) /\ WeightsPrepared.ptr = m.ptr
<1>1. PICK value : value = Weights(s)
  OBVIOUS
<1>2. Running /\ Loaded(plan)
  BY StageTypes
<1>3. IsMemory(m)
  BY <1>2, RunningHeap DEF Heap, Arenas
<1>4. CASE Stage.block = 0
  BY <1>4, SameBelowCells DEF WeightsPrepared
<1>5. CASE Stage.block # 0
  <2>1. PICK written : written = WriteAt(m, Scratch, Stage.block, value)
    OBVIOUS
  <2>2. SameBelow(run.floor, m, written)
    BY <1>5, <2>1, WeightsElsewhere
  <2>3. SameShape(m, written)
    BY <1>3, <2>1, WriteAtShape
  <2>4. WeightsPrepared.cells = written.cells /\ WeightsPrepared.ptr = written.ptr
    <3>1. CASE run.gap = 0
      <4>1. PICK top : top = m.used["fast"] + AlignUp(Stage.block)
        OBVIOUS
      <4>2. WeightsPrepared = [written EXCEPT !.used["fast"] = top, !.reserved = top]
        BY <1>1, <1>5, <2>1, <3>1, <4>1 DEF WeightsPrepared
      <4>3. QED
        BY <2>3, <4>2 DEF SameShape, IsMemory
    <3>2. CASE run.gap # 0
      <4>1. WeightsPrepared = [written EXCEPT !.reserved = @ + run.gap]
        BY <1>1, <1>5, <2>1, <3>2 DEF WeightsPrepared
      <4>2. QED
        BY <2>3, <4>1 DEF SameShape, IsMemory
    <3>3. QED
      BY <3>1, <3>2
  <2>5. QED
    BY <2>2, <2>3, <2>4 DEF SameBelow, SameShape
<1>6. QED
  BY <1>4, <1>5

LEMMA HeldStageBegin ==
    ASSUME ControlInv, RunInv, HeldInv, StageBegin
    PROVE  HeldInv'
<1>1. /\ Loaded(plan) /\ Running /\ pc = "stage" /\ s < flow.end
      /\ \A k \in DOMAIN Stage.ins : Stage.ins[k] \in Tensor
  BY StageTypes DEF StageBegin
<1>2. CASE pc' = "returned"
  <2>1. Fail("ERR_MEM", m)
    BY <1>2 DEF StageBegin, Goto
  <2>2. QED
    BY <1>1, <2>1, HeldFails
<1>3. CASE pc' # "returned"
  <2>1. PICK r, w, other, ins, saved, bytes, limit :
            /\ r = run /\ w = WeightsPrepared /\ other = m' /\ ins = Stage.ins /\ bytes = held
            /\ saved = [k \in DOMAIN Stage.ins |-> NULL]
            /\ limit = w.reserved + StageFastLimit(Stage, w.size["fast"] - w.reserved)
    OBVIOUS
  <2>2. /\ WeightsFit /\ pc' = "load" /\ UNCHANGED <<plan, run, held, s>>
        /\ other = [w EXCEPT !.size["fast"] = limit]
        /\ stage_run'.saved = saved
    BY <1>3, <2>1 DEF StageBegin, Fail, Return, Goto, caller
  <2>3. Prepares(r, Stage.block, Scratch, w) /\ SameBelow(r.floor, m, w) /\ w.ptr = m.ptr
    BY <1>1, <2>1, <2>2, WeightsPrepare, WeightsSpare
  <2>4. other.cells = w.cells /\ other.ptr = w.ptr
    BY <2>2, <2>3 DEF Prepares, IsMemory
  <2>5. SameBelow(r.floor, m, other) /\ other.ptr = m.ptr
    BY <2>3, <2>4 DEF SameBelow
  <2>6. KeptSpares(r, other, bytes)
    BY <1>1, <2>1, <2>5 DEF HeldInv, During, KeptSpares
  <2>7. SavedSpares(r, saved, ins, bytes)
    BY <1>1, <2>1, NullIsNotKept DEF SavedSpares
  <2>8. Running'
    BY <2>2 DEF Running
  <2>9. QED
    BY <1>1, <2>1, <2>2, <2>5, <2>6, <2>7, <2>8, HeldRuns
<1>4. QED
  BY <1>2, <1>3

\* The tensors an op writes.
LEMMA OutputElsewhere ==
    ASSUME ControlInv, RunInv, pc = "op", NEW t \in Tensor, m.ptr[t] # NULL
    PROVE  Elsewhere(run, m, m.ptr[t], Span(t))
<1>1. PICK r, mem, saved, ins, block, scratch :
          /\ r = run /\ mem = m /\ saved = stage_run.saved /\ ins = Stage.ins /\ block = Stage.block
          /\ scratch = stage_run.scratch
  OBVIOUS
<1>2. RunNumbers(r) /\ Working(r, mem, saved, ins, block, scratch) /\ Loaded(plan)
  BY <1>1, StageWorks DEF ControlInv, Counters
<1>3. /\ Heap(r, mem, mem.reserved, mem.used["fast"], SavedBlocks(saved, ins))
      /\ mem.reserved \in Nat /\ mem.used["fast"] \in Nat /\ r.floor <= mem.reserved
      /\ mem.used["fast"] <= r.capacity /\ ~Kept(r, mem.ptr[t], t)
  BY <1>2, StagedNumbers DEF Working, NoneKept
<1>4. QED
  BY <1>1, <1>2, <1>3, TensorElsewhere

LEMMA OutputsBelow ==
    ASSUME ControlInv, RunInv, pc = "op", j <= Len(Stage.ops), NEW value,
           \A t \in DOMAIN value : t \in Range(Op.outs) /\ m.ptr[t] # NULL
    PROVE  SameBelow(run.floor, m, WriteAll(m, value))
<1>1. Op.outs \in Seq(Tensor) /\ RunNumbers(run) /\ Running /\ Loaded(plan)
  BY OpTypes, StageWorks DEF ControlInv, Counters
<1>2. \A t \in DOMAIN value : t \in Tensor
  BY <1>1 DEF Range
<1>3. \A t \in DOMAIN value : t \in Tensor /\ Elsewhere(run, m, m.ptr[t], Span(t))
  BY <1>2, OutputElsewhere
<1>4. Arenas(m, run.capacity)
  BY <1>1, RunningHeap DEF Heap
<1>5. QED
  BY <1>1, <1>3, <1>4, WriteAllBelow

\* A kernel or a decoder that breaks down.
LEMMA HeldBreakDown ==
    ASSUME ControlInv, RunInv, HeldInv, DecodeFails \/ KernelFails
    PROVE  HeldInv'
<1>1. Running /\ Loaded(plan)
  BY DEF DecodeFails, KernelFails, Running, ControlInv, Counters
<1>2. PICK lo, hi, saved : /\ lo \in Nat /\ hi \in Nat /\ Heap(run, m, lo, hi, saved)
                           /\ run.floor <= lo /\ hi <= run.capacity
  BY <1>1, RunningHeap
<1>3. IsMemory(m)
  BY <1>2 DEF Heap, Arenas
<1>4. PICK mem : /\ Return("ERR_KERNEL", mem) /\ SameShape(m, mem) /\ SameBelow(run.floor, m, mem)
  <2>1. CASE DecodeFails
    <3>1. PICK mem : mem = WriteAt(m, Scratch, Stage.block, Junk)
      OBVIOUS
    <3>2. SameShape(m, mem) /\ Return("ERR_KERNEL", mem)
      BY <1>3, <2>1, <3>1, WriteAtShape DEF DecodeFails, Fail
    <3>3. SameBelow(run.floor, m, mem)
      BY <2>1, <3>1, WeightsElsewhere DEF DecodeFails
    <3>4. QED
      BY <3>2, <3>3
  <2>2. CASE KernelFails
    <3>1. PICK value : value = [t \in {u \in Range(Op.outs) : m.ptr[u] # NULL} |-> Junk]
      OBVIOUS
    <3>2. PICK mem : mem = WriteAll(m, value)
      OBVIOUS
    <3>3. SameShape(m, mem) /\ Return("ERR_KERNEL", mem)
      BY <1>3, <2>2, <3>1, <3>2, WriteAllShape DEF KernelFails, Fail
    <3>4. \A t \in DOMAIN value : t \in Range(Op.outs) /\ m.ptr[t] # NULL
      BY <3>1
    <3>5. pc = "op" /\ j <= Len(Stage.ops)
      BY <2>2 DEF KernelFails
    <3>6. SameBelow(run.floor, m, mem)
      BY <3>2, <3>4, <3>5, OutputsBelow
    <3>7. QED
      BY <3>3, <3>6
  <2>3. QED
    BY <2>1, <2>2
<1>5. Heap(run, mem, lo, hi, saved)
  BY <1>2, <1>4, ShapeKeeps
<1>6. KeptSpares(run, mem, held)
  BY <1>1, <1>4 DEF HeldInv, During, KeptSpares, SameShape
<1>7. QED
  BY <1>1, <1>2, <1>4, <1>5, <1>6, HeldReturns

\* A copy that a stage makes of an input leaves the caller's bytes alone.
LEMMA LoadedBelow ==
    ASSUME Loaded(plan), NEW r, RunNumbers(r), NEW mem, NEW saved, NEW ins, NEW block, NEW scratch,
           Staged(r, mem, saved, ins, block, scratch), \A k \in DOMAIN ins : ins[k] \in Tensor,
           NEW t \in Tensor, CanAlloc(mem, "fast", plan.size[t]),
           NEW other, other = Transfer(mem, Bases, "fast", t, plan.size[t]),
           NEW bytes, KeptSpares(r, mem, bytes)
    PROVE  SameBelow(r.floor, mem, other) /\ KeptSpares(r, other, bytes)
<1>1. PICK placed : placed = AllocIn(mem, "fast", t)
  OBVIOUS
<1>2. IsMemory(mem) /\ mem.reserved \in Nat /\ r.floor \in Nat /\ r.floor <= mem.reserved
  BY StagedNumbers
<1>3. /\ Staged(r, placed, saved, ins, block, scratch) /\ Allocated(mem, "fast", t, placed)
      /\ InFast(placed.ptr[t], Span(t), mem.reserved, placed.used["fast"])
  BY <1>1, StagedAllocFast
<1>4. /\ Arenas(placed, r.capacity) /\ placed.used["fast"] \in Nat /\ placed.used["fast"] <= r.capacity
      /\ placed.ptr[t] \in Nat /\ Span(t) \in Nat /\ Bases["fast"] \in Nat /\ r.capacity \in Nat
  BY <1>3, StagedNumbers, MemoryNumbers, Numbers DEF Allocated, RunNumbers
<1>5. Elsewhere(r, placed, placed.ptr[t], Span(t))
  BY <1>2, <1>3, <1>4 DEF Elsewhere, InFast
<1>6. "fast" \in Pool
  BY DEF Pool
<1>7. SameBelow(r.floor, mem, other)
  BY <1>1, <1>2, <1>4, <1>5, <1>6, TransferBelow
<1>8. SameShape(placed, other)
  BY <1>1, <1>2, <1>6, TransferShape
<1>9. KeptSpares(r, other, bytes)
  <2>1. SUFFICES ASSUME NEW u \in Tensor, Kept(r, other.ptr[u], u) PROVE Spares(bytes, other.ptr[u], Span(u))
    BY DEF KeptSpares
  <2>2. other.ptr[u] = placed.ptr[u]
    BY <1>8 DEF SameShape
  <2>3. u # t
    <3>1. Away(placed, mem.reserved, placed.used["fast"], placed.ptr[t], Span(t))
      BY <1>3 DEF Away
    <3>2. ~Kept(r, placed.ptr[t], t)
      BY <1>2, <1>4, <3>1, AwayIsNotKept
    <3>3. QED
      BY <2>1, <2>2, <3>2
  <2>4. other.ptr[u] = mem.ptr[u]
    BY <1>2, <1>3, <2>2, <2>3 DEF Allocated, IsMemory
  <2>5. QED
    BY <2>1, <2>4 DEF KeptSpares
<1>10. QED
  BY <1>7, <1>9

LEMMA HeldLoadInput ==
    ASSUME ControlInv, RunInv, HeldInv, LoadInput
    PROVE  HeldInv'
<1>1. /\ pc = "load" /\ i <= Len(Stage.ins) /\ InStage /\ Running /\ Loaded(plan) /\ i \in Nat /\ i >= 1
      /\ UNCHANGED <<plan, run, held, s>>
  BY DEF LoadInput, InStage, Running, ControlInv, Counters, Fail, Return, caller
<1>2. PICK r, mem, saved, scratch, ins, block, t, n, bytes :
          /\ r = run /\ mem = m /\ saved = stage_run.saved /\ scratch = stage_run.scratch
          /\ ins = Stage.ins /\ block = Stage.block /\ t = ins[i] /\ n = i /\ bytes = held
  OBVIOUS
<1>3. /\ RunNumbers(r) /\ Staged(r, mem, saved, ins, block, scratch)
      /\ KeptSpares(r, mem, bytes) /\ SavedSpares(r, saved, ins, bytes)
      /\ stage_run = [saved |-> saved, last_use |-> stage_run.last_use, scratch |-> scratch]
  BY <1>1, <1>2 DEF RunInv, HeldInv, During
<1>4. /\ n \in DOMAIN ins /\ (\A k \in DOMAIN ins : ins[k] \in Tensor) /\ t \in Tensor /\ t = ins[n]
  BY <1>1, <1>2, StageTypes
<1>5. CASE pc' = "returned"
  <2>1. Fail("ERR_MEM", m)
    BY <1>1, <1>5 DEF LoadInput
  <2>2. QED
    BY <1>1, <2>1, HeldFails
<1>6. CASE pc' # "returned"
  <2>1. PICK other, from, after, inplace :
            /\ other = m' /\ from = (IF inplace THEN NULL ELSE mem.ptr[t]) /\ after = [saved EXCEPT ![n] = from]
            /\ inplace = InPool(mem, "fast", mem.reserved, mem.used["fast"], t)
    OBVIOUS
  <2>2. /\ pc' = "load"
        /\ inplace \/ CanTransfer(mem, "fast", t, plan.size[t])
        /\ other = IF inplace THEN mem ELSE Transfer(mem, Bases, "fast", t, plan.size[t])
        /\ stage_run' = [stage_run EXCEPT !.saved[i] = from]
    BY <1>1, <1>2, <1>6, <2>1 DEF LoadInput, Fail, Return
  <2>3. stage_run'.saved = after
    BY <1>2, <1>3, <2>1, <2>2
  <2>4. SameBelow(r.floor, mem, other) /\ KeptSpares(r, other, bytes)
    <3>1. CASE inplace
      BY <1>3, <2>2, <3>1, SameBelowCells
    <3>2. CASE ~inplace
      <4>1. CanAlloc(mem, "fast", plan.size[t]) /\ other = Transfer(mem, Bases, "fast", t, plan.size[t])
        BY <2>2, <3>2 DEF CanTransfer
      <4>2. QED
        BY <1>1, <1>3, <1>4, <4>1, LoadedBelow
    <3>3. QED
      BY <3>1, <3>2
  <2>5. SavedSpares(r, after, ins, bytes)
    <3>1. Kept(r, from, t) => Spares(bytes, from, Span(t))
      BY <1>1, <1>3, <1>4, <2>1, NullIsNotKept DEF KeptSpares
    <3>2. \A k \in DOMAIN ins : after[k] = IF k = n THEN from ELSE saved[k]
      BY <1>3, <2>1 DEF Staged
    <3>3. QED
      BY <1>3, <1>4, <3>1, <3>2 DEF SavedSpares
  <2>6. Running'
    BY <2>2 DEF Running
  <2>7. QED
    BY <1>1, <1>2, <2>1, <2>3, <2>4, <2>5, <2>6, HeldRuns
<1>7. QED
  BY <1>5, <1>6

\* A step of a stage that has loaded its inputs: none of them is the caller's copy.
LEMMA HeldWorks ==
    ASSUME HeldInv, MemoryInv', InStage, pc' \in {"op", "spill"}, UNCHANGED <<plan, run, held, s, stage_run>>,
           SameBelow(run.floor, m, m')
    PROVE  HeldInv'
<1>1. Running /\ Running'
  <2>1. Running
    BY DEF Running, InStage
  <2>2. pc' # "idle" /\ pc' # "returned"
    OBVIOUS
  <2>3. QED
    BY <2>1, <2>2 DEF Running
<1>2. PICK r, other : r = run /\ other = m'
  OBVIOUS
<1>3. NoneKept(r, other)'
  BY <1>1, <1>2 DEF MemoryInv, RunInv
<1>4. NoneKept(r, other)
  BY <1>3, OutsideStays
<1>5. KeptSpares(run, m', held)
  BY <1>2, <1>4 DEF NoneKept, KeptSpares
<1>6. SavedSpares(run, stage_run'.saved, Stage.ins, held)
  BY DEF HeldInv
<1>7. QED
  BY <1>1, <1>5, <1>6, HeldRuns

LEMMA HeldOpsBegin ==
    ASSUME HeldInv, MemoryInv', OpsBegin \/ OpsEnd
    PROVE  HeldInv'
<1>1. /\ InStage /\ pc' \in {"op", "spill"} /\ UNCHANGED <<m, plan, run, held, s, stage_run>>
  BY DEF OpsBegin, OpsEnd, InStage, Goto, caller
<1>2. QED
  BY <1>1, SameBelowCells, HeldWorks

LEMMA HeldReshape ==
    ASSUME ControlInv, RunInv, HeldInv, MemoryInv', Reshape
    PROVE  HeldInv'
<1>1. /\ pc = "op" /\ pc' = "op" /\ UNCHANGED <<plan, run, held, s, stage_run>> /\ InStage /\ Running
      /\ Loaded(plan)
  BY DEF Reshape, caller, InStage, Running, ControlInv, Counters
<1>2. PICK mem : mem = m /\ IsMemory(mem)
  BY <1>1, RunningHeap DEF Heap, Arenas
<1>3. PICK u, a, shared : u = Op.outs[1] /\ a = mem.ptr[Op.ins[1]] /\ shared = [mem EXCEPT !.ptr[u] = a]
  OBVIOUS
<1>4. m' = shared \/ m' = Release(shared, {u})
  BY <1>2, <1>3 DEF Reshape
<1>5. shared.cells = mem.cells
  BY <1>2, <1>3 DEF IsMemory
<1>6. Release(shared, {u}).cells = shared.cells
  <2>1. shared = [ptr |-> shared.ptr, cells |-> shared.cells, size |-> shared.size, used |-> shared.used,
                  reserved |-> shared.reserved]
    BY <1>2, <1>3 DEF IsMemory
  <2>2. \E ptr : Release(shared, {u}) = [shared EXCEPT !.ptr = ptr]
    BY DEF Release
  <2>3. QED
    BY <2>1, <2>2
<1>7. SameBelow(run.floor, m, m')
  BY <1>2, <1>4, <1>5, <1>6, SameBelowCells
<1>8. QED
  BY <1>1, <1>7, HeldWorks

LEMMA HeldRunKernel ==
    ASSUME ControlInv, RunInv, HeldInv, MemoryInv', RunKernel
    PROVE  HeldInv'
<1>1. /\ pc = "op" /\ j <= Len(Stage.ops) /\ pc' = "op" /\ UNCHANGED <<plan, run, held, s, stage_run>>
      /\ InStage /\ Running /\ Loaded(plan)
  BY DEF RunKernel, caller, InStage, Running, ControlInv, Counters
<1>2. IsMemory(m)
  BY <1>1, RunningHeap DEF Heap, Arenas
<1>3. PICK value, dead, written :
          /\ DOMAIN value = Range(Op.outs) /\ written = WriteAll(m, value) /\ m' = Release(written, dead)
  <2>1. PICK value : value = [t \in Range(Op.outs) |-> Computed(CHOOSE k \in DOMAIN Op.outs : Op.outs[k] = t)]
    OBVIOUS
  <2>2. PICK dead : dead = {t \in Range(Op.ins) \cup Range(Op.outs) : stage_run.last_use[t] = j}
    OBVIOUS
  <2>3. PICK written : written = WriteAll(m, value)
    OBVIOUS
  <2>4. m' = Release(written, dead)
    BY <2>1, <2>2, <2>3, Zenon DEF RunKernel
  <2>5. DOMAIN value = Range(Op.outs)
    BY <2>1
  <2>6. QED
    BY <2>3, <2>4, <2>5
<1>4. \A t \in DOMAIN value : t \in Range(Op.outs) /\ m.ptr[t] # NULL
  BY <1>3 DEF RunKernel, KernelReady
<1>5. SameBelow(run.floor, m, written)
  BY <1>1, <1>3, <1>4, OutputsBelow
<1>6. IsMemory(written)
  BY <1>2, <1>3, WriteAllShape DEF SameShape
<1>7. Fewer(written, m')
  BY <1>3, <1>6, ReleaseFewer
<1>8. SameBelow(run.floor, m, m')
  BY <1>5, <1>7, SameBelowCells, SameBelowOnward DEF Fewer
<1>9. QED
  BY <1>1, <1>8, HeldWorks

LEMMA HeldAllocOutput ==
    ASSUME ControlInv, RunInv, HeldInv, MemoryInv', AllocOutput
    PROVE  HeldInv'
<1>1. /\ pc = "op" /\ j <= Len(Stage.ops) /\ i <= Len(Op.outs)
      /\ pc' \in {"op", "returned"} /\ UNCHANGED <<plan, run, held, s, stage_run>>
  BY DEF AllocOutput, Fail, Return, caller
<1>2. /\ InStage /\ Running /\ Op.outs \in Seq(Tensor) /\ Loaded(plan) /\ i \in Nat /\ i >= 1
  BY <1>1, OpTypes, StageWorks DEF ControlInv, Counters
<1>3. PICK r, mem, saved, scratch, ins, block, t, packed, other :
          /\ r = run /\ mem = m /\ saved = stage_run.saved /\ scratch = stage_run.scratch
          /\ ins = Stage.ins /\ block = Stage.block /\ t = Op.outs[i]
          /\ packed = CompactFast(mem, Bases, plan.size) /\ other = m'
  OBVIOUS
<1>4. RunNumbers(r) /\ Working(r, mem, saved, ins, block, scratch)
  BY <1>1, <1>3, StageWorks
<1>5. t \in Tensor /\ \A k \in DOMAIN ins : ins[k] \in Tensor
  BY <1>1, <1>2, <1>3, ElementOf, StageTypes
<1>6. Working(r, packed, saved, ins, block, scratch)
  BY <1>2, <1>3, <1>4, <1>5, WorkingPacked
<1>7. /\ Heap(r, packed, packed.reserved, packed.used["fast"], SavedBlocks(saved, ins))
      /\ IsMemory(mem) /\ IsMemory(packed) /\ packed.reserved \in Nat /\ packed.used["fast"] \in Nat
      /\ r.floor <= packed.reserved /\ NoneKept(r, packed)
  BY <1>2, <1>4, <1>6, StagedNumbers DEF Working
<1>8. SameBelow(r.floor, mem, packed)
  <2>1. /\ Heap(r, mem, mem.reserved, mem.used["fast"], SavedBlocks(saved, ins))
        /\ mem.reserved \in Nat /\ r.floor \in Nat /\ r.floor <= mem.reserved
        /\ mem.reserved <= mem.used["fast"] /\ mem.used["fast"] <= mem.size["fast"]
        /\ mem.size["fast"] <= r.capacity
    BY <1>2, <1>4, StagedNumbers DEF Working
  <2>2. SameBelow(mem.reserved, mem, packed)
    BY <1>2, <1>3, <1>4, <2>1, CompactFastKeeps DEF FastPacked
  <2>3. QED
    BY <2>1, <2>2, SameBelowTop
<1>9. \/ pc' = "op" /\ other = mem
      \/ pc' = "op" /\ other = AllocIn(mem, "fast", t)
      \/ pc' = "op" /\ other = AllocIn(packed, "fast", t)
      \/ pc' = "op" /\ other = AllocIn(packed, "slow", t)
      \/ Fail("ERR_MEM", packed)
  BY <1>1, <1>3 DEF AllocOutput
<1>10. CASE Fail("ERR_MEM", packed)
  <2>1. KeptSpares(r, packed, held)
    BY <1>7 DEF KeptSpares, NoneKept
  <2>2. Return("ERR_MEM", packed)
    BY <1>10 DEF Fail
  <2>3. QED
    BY <1>2, <1>3, <1>7, <1>8, <2>1, <2>2, HeldReturns
<1>11. CASE ~Fail("ERR_MEM", packed)
  <2>1. /\ AllocIn(mem, "fast", t).cells = mem.cells
        /\ AllocIn(packed, "fast", t).cells = packed.cells
        /\ AllocIn(packed, "slow", t).cells = packed.cells
    BY <1>2, <1>5, <1>7, AllocFast, AllocSlow DEF Allocated
  <2>2. other.cells = mem.cells \/ other.cells = packed.cells
    BY <1>9, <1>11, <2>1
  <2>3. SameBelow(r.floor, mem, other)
    BY <1>8, <2>2 DEF SameBelow
  <2>4. pc' = "op"
    BY <1>9, <1>11
  <2>5. QED
    BY <1>1, <1>2, <1>3, <2>3, <2>4, HeldWorks
<1>12. QED
  BY <1>10, <1>11

LEMMA HeldSpillOutput ==
    ASSUME ControlInv, RunInv, HeldInv, MemoryInv', SpillOutput
    PROVE  HeldInv'
<1>1. /\ pc = "spill" /\ i <= Len(Stage.outs) /\ Loaded(plan) /\ i \in Nat /\ i >= 1 /\ InStage /\ Running
      /\ UNCHANGED <<plan, run, held, s, stage_run>>
  BY StageWorks DEF SpillOutput, Fail, Return, caller, ControlInv, Counters
<1>2. CASE pc' = "returned"
  <2>1. Fail("ERR_MEM", m)
    BY <1>1, <1>2 DEF SpillOutput
  <2>2. QED
    BY <1>1, <2>1, HeldFails
<1>3. CASE pc' # "returned"
  <2>1. PICK r, mem, saved, scratch, ins, block, t, other :
            /\ r = run /\ mem = m /\ saved = stage_run.saved /\ scratch = stage_run.scratch
            /\ ins = Stage.ins /\ block = Stage.block /\ t = Stage.outs[i] /\ other = m'
    OBVIOUS
  <2>2. /\ pc' = "spill"
        /\ \/ other = mem
           \/ CanAlloc(mem, "slow", plan.size[t]) /\ other = Transfer(mem, Bases, "slow", t, plan.size[t])
    BY <1>1, <1>3, <2>1 DEF SpillOutput, Fail, Return, CanTransfer
  <2>3. t \in Tensor /\ RunNumbers(r)
    BY <1>1, <2>1, StageTypes, StageWorks, ElementOf
  <2>4. PICK lo, hi, kept : /\ lo \in Nat /\ hi \in Nat /\ Heap(r, mem, lo, hi, kept)
                            /\ r.floor <= lo /\ hi <= r.capacity
    BY <1>1, <2>1, RunningHeap
  <2>5. ASSUME CanAlloc(mem, "slow", plan.size[t]), other = Transfer(mem, Bases, "slow", t, plan.size[t])
        PROVE  SameBelow(r.floor, mem, other)
    <3>1. PICK placed : placed = AllocIn(mem, "slow", t)
      OBVIOUS
    <3>2. Heap(r, placed, lo, hi, kept) /\ InSlow(placed.ptr[t], Span(t), placed.used["slow"])
      BY <1>1, <2>3, <2>4, <2>5, <3>1, AllocSlowKeeps
    <3>3. Arenas(placed, r.capacity) /\ Elsewhere(r, placed, placed.ptr[t], Span(t))
      BY <3>2 DEF Heap, Elsewhere
    <3>4. "slow" \in Pool /\ IsMemory(mem)
      BY <2>4 DEF Pool, Heap, Arenas
    <3>5. QED
      BY <1>1, <2>3, <2>5, <3>1, <3>3, <3>4, TransferBelow
  <2>6. SameBelow(r.floor, mem, other)
    BY <2>2, <2>5, SameBelowCells
  <2>7. QED
    BY <1>1, <2>1, <2>2, <2>6, HeldWorks
<1>4. QED
  BY <1>2, <1>3

\* The pointers a stage gives back are the ones it has saved.
LEMMA HeldStageEnd ==
    ASSUME ControlInv, RunInv, HeldInv, StageEnd
    PROVE  HeldInv'
<1>1. /\ pc = "spill" /\ InStage /\ Running /\ Loaded(plan) /\ pc' \in {"unwind", "stage"}
      /\ UNCHANGED <<plan, run, held>>
      /\ DOMAIN Stage.ins = 1 .. Len(Stage.ins) /\ Len(Stage.ins) \in Nat
      /\ \A k \in DOMAIN Stage.ins : Stage.ins[k] \in Tensor
  BY StageTypes DEF StageEnd, InStage, caller, After
<1>2. PICK r, mem, saved, scratch, ins, block, keep, closed, freed, other, bytes :
          /\ r = run /\ mem = m /\ saved = stage_run.saved /\ scratch = stage_run.scratch
          /\ ins = Stage.ins /\ block = Stage.block /\ keep = (IF run.in_fast THEN Range(Stage.outs) ELSE {})
          /\ closed = StageClosed /\ freed = FreeDead(closed, flow.first, s) /\ other = m' /\ bytes = held
  OBVIOUS
<1>3. /\ RunNumbers(r) /\ Working(r, mem, saved, ins, block, scratch)
      /\ other = ResetToFloor(freed)
      /\ SavedSpares(r, saved, ins, bytes) /\ KeptSpares(r, mem, bytes)
  BY <1>1, <1>2, StageWorks DEF StageEnd, HeldInv, During
<1>4. Closed(r, mem, saved, ins, keep, closed)
  <2>1. saved \in [DOMAIN ins -> Nat] /\ IsMemory(mem)
    BY <1>3 DEF Working, Staged, Heap, Arenas
  <2>2. QED
    BY <1>1, <1>2, <1>3, <2>1, ClosedFields
<1>5. PICK lo \in Nat, hi \in Nat :
          lo = r.floor + r.gap /\ hi = r.capacity /\ r.floor <= lo
  BY <1>3 DEF RunNumbers
<1>6. Heap(r, closed, lo, hi, {})
  <2>1. lo <= mem.reserved
    BY <1>3, <1>5 DEF Working, Staged
  <2>2. mem.used["fast"] <= hi
    BY <1>1, <1>3, <1>5, StagedNumbers DEF Working
  <2>3. \A k \in DOMAIN ins : ins[k] \in Tensor
    BY <1>1, <1>2
  <2>4. QED
    BY <1>1, <1>3, <1>4, <2>1, <2>2, <2>3, ClosedKeeps
<1>7. hi <= r.capacity
  BY <1>5
<1>8. SlowPacked(r, closed, lo, hi, freed)
  BY <1>1, <1>2, <1>3, <1>6, <1>7, FreeDeadKeeps
<1>9. /\ IsMemory(freed) /\ Arenas(freed, r.capacity) /\ other.ptr = freed.ptr /\ other.cells = freed.cells
  <2>1. IsMemory(freed) /\ Arenas(freed, r.capacity)
    BY <1>8 DEF SlowPacked, Heap, Arenas
  <2>2. QED
    BY <1>2, <1>3, <2>1, ResetShape
<1>10. SameBelow(r.floor, mem, other)
  <2>1. SameBelow(r.floor, closed, freed)
    BY <1>1, <1>3, <1>8, PackedBelow
  <2>2. closed.cells = mem.cells
    BY <1>4 DEF Closed
  <2>3. QED
    BY <1>9, <2>1, <2>2 DEF SameBelow
<1>11. KeptSpares(r, other, bytes)
  <2>1. SUFFICES ASSUME NEW t \in Tensor, Kept(r, other.ptr[t], t) PROVE Spares(bytes, other.ptr[t], Span(t))
    BY DEF KeptSpares
  <2>2. other.ptr[t] # NULL /\ other.ptr[t] \in Nat
    BY <1>1, <1>9, <2>1, NullIsNotKept, MemoryNumbers
  <2>3. other.ptr[t] = closed.ptr[t]
    <3>1. CASE InSlow(other.ptr[t], Span(t), freed.used["slow"])
      <4>1. Away(freed, lo, hi, other.ptr[t], Span(t))
        BY <3>1 DEF Away
      <4>2. ~Kept(r, other.ptr[t], t)
        BY <1>1, <1>3, <1>5, <1>9, <2>2, <4>1, AwayIsNotKept
      <4>3. QED
        BY <2>1, <4>2
    <3>2. CASE ~InSlow(other.ptr[t], Span(t), freed.used["slow"])
      BY <1>8, <1>9, <2>2, <3>2 DEF SlowPacked
    <3>3. QED
      BY <3>1, <3>2
  <2>4. CASE \E k \in DOMAIN ins : ins[k] = t /\ closed.ptr[t] = saved[k]
    BY <1>3, <2>1, <2>3, <2>4 DEF SavedSpares
  <2>5. CASE closed.ptr[t] \in {NULL, mem.ptr[t]}
    BY <1>3, <2>1, <2>2, <2>3, <2>5 DEF KeptSpares
  <2>6. QED
    BY <1>4, <2>4, <2>5 DEF Closed
<1>12. Running' /\ ~InStage'
  <2>1. pc' \notin {"idle", "returned", "load", "op", "spill"}
    BY <1>1
  <2>2. QED
    BY <2>1 DEF Running, InStage
<1>13. QED
  BY <1>1, <1>2, <1>10, <1>11, <1>12, HeldRuns

LEMMA HeldRunEnd ==
    ASSUME ControlInv, RunInv, HeldInv, RunEnd
    PROVE  HeldInv'
<1>1. Running /\ Loaded(plan)
  BY DEF RunEnd, Running, ControlInv, Counters
<1>2. PICK lo, hi, saved : /\ lo \in Nat /\ hi \in Nat /\ Heap(run, m, lo, hi, saved)
                           /\ run.floor <= lo /\ hi <= run.capacity
  BY <1>1, RunningHeap
<1>3. SameBelow(run.floor, m, m) /\ KeptSpares(run, m, held) /\ Return("OK", m)
  BY <1>1, SameBelowCells DEF HeldInv, During, RunEnd
<1>4. QED
  BY <1>1, <1>2, <1>3, HeldReturns

LEMMA HeldStep ==
    ASSUME ControlInv, RunInv, HeldInv, MemoryInv', Step
    PROVE  HeldInv'
  BY HeldControlStep, HeldCopyStep, HeldUnwindStep, HeldStageBegin, HeldBreakDown, HeldLoadInput,
     HeldOpsBegin, HeldReshape, HeldRunKernel, HeldAllocOutput, HeldSpillOutput, HeldStageEnd,
     HeldRunEnd DEF Step

-----------------------------------------------------------------------------
(* The caller's calls *)

\* Between two runs an input that has a buffer is clear of the bytes.
LEMMA PlacedApart ==
    ASSUME Loaded(plan), NEW mem, Idle(mem), NEW bytes, Between(mem, bytes),
           NEW t \in Inputs, mem.ptr[t] # NULL
    PROVE  Spares(bytes, mem.ptr[t], Span(t)) /\ bytes \subseteq DOMAIN mem.cells
<1>1. IsMemory(mem) /\ t \in Tensor /\ (IdleSlot(mem, t) \/ Pending(mem, t)) /\ ~Pending(mem, t)
  BY InputNumbers DEF Idle, Arenas, Pending
<1>2. PICK fast \in Nat, slow \in Nat, bottom \in Nat, used \in Nat, size \in Nat, top \in Nat, room \in Nat,
           a \in Nat, n \in Nat :
          /\ fast = Bases["fast"] /\ slow = Bases["slow"] /\ bottom = FirstOf("slow")
          /\ used = mem.used["fast"] /\ size = mem.size["fast"] /\ top = mem.used["slow"]
          /\ room = mem.size["slow"] /\ a = mem.ptr[t] /\ n = Span(t)
  <2>1. /\ Bases["fast"] \in Nat /\ Bases["slow"] \in Nat /\ FirstOf("slow") \in Nat
        /\ mem.used["fast"] \in Nat /\ mem.size["fast"] \in Nat /\ mem.used["slow"] \in Nat
        /\ mem.size["slow"] \in Nat /\ mem.ptr[t] \in Nat /\ Span(t) \in Nat
    BY <1>1, Numbers, MemoryNumbers
  <2>2. QED
    BY <2>1
<1>3. used <= size /\ top <= room /\ (fast + size <= slow \/ slow + room <= fast)
  BY <1>2 DEF Idle, Arenas
<1>4. \A x \in bytes : x \in Nat /\ fast <= x /\ x < fast + used
  BY <1>2 DEF Between, BytesBelow
<1>5. bytes \subseteq DOMAIN mem.cells
  <2>1. DOMAIN mem.cells = (fast .. fast + size - 1) \cup (slow .. slow + room - 1)
    BY <1>2 DEF Idle, Arenas
  <2>2. ASSUME NEW x \in bytes PROVE x \in fast .. fast + size - 1
    BY <1>3, <1>4
  <2>3. QED
    BY <2>1, <2>2
<1>6. CASE InSlow(a, n, top)
  <2>1. slow <= a /\ a + n <= slow + top
    BY <1>2, <1>6 DEF InSlow
  <2>2. ASSUME NEW x \in bytes PROVE x < a \/ a + n <= x
    BY <1>3, <1>4, <2>1
  <2>3. QED
    BY <1>2, <1>5, <2>2 DEF Spares
<1>7. CASE PlanIoInFast(plan) /\ InFast(a, n, FirstOf("fast"), used)
  BY <1>2, <1>5, <1>7 DEF Between, PlacedSpares
<1>8. QED
  BY <1>1, <1>2, <1>6, <1>7 DEF IdleSlot

\* Writing an input's value.
LEMMA BetweenWrites ==
    ASSUME Loaded(plan), NEW mem, Idle(mem), NEW bytes, Between(mem, bytes),
           NEW t \in Inputs, mem.ptr[t] # NULL, NEW value
    PROVE  Between(Write(mem, t, value), bytes)
<1>1. PICK other, a, n, span : /\ other = Write(mem, t, value) /\ a = mem.ptr[t] /\ n = plan.size[t]
                               /\ span = Span(t)
  OBVIOUS
<1>2. IsMemory(mem) /\ t \in Tensor
  BY InputNumbers DEF Idle, Arenas
<1>3. SameShape(mem, other)
  BY <1>1, <1>2, WriteShape
<1>4. Spares(bytes, a, span) /\ bytes \subseteq DOMAIN mem.cells
  BY <1>1, PlacedApart
<1>5. a \in Nat /\ n \in Nat /\ span \in Nat /\ n <= span
  BY <1>1, <1>2, SizeInSpan, Numbers, MemoryNumbers
<1>6. PICK cells : cells = [b \in DOMAIN mem.cells |->
                               IF a <= b /\ b < a + n THEN Cell(value, b - a) ELSE mem.cells[b]]
  OBVIOUS
<1>7. other.cells = cells
  <2>1. other = [mem EXCEPT !.cells = cells]
    BY <1>1, <1>6 DEF Write, WriteAt
  <2>2. QED
    BY <1>2, <2>1 DEF IsMemory
<1>8. ASSUME NEW x \in bytes PROVE other.cells[x] = mem.cells[x]
  <2>1. x \in Nat /\ x \in DOMAIN mem.cells /\ (x < a \/ a + span <= x)
    BY <1>4 DEF Between, BytesBelow, Spares
  <2>2. ~(a <= x /\ x < a + n)
    BY <1>5, <2>1
  <2>3. QED
    BY <1>6, <1>7, <2>1, <2>2
<1>9. Between(other, bytes)
  BY <1>3, <1>8 DEF Between, HoldsIn, PlacedSpares, SameShape
<1>10. QED
  BY <1>1, <1>9

\* An input placed in slow memory or above what the fast arena holds.
LEMMA BetweenPlaces ==
    ASSUME Loaded(plan), NEW mem, Idle(mem), NEW bytes, Between(mem, bytes),
           NEW t \in Inputs, NEW other, Placed(mem, t, other),
           \/ InSlow(other.ptr[t], Span(t), other.used["slow"])
           \/ Bases["fast"] + mem.used["fast"] <= other.ptr[t]
    PROVE  Between(other, bytes)
<1>1. IsMemory(mem) /\ IsMemory(other) /\ t \in Tensor /\ Inputs \subseteq Tensor
  BY InputNumbers DEF Idle, Arenas, Placed
<1>2. PICK fast \in Nat, slow \in Nat, bottom \in Nat, used \in Nat, more \in Nat, size \in Nat, top \in Nat,
           room \in Nat, a \in Nat, n \in Nat :
          /\ fast = Bases["fast"] /\ slow = Bases["slow"] /\ bottom = FirstOf("slow")
          /\ used = mem.used["fast"] /\ more = other.used["fast"] /\ size = mem.size["fast"]
          /\ top = other.used["slow"] /\ room = mem.size["slow"] /\ a = other.ptr[t] /\ n = Span(t)
  <2>1. /\ Bases["fast"] \in Nat /\ Bases["slow"] \in Nat /\ FirstOf("slow") \in Nat
        /\ mem.used["fast"] \in Nat /\ other.used["fast"] \in Nat /\ mem.size["fast"] \in Nat
        /\ other.used["slow"] \in Nat /\ mem.size["slow"] \in Nat /\ other.ptr[t] \in Nat /\ Span(t) \in Nat
    BY <1>1, Numbers, MemoryNumbers
  <2>2. QED
    BY <2>1
<1>3. used <= more /\ used <= size /\ top <= room /\ (fast + size <= slow \/ slow + room <= fast)
  BY <1>2 DEF Idle, Arenas, Placed
<1>4. \A x \in bytes : x \in Nat /\ fast <= x /\ x < fast + used
  BY <1>2 DEF Between, BytesBelow
<1>5. Spares(bytes, a, n)
  <2>1. CASE InSlow(a, n, top)
    <3>1. slow <= a /\ a + n <= slow + top
      BY <1>2, <2>1 DEF InSlow
    <3>2. ASSUME NEW x \in bytes PROVE x < a \/ a + n <= x
      BY <1>3, <1>4, <3>1
    <3>3. QED
      BY <3>2 DEF Spares
  <2>2. CASE fast + used <= a
    BY <1>4, <2>2 DEF Spares
  <2>3. QED
    BY <1>2, <2>1, <2>2
<1>6. BytesBelow(bytes, more)
  <2>1. ASSUME NEW x \in bytes PROVE x < fast + more
    BY <1>3, <1>4
  <2>2. QED
    BY <1>2, <1>4, <2>1 DEF BytesBelow
<1>7. HoldsIn(bytes, other)
  BY DEF Placed, Between, HoldsIn
<1>8. PlacedSpares(other, bytes)
  <2>1. SUFFICES ASSUME PlanIoInFast(plan), NEW u \in Inputs, other.ptr[u] # NULL
                 PROVE  Spares(bytes, other.ptr[u], Span(u))
    <3>1. ASSUME NEW u \in Inputs, InFast(other.ptr[u], Span(u), FirstOf("fast"), other.used["fast"])
          PROVE  other.ptr[u] # NULL
      <4>1. Bases["fast"] \in Nat \ {0} /\ FirstOf("fast") \in Nat
        BY Numbers
      <4>2. QED
        BY <3>1, <4>1 DEF InFast, NULL
    <3>2. QED
      BY <3>1 DEF PlacedSpares
  <2>2. CASE u = t
    BY <1>2, <1>5, <2>2
  <2>3. CASE u # t
    <3>1. other.ptr[u] = mem.ptr[u]
      BY <1>1, <2>3 DEF Placed, IsMemory
    <3>2. QED
      BY <2>1, <3>1, PlacedApart
  <2>4. QED
    BY <2>2, <2>3
<1>9. QED
  BY <1>2, <1>6, <1>7, <1>8 DEF Between

\* A step of the caller's that leaves it between two runs.
LEMMA HeldBetween ==
    ASSUME plan' = plan, ~Running', NEW bytes, held' = bytes, Between(m', bytes)
    PROVE  HeldInv'
<1>1. PICK other : other = m'
  OBVIOUS
<1>2. Between(other, bytes)'
  BY <1>1, SparesStays
<1>3. ~InStage'
  BY DEF Running, InStage
<1>4. QED
  BY <1>1, <1>2, <1>3 DEF HeldInv

LEMMA HeldInputWrite ==
    ASSUME ControlInv, IdleInv, HeldInv, NEW t \in Range(plan.inputs), NEW value, InputWrite(t, value)
    PROVE  HeldInv'
<1>1. Loaded(plan) /\ ~Running /\ Idle(m) /\ Between(m, held)
  BY DEF ControlInv, Counters, InputWrite, IdleInv, HeldInv, Running
<1>2. pc' = "idle" /\ plan' = plan /\ held' = held /\ ~Running'
  BY DEF InputWrite, Running
<1>3. PICK mem, other, bytes : mem = m /\ other = m' /\ bytes = held
  OBVIOUS
<1>4. t \in Inputs /\ t \in Tensor
  BY <1>1, InputNumbers DEF Inputs
<1>5. ASSUME NEW moved, other = Write(moved, t, value), Idle(moved), Between(moved, bytes), moved.ptr[t] # NULL
      PROVE  HeldInv'
  <2>1. Between(other, bytes)
    BY <1>1, <1>4, <1>5, BetweenWrites
  <2>2. QED
    BY <1>2, <1>3, <2>1, HeldBetween
<1>6. ASSUME NEW moved, other = Write(moved, t, value), Placed(mem, t, moved),
             \/ InSlow(moved.ptr[t], Span(t), moved.used["slow"])
             \/ Bases["fast"] + mem.used["fast"] <= moved.ptr[t]
      PROVE  HeldInv'
  <2>1. Idle(moved)
    BY <1>1, <1>3, <1>4, <1>6, PlacedIdle
  <2>2. Between(moved, bytes)
    BY <1>1, <1>3, <1>4, <1>6, BetweenPlaces
  <2>3. moved.ptr[t] # NULL
    <3>1. Bases["fast"] \in Nat \ {0} /\ Bases["slow"] \in Nat \ {0} /\ FirstOf("slow") \in Nat
          /\ mem.used["fast"] \in Nat
      BY <1>1, <1>3, Numbers, MemoryNumbers DEF Idle, Arenas
    <3>2. QED
      BY <1>6, <3>1 DEF InSlow, NULL
  <2>4. QED
    BY <1>5, <1>6, <2>1, <2>2, <2>3
<1>7. CASE mem.ptr[t] # NULL
  <2>1. other = Write(mem, t, value)
    BY <1>3, <1>7 DEF InputWrite
  <2>2. QED
    BY <1>1, <1>3, <1>5, <1>7, <2>1
<1>8. CASE mem.ptr[t] = NULL /\ ~PlanIoInFast(plan)
  <2>1. PICK moved : moved = AllocIn(mem, "slow", t) /\ other = Write(moved, t, value) /\ CanAlloc(mem, "slow", plan.size[t])
    BY <1>3, <1>8 DEF InputWrite, InputPlaced
  <2>2. Placed(mem, t, moved)
    BY <1>1, <1>3, <1>4, <2>1, PlacedSlow
  <2>3. InSlow(moved.ptr[t], Span(t), moved.used["slow"])
    BY <1>8, <2>2 DEF Placed
  <2>4. QED
    BY <1>6, <2>1, <2>2, <2>3
<1>9. CASE mem.ptr[t] = NULL /\ PlanIoInFast(plan)
  <2>1. PICK placed, room : /\ placed = {u \in Inputs : mem.ptr[u] # NULL}
                            /\ room = IF placed = {} THEN WeightRoom ELSE 0
    OBVIOUS
  <2>2. {u \in Range(plan.inputs) : u # t /\ m.ptr[u] # NULL} = placed
    BY <1>3, <1>9, <2>1 DEF Inputs
  <2>3. plan.inputs # <<>>
    <3>1. plan.inputs = <<>> => Range(plan.inputs) = {}
      BY DEF Range
    <3>2. QED
      BY <3>1
  <2>4. WeightRoom = WeightOverhead(plan)
    BY <2>3 DEF WeightRoom
  <2>5. PICK moved : /\ moved = AllocIn(Above(mem, room), "fast", t) /\ other = Write(moved, t, value)
                     /\ room <= mem.size["fast"] - mem.used["fast"]
                     /\ CanAlloc(Above(mem, room), "fast", plan.size[t])
    <3>1. (IF {u \in Range(plan.inputs) : u # t /\ m.ptr[u] # NULL} = {} THEN WeightOverhead(plan) ELSE 0) = room
      BY <2>1, <2>2, <2>4
    <3>2. QED
      BY <1>3, <1>9, <3>1 DEF InputWrite, InputPlaced, Above
  <2>6. room \in Nat
    BY <1>1, <1>9, <2>1, RoomIsNat
  <2>7. Placed(mem, t, moved) /\ moved.ptr[t] = Bases["fast"] + mem.used["fast"] + room
    BY <1>1, <1>3, <1>4, <1>9, <2>5, <2>6, PlacedFast
  <2>8. Bases["fast"] + mem.used["fast"] <= moved.ptr[t]
    <3>1. Bases["fast"] \in Nat /\ mem.used["fast"] \in Nat
      BY <1>1, <1>3, Numbers, MemoryNumbers DEF Idle, Arenas
    <3>2. QED
      BY <2>6, <2>7, <3>1
  <2>9. QED
    BY <1>6, <2>5, <2>7, <2>8
<1>10. QED
  BY <1>7, <1>8, <1>9

\* The caller's own allocation lies above the inputs it has placed.
LEMMA HeldCallerAlloc ==
    ASSUME ControlInv, IdleInv, HeldInv, CallerAlloc
    PROVE  HeldInv'
<1>1. Loaded(plan) /\ Idle(m) /\ ALIGN \in Nat \ {0}
  BY AlignAssumption DEF ControlInv, Counters, CallerAlloc, IdleInv, Running
<1>2. plan' = plan /\ pc' = "idle" /\ ~Running'
  BY DEF CallerAlloc, Running
<1>3. PICK mem, other : mem = m /\ other = m'
  OBVIOUS
<1>4. IsMemory(mem)
  BY <1>1, <1>3 DEF Idle, Arenas
<1>5. PICK fast \in Nat, used \in Nat, top \in Nat, size \in Nat, a \in Nat :
          /\ fast = Bases["fast"] /\ used = mem.used["fast"] /\ top = used + ALIGN
          /\ size = mem.size["fast"] /\ top <= size /\ a = fast + used
  <2>1. PICK f \in Nat, u \in Nat, z \in Nat, n \in Nat :
            f = Bases["fast"] /\ u = mem.used["fast"] /\ z = mem.size["fast"] /\ n = ALIGN /\ n <= z - u
    <3>1. mem.used["fast"] \in Nat /\ mem.size["fast"] \in Nat /\ Bases["fast"] \in Nat
      BY <1>1, <1>4, MemoryNumbers, Numbers
    <3>2. ALIGN \in Nat /\ ALIGN <= mem.size["fast"] - mem.used["fast"]
      BY <1>1, <1>3 DEF CallerAlloc
    <3>3. QED
      BY <3>1, <3>2
  <2>2. u + n \in Nat /\ u + n <= z /\ f + u \in Nat
    BY <2>1
  <2>3. QED
    BY <2>1, <2>2
<1>6. PICK wrote, bytes : /\ wrote = WriteAt(mem, a, ALIGN, CallerValue)
                          /\ other = [wrote EXCEPT !.used["fast"] = @ + ALIGN]
                          /\ bytes = a .. (a + ALIGN - 1) /\ held' = bytes
  BY <1>3, <1>5 DEF CallerAlloc
<1>7. SameShape(mem, wrote)
  BY <1>4, <1>6, WriteAtShape
<1>8. other.ptr = mem.ptr /\ other.cells = wrote.cells /\ other.used["fast"] = top
  <2>1. IsMemory(wrote) /\ wrote.used["fast"] = used /\ wrote.ptr = mem.ptr
    BY <1>5, <1>7 DEF SameShape
  <2>2. other = [ptr |-> wrote.ptr, cells |-> wrote.cells, size |-> wrote.size,
                 used |-> [wrote.used EXCEPT !["fast"] = wrote.used["fast"] + ALIGN], reserved |-> wrote.reserved]
    BY <1>6, <2>1 DEF IsMemory
  <2>3. other.used["fast"] = wrote.used["fast"] + ALIGN
    BY <2>1, <2>2 DEF IsMemory, Pool
  <2>4. QED
    BY <1>5, <2>1, <2>2, <2>3
<1>9. BytesBelow(bytes, top)
  <2>1. ASSUME NEW x \in bytes PROVE x \in Nat /\ fast <= x /\ x < fast + top
    BY <1>1, <1>5, <1>6
  <2>2. QED
    BY <1>5, <2>1 DEF BytesBelow
<1>10. HoldsIn(bytes, other)
  <2>1. PICK cells : cells = [b \in DOMAIN mem.cells |->
                                 IF a <= b /\ b < a + ALIGN THEN Cell(CallerValue, b - a) ELSE mem.cells[b]]
    OBVIOUS
  <2>2. wrote.cells = cells
    <3>1. wrote = [mem EXCEPT !.cells = cells]
      BY <1>6, <2>1 DEF WriteAt
    <3>2. QED
      BY <1>4, <3>1 DEF IsMemory
  <2>3. fast .. fast + size - 1 \subseteq DOMAIN mem.cells
    BY <1>1, <1>3, <1>5 DEF Idle, Arenas
  <2>4. ASSUME NEW x \in bytes PROVE wrote.cells[x] = Cell(CallerValue, x - a)
    <3>1. x \in fast .. fast + size - 1 /\ a <= x /\ x < a + ALIGN
      <4>1. PICK n \in Nat : n = ALIGN /\ x \in a .. (a + n - 1) /\ top = used + n
        BY <1>1, <1>5, <1>6
      <4>2. x \in fast .. fast + size - 1 /\ a <= x /\ x < a + n
        BY <1>5, <4>1
      <4>3. QED
        BY <4>1, <4>2
    <3>2. QED
      BY <2>1, <2>2, <2>3, <3>1
  <2>5. QED
    BY <1>8, <2>4 DEF HoldsIn, Cell
<1>11. PlacedSpares(other, bytes)
  <2>1. SUFFICES ASSUME PlanIoInFast(plan), NEW t \in Inputs,
                        InFast(other.ptr[t], Span(t), FirstOf("fast"), other.used["fast"])
                 PROVE  Spares(bytes, other.ptr[t], Span(t))
    BY DEF PlacedSpares
  <2>2. t \in Tensor /\ mem.ptr[t] \in Nat /\ Span(t) \in Nat /\ FirstOf("fast") \in Nat /\ fast > 0
    BY <1>1, <1>4, <1>5, InputNumbers, MemoryNumbers, Numbers
  <2>3. IdleSlot(mem, t) /\ mem.ptr[t] # NULL
    <3>1. ~Pending(mem, t) /\ (IdleSlot(mem, t) \/ Pending(mem, t))
      BY <1>1, <1>3, <2>2 DEF Idle, Pending
    <3>2. QED
      BY <1>5, <1>8, <2>1, <2>2, <3>1 DEF InFast, NULL
  <2>4. CASE InSlow(mem.ptr[t], Span(t), mem.used["slow"])
    <3>1. PICK slow \in Nat, bottom \in Nat, high \in Nat, room \in Nat :
              /\ slow = Bases["slow"] /\ bottom = FirstOf("slow") /\ high = mem.used["slow"]
              /\ room = mem.size["slow"] /\ high <= room
      <4>1. /\ Bases["slow"] \in Nat /\ FirstOf("slow") \in Nat /\ mem.used["slow"] \in Nat
            /\ mem.size["slow"] \in Nat
        BY <1>1, <1>4, MemoryNumbers, Numbers
      <4>2. mem.used["slow"] <= mem.size["slow"]
        BY <1>1, <1>3 DEF Idle, Arenas
      <4>3. QED
        BY <4>1, <4>2
    <3>2. fast + size <= slow \/ slow + room <= fast
      BY <1>1, <1>3, <1>5, <3>1 DEF Idle, Arenas
    <3>3. slow + bottom <= mem.ptr[t] /\ mem.ptr[t] + Span(t) <= slow + high
      BY <2>4, <3>1 DEF InSlow
    <3>4. ASSUME NEW x \in bytes PROVE x < mem.ptr[t] \/ mem.ptr[t] + Span(t) <= x
      BY <1>5, <1>9, <2>2, <3>1, <3>2, <3>3 DEF BytesBelow
    <3>5. QED
      BY <1>8, <3>4 DEF Spares
  <2>5. CASE InFast(mem.ptr[t], Span(t), FirstOf("fast"), mem.used["fast"])
    <3>1. mem.ptr[t] + Span(t) <= a
      BY <1>5, <2>5 DEF InFast
    <3>2. ASSUME NEW x \in bytes PROVE a <= x /\ x \in Nat
      BY <1>1, <1>5, <1>6
    <3>3. QED
      BY <1>5, <1>8, <2>2, <3>1, <3>2 DEF Spares
  <2>6. QED
    BY <2>3, <2>4, <2>5 DEF IdleSlot
<1>12. Between(other, bytes)
  BY <1>8, <1>9, <1>10, <1>11 DEF Between
<1>13. QED
  BY <1>2, <1>3, <1>6, <1>12, HeldBetween

LEMMA HeldIdleStep ==
    ASSUME ControlInv, IdleInv, HeldInv, MemInit \/ CallerAlloc \/ StateInit \/ Collect
    PROVE  HeldInv'
<1>1. ~Running /\ plan' = plan /\ ~Running'
  BY DEF MemInit, CallerAlloc, StateInit, Collect, Running
<1>2. CASE MemInit
  <2>1. Between(m', {})
    BY DEF Between, BytesBelow, HoldsIn, PlacedSpares, Spares
  <2>2. QED
    BY <1>1, <1>2, <2>1, HeldBetween DEF MemInit
<1>3. CASE CallerAlloc
  BY <1>3, HeldCallerAlloc
<1>4. CASE StateInit \/ Collect
  <2>1. PICK bytes : bytes = held /\ held' = bytes /\ m' = m /\ Between(m, bytes)
    BY <1>1, <1>4 DEF StateInit, Collect, HeldInv
  <2>2. QED
    BY <1>1, <2>1, HeldBetween
<1>5. QED
  BY <1>2, <1>3, <1>4

\* Nothing of the caller's lies among the inputs that a run reads in place: they
\* leave no room between them.
LEMMA InPlaceIsFull ==
    ASSUME Loaded(plan), NEW mem, Idle(mem), InPlace(mem), NEW bytes, Between(mem, bytes)
    PROVE  BytesBelow(bytes, Low(mem))
<1>1. /\ Low(mem) \in Nat /\ mem.used["fast"] = Low(mem) + InputBytes(Inputs)
      /\ \A t \in Inputs : InFast(mem.ptr[t], Span(t), Low(mem), mem.used["fast"])
  BY InPlaceNumbers
<1>2. IsMemory(mem) /\ Inputs \subseteq Tensor /\ IsFiniteSet(Inputs)
  BY InputNumbers DEF Idle, Arenas
<1>3. PICK fast \in Nat, used \in Nat, low \in Nat, first \in Nat :
          /\ fast = Bases["fast"] /\ fast > 0 /\ used = mem.used["fast"] /\ low = Low(mem)
          /\ first = FirstOf("fast") /\ first <= low
  <2>1. /\ Bases["fast"] \in Nat /\ Bases["fast"] > 0 /\ mem.used["fast"] \in Nat /\ FirstOf("fast") \in Nat
        /\ WeightRoom \in Nat /\ FirstOf("fast") + WeightRoom <= Low(mem)
    BY <1>2, Numbers, MemoryNumbers, InPlaceNumbers
  <2>2. QED
    BY <1>1, <2>1
<1>4. PICK f, at : f = [t \in Inputs |-> Span(t)] /\ at = [t \in Inputs |-> mem.ptr[t] - fast]
  OBVIOUS
<1>5. ASSUME NEW t \in Inputs
      PROVE  /\ f[t] \in Nat /\ at[t] \in Nat /\ low <= at[t] /\ at[t] + f[t] <= used
             /\ mem.ptr[t] = fast + at[t] /\ f[t] = Span(t)
  <2>1. mem.ptr[t] \in Nat /\ Span(t) \in Nat
    BY <1>2, MemoryNumbers, Numbers
  <2>2. fast + low <= mem.ptr[t] /\ mem.ptr[t] + Span(t) <= fast + used
    BY <1>1, <1>3 DEF InFast
  <2>3. QED
    BY <1>3, <1>4, <2>1, <2>2
<1>6. \A t, u \in Inputs : t # u => at[t] + f[t] <= at[u] \/ at[u] + f[u] <= at[t]
  BY <1>3, <1>4 DEF InPlace
<1>7. SumFunctionOnSet(f, Inputs) = used - low
  <2>1. SumFunctionOnSet(f, Inputs) = InputBytes(Inputs)
    BY <1>4 DEF InputBytes
  <2>2. InputBytes(Inputs) \in Nat
    BY InputNumbers
  <2>3. QED
    BY <1>1, <1>3, <2>1, <2>2
<1>8. ASSUME NEW x \in bytes PROVE x \in Nat /\ fast <= x /\ x < fast + low
  <2>1. x \in Nat /\ fast <= x /\ x < fast + used
    BY <1>3 DEF Between, BytesBelow
  <2>2. SUFFICES ASSUME fast + low <= x PROVE FALSE
    BY <1>3, <2>1
  <2>3. PICK e \in Nat : e = x - fast /\ e \in low .. used - 1
    BY <1>3, <2>1, <2>2
  <2>4. PICK t \in Inputs : at[t] <= e /\ e < at[t] + f[t]
    <3>1. \A t \in Inputs : f[t] \in Nat /\ at[t] \in Nat
      BY <1>5
    <3>2. \A t \in Inputs : low <= at[t] /\ at[t] + f[t] <= used
      BY <1>5
    <3>3. QED
      BY <1>2, <1>6, <1>7, <2>3, <3>1, <3>2, SumCovers
  <2>5. InFast(mem.ptr[t], Span(t), first, used)
    <3>1. fast + first <= mem.ptr[t] /\ mem.ptr[t] + Span(t) <= fast + used
      BY <1>3, <1>5
    <3>2. QED
      BY <1>3, <3>1 DEF InFast
  <2>6. Spares(bytes, mem.ptr[t], Span(t))
    BY <1>3, <2>5 DEF Between, PlacedSpares, InPlace
  <2>7. x < mem.ptr[t] \/ mem.ptr[t] + Span(t) <= x
    BY <2>6 DEF Spares
  <2>8. QED
    BY <1>5, <2>1, <2>3, <2>4, <2>7
<1>9. QED
  BY <1>3, <1>8 DEF BytesBelow

\* A run begins above what the caller keeps: the room that a run in place takes
\* for its weights is no longer the caller's.
LEMMA HeldRunBegin ==
    ASSUME ControlInv, IdleInv, HeldInv, NEW has_state \in BOOLEAN, RunBegin(has_state)
    PROVE  HeldInv'
<1>1. Loaded(plan) /\ ~Running /\ Idle(m) /\ Between(m, held)
  BY DEF ControlInv, Counters, RunBegin, IdleInv, HeldInv, Running
<1>2. PICK mem, other, r, fl, before, bytes :
          /\ mem = m /\ other = m' /\ r = run' /\ fl = FastFloor(plan, mem, Bases["fast"])
          /\ before = held /\ bytes = held'
  OBVIOUS
<1>3. /\ plan' = plan
      /\ r.floor = fl.floor /\ r.gap = fl.gap /\ r.in_fast = fl.in_fast /\ r.reserved = mem.reserved
      /\ r.capacity = mem.size["fast"]
  BY <1>2 DEF RunBegin
<1>4. IsMemory(mem) /\ mem.used["fast"] \in Nat
  BY <1>1, <1>2, MemoryNumbers DEF Idle, Arenas
<1>5. /\ InPlace(mem) => fl.in_fast = TRUE /\ fl.gap = WeightRoom /\ fl.floor = Low(mem) - WeightRoom
      /\ ~InPlace(mem) => fl.in_fast = FALSE /\ fl.gap = 0 /\ fl.floor = mem.used["fast"]
  <2>1. /\ InPlace(mem) => fl = [in_fast |-> TRUE, gap |-> WeightRoom, floor |-> Low(mem) - WeightRoom]
        /\ ~InPlace(mem) => fl = [in_fast |-> FALSE, gap |-> 0, floor |-> mem.used["fast"]]
    BY <1>2, FloorFields, Zenon
  <2>2. ASSUME NEW gap, NEW floor, fl = [in_fast |-> TRUE, gap |-> gap, floor |-> floor]
        PROVE  fl.in_fast = TRUE /\ fl.gap = gap /\ fl.floor = floor
    BY <2>2
  <2>3. ASSUME NEW gap, NEW floor, fl = [in_fast |-> FALSE, gap |-> gap, floor |-> floor]
        PROVE  fl.in_fast = FALSE /\ fl.gap = gap /\ fl.floor = floor
    BY <2>3
  <2>4. QED
    BY <2>1, <2>2, <2>3, Zenon
<1> DEFINE keep == IF fl.in_fast THEN Range(plan.inputs) ELSE {}
<1>6. PICK starting : starting = Starting(mem, fl.floor, keep)
  OBVIOUS
<1>7. \/ pc' = "returned" /\ other = mem /\ bytes = before
      \/ /\ bytes = before \ (Bases["fast"] + fl.floor .. Bases["fast"] + fl.floor + fl.gap - 1)
         /\ \/ /\ pc' = "returned" /\ plan.state # <<>>
               /\ other = Dropped(starting, fl.floor, Bases["fast"] + fl.floor, mem.reserved)
            \/ pc' = "state_in" /\ other = starting
  <2>1. starting.size = mem.size
    BY <1>4, <1>6 DEF IsMemory, Starting
  <2>2. QED
    BY <1>2, <1>6, <2>1 DEF RunBegin, Starting, Dropped
<1> HIDE DEF keep
<1>8. ASSUME pc' = "returned", Between(other, bytes) PROVE HeldInv'
  <2>1. ~Running'
    BY <1>8 DEF Running
  <2>2. QED
    BY <1>2, <1>3, <1>8, <2>1, HeldBetween
<1>9. ASSUME pc' = "state_in", During(r, other, bytes) PROVE HeldInv'
  <2>1. During(r, other, bytes)'
    BY <1>3, <1>9, SparesStays
  <2>2. Running' /\ ~InStage'
    BY <1>9 DEF Running, InStage
  <2>3. QED
    BY <1>2, <2>1, <2>2 DEF HeldInv
<1>10. CASE pc' = "returned" /\ other = mem /\ bytes = before
  BY <1>1, <1>2, <1>8, <1>10
<1>11. CASE InPlace(mem) /\ ~(pc' = "returned" /\ other = mem /\ bytes = before)
  <2>1. PICK fast \in Nat, low \in Nat, room \in Nat, floor \in Nat :
            /\ fast = Bases["fast"] /\ low = Low(mem) /\ room = WeightRoom /\ floor = low - room
            /\ floor = fl.floor /\ room = fl.gap
    <3>1. /\ Bases["fast"] \in Nat /\ FirstOf("fast") \in Nat /\ Low(mem) \in Nat /\ WeightRoom \in Nat
          /\ FirstOf("fast") + WeightRoom <= Low(mem)
      BY <1>1, <1>2, <1>11, InPlaceNumbers, Numbers
    <3>2. Low(mem) - WeightRoom \in Nat
      BY <3>1
    <3>3. QED
      BY <1>5, <1>11, <3>1, <3>2
  <2>2. plan.state = <<>>
    BY <1>11 DEF InPlace, PlanIoInFast
  <2>3. pc' = "state_in" /\ other = starting /\ bytes = before \ (fast + floor .. fast + floor + room - 1)
    BY <1>7, <1>11, <2>1, <2>2
  <2>4. Begins(mem, floor, keep, other)
    BY <1>4, <1>6, <2>1, <2>3, BeginFields
  <2>5. BytesBelow(before, low)
    BY <1>1, <1>2, <1>11, <2>1, InPlaceIsFull
  <2>6. BytesBelow(bytes, r.floor)
    <3>1. ASSUME NEW x \in bytes PROVE x \in Nat /\ fast <= x /\ x < fast + floor
      <4>1. x \in Nat /\ fast <= x /\ x < fast + low
        BY <2>1, <2>3, <2>5 DEF BytesBelow
      <4>2. ~(fast + floor <= x /\ x <= fast + floor + room - 1)
        BY <2>1, <2>3, <4>1
      <4>3. QED
        BY <2>1, <4>1, <4>2
    <3>2. QED
      BY <1>3, <2>1, <3>1 DEF BytesBelow
  <2>7. HoldsIn(bytes, other)
    BY <1>1, <1>2, <2>3, <2>4 DEF Between, HoldsIn, Begins
  <2>8. KeptSpares(r, other, bytes)
    BY <1>3, <1>5, <1>11 DEF KeptSpares, Kept
  <2>9. QED
    BY <1>9, <2>3, <2>6, <2>7, <2>8 DEF During
<1>12. CASE ~InPlace(mem) /\ ~(pc' = "returned" /\ other = mem /\ bytes = before)
  <2>1. fl.floor = mem.used["fast"] /\ r.floor = mem.used["fast"] /\ r.in_fast = FALSE /\ bytes \subseteq before
    BY <1>3, <1>5, <1>7, <1>12
  <2>2. Begins(mem, fl.floor, keep, starting)
    BY <1>4, <1>6, <2>1, BeginFields
  <2>3. BytesBelow(bytes, mem.used["fast"]) /\ HoldsIn(bytes, starting)
    BY <1>1, <1>2, <2>1, <2>2 DEF Between, BytesBelow, HoldsIn, Begins
  <2>4. CASE pc' = "state_in" /\ other = starting
    <3>1. KeptSpares(r, other, bytes)
      <4>1. SUFFICES ASSUME NEW t \in Tensor, Kept(r, other.ptr[t], t)
                     PROVE  Spares(bytes, other.ptr[t], Span(t))
        BY DEF KeptSpares
      <4>2. PlanIoInFast(plan) /\ t \in Inputs /\ InFast(other.ptr[t], Span(t), FirstOf("fast"), mem.used["fast"])
        BY <2>1, <4>1 DEF Kept
      <4>3. other.ptr[t] = mem.ptr[t]
        <5>1. Bases["fast"] \in Nat \ {0} /\ FirstOf("fast") \in Nat
          BY <1>1, Numbers
        <5>2. other.ptr[t] # NULL
          BY <4>2, <5>1 DEF InFast, NULL
        <5>3. QED
          BY <2>2, <2>4, <5>2 DEF Begins
      <4>4. QED
        BY <1>1, <1>2, <2>1, <4>2, <4>3 DEF Between, PlacedSpares, Spares
    <3>2. During(r, other, bytes)
      BY <2>1, <2>3, <2>4, <3>1 DEF During
    <3>3. QED
      BY <1>9, <2>4, <3>2
  <2>5. CASE /\ pc' = "returned" /\ plan.state # <<>>
             /\ other = Dropped(starting, fl.floor, Bases["fast"] + fl.floor, mem.reserved)
    <3>1. IsMemory(starting)
      BY <2>2 DEF Begins
    <3>2. other.cells = starting.cells /\ other.used["fast"] = mem.used["fast"]
      <4>1. PICK ptr, floor, low : /\ floor = fl.floor /\ low = mem.reserved
                                   /\ other = [starting EXCEPT !.ptr = ptr, !.used["fast"] = floor, !.reserved = low]
        BY <2>5 DEF Dropped
      <4>2. other = [ptr |-> ptr, cells |-> starting.cells, size |-> starting.size,
                     used |-> [starting.used EXCEPT !["fast"] = floor], reserved |-> low]
        BY <3>1, <4>1 DEF IsMemory
      <4>3. other.cells = starting.cells /\ other.used["fast"] = floor
        BY <3>1, <4>2 DEF IsMemory, Pool
      <4>4. QED
        BY <2>1, <4>1, <4>3
    <3>3. Between(other, bytes)
      BY <2>3, <2>5, <3>2 DEF Between, HoldsIn, PlacedSpares, PlanIoInFast
    <3>4. QED
      BY <1>8, <2>5, <3>3
  <2>6. QED
    BY <1>7, <1>12, <2>4, <2>5
<1>13. QED
  BY <1>10, <1>11, <1>12

-----------------------------------------------------------------------------
(* The invariant holds *)

LEMMA HeldInit == Init => HeldInv
<1> SUFFICES ASSUME Init PROVE HeldInv
  OBVIOUS
<1>1. held = {} /\ ~Running /\ ~InStage
  BY DEF Init, Running, InStage
<1>2. Between(m, {})
  BY DEF Between, BytesBelow, HoldsIn, PlacedSpares, Spares
<1>3. QED
  BY <1>1, <1>2 DEF HeldInv

LEMMA HeldStays ==
    ASSUME HeldInv, UNCHANGED vars
    PROVE  HeldInv'
<1>1. UNCHANGED <<plan, m, pc, s, run, stage_run, held>>
  BY DEF vars
<1>2. PICK r, mem, saved, ins, bytes :
          r = run /\ mem = m /\ saved = stage_run.saved /\ ins = Stage.ins /\ bytes = held
  OBVIOUS
<1>3. /\ Running => During(r, mem, bytes)'
      /\ InStage => SavedSpares(r, saved, ins, bytes)'
      /\ ~Running => Between(mem, bytes)'
  BY <1>1, <1>2, SparesStays DEF HeldInv
<1>4. Running' = Running /\ InStage' = InStage /\ Stage' = Stage
  BY <1>1 DEF Running, InStage, Stage
<1>5. QED
  BY <1>1, <1>2, <1>3, <1>4 DEF HeldInv

LEMMA HeldNext ==
    ASSUME HoldRuns \in 0 .. 1, ControlInv, MemoryInv, HeldInv, [Next]_vars
    PROVE  HeldInv'
<1>1. RunInv /\ IdleInv /\ MemoryInv'
  BY MemoryNext DEF MemoryInv
<1>2. CASE UNCHANGED vars
  BY <1>2, HeldStays
<1>3. CASE Step
  BY <1>1, <1>3, HeldStep
<1>4. CASE MemInit \/ CallerAlloc \/ StateInit \/ Collect
  BY <1>1, <1>4, HeldIdleStep
<1>5. ASSUME NEW t \in Range(plan.inputs), NEW value \in InputValue, InputWrite(t, value) PROVE HeldInv'
  BY <1>1, <1>5, HeldInputWrite
<1>6. ASSUME NEW has_state \in BOOLEAN, RunBegin(has_state) PROVE HeldInv'
  BY <1>1, <1>6, HeldRunBegin
<1>7. QED
  BY <1>2, <1>3, <1>4, <1>5, <1>6 DEF Next, Caller

-----------------------------------------------------------------------------
(* Theorems *)

\* What the caller keeps in the fast arena is as it left it after every step of
\* every run: fast_floor starts above it, the inputs that tigris_run_with_state
\* reads in place leave no room for it between them, and the loads, the weights,
\* the outputs, compact_pool and restore_fast_arena stay above the floor or in
\* slow memory, on the paths that fail too.
THEOREM CallersBytesStay == ASSUME HoldRuns \in 0 .. 1 PROVE Spec => []CallerBytesKept
<1>1. Spec => Init /\ [][Next]_vars
  BY DEF Spec
<1>2. Init => ControlInv /\ MemoryInv /\ HeldInv
  BY ControlInit, MemoryInit, HeldInit
<1>3. (ControlInv /\ MemoryInv /\ HeldInv) /\ [Next]_vars => (ControlInv /\ MemoryInv /\ HeldInv)'
  <2>1. ASSUME ControlInv, MemoryInv, HeldInv, [Next]_vars PROVE ControlInv' /\ MemoryInv' /\ HeldInv'
    BY <2>1, ControlNext, MemoryNext, HeldNext
  <2>2. QED
    BY <2>1
<1>4. ControlInv /\ MemoryInv /\ HeldInv => CallerBytesKept
  BY HeldImpliesKept
<1>5. QED
  BY <1>1, <1>2, <1>3, <1>4, PTL

=============================================================================
