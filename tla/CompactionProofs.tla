------------------------- MODULE CompactionProofs -------------------------
(***************************************************************************)
(* Compaction is correct for every pool, every set of tensors and every    *)
(* starting pointer table.                                                 *)
(*                                                                         *)
(* The argument: the write address stays at or below the cursor; what lies *)
(* behind the cursor has been moved below the write address with its bytes *)
(* and in its order; what lies ahead of it is still where it was, with its *)
(* bytes.  A pass then writes only to bytes no live tensor holds, or to    *)
(* the bytes of the very allocation it moves.                              *)
(***************************************************************************)
EXTENDS Compaction, DataFacts

Need(t) == AlignUp(Size[t])

\* The allocations the loop has been past, and those it has not.
Behind(t) == InPool(ptr0[t]) /\ ptr0[t] + Need(t) <= c.cursor
Ahead(t) == InPool(ptr0[t]) /\ c.cursor <= ptr0[t]

\* The write address, the cursor and the end of the pool, in that order.
CursorInv ==
    /\ Base + c.wp <= c.cursor
    /\ c.cursor <= End

\* The loop is past an allocation or before it, never inside it.
SplitInv == \A t \in Tensor : InPool(ptr0[t]) => Behind(t) \/ Ahead(t)

BehindInv ==
    \A t \in Tensor : Behind(t) =>
        /\ Base + First <= c.ptr[t] /\ c.ptr[t] + Need(t) <= Base + c.wp
        /\ \A k \in 0 .. (Need(t) - 1) : c.cells[c.ptr[t] + k] = ptr0[t] + k

AheadInv ==
    /\ \A t \in Tensor : Ahead(t) => c.ptr[t] = ptr0[t]
    /\ \A a \in Addr : c.cursor <= a => c.cells[a] = a

\* Two allocations keep their order, and the room between them shrinks at
\* most to nothing.
OrderInv ==
    \A t, u \in Tensor : InPool(ptr0[t]) /\ InPool(ptr0[u]) =>
        /\ ptr0[t] = ptr0[u] => c.ptr[t] = c.ptr[u]
        /\ ptr0[t] + Need(t) <= ptr0[u] => c.ptr[t] + Need(t) <= c.ptr[u]

\* The bytes below the write address all belong to allocations behind it.
FilledInv ==
    \A a \in Addr : Base + First <= a /\ a < Base + c.wp =>
        \E t \in Tensor : Behind(t) /\ c.ptr[t] <= a /\ a < c.ptr[t] + Need(t)

DoneInv == pc = "done" => \A t \in Tensor : ~Ahead(t)

CompactionInv ==
    /\ TypeOK
    /\ Disjoint(ptr0)
    /\ CursorInv
    /\ SplitInv
    /\ BehindInv
    /\ AheadInv
    /\ OutsideUntouched
    /\ OrderInv
    /\ FilledInv
    /\ DoneInv

-----------------------------------------------------------------------------

\* Rounding up to the alignment gives a natural number no smaller than the size.
LEMMA AlignUpBounds ==
    ASSUME NEW v \in Nat
    PROVE  AlignUp(v) \in Nat /\ v <= AlignUp(v)
<1> DEFINE w == v + (ALIGN - 1)
<1>1. ALIGN \in Nat \ {0} /\ w \in Nat
  BY AlignAssumption
<1>2. w % ALIGN \in 0 .. (ALIGN - 1)
  BY <1>1
<1>3. QED
  BY <1>1, <1>2 DEF AlignUp

\* Every tensor needs at least one byte, and at least its own bytes.
LEMMA NeedBounds ==
    ASSUME NEW t \in Tensor
    PROVE  Need(t) \in Nat /\ 0 < Need(t) /\ Size[t] <= Need(t) /\ Size[t] \in Nat
<1>1. Size[t] \in Nat \ {0}
  BY SizeAssumption
<1>2. QED
  BY <1>1, AlignUpBounds DEF Need

\* The bounds of the pool as numbers.
LEMMA ConstantBounds ==
    /\ Base \in Nat \ {0} /\ First \in Nat /\ Capacity \in Nat /\ First <= Capacity
    /\ Addr \subseteq Nat /\ NULL \notin Addr /\ NULL = 0
    /\ End \in Nat /\ End = Base + Capacity
    /\ \A a \in Nat : Base + First <= a /\ a < End => a \in Addr
  BY PoolAssumption DEF End, NULL

\* Every pointer is a number, NULL included.
LEMMA PointerIsNat ==
    ASSUME NEW p \in Addr \cup {NULL} PROVE p \in Nat
  BY PoolAssumption DEF NULL

\* compact_pool starts with everything ahead of the cursor and nothing moved.
LEMMA InitInv == Init => CompactionInv
<1> SUFFICES ASSUME Init PROVE CompactionInv
  OBVIOUS
<1> USE ConstantBounds
<1>1. /\ c = [ptr |-> ptr0, cells |-> [a \in Addr |-> a], wp |-> First, cursor |-> Base + First]
      /\ ptr0 \in [Tensor -> Addr \cup {NULL}] /\ Disjoint(ptr0) /\ pc = "scan"
  BY DEF Init, StartCompaction
<1>2. TypeOK
  BY <1>1 DEF TypeOK
<1>3. CursorInv /\ SplitInv /\ AheadInv /\ OutsideUntouched /\ DoneInv
  BY <1>1, NeedBounds DEF CursorInv, SplitInv, AheadInv, OutsideUntouched, DoneInv, Behind, Ahead, InPool
<1>4. BehindInv /\ FilledInv
  <2>1. ASSUME NEW t \in Tensor PROVE ~Behind(t)
    <3>1. ptr0[t] \in Nat
      BY <1>1, PointerIsNat
    <3> Need(t) \in Nat /\ 0 < Need(t) /\ c.cursor = Base + First
      BY <1>1, NeedBounds
    <3>2. QED
      BY <3>1 DEF Behind, InPool
  <2>2. QED
    BY <1>1, <2>1 DEF BehindInv, FilledInv
<1>5. OrderInv
  BY <1>1 DEF OrderInv
<1>6. QED
  BY <1>1, <1>2, <1>3, <1>4, <1>5 DEF CompactionInv

-----------------------------------------------------------------------------
(* One pass, split by what it disturbs *)

\* What a pass does, with the addresses and sizes it uses named and bounded.
PassFacts(t) ==
    /\ Ahead(t) /\ c.ptr[t] = ptr0[t]
    /\ ptr0[t] + Need(t) <= End
    /\ \A u \in Tensor : Ahead(u) =>
           \/ ptr0[u] = ptr0[t] /\ Size[u] = Size[t]
           \/ ptr0[t] + Need(t) <= ptr0[u]
    /\ c'.wp = c.wp + Need(t)
    /\ c'.cursor = ptr0[t] + Need(t)
    /\ c'.ptr = [u \in Tensor |-> IF c.ptr[u] = ptr0[t] THEN Base + c.wp ELSE c.ptr[u]]
    /\ c'.cells = [a \in Addr |->
           IF Base + c.wp <= a /\ a < Base + c.wp + Need(t)
           THEN c.cells[a - (Base + c.wp) + ptr0[t]] ELSE c.cells[a]]
    /\ c' = [ptr |-> c'.ptr, cells |-> c'.cells, wp |-> c'.wp, cursor |-> c'.cursor]
    /\ ptr0' = ptr0 /\ pc' = pc /\ pc = "scan"

\* The types in the form the arithmetic below uses.
LEMMA TypeFacts ==
    ASSUME TypeOK
    PROVE  /\ c.wp \in Nat /\ First <= c.wp /\ c.wp <= Capacity /\ c.cursor \in Nat
           /\ \A t \in Tensor : c.ptr[t] \in Nat /\ ptr0[t] \in Nat
           /\ DOMAIN c.ptr = Tensor /\ DOMAIN c.cells = Addr
<1> USE ConstantBounds
<1>1. /\ c.ptr \in [Tensor -> Addr \cup {NULL}] /\ ptr0 \in [Tensor -> Addr \cup {NULL}]
      /\ c.cells \in [Addr -> Addr] /\ c.wp \in First .. Capacity /\ c.cursor \in Nat
  BY DEF TypeOK
<1>2. ASSUME NEW t \in Tensor PROVE c.ptr[t] \in Nat /\ ptr0[t] \in Nat
  BY <1>1, PointerIsNat
<1>3. QED
  BY <1>1, <1>2

\* The allocation a pass moves is the first one ahead of the cursor.
LEMMA PassChoice ==
    ASSUME CompactionInv, NEW t \in Tensor, pc = "scan", UNCHANGED <<ptr0, pc>>,
           t \in LiveFrom(c, End), IsLowest(c.ptr, LiveFrom(c, End), t),
           c' = MoveDown(c, Size, Base, t)
    PROVE  PassFacts(t)
<1> USE ConstantBounds
<1>1. TypeOK /\ Disjoint(ptr0) /\ CursorInv /\ SplitInv /\ BehindInv /\ AheadInv /\ OutsideUntouched
  BY DEF CompactionInv
<1>2. /\ c.wp \in Nat /\ First <= c.wp /\ c.cursor \in Nat /\ Base + c.wp <= c.cursor
      /\ \A u \in Tensor : c.ptr[u] \in Nat /\ ptr0[u] \in Nat /\ Need(u) \in Nat /\ 0 < Need(u)
  BY <1>1, TypeFacts, NeedBounds DEF CursorInv
<1>3. c.cursor <= c.ptr[t] /\ c.ptr[t] < End
  BY DEF LiveFrom
<1>4. InPool(ptr0[t])
  <2>1. SUFFICES ASSUME ~InPool(ptr0[t]) PROVE FALSE
    OBVIOUS
  <2>2. c.ptr[t] = ptr0[t]
    BY <1>1, <2>1 DEF OutsideUntouched
  <2>3. QED
    BY <1>2, <1>3, <2>1, <2>2 DEF InPool
<1>5. ~Behind(t)
  <2>1. SUFFICES ASSUME Behind(t) PROVE FALSE
    OBVIOUS
  <2>2. c.ptr[t] + Need(t) <= Base + c.wp
    BY <1>1, <2>1 DEF BehindInv
  <2>3. QED
    BY <1>2, <1>3, <2>2
<1>6. Ahead(t) /\ c.ptr[t] = ptr0[t]
  BY <1>1, <1>4, <1>5 DEF SplitInv, AheadInv
<1>7. ptr0[t] + Need(t) <= End
  BY <1>1, <1>4 DEF Disjoint, Need
<1>8. ASSUME NEW u \in Tensor, Ahead(u)
      PROVE  \/ ptr0[u] = ptr0[t] /\ Size[u] = Size[t]
             \/ ptr0[t] + Need(t) <= ptr0[u]
  <2>1. c.ptr[u] = ptr0[u] /\ InPool(ptr0[u]) /\ c.cursor <= ptr0[u]
    BY <1>1, <1>8 DEF AheadInv, Ahead
  <2>2. ptr0[t] <= ptr0[u]
    BY <1>2, <1>6, <2>1 DEF IsLowest, LiveFrom, InPool
  <2>3. \/ ptr0[t] = ptr0[u] /\ Size[t] = Size[u]
        \/ ptr0[t] + Need(t) <= ptr0[u]
        \/ ptr0[u] + Need(u) <= ptr0[t]
    BY <1>1, <1>4, <2>1 DEF Disjoint, Need
  <2>4. QED
    BY <1>2, <2>2, <2>3
<1>9. QED
  <2>1. DOMAIN c.ptr = Tensor /\ DOMAIN c.cells = Addr
    BY <1>1, TypeFacts
  <2>2. c' = [ptr |-> [u \in Tensor |-> IF c.ptr[u] = ptr0[t] THEN Base + c.wp ELSE c.ptr[u]],
              cells |-> [a \in Addr |->
                  IF Base + c.wp <= a /\ a < Base + c.wp + Need(t)
                  THEN c.cells[a - (Base + c.wp) + ptr0[t]] ELSE c.cells[a]],
              wp |-> c.wp + Need(t), cursor |-> ptr0[t] + Need(t)]
    BY <1>6, <2>1 DEF MoveDown, Copy, Need
  <2>3. QED
    BY <1>6, <1>7, <1>8, <2>2 DEF PassFacts

\* After a pass an allocation is behind the cursor exactly when it was before
\* or it is the one that moved; pointers change accordingly.
LEMMA PassSplit ==
    ASSUME CompactionInv, NEW t \in Tensor, PassFacts(t), NEW u \in Tensor, InPool(ptr0[u])
    PROVE  \/ /\ Behind(u) /\ Behind(u)'
              /\ c'.ptr[u] = c.ptr[u]
              /\ c.ptr[u] + Need(u) <= Base + c.wp
              /\ ptr0[u] + Need(u) <= ptr0[t]
           \/ /\ Behind(u)' /\ c'.ptr[u] = Base + c.wp
              /\ ptr0[u] = ptr0[t] /\ Size[u] = Size[t] /\ Need(u) = Need(t)
           \/ /\ Ahead(u) /\ Ahead(u)' /\ ~Behind(u)'
              /\ c'.ptr[u] = ptr0[u] /\ c.ptr[u] = ptr0[u]
              /\ ptr0[t] + Need(t) <= ptr0[u]
<1> USE ConstantBounds
<1>1. TypeOK /\ Disjoint(ptr0) /\ CursorInv /\ SplitInv /\ BehindInv /\ AheadInv
  BY DEF CompactionInv
<1>2. /\ c.wp \in Nat /\ First <= c.wp /\ c.cursor \in Nat /\ Base + c.wp <= c.cursor
      /\ c.ptr[u] \in Nat /\ ptr0[u] \in Nat /\ Need(u) \in Nat /\ 0 < Need(u)
      /\ c.ptr[t] \in Nat /\ ptr0[t] \in Nat /\ Need(t) \in Nat /\ 0 < Need(t)
  BY <1>1, TypeFacts, NeedBounds DEF CursorInv
<1>3. /\ c.cursor <= ptr0[t] /\ c'.cursor = ptr0[t] + Need(t) /\ ptr0' = ptr0
      /\ c'.ptr[u] = IF c.ptr[u] = ptr0[t] THEN Base + c.wp ELSE c.ptr[u]
  BY DEF PassFacts, Ahead
<1>4. (Need(u))' = Need(u)
  BY DEF Need, AlignUp
<1>5. CASE Behind(u)
  <2>1. c.ptr[u] + Need(u) <= Base + c.wp
    BY <1>1, <1>5 DEF BehindInv
  <2>2. c'.ptr[u] = c.ptr[u]
    BY <1>2, <1>3, <2>1
  <2>3. ptr0[u] + Need(u) <= c.cursor
    BY <1>5 DEF Behind
  <2>4. Behind(u)'
    BY <1>2, <1>3, <1>4, <2>3 DEF Behind, InPool, End
  <2>5. QED
    BY <1>2, <1>3, <1>5, <2>1, <2>2, <2>3, <2>4
<1>6. CASE Ahead(u)
  <2>1. c.ptr[u] = ptr0[u]
    BY <1>1, <1>6 DEF AheadInv
  <2>2. CASE ptr0[u] = ptr0[t] /\ Size[u] = Size[t]
    <3>1. Need(u) = Need(t)
      BY <2>2 DEF Need
    <3>2. Behind(u)'
      BY <1>2, <1>3, <1>4, <2>2, <3>1 DEF Behind, InPool, End
    <3>3. QED
      BY <1>3, <2>1, <2>2, <3>1, <3>2
  <2>3. CASE ptr0[t] + Need(t) <= ptr0[u]
    <3>1. c'.ptr[u] = ptr0[u]
      BY <1>2, <1>3, <2>1, <2>3
    <3>2. Ahead(u)' /\ ~Behind(u)'
      BY <1>2, <1>3, <1>4, <2>3 DEF Ahead, Behind, InPool, End
    <3>3. QED
      BY <1>6, <2>1, <2>3, <3>1, <3>2
  <2>4. QED
    BY <1>6, <2>2, <2>3 DEF PassFacts
<1>7. QED
  BY <1>1, <1>5, <1>6 DEF SplitInv

\* A pass writes within the pool: its target lies below its source.
LEMMA PassType ==
    ASSUME CompactionInv, NEW t \in Tensor, PassFacts(t)
    PROVE  TypeOK' /\ CursorInv' /\ Disjoint(ptr0)'
<1> USE ConstantBounds
<1>1. TypeOK /\ Disjoint(ptr0) /\ CursorInv
  BY DEF CompactionInv
<1>2. /\ c.wp \in Nat /\ First <= c.wp /\ c.cursor \in Nat /\ Base + c.wp <= c.cursor
      /\ ptr0[t] \in Nat /\ Need(t) \in Nat /\ 0 < Need(t)
  BY <1>1, TypeFacts, NeedBounds DEF CursorInv
<1>3. c.cursor <= ptr0[t] /\ ptr0[t] + Need(t) <= End /\ InPool(ptr0[t])
  BY DEF PassFacts, Ahead
<1>4. Base + c.wp + Need(t) <= End /\ Base + c.wp \in Addr
  BY <1>2, <1>3
<1>5. c'.ptr \in [Tensor -> Addr \cup {NULL}]
  BY <1>1, <1>4 DEF PassFacts, TypeOK
<1>6. c'.cells \in [Addr -> Addr]
  <2>1. ASSUME NEW a \in Addr, Base + c.wp <= a, a < Base + c.wp + Need(t)
        PROVE  a - (Base + c.wp) + ptr0[t] \in Addr
    BY <1>2, <1>3, <2>1 DEF InPool
  <2>2. c.cells \in [Addr -> Addr]
    BY <1>1 DEF TypeOK
  <2>3. QED
    BY <2>1, <2>2 DEF PassFacts
<1>7. c'.wp \in First .. Capacity /\ c'.cursor \in Nat /\ ptr0' = ptr0 /\ pc' = pc
  BY <1>2, <1>4 DEF PassFacts
<1>8. c' = [ptr |-> c'.ptr, cells |-> c'.cells, wp |-> c'.wp, cursor |-> c'.cursor]
  BY DEF PassFacts
<1>9. TypeOK'
  BY <1>1, <1>5, <1>6, <1>7, <1>8 DEF TypeOK
<1>10. CursorInv'
  BY <1>2, <1>3, <1>7 DEF PassFacts, CursorInv, End
<1>11. Disjoint(ptr0)'
  BY <1>1, <1>7 DEF Disjoint, InPool, End, AlignUp
<1>12. QED
  BY <1>9, <1>10, <1>11

\* A pass takes the bytes of the allocation along and touches no other live one:
\* it writes only below the bytes it moves.
LEMMA PassData ==
    ASSUME CompactionInv, NEW t \in Tensor, PassFacts(t)
    PROVE  BehindInv' /\ AheadInv' /\ OutsideUntouched' /\ SplitInv'
<1> USE ConstantBounds
<1>1. TypeOK /\ CursorInv /\ BehindInv /\ AheadInv /\ OutsideUntouched
  BY DEF CompactionInv
<1>2. /\ c.wp \in Nat /\ First <= c.wp /\ c.cursor \in Nat /\ Base + c.wp <= c.cursor
      /\ ptr0[t] \in Nat /\ Need(t) \in Nat /\ 0 < Need(t)
      /\ \A u \in Tensor : c.ptr[u] \in Nat /\ ptr0[u] \in Nat /\ Need(u) \in Nat /\ 0 < Need(u)
  BY <1>1, TypeFacts, NeedBounds DEF CursorInv
<1>3. /\ c.cursor <= ptr0[t] /\ ptr0[t] + Need(t) <= End /\ InPool(ptr0[t])
      /\ c'.wp = c.wp + Need(t) /\ c'.cursor = ptr0[t] + Need(t) /\ ptr0' = ptr0
      /\ \A a \in Addr : c'.cells[a] = IF Base + c.wp <= a /\ a < Base + c.wp + Need(t)
                                       THEN c.cells[a - (Base + c.wp) + ptr0[t]] ELSE c.cells[a]
  BY DEF PassFacts, Ahead
<1>4. \A u \in Tensor : (Need(u))' = Need(u)
  BY DEF Need, AlignUp
<1>5. SplitInv'
  <2>1. ASSUME NEW u \in Tensor, InPool(ptr0[u]) PROVE Behind(u)' \/ Ahead(u)'
    BY <2>1, PassSplit
  <2>2. QED
    BY <1>3, <2>1 DEF SplitInv, InPool, End
<1>6. AheadInv'
  <2>1. ASSUME NEW u \in Tensor, Ahead(u)' PROVE c'.ptr[u] = ptr0[u]
    <3>1. InPool(ptr0[u]) /\ ptr0[t] + Need(t) <= ptr0[u]
      BY <1>3, <2>1 DEF Ahead, InPool, End
    <3>2. ~(ptr0[u] + Need(u) <= ptr0[t]) /\ ptr0[u] # ptr0[t]
      BY <1>2, <3>1
    <3>3. QED
      BY <3>1, <3>2, PassSplit
  <2>2. ASSUME NEW a \in Addr, c'.cursor <= a PROVE c'.cells[a] = a
    <3>1. a \in Nat /\ ~(a < Base + c.wp + Need(t)) /\ c.cursor <= a
      BY <1>2, <1>3, <2>2
    <3>2. QED
      BY <1>1, <1>3, <3>1 DEF AheadInv
  <2>3. QED
    BY <1>3, <2>1, <2>2 DEF AheadInv
<1>7. OutsideUntouched'
  <2>1. ASSUME NEW a \in Addr, ~InPool(a) PROVE c'.cells[a] = a
    <3>1. ~(Base + c.wp <= a /\ a < Base + c.wp + Need(t))
      BY <1>2, <1>3, <2>1 DEF InPool
    <3>2. QED
      BY <1>1, <1>3, <2>1, <3>1 DEF OutsideUntouched
  <2>2. ASSUME NEW u \in Tensor, ~InPool(ptr0[u]) PROVE c'.ptr[u] = ptr0[u]
    <3>1. c.ptr[u] = ptr0[u] /\ c.ptr[u] # ptr0[t]
      BY <1>1, <1>3, <2>2 DEF OutsideUntouched
    <3>2. QED
      BY <3>1 DEF PassFacts
  <2>3. QED
    BY <1>3, <2>1, <2>2 DEF OutsideUntouched, InPool, End
<1>8. BehindInv'
  <2> SUFFICES ASSUME NEW u \in Tensor, Behind(u)'
               PROVE  /\ Base + First <= c'.ptr[u] /\ c'.ptr[u] + Need(u) <= Base + c'.wp
                      /\ \A k \in 0 .. (Need(u) - 1) : c'.cells[c'.ptr[u] + k] = ptr0[u] + k
    BY <1>3, <1>4 DEF BehindInv
  <2>1. InPool(ptr0[u])
    BY <1>3 DEF Behind, InPool, End
  <2>2. CASE /\ Behind(u)
             /\ c'.ptr[u] = c.ptr[u]
             /\ c.ptr[u] + Need(u) <= Base + c.wp
    <3>1. /\ Base + First <= c.ptr[u]
          /\ \A k \in 0 .. (Need(u) - 1) : c.cells[c.ptr[u] + k] = ptr0[u] + k
      BY <1>1, <2>2 DEF BehindInv
    <3>2. ASSUME NEW k \in 0 .. (Need(u) - 1)
          PROVE  c'.cells[c'.ptr[u] + k] = ptr0[u] + k
      <4>1. /\ c.ptr[u] + k \in Nat /\ c.ptr[u] + k < Base + c.wp
            /\ Base + First <= c.ptr[u] + k /\ c.ptr[u] + k < End
        BY <1>2, <1>3, <2>2, <3>1
      <4>2. c.ptr[u] + k \in Addr
        BY <4>1
      <4>3. c'.cells[c.ptr[u] + k] = c.cells[c.ptr[u] + k]
        BY <1>2, <1>3, <4>1, <4>2
      <4>4. QED
        BY <2>2, <3>1, <4>3
    <3>3. QED
      BY <1>2, <1>3, <2>2, <3>1, <3>2
  <2>3. CASE c'.ptr[u] = Base + c.wp /\ ptr0[u] = ptr0[t] /\ Need(u) = Need(t)
    <3>1. ASSUME NEW k \in 0 .. (Need(u) - 1)
          PROVE  c'.cells[c'.ptr[u] + k] = ptr0[u] + k
      <4>1. /\ Base + c.wp + k \in Nat /\ Base + First <= Base + c.wp + k
            /\ Base + c.wp + k < Base + c.wp + Need(t) /\ Base + c.wp + k < End
            /\ Base + c.wp <= Base + c.wp + k
        BY <1>2, <1>3, <2>3
      <4>2. Base + c.wp + k \in Addr
        BY <4>1
      <4>3. c'.cells[Base + c.wp + k] = c.cells[(Base + c.wp + k) - (Base + c.wp) + ptr0[t]]
        BY <1>3, <4>1, <4>2
      <4>4. (Base + c.wp + k) - (Base + c.wp) + ptr0[t] = ptr0[t] + k
        BY <1>2
      <4>5. ptr0[t] + k \in Nat /\ ptr0[t] + k \in Addr /\ c.cursor <= ptr0[t] + k
        BY <1>2, <1>3, <2>3 DEF InPool
      <4>6. c.cells[ptr0[t] + k] = ptr0[t] + k
        BY <1>1, <4>5 DEF AheadInv
      <4>7. QED
        BY <2>3, <4>3, <4>4, <4>6
    <3>2. QED
      BY <1>2, <1>3, <2>3, <3>1
  <2>4. QED
    BY <2>1, <2>2, <2>3, PassSplit
<1>9. QED
  BY <1>5, <1>6, <1>7, <1>8

\* A pass keeps the moved allocations packed, apart and below the write offset.
LEMMA PassOrder ==
    ASSUME CompactionInv, NEW t \in Tensor, PassFacts(t)
    PROVE  OrderInv' /\ FilledInv' /\ DoneInv'
<1> USE ConstantBounds
<1>1. TypeOK /\ CursorInv /\ BehindInv /\ OrderInv /\ FilledInv
  BY DEF CompactionInv
<1>2. /\ c.wp \in Nat /\ First <= c.wp /\ c.cursor \in Nat /\ Base + c.wp <= c.cursor
      /\ \A u \in Tensor : c.ptr[u] \in Nat /\ ptr0[u] \in Nat /\ Need(u) \in Nat /\ 0 < Need(u)
  BY <1>1, TypeFacts, NeedBounds DEF CursorInv
<1>3. /\ c.cursor <= ptr0[t] /\ InPool(ptr0[t]) /\ ptr0' = ptr0
      /\ c'.wp = c.wp + Need(t) /\ pc' = "scan"
  BY DEF PassFacts, Ahead
<1>4. \A u \in Tensor : (Need(u))' = Need(u)
  BY DEF Need, AlignUp
<1>5. OrderInv'
  <2> SUFFICES ASSUME NEW u \in Tensor, NEW v \in Tensor, InPool(ptr0[u]), InPool(ptr0[v])
               PROVE  /\ ptr0[u] = ptr0[v] => c'.ptr[u] = c'.ptr[v]
                      /\ ptr0[u] + Need(u) <= ptr0[v] => c'.ptr[u] + Need(u) <= c'.ptr[v]
    BY <1>3, <1>4 DEF OrderInv, InPool, End
  <2>1. /\ ptr0[u] = ptr0[v] => c.ptr[u] = c.ptr[v]
        /\ ptr0[u] + Need(u) <= ptr0[v] => c.ptr[u] + Need(u) <= c.ptr[v]
    BY <1>1 DEF OrderInv
  <2>2. \/ c'.ptr[u] = c.ptr[u] /\ c.ptr[u] + Need(u) <= Base + c.wp /\ ptr0[u] + Need(u) <= ptr0[t]
        \/ c'.ptr[u] = Base + c.wp /\ ptr0[u] = ptr0[t] /\ Need(u) = Need(t)
        \/ c'.ptr[u] = ptr0[u] /\ c.ptr[u] = ptr0[u] /\ ptr0[t] + Need(t) <= ptr0[u]
    BY PassSplit
  <2>3. \/ c'.ptr[v] = c.ptr[v] /\ c.ptr[v] + Need(v) <= Base + c.wp /\ ptr0[v] + Need(v) <= ptr0[t]
        \/ c'.ptr[v] = Base + c.wp /\ ptr0[v] = ptr0[t] /\ Need(v) = Need(t)
        \/ c'.ptr[v] = ptr0[v] /\ c.ptr[v] = ptr0[v] /\ ptr0[t] + Need(t) <= ptr0[v]
    BY PassSplit
  <2>4. QED
    BY <1>2, <1>3, <2>1, <2>2, <2>3
<1>6. FilledInv'
  <2> SUFFICES ASSUME NEW a \in Addr, Base + First <= a, a < Base + c'.wp
               PROVE  \E u \in Tensor : Behind(u)' /\ c'.ptr[u] <= a /\ a < c'.ptr[u] + Need(u)
    BY <1>3, <1>4 DEF FilledInv
  <2>1. a \in Nat
    OBVIOUS
  <2>2. CASE a < Base + c.wp
    <3>1. PICK u \in Tensor : Behind(u) /\ c.ptr[u] <= a /\ a < c.ptr[u] + Need(u)
      BY <1>1, <2>2 DEF FilledInv
    <3>2. InPool(ptr0[u]) /\ ptr0[u] + Need(u) <= c.cursor
      BY <3>1 DEF Behind
    <3>3. Behind(u)' /\ c'.ptr[u] = c.ptr[u]
      BY <1>2, <1>3, <3>2, PassSplit
    <3>4. QED
      BY <3>1, <3>3
  <2>3. CASE Base + c.wp <= a
    <3>1. Behind(t)' /\ c'.ptr[t] = Base + c.wp
      BY <1>2, <1>3, PassSplit
    <3>2. QED
      BY <1>2, <1>3, <2>1, <2>3, <3>1
  <2>4. QED
    BY <1>2, <2>1, <2>2, <2>3
<1>7. DoneInv'
  BY <1>3 DEF DoneInv
<1>8. QED
  BY <1>5, <1>6, <1>7

\* Leaving the loop changes no memory.
LEMMA FinishInv == CompactionInv /\ Finish => CompactionInv'
<1> SUFFICES ASSUME CompactionInv, Finish PROVE CompactionInv'
  OBVIOUS
<1> USE ConstantBounds
<1>1. /\ c' = c /\ ptr0' = ptr0 /\ pc' = "done"
      /\ \A t \in Tensor : ~(c.cursor <= c.ptr[t] /\ c.ptr[t] < End)
  BY DEF Finish, LiveFrom
<1>2. \A t \in Tensor : (Behind(t)' <=> Behind(t)) /\ (Ahead(t)' <=> Ahead(t)) /\ (Need(t))' = Need(t)
  BY <1>1 DEF Behind, Ahead, InPool, End, Need, AlignUp
<1>3. TypeOK /\ AheadInv
  BY DEF CompactionInv
<1>4. ASSUME NEW t \in Tensor PROVE ~Ahead(t)
  <2>1. SUFFICES ASSUME Ahead(t) PROVE FALSE
    OBVIOUS
  <2>2. c.ptr[t] = ptr0[t] /\ InPool(ptr0[t]) /\ c.cursor <= ptr0[t] /\ ptr0[t] \in Nat /\ c.cursor \in Nat
    BY <1>3, <2>1, TypeFacts DEF AheadInv, Ahead
  <2>3. QED
    BY <1>1, <2>2 DEF InPool
<1>5. DoneInv'
  BY <1>2, <1>4 DEF DoneInv
<1>6. TypeOK' /\ Disjoint(ptr0)' /\ CursorInv' /\ OutsideUntouched'
  BY <1>1 DEF CompactionInv, TypeOK, Disjoint, CursorInv, OutsideUntouched, InPool, End, AlignUp
<1>7. SplitInv' /\ BehindInv' /\ AheadInv' /\ OrderInv' /\ FilledInv'
  BY <1>1, <1>2 DEF CompactionInv, SplitInv, BehindInv, AheadInv, OrderInv, FilledInv, InPool, End
<1>8. QED
  BY <1>5, <1>6, <1>7 DEF CompactionInv

\* The invariant is inductive.
LEMMA NextInv == CompactionInv /\ [Next]_vars => CompactionInv'
<1> SUFFICES ASSUME CompactionInv, [Next]_vars PROVE CompactionInv'
  OBVIOUS
<1>1. CASE Pass
  <2>1. PICK t \in Tensor : /\ t \in LiveFrom(c, End) /\ IsLowest(c.ptr, LiveFrom(c, End), t)
                            /\ c' = MoveDown(c, Size, Base, t)
    BY <1>1 DEF Pass, LiveFrom
  <2>2. PassFacts(t)
    BY <1>1, <2>1, PassChoice DEF Pass
  <2>3. QED
    BY <2>2, PassType, PassData, PassOrder DEF CompactionInv
<1>2. CASE Finish
  BY <1>2, FinishInv
<1>3. CASE UNCHANGED vars
  BY <1>3 DEF vars, CompactionInv, TypeOK, Disjoint, CursorInv, SplitInv, BehindInv, AheadInv,
              OutsideUntouched, OrderInv, FilledInv, DoneInv, Behind, Ahead, InPool, End, Need, AlignUp
<1>4. QED
  BY <1>1, <1>2, <1>3 DEF Next

-----------------------------------------------------------------------------

\* The invariant the other theorems rest on: behind the cursor everything has
\* been moved with its bytes, ahead of it nothing has been touched.
THEOREM CompactionInvariant == Spec => []CompactionInv
<1>1. QED
  BY InitInv, NextInv, PTL DEF Spec

\* The loop of compact_pool never leaves its pool: pointers, write offset and
\* every byte written stay within it.
THEOREM TypeCorrect == Spec => []TypeOK
<1>1. CompactionInv => TypeOK
  BY DEF CompactionInv
<1>2. QED
  BY <1>1, CompactionInvariant, PTL

\* Every live tensor keeps its bytes through every pass of compact_pool.
THEOREM DataIsPreserved == Spec => []BytesPreserved
<1>1. CompactionInv => BytesPreserved
  <2> SUFFICES ASSUME CompactionInv, NEW t \in Tensor, InPool(ptr0[t]), NEW k \in 0 .. (Size[t] - 1)
               PROVE  c.cells[c.ptr[t] + k] = ptr0[t] + k
    BY DEF BytesPreserved
  <2> USE ConstantBounds
  <2>1. TypeOK /\ Disjoint(ptr0) /\ SplitInv /\ BehindInv /\ AheadInv
    BY DEF CompactionInv
  <2>2. k \in 0 .. (Need(t) - 1) /\ Need(t) \in Nat /\ ptr0[t] \in Nat /\ c.cursor \in Nat
    BY <2>1, NeedBounds, TypeFacts
  <2>3. CASE Behind(t)
    BY <2>1, <2>2, <2>3 DEF BehindInv
  <2>4. CASE Ahead(t)
    <3>1. c.ptr[t] = ptr0[t] /\ c.cursor <= ptr0[t] /\ ptr0[t] + Need(t) <= End
      BY <2>1, <2>4 DEF AheadInv, Ahead, Disjoint, Need
    <3>2. ptr0[t] + k \in Nat /\ ptr0[t] + k \in Addr /\ c.cursor <= ptr0[t] + k
      BY <2>2, <3>1 DEF InPool
    <3>3. QED
      BY <2>1, <3>1, <3>2 DEF AheadInv
  <2>5. QED
    BY <2>1, <2>3, <2>4 DEF SplitInv
<1>2. QED
  BY <1>1, CompactionInvariant, PTL

\* compact_pool changes neither the bytes of the caller and of the other pool
\* nor the pointers of tensors outside the pool.
THEOREM OutsideIsUntouched == Spec => []OutsideUntouched
<1>1. CompactionInv => OutsideUntouched
  BY DEF CompactionInv
<1>2. QED
  BY <1>1, CompactionInvariant, PTL

\* A tensor is in the pool now exactly when it was at the start, and then its
\* allocation is whole.
LEMMA StaysInPool ==
    ASSUME CompactionInv, NEW t \in Tensor
    PROVE  /\ InPool(c.ptr[t]) <=> InPool(ptr0[t])
           /\ InPool(c.ptr[t]) => c.ptr[t] + Need(t) <= End
<1> USE ConstantBounds
<1>1. TypeOK /\ Disjoint(ptr0) /\ CursorInv /\ SplitInv /\ BehindInv /\ AheadInv /\ OutsideUntouched
  BY DEF CompactionInv
<1>2. /\ c.wp \in Nat /\ c.cursor \in Nat /\ c.ptr[t] \in Nat /\ ptr0[t] \in Nat
      /\ Need(t) \in Nat /\ 0 < Need(t) /\ Base + c.wp <= c.cursor /\ c.cursor <= End
  BY <1>1, TypeFacts, NeedBounds DEF CursorInv
<1>3. CASE ~InPool(ptr0[t])
  BY <1>1, <1>3 DEF OutsideUntouched
<1>4. CASE Behind(t)
  <2>1. Base + First <= c.ptr[t] /\ c.ptr[t] + Need(t) <= Base + c.wp /\ InPool(ptr0[t])
    BY <1>1, <1>4 DEF BehindInv, Behind
  <2>2. QED
    BY <1>2, <2>1 DEF InPool
<1>5. CASE Ahead(t)
  BY <1>1, <1>5 DEF AheadInv, Ahead, Disjoint, Need
<1>6. QED
  BY <1>1, <1>3, <1>4, <1>5 DEF SplitInv

\* compact_pool never makes two allocations overlap, splits a shared one or
\* merges two.
THEOREM SharingIsPreserved == Spec => []SharingPreserved
<1>1. CompactionInv => SharingPreserved
  <2> SUFFICES ASSUME CompactionInv PROVE SharingPreserved
    OBVIOUS
  <2>1. TypeOK /\ Disjoint(ptr0) /\ OrderInv
    BY DEF CompactionInv
  <2>2. ASSUME NEW t \in Tensor, NEW u \in Tensor, InPool(ptr0[t]), InPool(ptr0[u])
        PROVE  /\ \/ c.ptr[t] = c.ptr[u] /\ Size[t] = Size[u]
                  \/ c.ptr[t] + Need(t) <= c.ptr[u]
                  \/ c.ptr[u] + Need(u) <= c.ptr[t]
               /\ (c.ptr[t] = c.ptr[u]) <=> (ptr0[t] = ptr0[u])
    <3>1. \/ ptr0[t] = ptr0[u] /\ Size[t] = Size[u]
          \/ ptr0[t] + Need(t) <= ptr0[u]
          \/ ptr0[u] + Need(u) <= ptr0[t]
      BY <2>1, <2>2 DEF Disjoint, Need
    <3>2. /\ ptr0[t] = ptr0[u] => c.ptr[t] = c.ptr[u]
          /\ ptr0[t] + Need(t) <= ptr0[u] => c.ptr[t] + Need(t) <= c.ptr[u]
          /\ ptr0[u] + Need(u) <= ptr0[t] => c.ptr[u] + Need(u) <= c.ptr[t]
      BY <2>1, <2>2 DEF OrderInv
    <3>3. /\ c.ptr[t] \in Nat /\ c.ptr[u] \in Nat /\ ptr0[t] \in Nat /\ ptr0[u] \in Nat
          /\ Need(t) \in Nat /\ 0 < Need(t) /\ Need(u) \in Nat /\ 0 < Need(u)
      BY <2>1, TypeFacts, NeedBounds
    <3>4. QED
      BY <3>1, <3>2, <3>3
  <2>3. Disjoint(c.ptr)
    BY <2>2, StaysInPool DEF Disjoint, Need
  <2>4. QED
    BY <2>2, <2>3 DEF SharingPreserved
<1>2. QED
  BY <1>1, CompactionInvariant, PTL

\* When compact_pool returns, the bytes below the returned offset are exactly
\* those of the live tensors.
THEOREM ResultIsPacked == Spec => []Packed
<1>1. CompactionInv => Packed
  <2> SUFFICES ASSUME CompactionInv, pc = "done" PROVE Packed
    BY DEF Packed
  <2> USE ConstantBounds
  <2> DEFINE Below == {a \in Addr : Base + First <= a /\ a < Base + c.wp}
             Live == {u \in Tensor : InPool(c.ptr[u])}
  <2>1. TypeOK /\ CursorInv /\ SplitInv /\ BehindInv /\ FilledInv /\ DoneInv
    BY DEF CompactionInv
  <2>2. /\ c.wp \in Nat /\ c.cursor \in Nat /\ Base + c.wp <= c.cursor /\ c.cursor <= End
        /\ \A t \in Tensor : c.ptr[t] \in Nat /\ Need(t) \in Nat /\ 0 < Need(t)
    BY <2>1, TypeFacts, NeedBounds DEF CursorInv
  <2>3. ASSUME NEW a \in Below PROVE \E t \in Live : a \in Extent(c.ptr[t], t)
    <3>1. PICK t \in Tensor : Behind(t) /\ c.ptr[t] <= a /\ a < c.ptr[t] + Need(t)
      BY <2>1, <2>3 DEF FilledInv
    <3>2. t \in Live
      BY <3>1, StaysInPool DEF Behind
    <3>3. a \in c.ptr[t] .. (c.ptr[t] + Need(t) - 1)
      BY <2>2, <2>3, <3>1
    <3>4. QED
      BY <3>2, <3>3 DEF Extent, Need
  <2>4. ASSUME NEW t \in Live, NEW a \in Extent(c.ptr[t], t) PROVE a \in Below
    <3>1. Behind(t)
      BY <2>1, <2>4, StaysInPool DEF DoneInv, SplitInv
    <3>2. Base + First <= c.ptr[t] /\ c.ptr[t] + Need(t) <= Base + c.wp
      BY <2>1, <3>1 DEF BehindInv
    <3>3. a \in c.ptr[t] .. (c.ptr[t] + Need(t) - 1)
      BY <2>4 DEF Extent, Need
    <3>4. a \in Nat /\ Base + First <= a /\ a < Base + c.wp /\ a < End
      BY <2>2, <3>2, <3>3
    <3>5. QED
      BY <3>4
  <2>5. Below = UNION {Extent(c.ptr[t], t) : t \in Live}
    BY <2>3, <2>4, Zenon
  <2>6. QED
    BY <2>5 DEF Packed
<1>2. QED
  BY <1>1, CompactionInvariant, PTL

-----------------------------------------------------------------------------
(* Alignment *)

AlignedInv ==
    /\ (Base + c.wp) % ALIGN = 0
    /\ \A t \in Tensor : c.ptr[t] % ALIGN = 0

\* An address needs no adjustment exactly when it is a multiple of the alignment.
LEMMA AdjustIsZero ==
    ASSUME NEW a \in Int
    PROVE  AlignAdjust(a) = 0 <=> a % ALIGN = 0
<1> DEFINE r == a % ALIGN
<1>1. ALIGN \in Nat \ {0} /\ r \in 0 .. ALIGN - 1
  BY AlignAssumption, DivMod
<1> HIDE DEF r
<1>2. CASE r = 0
  <2>1. ALIGN - r = 1 * ALIGN + 0 /\ 0 \in 0 .. ALIGN - 1 /\ 1 \in Int /\ ALIGN - r \in Int
    BY <1>1, <1>2
  <2>2. (ALIGN - r) % ALIGN = 0
    BY <1>1, <2>1, RemainderIsUnique
  <2>3. QED
    BY <1>2, <2>2 DEF AlignAdjust, r
<1>3. CASE r # 0
  <2>1. ALIGN - r = 0 * ALIGN + (ALIGN - r) /\ ALIGN - r \in 0 .. ALIGN - 1 /\ ALIGN - r \in Int
    BY <1>1, <1>3
  <2>2. (ALIGN - r) % ALIGN = ALIGN - r
    BY <1>1, <2>1, RemainderIsUnique
  <2>3. ALIGN - r # 0
    BY <1>1
  <2>4. QED
    BY <1>3, <2>2, <2>3 DEF AlignAdjust, r
<1>4. QED
  BY <1>2, <1>3

\* A rounded size is a multiple of the alignment.
LEMMA AlignUpIsMultiple ==
    ASSUME NEW v \in Nat
    PROVE  AlignUp(v) % ALIGN = 0
<1> DEFINE w == v + (ALIGN - 1)
<1>1. ALIGN \in Nat \ {0} /\ w \in Int
  BY AlignAssumption
<1>2. AlignUp(v) = w - (w % ALIGN)
  <2>1. w % ALIGN \in 0 .. ALIGN - 1
    BY <1>1, DivMod
  <2>2. QED
    BY <1>1, <2>1 DEF AlignUp
<1> HIDE DEF w
<1>3. w \div ALIGN \in Int /\ w = (w \div ALIGN) * ALIGN + (w % ALIGN) /\ w % ALIGN \in 0 .. ALIGN - 1
  BY <1>1, DivMod
<1>4. w - (w % ALIGN) = (w \div ALIGN) * ALIGN + 0
  BY <1>1, <1>3
<1>5. 0 \in 0 .. ALIGN - 1 /\ w - (w % ALIGN) \in Int
  BY <1>1, <1>3
<1>6. (w - (w % ALIGN)) % ALIGN = 0
  BY <1>1, <1>3, <1>4, <1>5, RemainderIsUnique
<1>7. QED
  BY <1>2, <1>6

\* Every allocation stays aligned while compact_pool packs an unaligned buffer.
THEOREM AlignmentIsKept == Spec => []StaysAligned
<1> USE ConstantBounds
<1>1. ALIGN \in Nat \ {0}
  BY AlignAssumption
<1>2. Init => AlignedInv
  <2> SUFFICES ASSUME Init PROVE AlignedInv
    OBVIOUS
  <2>1. c.wp = First /\ c.ptr = ptr0 /\ ptr0 \in [Tensor -> Addr \cup {NULL}] /\ Aligned(ptr0)
    BY DEF Init, StartCompaction
  <2>2. (Base + First) % ALIGN = 0
    BY FirstAssumption, AdjustIsZero
  <2>3. ASSUME NEW t \in Tensor PROVE ptr0[t] % ALIGN = 0
    <3>1. ptr0[t] \in Int /\ AlignAdjust(ptr0[t]) = 0
      <4>1. ptr0[t] \in Addr \cup {NULL}
        BY <2>1
      <4>2. ptr0[t] \in Nat
        BY <4>1, PointerIsNat
      <4>3. AlignAdjust(ptr0[t]) = 0
        BY <2>1, Zenon DEF Aligned
      <4>4. QED
        BY <4>2, <4>3
    <3>2. QED
      BY <3>1, AdjustIsZero
  <2>4. QED
    BY <2>1, <2>2, <2>3 DEF AlignedInv
<1>3. CompactionInv /\ AlignedInv /\ [Next]_vars => AlignedInv'
  <2> SUFFICES ASSUME CompactionInv, AlignedInv, [Next]_vars PROVE AlignedInv'
    OBVIOUS
  <2>1. CASE Pass
    <3>1. PICK t \in Tensor : /\ t \in LiveFrom(c, End) /\ IsLowest(c.ptr, LiveFrom(c, End), t)
                              /\ c' = MoveDown(c, Size, Base, t)
      BY <2>1 DEF Pass, LiveFrom
    <3>2. PassFacts(t)
      BY <2>1, <3>1, PassChoice DEF Pass
    <3>3. c.wp \in Nat /\ Need(t) \in Nat /\ Size[t] \in Nat
      BY TypeFacts, NeedBounds DEF CompactionInv
    <3>4. Need(t) % ALIGN = 0 /\ (Base + c.wp) % ALIGN = 0
      BY <3>3, AlignUpIsMultiple DEF Need, AlignedInv
    <3>5. (Base + c.wp + Need(t)) % ALIGN = 0
      BY <1>1, <3>3, <3>4, MultiplesAdd
    <3>6. c'.wp = c.wp + Need(t) /\ \A u \in Tensor : c'.ptr[u] \in {Base + c.wp, c.ptr[u]}
      BY <3>2 DEF PassFacts
    <3>7. Base + c'.wp = Base + c.wp + Need(t)
      BY <3>3, <3>6
    <3>8. QED
      BY <3>4, <3>5, <3>6, <3>7 DEF AlignedInv
  <2>2. CASE Finish
    BY <2>2 DEF Finish, AlignedInv
  <2>3. CASE UNCHANGED vars
    BY <2>3 DEF vars, AlignedInv
  <2>4. QED
    BY <2>1, <2>2, <2>3 DEF Next
<1>4. CompactionInv /\ AlignedInv => StaysAligned
  <2> SUFFICES ASSUME CompactionInv, AlignedInv, NEW t \in Tensor PROVE AlignAdjust(c.ptr[t]) = 0
    BY DEF StaysAligned
  <2>1. c.ptr[t] \in Int
    BY TypeFacts DEF CompactionInv
  <2>2. QED
    BY <2>1, AdjustIsZero DEF AlignedInv
<1>5. QED
  BY <1>2, <1>3, <1>4, CompactionInvariant, PTL DEF Spec

-----------------------------------------------------------------------------
(* The passes add up to CompactPool *)

\* The bytes of the allocations that started below an address.
LiveBelow(a) == UNION {Extent(ptr0[u], u) : u \in {v \in Tensor : InPool(ptr0[v]) /\ ptr0[v] < a}}

\* The write offset counts the live bytes below the cursor, an allocation that
\* was moved lies above the live bytes that were below it, and nothing has been
\* written at or above the write address.
PackInv ==
    /\ c.wp = First + Cardinality(LiveBelow(c.cursor))
    /\ \A t \in Tensor : Behind(t) =>
           c.ptr[t] = Base + First + Cardinality(LiveBelow(ptr0[t]))
    /\ \A a \in Addr : Base + c.wp <= a => c.cells[a] = a

\* The live bytes are bytes of the pool, so they can be counted.
LEMMA LiveBelowIsFinite ==
    ASSUME TypeOK, Disjoint(ptr0), NEW a
    PROVE  IsFiniteSet(LiveBelow(a)) /\ Cardinality(LiveBelow(a)) \in Nat
<1> USE ConstantBounds
<1>1. ASSUME NEW b \in LiveBelow(a) PROVE b \in (Base + First) .. (End - 1)
  <2>1. PICK u \in Tensor : InPool(ptr0[u]) /\ b \in Extent(ptr0[u], u)
    BY <1>1 DEF LiveBelow
  <2>2. ptr0[u] \in Nat /\ Need(u) \in Nat /\ Base + First <= ptr0[u]
    BY <2>1, TypeFacts, NeedBounds DEF InPool
  <2>3. ptr0[u] + Need(u) <= End
    BY <2>1 DEF Disjoint, Need
  <2>4. b \in ptr0[u] .. (ptr0[u] + Need(u) - 1)
    BY <2>1 DEF Extent, Need
  <2>5. QED
    BY <2>2, <2>3, <2>4
<1>2. IsFiniteSet((Base + First) .. (End - 1))
  BY FS_Interval
<1>3. LiveBelow(a) \in SUBSET ((Base + First) .. (End - 1))
  BY <1>1
<1>4. QED
  BY <1>2, <1>3, FS_Subset, FS_CardinalityType

\* Below the cursor there is what lies below the first allocation ahead of it,
\* and that allocation adds its own bytes.
LEMMA PassBytes ==
    ASSUME CompactionInv, NEW t \in Tensor, PassFacts(t)
    PROVE  /\ LiveBelow(ptr0[t]) = LiveBelow(c.cursor)
           /\ LiveBelow(ptr0[t] + Need(t)) = LiveBelow(c.cursor) \cup Extent(ptr0[t], t)
           /\ LiveBelow(c.cursor) \cap Extent(ptr0[t], t) = {}
<1> USE ConstantBounds
<1>1. TypeOK /\ Disjoint(ptr0) /\ CursorInv /\ SplitInv
  BY DEF CompactionInv
<1>2. /\ c.cursor \in Nat /\ ptr0[t] \in Nat /\ Need(t) \in Nat /\ 0 < Need(t)
      /\ \A u \in Tensor : ptr0[u] \in Nat /\ Need(u) \in Nat /\ 0 < Need(u)
  BY <1>1, TypeFacts, NeedBounds
<1>3. /\ c.cursor <= ptr0[t] /\ InPool(ptr0[t])
      /\ \A u \in Tensor : Ahead(u) => \/ ptr0[u] = ptr0[t] /\ Size[u] = Size[t]
                                       \/ ptr0[t] + Need(t) <= ptr0[u]
  BY DEF PassFacts, Ahead
<1>4. ASSUME NEW u \in Tensor, InPool(ptr0[u])
      PROVE  /\ ptr0[u] < c.cursor <=> Behind(u)
             /\ ptr0[u] < ptr0[t] <=> Behind(u)
             /\ ptr0[u] < ptr0[t] + Need(t) <=> Behind(u) \/ (ptr0[u] = ptr0[t] /\ Size[u] = Size[t])
  <2>1. CASE Behind(u)
    BY <1>2, <1>3, <2>1 DEF Behind
  <2>2. CASE ~Behind(u)
    <3>1. Ahead(u)
      BY <1>1, <1>4, <2>2 DEF SplitInv
    <3>2. c.cursor <= ptr0[u]
      BY <3>1 DEF Ahead
    <3>3. \/ ptr0[u] = ptr0[t] /\ Size[u] = Size[t]
          \/ ptr0[t] + Need(t) <= ptr0[u]
      BY <1>3, <3>1
    <3>4. QED
      BY <1>2, <1>3, <2>2, <3>2, <3>3
  <2>3. QED
    BY <2>1, <2>2
<1>5. LiveBelow(ptr0[t]) = LiveBelow(c.cursor)
  <2>1. {v \in Tensor : InPool(ptr0[v]) /\ ptr0[v] < ptr0[t]}
        = {v \in Tensor : InPool(ptr0[v]) /\ ptr0[v] < c.cursor}
    BY <1>4
  <2>2. QED
    BY <2>1, Zenon DEF LiveBelow
<1>6. LiveBelow(ptr0[t] + Need(t)) = LiveBelow(c.cursor) \cup Extent(ptr0[t], t)
  <2> DEFINE Whole == {v \in Tensor : InPool(ptr0[v]) /\ ptr0[v] < ptr0[t] + Need(t)}
             Part == {v \in Tensor : InPool(ptr0[v]) /\ ptr0[v] < c.cursor}
  <2>1. ASSUME NEW u \in Whole PROVE u \in Part \/ Extent(ptr0[u], u) = Extent(ptr0[t], t)
    BY <1>4 DEF Extent
  <2>2. Part \subseteq Whole /\ t \in Whole
    BY <1>2, <1>3, <1>4
  <2>3. QED
    <3> HIDE DEF Whole, Part
    <3>1. ASSUME NEW a \in UNION {Extent(ptr0[u], u) : u \in Whole}
          PROVE  a \in (UNION {Extent(ptr0[u], u) : u \in Part}) \cup Extent(ptr0[t], t)
      BY <2>1, <3>1
    <3>2. ASSUME NEW a \in (UNION {Extent(ptr0[u], u) : u \in Part}) \cup Extent(ptr0[t], t)
          PROVE  a \in UNION {Extent(ptr0[u], u) : u \in Whole}
      BY <2>2, <3>2
    <3>3. UNION {Extent(ptr0[u], u) : u \in Whole}
          = (UNION {Extent(ptr0[u], u) : u \in Part}) \cup Extent(ptr0[t], t)
      BY <3>1, <3>2, Zenon
    <3>4. QED
      BY <3>3, Zenon DEF LiveBelow, Whole, Part
<1>7. ASSUME NEW a \in LiveBelow(c.cursor), a \in Extent(ptr0[t], t) PROVE FALSE
  <2>1. PICK u \in Tensor : InPool(ptr0[u]) /\ ptr0[u] < c.cursor /\ a \in Extent(ptr0[u], u)
    BY <1>7 DEF LiveBelow
  <2>2. ptr0[u] + Need(u) <= c.cursor
    BY <1>4, <2>1 DEF Behind
  <2>3. a \in ptr0[u] .. (ptr0[u] + Need(u) - 1) /\ a \in ptr0[t] .. (ptr0[t] + Need(t) - 1)
    BY <1>7, <2>1 DEF Extent, Need
  <2>4. QED
    BY <1>2, <1>3, <2>2, <2>3
<1>8. QED
  BY <1>5, <1>6, <1>7

\* A pass counts the bytes it moves and puts them above those counted before.
LEMMA PassPack ==
    ASSUME CompactionInv, PackInv, NEW t \in Tensor, PassFacts(t)
    PROVE  PackInv'
<1> USE ConstantBounds
<1>1. TypeOK /\ Disjoint(ptr0) /\ CursorInv /\ SplitInv
  BY DEF CompactionInv
<1>2. /\ c.cursor \in Nat /\ c.wp \in Nat /\ ptr0[t] \in Nat /\ Need(t) \in Nat /\ 0 < Need(t)
      /\ c.wp = First + Cardinality(LiveBelow(c.cursor))
      /\ Base + c.wp <= c.cursor /\ c.cursor <= ptr0[t]
      /\ c'.wp = c.wp + Need(t) /\ c'.cursor = ptr0[t] + Need(t) /\ ptr0' = ptr0
  BY <1>1, TypeFacts, NeedBounds DEF CursorInv, PackInv, PassFacts, Ahead
<1>3. c'.wp = First + Cardinality(LiveBelow(c.cursor)')
  <2>1. Extent(ptr0[t], t) = ptr0[t] .. (ptr0[t] + Need(t) - 1)
    BY DEF Extent, Need
  <2>2. IsFiniteSet(Extent(ptr0[t], t)) /\ Cardinality(Extent(ptr0[t], t)) = Need(t)
    <3> DEFINE low == ptr0[t]
               high == ptr0[t] + Need(t) - 1
    <3>1. low \in Int /\ high \in Int /\ low <= high /\ high - low + 1 = Need(t)
      BY <1>2
    <3> HIDE DEF low, high
    <3>2. IsFiniteSet(low .. high) /\ Cardinality(low .. high) = high - low + 1
      BY <3>1, FS_Interval
    <3>3. QED
      BY <2>1, <3>1, <3>2 DEF low, high
  <2> DEFINE A == LiveBelow(c.cursor)
             B == Extent(ptr0[t], t)
  <2>3. IsFiniteSet(A) /\ Cardinality(A) \in Nat /\ A \cap B = {} /\ LiveBelow(ptr0[t] + Need(t)) = A \cup B
    BY <1>1, PassBytes, LiveBelowIsFinite
  <2>4. IsFiniteSet(B) /\ Cardinality(B) = Need(t)
    BY <2>2
  <2>5. Cardinality({}) = 0
    BY FS_EmptySet
  <2>6. Cardinality(LiveBelow(ptr0[t] + Need(t))) = Cardinality(LiveBelow(c.cursor)) + Need(t)
    <3>1. Cardinality(LiveBelow(ptr0[t] + Need(t))) = Cardinality(A) + Need(t)
      <4> HIDE DEF A, B
      <4>1. Cardinality(A \cup B) = Cardinality(A) + Cardinality(B) - Cardinality(A \cap B)
        BY <2>3, <2>4, FS_Union
      <4>2. Cardinality(A \cap B) = 0 /\ Cardinality(A) \in Nat /\ Need(t) \in Nat
        BY <1>2, <2>3, <2>5, Zenon
      <4>3. Cardinality(A \cup B) = Cardinality(A) + Need(t)
        BY <2>4, <4>1, <4>2
      <4>4. QED
        BY <2>3, <4>3, Zenon
    <3>2. QED
      BY <3>1
  <2>7. LiveBelow(c.cursor)' = LiveBelow(ptr0[t] + Need(t))
    BY <1>2 DEF LiveBelow, InPool, End, Extent, AlignUp
  <2>8. QED
    BY <1>1, <1>2, <2>6, <2>7, LiveBelowIsFinite
<1>4. ASSUME NEW u \in Tensor, Behind(u)'
      PROVE  c'.ptr[u] = Base + First + Cardinality(LiveBelow(ptr0[u])')
  <2>1. LiveBelow(ptr0[u])' = LiveBelow(ptr0[u])
    BY <1>2 DEF LiveBelow, InPool, End, Extent, AlignUp
  <2>2. InPool(ptr0[u])
    BY <1>2, <1>4 DEF Behind, InPool, End
  <2>3. CASE Behind(u) /\ c'.ptr[u] = c.ptr[u]
    BY <2>1, <2>3 DEF PackInv
  <2>4. CASE c'.ptr[u] = Base + c.wp /\ ptr0[u] = ptr0[t]
    BY <1>1, <1>2, <2>1, <2>4, PassBytes, LiveBelowIsFinite
  <2>5. QED
    BY <1>4, <2>2, <2>3, <2>4, PassSplit
<1>5. ASSUME NEW a \in Addr, Base + c'.wp <= a PROVE c'.cells[a] = a
  <2>1. a \in Nat /\ Base + c.wp <= a /\ ~(a < Base + c.wp + Need(t))
    BY <1>2, <1>5
  <2>2. c'.cells[a] = c.cells[a]
    BY <2>1 DEF PassFacts
  <2>3. QED
    BY <2>1, <2>2 DEF PackInv
<1>6. QED
  BY <1>3, <1>4, <1>5 DEF PackInv

\* The passes of compact_pool compute what CompactPool, the operator the
\* executor's models use, says in one step: where every pointer goes, what every
\* byte of memory is and what the pool has left.
THEOREM PassesComputeCompactPool == Spec => []ComputesCompactPool
<1> USE ConstantBounds
<1>1. Init => PackInv
  <2> SUFFICES ASSUME Init PROVE PackInv
    OBVIOUS
  <2>1. /\ c.wp = First /\ c.cursor = Base + First /\ c.cells = [a \in Addr |-> a]
        /\ ptr0 \in [Tensor -> Addr \cup {NULL}]
    BY DEF Init, StartCompaction
  <2>2. ASSUME NEW u \in Tensor PROVE ~(InPool(ptr0[u]) /\ ptr0[u] < c.cursor) /\ ~Behind(u)
    <3>1. ptr0[u] \in Nat /\ Need(u) \in Nat /\ 0 < Need(u)
      BY <2>1, PointerIsNat, NeedBounds
    <3>2. QED
      BY <2>1, <3>1 DEF InPool, Behind
  <2>3. LiveBelow(c.cursor) = {}
    BY <2>2 DEF LiveBelow
  <2>4. Cardinality(LiveBelow(c.cursor)) = 0
    BY <2>3, FS_EmptySet, Zenon
  <2>5. QED
    BY <2>1, <2>2, <2>4 DEF PackInv
<1>2. CompactionInv /\ PackInv /\ [Next]_vars => PackInv'
  <2> SUFFICES ASSUME CompactionInv, PackInv, [Next]_vars PROVE PackInv'
    OBVIOUS
  <2>1. CASE Pass
    <3>1. PICK t \in Tensor : /\ t \in LiveFrom(c, End) /\ IsLowest(c.ptr, LiveFrom(c, End), t)
                              /\ c' = MoveDown(c, Size, Base, t)
      BY <2>1 DEF Pass, LiveFrom
    <3>2. PassFacts(t)
      BY <2>1, <3>1, PassChoice DEF Pass
    <3>3. QED
      BY <3>2, PassPack
  <2>2. CASE UNCHANGED <<c, ptr0>>
    <3>1. c' = c /\ ptr0' = ptr0
      BY <2>2
    <3>2. \A a : LiveBelow(a)' = LiveBelow(a)
      BY <3>1 DEF LiveBelow, InPool, Extent
    <3>3. \A t : Behind(t)' = Behind(t)
      BY <3>1 DEF Behind, InPool, Need
    <3>4. QED
      BY <3>1, <3>2, <3>3 DEF PackInv
  <2>3. QED
    BY <2>1, <2>2 DEF Next, Finish, vars
<1>3. CompactionInv /\ PackInv => ComputesCompactPool
  <2> SUFFICES ASSUME CompactionInv, PackInv, pc = "done" PROVE ComputesCompactPool
    BY DEF ComputesCompactPool
  <2> DEFINE live == {t \in Tensor : Base + First <= ptr0[t] /\ ptr0[t] < Base + Capacity}
             Bytes(t) == ptr0[t] .. (ptr0[t] + AlignUp(Size[t]) - 1)
             Target(t) == Base + First + Cardinality(UNION {Bytes(u) : u \in {v \in live : ptr0[v] < ptr0[t]}})
             Covers(t, a) == Target(t) <= a /\ a < Target(t) + AlignUp(Size[t])
             cells0 == [a \in Addr |-> a]
  <2>1. TypeOK /\ Disjoint(ptr0) /\ CursorInv /\ SplitInv /\ BehindInv /\ OutsideUntouched /\ FilledInv /\ DoneInv
    BY DEF CompactionInv
  <2>2. /\ c.wp \in Nat /\ c.cursor \in Nat
        /\ \A t \in Tensor : c.ptr[t] \in Nat /\ ptr0[t] \in Nat /\ Need(t) \in Nat /\ 0 < Need(t)
        /\ c.ptr \in [Tensor -> Addr \cup {NULL}] /\ c.cells \in [Addr -> Addr]
        /\ ptr0 \in [Tensor -> Addr \cup {NULL}]
    BY <2>1, TypeFacts, NeedBounds DEF TypeOK
  <2>3. \A t \in Tensor : /\ t \in live <=> InPool(ptr0[t])
                          /\ t \in live => Behind(t) /\ ptr0[t] < c.cursor
    BY <2>1, <2>2 DEF InPool, SplitInv, DoneInv, Behind
  <2>4. \A t \in Tensor : UNION {Bytes(u) : u \in {v \in live : ptr0[v] < ptr0[t]}} = LiveBelow(ptr0[t])
    BY DEF LiveBelow, InPool, Extent, End
  <2>5. UNION {Bytes(u) : u \in live} = LiveBelow(c.cursor)
    <3>1. live = {v \in Tensor : InPool(ptr0[v]) /\ ptr0[v] < c.cursor}
      BY <2>3
    <3>2. QED
      BY <3>1, Zenon DEF LiveBelow, Extent
  <2>6. \A t \in live : c.ptr[t] = Target(t)
    BY <2>3, <2>4 DEF PackInv
  <2>7. c.ptr = [t \in DOMAIN ptr0 |-> IF t \in live THEN Target(t) ELSE ptr0[t]]
    <3>1. \A t \in Tensor : t \notin live => c.ptr[t] = ptr0[t]
      BY <2>1, <2>3 DEF OutsideUntouched
    <3>2. DOMAIN ptr0 = Tensor
      BY <2>2
    <3> HIDE DEF Target, live
    <3>3. QED
      BY <2>2, <2>6, <3>1, <3>2
  <2>8. c.wp = First + Cardinality(UNION {Bytes(t) : t \in live})
    BY <2>5 DEF PackInv
  <2>9. ASSUME NEW a \in Addr
        PROVE  c.cells[a] = IF \E t \in live : Covers(t, a)
                            THEN LET t == CHOOSE u \in live : Covers(u, a)
                                 IN  cells0[a - Target(t) + ptr0[t]]
                            ELSE cells0[a]
    <3>1. CASE \E t \in live : Covers(t, a)
      <4>1. PICK t \in live : t = (CHOOSE u \in live : Covers(u, a)) /\ Covers(t, a)
        BY <3>1, Zenon
      <4>2. /\ t \in Tensor /\ Behind(t) /\ c.ptr[t] = Target(t) /\ InPool(ptr0[t])
            /\ c.ptr[t] <= a /\ a < c.ptr[t] + Need(t)
        BY <2>3, <2>6, <4>1 DEF Need
      <4>3. /\ a - c.ptr[t] \in 0 .. (Need(t) - 1) /\ c.ptr[t] + (a - c.ptr[t]) = a
            /\ ptr0[t] + (a - c.ptr[t]) = a - c.ptr[t] + ptr0[t]
        <5>1. a \in Nat /\ c.ptr[t] \in Nat /\ ptr0[t] \in Nat /\ Need(t) \in Nat
          BY <2>2, <4>2
        <5>2. QED
          BY <4>2, <5>1
      <4>4. c.cells[a] = a - c.ptr[t] + ptr0[t]
        BY <2>1, <4>2, <4>3 DEF BehindInv
      <4>5. a - c.ptr[t] + ptr0[t] \in Addr
        BY <2>2, <4>4
      <4>6. cells0[a - Target(t) + ptr0[t]] = c.cells[a]
        BY <4>2, <4>4, <4>5
      <4> HIDE DEF Covers, live, Target, cells0
      <4>7. QED
        BY <3>1, <4>1, <4>6, Zenon
    <3>2. CASE ~(\E t \in live : Covers(t, a))
      <4>1. c.cells[a] = a
        <5>1. CASE ~InPool(a)
          BY <2>1, <5>1 DEF OutsideUntouched
        <5>2. CASE Base + c.wp <= a
          BY <5>2 DEF PackInv
        <5>3. CASE InPool(a) /\ a < Base + c.wp
          <6>1. PICK t \in Tensor : Behind(t) /\ c.ptr[t] <= a /\ a < c.ptr[t] + Need(t)
            BY <2>1, <5>3 DEF FilledInv, InPool
          <6>2. t \in live
            BY <2>3, <6>1 DEF Behind
          <6>3. Covers(t, a)
            BY <2>6, <6>1, <6>2 DEF Need
          <6>4. QED
            BY <3>2, <6>2, <6>3
        <5>4. QED
          <6>1. a \in Nat /\ Base + c.wp \in Nat
            BY <2>2
          <6>2. QED
            BY <5>1, <5>2, <5>3, <6>1
      <4>2. QED
        BY <3>2, <4>1
    <3>3. QED
      BY <3>1, <3>2
  <2>10. c.cells = [a \in DOMAIN cells0 |->
                      IF \E t \in live : Covers(t, a)
                      THEN LET t == CHOOSE u \in live : Covers(u, a)
                           IN  cells0[a - Target(t) + ptr0[t]]
                      ELSE cells0[a]]
    <3>1. DOMAIN cells0 = Addr
      OBVIOUS
    <3> HIDE DEF Covers, live, Target, cells0
    <3>2. QED
      BY <2>2, <2>9, <3>1
  <2>11. QED
    BY <2>7, <2>8, <2>10, Zenon DEF ComputesCompactPool, CompactPool
<1>4. QED
  BY <1>1, <1>2, <1>3, CompactionInvariant, PTL DEF Spec

=============================================================================
