------------------------------ MODULE Bisection -----------------------------
(***************************************************************************)
(* The bisection that sizes a band (src/src/tigris_executor.c): loops of   *)
(* this shape look for the most rows whose working set fits the arena, in  *)
(* stripe_band_rows, chain_budget and the executors of row bands.          *)
(*                                                                         *)
(* fits[n] says whether n rows fit, for n in 1 .. top.                     *)
(***************************************************************************)
EXTENDS Integers

\* Mutant: moves the upper bound past sizes it has not tried.
BisectSkipping(fits, top) ==
    LET Search[r \in (1 .. top + 1) \X (0 .. top)] ==
            LET low == r[1]
                high == r[2]
                candidate == low + (high - low) \div 2
            IN  IF low > high THEN low - 1
                ELSE IF fits[candidate] THEN Search[<<candidate + 1, high>>]
                ELSE Search[<<low, IF candidate > 2 THEN candidate - 2 ELSE 0>>]
    IN  Search[<<1, top>>]

\* The most that fits, 0 for none; every size below low was seen to fit or is
\* below one that did.
Bisect(fits, top) ==
    LET Search[r \in (1 .. top + 1) \X (0 .. top)] ==
            LET low == r[1]
                high == r[2]
                candidate == low + (high - low) \div 2
            IN  IF low > high THEN low - 1
                ELSE IF fits[candidate] THEN Search[<<candidate + 1, high>>]
                ELSE Search[<<low, candidate - 1>>]
    IN  Search[<<1, top>>]

=============================================================================
