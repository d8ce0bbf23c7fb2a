----------------------------- MODULE MCLoadWeights -----------------------------
(* A small instance of LoadWeights for TLC: trigrams, four heads of prime     *)
(* sizes from three up, words of twelve bits, tables of four shards.          *)
EXTENDS LoadWeights, Bitwise

XorBits(x, y) == x ^^ y

\* Rows that no two ids share, over all levels and the midpoints between them.
QuarterRow(g) == <<((7 * g) % 49) - 24, ((5 * g + 3) % 49) - 24>>

With(mode, ranks, stored, checkpoint, divisor, stage, tied, textOnly, fused, casts) ==
    [mode |-> mode, ranks |-> ranks, stored |-> stored, checkpoint |-> checkpoint, divisor |-> divisor,
     stage |-> stage, tied |-> tied, textOnly |-> textOnly, fused |-> fused,
     casts |-> casts]

ASSUME TableFacts == HeadsFollow /\ HashesAreWords /\ RowsArePairs

SmallShifts == <<5, 4, 6>>
TwoSalts == <<1234, 876>>

\* Every window, and padded rows of two tokens around an EOS.
SomeBatches == [1 .. 3 -> {0, 1, 2}] \cup {t \in [1 .. 4 -> {1, 2}] : t[1] = 1}

\* The targets that launch.sh names, and two that match an indexer's and experts.
Launched == {"lm_head", "qkv_proj", "o_proj"}
Others == {"q_proj", "experts"}

Servers ==
    {With("device", 2, "bf16", "fp8", 4, {0, 1}, FALSE, TRUE, TRUE, Launched),
     With("device", 2, "fp8", "bf16", 3, {1}, TRUE, FALSE, TRUE, Launched),
     With("device", 1, "bf16", "bf16", 16, {0}, TRUE, FALSE, TRUE, {}),
     With("pinned", 2, "fp8", "fp8", 3, {0, 1}, TRUE, TRUE, FALSE, Others),
     With("pinned", 2, "bf16", "fp8", 4, {0, 1}, FALSE, FALSE, TRUE, {}),
     With("nvfp4", 1, "bf16", "fp8", 16, {0, 1}, FALSE, FALSE, FALSE, {}),
     With("off", 2, "bf16", "fp8", 4, {0, 1}, FALSE, TRUE, FALSE, Launched),
     With("hashk", 2, "fp8", "fp8", 4, {0, 1}, FALSE, TRUE, FALSE, Launched),
     With("hashk", 1, "fp8", "fp8", 16, {0, 1}, FALSE, TRUE, FALSE, {})}
=============================================================================
