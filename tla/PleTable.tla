------------------------------- MODULE PleTable -------------------------------
(***************************************************************************)
(* The arithmetic of the n-gram embedding table (PLE): which rows a token  *)
(* looks up, how the compressed HashK artifact places a row and finds it   *)
(* again, and the packed NVFP4 form of a row.                              *)
(*                                                                         *)
(* Translated from Qwen4ExpNGramEmbedding and the _hashk and _nvfp4        *)
(* helpers of src/patches/qwen4_exp_nvfp4.py, and from the builder,        *)
(* src/tools/build_hashk_ple.py.  The hashes are the code's own, on words  *)
(* of Width bits instead of 64 and with constants to match.                *)
(***************************************************************************)
EXTENDS Integers, Sequences, FiniteSets, FiniteSetsExt, SequencesExt

CONSTANTS
    BitXor(_, _),   \* bitwise exclusive or
    Width,          \* bits of a word
    Gamma, M1, M2,  \* the splitmix constants
    Shifts,         \* its three shifts
    Seed, Prime1,   \* config.seed and _PRIME_1
    Salts, HeadSalt, Mulc,  \* the salts and the factor of the artifact's hash
    Token, Eos,
    PleLayer,       \* ple_layer_index: 0 .. n
    NgramSize, HeadsPerNgram,
    VocabBase,      \* ngram_vocab_size_base
    SplitParts,     \* split_ngram_parts: shards of the checkpoint's table
    Ratio,          \* R, the rows of a head per slot of its sub-table
    RowValues(_)    \* the row of the checkpoint, in quarters of its group scale

ASSUME PleTableAssumption ==
    /\ Width \in Nat \ {0} /\ Len(Shifts) = 3 /\ Len(Salts) = 2
    /\ Eos \in Token /\ Token \subseteq Nat
    /\ {NgramSize, HeadsPerNgram, SplitParts} \subseteq Nat /\ NgramSize >= 2 /\ HeadsPerNgram > 0
    /\ VocabBase > 0 /\ SplitParts > 0 /\ Ratio \in Nat \ {0}
    /\ PleLayer \subseteq Nat /\ 0 \in PleLayer
    /\ Mulc \in Int /\ HeadSalt \in Int /\ \A sub \in 1 .. 2 : Salts[sub] \in Int

Ceiling(n, d) == (n + d - 1) \div d
Lower(m, n) == IF m < n THEN m ELSE n
Upper(m, n) == IF m < n THEN n ELSE m

-----------------------------------------------------------------------------
(* Words and primes *)

Bits(x) == x % (2 ^ Width)
Signed(b) == IF b < 2 ^ (Width - 1) THEN b ELSE b - 2 ^ Width

Splitmix(x) ==
    LET a == Bits(x + Gamma)
        b == Bits(BitXor(a, a \div 2 ^ Shifts[1]) * M1)
        c == Bits(BitXor(b, b \div 2 ^ Shifts[2]) * M2)
    IN  BitXor(c, c \div 2 ^ Shifts[3])

IsPrime(p) == p > 1 /\ \A d \in 2 .. p - 1 : p % d # 0
NextPrime(n) == CHOOSE p \in n + 1 .. 2 * n + 3 : IsPrime(p) /\ \A q \in n + 1 .. p - 1 : ~IsPrime(q)

NthPrimeAfter[n \in Nat] == IF n = 0 THEN VocabBase - 1 ELSE NextPrime(NthPrimeAfter[n - 1])

-----------------------------------------------------------------------------
(* The ids of a token: one per head, each head with rows of its own *)

NgramHeads == (NgramSize - 1) * HeadsPerNgram
Heads == 0 .. NgramHeads - 1

HeadVocabSize == [layer \in PleLayer, h \in Heads |-> NthPrimeAfter[layer * NgramHeads + h + 1]]
HeadOffset == [layer \in PleLayer, h \in 0 .. NgramHeads |->
                  MapThenSumSet(LAMBDA k : HeadVocabSize[layer, k], 0 .. h - 1)]
TotalVocab(layer) == HeadOffset[layer, NgramHeads]
PaddedVocab(layer, divisor) == Ceiling(TotalVocab(layer), divisor) * divisor

\* Odd, and small enough that token * multiplier stays a positive word.
LayerMultipliers ==
    LET largest == (2 ^ (Width - 1) - 1) \div Cardinality(Token)
        mixed(layer, pos) == Splitmix(Bits(Seed + Prime1 * layer + Gamma * (pos + 1)))
    IN  [layer \in PleLayer, pos \in 0 .. NgramSize - 1 |->
            2 * (mixed(layer, pos) % Upper(1, largest \div 2)) + 1]

\* Mutant: tokens are shifted across the end of a segment.
ShiftRightAcross(w, n) == [i \in DOMAIN w |-> IF i - n >= 1 THEN w[i - n] ELSE Eos]

\* _shift_right_ignore_eos: no token of an earlier segment is shifted in.
ShiftRight(w, n) ==
    [i \in DOMAIN w |->
        LET ends == {j \in 1 .. i - 1 : w[j] = Eos}
            start == IF ends = {} THEN 1 ELSE Max(ends) + 1
        IN  IF i - start >= n /\ i - n >= 1 THEN w[i - n] ELSE Eos]

ShiftedWindows(w) == [n \in 0 .. NgramSize - 1 |-> IF n = 0 THEN w ELSE ShiftRight(w, n)]

\* The head's n-gram is hashed from the last column of the shifted windows.
MixOf(layer, column, ngram) ==
    FoldLeft(BitXor, 0, [k \in 1 .. ngram |-> Bits(column[k - 1] * LayerMultipliers[layer, k - 1])])

NgramIdOf(layer, column, h) ==
    HeadOffset[layer, h]
        + (Signed(MixOf(layer, column, 2 + h \div HeadsPerNgram)) % HeadVocabSize[layer, h])

NgramIds(layer, shifted) ==
    [h \in Heads |-> NgramIdOf(layer, [n \in DOMAIN shifted |-> Last(shifted[n])], h)]

-----------------------------------------------------------------------------
(* The HashK artifact *)

BuilderSize[h \in Heads] == NextPrime(IF h = 0 THEN VocabBase - 1 ELSE BuilderSize[h - 1])
BuilderOffset ==
    [h \in 0 .. NgramHeads |-> MapThenSumSet(LAMBDA k : BuilderSize[k], 0 .. h - 1)]
BuilderTotal == BuilderOffset[NgramHeads]
BuilderShardRows == Ceiling(BuilderTotal, SplitParts)

\* Heads follow each other without overlap: what the proofs use of the running sums.
SortedOffsets ==
    /\ BuilderOffset \in [0 .. NgramHeads -> Nat]
    /\ \A h, k \in 0 .. NgramHeads : h <= k => BuilderOffset[h] <= BuilderOffset[k]

SubSize == [h \in Heads |-> Ceiling(BuilderSize[h], Ratio)]
SubOffset == [h \in 0 .. NgramHeads |-> MapThenSumSet(LAMBDA k : SubSize[k], 0 .. h - 1)]

HashSlot(local, h, sub) ==
    Signed(Splitmix((local + 1) * Mulc + Salts[sub] + h * HeadSalt)) % SubSize[h]

\* What the proofs use of the prime sizes and of all running sums: heads have rows,
\* follow each other, and are cut alike by the builder and the model file.
HeadsFollow ==
    /\ SortedOffsets /\ BuilderOffset[0] = 0
    /\ \A l \in PleLayer, h \in Heads :
        /\ HeadVocabSize[l, h] \in Nat \ {0} /\ HeadOffset[l, h] \in Nat
        /\ HeadOffset[l, h + 1] = HeadOffset[l, h] + HeadVocabSize[l, h]
        /\ HeadOffset[l, h + 1] <= TotalVocab(l)
    /\ \A h \in 0 .. NgramHeads : BuilderOffset[h] = HeadOffset[0, h]
    /\ \A h \in Heads : BuilderSize[h] = HeadVocabSize[0, h]
    /\ \A h, k \in 0 .. NgramHeads :
        SubOffset[h] \in Nat /\ (h < k => SubOffset[h] + SubSize[h] <= SubOffset[k])

\* And of the hashes: whatever they mix, they are integers.
HashesAreWords ==
    /\ \A l \in PleLayer, column \in [0 .. NgramSize - 1 -> Token], n \in 2 .. NgramSize :
        Signed(MixOf(l, column, n)) \in Int
    /\ \A h \in Heads, sub \in 1 .. 2 : \A local \in 0 .. BuilderSize[h] - 1 :
        Signed(Splitmix((local + 1) * Mulc + Salts[sub] + h * HeadSalt)) \in Int

\* Mutant: bucketize without right=True gives a head's first row to the head before.
HeadOfRowLeft(g) == Cardinality({h \in Heads : BuilderOffset[h + 1] < g})

\* A head is [start, end): an exact boundary belongs to the next head.
HeadOfRow(g) == Cardinality({h \in Heads : BuilderOffset[h + 1] <= g})

PlacedAt(g, sub) ==
    LET h == HeadOfRow(g) IN SubOffset[h] + HashSlot(g - BuilderOffset[h], h, sub)

\* What a slot is the mean of, given the rows [g |-> counted as, row |-> is]
\* that the shards delivered; padding behind the last head is left out.
Accumulated(delivered) ==
    [sub \in 1 .. 2 |-> [s \in 0 .. SubOffset[NgramHeads] - 1 |->
        {d.row : d \in {e \in delivered : e.g < BuilderTotal /\ PlacedAt(e.g, sub) = s}}]]

\* The slots and the row that a sampled row contributes to its head's projection.
Sample(h, g) ==
    [sub \in 1 .. 2 |-> SubOffset[h] + HashSlot(g - BuilderOffset[h], h, sub)]

\* _hashk_gather reads column h at this slot of sub-table sub.
GatherSlot(h, id, sub) ==
    LET local == id - BuilderOffset[h]
        base == (local + 1) * Mulc
    IN  SubOffset[h] + (Signed(Splitmix(base + Salts[sub] + h * HeadSalt)) % SubSize[h])

-----------------------------------------------------------------------------
(* NVFP4: a value is a sign and one of eight magnitudes, two values a byte *)

Magnitudes == <<0, 2, 4, 6, 8, 12, 16, 24>>
Midpoints == <<1, 3, 5, 7, 10, 14, 20>>

Code(q) ==
    LET size == IF q < 0 THEN -q ELSE q
        index == Cardinality({i \in DOMAIN Midpoints : Midpoints[i] < size})
    IN  IF q < 0 THEN index + 8 ELSE index

Level(code) == IF code < 8 THEN Magnitudes[code + 1] ELSE -Magnitudes[code - 7]

Pack(row) == [k \in 1 .. Len(row) \div 2 |-> Code(row[2 * k - 1]) + 16 * Code(row[2 * k])]

Unpack(bytes) ==
    [i \in 1 .. 2 * Len(bytes) |->
        LET byte == bytes[(i + 1) \div 2] IN Level(IF i % 2 = 1 THEN byte % 16 ELSE byte \div 16)]
=============================================================================
