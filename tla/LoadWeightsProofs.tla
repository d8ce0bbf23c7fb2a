------------------------- MODULE LoadWeightsProofs -------------------------
(***************************************************************************)
(* Proofs about the weights.                                               *)
(*                                                                         *)
(* The parameters: a load that ends well leaves each parameter whole and   *)
(* filled from its own tensors only, and so its fp8 copy, in every order   *)
(* of the tensors.  What a tensor contributes does not depend on when it   *)
(* comes (Contributed), so what is filled is the union over the tensors    *)
(* that came (LoadInv).                                                    *)
(*                                                                         *)
(* The lookups: a table holds the rows of the shards that came (Tabled),   *)
(* an artifact what the builder put in it (Built), and the windows that    *)
(* are kept are those of the batch (Cached); so a token gets its own row,  *)
(* from one rank, or the slots that its row went into.  That offsets are   *)
(* running sums of prime sizes, and hashes integers, are facts about folds *)
(* and recursive functions: TLC evaluates them on the instance, and they   *)
(* are hypotheses here (HeadsFollow, HashesAreWords, RowsArePairs).        *)
(***************************************************************************)
EXTENDS LoadWeights, QsaArithmetic, TLAPS, FiniteSetTheorems

-----------------------------------------------------------------------------
(* Part: the compressed table *)

\* The boundary search of the builder (bucketize, right=True) finds the head whose
\* range holds the row, first row and last row included.
LEMMA RowBelongsToItsHead ==
    ASSUME SortedOffsets, NgramHeads \in Nat, NEW h \in Heads,
           NEW g \in BuilderOffset[h] .. BuilderOffset[h + 1] - 1
    PROVE  HeadOfRow(g) = h
<1> DEFINE Before == {k \in Heads : BuilderOffset[k + 1] <= g}
<1>1. h \in Nat /\ h <= NgramHeads - 1
    BY DEF Heads
<1>2. BuilderOffset[h] \in Nat /\ BuilderOffset[h + 1] \in Nat /\ g \in Int
    BY <1>1 DEF SortedOffsets
<1>3. ASSUME NEW k \in Heads PROVE k \in Before <=> k < h
    <2>1. k \in Nat /\ k <= NgramHeads - 1
        BY DEF Heads
    <2>2. BuilderOffset[k + 1] \in Nat
        BY <2>1 DEF SortedOffsets
    <2>3. CASE k < h
        <3>1. BuilderOffset[k + 1] <= BuilderOffset[h]
            BY <1>1, <2>1, <2>3 DEF SortedOffsets
        <3> QED BY <1>2, <2>2, <2>3, <3>1
    <2>4. CASE ~(k < h)
        <3>1. BuilderOffset[h + 1] <= BuilderOffset[k + 1]
            BY <1>1, <2>1, <2>4 DEF SortedOffsets
        <3> QED BY <1>2, <2>2, <2>4, <3>1
    <2> QED BY <2>3, <2>4
<1>4. Before = 0 .. h - 1
    BY <1>1, <1>3 DEF Heads
<1>5. Cardinality(0 .. h - 1) = h
    BY <1>1, FS_Interval
<1> QED BY <1>4, <1>5 DEF HeadOfRow

\* The runtime gathers a head's id from the very slot, in either sub-table, that
\* the builder put that row in (_hashk_gather; bucketize and hash_slot of
\* build_hashk_ple.py), and that its projection was sampled at.
THEOREM RowsAreGatheredWhereTheyWerePut ==
    ASSUME SortedOffsets, NgramHeads \in Nat, NEW h \in Heads, NEW sub \in 1 .. 2,
           NEW g \in BuilderOffset[h] .. BuilderOffset[h + 1] - 1
    PROVE  /\ GatherSlot(h, g, sub) = PlacedAt(g, sub)
           /\ GatherSlot(h, g, sub) = Sample(h, g)[sub]
<1>1. HeadOfRow(g) = h
    BY RowBelongsToItsHead
<1>2. GatherSlot(h, g, sub) = SubOffset[h] + HashSlot(g - BuilderOffset[h], h, sub)
    BY DEF GatherSlot, HashSlot
<1> QED BY <1>1, <1>2 DEF PlacedAt, Sample

\* Every head with rows has slots: a rounded-up quotient is positive.
LEMMA SubTablesAreNotEmpty ==
    ASSUME NEW h \in Heads, BuilderSize[h] \in Nat \ {0} PROVE SubSize[h] \in Nat \ {0}
<1>1. Ratio \in Nat \ {0}
    BY PleTableAssumption
<1> DEFINE n == BuilderSize[h] + Ratio - 1
<1>2. n \in Nat /\ n >= Ratio
    BY <1>1
<1> HIDE DEF n
<1>3. n \div Ratio \in Nat /\ n \div Ratio >= 1
    BY <1>1, <1>2
<1>4. SubSize[h] = n \div Ratio
    BY DEF SubSize, Ceiling, n
<1> QED BY <1>3, <1>4

\* A slot lies in the sub-table of its own head, whatever the hash gives, negative
\* words included: no head reads what another one stored (_hashk_gather).
THEOREM SlotsStayInTheirHead ==
    ASSUME NEW h \in Heads, NEW sub \in 1 .. 2, NEW id \in Int, NgramHeads \in Nat,
           BuilderSize[h] \in Nat \ {0}, BuilderOffset[h] \in Nat, SubOffset[h] \in Nat,
           \A x \in Int : Signed(Splitmix(x)) \in Int
    PROVE  GatherSlot(h, id, sub) \in SubOffset[h] .. SubOffset[h] + SubSize[h] - 1
<1> DEFINE Hashed == (id - BuilderOffset[h] + 1) * Mulc + Salts[sub] + h * HeadSalt
           Word == Signed(Splitmix(Hashed))
<1>1. Hashed \in Int
    <2>1. h \in Int /\ Mulc \in Int /\ HeadSalt \in Int /\ Salts[sub] \in Int
        BY PleTableAssumption DEF Heads
    <2> QED BY <2>1
<1>2. Word \in Int
    BY <1>1
<1>3. SubSize[h] \in Nat \ {0}
    BY SubTablesAreNotEmpty
<1>4. GatherSlot(h, id, sub) = SubOffset[h] + (Word % SubSize[h])
    BY DEF GatherSlot
<1> HIDE DEF Word
<1>5. Word % SubSize[h] \in 0 .. SubSize[h] - 1
    BY <1>2, <1>3
<1> QED BY <1>3, <1>4, <1>5

-----------------------------------------------------------------------------
(* Part: what each tensor contributes *)

\* The pieces that a tensor fills when it comes, whenever that is.
Contributed(t) ==
    IF t.module \in {"shard", "ple_buffer"} \/ Skipped(t) THEN {}
    ELSE TiedPieces(t) \cup (IF Elsewhere(t) THEN {} ELSE PiecesOf(t))

\* Names of parameters, and the leaf that a part of the stacked one comes from.
Qkv(l) == <<l, "attn", "qkv_proj">>
Out(l) == <<l, "attn", "o_proj">>
Index(l) == <<l, "indexer", "q_proj">>
Scale(l) == <<l, "attn", "k_scale">>
GateUp(l) == <<l, "experts", "w13">>
Down(l) == <<l, "experts", "w2">>
Other(m) == <<NoLayer, m, "weight">>

LeafOf(s) == CASE s = "q" -> "q_proj" [] s = "k" -> "k_proj" [] s = "v" -> "v_proj"

LayerParam(l, p) == p \in {Qkv(l), Out(l), Index(l), Scale(l), GateUp(l), Down(l)}

OtherParam(m) ==
    \/ m = "embed" /\ FirstStage
    \/ m = "lm_head" /\ LastStage
    \/ m = "visual" /\ ~server.textOnly

\* The parameters of a server: six of each of its layers, and the three outside them.
LEMMA ParamShapes ==
    ASSUME NEW p
    PROVE  p \in Params <=>
             \/ \E l \in Owned : LayerParam(l, p)
             \/ \E m \in {"embed", "lm_head", "visual"} : OtherParam(m) /\ p = Other(m)
<1>1. p \in Params <=>
        \/ \E l \in Owned : p \in Attention(l) \cup Experts(l)
        \/ FirstStage /\ p = Other("embed")
        \/ LastStage /\ p = Other("lm_head")
        \/ ~server.textOnly /\ p = Other("visual")
    BY SMT DEF Params, Other
<1>2. ASSUME NEW l PROVE p \in Attention(l) \cup Experts(l) <=> LayerParam(l, p)
    BY Zenon DEF Attention, Experts, LayerParam, Qkv, Out, Index, Scale, GateUp, Down
<1> QED BY <1>1, <1>2 DEF OtherParam

\* A leaf of the stacked q/k/v belongs to a parameter only in its own layer's attention.
LEMMA StackedParams ==
    ASSUME NEW t, NoLayer \notin Owned,
           NEW m \in {<<"q_proj", "qkv_proj", "q">>, <<"k_proj", "qkv_proj", "k">>, <<"v_proj", "qkv_proj", "v">>}
    PROVE  <<t.layer, t.module, m[2]>> \in Params <=> t.layer \in Owned /\ t.module = "attn"
<1> DEFINE p == <<t.layer, t.module, m[2]>>
<1>1. p[1] = t.layer /\ p[2] = t.module /\ p[3] = "qkv_proj"
    OBVIOUS
<1>2. ASSUME NEW l, LayerParam(l, p) PROVE l = t.layer /\ t.module = "attn"
    BY <1>1, <1>2 DEF LayerParam, Qkv, Out, Index, Scale, GateUp, Down
<1>3. ASSUME t.module = "attn" PROVE LayerParam(t.layer, p)
    <2>1. m[2] = "qkv_proj"
        OBVIOUS
    <2>2. p = Qkv(t.layer)
        BY <1>3, <2>1 DEF Qkv
    <2> QED BY <2>2 DEF LayerParam
<1>4. ASSUME NEW n, p = Other(n) PROVE FALSE
    BY <1>1, <1>4 DEF Other
<1> QED BY <1>2, <1>3, <1>4, ParamShapes

\* A tensor of a part of q/k/v fills that part of its layer's stacked parameter.
LEMMA StackedLeaves ==
    ASSUME NEW l \in Owned, NEW s \in {"q", "k", "v"}, NEW t, NEW f,
           t = Tensor(l, "attn", LeafOf(s)), NoLayer \notin Owned
    PROVE  f \in Contributed(t) <=> f = Piece(Qkv(l), s, 0, t)
<1>1. /\ t.layer = l /\ t.module = "attn" /\ ~Elsewhere(t) /\ ~Skipped(t) /\ TiedPieces(t) = {}
      /\ t.leaf = LeafOf(s)
    BY DEF Tensor, Elsewhere, Skipped, TiedPieces
<1> DEFINE M == <<LeafOf(s), "qkv_proj", s>>
<1>2. Stacked(t) = {M}
    BY <1>1, StackedParams DEF Stacked, LeafOf
<1>3. M[2] = "qkv_proj" /\ M[3] = s
    OBVIOUS
<1> HIDE DEF M
<1>4. PiecesOf(t) = {Piece(<<t.layer, t.module, M[2]>>, M[3], 0, t)}
    BY <1>1, <1>2 DEF PiecesOf
<1>5. PiecesOf(t) = {Piece(Qkv(l), s, 0, t)}
    BY <1>1, <1>3, <1>4 DEF Qkv
<1> QED BY <1>1, <1>5 DEF Contributed

\* The leaves that are parameters of their own fill them whole.
LEMMA WholeLeaves ==
    ASSUME NEW l \in Owned, NEW t, NEW f, NoLayer \notin Owned
    PROVE  /\ t = Tensor(l, "attn", "o_proj") => (f \in Contributed(t) <=> f = Piece(Out(l), "whole", 0, t))
           /\ t = Tensor(l, "indexer", "q_proj") => (f \in Contributed(t) <=> f = Piece(Index(l), "whole", 0, t))
           /\ t = Tensor(l, "attn", "k_proj.k_scale") => (f \in Contributed(t) <=> f = Piece(Scale(l), "whole", 0, t))
<1>1. Out(l) \in Params /\ Index(l) \in Params /\ Scale(l) \in Params
    BY ParamShapes DEF LayerParam
<1>2. CASE t = Tensor(l, "attn", "o_proj")
    <2>1. t.layer = l /\ t.module = "attn" /\ t.leaf = "o_proj"
        BY <1>2 DEF Tensor
    <2>2. Stacked(t) = {}
        BY <2>1 DEF Stacked
    <2>3. ~Elsewhere(t) /\ ~Skipped(t) /\ TiedPieces(t) = {}
        BY <2>1 DEF Elsewhere, Skipped, TiedPieces
    <2>4. PiecesOf(t) = {Piece(Out(l), "whole", 0, t)}
        BY <2>1, <2>2, <1>1 DEF PiecesOf, Out
    <2> QED BY <2>1, <2>3, <2>4, <1>2 DEF Contributed, Tensor
<1>3. CASE t = Tensor(l, "indexer", "q_proj")
    <2>1. t.layer = l /\ t.module = "indexer" /\ t.leaf = "q_proj"
        BY <1>3 DEF Tensor
    <2>2. Stacked(t) = {}
        BY <2>1, StackedParams DEF Stacked
    <2>3. ~Elsewhere(t) /\ ~Skipped(t) /\ TiedPieces(t) = {}
        BY <2>1 DEF Elsewhere, Skipped, TiedPieces
    <2>4. PiecesOf(t) = {Piece(Index(l), "whole", 0, t)}
        BY <2>1, <2>2, <1>1 DEF PiecesOf, Index
    <2> QED BY <2>1, <2>3, <2>4, <1>3 DEF Contributed, Tensor
<1>4. CASE t = Tensor(l, "attn", "k_proj.k_scale")
    <2>1. t.layer = l /\ t.module = "attn" /\ t.leaf = "k_proj.k_scale"
        BY <1>4 DEF Tensor
    <2>2. Stacked(t) = {}
        BY <2>1 DEF Stacked
    <2>3. ~Elsewhere(t) /\ ~Skipped(t) /\ TiedPieces(t) = {}
        BY <2>1 DEF Elsewhere, Skipped, TiedPieces
    <2>4. PiecesOf(t) = {Piece(Scale(l), "whole", 0, t)}
        BY <2>1, <2>2, <1>1 DEF PiecesOf, Scale
    <2> QED BY <2>1, <2>3, <2>4, <1>4 DEF Contributed, Tensor
<1> QED BY <1>2, <1>3, <1>4

\* An expert's tensor fills its expert of the fused parameters: gate, up or down.
LEMMA ExpertContributes ==
    ASSUME NEW t, t.module = "experts", t.layer \in Owned, NoLayer \notin Owned, NEW f
    PROVE  f \in Contributed(t) <=>
             \E w \in Halves(t.leaf), e \in IF server.fused THEN Expert ELSE {t.item} :
                 f = Piece(<<t.layer, "experts", w[1]>>, w[2], e, t)
<1>1. ~Elsewhere(t) /\ ~Skipped(t) /\ TiedPieces(t) = {}
    BY DEF Elsewhere, Skipped, TiedPieces
<1>2. Contributed(t) = ExpertPieces(t)
    BY <1>1 DEF Contributed, PiecesOf
<1> QED BY <1>2 DEF ExpertPieces

\* The parameter and part of an expert's half.
HalfOf(leaf, name, l, p) ==
    \/ leaf \in {"gate_up_proj", "gate_proj"} /\ name = "w1" /\ p = GateUp(l)
    \/ leaf \in {"gate_up_proj", "up_proj"} /\ name = "w3" /\ p = GateUp(l)
    \/ leaf = "down_proj" /\ name = "w2" /\ p = Down(l)

\* The pieces of a gate and an up tensor, fused or apart.
LEMMA HalvesAre ==
    ASSUME NEW leaf \in {"gate_up_proj", "gate_proj", "up_proj", "down_proj"}, NEW l, NEW p, NEW name
    PROVE  HalfOf(leaf, name, l, p) <=>
             \E w \in Halves(leaf) : p = <<l, "experts", w[1]>> /\ name = w[2]
<1> DEFINE Gate == <<"w13", "w1">>
           Up == <<"w13", "w3">>
           Low == <<"w2", "w2">>
<1>1. /\ <<l, "experts", Gate[1]>> = GateUp(l) /\ Gate[2] = "w1"
      /\ <<l, "experts", Up[1]>> = GateUp(l) /\ Up[2] = "w3"
      /\ <<l, "experts", Low[1]>> = Down(l) /\ Low[2] = "w2"
    BY DEF GateUp, Down
<1>2. /\ leaf = "gate_up_proj" => Halves(leaf) = {Gate, Up}
      /\ leaf = "gate_proj" => Halves(leaf) = {Gate}
      /\ leaf = "up_proj" => Halves(leaf) = {Up}
      /\ leaf = "down_proj" => Halves(leaf) = {Low}
    BY DEF Halves
<1> HIDE DEF Gate, Up, Low
<1> QED BY <1>1, <1>2 DEF HalfOf

\* Which tensors of experts fill which pieces, item by item.
LEMMA ExpertHalves ==
    ASSUME NEW t, t.module = "experts", t.layer \in Owned, NoLayer \notin Owned, NEW f,
           t.leaf \in {"gate_up_proj", "gate_proj", "up_proj", "down_proj"}
    PROVE  f \in Contributed(t) <=>
             \E p, name : \E e \in IF server.fused THEN Expert ELSE {t.item} :
                 HalfOf(t.leaf, name, t.layer, p) /\ f = Piece(p, name, e, t)
<1> DEFINE Items == IF server.fused THEN Expert ELSE {t.item}
<1>1. f \in Contributed(t) <=>
        \E w \in Halves(t.leaf), e \in Items : f = Piece(<<t.layer, "experts", w[1]>>, w[2], e, t)
    BY ExpertContributes
<1> HIDE DEF Items
<1>2. ASSUME NEW w \in Halves(t.leaf), NEW e \in Items, f = Piece(<<t.layer, "experts", w[1]>>, w[2], e, t)
      PROVE  \E p, name : \E d \in Items : HalfOf(t.leaf, name, t.layer, p) /\ f = Piece(p, name, d, t)
    <2>1. HalfOf(t.leaf, w[2], t.layer, <<t.layer, "experts", w[1]>>)
        BY HalvesAre
    <2> QED BY <1>2, <2>1
<1>3. ASSUME NEW p, NEW name, NEW d \in Items, HalfOf(t.leaf, name, t.layer, p), f = Piece(p, name, d, t)
      PROVE  \E w \in Halves(t.leaf), e \in Items : f = Piece(<<t.layer, "experts", w[1]>>, w[2], e, t)
    <2>1. PICK w \in Halves(t.leaf) : p = <<t.layer, "experts", w[1]>> /\ name = w[2]
        BY <1>3, HalvesAre
    <2> QED BY <1>3, <2>1
<1>4. f \in Contributed(t) <=>
        \E p, name : \E d \in Items : HalfOf(t.leaf, name, t.layer, p) /\ f = Piece(p, name, d, t)
    BY <1>1, <1>2, <1>3
<1> QED BY <1>4 DEF Items

\* Tensors outside the layers fill their parameter, and a tied embedding the head too.
LEMMA OtherContributes ==
    ASSUME NEW t, NoLayer \notin Owned, NEW m \in {"mtp", "visual", "embed", "lm_head"},
           t = Tensor(NoLayer, m, "weight"), NEW f
    PROVE  f \in Contributed(t) <=>
             \/ OtherParam(m) /\ f = Piece(Other(m), "whole", 0, t)
             \/ m = "embed" /\ server.tied /\ LastStage /\ f = Piece(Other("lm_head"), "whole", 0, t)
<1>1. t.layer = NoLayer /\ t.module = m /\ t.leaf = "weight"
    BY DEF Tensor
<1>2. ~Elsewhere(t) /\ Stacked(t) = {}
    BY <1>1 DEF Elsewhere, Stacked
<1>3. PiecesOf(t) = IF Other(m) \in Params THEN {Piece(Other(m), "whole", 0, t)} ELSE {}
    BY <1>1, <1>2 DEF PiecesOf, Other
<1>4. Other(m) \in Params <=> OtherParam(m)
    <2>1. ASSUME NEW l \in Owned PROVE ~LayerParam(l, Other(m))
        BY DEF LayerParam, Other, Qkv, Out, Index, Scale, GateUp, Down
    <2>2. ASSUME NEW n, Other(n) = Other(m) PROVE n = m
        BY <2>2 DEF Other
    <2>3. OtherParam(m) => m \in {"embed", "lm_head", "visual"}
        BY DEF OtherParam
    <2> QED BY <2>1, <2>2, <2>3, ParamShapes
<1>5. Contributed(t) = IF Skipped(t) THEN {} ELSE TiedPieces(t) \cup PiecesOf(t)
    BY <1>1, <1>2 DEF Contributed
<1>6. CASE m = "mtp"
    BY <1>1, <1>5, <1>6 DEF Skipped, OtherParam
<1>7. CASE m = "visual"
    BY <1>1, <1>3, <1>4, <1>5, <1>7 DEF Skipped, TiedPieces, OtherParam
<1>8. CASE m = "embed"
    BY <1>1, <1>3, <1>4, <1>5, <1>8 DEF Skipped, TiedPieces, Other
<1>9. CASE m = "lm_head"
    BY <1>1, <1>3, <1>4, <1>5, <1>9 DEF Skipped, TiedPieces
<1> QED BY <1>6, <1>7, <1>8, <1>9

\* A tensor of a layer of another stage fills nothing.
LEMMA ElsewhereContributesNothing ==
    ASSUME NEW t, t.layer # NoLayer, t.layer \notin Owned, t.module \notin {"mtp", "visual", "embed"}
    PROVE  Contributed(t) = {}
BY DEF Contributed, Elsewhere, TiedPieces

-----------------------------------------------------------------------------
(* Part: what a parameter is made of *)

Entry(f) == [name |-> f.name, item |-> f.item, from |-> f.from]
EntryOf(name, n, t) == [name |-> name, item |-> n, from |-> t]

\* A piece's parameter and what is recorded in it.
LEMMA EntryOfPiece ==
    ASSUME NEW p, NEW name, NEW n, NEW t
    PROVE  Piece(p, name, n, t).param = p /\ Entry(Piece(p, name, n, t)) = EntryOf(name, n, t)
BY DEF Piece, Entry, EntryOf

\* What the attention parameters are when whole.
LEMMA WholeAttention ==
    ASSUME NEW l, NEW p, NEW w
    PROVE  /\ p = Qkv(l) => (w \in Whole(p) <=>
                \E s \in {"q", "k", "v"} : w = EntryOf(s, 0, Tensor(l, "attn", LeafOf(s))))
           /\ p = Out(l) => (w \in Whole(p) <=> w = EntryOf("whole", 0, Tensor(l, "attn", "o_proj")))
           /\ p = Index(l) => (w \in Whole(p) <=> w = EntryOf("whole", 0, Tensor(l, "indexer", "q_proj")))
           /\ p = Scale(l) => (w \in Whole(p) <=> w = EntryOf("whole", 0, Tensor(l, "attn", "k_proj.k_scale")))
<1>1. CASE p = Qkv(l)
    <2>1. p[1] = l /\ p[2] = "attn" /\ p[3] = "qkv_proj"
        BY <1>1 DEF Qkv
    <2>2. Whole(p) = {EntryOf("q", 0, Tensor(l, "attn", "q_proj")), EntryOf("k", 0, Tensor(l, "attn", "k_proj")),
                      EntryOf("v", 0, Tensor(l, "attn", "v_proj"))}
        BY <2>1 DEF Whole, EntryOf
    <2>3. p # Out(l) /\ p # Index(l) /\ p # Scale(l)
        BY <2>1 DEF Out, Index, Scale
    <2> QED BY <2>2, <2>3, <1>1 DEF LeafOf
<1>2. CASE p = Out(l)
    <2>1. p[1] = l /\ p[2] = "attn" /\ p[3] = "o_proj"
        BY <1>2 DEF Out
    <2>2. Whole(p) = {EntryOf("whole", 0, Tensor(l, "attn", "o_proj"))}
        BY <2>1 DEF Whole, EntryOf
    <2>3. p # Qkv(l) /\ p # Index(l) /\ p # Scale(l)
        BY <2>1 DEF Qkv, Index, Scale
    <2> QED BY <2>2, <2>3, <1>2
<1>3. CASE p = Index(l)
    <2>1. p[1] = l /\ p[2] = "indexer" /\ p[3] = "q_proj"
        BY <1>3 DEF Index
    <2>2. Whole(p) = {EntryOf("whole", 0, Tensor(l, "indexer", "q_proj"))}
        BY <2>1 DEF Whole, EntryOf
    <2>3. p # Qkv(l) /\ p # Out(l) /\ p # Scale(l)
        BY <2>1 DEF Qkv, Out, Scale
    <2> QED BY <2>2, <2>3, <1>3
<1>4. CASE p = Scale(l)
    <2>1. p[1] = l /\ p[2] = "attn" /\ p[3] = "k_scale"
        BY <1>4 DEF Scale
    <2>2. Whole(p) = {EntryOf("whole", 0, Tensor(l, "attn", "k_proj.k_scale"))}
        BY <2>1 DEF Whole, EntryOf
    <2>3. p # Qkv(l) /\ p # Index(l) /\ p # Out(l)
        BY <2>1 DEF Qkv, Index, Out
    <2> QED BY <2>2, <2>3, <1>4
<1> QED BY <1>1, <1>2, <1>3, <1>4

\* The tensor that fills a part of an expert parameter.
ExpertTensor(l, leaf, e) ==
    IF server.fused THEN Tensor(l, "experts", leaf) ELSE TensorOf(l, "experts", leaf, e)

GateLeaf == IF server.fused THEN "gate_up_proj" ELSE "gate_proj"
UpLeaf == IF server.fused THEN "gate_up_proj" ELSE "up_proj"

\* What the experts' parameters are when whole.
LEMMA WholeExperts ==
    ASSUME NEW l, NEW p, NEW w
    PROVE  /\ p = GateUp(l) => (w \in Whole(p) <=> \E e \in Expert :
                \/ w = EntryOf("w1", e, ExpertTensor(l, GateLeaf, e))
                \/ w = EntryOf("w3", e, ExpertTensor(l, UpLeaf, e)))
           /\ p = Down(l) => (w \in Whole(p) <=> \E e \in Expert :
                w = EntryOf("w2", e, ExpertTensor(l, "down_proj", e)))
<1>1. CASE p = GateUp(l)
    <2>1. p[1] = l /\ p[2] = "experts" /\ p[3] = "w13" /\ p # Down(l)
        BY <1>1 DEF GateUp, Down
    <2>2. CASE server.fused
        <3>1. Whole(p) = {EntryOf(v, e, Tensor(l, "experts", "gate_up_proj")) : v \in {"w1", "w3"}, e \in Expert}
            BY <2>1, <2>2 DEF Whole, EntryOf
        <3> QED BY <3>1, <2>1, <2>2 DEF ExpertTensor, GateLeaf, UpLeaf
    <2>3. CASE ~server.fused
        <3>1. Whole(p) = UNION {{EntryOf("w1", e, TensorOf(l, "experts", "gate_proj", e)),
                                 EntryOf("w3", e, TensorOf(l, "experts", "up_proj", e))} : e \in Expert}
            BY <2>1, <2>3 DEF Whole, EntryOf
        <3> QED BY <3>1, <2>1, <2>3 DEF ExpertTensor, GateLeaf, UpLeaf
    <2> QED BY <2>2, <2>3
<1>2. CASE p = Down(l)
    <2>1. p[1] = l /\ p[2] = "experts" /\ p[3] = "w2" /\ p # GateUp(l)
        BY <1>2 DEF GateUp, Down
    <2>2. CASE server.fused
        <3>1. Whole(p) = {EntryOf("w2", e, Tensor(l, "experts", "down_proj")) : e \in Expert}
            BY <2>1, <2>2 DEF Whole, EntryOf
        <3> QED BY <3>1, <2>1, <2>2 DEF ExpertTensor
    <2>3. CASE ~server.fused
        <3>1. Whole(p) = {EntryOf("w2", e, TensorOf(l, "experts", "down_proj", e)) : e \in Expert}
            BY <2>1, <2>3 DEF Whole, EntryOf
        <3> QED BY <3>1, <2>1, <2>3 DEF ExpertTensor
    <2> QED BY <2>2, <2>3
<1> QED BY <1>1, <1>2

\* What the parameters outside the layers are when whole.
LEMMA WholeOthers ==
    ASSUME NEW m \in {"embed", "lm_head", "visual"}, NEW p, NEW w, p = Other(m)
    PROVE  w \in Whole(p) <=>
             w = EntryOf("whole", 0, Tensor(NoLayer, IF m = "lm_head" /\ server.tied THEN "embed" ELSE m, "weight"))
<1>1. p[1] = NoLayer /\ p[2] = m /\ p[3] = "weight"
    BY DEF Other
<1> QED BY <1>1 DEF Whole, EntryOf

\* A stage owns layers of the model only.
LEMMA StageIsLayers ==
    ASSUME server \in Server
    PROVE  Owned \subseteq Layer /\ NoLayer \notin Owned /\ NoLayer \notin Layer
<1>1. server.stage \subseteq 0 .. 1
    BY LoadAssumption
<1>2. NoLayer \notin 0 .. 1
    BY LoadAssumption
<1> QED BY <1>1, <1>2 DEF Owned, Layer

\* The last stage owns the last layer.
LEMMA LastLayer ==
    ASSUME server \in Server
    PROVE  Max(server.stage) \in Layer
<1>1. server.stage \subseteq 0 .. 1 /\ server.stage # {}
    BY LoadAssumption
<1>2. \E x \in server.stage : \A y \in server.stage : x >= y
    <2>1. CASE 1 \in server.stage
        <3>1. \A y \in server.stage : 1 >= y
            BY <1>1
        <3> QED BY <2>1, <3>1
    <2>2. CASE 1 \notin server.stage
        <3>1. \A y \in server.stage : y = 0
            BY <1>1, <2>2
        <3> QED BY <1>1, <3>1
    <2> QED BY <2>1, <2>2
<1>3. Max(server.stage) \in server.stage
    BY <1>2 DEF Max
<1> QED BY <1>1, <1>3 DEF Layer

\* The kinds of tensors of the checkpoint.
LEMMA TensorKinds ==
    ASSUME server \in Server, slice \in Slices(server), NEW t \in slice
    PROVE  \/ t.module \in {"shard", "ple_buffer"}
           \/ \E l \in Layer : t \in LinearTensors(l)
           \/ \E m \in {"mtp", "visual", "embed", "lm_head"} :
                 t = Tensor(NoLayer, m, "weight") /\ (m = "lm_head" => ~server.tied)
           \/ \E l \in Layer : t \in ExpertTensors(server, l)
<1>1. CASE slice = TableTensors(server)
    BY <1>1 DEF TableTensors, TensorOf, Tensor
<1>2. CASE slice = AttentionTensors(server)
    BY <1>2 DEF AttentionTensors, Layer
<1>3. CASE slice = OtherTensors(server)
    <2>1. \/ \E m \in {"mtp", "visual", "embed"} : t = Tensor(NoLayer, m, "weight")
          \/ ~server.tied /\ t = Tensor(NoLayer, "lm_head", "weight")
          \/ \E l \in IF server.fused THEN Layer ELSE {Max(server.stage)} : t \in ExpertTensors(server, l)
        BY <1>3 DEF OtherTensors
    <2> QED BY <2>1, LastLayer
<1> QED BY <1>1, <1>2, <1>3 DEF Slices

\* Nothing is written into a parameter that is not a piece of it, from the tensor
\* that is named for it.
LEMMA PiecesAreOwn ==
    ASSUME server \in Server, slice \in Slices(server), NEW t \in slice, NEW f \in Contributed(t)
    PROVE  f.param \in Params /\ Entry(f) \in Whole(f.param)
<1>1. NoLayer \notin Owned /\ NoLayer \notin Layer
    BY StageIsLayers
<1>2. t.module \notin {"shard", "ple_buffer"}
    BY DEF Contributed
<1>3. ASSUME NEW l \in Layer, t \in LinearTensors(l)
      PROVE  f.param \in Params /\ Entry(f) \in Whole(f.param)
    <2>1. t.layer = l /\ t.module \notin {"mtp", "visual", "embed"}
        BY <1>3 DEF LinearTensors, Tensor
    <2>2. l \in Owned
        BY <2>1, <1>1, ElsewhereContributesNothing
    <2>3. ASSUME NEW s \in {"q", "k", "v"}, t = Tensor(l, "attn", LeafOf(s))
          PROVE  f.param \in Params /\ Entry(f) \in Whole(f.param)
        <3>1. f = Piece(Qkv(l), s, 0, t)
            BY <2>3, <2>2, <1>1, StackedLeaves
        <3>2. f.param = Qkv(l) /\ Entry(f) = EntryOf(s, 0, t)
            BY <3>1, EntryOfPiece
        <3>3. Qkv(l) \in Params
            BY <2>2, ParamShapes DEF LayerParam
        <3> QED BY <2>3, <3>2, <3>3, WholeAttention
    <2>4. CASE t = Tensor(l, "attn", "o_proj")
        <3>1. f.param = Out(l) /\ Entry(f) = EntryOf("whole", 0, t)
            BY <2>4, <2>2, <1>1, WholeLeaves, EntryOfPiece
        <3>2. Out(l) \in Params
            BY <2>2, ParamShapes DEF LayerParam
        <3> QED BY <2>4, <3>1, <3>2, WholeAttention
    <2>5. CASE t = Tensor(l, "indexer", "q_proj")
        <3>1. f.param = Index(l) /\ Entry(f) = EntryOf("whole", 0, t)
            BY <2>5, <2>2, <1>1, WholeLeaves, EntryOfPiece
        <3>2. Index(l) \in Params
            BY <2>2, ParamShapes DEF LayerParam
        <3> QED BY <2>5, <3>1, <3>2, WholeAttention
    <2>6. CASE t = Tensor(l, "attn", "k_proj.k_scale")
        <3>1. f.param = Scale(l) /\ Entry(f) = EntryOf("whole", 0, t)
            BY <2>6, <2>2, <1>1, WholeLeaves, EntryOfPiece
        <3>2. Scale(l) \in Params
            BY <2>2, ParamShapes DEF LayerParam
        <3> QED BY <2>6, <3>1, <3>2, WholeAttention
    <2>7. \/ \E s \in {"q", "k", "v"} : t = Tensor(l, "attn", LeafOf(s))
          \/ t \in {Tensor(l, "attn", "o_proj"), Tensor(l, "indexer", "q_proj"), Tensor(l, "attn", "k_proj.k_scale")}
        <3>1. LeafOf("q") = "q_proj" /\ LeafOf("k") = "k_proj" /\ LeafOf("v") = "v_proj"
            BY DEF LeafOf
        <3> QED BY <3>1, <1>3 DEF LinearTensors
    <2> QED BY <2>3, <2>4, <2>5, <2>6, <2>7
<1>4. ASSUME NEW m \in {"mtp", "visual", "embed", "lm_head"}, t = Tensor(NoLayer, m, "weight"),
             m = "lm_head" => ~server.tied
      PROVE  f.param \in Params /\ Entry(f) \in Whole(f.param)
    <2>1. CASE OtherParam(m) /\ f = Piece(Other(m), "whole", 0, t)
        <3>1. m \in {"embed", "lm_head", "visual"}
            BY <2>1 DEF OtherParam
        <3>2. f.param = Other(m) /\ Entry(f) = EntryOf("whole", 0, t)
            BY <2>1, EntryOfPiece
        <3>3. Other(m) \in Params
            BY <2>1, <3>1, ParamShapes
        <3> QED BY <1>4, <3>1, <3>2, <3>3, WholeOthers
    <2>2. CASE m = "embed" /\ server.tied /\ LastStage /\ f = Piece(Other("lm_head"), "whole", 0, t)
        <3>1. f.param = Other("lm_head") /\ Entry(f) = EntryOf("whole", 0, t)
            BY <2>2, EntryOfPiece
        <3>2. Other("lm_head") \in Params
            BY <2>2, ParamShapes DEF OtherParam
        <3> QED BY <1>4, <2>2, <3>1, <3>2, WholeOthers
    <2> QED BY <2>1, <2>2, <1>1, <1>4, OtherContributes
<1>5. ASSUME NEW l \in Layer, t \in ExpertTensors(server, l)
      PROVE  f.param \in Params /\ Entry(f) \in Whole(f.param)
    <2>1. /\ t.layer = l /\ t.module = "experts"
          /\ t.leaf \in {"gate_up_proj", "gate_proj", "up_proj", "down_proj"}
          /\ server.fused => /\ t.leaf \in {"gate_up_proj", "down_proj"}
                             /\ t = Tensor(l, "experts", t.leaf)
          /\ ~server.fused => /\ t.leaf \in {"gate_proj", "up_proj", "down_proj"} /\ t.item \in Expert
                              /\ t = TensorOf(l, "experts", t.leaf, t.item)
        BY <1>5 DEF ExpertTensors, Tensor, TensorOf
    <2>2. l \in Owned
        BY <2>1, <1>1, ElsewhereContributesNothing
    <2>3. PICK p, name : \E e \in IF server.fused THEN Expert ELSE {t.item} :
             HalfOf(t.leaf, name, l, p) /\ f = Piece(p, name, e, t)
        BY <2>1, <2>2, <1>1, ExpertHalves
    <2>4. PICK e \in Expert : f = Piece(p, name, e, t) /\ (~server.fused => e = t.item)
        BY <2>1, <2>3
    <2>5. f.param = p /\ Entry(f) = EntryOf(name, e, t)
        BY <2>4, EntryOfPiece
    <2>6. t = ExpertTensor(l, t.leaf, e)
        BY <2>1, <2>4 DEF ExpertTensor
    <2>7. p = GateUp(l) \/ p = Down(l)
        BY <2>3 DEF HalfOf
    <2>8. p \in Params
        BY <2>2, <2>7, ParamShapes DEF LayerParam
    <2>9. CASE name = "w1"
        <3>1. p = GateUp(l) /\ t.leaf = GateLeaf
            BY <2>1, <2>3, <2>9 DEF HalfOf, GateLeaf
        <3> QED BY <2>5, <2>6, <2>8, <2>9, <3>1, WholeExperts
    <2>10. CASE name = "w3"
        <3>1. p = GateUp(l) /\ t.leaf = UpLeaf
            BY <2>1, <2>3, <2>10 DEF HalfOf, UpLeaf
        <3> QED BY <2>5, <2>6, <2>8, <2>10, <3>1, WholeExperts
    <2>11. CASE name = "w2"
        <3>1. p = Down(l) /\ t.leaf = "down_proj"
            BY <2>1, <2>3, <2>11 DEF HalfOf
        <3> QED BY <2>5, <2>6, <2>8, <2>11, <3>1, WholeExperts
    <2> QED BY <2>3, <2>9, <2>10, <2>11 DEF HalfOf
<1> QED BY <1>2, <1>3, <1>4, <1>5, TensorKinds

\* Every piece of a parameter is in its tensor, and is taken from it.
LEMMA OwnPiecesCome ==
    ASSUME server \in Server, NEW p \in Params, NEW w \in Whole(p)
    PROVE  \E f \in Contributed(w.from) : f.param = p /\ Entry(f) = w
<1>1. NoLayer \notin Owned
    BY StageIsLayers
<1>2. ASSUME NEW name, NEW n, NEW t, w = EntryOf(name, n, t), Piece(p, name, n, t) \in Contributed(t)
      PROVE  \E f \in Contributed(w.from) : f.param = p /\ Entry(f) = w
    <2>1. w.from = t
        BY <1>2 DEF EntryOf
    <2> QED BY <1>2, <2>1, EntryOfPiece
<1>3. ASSUME NEW l \in Owned, p = Qkv(l)
      PROVE  \E f \in Contributed(w.from) : f.param = p /\ Entry(f) = w
    <2>1. PICK s \in {"q", "k", "v"} : w = EntryOf(s, 0, Tensor(l, "attn", LeafOf(s)))
        BY <1>3, WholeAttention
    <2>2. PICK t : t = Tensor(l, "attn", LeafOf(s))
        OBVIOUS
    <2> QED BY <2>1, <2>2, <1>1, <1>2, <1>3, StackedLeaves
<1>4. ASSUME NEW l \in Owned, p \in {Out(l), Index(l), Scale(l)}
      PROVE  \E f \in Contributed(w.from) : f.param = p /\ Entry(f) = w
    <2>1. CASE p = Out(l)
        <3>1. PICK t : t = Tensor(l, "attn", "o_proj")
            OBVIOUS
        <3> QED BY <2>1, <3>1, <1>1, <1>2, WholeAttention, WholeLeaves
    <2>2. CASE p = Index(l)
        <3>1. PICK t : t = Tensor(l, "indexer", "q_proj")
            OBVIOUS
        <3> QED BY <2>2, <3>1, <1>1, <1>2, WholeAttention, WholeLeaves
    <2>3. CASE p = Scale(l)
        <3>1. PICK t : t = Tensor(l, "attn", "k_proj.k_scale")
            OBVIOUS
        <3> QED BY <2>3, <3>1, <1>1, <1>2, WholeAttention, WholeLeaves
    <2> QED BY <1>4, <2>1, <2>2, <2>3
<1>5. ASSUME NEW l \in Owned, NEW leaf \in {"gate_up_proj", "gate_proj", "up_proj", "down_proj"},
             NEW name, NEW e \in Expert, HalfOf(leaf, name, l, p), w = EntryOf(name, e, ExpertTensor(l, leaf, e))
      PROVE  \E f \in Contributed(w.from) : f.param = p /\ Entry(f) = w
    <2>1. PICK t : t = ExpertTensor(l, leaf, e)
        OBVIOUS
    <2>2. /\ t.layer = l /\ t.module = "experts" /\ t.leaf = leaf
          /\ e \in IF server.fused THEN Expert ELSE {t.item}
        BY <2>1 DEF ExpertTensor, Tensor, TensorOf
    <2>3. Piece(p, name, e, t) \in Contributed(t)
        BY <2>2, <1>1, <1>5, ExpertHalves
    <2> QED BY <2>1, <2>3, <1>2, <1>5
<1>6. ASSUME NEW l \in Owned, p \in {GateUp(l), Down(l)}
      PROVE  \E f \in Contributed(w.from) : f.param = p /\ Entry(f) = w
    <2>1. CASE p = GateUp(l)
        <3>1. PICK e \in Expert : \/ w = EntryOf("w1", e, ExpertTensor(l, GateLeaf, e))
                                  \/ w = EntryOf("w3", e, ExpertTensor(l, UpLeaf, e))
            BY <2>1, WholeExperts
        <3>2. /\ HalfOf(GateLeaf, "w1", l, p) /\ HalfOf(UpLeaf, "w3", l, p)
              /\ {GateLeaf, UpLeaf} \subseteq {"gate_up_proj", "gate_proj", "up_proj", "down_proj"}
            BY <2>1 DEF HalfOf, GateLeaf, UpLeaf
        <3> QED BY <3>1, <3>2, <1>5
    <2>2. CASE p = Down(l)
        <3>1. PICK e \in Expert : w = EntryOf("w2", e, ExpertTensor(l, "down_proj", e))
            BY <2>2, WholeExperts
        <3>2. HalfOf("down_proj", "w2", l, p)
            BY <2>2 DEF HalfOf
        <3> QED BY <3>1, <3>2, <1>5
    <2> QED BY <1>6, <2>1, <2>2
<1>7. ASSUME NEW m \in {"embed", "lm_head", "visual"}, OtherParam(m), p = Other(m)
      PROVE  \E f \in Contributed(w.from) : f.param = p /\ Entry(f) = w
    <2>1. CASE m = "lm_head" /\ server.tied
        <3>1. PICK t : t = Tensor(NoLayer, "embed", "weight")
            OBVIOUS
        <3>2. w = EntryOf("whole", 0, t)
            BY <2>1, <3>1, <1>7, WholeOthers
        <3>3. LastStage
            BY <2>1, <1>7 DEF OtherParam
        <3>4. Piece(p, "whole", 0, t) \in Contributed(t)
            BY <2>1, <3>1, <3>3, <1>1, <1>7, OtherContributes
        <3> QED BY <3>2, <3>4, <1>2
    <2>2. CASE ~(m = "lm_head" /\ server.tied)
        <3>1. PICK t : t = Tensor(NoLayer, m, "weight")
            OBVIOUS
        <3>2. w = EntryOf("whole", 0, t)
            BY <2>2, <3>1, <1>7, WholeOthers
        <3>3. Piece(p, "whole", 0, t) \in Contributed(t)
            BY <3>1, <1>1, <1>7, OtherContributes
        <3> QED BY <3>2, <3>3, <1>2
    <2> QED BY <2>1, <2>2
<1> QED BY <1>3, <1>4, <1>6, <1>7, ParamShapes DEF LayerParam
-----------------------------------------------------------------------------
(* Part: loading, one tensor after the other *)

\* What was written is what the tensors that came contribute, in any order; the
\* copies were made behind the last of them.
Arrived ==
    /\ server \in Server /\ slice \in Slices(server) /\ pending \subseteq slice
    /\ filled = UNION {Contributed(t) : t \in slice \ pending}
    /\ status = "loaded" => pending = {}

Copied == \A c \in cast : pending = {} /\ c.param \in Params /\ c.pieces = {f \in filled : f.param = c.param}

LoadInv == Arrived /\ Copied

\* What a tensor contributes does not change while a load goes on.
LEMMA OneServer ==
    ASSUME server' = server
    PROVE  Params' = Params /\ \A t : Contributed(t)' = Contributed(t)
<1>1. Owned' = Owned /\ FirstStage' = FirstStage /\ LastStage' = LastStage
    BY DEF Owned, FirstStage, LastStage
<1>2. Params' = Params
    BY <1>1 DEF Params
<1>3. ASSUME NEW t PROVE Contributed(t)' = Contributed(t)
    <2>1. Stacked(t)' = Stacked(t)
        BY <1>2 DEF Stacked
    <2>2. PiecesOf(t)' = PiecesOf(t)
        BY <1>2, <2>1 DEF PiecesOf, ExpertPieces
    <2>3. TiedPieces(t)' = TiedPieces(t) /\ Elsewhere(t)' = Elsewhere(t) /\ Skipped(t)' = Skipped(t)
        BY <1>1 DEF TiedPieces, Elsewhere, Skipped
    <2> QED BY <2>2, <2>3 DEF Contributed
<1> QED BY <1>2, <1>3

\* Before the first tensor nothing is filled and nothing copied.
LEMMA LoadInvAtFirst == Init => LoadInv
<1> SUFFICES ASSUME Init PROVE LoadInv
    OBVIOUS
<1>1. slice \ pending = {} /\ filled = {} /\ cast = {} /\ status = "loading"
    BY DEF Init
<1> QED BY <1>1 DEF Init, LoadInv, Arrived, Copied

\* A turn of the loop adds exactly what its tensor contributes.
LEMMA TensorsAreAdded ==
    ASSUME LoadInv, NEW t \in pending, Load(t)
    PROVE  filled' = filled \cup Contributed(t)
<1>1. CASE LoadShard(t)
    BY <1>1 DEF LoadShard, Contributed
<1>2. CASE LoadBuffer(t)
    BY <1>2 DEF LoadBuffer, Contributed
<1>3. CASE LoadTensor(t)
    <2>1. t.module \notin {"shard", "ple_buffer"}
        BY <1>3 DEF LoadTensor
    <2>2. CASE Skipped(t)
        BY <2>1, <2>2, <1>3 DEF LoadTensor, Contributed
    <2>3. CASE ~Skipped(t)
        BY <2>1, <2>3, <1>3 DEF LoadTensor, Contributed
    <2> QED BY <2>2, <2>3
<1> QED BY <1>1, <1>2, <1>3 DEF Load

\* Every step keeps it: nothing is filled but by a tensor, and copies come last.
LEMMA LoadInvIsKept == LoadInv /\ [Next]_vars => LoadInv'
<1> SUFFICES ASSUME LoadInv, [Next]_vars PROVE LoadInv'
    OBVIOUS
<1>1. ASSUME UNCHANGED <<server, slice, pending, filled, cast>>, status' = "loaded" => status = "loaded"
      PROVE  LoadInv'
    <2>1. Params' = Params /\ \A t : Contributed(t)' = Contributed(t)
        BY <1>1, OneServer
    <2>2. filled' = UNION {Contributed(t)' : t \in slice' \ pending'}
        BY <1>1, <2>1 DEF LoadInv, Arrived
    <2>3. Arrived'
        BY <1>1, <2>2 DEF LoadInv, Arrived
    <2>4. Copied'
        BY <1>1, <2>1 DEF LoadInv, Copied
    <2> QED BY <2>3, <2>4 DEF LoadInv
<1>2. ASSUME NEW t \in pending, Load(t) PROVE LoadInv'
    <2>1. UNCHANGED <<server, slice, cast>> /\ pending' = pending \ {t} /\ status = "loading"
        BY <1>2 DEF Load
    <2>2. Params' = Params /\ \A u : Contributed(u)' = Contributed(u)
        BY <2>1, OneServer
    <2>3. filled' = filled \cup Contributed(t)
        BY <1>2, TensorsAreAdded
    <2>4. slice' \ pending' = (slice \ pending) \cup {t}
        BY <1>2, <2>1 DEF LoadInv, Arrived
    <2>5. filled' = UNION {Contributed(u)' : u \in slice' \ pending'}
        BY <2>2, <2>3, <2>4 DEF LoadInv, Arrived
    <2>6. status' # "loaded"
        BY <1>2, <2>1 DEF Load, LoadShard, LoadBuffer, LoadTensor
    <2>7. Arrived'
        BY <2>1, <2>5, <2>6 DEF LoadInv, Arrived
    <2>8. cast' = {}
        BY <1>2, <2>1 DEF LoadInv, Copied
    <2> QED BY <2>7, <2>8 DEF LoadInv, Copied
<1>3. CASE Finish
    <2>1. UNCHANGED <<server, slice, pending, filled>> /\ pending = {} /\ cast' = Copies
        BY <1>3 DEF Finish
    <2>2. Params' = Params /\ \A t : Contributed(t)' = Contributed(t)
        BY <2>1, OneServer
    <2>3. filled' = UNION {Contributed(t)' : t \in slice' \ pending'}
        BY <2>1, <2>2 DEF LoadInv, Arrived
    <2>4. Arrived'
        BY <2>1, <2>3 DEF LoadInv, Arrived
    <2>5. Casts \subseteq Params
        BY DEF Casts, Dense
    <2>6. Copied'
        BY <2>1, <2>2, <2>5 DEF Copied, Copies
    <2> QED BY <2>4, <2>6 DEF LoadInv
<1>4. CASE Build
    BY <1>1, <1>4 DEF Build
<1>5. ASSUME NEW tokens, Prepare(tokens) PROVE LoadInv'
    BY <1>1, <1>5 DEF Prepare
<1>6. ASSUME NEW l, NEW fused, Lookup(l, fused) PROVE LoadInv'
    BY <1>1, <1>6 DEF Lookup
<1>7. CASE UNCHANGED vars
    BY <1>1, <1>7 DEF vars
<1> QED BY <1>2, <1>3, <1>4, <1>5, <1>6, <1>7 DEF Next

\* With all tensors of the slice there, a parameter that all of its tensors came
\* for is whole.
LEMMA ArrivedIsWhole ==
    ASSUME Arrived, pending = {}, NEW p \in Params, Came(p)
    PROVE  Origins({f \in filled : f.param = p}) = Whole(p)
<1>1. filled = UNION {Contributed(t) : t \in slice}
    BY DEF Arrived
<1>2. ASSUME NEW o \in Origins({f \in filled : f.param = p}) PROVE o \in Whole(p)
    <2>1. PICK f \in filled : f.param = p /\ o = Entry(f)
        BY <1>2 DEF Origins, Entry
    <2>2. PICK t \in slice : f \in Contributed(t)
        BY <1>1, <2>1
    <2> QED BY <2>1, <2>2, PiecesAreOwn DEF Arrived
<1>3. ASSUME NEW w \in Whole(p) PROVE w \in Origins({f \in filled : f.param = p})
    <2>1. w.from \in slice
        BY <1>3 DEF Came
    <2>2. PICK f \in Contributed(w.from) : f.param = p /\ Entry(f) = w
        BY <1>3, OwnPiecesCome DEF Arrived
    <2>3. f \in filled
        BY <1>1, <2>1, <2>2
    <2> QED BY <2>2, <2>3 DEF Origins, Entry
<1> QED BY <1>2, <1>3

\* load_weights: in whatever order the tensors come, every parameter that they are
\* for has all of its pieces, each from its own tensor, and so has its fp8 copy.
THEOREM ParametersAreWhole == Spec => []LoadedIsWhole
<1>1. LoadInv => LoadedIsWhole
    <2> SUFFICES ASSUME LoadInv PROVE LoadedIsWhole
        OBVIOUS
    <2>1. ASSUME status = "loaded", NEW p \in Params, Came(p)
          PROVE  Origins({f \in filled : f.param = p}) = Whole(p)
        BY <2>1, ArrivedIsWhole DEF LoadInv, Arrived
    <2>2. ASSUME NEW c \in cast, Came(c.param)
          PROVE  Origins(c.pieces) = Whole(c.param)
        BY <2>2, ArrivedIsWhole DEF LoadInv, Copied
    <2> QED BY <2>1, <2>2 DEF LoadedIsWhole
<1> QED BY <1>1, LoadInvAtFirst, LoadInvIsKept, PTL DEF Spec

-----------------------------------------------------------------------------
(* Part: the n-gram that a token is hashed with *)

\* The greatest of some numbers below a bound.
LEMMA GreatestBelow ==
    ASSUME NEW n \in Nat, NEW S \in SUBSET (1 .. n), S # {}
    PROVE  Max(S) \in S /\ \A y \in S : y <= Max(S)
<1> DEFINE D == {d \in Nat : n - d \in S}
<1>1. D \in SUBSET Nat /\ D # {}
    <2>1. PICK x \in S : x \in 1 .. n
        OBVIOUS
    <2>2. n - x \in Nat /\ n - (n - x) = x
        BY <2>1
    <2> QED BY <2>2
<1>2. PICK d \in D : \A e \in D : d <= e
    BY <1>1, LeastNat
<1>3. ASSUME NEW y \in S PROVE n - d >= y
    <2>1. n - y \in Nat /\ n - (n - y) = y
        OBVIOUS
    <2>2. d <= n - y
        BY <2>1, <1>2
    <2>3. y \in Int /\ d \in Int
        OBVIOUS
    <2> HIDE DEF D
    <2> QED BY <2>2, <2>3
<1>4. \E x \in S : \A y \in S : x >= y
    BY <1>2, <1>3
<1>5. Max(S) \in S /\ \A y \in S : Max(S) >= y
    <2> DEFINE P(x) == x \in S /\ \A y \in S : x >= y
    <2>1. \E x : P(x)
        BY <1>4
    <2>2. P(CHOOSE x : P(x))
        BY <2>1
    <2>3. Max(S) = CHOOSE x : P(x)
        BY DEF Max
    <2> QED BY <2>2, <2>3
<1> QED BY <1>5

\* The last column of a shifted window: no token from behind an EOS is shifted in.
LEMMA ShiftedLast ==
    ASSUME NEW N \in Nat \ {0}, NEW w \in Seq(Token), Len(w) = N, NEW n \in 1 .. N - 1
    PROVE  Last(ShiftRight(w, n)) = IF \E m \in 1 .. n : w[N - m] = Eos THEN Eos ELSE w[N - n]
<1> DEFINE ends == {j \in 1 .. N - 1 : w[j] = Eos}
           start == IF ends = {} THEN 1 ELSE Max(ends) + 1
           f == ShiftRight(w, n)
<1>1. DOMAIN w = 1 .. N
    OBVIOUS
<1>2. f = [o \in 1 .. N |-> f[o]] /\ f[N] = IF N - start >= n /\ N - n >= 1 THEN w[N - n] ELSE Eos
    BY <1>1 DEF ShiftRight
<1>3. Last(f) = f[N]
    <2> HIDE DEF f
    <2>1. Len(f) = N
        BY <1>2, FunctionIsSequence
    <2> QED BY <2>1 DEF Last
<1>4. N - n >= 1 /\ n \in Nat /\ n >= 1
    OBVIOUS
<1>5. CASE ends = {}
    <2>1. ~ \E m \in 1 .. n : w[N - m] = Eos
        <3>1. ASSUME NEW m \in 1 .. n, w[N - m] = Eos PROVE FALSE
            <4>1. N - m \in 1 .. N - 1
                BY <1>4
            <4> QED BY <3>1, <4>1, <1>5
        <3> QED BY <3>1
    <2>2. N - start >= n
        BY <1>4, <1>5
    <2> QED BY <1>2, <1>3, <1>4, <2>1, <2>2
<1>6. CASE ends # {}
    <2>1. PICK x \in ends : x = Max(ends) /\ \A y \in ends : y <= x
        <3>1. N - 1 \in Nat /\ ends \in SUBSET (1 .. N - 1)
            BY <1>4
        <3> HIDE DEF ends
        <3> QED BY <3>1, <1>6, GreatestBelow
    <2>2. x \in 1 .. N - 1 /\ w[x] = Eos /\ start = x + 1
        BY <2>1, <1>6
    <2>3. (N - start >= n) <=> x < N - n
        BY <2>2, <1>4
    <2>4. (\E m \in 1 .. n : w[N - m] = Eos) <=> ~ (x < N - n)
        <3>1. ASSUME NEW m \in 1 .. n, w[N - m] = Eos PROVE ~ (x < N - n)
            <4>1. N - m \in ends /\ N - m >= N - n
                BY <3>1, <1>4
            <4> QED BY <4>1, <2>1, <2>2, <1>4
        <3>2. ASSUME ~ (x < N - n) PROVE \E m \in 1 .. n : w[N - m] = Eos
            <4>1. N - x \in 1 .. n /\ N - (N - x) = x
                BY <3>2, <2>2, <1>4
            <4> QED BY <4>1, <2>2
        <3> QED BY <3>1, <3>2
    <2>5. Last(f) = IF x < N - n THEN w[N - n] ELSE Eos
        <3> HIDE DEF start, f, ends
        <3> QED BY <1>2, <1>3, <1>4, <2>3
    <2> HIDE DEF start, ends
    <2> QED BY <2>4, <2>5
<1> QED BY <1>5, <1>6

\* The column that the head hashes for the k-th token of a row.
ColumnOf(tokens, k) ==
    [n \in 0 .. NgramSize - 1 |->
        IF \E m \in 1 .. n : tokens[k + NgramSize - 1 - m] = Eos THEN Eos
        ELSE tokens[k + NgramSize - 1 - n]]

\* The last columns of a token's shifted windows are its own n-gram, and tokens.
LEMMA WindowsGiveOwnColumn ==
    ASSUME NEW u \in Seq(Token), NEW k \in DOMAIN Windows(u)
    PROVE  LET shifted == ShiftedWindows(Windows(u)[k])
           IN  [n \in DOMAIN shifted |-> Last(shifted[n])] = ColumnOf(u, k)
<1> DEFINE w == Windows(u)[k]
           shifted == ShiftedWindows(w)
<1>1. PICK N \in Nat \ {0} : N = NgramSize
    BY PleTableAssumption
<1>2. k \in 1 .. Len(u) - N + 1 /\ w = SubSeq(u, k, k + N - 1)
    BY <1>1 DEF Windows
<1>3. PICK d \in Nat : k = d + 1 /\ d + N <= Len(u)
    <2>1. k - 1 \in Nat /\ (k - 1) + 1 = k /\ (k - 1) + N <= Len(u)
        BY <1>1, <1>2
    <2> QED BY <2>1
<1>4. PICK v \in Seq(Token) : v = w /\ Len(v) = N /\ \A j \in 1 .. N : v[j] = u[d + j]
    <2>1. k + N - 1 = d + N
        BY <1>3
    <2>2. /\ SubSeq(u, d + 1, d + N) \in Seq(Token) /\ Len(SubSeq(u, d + 1, d + N)) = N
          /\ \A j \in 1 .. N : SubSeq(u, d + 1, d + N)[j] = u[d + j]
        BY <1>3, WindowFacts
    <2>3. w = SubSeq(u, d + 1, d + N)
        BY <1>2, <1>3, <2>1
    <2> QED BY <2>2, <2>3
<1>5. ASSUME NEW n \in 0 .. N - 1
      PROVE  Last(shifted[n]) = IF \E m \in 1 .. n : u[k + N - 1 - m] = Eos THEN Eos
                                ELSE u[k + N - 1 - n]
    <2>1. \A m \in 0 .. N - 1 : N - m \in 1 .. N /\ u[k + N - 1 - m] = v[N - m]
        <3>1. ASSUME NEW m \in 0 .. N - 1 PROVE N - m \in 1 .. N /\ u[k + N - 1 - m] = v[N - m]
            <4>1. N - m \in 1 .. N /\ k + N - 1 - m = d + (N - m)
                BY <1>3
            <4> QED BY <4>1, <1>4
        <3> QED BY <3>1
    <2>2. CASE n = 0
        <3>1. shifted[n] = v
            BY <2>2, <1>1, <1>4 DEF ShiftedWindows
        <3>2. Last(v) = v[N]
            BY <1>4 DEF Last
        <3>3. v[N] = u[k + N - 1 - n]
            <4>1. N - 0 = N /\ 0 \in 0 .. N - 1
                OBVIOUS
            <4> QED BY <4>1, <2>1, <2>2
        <3> QED BY <3>1, <3>2, <3>3, <2>2
    <2>3. CASE n # 0
        <3>1. n \in 1 .. N - 1
            BY <2>3
        <3>2. shifted[n] = ShiftRight(v, n)
            BY <2>3, <1>1, <1>4 DEF ShiftedWindows
        <3>3. Last(ShiftRight(v, n)) = IF \E m \in 1 .. n : v[N - m] = Eos THEN Eos ELSE v[N - n]
            BY <3>1, <1>4, ShiftedLast
        <3>4. \A m \in 1 .. n : u[k + N - 1 - m] = v[N - m]
            <4>1. \A m \in 1 .. n : m \in 0 .. N - 1
                BY <3>1
            <4> HIDE DEF shifted
            <4> QED BY <4>1, <2>1
        <3>5. u[k + N - 1 - n] = v[N - n]
            BY <2>1, <3>1
        <3> HIDE DEF shifted
        <3> QED BY <3>2, <3>3, <3>4, <3>5
    <2> QED BY <2>2, <2>3
<1>6. DOMAIN shifted = 0 .. N - 1
    BY <1>1 DEF ShiftedWindows
<1> HIDE DEF shifted
<1>7. [n \in DOMAIN shifted |-> Last(shifted[n])] = ColumnOf(u, k)
    BY <1>1, <1>5, <1>6 DEF ColumnOf
<1> QED BY <1>7 DEF shifted

\* A column is made of tokens.
LEMMA ColumnsAreTokens ==
    ASSUME NEW u \in Seq(Token), NEW k \in DOMAIN Windows(u)
    PROVE  ColumnOf(u, k) \in [0 .. NgramSize - 1 -> Token]
<1>1. PICK N \in Nat \ {0} : N = NgramSize
    BY PleTableAssumption
<1>2. k \in 1 .. Len(u) - N + 1
    BY <1>1 DEF Windows
<1>3. ASSUME NEW n \in 0 .. N - 1 PROVE u[k + N - 1 - n] \in Token
    <2>1. k + N - 1 - n \in 1 .. Len(u)
        BY <1>2
    <2> QED BY <2>1
<1>4. Eos \in Token
    BY PleTableAssumption
<1> QED BY <1>1, <1>3, <1>4 DEF ColumnOf

-----------------------------------------------------------------------------
(* Part: ids and where the table keeps them *)

\* There are heads, and their n-grams have two tokens at least and fit in a column.
LEMMA HeadNgrams ==
    /\ NgramHeads \in Nat \ {0}
    /\ \A h \in Heads : h \in Nat /\ h + 1 \in 0 .. NgramHeads /\ h \in 0 .. NgramHeads
                        /\ 2 + h \div HeadsPerNgram \in 2 .. NgramSize
<1>1. PICK N \in Nat, H \in Nat \ {0} : N = NgramSize /\ H = HeadsPerNgram /\ N >= 2
    BY PleTableAssumption
<1>2. (N - 1) * H \in Nat \ {0}
    <2>1. N - 1 \in Nat \ {0}
        BY <1>1
    <2> QED BY <2>1, SMTT(30)
<1>3. NgramHeads = (N - 1) * H
    BY <1>1 DEF NgramHeads
<1>4. PICK c \in Nat \ {0} : c = NgramHeads /\ c = (N - 1) * H
    BY <1>2, <1>3
<1>5. ASSUME NEW h \in Heads PROVE h \in Nat /\ h < c /\ 2 + h \div H \in 2 .. N
    <2>1. h \in Nat /\ h < c
        BY <1>4 DEF Heads
    <2>2. h \div H \in Nat
        BY <2>1, DivNat
    <2>3. ~ (N - 2 < h \div H)
        <3>1. N - 2 \in Int /\ (N - 2) + 1 = N - 1
            BY <1>1
        <3>2. N - 2 < h \div H <=> ((N - 2) + 1) * H <= h
            BY <2>1, <3>1, BelowDiv
        <3> QED BY <3>1, <3>2, <2>1, <1>4
    <2>4. PICK q \in Nat : q = h \div H /\ ~ (N - 2 < q)
        BY <2>2, <2>3
    <2>5. 2 + q \in 2 .. N
        BY <2>4, <1>1
    <2> QED BY <2>1, <2>4, <2>5
<1>6. ASSUME NEW h \in Heads PROVE h + 1 \in 0 .. NgramHeads /\ h \in 0 .. NgramHeads
    BY <1>4, <1>5
<1> QED BY <1>1, <1>4, <1>5, <1>6

\* A head's range: it has rows, begins at a number and ends within the table.
LEMMA HeadRange ==
    ASSUME HeadsFollow, NEW l \in PleLayer, NEW h \in Heads
    PROVE  \E size \in Nat \ {0}, first \in Nat, total \in Nat :
            /\ size = HeadVocabSize[l, h] /\ first = HeadOffset[l, h] /\ total = TotalVocab(l)
            /\ HeadOffset[l, h + 1] = first + size /\ first + size <= total
<1>1. ASSUME NEW j \in Heads
      PROVE  /\ HeadVocabSize[l, j] \in Nat \ {0} /\ HeadOffset[l, j] \in Nat
             /\ HeadOffset[l, j + 1] = HeadOffset[l, j] + HeadVocabSize[l, j]
             /\ HeadOffset[l, j + 1] <= TotalVocab(l)
    BY Zenon DEF HeadsFollow
<1>2. ASSUME NEW j \in Heads
      PROVE  \E size \in Nat \ {0}, first \in Nat :
            /\ size = HeadVocabSize[l, j] /\ first = HeadOffset[l, j]
            /\ HeadOffset[l, j + 1] = first + size /\ first + size <= TotalVocab(l)
    <2>1. PICK size \in Nat \ {0}, first \in Nat : size = HeadVocabSize[l, j] /\ first = HeadOffset[l, j]
        BY <1>1
    <2>2. HeadOffset[l, j + 1] = first + size
        BY <1>1, <2>1, Zenon
    <2>3. first + size <= TotalVocab(l)
        BY <1>1, <2>2, Zenon
    <2> QED BY <2>1, <2>2, <2>3
<1>3. TotalVocab(l) \in Nat
    <2>1. PICK c \in Nat \ {0} : c = NgramHeads
        BY HeadNgrams
    <2>2. PICK j \in Heads : j + 1 = c
        <3>1. c - 1 \in Heads /\ (c - 1) + 1 = c
            BY <2>1 DEF Heads
        <3> QED BY <3>1
    <2>3. PICK size \in Nat \ {0}, first \in Nat : HeadOffset[l, j + 1] = first + size
        BY <1>2
    <2>4. TotalVocab(l) = HeadOffset[l, j + 1]
        BY <2>1, <2>2 DEF TotalVocab
    <2>5. first + size \in Nat
        OBVIOUS
    <2> QED BY <2>3, <2>4, <2>5
<1>4. PICK total \in Nat : total = TotalVocab(l)
    BY <1>3
<1>5. PICK size \in Nat \ {0}, first \in Nat :
            /\ size = HeadVocabSize[l, h] /\ first = HeadOffset[l, h]
            /\ HeadOffset[l, h + 1] = first + size /\ first + size <= total
    BY <1>2, <1>4
<1> QED BY <1>4, <1>5

\* An id lies in the range of its head, and below the table's end.
LEMMA IdsAreOfTheirHead ==
    ASSUME HeadsFollow, HashesAreWords, NEW l \in PleLayer, NEW u \in Seq(Token),
           NEW k \in DOMAIN Windows(u), NEW h \in Heads
    PROVE  /\ NgramIdOf(l, ColumnOf(u, k), h) \in HeadOffset[l, h] .. HeadOffset[l, h + 1] - 1
           /\ NgramIdOf(l, ColumnOf(u, k), h) \in 0 .. TotalVocab(l) - 1
           /\ TotalVocab(l) \in Nat
<1>1. PICK c \in [0 .. NgramSize - 1 -> Token] : c = ColumnOf(u, k)
    BY ColumnsAreTokens
<1>2. PICK x \in Int : x = Signed(MixOf(l, c, 2 + h \div HeadsPerNgram))
    BY HeadNgrams DEF HashesAreWords
<1>3. PICK size \in Nat \ {0}, first \in Nat, total \in Nat :
            /\ size = HeadVocabSize[l, h] /\ first = HeadOffset[l, h] /\ total = TotalVocab(l)
            /\ HeadOffset[l, h + 1] = first + size /\ first + size <= total
    BY HeadRange
<1>5. x % size \in 0 .. size - 1
    BY DivMod
<1>6. NgramIdOf(l, c, h) = first + (x % size)
    BY <1>2, <1>3 DEF NgramIdOf
<1>7. PICK m \in 0 .. size - 1 : m = x % size
    BY <1>5
<1>8. first + m \in first .. (first + size) - 1 /\ first + m \in 0 .. total - 1
    <2>1. m \in Int /\ 0 <= m /\ m <= size - 1
        OBVIOUS
    <2>2. first + size <= total
        BY <1>3
    <2> QED BY <2>1, <2>2
<1> QED BY <1>1, <1>3, <1>6, <1>7, <1>8

\* The table is padded upwards, and cut into shards and parts that cover it.
LEMMA TableSizes ==
    ASSUME HeadsFollow, server \in Server, NEW l \in Layer
    PROVE  /\ l \in PleLayer /\ TotalVocab(l) \in Nat /\ PaddedVocab(l, server.divisor) \in Nat \ {0}
           /\ TotalVocab(l) <= PaddedVocab(l, server.divisor)
           /\ ShardSize(l) \in Nat \ {0} /\ SplitParts \in Nat \ {0}
           /\ PaddedVocab(l, server.divisor) <= ShardSize(l) * SplitParts
           /\ PartSize(l) \in Nat \ {0} /\ server.ranks \in Nat \ {0}
           /\ PaddedVocab(l, server.divisor) <= PartSize(l) * server.ranks
           /\ Rank = 0 .. server.ranks - 1
<1>1. l \in PleLayer
    BY LoadAssumption DEF Layer
<1>2. PICK t \in Nat \ {0} : t = TotalVocab(l)
    <2>1. 0 \in Heads /\ 0 \in Nat
        BY HeadNgrams DEF Heads
    <2>2. PICK h \in Heads : h = 0
        BY <2>1
    <2>3. PICK size \in Nat \ {0}, first \in Nat, total \in Nat :
            total = TotalVocab(l) /\ first + size <= total
        BY <1>1, HeadRange
    <2>4. total # 0
        BY <2>3
    <2> QED BY <2>3, <2>4
<1>3. PICK d \in Nat \ {0} : d = server.divisor
    BY LoadAssumption
<1>5. PICK c \in Nat \ {0} : c = server.ranks /\ Rank = 0 .. c - 1
    BY LoadAssumption DEF Rank
<1>6. PICK p \in Nat \ {0} : p = SplitParts
    BY PleTableAssumption
<1>7. ASSUME NEW m \in Nat \ {0}, NEW w \in Nat \ {0}
      PROVE  /\ Ceiling(m, w) \in Nat \ {0} /\ m <= Ceiling(m, w) * w
    <2>1. PICK q \in Int : q = Ceiling(m, w) /\ m <= q * w /\ q * w \in Int
        BY CeilDiv DEF Ceiling
    <2>2. ~ (q < 1)
        <3>1. ASSUME q < 1 PROVE FALSE
            <4>1. q * w <= 0
                <5>1. q = 0 \/ q < 0
                    BY <3>1
                <5>2. q < 0 => q * w + w <= 0 * w
                    BY MulLess
                <5> QED BY <5>1, <5>2, <2>1
            <4> QED BY <4>1, <2>1
        <3> QED BY <3>1
    <2> QED BY <2>1, <2>2
<1>8. PICK v \in Nat \ {0} : v = PaddedVocab(l, server.divisor) /\ t <= v
    <2>1. Ceiling(t, d) \in Nat \ {0} /\ t <= Ceiling(t, d) * d
        BY <1>7
    <2>2. PICK q \in Nat \ {0} : q = Ceiling(t, d) /\ t <= q * d
        BY <2>1
    <2>3. q * d \in Nat
        OBVIOUS
    <2> QED BY <2>2, <2>3, <1>2, <1>3 DEF PaddedVocab
<1>9. ShardSize(l) = Ceiling(v, p) /\ PartSize(l) = Ceiling(v, c)
    BY <1>5, <1>6, <1>8 DEF ShardSize, PartSize
<1> QED BY <1>1, <1>2, <1>5, <1>6, <1>7, <1>8, <1>9

\* A rank's part of a table once these shards came.
RowAt(l, r, i, came) ==
    IF PartStart(l, r) + i < PartEnd(l, r) /\ (PartStart(l, r) + i) \div ShardSize(l) \in came
    THEN Stored(PartStart(l, r) + i) ELSE NoRow
TableAt(l, came) == [r \in Rank |-> [i \in 0 .. PartSize(l) - 1 |-> RowAt(l, r, i, came)]]

LEMMA NothingCame == ASSUME NEW l PROVE NoPart(l) = TableAt(l, {})
<1>1. \A r, i : RowAt(l, r, i, {}) = NoRow
    BY DEF RowAt
<1> QED BY <1>1 DEF NoPart, TableAt

\* Multiples of w up to x are those up to x \div w.
LEMMA DivIs ==
    ASSUME NEW x \in Nat, NEW w \in Nat \ {0}, NEW n \in Nat
    PROVE  /\ n * w \in Nat /\ (n + 1) * w = n * w + w
           /\ (x \div w = n) <=> (n * w <= x /\ x < n * w + w)
<1>1. n * w \in Nat /\ (n + 1) * w = n * w + w
    BY SMTT(30)
<1>2. PICK q \in Int, i \in 0 .. w - 1 : q = x \div w /\ x = q * w + i /\ q * w \in Int
    BY DivMod
<1>3. ASSUME q = n PROVE n * w <= x /\ x < n * w + w
    BY <1>1, <1>2, <1>3
<1>4. ASSUME n * w <= x, x < n * w + w PROVE q = n
    <2>1. PICK j \in 0 .. w - 1 : x = n * w + j
        <3>1. PICK j \in Int : j = x - n * w
            BY <1>1
        <3> QED BY <3>1, <1>1, <1>4
    <2> QED BY <2>1, <1>2, SlotInjective
<1> QED BY <1>1, <1>2, <1>3, <1>4

\* copy_ple_rows_to_tp_embedding: over all ranks, a shard's rows and no others.
LEMMA ShardsAreCopied ==
    ASSUME HeadsFollow, server \in Server, NEW l \in Layer, NEW n \in Nat, NEW came
    PROVE  WithShard(TableAt(l, came), l, n) = TableAt(l, came \cup {n})
<1>1. PICK v \in Nat \ {0}, s \in Nat \ {0}, z \in Nat \ {0} :
        v = PaddedVocab(l, server.divisor) /\ s = ShardSize(l) /\ z = PartSize(l)
    BY TableSizes
<1> DEFINE first == n * ShardSize(l)
           last == first + ShardLength(l, n)
           rows(r) == Upper(first, PartStart(l, r)) .. Lower(last, PartEnd(l, r)) - 1
<1>2. first \in Nat
    BY <1>1, DivIs
<1>3. ASSUME NEW r \in Rank, NEW i \in 0 .. z - 1
      PROVE  /\ PartStart(l, r) + i \in Nat
             /\ (PartStart(l, r) + i \in rows(r)) <=>
                    (PartStart(l, r) + i < PartEnd(l, r) /\ (PartStart(l, r) + i) \div ShardSize(l) = n)
    <2>1. r \in Nat
        BY TableSizes
    <2>2. PICK start \in Nat : start = PartStart(l, r) /\ (r + 1) * z = start + z
        BY <2>1, <1>1, DivIs DEF PartStart
    <2>3. PICK e \in Nat : e = PartEnd(l, r) /\ e <= v
        BY <2>2, <1>1 DEF PartEnd, Lower
    <2>4. PICK g \in Nat : g = start + i
        OBVIOUS
    <2>5. PICK f \in Nat : f = first /\ ((g \div s = n) <=> (f <= g /\ g < f + s))
        <3>1. /\ n * s \in Nat
              /\ (g \div s = n) <=> (n * s <= g /\ g < n * s + s)
            BY <2>4, DivIs
        <3>2. first = n * s
            BY <1>1
        <3>3. PICK f \in Nat : f = n * s
            BY <3>1
        <3> HIDE DEF first
        <3> QED BY <3>1, <3>2, <3>3
    <2>6. PICK t \in Int : t = last /\ (f < v => (t = f + s /\ f + s <= v) \/ (t = v /\ v <= f + s))
                           /\ (v <= f => t = f)
        <3>1. ShardLength(l, n) = Upper(0, Lower(s, v - f))
            BY <1>1, <2>5 DEF ShardLength
        <3>2. v - f \in Int
            BY <1>1, <2>5
        <3>3. last = f + Upper(0, Lower(s, v - f))
            BY <3>1, <2>5
        <3>4. PICK t \in Int : t = f + Upper(0, Lower(s, v - f))
            BY <3>2, <2>5 DEF Upper, Lower
        <3>5. (f < v => (t = f + s /\ f + s <= v) \/ (t = v /\ v <= f + s)) /\ (v <= f => t = f)
            BY <3>2, <3>4, <2>5, <1>1 DEF Upper, Lower
        <3> QED BY <3>3, <3>4, <3>5
    <2>7. g \in rows(r) <=> (f <= g /\ start <= g /\ g < t /\ g < e)
        <3>1. rows(r) = Upper(f, start) .. Lower(t, e) - 1
            BY <2>2, <2>3, <2>5, <2>6
        <3>2. g \in Upper(f, start) .. Lower(t, e) - 1 <=> (f <= g /\ start <= g /\ g < t /\ g < e)
            BY <2>2, <2>3, <2>4, <2>5, <2>6 DEF Upper, Lower
        <3> HIDE DEF rows
        <3> QED BY <3>1, <3>2
    <2>8. g \in rows(r) <=> (g < e /\ f <= g /\ g < f + s)
        <3> HIDE DEF rows
        <3> QED BY <2>3, <2>4, <2>5, <2>6, <2>7
    <2> HIDE DEF rows
    <2> QED BY <1>1, <2>2, <2>3, <2>4, <2>5, <2>8
<1>4. ASSUME NEW r \in Rank, NEW i \in 0 .. z - 1
      PROVE  (IF PartStart(l, r) + i \in rows(r) THEN Stored(PartStart(l, r) + i) ELSE RowAt(l, r, i, came))
                = RowAt(l, r, i, came \cup {n})
    <2> HIDE DEF rows
    <2> QED BY <1>3 DEF RowAt
<1>5. \A r \in Rank : TableAt(l, came)[r] = [i \in 0 .. z - 1 |-> RowAt(l, r, i, came)]
    BY <1>1 DEF TableAt
<1>6. WithShard(TableAt(l, came), l, n) =
        [r \in Rank |-> [i \in DOMAIN TableAt(l, came)[r] |->
            IF PartStart(l, r) + i \in rows(r) THEN Stored(PartStart(l, r) + i) ELSE TableAt(l, came)[r][i]]]
    BY DEF WithShard
<1>7. \A r \in Rank : DOMAIN TableAt(l, came)[r] = 0 .. z - 1
                      /\ \A i \in 0 .. z - 1 : TableAt(l, came)[r][i] = RowAt(l, r, i, came)
    BY <1>5
<1> HIDE DEF rows
<1>8. WithShard(TableAt(l, came), l, n) =
        [r \in Rank |-> [i \in 0 .. z - 1 |->
            IF PartStart(l, r) + i \in rows(r) THEN Stored(PartStart(l, r) + i) ELSE RowAt(l, r, i, came)]]
    BY <1>6, <1>7
<1>9. WithShard(TableAt(l, came), l, n) =
        [r \in Rank |-> [i \in 0 .. z - 1 |-> RowAt(l, r, i, came \cup {n})]]
    BY <1>4, <1>8
<1> QED BY <1>1, <1>9 DEF TableAt

\* With all shards there, the ranks together have an id once.
LEMMA OneRankHasIt ==
    ASSUME HeadsFollow, server \in Server, NEW l \in Layer, NEW came, 0 .. SplitParts - 1 \subseteq came,
           table[l] = TableAt(l, came), NEW id \in 0 .. PaddedVocab(l, server.divisor) - 1
    PROVE  Summed(l, id) = {Stored(id)}
<1>1. PICK v \in Nat \ {0}, s \in Nat \ {0}, z \in Nat \ {0}, p \in Nat \ {0}, c \in Nat \ {0} :
        /\ v = PaddedVocab(l, server.divisor) /\ s = ShardSize(l) /\ z = PartSize(l)
        /\ p = SplitParts /\ c = server.ranks /\ v <= s * p /\ v <= z * c /\ Rank = 0 .. c - 1
    BY TableSizes
<1>2. id \in Nat /\ id < v
    BY <1>1
<1>3. ASSUME NEW w \in Nat \ {0}, NEW m \in Nat \ {0}, v <= w * m
      PROVE  id \div w \in 0 .. m - 1
    <2>1. id \div w \in Nat
        BY <1>2, DivNat
    <2>2. ~ (m - 1 < id \div w)
        <3>1. m - 1 \in Int /\ (m - 1) + 1 = m
            OBVIOUS
        <3>2. m - 1 < id \div w <=> ((m - 1) + 1) * w <= id
            BY <1>2, <3>1, BelowDiv
        <3>3. m * w = w * m /\ m * w \in Nat
            OBVIOUS
        <3> QED BY <1>2, <1>3, <3>1, <3>2, <3>3
    <2> QED BY <2>1, <2>2
<1>4. id \div s \in came
    <2>1. id \div s \in 0 .. p - 1
        BY <1>1, <1>3
    <2> QED BY <2>1, <1>1
<1>5. PICK q \in Rank : q = id \div z /\ q \in Nat
    <2>1. PICK q \in 0 .. c - 1 : q = id \div z
        BY <1>1, <1>3
    <2>2. Rank = 0 .. c - 1
        BY <1>1
    <2>3. q \in Nat
        OBVIOUS
    <2> QED BY <2>1, <2>2, <2>3
<1>6. ASSUME NEW r \in Rank
      PROVE  /\ PartStart(l, r) \in Nat
             /\ (PartStart(l, r) <= id /\ id < PartEnd(l, r)) <=> r = q
             /\ id - PartStart(l, r) \in Int
             /\ r = q => id - PartStart(l, r) \in 0 .. z - 1
    <2>1. r \in Nat
        BY <1>1
    <2>2. PICK start \in Nat : /\ start = PartStart(l, r) /\ (r + 1) * z = start + z
                               /\ (id \div z = r) <=> (start <= id /\ id < start + z)
        <3>1. /\ r * z \in Nat /\ (r + 1) * z = r * z + z
              /\ (id \div z = r) <=> (r * z <= id /\ id < r * z + z)
            BY <2>1, <1>2, DivIs
        <3>2. PICK start \in Nat : start = r * z
            BY <3>1
        <3>3. start = PartStart(l, r)
            BY <3>2, <1>1 DEF PartStart
        <3> QED BY <3>1, <3>2, <3>3
    <2>3. id < PartEnd(l, r) <=> id < start + z
        <3>1. PartEnd(l, r) = Lower(start + z, v)
            BY <1>1, <2>2 DEF PartEnd
        <3>2. id < Lower(start + z, v) <=> id < start + z
            BY <1>2 DEF Lower
        <3> QED BY <3>1, <3>2
    <2>4. (r = q) <=> (start <= id /\ id < start + z)
        BY <2>2, <1>5
    <2>5. id - start \in Int /\ (start <= id /\ id < start + z => id - start \in 0 .. z - 1)
        BY <1>2
    <2> QED BY <2>2, <2>3, <2>4, <2>5
<1>7. Gathered(l, q, id) = {Stored(id)}
    <2>1. Gathered(l, q, id) = {table[l][q][id - PartStart(l, q)]}
        BY <1>6 DEF Gathered
    <2>2. PICK i \in 0 .. z - 1 : i = id - PartStart(l, q) /\ PartStart(l, q) + i = id
        BY <1>2, <1>6
    <2>3. table[l][q][i] = RowAt(l, q, i, came)
        BY <1>1 DEF TableAt
    <2>4. RowAt(l, q, i, came) = Stored(id)
        BY <2>2, <1>1, <1>4, <1>6 DEF RowAt
    <2> QED BY <2>1, <2>2, <2>3, <2>4
<1>8. \A r \in Rank : r # q => Gathered(l, r, id) = {}
    BY <1>6 DEF Gathered
<1> HIDE DEF Gathered
<1> QED BY <1>5, <1>7, <1>8 DEF Summed

\* The one rank of a packed table has every row at its id.
LEMMA PackedRowsAtTheirId ==
    ASSUME HeadsFollow, server \in Server, server.mode = "nvfp4", NEW l \in Layer, NEW came,
           0 .. SplitParts - 1 \subseteq came, table[l] = TableAt(l, came),
           NEW id \in 0 .. PaddedVocab(l, server.divisor) - 1
    PROVE  Unpacked(l, id) = {[row |-> Stored(id).row, bytes |-> Unpack(Stored(id).bytes)]}
<1>1. Rank = {0}
    <2>1. server.ranks = 1
        BY LoadAssumption
    <2> QED BY <2>1 DEF Rank
<1>2. PICK v \in Nat \ {0}, z \in Nat \ {0} :
        v = PaddedVocab(l, server.divisor) /\ z = PartSize(l) /\ v <= z
    <2>1. PICK v \in Nat \ {0}, z \in Nat \ {0} :
            v = PaddedVocab(l, server.divisor) /\ z = PartSize(l) /\ v <= z * server.ranks
        BY TableSizes
    <2>2. server.ranks = 1
        BY LoadAssumption
    <2> QED BY <2>1, <2>2
<1>3. id \in 0 .. v - 1 /\ id \in 0 .. z - 1
    BY <1>2
<1>4. PartStart(l, 0) = 0 /\ PartEnd(l, 0) = v
    <2>1. 0 * z = 0 /\ (0 + 1) * z = z
        OBVIOUS
    <2>2. Lower(z, v) = v
        BY <1>2 DEF Lower
    <2> QED BY <1>2, <2>1, <2>2 DEF PartStart, PartEnd
<1>5. Gathered(l, 0, id) = {table[l][0][id]}
    BY <1>3, <1>4 DEF Gathered
<1>6. Summed(l, id) = {table[l][0][id]}
    BY <1>1, <1>5 DEF Summed
<1>7. table[l][0][id] = Stored(id)
    BY <1>6, OneRankHasIt
<1> QED BY <1>1, <1>7 DEF Unpacked

-----------------------------------------------------------------------------
(* Part: packed rows *)

LEMMA LevelsAre ==
    /\ Magnitudes[1] = 0 /\ Magnitudes[2] = 2 /\ Magnitudes[3] = 4 /\ Magnitudes[4] = 6
    /\ Magnitudes[5] = 8 /\ Magnitudes[6] = 12 /\ Magnitudes[7] = 16 /\ Magnitudes[8] = 24
    /\ Midpoints[1] = 1 /\ Midpoints[2] = 3 /\ Midpoints[3] = 5 /\ Midpoints[4] = 7
    /\ Midpoints[5] = 10 /\ Midpoints[6] = 14 /\ Midpoints[7] = 20 /\ DOMAIN Midpoints = 1 .. 7
BY DEF Magnitudes, Midpoints

\* The midpoints below a size are the first of them.
LEMMA BelowSize ==
    ASSUME NEW size \in Nat
    PROVE  \E n \in 0 .. 7 : /\ Cardinality({i \in DOMAIN Midpoints : Midpoints[i] < size}) = n
                             /\ n > 0 => Midpoints[n] < size
                             /\ n < 7 => size <= Midpoints[n + 1]
<1> DEFINE S == {i \in DOMAIN Midpoints : Midpoints[i] < size}
<1>1. PICK n \in 0 .. 7 : (n > 0 => Midpoints[n] < size) /\ (n < 7 => size <= Midpoints[n + 1])
    <2>1. \/ size <= 1 \/ (1 < size /\ size <= 3) \/ (3 < size /\ size <= 5) \/ (5 < size /\ size <= 7)
          \/ (7 < size /\ size <= 10) \/ (10 < size /\ size <= 14) \/ (14 < size /\ size <= 20) \/ 20 < size
        OBVIOUS
    <2> QED BY <2>1, LevelsAre
<1>2. ASSUME NEW i \in 1 .. 7 PROVE Midpoints[i] < size <=> i <= n
    <2>1. n = 0 \/ n = 1 \/ n = 2 \/ n = 3 \/ n = 4 \/ n = 5 \/ n = 6 \/ n = 7
        OBVIOUS
    <2>2. i = 1 \/ i = 2 \/ i = 3 \/ i = 4 \/ i = 5 \/ i = 6 \/ i = 7
        OBVIOUS
    <2> QED BY <1>1, <2>1, <2>2, LevelsAre
<1>3. S = 1 .. n
    BY <1>2, LevelsAre
<1>4. Cardinality(1 .. n) = n
    <2>1. 1 \in Int /\ n \in Int /\ (1 > n => n = 0)
        OBVIOUS
    <2> QED BY <2>1, FS_Interval
<1> QED BY <1>1, <1>3, <1>4

\* _ple_fp4_codes: a value's code is a half byte, and of the level closest to it.
LEMMA CodesAreClosest ==
    ASSUME NEW q \in Int
    PROVE  /\ Code(q) \in 0 .. 15 /\ Level(Code(q)) \in Int
           /\ \A m \in 1 .. 8, sign \in {-1, 1} :
                LET far(x) == IF x < q THEN q - x ELSE x - q
                IN  far(Level(Code(q))) <= far(sign * Magnitudes[m])
<1> DEFINE far(x) == IF x < q THEN q - x ELSE x - q
<1>1. PICK size \in Nat : size = IF q < 0 THEN -q ELSE q
    <2>1. (IF q < 0 THEN -q ELSE q) \in Nat
        OBVIOUS
    <2> QED BY <2>1
<1>2. PICK n \in 0 .. 7 : /\ Cardinality({i \in DOMAIN Midpoints : Midpoints[i] < size}) = n
                          /\ n > 0 => Midpoints[n] < size
                          /\ n < 7 => size <= Midpoints[n + 1]
    BY BelowSize
<1>3. Code(q) = IF q < 0 THEN n + 8 ELSE n
    BY <1>1, <1>2 DEF Code
<1>4. PICK top \in {0, 2, 4, 6, 8, 12, 16, 24} : top = Magnitudes[n + 1]
    <2>1. n = 0 \/ n = 1 \/ n = 2 \/ n = 3 \/ n = 4 \/ n = 5 \/ n = 6 \/ n = 7
        OBVIOUS
    <2> QED BY <2>1, LevelsAre
<1>5. Level(Code(q)) = IF q < 0 THEN -top ELSE top
    <2>1. CASE q < 0
        <3>1. Code(q) = n + 8 /\ ~ (n + 8 < 8) /\ (n + 8) - 7 = n + 1
            BY <2>1, <1>3
        <3> QED BY <2>1, <3>1, <1>4 DEF Level
    <2>2. CASE ~ (q < 0)
        <3>1. Code(q) = n /\ n < 8
            BY <2>2, <1>3
        <3> QED BY <2>2, <3>1, <1>4 DEF Level
    <2> QED BY <2>1, <2>2
<1>6. ASSUME NEW other \in {0, 2, 4, 6, 8, 12, 16, 24}, NEW sign \in {-1, 1}
      PROVE  far(IF q < 0 THEN -top ELSE top) <= far(sign * other)
    <2>1. \/ n = 0 /\ top = 0 /\ size <= 1
          \/ n = 1 /\ top = 2 /\ 1 < size /\ size <= 3
          \/ n = 2 /\ top = 4 /\ 3 < size /\ size <= 5
          \/ n = 3 /\ top = 6 /\ 5 < size /\ size <= 7
          \/ n = 4 /\ top = 8 /\ 7 < size /\ size <= 10
          \/ n = 5 /\ top = 12 /\ 10 < size /\ size <= 14
          \/ n = 6 /\ top = 16 /\ 14 < size /\ size <= 20
          \/ n = 7 /\ top = 24 /\ 20 < size
        <3>1. n = 0 \/ n = 1 \/ n = 2 \/ n = 3 \/ n = 4 \/ n = 5 \/ n = 6 \/ n = 7
            OBVIOUS
        <3> QED BY <3>1, <1>2, <1>4, LevelsAre
    <2>2. sign * other = other \/ sign * other = -other
        OBVIOUS
    <2> QED BY <2>1, <2>2, <1>1, SMTT(60)
<1>7. ASSUME NEW m \in 1 .. 8 PROVE Magnitudes[m] \in {0, 2, 4, 6, 8, 12, 16, 24}
    <2>1. m = 1 \/ m = 2 \/ m = 3 \/ m = 4 \/ m = 5 \/ m = 6 \/ m = 7 \/ m = 8
        OBVIOUS
    <2> QED BY <2>1, LevelsAre
<1>8. Code(q) \in 0 .. 15 /\ Level(Code(q)) \in Int
    BY <1>3, <1>5
<1> QED BY <1>5, <1>6, <1>7, <1>8

\* Unpacking a packed row gives each value the level of its code.
LEMMA UnpackedLevels ==
    ASSUME NEW row \in Seq(Int), Len(row) % 2 = 0
    PROVE  /\ Pack(row) \in Seq(Int) /\ Unpack(Pack(row)) \in Seq(Int)
           /\ DOMAIN row = 1 .. Len(row)
           /\ \A i \in DOMAIN row : Unpack(Pack(row))[i] = Level(Code(row[i])) /\ row[i] \in Int
<1>1. PICK h \in Nat : Len(row) = 2 * h /\ Len(row) \div 2 = h
    <2>1. Len(row) \in Nat
        OBVIOUS
    <2>2. PICK n \in Nat : n = Len(row) /\ n % 2 = 0
        BY <2>1
    <2>3. n \div 2 \in Nat /\ n = 2 * (n \div 2)
        BY <2>2
    <2> QED BY <2>2, <2>3
<1>2. DOMAIN row = 1 .. 2 * h /\ \A i \in 1 .. 2 * h : row[i] \in Int
    BY <1>1
<1>3. \A i \in 1 .. 2 * h : Code(row[i]) \in 0 .. 15 /\ Level(Code(row[i])) \in Int
    BY <1>2, CodesAreClosest
<1> DEFINE b == Pack(row)
<1>4. b = [k \in 1 .. h |-> Code(row[2 * k - 1]) + 16 * Code(row[2 * k])]
    BY <1>1 DEF Pack
<1>5. ASSUME NEW k \in 1 .. h
      PROVE  /\ 2 * k - 1 \in 1 .. 2 * h /\ 2 * k \in 1 .. 2 * h
             /\ b[k] \in Int /\ b[k] % 16 = Code(row[2 * k - 1]) /\ b[k] \div 16 = Code(row[2 * k])
    <2>1. 2 * k - 1 \in 1 .. 2 * h /\ 2 * k \in 1 .. 2 * h
        OBVIOUS
    <2>2. PICK low \in 0 .. 15, high \in 0 .. 15 : low = Code(row[2 * k - 1]) /\ high = Code(row[2 * k])
        BY <2>1, <1>3
    <2>3. b[k] = low + 16 * high
        BY <1>4, <2>2
    <2>4. (low + 16 * high) % 16 = low /\ (low + 16 * high) \div 16 = high
        OBVIOUS
    <2> HIDE DEF b
    <2> QED BY <2>1, <2>2, <2>3, <2>4
<1>6. b \in Seq(Int) /\ Len(b) = h
    <2> HIDE DEF b
    <2>1. b = [k \in 1 .. h |-> b[k]]
        BY <1>4
    <2>2. b \in Seq({b[o] : o \in 1 .. h}) /\ Len(b) = h
        BY <2>1, FunctionIsSequence
    <2> QED BY <2>2, <1>5, SequenceOver
<1> HIDE DEF b
<1> DEFINE u == Unpack(b)
<1>7. u = [i \in 1 .. 2 * h |-> LET byte == b[(i + 1) \div 2]
                               IN  Level(IF i % 2 = 1 THEN byte % 16 ELSE byte \div 16)]
    BY <1>6 DEF Unpack
<1>8. ASSUME NEW i \in 1 .. 2 * h PROVE u[i] = Level(Code(row[i]))
    <2>1. PICK k \in 1 .. h : \/ i = 2 * k - 1 /\ (i + 1) \div 2 = k /\ i % 2 = 1
                              \/ i = 2 * k /\ (i + 1) \div 2 = k /\ i % 2 # 1
        <3>1. /\ (i + 1) \div 2 \in 1 .. h
              /\ \/ i = 2 * ((i + 1) \div 2) - 1 /\ i % 2 = 1
                 \/ i = 2 * ((i + 1) \div 2) /\ i % 2 # 1
            OBVIOUS
        <3> QED BY <3>1
    <2>2. u[i] = Level(IF i % 2 = 1 THEN b[k] % 16 ELSE b[k] \div 16)
        BY <1>7, <2>1
    <2> HIDE DEF u
    <2>3. CASE i % 2 = 1
        BY <2>1, <2>2, <2>3, <1>5
    <2>4. CASE i % 2 # 1
        BY <2>1, <2>2, <2>4, <1>5
    <2> QED BY <2>3, <2>4
<1>9. u \in Seq(Int)
    <2>1. u = [i \in 1 .. 2 * h |-> u[i]] /\ 2 * h \in Nat
        BY <1>7
    <2> HIDE DEF u
    <2>2. u \in Seq({u[o] : o \in 1 .. 2 * h})
        BY <2>1, FunctionIsSequence
    <2>3. {u[o] : o \in 1 .. 2 * h} \subseteq Int
        BY <1>8, <1>3
    <2>4. PICK A : A = {u[o] : o \in 1 .. 2 * h} /\ u \in Seq(A) /\ A \subseteq Int
        BY <2>2, <2>3
    <2> QED BY <2>4, SequenceOver
<1> QED BY <1>1, <1>2, <1>6, <1>8, <1>9 DEF b

\* A packed row comes back with the nearest level for each of its values.
LEMMA PackedIsClosest ==
    ASSUME NEW row \in Seq(Int), Len(row) % 2 = 0
    PROVE  Closest(Unpack(Pack(row)), row)
<1> SUFFICES ASSUME NEW i \in DOMAIN row, NEW m \in 1 .. 8, NEW sign \in {-1, 1}
             PROVE  LET far(x) == IF x < row[i] THEN row[i] - x ELSE x - row[i]
                    IN  far(Unpack(Pack(row))[i]) <= far(sign * Magnitudes[m])
    BY DEF Closest
<1>1. Unpack(Pack(row))[i] = Level(Code(row[i])) /\ row[i] \in Int
    BY UnpackedLevels
<1> QED BY <1>1, CodesAreClosest

-----------------------------------------------------------------------------
(* Part: what the slots of the compressed table are means of *)

\* The rows of a head.
HeadRows(l, h) == HeadOffset[l, h] .. HeadOffset[l, h + 1] - 1

\* A head's rows begin and end where the model's do, and its slots are its own.
LEMMA BuilderRange ==
    ASSUME HeadsFollow, NEW h \in Heads
    PROVE  \E size \in Nat \ {0}, first \in Nat, total \in Nat :
            /\ size = BuilderSize[h] /\ first = BuilderOffset[h] /\ total = BuilderTotal
            /\ first = HeadOffset[0, h] /\ BuilderOffset[h + 1] = first + size
            /\ HeadOffset[0, h + 1] = first + size /\ first + size <= total /\ total = TotalVocab(0)
            /\ SubSize[h] \in Nat \ {0} /\ SubOffset[h] \in Nat
<1>1. 0 \in PleLayer
    BY PleTableAssumption
<1>2. PICK size \in Nat \ {0}, first \in Nat, total \in Nat :
            /\ size = HeadVocabSize[0, h] /\ first = HeadOffset[0, h] /\ total = TotalVocab(0)
            /\ HeadOffset[0, h + 1] = first + size /\ first + size <= total
    BY <1>1, HeadRange
<1>3. \A j \in 0 .. NgramHeads : BuilderOffset[j] = HeadOffset[0, j] /\ SubOffset[j] \in Nat
    BY DEF HeadsFollow
<1>4. h \in 0 .. NgramHeads /\ h + 1 \in 0 .. NgramHeads /\ NgramHeads \in 0 .. NgramHeads
    BY HeadNgrams
<1>5. BuilderSize[h] = size
    BY <1>2 DEF HeadsFollow
<1>6. BuilderTotal = total
    BY <1>2, <1>3, <1>4 DEF BuilderTotal, TotalVocab
<1>7. SubSize[h] \in Nat \ {0}
    BY <1>5, SubTablesAreNotEmpty
<1> QED BY <1>2, <1>3, <1>4, <1>5, <1>6, <1>7

\* Every row of the table is a row of one head.
LEMMA RowsHaveHeads ==
    ASSUME HeadsFollow, NEW g \in 0 .. BuilderTotal - 1
    PROVE  \E h \in Heads : g \in BuilderOffset[h] .. BuilderOffset[h + 1] - 1
<1>1. PICK c \in Nat \ {0} : c = NgramHeads /\ Heads = 0 .. c - 1
    BY HeadNgrams DEF Heads
<1>2. \A j \in 0 .. c : BuilderOffset[j] \in Nat
    BY <1>1 DEF HeadsFollow, SortedOffsets
<1>3. BuilderOffset[0] = 0 /\ BuilderTotal = BuilderOffset[c] /\ c \in 0 .. c
    <2>1. c \in 0 .. c
        OBVIOUS
    <2>2. BuilderOffset[0] = 0
        BY DEF HeadsFollow
    <2>3. BuilderTotal = BuilderOffset[c]
        BY <1>1 DEF BuilderTotal
    <2> QED BY <2>1, <2>2, <2>3
<1>4. g \in Nat /\ g < BuilderOffset[c]
    <2>1. PICK t \in Nat : t = BuilderOffset[c]
        BY <1>2, <1>3
    <2>2. g \in 0 .. t - 1
        BY <1>3, <2>1
    <2> QED BY <2>1, <2>2
<1> DEFINE Above == {j \in 0 .. c : g < BuilderOffset[j]}
<1>5. PICK j \in Above : \A i \in Above : j <= i
    <2>1. Above \in SUBSET Nat /\ Above # {}
        BY <1>3, <1>4
    <2> QED BY <2>1, LeastNat
<1>6. j # 0
    BY <1>3, <1>4, <1>5
<1>7. PICK h \in Heads : j = h + 1 /\ h \in 0 .. c
    <2>1. j - 1 \in 0 .. c - 1 /\ (j - 1) + 1 = j
        BY <1>5, <1>6
    <2> QED BY <2>1, <1>1
<1>8. ~ (g < BuilderOffset[h])
    BY <1>5, <1>7
<1>9. g < BuilderOffset[h + 1] /\ BuilderOffset[h + 1] \in Nat /\ BuilderOffset[h] \in Nat
    BY <1>2, <1>5, <1>7
<1> QED BY <1>4, <1>8, <1>9

\* A row's slot lies in the sub-table of its head.
LEMMA SlotOfRow ==
    ASSUME HeadsFollow, HashesAreWords, NEW h \in Heads, NEW sub \in 1 .. 2,
           NEW g \in BuilderOffset[h] .. BuilderOffset[h + 1] - 1
    PROVE  /\ PlacedAt(g, sub) \in SubOffset[h] .. SubOffset[h] + SubSize[h] - 1
           /\ GatherSlot(h, g, sub) = PlacedAt(g, sub) /\ GatherSlot(h, g, sub) = Sample(h, g)[sub]
<1>1. PICK size \in Nat \ {0}, first \in Nat :
            /\ size = BuilderSize[h] /\ first = BuilderOffset[h] /\ BuilderOffset[h + 1] = first + size
            /\ SubSize[h] \in Nat \ {0} /\ SubOffset[h] \in Nat
    BY BuilderRange
<1>2. PICK local \in 0 .. size - 1 : local = g - BuilderOffset[h]
    <2>1. g \in first .. (first + size) - 1
        BY <1>1
    <2>2. g - first \in 0 .. size - 1
        BY <2>1
    <2> QED BY <1>1, <2>2
<1>3. PICK x \in Int : x = Signed(Splitmix((local + 1) * Mulc + Salts[sub] + h * HeadSalt))
    BY <1>1 DEF HashesAreWords
<1>4. PICK m \in Nat \ {0} : m = SubSize[h]
    BY <1>1
<1>5. x % m \in 0 .. m - 1
    BY DivMod
<1>6. Sample(h, g)[sub] = SubOffset[h] + (x % m)
    BY <1>2, <1>3, <1>4 DEF Sample, HashSlot
<1>7. GatherSlot(h, g, sub) = PlacedAt(g, sub) /\ GatherSlot(h, g, sub) = Sample(h, g)[sub]
    BY HeadNgrams, RowsAreGatheredWhereTheyWerePut DEF HeadsFollow
<1>8. PICK o \in Nat, y \in 0 .. m - 1 : o = SubOffset[h] /\ y = x % m
    BY <1>1, <1>5
<1>9. o + y \in o .. o + m - 1
    OBVIOUS
<1> QED BY <1>4, <1>6, <1>7, <1>8, <1>9

\* Rows in one slot are rows of one head.
LEMMA SlotsAreOfOneHead ==
    ASSUME HeadsFollow, HashesAreWords, NEW h \in Heads, NEW j \in Heads, NEW sub \in 1 .. 2,
           NEW g \in BuilderOffset[h] .. BuilderOffset[h + 1] - 1,
           NEW e \in BuilderOffset[j] .. BuilderOffset[j + 1] - 1,
           PlacedAt(g, sub) = PlacedAt(e, sub)
    PROVE  h = j
<1>1. ASSUME NEW a \in Heads, NEW b \in Heads, NEW s,
             s \in SubOffset[a] .. SubOffset[a] + SubSize[a] - 1,
             s \in SubOffset[b] .. SubOffset[b] + SubSize[b] - 1
      PROVE  ~ (a < b)
    <2>1. PICK o \in Nat, p \in Nat, m \in Nat, n \in Nat :
            o = SubOffset[a] /\ m = SubSize[a] /\ p = SubOffset[b] /\ n = SubSize[b]
        BY BuilderRange
    <2>2. ASSUME a < b PROVE o + m <= p
        <3>1. a \in 0 .. NgramHeads /\ b \in 0 .. NgramHeads
            BY HeadNgrams
        <3> QED BY <2>1, <2>2, <3>1 DEF HeadsFollow
    <2>3. s \in o .. o + m - 1 /\ s \in p .. p + n - 1
        BY <1>1, <2>1
    <2> QED BY <2>2, <2>3
<1>2. ~ (h < j) /\ ~ (j < h)
    <2>1. PICK s : s = PlacedAt(g, sub) /\ s = PlacedAt(e, sub)
        OBVIOUS
    <2>2. /\ s \in SubOffset[h] .. SubOffset[h] + SubSize[h] - 1
          /\ s \in SubOffset[j] .. SubOffset[j] + SubSize[j] - 1
        BY <2>1, SlotOfRow
    <2> QED BY <2>2, <1>1
<1>3. h \in Nat /\ j \in Nat
    BY HeadNgrams
<1> QED BY <1>2, <1>3

\* Where the builder accepts the shards, its rows are counted as they are.
LEMMA DeliveredAreRows ==
    ASSUME HeadsFollow, server \in Server, BuilderAccepts
    PROVE  /\ \A d \in Delivered : d.g = d.row /\ d.g \in Nat
           /\ \A g \in 0 .. BuilderTotal - 1 : \E d \in Delivered : d.g = g /\ d.row = g
<1>1. 0 \in Layer
    BY DEF Layer
<1>2. PICK v \in Nat \ {0}, s \in Nat \ {0}, p \in Nat \ {0}, t \in Nat :
        v = PaddedVocab(0, server.divisor) /\ s = ShardSize(0) /\ p = SplitParts /\ t = TotalVocab(0)
    BY <1>1, TableSizes
<1>3. t = BuilderTotal
    <2>1. PICK h \in Heads : h = 0
        BY HeadNgrams DEF Heads
    <2> QED BY <2>1, <1>2, BuilderRange
<1>4. PICK b \in Int : b = BuilderShardRows /\ t <= b * p /\ b * p \in Int
    <2>1. BuilderShardRows = (t + p - 1) \div p
        BY <1>2, <1>3 DEF BuilderShardRows, Ceiling
    <2> QED BY <2>1, CeilDiv
<1>5. s <= v
    <2>1. s = (v + p - 1) \div p
        BY <1>2 DEF ShardSize, Ceiling
    <2>2. PICK x \in Int : x = v + p - 1
        OBVIOUS
    <2>3. PICK i \in 0 .. p - 1 : x = s * p + i /\ s * p \in Int
        BY <2>1, <2>2, DivMod
    <2>4. ASSUME v < s PROVE FALSE
        <3>1. v * p \in Int /\ v * p + p <= s * p
            BY <2>4, MulLess
        <3>2. v <= v * p
            <4>1. p = 1 \/ 1 < p
                OBVIOUS
            <4>2. v * 1 = v /\ 1 * v = v /\ v * p = p * v
                OBVIOUS
            <4>3. 1 < p => 1 * v + v <= p * v
                BY MulLess
            <4> QED BY <4>1, <4>2, <4>3, <3>1
        <3> QED BY <2>2, <2>3, <3>1, <3>2
    <2> QED BY <2>4
<1>6. s = b
    <2>1. 0 \in 0 .. p - 1 /\ 0 * s = 0
        OBVIOUS
    <2>2. ShardLength(0, 0) = b
        BY <1>2, <1>4, <2>1 DEF BuilderAccepts
    <2>3. ShardLength(0, 0) = Upper(0, Lower(s, v - 0 * s))
        BY <1>2 DEF ShardLength
    <2>4. Upper(0, Lower(s, v - 0)) = s
        BY <1>5 DEF Upper, Lower
    <2> QED BY <2>1, <2>2, <2>3, <2>4
<1>7. Delivered = {[g |-> n * s + i, row |-> n * s + i] : n \in 0 .. p - 1, i \in 0 .. s - 1}
    BY <1>2, <1>4, <1>6 DEF Delivered
<1>8. ASSUME NEW d \in Delivered PROVE d.g = d.row /\ d.g \in Nat
    <2>1. PICK n \in 0 .. p - 1, i \in 0 .. s - 1 : d = [g |-> n * s + i, row |-> n * s + i]
        BY <1>7
    <2>2. n * s \in Nat
        <3>1. n \in Nat
            OBVIOUS
        <3> QED BY <3>1, DivIs
    <2>3. n * s + i \in Nat
        BY <2>2
    <2> QED BY <2>1, <2>3
<1>9. ASSUME NEW g \in 0 .. BuilderTotal - 1 PROVE \E d \in Delivered : d.g = g /\ d.row = g
    <2>1. g \in Nat /\ g < t
        BY <1>3
    <2>2. g \div s \in Int /\ g % s \in 0 .. s - 1 /\ g = (g \div s) * s + (g % s)
        BY <2>1, DivMod
    <2>3. g \div s \in 0 .. p - 1
        <3>1. g \div s \in Nat
            BY <2>1, DivNat
        <3>2. ~ (p - 1 < g \div s)
            <4>1. p - 1 \in Int /\ (p - 1) + 1 = p
                OBVIOUS
            <4>2. p - 1 < g \div s <=> ((p - 1) + 1) * s <= g
                BY <2>1, <4>1, BelowDiv
            <4>3. p * s = s * p /\ p * s \in Nat
                OBVIOUS
            <4> QED BY <2>1, <1>4, <1>6, <4>1, <4>2, <4>3
        <3> QED BY <3>1, <3>2
    <2>4. PICK n \in 0 .. p - 1, i \in 0 .. s - 1 : g = n * s + i
        BY <2>2, <2>3
    <2>5. [g |-> n * s + i, row |-> n * s + i] \in Delivered
        BY <1>7
    <2> QED BY <2>4, <2>5
<1> QED BY <1>8, <1>9

\* A slot that a head's row is looked up at holds that row, and rows of its head.
LEMMA SlotHoldsItsHead ==
    ASSUME HeadsFollow, HashesAreWords, server \in Server, BuilderAccepts,
           NEW h \in Heads, NEW sub \in 1 .. 2,
           NEW id \in HeadRows(0, h)
    PROVE  LET got == Accumulated(Delivered)[sub][GatherSlot(h, id, sub)]
           IN  /\ id \in got /\ got \subseteq HeadRows(0, h)
               /\ GatherSlot(h, id, sub) = Sample(h, id)[sub]
<1> DEFINE s == GatherSlot(h, id, sub)
           got == {d.row : d \in {e \in Delivered : e.g < BuilderTotal /\ PlacedAt(e.g, sub) = s}}
<1>1. PICK size \in Nat \ {0}, first \in Nat, total \in Nat :
            /\ first = BuilderOffset[h] /\ total = BuilderTotal /\ first = HeadOffset[0, h]
            /\ BuilderOffset[h + 1] = first + size /\ HeadOffset[0, h + 1] = first + size
            /\ first + size <= total /\ SubSize[h] \in Nat \ {0} /\ SubOffset[h] \in Nat
    BY BuilderRange
<1>2. id \in BuilderOffset[h] .. BuilderOffset[h + 1] - 1
    BY <1>1 DEF HeadRows
<1>3. id \in 0 .. BuilderTotal - 1
    <2>1. id \in first .. (first + size) - 1
        BY <1>1 DEF HeadRows
    <2>2. first + size <= total /\ total = BuilderTotal
        BY <1>1
    <2>3. id \in 0 .. total - 1
        BY <2>1, <2>2
    <2> QED BY <2>2, <2>3
<1>4. /\ s \in SubOffset[h] .. SubOffset[h] + SubSize[h] - 1
      /\ s = PlacedAt(id, sub) /\ s = Sample(h, id)[sub]
    BY <1>2, SlotOfRow
<1>5. s \in 0 .. SubOffset[NgramHeads] - 1
    <2>1. PICK o \in Nat, m \in Nat, n \in Nat :
            o = SubOffset[h] /\ m = SubSize[h] /\ n = SubOffset[NgramHeads] /\ o + m <= n
        <3>1. PICK c \in Nat : c = NgramHeads
            BY HeadNgrams
        <3>2. h \in 0 .. c /\ c \in 0 .. c /\ h < c
            <4>1. h \in 0 .. c - 1
                BY <3>1 DEF Heads
            <4> QED BY <4>1
        <3>3. SubOffset[c] \in Nat /\ SubOffset[h] + SubSize[h] <= SubOffset[c]
            BY <3>1, <3>2 DEF HeadsFollow
        <3> QED BY <3>1, <3>3, <1>1
    <2> HIDE DEF s
    <2>2. s \in o .. o + m - 1
        BY <2>1, <1>4
    <2>3. o + m <= n /\ n = SubOffset[NgramHeads]
        BY <2>1
    <2>4. s \in 0 .. n - 1
        BY <2>2, <2>3
    <2> QED BY <2>3, <2>4
<1> HIDE DEF s
<1>6. Accumulated(Delivered)[sub][s] = got
    BY <1>5 DEF Accumulated
<1>7. id \in got
    <2>1. PICK d \in Delivered : d.g = id /\ d.row = id
        BY <1>3, DeliveredAreRows
    <2>2. id < BuilderTotal
        <3>1. PICK t \in Nat : t = BuilderTotal
            BY <1>1
        <3>2. id \in 0 .. t - 1
            BY <3>1, <1>3
        <3>3. id < t
            BY <3>2
        <3> QED BY <3>1, <3>3
    <2> QED BY <2>1, <2>2, <1>4
<1>8. ASSUME NEW x \in got PROVE x \in BuilderOffset[h] .. BuilderOffset[h + 1] - 1
    <2>1. PICK d \in Delivered : x = d.row /\ d.g < BuilderTotal /\ PlacedAt(d.g, sub) = s
        OBVIOUS
    <2>2. d.g = x /\ x \in Nat
        BY <2>1, DeliveredAreRows
    <2>3. x \in 0 .. BuilderTotal - 1
        <3>1. PICK t \in Nat : t = BuilderTotal
            BY <1>1
        <3>2. x < t /\ x \in Nat
            BY <2>1, <2>2, <3>1
        <3>3. x \in 0 .. t - 1
            BY <3>2
        <3> QED BY <3>1, <3>3
    <2>4. PICK j \in Heads : x \in BuilderOffset[j] .. BuilderOffset[j + 1] - 1
        BY <2>3, RowsHaveHeads
    <2>5. PlacedAt(x, sub) = PlacedAt(id, sub)
        BY <2>1, <2>2, <1>4
    <2>6. h = j
        BY <2>4, <2>5, <1>2, SlotsAreOfOneHead
    <2> QED BY <2>4, <2>6
<1>9. got \subseteq HeadRows(0, h)
    BY <1>1, <1>8 DEF HeadRows
<1> HIDE DEF got
<1> QED BY <1>4, <1>6, <1>7, <1>9 DEF s

-----------------------------------------------------------------------------
(* Part: what a server knows of its table and its batch *)

\* The shards of a layer's table that came.
Shards(l) == {n \in 0 .. SplitParts - 1 : TensorOf(l, "shard", "weight", n) \notin pending}

\* A table holds the rows of the shards that came; one that changes its type does
\* so at its first shard, so that no row is lost.
Tabled ==
    slice = TableTensors(server) /\ status # "failed" /\ ~Discards =>
        \A l \in PleLayers : /\ table[l] = TableAt(l, Shards(l))
                             /\ server.mode # "nvfp4" /\ Switches(l) => Shards(l) = {}

\* An artifact was built from shards that the builder accepts, before the load.
Built ==
    /\ artifact = <<>> \/ (BuilderAccepts /\ artifact = Accumulated(Delivered))
    /\ server.mode = "hashk" /\ slice = TableTensors(server) /\ pending # slice => artifact # <<>>

\* The windows kept for a batch are that batch's.
ShiftedAll(tokens) == [k \in DOMAIN Windows(tokens) |-> ShiftedWindows(Windows(tokens)[k])]
Cached ==
    /\ batch = NoBatch \/ (batch.id \in 1 .. 2 /\ batch.tokens \in Seq(Token))
    /\ batch # NoBatch /\ window.id = batch.id =>
        window.contexts = Windows(batch.tokens) /\ window.shifted \in {<<>>, ShiftedAll(batch.tokens)}

LookupInv ==
    /\ LoadInv
    /\ DOMAIN table = PleLayersOf(server) /\ DOMAIN form = PleLayersOf(server)
    /\ Tabled /\ Built /\ Cached

\* None of it depends on anything that changes but the tensors to come.
LEMMA OneTable ==
    ASSUME server' = server
    PROVE  /\ \A l, came : TableAt(l, came)' = TableAt(l, came)
           /\ Delivered' = Delivered /\ BuilderAccepts' = BuilderAccepts
           /\ PleLayers' = PleLayers /\ Discards' = Discards
           /\ TableTensors(server)' = TableTensors(server)
<1>0. Rank' = Rank
    BY DEF Rank
<1>1. ASSUME NEW l
      PROVE  /\ ShardSize(l)' = ShardSize(l) /\ PartSize(l)' = PartSize(l)
             /\ \A r : PartStart(l, r)' = PartStart(l, r) /\ PartEnd(l, r)' = PartEnd(l, r)
             /\ \A n : ShardLength(l, n)' = ShardLength(l, n)
    BY DEF ShardSize, PartSize, PartStart, PartEnd, ShardLength
<1>2. ASSUME NEW g PROVE Stored(g)' = Stored(g)
    BY DEF Stored
<1>3. ASSUME NEW l, NEW came PROVE TableAt(l, came)' = TableAt(l, came)
    <2>1. \A r, i : RowAt(l, r, i, came)' = RowAt(l, r, i, came)
        BY <1>1, <1>2 DEF RowAt
    <2> QED BY <1>0, <1>1, <2>1 DEF TableAt
<1>4. Delivered' = Delivered /\ BuilderAccepts' = BuilderAccepts
    <2>1. Delivered' = Delivered
        <3>1. PICK s : s = ShardSize(0) /\ s = ShardSize(0)'
            BY <1>1
        <3> QED BY <3>1 DEF Delivered
    <2>2. BuilderAccepts' = BuilderAccepts
        <3>1. \A n : ShardLength(0, n)' = ShardLength(0, n)
            BY <1>1
        <3> QED BY <3>1 DEF BuilderAccepts
    <2> QED BY <2>1, <2>2
<1>5. PleLayers' = PleLayers /\ Discards' = Discards
    BY DEF PleLayers, Owned, Discards
<1>6. TableTensors(server)' = TableTensors(server)
    OBVIOUS
<1> QED BY <1>3, <1>4, <1>5, <1>6

\* A shard's name tells its layer and its number.
LEMMA ShardNames ==
    ASSUME server \in Server, NEW t \in TableTensors(server), t.module = "shard"
    PROVE  /\ t.layer \in PleLayersOf(server) /\ t.item \in 0 .. SplitParts - 1
           /\ \A l, n : t = TensorOf(l, "shard", "weight", n) <=> (l = t.layer /\ n = t.item)
<1>1. t \notin {Tensor(0, "ple_buffer", "weight_scale"), Tensor(0, "ple_buffer", "token_lookup")}
    BY DEF Tensor
<1>2. PICK l \in PleLayersOf(server), n \in 0 .. SplitParts - 1 : t = TensorOf(l, "shard", "weight", n)
    BY <1>1 DEF TableTensors
<1>3. t.layer = l /\ t.item = n
    BY <1>2 DEF TensorOf
<1> QED BY <1>2, <1>3 DEF TensorOf

LEMMA LayersServed ==
    ASSUME server \in Server
    PROVE  PleLayers \subseteq PleLayersOf(server) /\ PleLayersOf(server) \subseteq Layer
BY DEF PleLayers, PleLayersOf, Layer

\* With another shard, or with none, the tables hold what came.
LEMMA ShardIsTabled ==
    ASSUME HeadsFollow, LookupInv, NEW t \in pending, Load(t), LoadShard(t),
           slice = TableTensors(server), status' # "failed", ~Discards, NEW l \in PleLayers
    PROVE  /\ table'[l] = TableAt(l, Shards(l)')
           /\ server.mode # "nvfp4" /\ Switches(l)' => Shards(l)' = {}
<1>1. server \in Server /\ t \in TableTensors(server) /\ server' = server /\ pending' = pending \ {t}
    BY DEF LookupInv, LoadInv, Arrived, Load
<1>2. t.module = "shard" /\ status = "loading"
    BY DEF LoadShard, Load
<1>3. /\ t.layer \in PleLayersOf(server) /\ t.item \in 0 .. SplitParts - 1
      /\ \A j, n : t = TensorOf(j, "shard", "weight", n) <=> (j = t.layer /\ n = t.item)
    BY <1>1, <1>2, ShardNames
<1>4. t.layer \in PleLayers /\ ~ (server.mode = "pinned" /\ Switches(t.layer))
    BY DEF LoadShard
<1>5. l \in PleLayersOf(server) /\ l \in Layer
    BY <1>1, LayersServed
<1>6. /\ table[l] = TableAt(l, Shards(l))
      /\ server.mode # "nvfp4" /\ Switches(l) => Shards(l) = {}
    BY <1>2 DEF LookupInv, Tabled
<1>7. l \in DOMAIN table /\ l \in DOMAIN form
    BY <1>5 DEF LookupInv
<1>8. CASE l # t.layer
    <2>1. Shards(l)' = Shards(l)
        BY <1>1, <1>3, <1>8 DEF Shards
    <2>2. table'[l] = table[l] /\ form'[l] = form[l]
        BY <1>4, <1>7, <1>8 DEF LoadShard
    <2>3. Switches(l)' = Switches(l)
        BY <1>1, <2>2 DEF Switches
    <2> QED BY <1>6, <2>1, <2>2, <2>3
<1>9. CASE l = t.layer
    <2>1. Shards(l)' = Shards(l) \cup {t.item}
        BY <1>1, <1>3, <1>9 DEF Shards
    <2>2. CASE server.mode = "nvfp4" \/ ~Switches(l)
        <3>1. table' = [table EXCEPT ![l] = WithShard(table[l], l, t.item)] /\ form' = form
            BY <1>4, <1>9, <2>2 DEF LoadShard
        <3>2. table'[l] = WithShard(table[l], l, t.item)
            BY <3>1, <1>7
        <3>3. Switches(l)' = Switches(l)
            BY <1>1, <3>1 DEF Switches
        <3>4. table'[l] = WithShard(TableAt(l, Shards(l)), l, t.item)
            BY <3>2, <1>6
        <3>5. WithShard(TableAt(l, Shards(l)), l, t.item) = TableAt(l, Shards(l) \cup {t.item})
            <4>1. t.item \in Nat
                BY <1>3
            <4> QED BY <4>1, <1>1, <1>5, ShardsAreCopied
        <3> QED BY <2>1, <2>2, <3>3, <3>4, <3>5
    <2>3. CASE ~ (server.mode = "nvfp4" \/ ~Switches(l))
        <3>1. table' = [table EXCEPT ![l] = WithShard(NoPart(l), l, t.item)] /\ form' = [form EXCEPT ![l] = "fp8"]
            BY <1>4, <1>9, <2>3 DEF LoadShard
        <3>2. table'[l] = WithShard(NoPart(l), l, t.item) /\ form'[l] = "fp8"
            BY <3>1, <1>7
        <3>3. ~ Switches(l)'
            BY <3>2 DEF Switches
        <3>4. Shards(l) = {}
            BY <1>6, <2>3
        <3>5. WithShard(TableAt(l, {}), l, t.item) = TableAt(l, {} \cup {t.item})
            <4>1. t.item \in Nat
                BY <1>3
            <4> QED BY <4>1, <1>1, <1>5, ShardsAreCopied
        <3>6. NoPart(l) = TableAt(l, {})
            BY NothingCame
        <3> QED BY <2>1, <3>2, <3>3, <3>4, <3>5, <3>6
    <2> QED BY <2>2, <2>3
<1> QED BY <1>8, <1>9

\* Loading a tensor keeps the tables and the artifact.
LEMMA LoadsAreTabled ==
    ASSUME HeadsFollow, LookupInv, NEW t \in pending, Load(t)
    PROVE  /\ DOMAIN table' = PleLayersOf(server') /\ DOMAIN form' = PleLayersOf(server')
           /\ Tabled' /\ Built' /\ Cached'
<1>1. /\ server \in Server /\ t \in slice /\ server' = server /\ pending' = pending \ {t} /\ slice' = slice
      /\ UNCHANGED <<artifact, batch, window, answer>> /\ status = "loading"
    BY DEF LookupInv, LoadInv, Arrived, Load
<1>2. DOMAIN table' = PleLayersOf(server') /\ DOMAIN form' = PleLayersOf(server')
    <2>1. DOMAIN table' = DOMAIN table /\ DOMAIN form' = DOMAIN form
        BY DEF Load, LoadShard, LoadBuffer, LoadTensor
    <2> QED BY <2>1, <1>1 DEF LookupInv
<1>3. /\ \A l, came : TableAt(l, came)' = TableAt(l, came)
      /\ Delivered' = Delivered /\ BuilderAccepts' = BuilderAccepts
      /\ PleLayers' = PleLayers /\ Discards' = Discards
    BY <1>1, OneTable
<1>4. ASSUME slice = TableTensors(server), status' # "failed", ~Discards, NEW l \in PleLayers
      PROVE  /\ table'[l] = TableAt(l, Shards(l)')
             /\ server.mode # "nvfp4" /\ Switches(l)' => Shards(l)' = {}
    <2>1. CASE LoadShard(t)
        BY <1>4, <2>1, ShardIsTabled
    <2>2. CASE LoadBuffer(t) \/ LoadTensor(t)
        <3>1. t.module # "shard" /\ UNCHANGED <<table, form>>
            BY <2>2, <1>1, <1>4 DEF LoadBuffer, LoadTensor
        <3>2. \A j, n : TensorOf(j, "shard", "weight", n) # t
            BY <3>1 DEF TensorOf
        <3>3. Shards(l)' = Shards(l)
            BY <1>1, <3>2 DEF Shards
        <3>4. Switches(l)' = Switches(l)
            BY <1>1, <3>1 DEF Switches
        <3>5. /\ table[l] = TableAt(l, Shards(l))
              /\ server.mode # "nvfp4" /\ Switches(l) => Shards(l) = {}
            BY <1>1, <1>4 DEF LookupInv, Tabled
        <3> QED BY <3>1, <3>3, <3>4, <3>5
    <2> QED BY <2>1, <2>2 DEF Load
<1>5. Tabled'
    <2> SUFFICES ASSUME slice' = TableTensors(server'), status' # "failed", ~Discards', NEW l \in PleLayers'
                 PROVE  /\ table'[l] = TableAt(l, Shards(l))'
                        /\ server'.mode # "nvfp4" /\ Switches(l)' => Shards(l)' = {}
        BY DEF Tabled
    <2>1. /\ table'[l] = TableAt(l, Shards(l)')
          /\ server.mode # "nvfp4" /\ Switches(l)' => Shards(l)' = {}
        BY <1>1, <1>3, <1>4
    <2>2. TableAt(l, Shards(l))' = TableAt(l, Shards(l)')
        BY <1>3
    <2> QED BY <2>1, <2>2, <1>1
<1>6. Built'
    <2>1. server.mode = "hashk" /\ slice = TableTensors(server) => artifact # <<>>
        BY DEF Load
    <2> QED BY <2>1, <1>1, <1>3 DEF LookupInv, Built
<1>7. Cached'
    BY <1>1 DEF LookupInv, Cached, Windows, ShiftedAll
<1> QED BY <1>2, <1>5, <1>6, <1>7

\* A batch is hashed from its own windows, kept or not.
LEMMA WindowsAreOwn ==
    ASSUME Cached, batch # NoBatch
    PROVE  /\ Contexts(batch) = Windows(batch.tokens) /\ ShiftedOf(batch) = ShiftedAll(batch.tokens)
           /\ batch.id \in 1 .. 2 /\ batch.tokens \in Seq(Token)
<1>1. Contexts(batch) = Windows(batch.tokens)
    BY DEF Cached, Contexts
<1>2. ShiftedOf(batch) = ShiftedAll(batch.tokens)
    BY <1>1 DEF Cached, ShiftedOf, ShiftedAll
<1> QED BY <1>1, <1>2 DEF Cached

LEMMA LookupInvAtFirst == Init => LookupInv
<1> SUFFICES ASSUME Init PROVE LookupInv
    OBVIOUS
<1>1. LoadInv
    BY LoadInvAtFirst
<1>2. DOMAIN table = PleLayersOf(server) /\ DOMAIN form = PleLayersOf(server)
    BY DEF Init
<1>3. Tabled
    <2> SUFFICES ASSUME slice = TableTensors(server), NEW l \in PleLayers
                 PROVE  table[l] = TableAt(l, Shards(l)) /\ Shards(l) = {}
        BY DEF Tabled
    <2>1. l \in PleLayersOf(server)
        BY LayersServed DEF Init
    <2>2. Shards(l) = {}
        BY <2>1 DEF Shards, Init, TableTensors
    <2>3. table[l] = NoPart(l)
        BY <2>1 DEF Init
    <2> QED BY <2>2, <2>3, NothingCame
<1>4. Built /\ Cached
    BY DEF Init, Built, Cached
<1> QED BY <1>1, <1>2, <1>3, <1>4 DEF LookupInv

\* Every step keeps it.
LEMMA LookupInvIsKept == HeadsFollow /\ LookupInv /\ [Next]_vars => LookupInv'
<1> SUFFICES ASSUME HeadsFollow, LookupInv, [Next]_vars PROVE LookupInv'
    OBVIOUS
<1>1. LoadInv'
    BY LoadInvIsKept DEF LookupInv
<1>2. ASSUME UNCHANGED <<server, slice, pending, table, form>>, status' # "failed" => status # "failed"
      PROVE  /\ DOMAIN table' = PleLayersOf(server') /\ DOMAIN form' = PleLayersOf(server')
             /\ Tabled' /\ (artifact' = artifact => Built')
    <2>1. /\ \A l, came : TableAt(l, came)' = TableAt(l, came)
          /\ Delivered' = Delivered /\ BuilderAccepts' = BuilderAccepts
          /\ PleLayers' = PleLayers /\ Discards' = Discards
        BY <1>2, OneTable
    <2>2. Tabled'
        <3> SUFFICES ASSUME slice' = TableTensors(server'), status' # "failed", ~Discards', NEW l \in PleLayers'
                     PROVE  /\ table'[l] = TableAt(l, Shards(l))'
                            /\ server'.mode # "nvfp4" /\ Switches(l)' => Shards(l)' = {}
            BY DEF Tabled
        <3>1. Shards(l)' = Shards(l)
            BY <1>2 DEF Shards
        <3>2. Switches(l)' = Switches(l)
            BY <1>2 DEF Switches
        <3>3. TableAt(l, Shards(l))' = TableAt(l, Shards(l)')
            BY <2>1
        <3>4. /\ table[l] = TableAt(l, Shards(l))
              /\ server.mode # "nvfp4" /\ Switches(l) => Shards(l) = {}
            BY <1>2, <2>1 DEF LookupInv, Tabled
        <3> QED BY <1>2, <3>1, <3>2, <3>3, <3>4
    <2>3. artifact' = artifact => Built'
        BY <1>2, <2>1 DEF LookupInv, Built
    <2> QED BY <1>2, <2>2, <2>3 DEF LookupInv
<1>3. ASSUME UNCHANGED <<batch, window>> PROVE Cached'
    BY <1>3 DEF LookupInv, Cached, Windows, ShiftedAll
<1>4. ASSUME NEW t \in pending, Load(t) PROVE LookupInv'
    BY <1>1, <1>4, LoadsAreTabled DEF LookupInv
<1>5. CASE Finish
    BY <1>1, <1>2, <1>3, <1>5 DEF Finish, LookupInv
<1>6. CASE Build
    <2>1. UNCHANGED <<server, slice, pending, table, form, status, batch, window>>
        BY <1>6 DEF Build
    <2>2. Built'
        <3>1. Delivered' = Delivered /\ BuilderAccepts' = BuilderAccepts
            BY <2>1, OneTable
        <3>2. artifact' = Accumulated(Delivered) /\ BuilderAccepts
            BY <1>6 DEF Build
        <3>3. artifact' # <<>>
            <4>1. artifact'[1] = [s \in 0 .. SubOffset[NgramHeads] - 1 |->
                    {d.row : d \in {e \in Delivered : e.g < BuilderTotal /\ PlacedAt(e.g, 1) = s}}]
                  /\ DOMAIN artifact' = 1 .. 2
                BY <3>2 DEF Accumulated
            <4>2. DOMAIN <<>> = {}
                OBVIOUS
            <4> QED BY <4>1, <4>2
        <3> QED BY <3>1, <3>2, <3>3 DEF Built
    <2> QED BY <1>1, <1>2, <1>3, <2>1, <2>2 DEF LookupInv
<1>7. ASSUME NEW tokens \in Batches, Prepare(tokens) PROVE LookupInv'
    <2>1. UNCHANGED <<server, slice, pending, table, form, status, artifact>>
        BY <1>7 DEF Prepare
    <2>2. Cached'
        <3>1. batch' = [id |-> 3 - Upper(1, batch.id), tokens |-> tokens] /\ window' = NoWindow
            BY <1>7 DEF Prepare
        <3>2. batch.id \in 0 .. 2
            BY DEF LookupInv, Cached, NoBatch
        <3>3. 3 - Upper(1, batch.id) \in 1 .. 2
            BY <3>2 DEF Upper
        <3>4. tokens \in Seq(Token)
            BY LoadAssumption
        <3>5. batch'.id \in 1 .. 2 /\ batch'.tokens \in Seq(Token) /\ window'.id = 0
            BY <3>1, <3>3, <3>4 DEF NoWindow
        <3>6. window'.id # batch'.id
            BY <3>5
        <3> QED BY <3>5, <3>6 DEF Cached
    <2> QED BY <1>1, <1>2, <2>1, <2>2 DEF LookupInv
<1>8. ASSUME NEW l \in Layer, NEW fused \in BOOLEAN, Lookup(l, fused) PROVE LookupInv'
    <2>1. UNCHANGED <<server, slice, pending, table, form, status, artifact, batch>> /\ batch # NoBatch
        BY <1>8 DEF Lookup
    <2>2. Cached'
        <3>1. /\ Contexts(batch) = Windows(batch.tokens) /\ ShiftedOf(batch) = ShiftedAll(batch.tokens)
              /\ batch.id \in 1 .. 2 /\ batch.tokens \in Seq(Token)
            BY <2>1, WindowsAreOwn DEF LookupInv
        <3>2. window'.contexts = Windows(batch.tokens)
            BY <1>8, <3>1 DEF Lookup
        <3>3. window'.shifted \in {<<>>, ShiftedAll(batch.tokens)}
            <4>1. window'.shifted = IF fused /\ window.id = batch.id THEN window.shifted
                                    ELSE IF fused THEN <<>> ELSE ShiftedOf(batch)
                BY <1>8 DEF Lookup
            <4>2. window.id = batch.id => window.shifted \in {<<>>, ShiftedAll(batch.tokens)}
                BY <2>1 DEF LookupInv, Cached
            <4> QED BY <4>1, <4>2, <3>1
        <3>4. Windows(batch.tokens)' = Windows(batch.tokens) /\ ShiftedAll(batch.tokens)' = ShiftedAll(batch.tokens)
            BY <2>1 DEF Windows, ShiftedAll
        <3> QED BY <2>1, <3>1, <3>2, <3>3, <3>4 DEF Cached
    <2> QED BY <1>1, <1>2, <2>1, <2>2 DEF LookupInv
<1>9. CASE UNCHANGED vars
    BY <1>1, <1>2, <1>3, <1>9 DEF vars, LookupInv
<1> QED BY <1>4, <1>5, <1>6, <1>7, <1>8, <1>9 DEF Next

-----------------------------------------------------------------------------
(* Part: what a lookup gives *)

\* A token's own id, from the tokens of its row.
OwnIdOf(tokens, l, k, h) == NgramIdOf(l, ColumnOf(tokens, k), h)

GetsRow(got, id) ==
    /\ {e.row : e \in got} = {id}
    /\ \A e \in got : IF server.mode = "nvfp4" THEN Closest(e.bytes, RowValues(id))
                      ELSE e.bytes = RowValues(id)

HoldsRow(got, h, id, sub) ==
    /\ id \in got
    /\ got \subseteq HeadOffset[0, h] .. HeadOffset[0, h + 1] - 1
    /\ GatherSlot(h, id, sub) = Sample(h, id)[sub]

\* Behind the last tensor every table is complete, and every artifact built.
LEMMA LoadedIsComplete ==
    ASSUME HeadsFollow, LookupInv, Serving, NEW l \in PleLayers
    PROVE  /\ server \in Server /\ l \in Layer /\ l \in PleLayer
           /\ ~Discards => /\ 0 .. SplitParts - 1 \subseteq Shards(l) /\ table[l] = TableAt(l, Shards(l))
           /\ server.mode = "hashk" => BuilderAccepts /\ artifact = Accumulated(Delivered) /\ l = 0
<1>1. server \in Server /\ pending = {} /\ slice = TableTensors(server) /\ status = "loaded"
    BY DEF LookupInv, LoadInv, Arrived, Serving
<1>2. l \in Layer /\ l \in PleLayer
    BY <1>1, LayersServed, LoadAssumption DEF Layer
<1>3. ASSUME ~Discards
      PROVE  0 .. SplitParts - 1 \subseteq Shards(l) /\ table[l] = TableAt(l, Shards(l))
    <2>1. 0 .. SplitParts - 1 \subseteq Shards(l)
        BY <1>1 DEF Shards
    <2>2. table[l] = TableAt(l, Shards(l))
        BY <1>1, <1>3 DEF LookupInv, Tabled
    <2> QED BY <2>1, <2>2
<1>4. ASSUME server.mode = "hashk"
      PROVE  BuilderAccepts /\ artifact = Accumulated(Delivered) /\ l = 0
    <2>1. pending # slice
        BY <1>1 DEF TableTensors
    <2>2. artifact # <<>>
        BY <1>1, <1>4, <2>1 DEF LookupInv, Built
    <2>3. l = 0
        BY <1>4 DEF PleLayers, PleLayersOf
    <2> QED BY <2>2, <2>3 DEF LookupInv, Built
<1> QED BY <1>1, <1>2, <1>3, <1>4

\* An id that a head may ask for brings its row, once over the ranks.
LEMMA LookupsGetRows ==
    ASSUME HeadsFollow, RowsArePairs, LookupInv, Serving, NEW l \in PleLayers,
           server.mode \notin {"hashk", "off"}, NEW id \in 0 .. TotalVocab(l) - 1, NEW h
    PROVE  GetsRow(Looked(l, id, h), id)
<1>1. /\ server \in Server /\ l \in Layer /\ 0 .. SplitParts - 1 \subseteq Shards(l)
      /\ table[l] = TableAt(l, Shards(l))
    BY LoadedIsComplete DEF Discards
<1>2. PICK t \in Nat, v \in Nat : t = TotalVocab(l) /\ v = PaddedVocab(l, server.divisor) /\ t <= v
    BY <1>1, TableSizes
<1>3. id \in 0 .. PaddedVocab(l, server.divisor) - 1
    <2>1. id \in 0 .. t - 1 /\ t <= v
        BY <1>2
    <2>2. id \in 0 .. v - 1
        BY <2>1
    <2> QED BY <2>2, <1>2
<1>4. RowValues(id) \in Seq(Int) /\ Len(RowValues(id)) % 2 = 0
    BY <1>1, <1>3 DEF RowsArePairs
<1>5. Summed(l, id) = {Stored(id)}
    BY <1>1, <1>3, OneRankHasIt
<1>6. CASE server.mode = "nvfp4"
    <2>1. Stored(id) = [row |-> id, bytes |-> Pack(RowValues(id))]
        BY <1>6 DEF Stored
    <2>2. Looked(l, id, h) = Unpacked(l, id)
        BY <1>6 DEF Looked
    <2>3. Looked(l, id, h) = {[row |-> id, bytes |-> Unpack(Pack(RowValues(id)))]}
        BY <1>1, <1>3, <1>6, <2>1, <2>2, PackedRowsAtTheirId
    <2>4. Closest(Unpack(Pack(RowValues(id))), RowValues(id))
        BY <1>4, PackedIsClosest
    <2> QED BY <1>6, <2>3, <2>4 DEF GetsRow
<1>7. CASE server.mode # "nvfp4"
    <2>1. Stored(id) = [row |-> id, bytes |-> RowValues(id)]
        BY <1>7 DEF Stored
    <2>2. Looked(l, id, h) = {[row |-> id, bytes |-> RowValues(id)]}
        BY <1>5, <1>7, <2>1 DEF Looked
    <2> QED BY <1>7, <2>2 DEF GetsRow
<1> QED BY <1>6, <1>7

\* And from the artifact, the slots of that row.
LEMMA LookupsHoldRows ==
    ASSUME HeadsFollow, HashesAreWords, LookupInv, Serving, NEW l \in PleLayers,
           server.mode = "hashk", NEW h \in Heads, NEW sub \in 1 .. 2,
           NEW id \in HeadRows(0, h)
    PROVE  HoldsRow(Looked(l, id, h)[sub], h, id, sub)
<1>1. server \in Server /\ BuilderAccepts /\ artifact = Accumulated(Delivered)
    BY LoadedIsComplete
<1>2. Looked(l, id, h)[sub] = Accumulated(Delivered)[sub][GatherSlot(h, id, sub)]
    BY <1>1 DEF Looked
<1> QED BY <1>1, <1>2, SlotHoldsItsHead DEF HoldsRow, HeadRows

\* The rows that a lookup answers with.
LEMMA LookupsAnswer ==
    ASSUME LookupInv, NEW l \in Layer, NEW fused \in BOOLEAN, Lookup(l, fused)
    PROVE  /\ UNCHANGED <<server, batch>> /\ Serving /\ l \in PleLayers /\ answer'.layer = l
           /\ batch.tokens \in Seq(Token)
           /\ DOMAIN answer'.rows = DOMAIN Windows(batch.tokens)
           /\ \A k \in DOMAIN Windows(batch.tokens), h \in Heads :
                answer'.rows[k][h] = Looked(l, OwnIdOf(batch.tokens, l, k, h), h)
<1>1. /\ UNCHANGED <<server, batch>> /\ Serving /\ l \in PleLayers /\ answer'.layer = l /\ batch # NoBatch
      /\ answer'.rows = [k \in DOMAIN Contexts(batch) |->
            LET ids == NgramIds(l, ShiftedOf(batch)[k])
            IN  [h \in Heads |-> Looked(l, ids[h], h)]]
    BY DEF Lookup
<1>2. /\ Contexts(batch) = Windows(batch.tokens) /\ ShiftedOf(batch) = ShiftedAll(batch.tokens)
      /\ batch.tokens \in Seq(Token)
    BY <1>1, WindowsAreOwn DEF LookupInv
<1>3. ASSUME NEW k \in DOMAIN Windows(batch.tokens), NEW h \in Heads
      PROVE  NgramIds(l, ShiftedAll(batch.tokens)[k])[h] = OwnIdOf(batch.tokens, l, k, h)
    <2>1. ShiftedAll(batch.tokens)[k] = ShiftedWindows(Windows(batch.tokens)[k])
        BY DEF ShiftedAll
    <2>2. PICK s : s = ShiftedWindows(Windows(batch.tokens)[k])
        OBVIOUS
    <2>3. [n \in DOMAIN s |-> Last(s[n])] = ColumnOf(batch.tokens, k)
        BY <2>2, <1>2, WindowsGiveOwnColumn
    <2>4. NgramIds(l, s)[h] = NgramIdOf(l, [n \in DOMAIN s |-> Last(s[n])], h)
        BY DEF NgramIds
    <2> QED BY <2>1, <2>2, <2>3, <2>4 DEF OwnIdOf
<1> QED BY <1>1, <1>2, <1>3

\* Only a lookup answers, and it answers with the tokens' own rows.
LEMMA TokensGetRows ==
    ASSUME HeadsFollow, HashesAreWords, RowsArePairs, LookupInv, TokensGetTheirRows, [Next]_vars
    PROVE  TokensGetTheirRows'
<1>1. ASSUME UNCHANGED <<server, batch, answer>> PROVE TokensGetTheirRows'
    <2>1. \A l, k, h : OwnId(l, k, h)' = OwnId(l, k, h)
        BY <1>1 DEF OwnId
    <2> QED BY <2>1, <1>1 DEF TokensGetTheirRows
<1>2. ASSUME NEW l \in Layer, NEW fused \in BOOLEAN, Lookup(l, fused) PROVE TokensGetTheirRows'
    <2>1. /\ UNCHANGED <<server, batch>> /\ Serving /\ l \in PleLayers /\ answer'.layer = l
          /\ batch.tokens \in Seq(Token)
          /\ DOMAIN answer'.rows = DOMAIN Windows(batch.tokens)
          /\ \A k \in DOMAIN Windows(batch.tokens), h \in Heads :
                answer'.rows[k][h] = Looked(l, OwnIdOf(batch.tokens, l, k, h), h)
        BY <1>2, LookupsAnswer
    <2>2. ASSUME server.mode \notin {"hashk", "off"}, NEW k \in DOMAIN Windows(batch.tokens), NEW h \in Heads
          PROVE  GetsRow(answer'.rows[k][h], OwnIdOf(batch.tokens, l, k, h))
        <3>1. l \in PleLayer
            BY <2>1, LoadedIsComplete
        <3>2. OwnIdOf(batch.tokens, l, k, h) \in 0 .. TotalVocab(l) - 1
            BY <3>1, <2>1, IdsAreOfTheirHead DEF OwnIdOf
        <3> QED BY <2>1, <2>2, <3>2, LookupsGetRows
    <2>3. ASSUME NEW k, NEW h
          PROVE  OwnId(answer.layer, k, h)' = OwnIdOf(batch.tokens, l, k, h)
        BY <2>1 DEF OwnId, OwnIdOf, ColumnOf
    <2>4. ASSUME server'.mode \notin {"hashk", "off"}, NEW k \in DOMAIN answer'.rows, NEW h \in Heads
          PROVE  GetsRow(answer'.rows[k][h], OwnId(answer.layer, k, h)')
        BY <2>1, <2>2, <2>3, <2>4
    <2> QED BY <2>1, <2>4 DEF TokensGetTheirRows, GetsRow
<1>3. ASSUME NEW tokens, Prepare(tokens) PROVE TokensGetTheirRows'
    BY <1>3 DEF Prepare, TokensGetTheirRows
<1>4. ASSUME NEW t, Load(t) PROVE TokensGetTheirRows'
    BY <1>1, <1>4 DEF Load
<1> QED BY <1>1, <1>2, <1>3, <1>4 DEF Next, Build, Finish, vars

LEMMA SlotsHoldRows ==
    ASSUME HeadsFollow, HashesAreWords, LookupInv, SlotsHoldTheRow, [Next]_vars
    PROVE  SlotsHoldTheRow'
<1>1. ASSUME UNCHANGED <<server, batch, answer>> PROVE SlotsHoldTheRow'
    <2>1. \A l, k, h : OwnId(l, k, h)' = OwnId(l, k, h)
        BY <1>1 DEF OwnId
    <2> QED BY <2>1, <1>1 DEF SlotsHoldTheRow
<1>2. ASSUME NEW l \in Layer, NEW fused \in BOOLEAN, Lookup(l, fused) PROVE SlotsHoldTheRow'
    <2>1. /\ UNCHANGED <<server, batch>> /\ Serving /\ l \in PleLayers /\ answer'.layer = l
          /\ batch.tokens \in Seq(Token)
          /\ DOMAIN answer'.rows = DOMAIN Windows(batch.tokens)
          /\ \A k \in DOMAIN Windows(batch.tokens), h \in Heads :
                answer'.rows[k][h] = Looked(l, OwnIdOf(batch.tokens, l, k, h), h)
        BY <1>2, LookupsAnswer
    <2>2. ASSUME server.mode = "hashk", NEW k \in DOMAIN Windows(batch.tokens), NEW h \in Heads,
                 NEW sub \in 1 .. 2
          PROVE  HoldsRow(answer'.rows[k][h][sub], h, OwnIdOf(batch.tokens, 0, k, h), sub)
        <3>1. l = 0 /\ l \in PleLayer
            BY <2>1, <2>2, LoadedIsComplete
        <3>2. OwnIdOf(batch.tokens, 0, k, h) \in HeadRows(0, h)
            BY <3>1, <2>1, IdsAreOfTheirHead DEF OwnIdOf, HeadRows
        <3>3. answer'.rows[k][h] = Looked(l, OwnIdOf(batch.tokens, 0, k, h), h)
            BY <3>1, <2>1
        <3> QED BY <2>1, <2>2, <3>2, <3>3, LookupsHoldRows
    <2>3. ASSUME NEW k, NEW h
          PROVE  OwnId(0, k, h)' = OwnIdOf(batch.tokens, 0, k, h)
        BY <2>1 DEF OwnId, OwnIdOf, ColumnOf
    <2>4. ASSUME server'.mode = "hashk", NEW k \in DOMAIN answer'.rows, NEW h \in Heads, NEW sub \in 1 .. 2
          PROVE  HoldsRow(answer'.rows[k][h][sub], h, OwnId(0, k, h)', sub)
        BY <2>1, <2>2, <2>3, <2>4
    <2> QED BY <2>4 DEF SlotsHoldTheRow, HoldsRow
<1>3. ASSUME NEW tokens, Prepare(tokens) PROVE SlotsHoldTheRow'
    BY <1>3 DEF Prepare, SlotsHoldTheRow
<1>4. ASSUME NEW t, Load(t) PROVE SlotsHoldTheRow'
    BY <1>1, <1>4 DEF Load
<1> QED BY <1>1, <1>2, <1>3, <1>4 DEF Next, Build, Finish, vars

\* compute_ngram_ids and the lookup behind it: whatever batches, layers and windows
\* came before, a token gets the checkpoint's row of its own n-gram: once over any
\* number of ranks that share a table, and from the one rank of a packed table
\* (_nvfp4_gather reads at the id itself) at its nearest levels.
THEOREM LookupsGiveOwnRows ==
    ASSUME HeadsFollow, HashesAreWords, RowsArePairs PROVE Spec => []TokensGetTheirRows
<1>1. Init => LookupInv /\ TokensGetTheirRows
    BY LookupInvAtFirst DEF Init, TokensGetTheirRows
<1>2. LookupInv /\ TokensGetTheirRows /\ [Next]_vars => LookupInv' /\ TokensGetTheirRows'
    BY LookupInvIsKept, TokensGetRows
<1> QED BY <1>1, <1>2, PTL DEF Spec

\* _hashk_gather: the slots that a token reads from the artifact hold its own row,
\* and rows of its own head only, the ones that the head's projection was fitted on.
THEOREM SlotsAreOfTheToken ==
    ASSUME HeadsFollow, HashesAreWords PROVE Spec => []SlotsHoldTheRow
<1>1. Init => LookupInv /\ SlotsHoldTheRow
    BY LookupInvAtFirst DEF Init, SlotsHoldTheRow
<1>2. LookupInv /\ SlotsHoldTheRow /\ [Next]_vars => LookupInv' /\ SlotsHoldTheRow'
    BY LookupInvIsKept, SlotsHoldRows
<1> QED BY <1>1, <1>2, PTL DEF Spec

-----------------------------------------------------------------------------
(* Part: types *)

Row == [row : Int, bytes : Seq(Int)]
Part(l) == [Rank -> [0 .. PartSize(l) - 1 -> Row]]

\* A row that is stored is a row of the table, packed or as it is.
LEMMA StoredRows ==
    ASSUME RowsArePairs, server \in Server, NEW l \in Layer,
           NEW g \in 0 .. PaddedVocab(l, server.divisor) - 1
    PROVE  Stored(g) \in Row
<1>1. RowValues(g) \in Seq(Int) /\ Len(RowValues(g)) % 2 = 0
    BY DEF RowsArePairs
<1>2. Pack(RowValues(g)) \in Seq(Int)
    BY <1>1, UnpackedLevels
<1>3. g \in Int
    OBVIOUS
<1> QED BY <1>1, <1>2, <1>3 DEF Stored, Row

\* A shard turns a part of rows into one.
LEMMA PartsOfRows ==
    ASSUME HeadsFollow, RowsArePairs, server \in Server, NEW l \in Layer, NEW n \in Nat,
           NEW part \in Part(l)
    PROVE  WithShard(part, l, n) \in Part(l)
<1> DEFINE first == n * ShardSize(l)
           last == first + ShardLength(l, n)
           rows(r) == Upper(first, PartStart(l, r)) .. Lower(last, PartEnd(l, r)) - 1
<1>1. PICK v \in Nat \ {0}, z \in Nat \ {0} : v = PaddedVocab(l, server.divisor) /\ z = PartSize(l)
    BY TableSizes
<1>2. PICK s \in Nat \ {0} : s = ShardSize(l)
    BY TableSizes
<1>3. ASSUME NEW r \in Rank, NEW i \in 0 .. z - 1, PartStart(l, r) + i \in rows(r)
      PROVE  Stored(PartStart(l, r) + i) \in Row
    <2>1. r \in Nat
        BY TableSizes
    <2>2. PICK start \in Nat : start = PartStart(l, r) /\ (r + 1) * z = start + z
        BY <2>1, <1>1, DivIs DEF PartStart
    <2>3. PICK e \in Nat : e = PartEnd(l, r) /\ e <= v
        BY <2>2, <1>1 DEF PartEnd, Lower
    <2>4. PICK f \in Int, t \in Int : f = first /\ t = last
        <3>1. n * s \in Nat
            BY DivIs
        <3>2. PICK f \in Nat : f = first
            BY <3>1, <1>2
        <3>3. ShardLength(l, n) = Upper(0, Lower(s, v - f))
            BY <1>1, <1>2, <3>2 DEF ShardLength
        <3>4. Upper(0, Lower(s, v - f)) \in Int
            BY DEF Upper, Lower
        <3>5. last \in Int
            BY <3>2, <3>3, <3>4
        <3> HIDE DEF first, last
        <3> QED BY <3>2, <3>5
    <2>5. start + i \in Upper(f, start) .. Lower(t, e) - 1
        BY <1>3, <2>2, <2>3, <2>4
    <2> HIDE DEF rows, first, last
    <2>6. start + i <= Lower(t, e) - 1 /\ Lower(t, e) <= e
        BY <2>5 DEF Lower
    <2>7. Lower(t, e) \in Int
        BY DEF Lower
    <2>8. start + i \in 0 .. v - 1
        BY <2>3, <2>6, <2>7
    <2>9. start + i \in 0 .. PaddedVocab(l, server.divisor) - 1
        BY <2>8, <1>1
    <2> QED BY <2>2, <2>9, StoredRows
<1>4. WithShard(part, l, n) = [r \in Rank |-> [i \in DOMAIN part[r] |->
            IF PartStart(l, r) + i \in rows(r) THEN Stored(PartStart(l, r) + i) ELSE part[r][i]]]
    BY DEF WithShard
<1>5. \A r \in Rank : DOMAIN part[r] = 0 .. z - 1 /\ \A i \in 0 .. z - 1 : part[r][i] \in Row
    BY <1>1 DEF Part
<1> HIDE DEF rows
<1>6. WithShard(part, l, n) = [r \in Rank |-> [i \in 0 .. z - 1 |->
            IF PartStart(l, r) + i \in rows(r) THEN Stored(PartStart(l, r) + i) ELSE part[r][i]]]
    BY <1>4, <1>5
<1> QED BY <1>1, <1>3, <1>5, <1>6 DEF Part

LEMMA NoPartIsOne == ASSUME NEW l PROVE NoPart(l) \in Part(l)
<1>1. NoRow \in Row
    BY DEF NoRow, Row
<1> QED BY <1>1 DEF NoPart, Part

\* Every step keeps the types.
LEMMA TypesAreKept ==
    ASSUME HeadsFollow, RowsArePairs, LookupInv, LookupInv', TypeOK, [Next]_vars
    PROVE  TypeOK'
<1> DEFINE Tables == \A l \in DOMAIN table : table[l] \in Part(l)
           Forms == \A l \in DOMAIN form : form[l] \in {"bf16", "fp8"}
           Pieces == {p.param : p \in filled} \cup {c.param : c \in cast} \subseteq Params
<1>1. server' = server
    BY DEF Next, Build, Load, Finish, Prepare, Lookup, vars
<1>2. \A l : Part(l)' = Part(l)
    BY <1>1 DEF Part, PartSize, Row, Rank
<1>3. server \in Server /\ Tables /\ Forms /\ status \in {"loading", "loaded", "failed"}
      /\ window.id \in {0, batch.id}
    BY DEF TypeOK, Part, Row
<1>4. Pieces'
    <2>1. ASSUME NEW f \in filled' PROVE f.param \in Params'
        <3>1. PICK t \in slice' : f \in Contributed(t)'
            BY <2>1 DEF LookupInv, LoadInv, Arrived
        <3>2. Contributed(t)' = Contributed(t) /\ Params' = Params
            BY <1>1, OneServer
        <3>3. slice' = slice /\ t \in slice /\ slice \in Slices(server)
            BY <3>1 DEF Next, Build, Load, Finish, Prepare, Lookup, vars, LookupInv, LoadInv, Arrived
        <3> QED BY <1>3, <3>1, <3>2, <3>3, PiecesAreOwn
    <2>2. \A c \in cast' : c.param \in Params'
        BY DEF LookupInv, LoadInv, Copied
    <2> QED BY <2>1, <2>2
<1>5. batch'.id \in 0 .. 2
    BY DEF LookupInv, Cached, NoBatch
<1>6. ASSUME UNCHANGED <<table, form>>, status' \in {"loading", "loaded", "failed"},
             window'.id \in {0, batch'.id}
      PROVE  TypeOK'
    <2>1. Tables' /\ Forms'
        BY <1>2, <1>3, <1>6
    <2> QED BY <1>1, <1>3, <1>4, <1>5, <1>6, <2>1 DEF TypeOK, Part, Row
<1>7. ASSUME NEW t \in pending, Load(t) PROVE TypeOK'
    <2>1. UNCHANGED <<batch, window>> /\ status = "loading" /\ t \in slice
        BY <1>7 DEF Load, LookupInv, LoadInv, Arrived
    <2>2. status' \in {"loading", "failed"}
        BY <1>7, <2>1 DEF Load, LoadShard, LoadBuffer, LoadTensor
    <2>3. CASE LoadBuffer(t) \/ LoadTensor(t)
        <3>1. UNCHANGED <<table, form>>
            BY <2>3 DEF LoadBuffer, LoadTensor
        <3> QED BY <3>1, <2>1, <2>2, <1>3, <1>6
    <2>4. CASE LoadShard(t)
        <3>1. CASE UNCHANGED <<table, form>>
            BY <3>1, <2>1, <2>2, <1>3, <1>6
        <3>2. CASE ~ UNCHANGED <<table, form>>
            <4>1. t.module = "shard" /\ t.layer \in PleLayers
                BY <2>4, <3>2 DEF LoadShard
            <4>2. PICK l \in Layer, n \in Nat : l = t.layer /\ n = t.item /\ l \in DOMAIN table
                <5>1. t \in TableTensors(server)
                    <6>1. \A u \in AttentionTensors(server) \cup OtherTensors(server) : u.module # "shard"
                        BY DEF AttentionTensors, OtherTensors, LinearTensors, ExpertTensors, Tensor, TensorOf
                    <6> QED BY <6>1, <4>1, <2>1 DEF LookupInv, LoadInv, Arrived, Slices
                <5>2. t.layer \in PleLayersOf(server) /\ t.item \in 0 .. SplitParts - 1
                    BY <5>1, <4>1, <1>3, ShardNames
                <5> QED BY <5>2, <1>3, LayersServed DEF LookupInv
            <4>3. PICK part \in Part(l) : table' = [table EXCEPT ![l] = WithShard(part, l, n)]
                <5>1. \/ table' = [table EXCEPT ![l] = WithShard(table[l], l, n)]
                      \/ table' = [table EXCEPT ![l] = WithShard(NoPart(l), l, n)]
                    BY <2>4, <3>2, <4>2 DEF LoadShard
                <5> QED BY <5>1, <4>2, <1>3, NoPartIsOne
            <4>4. WithShard(part, l, n) \in Part(l)
                BY <1>3, PartsOfRows
            <4>5. Tables'
                <5>1. ASSUME NEW j \in DOMAIN table' PROVE table'[j] \in Part(j)
                    BY <4>3, <4>4, <1>3
                <5> QED BY <5>1, <1>2
            <4>6. Forms'
                <5>1. form' = form \/ form' = [form EXCEPT ![l] = "fp8"]
                    BY <2>4, <3>2, <4>2 DEF LoadShard
                <5> QED BY <5>1, <1>3
            <4> QED BY <1>1, <1>3, <1>4, <1>5, <2>1, <2>2, <4>5, <4>6 DEF TypeOK, Part, Row
        <3> QED BY <3>1, <3>2
    <2> QED BY <1>7, <2>3, <2>4 DEF Load
<1>8. CASE Finish
    BY <1>3, <1>6, <1>8 DEF Finish
<1>9. CASE Build
    BY <1>3, <1>6, <1>9 DEF Build
<1>10. ASSUME NEW tokens, Prepare(tokens) PROVE TypeOK'
    BY <1>3, <1>6, <1>10 DEF Prepare, NoWindow
<1>11. ASSUME NEW l, NEW fused, Lookup(l, fused) PROVE TypeOK'
    BY <1>3, <1>6, <1>11 DEF Lookup
<1>12. CASE UNCHANGED vars
    BY <1>3, <1>6, <1>12 DEF vars
<1> QED BY <1>7, <1>8, <1>9, <1>10, <1>11, <1>12 DEF Next

LEMMA TypesAtFirst == ASSUME Init PROVE TypeOK
<1>1. server \in Server /\ server.stored \in {"bf16", "fp8"}
    BY LoadAssumption DEF Init
<1>2. \A l \in DOMAIN table : table[l] \in Part(l)
    BY NoPartIsOne DEF Init
<1>3. \A l \in DOMAIN form : form[l] \in {"bf16", "fp8"}
    BY <1>1 DEF Init
<1>4. filled = {} /\ cast = {} /\ status = "loading" /\ batch.id = 0 /\ window.id = 0
    BY DEF Init, NoBatch, NoWindow
<1> QED BY <1>1, <1>2, <1>3, <1>4 DEF TypeOK, Part, Row

\* Tables hold rows, parameters are filled from tensors, and windows are kept for
\* the batch at hand or for none.
THEOREM LoadTypeCorrect ==
    ASSUME HeadsFollow, RowsArePairs PROVE Spec => []TypeOK
<1>1. Init => LookupInv /\ TypeOK
    BY LookupInvAtFirst, TypesAtFirst
<1>2. LookupInv /\ TypeOK /\ [Next]_vars => LookupInv' /\ TypeOK'
    BY LookupInvIsKept, TypesAreKept
<1> QED BY <1>1, <1>2, PTL DEF Spec
=============================================================================
