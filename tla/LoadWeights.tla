----------------------------- MODULE LoadWeights -----------------------------
(***************************************************************************)
(* Loading the checkpoint of Qwen4-Exp, tensor by tensor in any order, and *)
(* looking up the n-gram rows that were loaded.                            *)
(*                                                                         *)
(* Translated from Qwen4ExpForConditionalGeneration.load_weights and       *)
(* _load_qwen4_exp_ple_buffer, from the storage modes of                   *)
(* Qwen4ExpNGramEmbedding and Qwen4ExpPinnedHostEmbedding, and from        *)
(* compute_ngram_ids, all in src/patches/qwen4_exp_nvfp4.py, and from what *)
(* src/patch/patch_fp8.py and src/patch/patch_ple_off.py insert in it: the *)
(* fp8 copies made at the end of load_weights and the mode without tables. *)
(* The names of tensors are records [layer, module, leaf]; the weight      *)
(* loaders of parameters are SGLang's own.                                 *)
(***************************************************************************)
EXTENDS PleTable

CONSTANTS
    Server,     \* [mode, ranks, stored, checkpoint, divisor, stage, tied, textOnly, fused, casts]
    Expert,     \* the experts of a layer
    NoLayer,    \* the layer of tensors that belong to none
    Batches     \* the padded rows of tokens looked up, NgramSize tokens or more

ASSUME LoadAssumption ==
    /\ NoLayer \notin Nat /\ 0 .. 1 \subseteq PleLayer /\ Batches \subseteq Seq(Token) \ {<<>>}
    /\ \A s \in Server : /\ s.stage \in (SUBSET (0 .. 1)) \ {{}} /\ s.divisor \in Nat \ {0}
                         /\ s.stored \in {"bf16", "fp8"} /\ s.ranks \in Nat \ {0}
                         /\ s.mode = "nvfp4" => s.ranks = 1

VARIABLES
    server,    \* the server that loads, and its slice of the checkpoint; never change
    slice,
    pending,   \* the tensors of the checkpoint still to come
    status,    \* "loading", "loaded" or "failed"
    filled,    \* the pieces of parameters that were written, each with its source
    cast,      \* the fp8 copies: of which parameter, made from which pieces
    artifact,  \* the HashK artifact: what each slot of its sub-tables is the mean of
    table,     \* table[layer][rank]: the rows of its part of the n-gram table
    form,      \* form[layer]: what the table is stored in
    reported,  \* loaded_params
    batch,     \* the batch looked up: its identity and its padded row of tokens
    window,    \* pool.ple_window_cache
    answer     \* the last lookup: its layer, and the rows that each token got

vars == <<server, slice, artifact, pending, status, filled, cast, table, form, reported, batch, window, answer>>

-----------------------------------------------------------------------------
(* The model that is loaded: two layers, one a stage where there are stages *)

Layer == 0 .. 1
Owned == server.stage
FirstStage == 0 \in Owned
LastStage == 1 \in Owned

\* The tensor-parallel ranks that share a table; packed tables have one.
Rank == 0 .. server.ranks - 1

\* HashK serves checkpoints with one PLE layer, the one its builder reads.
PleLayersOf(s) == IF s.mode = "hashk" THEN {0} ELSE Layer
PleLayers == PleLayersOf(server) \cap Owned

Attention(l) == {<<l, "attn", "qkv_proj">>, <<l, "attn", "o_proj">>,
                 <<l, "indexer", "q_proj">>, <<l, "attn", "k_scale">>}
Experts(l) == {<<l, "experts", "w13">>, <<l, "experts", "w2">>}

Params ==
    (UNION {Attention(l) \cup Experts(l) : l \in Owned})
    \cup (IF FirstStage THEN {<<NoLayer, "embed", "weight">>} ELSE {})
    \cup (IF LastStage THEN {<<NoLayer, "lm_head", "weight">>} ELSE {})
    \cup (IF server.textOnly THEN {} ELSE {<<NoLayer, "visual", "weight">>})

\* The rows of the checkpoint's shards of a table, and of a rank's part of it.
ShardSize(l) == Ceiling(PaddedVocab(l, server.divisor), SplitParts)
ShardLength(l, n) == Upper(0, Lower(ShardSize(l), PaddedVocab(l, server.divisor) - n * ShardSize(l)))
PartSize(l) == Ceiling(PaddedVocab(l, server.divisor), server.ranks)
PartStart(l, r) == r * PartSize(l)
PartEnd(l, r) == Lower((r + 1) * PartSize(l), PaddedVocab(l, server.divisor))

\* Of several shards or experts, item tells which.
Tensor(l, module, leaf) == [layer |-> l, module |-> module, leaf |-> leaf, item |-> 0]
TensorOf(l, module, leaf, n) == [layer |-> l, module |-> module, leaf |-> leaf, item |-> n]

\* A checkpoint is loaded in slices that no parameter is made of two of: the
\* n-gram tables, the attention, and the rest.
TableTensors(s) ==
    {TensorOf(l, "shard", "weight", n) : l \in PleLayersOf(s), n \in 0 .. SplitParts - 1}
    \cup {Tensor(0, "ple_buffer", "weight_scale"), Tensor(0, "ple_buffer", "token_lookup")}

LinearTensors(l) ==
    {Tensor(l, "attn", leaf) : leaf \in {"q_proj", "k_proj", "v_proj", "o_proj"}}
    \cup {Tensor(l, "indexer", "q_proj"), Tensor(l, "attn", "k_proj.k_scale")}

ExpertTensors(s, l) ==
    IF s.fused THEN {Tensor(l, "experts", "gate_up_proj"), Tensor(l, "experts", "down_proj")}
    ELSE {TensorOf(l, "experts", leaf, e) : leaf \in {"gate_proj", "up_proj", "down_proj"}, e \in Expert}

AttentionTensors(s) == LinearTensors(0) \cup (IF s.stage = {1} THEN LinearTensors(1) ELSE {})

OtherTensors(s) ==
    {Tensor(NoLayer, module, "weight") : module \in {"mtp", "visual", "embed"}}
    \cup (IF s.tied THEN {} ELSE {Tensor(NoLayer, "lm_head", "weight")})
    \cup UNION {ExpertTensors(s, l) : l \in IF s.fused THEN Layer ELSE {Max(s.stage)}}

Slices(s) == {TableTensors(s), AttentionTensors(s), OtherTensors(s)}

-----------------------------------------------------------------------------
(* The n-gram table *)

NoRow == [row |-> -1, bytes |-> <<>>]
NoPart(l) == [r \in Rank |-> [i \in 0 .. PartSize(l) - 1 |-> NoRow]]

\* What a row is stored as; the rounding of a cast to the table's type is left out.
Stored(g) ==
    IF server.mode = "nvfp4" THEN [row |-> g, bytes |-> Pack(RowValues(g))]
    ELSE [row |-> g, bytes |-> RowValues(g)]

\* What the proofs use of the rows that a table holds: whole bytes of packed values.
RowsArePairs ==
    \A s \in Server, l \in Layer : \A g \in 0 .. PaddedVocab(l, s.divisor) - 1 :
        RowValues(g) \in Seq(Int) /\ Len(RowValues(g)) % 2 = 0

\* copy_ple_rows_to_tp_embedding: the overlap of the shard with a rank's part.
WithShard(part, l, n) ==
    LET first == n * ShardSize(l)
        last == first + ShardLength(l, n)
        rows(r) == Upper(first, PartStart(l, r)) .. Lower(last, PartEnd(l, r)) - 1
    IN  [r \in Rank |-> LET mine == rows(r) start == PartStart(l, r) IN
            [i \in DOMAIN part[r] |-> IF start + i \in mine THEN Stored(start + i) ELSE part[r][i]]]

\* A shard in fp8 makes a bf16 table an empty fp8 one, once; pinned host memory
\* cannot be swapped.
Switches(l) == server.checkpoint = "fp8" /\ form[l] = "bf16"

\* Servers without a table read the shards and drop them.
Discards == server.mode \in {"hashk", "off"}

LoadShard(t) ==
    LET l == t.layer IN
    /\ t.module = "shard"
    /\ IF l \notin PleLayers \/ (server.mode = "pinned" /\ Switches(l))
       \* On another stage the name falls through to the unsupported layouts.
       THEN /\ status' = "failed"
            /\ UNCHANGED <<table, form, reported>>
       ELSE /\ reported' = reported \cup {<<l, "ngram_embedding", "weight">>}
            /\ IF Discards THEN UNCHANGED <<table, form>>
               ELSE IF server.mode = "nvfp4" \/ ~Switches(l)
               THEN /\ table' = [table EXCEPT ![l] = WithShard(table[l], l, t.item)]
                    /\ UNCHANGED form
               ELSE /\ table' = [table EXCEPT ![l] = WithShard(NoPart(l), l, t.item)]
                    /\ form' = [form EXCEPT ![l] = "fp8"]
            /\ UNCHANGED status
    /\ UNCHANGED filled

LoadBuffer(t) ==
    /\ t.module = "ple_buffer"
    /\ IF t.layer \in PleLayers /\ t.leaf = "weight_scale"
       THEN reported' = reported \cup {<<t.layer, "ngram_embedding", "weight_scale">>}
       ELSE UNCHANGED reported
    /\ UNCHANGED <<status, filled, table, form>>

-----------------------------------------------------------------------------
(* The other tensors: each tensor's parameter, and the pieces it fills *)

Piece(param, name, item, t) == [param |-> param, name |-> name, item |-> item, from |-> t]

\* stacked_params_mapping, in its order; a target that does not exist is passed over.
Stacked(t) ==
    {m \in {<<"q_proj", "qkv_proj", "q">>, <<"k_proj", "qkv_proj", "k">>, <<"v_proj", "qkv_proj", "v">>} :
        m[1] = t.leaf /\ <<t.layer, t.module, m[2]>> \in Params}

\* Mutant: both halves of a fused tensor are loaded as the gate.
HalvesGateTwice(leaf) ==
    CASE leaf \in {"gate_up_proj", "gate_proj"} -> {<<"w13", "w1">>}
      [] leaf = "up_proj" -> {<<"w13", "w3">>}
      [] leaf = "down_proj" -> {<<"w2", "w2">>}

\* A fused tensor holds gate before up.
Halves(leaf) ==
    CASE leaf = "gate_up_proj" -> {<<"w13", "w1">>, <<"w13", "w3">>}
      [] leaf = "gate_proj" -> {<<"w13", "w1">>}
      [] leaf = "up_proj" -> {<<"w13", "w3">>}
      [] leaf = "down_proj" -> {<<"w2", "w2">>}

\* A fused tensor fills the piece of every expert, another one that of its own.
ExpertPieces(t) ==
    {Piece(<<t.layer, "experts", w[1]>>, w[2], e, t) :
        w \in Halves(t.leaf), e \in IF server.fused THEN Expert ELSE {t.item}}

PiecesOf(t) ==
    IF t.module = "experts" THEN ExpertPieces(t)
    ELSE IF Stacked(t) # {} THEN {Piece(<<t.layer, t.module, m[2]>>, m[3], 0, t) : m \in Stacked(t)}
    ELSE LET leaf == IF t.leaf = "k_proj.k_scale" THEN "k_scale" ELSE t.leaf
             own == <<t.layer, t.module, leaf>>
         IN  IF own \in Params THEN {Piece(own, "whole", 0, t)} ELSE {}

\* Mutant: layers up to and including the end of the stage's range.
ElsewhereInclusive(t) == t.layer # NoLayer /\ t.layer > Max(Owned) + 1

\* Layers of another pipeline stage are skipped.
Elsewhere(t) == t.layer # NoLayer /\ t.layer \notin Owned

\* A tied lm_head takes the embedding's tensor on the last stage.
TiedPieces(t) ==
    IF server.tied /\ LastStage /\ t.module = "embed"
    THEN {Piece(<<NoLayer, "lm_head", "weight">>, "whole", 0, t)} ELSE {}

Skipped(t) == t.module = "mtp" \/ (t.module = "visual" /\ server.textOnly)

LoadTensor(t) ==
    /\ t.module \notin {"shard", "ple_buffer"}
    /\ LET own == IF Elsewhere(t) THEN {} ELSE PiecesOf(t)
       IN  IF Skipped(t) THEN UNCHANGED <<filled, reported>>
           ELSE /\ filled' = filled \cup TiedPieces(t) \cup own
                /\ reported' = reported \cup {p.param : p \in own}
    /\ UNCHANGED <<status, table, form>>

\* Casts go by name, to plain two-dimensional weights only: experts have none.
Dense == {p \in Params : p[2] = "lm_head" \/ p[3] \in {"qkv_proj", "o_proj", "q_proj"}}
Casts == {p \in Dense : server.casts \cap {p[2], p[3]} # {}}
Copies == {[param |-> p, pieces |-> {f \in filled : f.param = p}] : p \in Casts}

-----------------------------------------------------------------------------
(* Lookups *)

NoBatch == [id |-> 0, tokens |-> <<>>]
NoWindow == [id |-> 0, contexts |-> <<>>, shifted |-> <<>>]

\* The windows of the batch's tokens: its row, or every NgramSize columns of it.
Windows(tokens) ==
    [k \in 1 .. Len(tokens) - NgramSize + 1 |-> SubSeq(tokens, k, k + NgramSize - 1)]

\* compute_ngram_ids reuses the windows of the same batch, and only those.
Contexts(b) == IF window.id = b.id THEN window.contexts ELSE Windows(b.tokens)

ShiftedOf(b) ==
    IF window.id = b.id /\ window.shifted # <<>> THEN window.shifted
    ELSE [k \in DOMAIN Contexts(b) |-> ShiftedWindows(Contexts(b)[k])]

Delivered ==
    {[g |-> n * BuilderShardRows + i, row |-> n * ShardSize(0) + i] :
        n \in 0 .. SplitParts - 1, i \in 0 .. BuilderShardRows - 1}

\* The builder refuses shards of another size than its own arithmetic gives.
BuilderAccepts == \A n \in 0 .. SplitParts - 1 : ShardLength(0, n) = BuilderShardRows

\* A rank contributes the row where the id is in its part, zeros elsewhere.
Gathered(l, r, id) ==
    IF PartStart(l, r) <= id /\ id < PartEnd(l, r) THEN {table[l][r][id - PartStart(l, r)]} ELSE {}

\* reduce: the sum over the ranks is what the token gets.
Summed(l, id) == UNION {Gathered(l, r, id) : r \in Rank}

\* Packed rows are read at the id itself, from the whole of a rank's part: there
\* is no mask, no offset and no sum over ranks.
Unpacked(l, id) ==
    {[row |-> table[l][r][id].row, bytes |-> Unpack(table[l][r][id].bytes)] : r \in Rank}

\* With PLE off every token gets zeros, and the layer adds nothing.
Zeros(id) == [NoRow EXCEPT !.bytes = [i \in DOMAIN RowValues(id) |-> 0]]

Looked(l, id, h) ==
    CASE server.mode = "hashk" ->
            [sub \in 1 .. 2 |-> artifact[sub][GatherSlot(h, id, sub)]]
      [] server.mode = "off" -> {Zeros(id)}
      [] server.mode = "nvfp4" -> Unpacked(l, id)
      [] OTHER -> Summed(l, id)

-----------------------------------------------------------------------------
Init ==
    /\ server \in Server
    /\ slice \in Slices(server)
    /\ artifact = <<>>
    /\ pending = slice
    /\ status = "loading"
    /\ filled = {}
    /\ cast = {}
    /\ table = [l \in PleLayersOf(server) |-> NoPart(l)]
    /\ form = [l \in PleLayersOf(server) |-> server.stored]
    /\ reported = {}
    /\ batch = NoBatch
    /\ window = NoWindow
    /\ answer = <<>>

\* The installer builds the artifact; a server finds it when it makes the model.
Build ==
    /\ server.mode = "hashk" /\ artifact = <<>>
    /\ slice = TableTensors(server)
    /\ BuilderAccepts
    /\ artifact' = Accumulated(Delivered)
    /\ UNCHANGED <<server, slice, pending, status, filled, cast, table, form, reported, batch, window, answer>>

\* The next tensor of the checkpoint, whichever it is.
Load(t) ==
    /\ status = "loading"
    /\ server.mode = "hashk" /\ slice = TableTensors(server) => artifact # <<>>
    /\ LoadShard(t) \/ LoadBuffer(t) \/ LoadTensor(t)
    /\ pending' = pending \ {t}
    /\ UNCHANGED <<server, slice, artifact, cast, batch, window, answer>>

\* Behind the last tensor, weights that a target of Q4X_FP8 names are replaced by
\* their fp8 copies.
Finish ==
    /\ status = "loading" /\ pending = {}
    /\ status' = "loaded"
    /\ cast' = Copies
    /\ UNCHANGED <<server, slice, artifact, pending, filled, table, form, reported, batch, window, answer>>

Serving ==
    /\ status = "loaded"
    /\ slice = TableTensors(server)

\* A forward prepares its batch, one token a row or a padded row of two, and
\* forgets the windows of the batch before.
Prepare(tokens) ==
    /\ Serving
    /\ batch' = [id |-> 3 - Upper(1, batch.id), tokens |-> tokens]
    /\ window' = NoWindow
    /\ answer' = <<>>
    /\ UNCHANGED <<server, slice, artifact, pending, status, filled, cast, table, form, reported>>

\* A PLE layer embeds the batch; a fused hash leaves no shifted windows behind.
Lookup(l, fused) ==
    /\ Serving
    /\ batch # NoBatch
    /\ l \in PleLayers
    /\ window' = [id |-> batch.id, contexts |-> Contexts(batch),
                  shifted |-> IF fused /\ window.id = batch.id THEN window.shifted
                              ELSE IF fused THEN <<>> ELSE ShiftedOf(batch)]
    /\ answer' = [layer |-> l, rows |->
            [k \in DOMAIN Contexts(batch) |->
                LET ids == NgramIds(l, ShiftedOf(batch)[k])
                IN  [h \in Heads |-> Looked(l, ids[h], h)]]]
    /\ UNCHANGED <<server, slice, artifact, pending, status, filled, cast, table, form, reported, batch>>

Next ==
    \/ Build
    \/ \E t \in pending : Load(t)
    \/ Finish
    \/ \E tokens \in Batches : Prepare(tokens)
    \/ \E l \in Layer, fused \in BOOLEAN : Lookup(l, fused)

Spec == Init /\ [][Next]_vars

-----------------------------------------------------------------------------
(* Properties *)

TypeOK ==
    /\ server \in Server
    /\ status \in {"loading", "loaded", "failed"}
    /\ \A l \in DOMAIN table : table[l] \in [Rank -> [0 .. PartSize(l) - 1 -> [row : Int, bytes : Seq(Int)]]]
    /\ \A l \in DOMAIN form : form[l] \in {"bf16", "fp8"}
    /\ {p.param : p \in filled} \cup {c.param : c \in cast} \subseteq Params
    /\ batch.id \in 0 .. 2 /\ window.id \in {0, batch.id}

\* The pieces a parameter is made of: [name, item], and the tensor of each.
Whole(p) ==
    LET expert(name, leaf, n) == [name |-> name, item |-> n, from |-> TensorOf(p[1], "experts", leaf, n)]
        fused(name, leaf, n) == [name |-> name, item |-> n, from |-> Tensor(p[1], "experts", leaf)]
        plain(name, module, leaf) == [name |-> name, item |-> 0, from |-> Tensor(p[1], module, leaf)]
    IN  CASE p[3] = "qkv_proj" -> {plain("q", p[2], "q_proj"), plain("k", p[2], "k_proj"), plain("v", p[2], "v_proj")}
          [] p[3] = "w13" /\ server.fused -> {fused(w, "gate_up_proj", e) : w \in {"w1", "w3"}, e \in Expert}
          [] p[3] = "w2" /\ server.fused -> {fused("w2", "down_proj", e) : e \in Expert}
          [] p[3] = "w13" /\ ~server.fused ->
                UNION {{expert("w1", "gate_proj", e), expert("w3", "up_proj", e)} : e \in Expert}
          [] p[3] = "w2" /\ ~server.fused -> {expert("w2", "down_proj", e) : e \in Expert}
          [] p[2] = "lm_head" /\ server.tied -> {plain("whole", "embed", "weight")}
          [] p[3] = "k_scale" -> {plain("whole", p[2], "k_proj.k_scale")}
          [] OTHER -> {plain("whole", p[2], p[3])}

Came(p) == \A w \in Whole(p) : w.from \in slice

Origins(pieces) == {[name |-> f.name, item |-> f.item, from |-> f.from] : f \in pieces}

\* Once every tensor has come, in whatever order, each parameter of this stage
\* has every piece, from its own tensor and from no other, and so has its fp8 copy.
LoadedIsWhole ==
    /\ status = "loaded" =>
        \A p \in {q \in Params : Came(q)} : Origins({f \in filled : f.param = p}) = Whole(p)
    /\ \A c \in cast : Came(c.param) => Origins(c.pieces) = Whole(c.param)

\* The row that head h holds for token k of the batch: its n-gram hashed over
\* the tokens since the last EOS, the rest of the n-gram filled with EOS.
OwnId(l, k, h) ==
    LET back(n) == batch.tokens[k + NgramSize - 1 - n]
        column == [n \in 0 .. NgramSize - 1 |-> IF \E m \in 1 .. n : back(m) = Eos THEN Eos ELSE back(n)]
    IN  NgramIdOf(l, column, h)

Closest(got, row) ==
    \A i \in DOMAIN row : \A m \in 1 .. 8 : \A sign \in {-1, 1} :
        LET far(x) == IF x < row[i] THEN row[i] - x ELSE x - row[i]
        IN  far(got[i]) <= far(sign * Magnitudes[m])

\* A token gets, from every head of every PLE layer, the checkpoint's row of its
\* own n-gram: once over the ranks that share the table, or from the packed table of
\* the one rank that has one, there to the nearest level.
TokensGetTheirRows ==
    answer # <<>> /\ server.mode \notin {"hashk", "off"} =>
        \A k \in DOMAIN answer.rows, h \in Heads :
            LET got == answer.rows[k][h]
                id == OwnId(answer.layer, k, h)
            IN  /\ {e.row : e \in got} = {id}
                /\ \A e \in got : IF server.mode = "nvfp4" THEN Closest(e.bytes, RowValues(id))
                                  ELSE e.bytes = RowValues(id)

\* The compressed table gives back slots that the token's own row went into, and
\* that hold rows of its own head only, the slots its projection was fitted on.
SlotsHoldTheRow ==
    answer # <<>> /\ server.mode = "hashk" =>
        \A k \in DOMAIN answer.rows, h \in Heads, sub \in 1 .. 2 :
            LET got == answer.rows[k][h][sub]
                id == OwnId(0, k, h)
            IN  /\ id \in got
                /\ got \subseteq HeadOffset[0, h] .. HeadOffset[0, h + 1] - 1
                /\ GatherSlot(h, id, sub) = Sample(h, id)[sub]
=============================================================================
