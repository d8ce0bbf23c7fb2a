------------------------------- MODULE PleState -------------------------------
(***************************************************************************)
(* The side state of the n-gram embeddings (PLE) of Qwen4-Exp, in two      *)
(* parts: the n-gram history, the last tokens before the next forward, and *)
(* the short convolution's state, its last inputs.  Per verify row both are*)
(* kept after each step, and the radix tree is handed boundary snapshots.  *)
(* An input of the convolution stands for the token that it was made from. *)
(*                                                                         *)
(* Translated from _prepare_ple_batch, _commit_ple_batch,                  *)
(* _ple_track_targets and _short_conv of src/patches/qwen4_exp_nvfp4.py.   *)
(* The state pool, the scheduler and the radix tree are SGLang's own.      *)
(***************************************************************************)
EXTENDS Integers, Sequences, FiniteSets, Functions

CONSTANTS
    Request,      \* request-pool rows, 0 .. n; padded rows name row 0
    Slot,         \* slots of the state pool
    DummySlot,    \* its reserved slot 0
    NoSlot,       \* no slot
    Context,      \* ngram_size - 1: tokens of history
    Kernel,       \* ple_conv_kernel_size
    Interval,     \* mamba_track_interval
    DraftTokens,  \* speculative_num_draft_tokens, where MTP is on
    Servers,      \* the servers considered: TRUE for one with MTP, FALSE without
    MaxPadding,   \* bound: padded rows of a batch
    Token, Eos,   \* the vocabulary, and the token that fills what is not there
    Zero,         \* the input of the convolution where there is no token
    Stream        \* the token sequences that prompts and generations follow

ASSUME PleAssumption ==
    /\ 0 \in Request /\ Request \subseteq Nat /\ IsFiniteSet(Request)
    /\ DummySlot \notin Slot /\ NoSlot \notin Slot \cup {DummySlot}
    /\ Context \in Nat /\ Interval \in Nat \ {0} /\ DraftTokens \in Nat \ {0} /\ Servers \subseteq BOOLEAN
    /\ MaxPadding \in Nat /\ Kernel \in Nat \ {0} /\ Zero \notin Token
    /\ Eos \in Token /\ Stream \subseteq Seq(Token)

VARIABLES
    mtp,       \* whether the server drafts; never changes
    phase,     \* phase[r]: "free", "prefill" or "decode"
    text,      \* text[r]: the committed tokens of request r
    work,      \* work[r]: the slot of its state
    spare,     \* spare[r]: the track slot that its next snapshot goes to
    tracked,   \* tracked[r]: the length spare[r] is a snapshot of, 0 for none
    tree,      \* tree[c]: the slot the radix tree holds for prefix c
    hist,      \* hist[p][s]: part p of the state in slot s
    inflight,  \* the rows of the verify forward whose verdict is pending
    inter      \* inter[i][k]: both parts of row i after k tokens, and what the
               \* convolution of the k-th read

vars == <<mtp, phase, text, work, spare, tracked, tree, hist, inflight, inter>>

-----------------------------------------------------------------------------
Part == {"ngram", "conv"}
Dilation == Context + 1
PartLength(p) == IF p = "ngram" THEN Context ELSE (Kernel - 1) * Dilation
Filler(p) == IF p = "ngram" THEN Eos ELSE Zero
Blank(p) == [i \in 1 .. PartLength(p) |-> Filler(p)]

\* The last tokens of t that part p keeps, filled from the left.
LastTokens(p, t) == SubSeq(Blank(p) \o t, Len(t) + 1, Len(t) + PartLength(p))

Live == {r \in Request : phase[r] # "free"}

FreeSlots ==
    Slot \ ({work[r] : r \in Live} \cup {spare[r] : r \in Live}
            \cup {tree[c] : c \in DOMAIN tree})

Continuations(t, n) ==
    {SubSeq(s, Len(t) + 1, Len(t) + n) :
        s \in {x \in Stream : Len(x) >= Len(t) + n /\ SubSeq(x, 1, Len(t)) = t}}

StreamLengths == UNION {1 .. Len(s) : s \in Stream}

\* The last multiple of Interval within n tokens.
Boundary(n) == (n \div Interval) * Interval

-----------------------------------------------------------------------------
(* A batch: its rows [req, new, pad], real ones first, padded ones name row 0 *)

PaddedRow == [req |-> 0, new |-> <<>>, pad |-> TRUE]

\* The orders in which a scheduler may lay some requests out.
Orders(ids) == Bijection(1 .. Cardinality(ids), ids)

\* A batch with the requests in this order and these tokens for each.
BatchOf(ids, order, picked, padded) ==
    [i \in 1 .. Cardinality(ids) |-> [req |-> order[i], new |-> picked[order[i]], pad |-> FALSE]]
        \o [i \in 1 .. padded |-> PaddedRow]

\* Some tokens of news[r] for each request r.
Picks(ids, news) ==
    {f \in [ids -> UNION {news[r] : r \in ids}] : \A r \in ids : f[r] \in news[r]}

Batches(ids, news) ==
    {BatchOf(ids, order, picked, padded) :
        order \in Orders(ids), picked \in Picks(ids, news), padded \in 0 .. MaxPadding}

Width(b) == LET longest == CHOOSE i \in DOMAIN b : \A j \in DOMAIN b : Len(b[j].new) <= Len(b[i].new)
            IN  Len(b[longest].new)

\* query_start_loc: where the rows of an extend batch end, as running sums.
StartLoc(b) ==
    LET loc[i \in 0 .. Len(b)] == IF i = 0 THEN 0 ELSE loc[i - 1] + Len(b[i].new)
    IN  loc

RowStart(b, i) == StartLoc(b)[i - 1]

\* The tokens of an extend batch are packed row after row.
Packed(b) ==
    LET loc == StartLoc(b)
    IN  [t \in 1 .. loc[Len(b)] |->
            LET i == CHOOSE i \in DOMAIN b : loc[i - 1] < t /\ t <= loc[i]
            IN  b[i].new[t - loc[i - 1]]]

\* Mutant: a row is searched from the left, so an empty row takes a token.
RowOfTokenLeft(b, t) ==
    LET before == Cardinality({i \in DOMAIN b : RowStart(b, i) < t - 1})
    IN  IF before = 0 THEN 1 ELSE before

\* searchsorted(query_start_loc, position, right=True) - 1, rows and tokens from 1.
RowOfToken(b, t) == Cardinality({i \in DOMAIN b : RowStart(b, i) <= t - 1})

\* The rows of an extend batch, unpacked to one width with filling behind them.
Unpacked(p, b) ==
    LET packed == Packed(b)
        row == [t \in DOMAIN packed |-> RowOfToken(b, t)]
    IN  [i \in DOMAIN b |-> LET start == RowStart(b, i) IN
            [o \in 1 .. Width(b) |->
                IF start + o \in DOMAIN row /\ row[start + o] = i THEN packed[start + o] ELSE Filler(p)]]

\* Decode and verify rows have a fixed stride; tokens that are not valid are Eos
\* to the n-grams, and still inputs to the convolution.
Strided(p, b, width) ==
    [i \in DOMAIN b |-> [o \in 1 .. width |-> IF o <= Len(b[i].new) THEN b[i].new[o] ELSE Eos]]

\* Rows without a token of their own go to the dummy slot.
StateIndex(b, i) == IF b[i].pad THEN DummySlot ELSE work[b[i].req]

History(p, s) == IF s \in Slot THEN hist[p][s] ELSE Blank(p)

\* Mutant: the gather is one column short.
AfterShort(p, rows, b, i, k) ==
    SubSeq(History(p, StateIndex(b, i)) \o rows[i], k + 1, k + PartLength(p) - 1)

\* Part p of the state of row i after k of its tokens.
After(p, rows, b, i, k) ==
    SubSeq(History(p, StateIndex(b, i)) \o rows[i], k + 1, k + PartLength(p))

NewLength(b, i) == Len(text[b[i].req]) + Len(b[i].new)

\* A row is tracked when it reaches a boundary that lies behind its old length.
Tracked(b, i) ==
    ~b[i].pad /\ Boundary(NewLength(b, i)) > Len(text[b[i].req])

\* Mutant: the snapshot is taken at the end of the chunk.
TrackOffsetAtEnd(b, i) == Len(b[i].new)

\* Tokens of the row up to the boundary, never more than the row has; a decode
\* row is tracked at its one token.
TrackOffset(b, i) ==
    LET aligned == Boundary(NewLength(b, i)) - Len(text[b[i].req])
    IN  CASE phase[b[i].req] = "decode" -> Len(b[i].new)
          [] phase[b[i].req] # "decode" /\ aligned < 0 -> 0
          [] OTHER -> IF aligned < Len(b[i].new) THEN aligned ELSE Len(b[i].new)

\* Mutant: the mask is forgotten.
TrackSlotUnmasked(b, i) == IF b[i].pad THEN DummySlot ELSE spare[b[i].req]

\* Rows that are not tracked write the dummy slot.
TrackSlot(b, i) == IF Tracked(b, i) THEN spare[b[i].req] ELSE DummySlot

\* What an extend or decode forward leaves: every row's state at its end in its
\* own slot, then the tracked rows' state at the boundary in their track slots.
Committed(p, rows, b) ==
    [s \in Slot |->
        IF \E i \in DOMAIN b : TrackSlot(b, i) = s
        THEN LET i == CHOOSE j \in DOMAIN b : TrackSlot(b, j) = s IN After(p, rows, b, i, TrackOffset(b, i))
        ELSE IF \E i \in DOMAIN b : StateIndex(b, i) = s
        THEN LET i == CHOOSE j \in DOMAIN b : StateIndex(b, j) = s /\
                        \A l \in DOMAIN b : StateIndex(b, l) = s => l <= j
             IN  After(p, rows, b, i, Len(b[i].new))
        ELSE hist[p][s]]

\* Mutant: the convolution is not dilated.
TapsUndilated(rows, b, i, k) ==
    [j \in 1 .. Kernel |-> (History("conv", StateIndex(b, i)) \o rows[i])[k + j - 1]]

\* The inputs that the convolution of the row's k-th token is taken over.
Taps(rows, b, i, k) ==
    [j \in 1 .. Kernel |-> (History("conv", StateIndex(b, i)) \o rows[i])[k + (j - 1) * Dilation]]

\* What a verify forward keeps of each step, blank where the row has no token.
Stepwise(b) ==
    LET rows(p) == Strided(p, b, DraftTokens)
        kept(p, i, k) == IF k <= Len(b[i].new) THEN After(p, rows(p), b, i, k) ELSE Blank(p)
    IN  [i \in DOMAIN b |-> [k \in 1 .. DraftTokens |->
            [after |-> [p \in Part |-> kept(p, i, k)], taps |-> Taps(rows("conv"), b, i, k)]]]

RowOf(b, r) == CHOOSE i \in DOMAIN b : ~b[i].pad /\ b[i].req = r
InBatch(b) == {b[i].req : i \in {j \in DOMAIN b : ~b[j].pad}}

TextAfter(b) ==
    [r \in Request |-> IF r \in InBatch(b) THEN text[r] \o b[RowOf(b, r)].new ELSE text[r]]

TrackedAfter(b) ==
    [r \in Request |-> IF r \in InBatch(b) /\ Tracked(b, RowOf(b, r))
                       THEN Boundary(NewLength(b, RowOf(b, r))) ELSE tracked[r]]

-----------------------------------------------------------------------------
Init ==
    /\ mtp \in Servers
    /\ phase = [r \in Request |-> "free"]
    /\ text = [r \in Request |-> <<>>]
    /\ work = [r \in Request |-> NoSlot]
    /\ spare = [r \in Request |-> NoSlot]
    /\ tracked = [r \in Request |-> 0]
    /\ tree = [c \in {} |-> NoSlot]
    /\ hist = [p \in Part |-> [s \in Slot |-> Blank(p)]]
    /\ inflight = <<>>
    /\ inter = <<>>

\* A request takes two state slots and a prefix of the tree; its working slot
\* starts as a copy of the tree's, or blank.
Admit(r) ==
    /\ phase[r] = "free"
    /\ inflight = <<>>
    /\ \E s, t \in FreeSlots, c \in {<<>>} \cup DOMAIN tree :
        /\ s # t
        /\ work' = [work EXCEPT ![r] = s]
        /\ spare' = [spare EXCEPT ![r] = t]
        /\ text' = [text EXCEPT ![r] = c]
        /\ hist' = [p \in Part |-> [hist[p] EXCEPT ![s] = IF c = <<>> THEN Blank(p) ELSE hist[p][tree[c]]]]
    /\ phase' = [phase EXCEPT ![r] = "prefill"]
    /\ UNCHANGED <<mtp, tracked, tree, inflight, inter>>

\* One extend forward over some prefilling requests: a chunk each; a chunk that
\* is not the last ends on a boundary.
Extend ==
    /\ inflight = <<>>
    /\ \E ids \in (SUBSET {r \in Live : phase[r] = "prefill"}) \ {{}} :
       \E b \in Batches(ids, [r \in ids |-> UNION {Continuations(text[r], n) : n \in StreamLengths}]) :
       \E last \in SUBSET ids :
        /\ \A r \in ids \ last : (Len(text[r]) + Len(b[RowOf(b, r)].new)) % Interval = 0
        /\ hist' = [p \in Part |-> Committed(p, Unpacked(p, b), b)]
        /\ text' = TextAfter(b)
        /\ tracked' = TrackedAfter(b)
        /\ phase' = [r \in Request |-> IF r \in last THEN "decode" ELSE phase[r]]
    /\ UNCHANGED <<mtp, work, spare, tree, inflight, inter>>

\* One decode forward: one token for each decoding request of the batch.
Decode ==
    /\ ~mtp
    /\ \E ids \in (SUBSET {r \in Live : phase[r] = "decode"}) \ {{}} :
       \E b \in Batches(ids, [r \in ids |-> Continuations(text[r], 1)]) :
        /\ hist' = [p \in Part |-> Committed(p, Strided(p, b, 1), b)]
        /\ text' = TextAfter(b)
        /\ tracked' = TrackedAfter(b)
    /\ UNCHANGED <<mtp, phase, work, spare, tree, inflight, inter>>

\* Target verify: the context after every step is kept aside, the state slots
\* stay as they are.  An eager row may carry fewer valid tokens than its stride.
Verify ==
    /\ mtp
    /\ inflight = <<>>
    /\ \E ids \in (SUBSET {r \in Live : phase[r] = "decode"}) \ {{}} :
       \E b \in Batches(ids, [r \in ids |-> UNION {Continuations(text[r], n) : n \in 1 .. DraftTokens}]) :
        /\ inflight' = b
        /\ inter' = Stepwise(b)
    /\ UNCHANGED <<mtp, phase, text, work, spare, tracked, tree, hist>>

\* The verdict: each row keeps k >= 1 of its tokens and takes the context after
\* the k-th; a boundary passed on the way goes to its track slot.
Settle ==
    /\ inflight # <<>>
    /\ \E kept \in [InBatch(inflight) -> 1 .. DraftTokens] :
        LET row(r) == RowOf(inflight, r)
            taken(r) == SubSeq(inflight[row(r)].new, 1, kept[r])
            size(r) == Len(text[r]) + kept[r]
            passes(r) == Boundary(size(r)) > Len(text[r])
        IN  /\ \A r \in DOMAIN kept : kept[r] <= Len(inflight[row(r)].new)
            /\ text' = [r \in Request |-> IF r \in DOMAIN kept THEN text[r] \o taken(r) ELSE text[r]]
            /\ tracked' = [r \in Request |-> IF r \in DOMAIN kept /\ passes(r)
                                             THEN Boundary(size(r)) ELSE tracked[r]]
            /\ hist' = [p \in Part |-> [s \in Slot |->
                IF \E r \in DOMAIN kept : work[r] = s
                THEN LET r == CHOOSE q \in DOMAIN kept : work[q] = s
                     IN  inter[row(r)][kept[r]].after[p]
                ELSE IF \E r \in DOMAIN kept : spare[r] = s /\ passes(r)
                THEN LET r == CHOOSE q \in DOMAIN kept : spare[q] = s
                     IN  inter[row(r)][Boundary(size(r)) - Len(text[r])].after[p]
                ELSE hist[p][s]]]
    /\ inflight' = <<>>
    /\ inter' = <<>>
    /\ UNCHANGED <<mtp, phase, work, spare, tree>>

\* The tree is handed the track slot for the tracked prefix, unless it has it.
Offered(r) ==
    LET c == SubSeq(text[r], 1, tracked[r])
    IN  IF tracked[r] = 0 \/ c \in DOMAIN tree THEN tree
        ELSE [d \in DOMAIN tree \cup {c} |-> IF d = c THEN spare[r] ELSE tree[d]]

\* An unfinished request offers its snapshot and goes on with another track slot.
Publish(r) ==
    /\ inflight = <<>>
    /\ r \in Live /\ tracked[r] > 0
    /\ tree' = Offered(r)
    /\ \E t \in IF Offered(r) = tree THEN {spare[r]} ELSE FreeSlots :
        spare' = [spare EXCEPT ![r] = t]
    /\ tracked' = [tracked EXCEPT ![r] = 0]
    /\ UNCHANGED <<mtp, phase, text, work, hist, inflight, inter>>

\* A finished request offers its snapshot; its slots are freed, not cleared.
Release(r) ==
    /\ inflight = <<>>
    /\ r \in Live
    /\ tree' = Offered(r)
    /\ phase' = [phase EXCEPT ![r] = "free"]
    /\ text' = [text EXCEPT ![r] = <<>>]
    /\ work' = [work EXCEPT ![r] = NoSlot]
    /\ spare' = [spare EXCEPT ![r] = NoSlot]
    /\ tracked' = [tracked EXCEPT ![r] = 0]
    /\ UNCHANGED <<mtp, hist, inflight, inter>>

Evict(c) ==
    /\ inflight = <<>>
    /\ tree' = [d \in DOMAIN tree \ {c} |-> tree[d]]
    /\ UNCHANGED <<mtp, phase, text, work, spare, tracked, hist, inflight, inter>>

RequestStep(r) == Admit(r) \/ Publish(r) \/ Release(r)

Next ==
    \/ \E r \in Request : RequestStep(r)
    \/ Extend \/ Decode \/ Verify \/ Settle
    \/ \E c \in DOMAIN tree : Evict(c)

Spec == Init /\ [][Next]_vars

-----------------------------------------------------------------------------
(* Properties *)

TypeOK ==
    /\ phase \in [Request -> {"free", "prefill", "decode"}]
    /\ text \in [Request -> Seq(Token)]
    /\ work \in [Request -> Slot \cup {NoSlot}]
    /\ spare \in [Request -> Slot \cup {NoSlot}]
    /\ tracked \in [Request -> Nat]
    /\ DOMAIN tree \subseteq Seq(Token) /\ \A c \in DOMAIN tree : tree[c] \in Slot
    /\ hist \in [Part -> [Slot -> Seq(Token \cup {Zero})]]
    /\ \A p \in Part, s \in Slot : Len(hist[p][s]) = PartLength(p)
    /\ inflight \in Seq([req : Request, new : Seq(Token), pad : BOOLEAN])
    /\ DOMAIN inter = DOMAIN inflight

\* Both parts of a request's state are the tail of its own committed tokens,
\* through chunks, padded rows, rejected drafts and reused slots.
HistoryIsOwnTail ==
    \A p \in Part, r \in Live : hist[p][work[r]] = LastTokens(p, text[r])

\* A track slot holds the state at the boundary it is offered for, however far
\* the request went on since.
SnapshotIsBoundary ==
    \A p \in Part, r \in Live : tracked[r] > 0 =>
        hist[p][spare[r]] = LastTokens(p, SubSeq(text[r], 1, tracked[r]))

\* What the tree hands to the next request that shares a prefix is the state at
\* the end of that prefix.
TreeServesTails == \A p \in Part, c \in DOMAIN tree : hist[p][tree[c]] = LastTokens(p, c)

\* The verdict finds, for any number of kept tokens, both parts after them, and
\* each token was convolved over its own request's tokens, a dilation apart.
StepsAreTails ==
    \A i \in DOMAIN inflight : ~inflight[i].pad =>
        \A k \in 1 .. Len(inflight[i].new) :
            LET kept == text[inflight[i].req] \o SubSeq(inflight[i].new, 1, k)
                back(n) == IF n < Len(kept) THEN kept[Len(kept) - n] ELSE Zero
            IN  /\ \A p \in Part : inter[i][k].after[p] = LastTokens(p, kept)
                /\ inter[i][k].taps = [j \in 1 .. Kernel |-> back((Kernel - j) * Dilation)]
=============================================================================
