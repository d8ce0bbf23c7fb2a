------------------------------- MODULE QsaBatch -------------------------------
(***************************************************************************)
(* The per-forward metadata of the QSA index cache as algorithms on whole  *)
(* batches: the compacted write plan, the packed gather and row ranges of  *)
(* prefill, the token-to-sequence map and the write slots of the graph     *)
(* replay.  QsaCache takes one request at a time and says what is stored   *)
(* where; this module says that the batched tensors name those places.     *)
(*                                                                         *)
(* Translated from _qsa_write_plan, _qsa_build_write_plan and the graph    *)
(* refresh of src/patches/qwen_sparse_attn_backend.py, and from            *)
(* src/patches/qsa_metadata.py.  Rows of a batch are numbered from 1;      *)
(* tokens, groups and entries of the plan from 0, as in the tensors.       *)
(***************************************************************************)
EXTENDS Integers, Sequences, FiniteSets, SequencesExt, QsaGroups

CONSTANTS
    PageSize,    \* tokens of a full-KV page
    MaxRequests, \* bound: requests of a batch
    MaxPrefix,   \* bound: cached or committed tokens of a request
    MaxExtend,   \* bound: new tokens of a request, rows of a verify window
    MaxTail      \* bound: token rows behind the last mapped one

ASSUME BatchAssumption ==
    /\ PageSize \in Nat \ {0} /\ PageSize % Ratio = 0
    /\ {MaxRequests, MaxPrefix, MaxExtend, MaxTail} \subseteq Nat

VARIABLES
    batch,  \* [mode, rows, padding]; a row is [req, prefix, extend]
    plan    \* the plan's entries once built, <<>> before

batchVars == <<batch, plan>>

None == <<>>

-----------------------------------------------------------------------------
(* Batches *)

ExtendRow == [prefix : {p \in 0 .. MaxPrefix : p % Ratio = 0}, extend : 0 .. MaxExtend]

\* A chunk batch: one row per sequence, and a padded token tail.
ExtendBatches ==
    {[mode |-> "extend", padding |-> n,
      rows |-> [i \in DOMAIN s |-> [req |-> i, prefix |-> s[i].prefix, extend |-> s[i].extend]]] :
        s \in BoundedSeq(ExtendRow, MaxRequests) \ {<<>>}, n \in 0 .. MaxTail}

\* A paged batch: w consecutive rows per request, one new token each.
PagedBatches ==
    {[mode |-> "paged", padding |-> 0,
      rows |-> [n \in 1 .. Len(s) * w |->
                  LET i == (n - 1) \div w + 1
                  IN  [req |-> i, prefix |-> s[i] + ((n - 1) % w), extend |-> 1]]] :
        s \in BoundedSeq(0 .. MaxPrefix, MaxRequests) \ {<<>>}, w \in 1 .. MaxExtend}

NumRows(b) == Len(b.rows)
RowIds(b) == 1 .. NumRows(b)
Prefix(b, i) == b.rows[i].prefix
Extend(b, i) == b.rows[i].extend
Length(b, i) == Prefix(b, i) + Extend(b, i)

\* The raw KV slot of a request's position: its own pages, from page 1 on.
PagesPerRequest == (MaxPrefix + MaxExtend) \div PageSize + 1
SlotOf(req, p) ==
    (1 + (req - 1) * PagesPerRequest + p \div PageSize) * PageSize + (p % PageSize)
TokenSlot(b, i, p) == SlotOf(b.rows[i].req, p)

\* cumsum over the rows, 0 in front.
Cumsum(counts) ==
    LET sum[i \in 0 .. Len(counts)] == IF i = 0 THEN 0 ELSE sum[i - 1] + counts[i]
    IN  sum

\* repeat_interleave: the row that holds the n-th of what the rows have, where
\* ends are the running totals.
Holder(ends, n) == CHOOSE i \in DOMAIN ends \ {0} : ends[i - 1] < n /\ n <= ends[i]

TokenEnds(b) == Cumsum([i \in RowIds(b) |-> Extend(b, i)])
TokenStart(b, i) == TokenEnds(b)[i - 1]
MappedTokens(b) == TokenEnds(b)[NumRows(b)]

-----------------------------------------------------------------------------
(* The write plan *)

EndBlock(b, i) == Length(b, i) \div Ratio

\* Mutant: a paged row owns a block whether or not its length completes one.
StartBlockAlways(b, i) ==
    IF b.mode = "paged" THEN EndBlock(b, i) - 1 ELSE Prefix(b, i) \div Ratio

\* A paged row owns the block its length completes, a chunk all of its blocks.
StartBlock(b, i) ==
    IF b.mode = "paged"
    THEN EndBlock(b, i) - (IF Length(b, i) % Ratio = 0 THEN 1 ELSE 0)
    ELSE Prefix(b, i) \div Ratio

\* Entries of the plan: a worst case over shapes, never read back.
Capacity(b) ==
    IF b.mode = "paged" THEN NumRows(b)
    ELSE (MappedTokens(b) + b.padding) \div Ratio + NumRows(b)

Count(b, i) == LET n == EndBlock(b, i) - StartBlock(b, i) IN IF n < 0 THEN 0 ELSE n

Ends(b) == Cumsum([i \in RowIds(b) |-> Count(b, i)])

\* Mutant: searchsorted from the left.
OwnerFromLeft(b, e) == Cardinality({i \in RowIds(b) : Ends(b)[i] < e}) + 1

\* searchsorted(ends, e, right=True): behind the rows whose entries end at or
\* before e.
Owner(b, e) == Cardinality({i \in RowIds(b) : Ends(b)[i] <= e}) + 1

\* Mutant: members are counted from the start of the sequence.
MemberFromSequence(b, row, block) ==
    IF b.mode = "extend" THEN TokenStart(b, row) + block * Ratio ELSE 0

\* The token row of a chunk group's first member; paged groups have none (they
\* are pooled from the ring).
MemberRow(b, row, block) ==
    IF b.mode = "extend" THEN TokenStart(b, row) + block * Ratio - Prefix(b, row) ELSE 0

Entry(b, e) ==
    LET row == Owner(b, e)
        block == StartBlock(b, row) + e - (Ends(b)[row] - Count(b, row))
    IN  [row |-> row, block |-> block, slot |-> TokenSlot(b, row, block * Ratio) \div Ratio,
         member |-> MemberRow(b, row, block)]

InertEntry == [row |-> 1, block |-> 0, slot |-> 0, member |-> 0]

Plan(b) ==
    [n \in 1 .. Capacity(b) |->
        IF n - 1 < Ends(b)[NumRows(b)] THEN Entry(b, n - 1) ELSE InertEntry]

-----------------------------------------------------------------------------
(* Prefill scoring: packed keys and row ranges *)

GroupEnds(b) == Cumsum([i \in RowIds(b) |-> EndBlock(b, i)])

\* The compressed slots gathered for scoring, sequence after sequence.
PackedSlots(b) ==
    [n \in 1 .. GroupEnds(b)[NumRows(b)] |->
        LET i == Holder(GroupEnds(b), n)
        IN  TokenSlot(b, i, (n - 1 - GroupEnds(b)[i - 1]) * Ratio) \div Ratio]

\* token_to_batch_idx: the sequence each token row belongs to.
Tokens(b) == 0 .. MappedTokens(b) - 1
TokenRow(b, t) == Holder(TokenEnds(b), t + 1)

\* The position of a token row.
Position(b, t) == Prefix(b, TokenRow(b, t)) + t - TokenStart(b, TokenRow(b, t))

RowStart(b, t) == GroupEnds(b)[TokenRow(b, t) - 1]

\* Mutant: the group a token lies in is visible to it, complete or not.
RowEndOpen(b, t) ==
    LET visible == (Position(b, t) + Ratio) \div Ratio
        most == EndBlock(b, TokenRow(b, t))
    IN  RowStart(b, t) + (IF visible < most THEN visible ELSE most)

\* The groups complete at the token's position, at most those of its sequence.
RowEnd(b, t) ==
    LET visible == (Position(b, t) + 1) \div Ratio
        most == EndBlock(b, TokenRow(b, t))
    IN  RowStart(b, t) + (IF visible < most THEN visible ELSE most)

-----------------------------------------------------------------------------
(* The graph replay's write slot of a paged row *)

\* Mutant: the slot of the next token instead of the last.
GraphWriteSlotNext(b, i) ==
    IF Length(b, i) % Ratio = 0 THEN TokenSlot(b, i, Length(b, i)) \div Ratio ELSE 0

\* A boundary row writes its last raw slot \div ratio, any other slot 0.
GraphWriteSlot(b, i) ==
    IF Length(b, i) % Ratio = 0 /\ Length(b, i) > 0
    THEN TokenSlot(b, i, Length(b, i) - 1) \div Ratio ELSE 0

-----------------------------------------------------------------------------
BatchInit ==
    /\ batch \in ExtendBatches \cup PagedBatches
    /\ plan = None

Build ==
    /\ plan = None
    /\ plan' = Plan(batch)
    /\ UNCHANGED batch

BatchSpec == BatchInit /\ [][Build]_batchVars

-----------------------------------------------------------------------------
(* Properties *)

Built == plan # None

PlanTypeOK ==
    /\ batch \in ExtendBatches \cup PagedBatches
    /\ plan \in Seq([row : RowIds(batch), block : Nat, slot : Nat, member : Nat])

\* The blocks whose last token is among the new tokens of row i.
Completing(b, i) ==
    {g \in 0 .. Length(b, i) : (g + 1) * Ratio - 1 \in Prefix(b, i) .. Length(b, i) - 1}

\* The plan, sized without a look at the lengths, writes every group that the
\* forward completes, each exactly once and at its own slot, and nothing else
\* but the inert slot 0.
PlanCoversCompletedGroups ==
    Built =>
        LET wanted == UNION {{i} \X Completing(batch, i) : i \in RowIds(batch)}
            live == {n \in DOMAIN plan : plan[n].slot # 0}
        IN  /\ {<<plan[n].row, plan[n].block>> : n \in live} = wanted
            /\ Cardinality(live) = Cardinality(wanted)
            /\ \A n \in live :
                plan[n].slot = TokenSlot(batch, plan[n].row, plan[n].block * Ratio) \div Ratio

\* The members a chunk's group is pooled from are the rows of its own sequence
\* at the group's own positions.
MembersAreTheGroup ==
    Built /\ batch.mode = "extend" =>
        \A n \in DOMAIN plan : plan[n].slot # 0 =>
            \A i \in 0 .. Ratio - 1 :
                LET t == plan[n].member + i
                IN  /\ t \in Tokens(batch)
                    /\ TokenRow(batch, t) = plan[n].row
                    /\ Position(batch, t) = plan[n].block * Ratio + i

\* A prefill row scores the packed keys of its own sequence, from the first
\* group to the last one complete at its position.
RangeIsOwnCausalGroups ==
    batch.mode = "extend" =>
        \A t \in Tokens(batch) :
            SubSeq(PackedSlots(batch), RowStart(batch, t) + 1, RowEnd(batch, t)) =
                [k \in 1 .. (Position(batch, t) + 1) \div Ratio |->
                    TokenSlot(batch, TokenRow(batch, t), (k - 1) * Ratio) \div Ratio]

\* Host refresh of a captured graph and eager plan write the same slots.
GraphWritesWhatEagerWrites ==
    Built /\ batch.mode = "paged" =>
        \A i \in RowIds(batch) :
            LET mine == {plan[n].slot : n \in {m \in DOMAIN plan :
                                                plan[m].row = i /\ plan[m].slot # 0}}
            IN  mine = {GraphWriteSlot(batch, i)} \ {0}
=============================================================================
