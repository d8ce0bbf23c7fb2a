---------------------------- MODULE QsaGraphLayout ----------------------------
(***************************************************************************)
(* The row layout of speculative forwards: which request and which length  *)
(* every row of a target-verify or draft-extend forward stands for, in a   *)
(* replayed CUDA graph (refreshed on the host) and eagerly, the rows that  *)
(* pad it to its captured shape included, and what the rows store in the   *)
(* pending ring.                                                           *)
(*                                                                         *)
(* Translated from _graph_speculative_layout, the host branch of           *)
(* _replay_cuda_graph_metadata, _update_qsa_cuda_graph_metadata and        *)
(* _speculative_row_to_request of                                          *)
(* src/patches/qwen_sparse_attn_backend.py.                                *)
(***************************************************************************)
EXTENDS Integers, Sequences, FiniteSets, SequencesExt

CONSTANTS
    NumRequests,  \* requests 1 .. NumRequests hold the request slots of that number
    Ratio,        \* compress_ratio
    Stride,       \* ring stride
    DraftTokens,  \* rows of a window
    Modes,        \* the forwards served: "verify", "draft_extend"
    MaxPadding,   \* bound: padded requests of a batch
    MaxLength     \* bound: tokens of a request

VARIABLES
    length,  \* length[r]: tokens of r whose keys are final
    ring,    \* ring[r][s]: the position whose key slot s of r holds
    forward  \* the last forward: its mode, its batch and its rows

vars == <<length, ring, forward>>

Request == 1 .. NumRequests
NoKey == -1
PadKey == -2  \* the key of a row that stands for no token

NoForward == [mode |-> "none", batch |-> <<>>, rows |-> <<>>]

-----------------------------------------------------------------------------
(* A batch entry is [req, seqlen, extend]: seq_lens and extend lengths as the  *)
(* layout reads them.  Padded entries follow the real ones.                    *)

\* Where the rows of each entry end: the running sum of the extends.
RowEnds(b) ==
    LET end[i \in 0 .. Len(b)] == IF i = 0 THEN 0 ELSE end[i - 1] + b[i].extend
    IN  end

SumExtend(b) == RowEnds(b)[Len(b)]

\* repeat_interleave: every entry as often as it has rows.
EntryOf(b, n) == CHOOSE i \in DOMAIN b : RowEnds(b)[i - 1] < n /\ n <= RowEnds(b)[i]

\* The k-th row of an entry, behind its prefix.
EntryRow(e, k) ==
    LET prefix == IF e.seqlen > e.extend THEN e.seqlen - e.extend ELSE 0
    IN  [req |-> e.req, prefix |-> prefix, real |-> TRUE,
         length |-> IF prefix + k < e.seqlen THEN prefix + k ELSE e.seqlen]

\* A row behind the real ones: one token of the batch's first request.
PaddingRow(b) == [req |-> b[1].req, prefix |-> 0, real |-> FALSE, length |-> 1]

RealRow(b, n) == EntryRow(b[EntryOf(b, n)], n - RowEnds(b)[EntryOf(b, n) - 1])

\* Mutant: padding is put in front of the real rows.
GraphRowsPaddedFirst(b, capacity) ==
    LET padding == capacity - SumExtend(b)
    IN  [n \in 1 .. capacity |-> IF n > padding THEN RealRow(b, n - padding) ELSE PaddingRow(b)]

\* The captured graph runs `capacity` rows, never fewer than the batch has: the
\* real ones first, the rest stands for one token of the batch's first request.
GraphRows(b, capacity) ==
    [n \in 1 .. capacity |-> IF n <= SumExtend(b) THEN RealRow(b, n) ELSE PaddingRow(b)]

\* Run eagerly, a draft-extend forward carries its extend lengths, a target verify
\* may do so or not.
Carries(mode) == IF mode = "verify" THEN BOOLEAN ELSE {TRUE}

\* No row without an entry, no more rows mapped than there are; without extend
\* lengths, an even share of the rows for every entry.  All else is refused.
EagerMaps(carried, b, capacity) ==
    /\ b = <<>> => capacity = 0
    /\ carried => SumExtend(b) <= capacity
    /\ ~carried /\ b # <<>> => capacity % Len(b) = 0

\* By extend lengths: the entry of a row, and the first one for the tail.
EntryByLengths(b, n) == IF n <= SumExtend(b) THEN EntryOf(b, n) ELSE 1

\* Without: every entry, a padded one too, has its share of the rows.
EntryByShares(b, capacity, n) == (n - 1) \div (capacity \div Len(b)) + 1

\* Mutant: the tail goes to the last entry of the batch.
EagerRequestsTailToLast(carried, b, capacity) ==
    [n \in 1 .. capacity |->
        b[IF ~carried THEN EntryByShares(b, capacity, n)
          ELSE IF n <= SumExtend(b) THEN EntryOf(b, n) ELSE Len(b)].req]

EagerRequests(carried, b, capacity) ==
    [n \in 1 .. capacity |->
        b[IF carried THEN EntryByLengths(b, n) ELSE EntryByShares(b, capacity, n)].req]

\* Lengths come from the positions, which the runner fills with zeros behind the
\* real rows.
EagerLengths(b, capacity) ==
    [n \in 1 .. capacity |->
        LET e == b[EntryOf(b, n)]
        IN  IF n <= SumExtend(b) THEN e.seqlen - e.extend + n - RowEnds(b)[EntryOf(b, n) - 1] ELSE 1]

\* The ring slot a row stores at: that of its last token.
StoredAt(row) == (row.length - 1) % Stride

KeyOf(row) == IF row.real THEN row.length - 1 ELSE PadKey

\* Rows that store at one slot race; whichever wins stays.
RingsAfter(rows) ==
    LET at(r, s) == {n \in DOMAIN rows : rows[n].req = r /\ StoredAt(rows[n]) = s}
        slots == {x \in Request \X (0 .. Stride - 1) : at(x[1], x[2]) # {}}
        winners == {f \in [slots -> DOMAIN rows] : \A x \in slots : f[x] \in at(x[1], x[2])}
    IN  {[r \in Request |-> [s \in 0 .. Stride - 1 |->
            IF <<r, s>> \in slots THEN KeyOf(rows[w[<<r, s>>]]) ELSE ring[r][s]]] : w \in winners}

-----------------------------------------------------------------------------
Init ==
    /\ length \in [Request -> 1 .. Ratio]
    /\ ring = [r \in Request |-> [s \in 0 .. Stride - 1 |->
                IF \E p \in 0 .. length[r] - 1 : p % Stride = s
                THEN CHOOSE p \in 0 .. length[r] - 1 : p % Stride = s ELSE NoKey]]
    /\ forward = NoForward

\* The entries of a batch over ids, in the given mode, and padded entries that
\* name request slot 0 (a verify replay zeroes the extend length of those).
Entry(mode, r, k) ==
    [req |-> r, extend |-> IF mode = "verify" THEN DraftTokens ELSE k,
     seqlen |-> length[r] + (IF mode = "verify" THEN DraftTokens ELSE k)]

PaddedEntry == [req |-> 0, extend |-> 0, seqlen |-> 1]

\* One forward over the requests ids.  A verify forward stores a window of rows
\* and keeps kept[r] of them; a draft-extend forward has a row per kept token.
Step(mode, ids, kept, padded) ==
    LET order == SetToSortSeq(ids, <)
        b == [i \in DOMAIN order |-> Entry(mode, order[i], kept[order[i]])]
                \o [i \in 1 .. padded |-> PaddedEntry]
    IN  /\ forward' = [mode |-> mode, batch |-> b, rows |-> GraphRows(b, Len(b) * DraftTokens)]
        /\ ring' \in RingsAfter(forward'.rows)
        /\ length' = [r \in Request |-> IF r \in ids THEN length[r] + kept[r] ELSE length[r]]

Forward ==
    \E mode \in Modes, ids \in (SUBSET Request) \ {{}}, padded \in 0 .. MaxPadding :
        \E kept \in [ids -> 1 .. DraftTokens] :
            /\ \A r \in ids : length[r] + DraftTokens <= MaxLength
            /\ Step(mode, ids, kept, padded)

\* A finished request leaves its slot to a fresh one.
Replace(r) ==
    /\ length' = [length EXCEPT ![r] = 1]
    /\ ring' = [ring EXCEPT ![r][0] = 0]
    /\ forward' = NoForward

Next == Forward \/ \E r \in Request : Replace(r)

Spec == Init /\ [][Next]_vars

-----------------------------------------------------------------------------
(* Properties *)

RowType == [req : 0 .. NumRequests, prefix : 0 .. MaxLength, real : BOOLEAN,
            length : 1 .. MaxLength]

\* Each request of the forward has one row per new token, in order and next to
\* each other; row numbers follow the batch, as the packed tokens do.
RowsFollowTheBatch ==
    \A i \in DOMAIN forward.batch :
        LET before == RowEnds(forward.batch)[i - 1]
            e == forward.batch[i]
        IN  \A k \in 1 .. e.extend :
                LET row == forward.rows[before + k]
                IN  row.real /\ row.req = e.req /\ row.length = e.seqlen - e.extend + k

\* The batch of a replay can be run eagerly, and the eager mapping gives its rows
\* the same requests and the same lengths: padding included where it goes by extend
\* lengths, the rows that stand for a token where a verify forward carries none
\* (there the rows of a padded entry are that entry's own).
EagerMirrorsGraph ==
    forward.rows # <<>> =>
        LET capacity == Len(forward.rows)
        IN  /\ \A carried \in Carries(forward.mode) :
                /\ EagerMaps(carried, forward.batch, capacity)
                /\ \A n \in 1 .. capacity : carried \/ forward.rows[n].real =>
                        forward.rows[n].req = EagerRequests(carried, forward.batch, capacity)[n]
            /\ \A n \in 1 .. capacity :
                    forward.rows[n].length = EagerLengths(forward.batch, capacity)[n]

\* The rows a forward has behind the real ones are safe: whatever forward ran,
\* the ring still holds the pending keys of every request.
PendingKeysSurvive ==
    \A r \in Request : \A p \in (length[r] \div Ratio) * Ratio .. length[r] - 1 :
        ring[r][p % Stride] = p
=============================================================================
