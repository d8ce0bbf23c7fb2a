------------------------------- MODULE MtpShared -------------------------------
(***************************************************************************)
(* The sparse selection shared across one MTP iteration.  The last forward *)
(* of the draft model over accepted tokens leaves, per request slot, the   *)
(* groups it selected and its length; the draft steps of the next          *)
(* iteration attend to that selection and to the positions drafted since.  *)
(*                                                                         *)
(* Translated from QSAMTPSharedSparseIndices and the capture and lookup    *)
(* methods of src/patches/qwen_sparse_attn_backend.py.  The scheduler, the *)
(* speculative worker and the verdict are SGLang's own.                    *)
(***************************************************************************)
EXTENDS Integers, Sequences, FiniteSets, SequencesExt

CONSTANTS
    NumRequests,  \* live request slots are 1 .. NumRequests, slot 0 is reserved
    DraftTokens,  \* speculative_num_draft_tokens: rows of the draft window
    DraftSteps,   \* draft forwards of an iteration that look a selection up
    FrontTokens,  \* num_front_tokens: rows in front of the draft window
    TailWidth,    \* tail columns of the selection
    MaxPadding,   \* bound: padded requests of a batch
    MaxLength     \* bound: tokens of a request

ASSUME MtpAssumption ==
    /\ {NumRequests, DraftTokens, MaxLength} \subseteq Nat \ {0}
    /\ {DraftSteps, FrontTokens, MaxPadding} \subseteq Nat
    /\ TailWidth \in Nat /\ TailWidth >= DraftSteps

VARIABLES
    length,    \* length[r]: tokens whose keys are final, 0 when the slot is free
    ready,     \* ready[r]: the prompt is done
    selection, \* selection[s]: [own, length] of the selection in row s
    running,   \* the iteration under way: its requests and draft steps so far
    seen       \* what the last draft step of each request attended to

vars == <<length, ready, selection, running, seen>>

Request == 1 .. NumRequests
Slot == 0 .. NumRequests
TrashRow == NumRequests + 1

Idle == [ids |-> {}, step |-> 0]
Nothing == [r \in {} |-> 0]

\* Mutant: the lengths of rows that were never captured start at zero.
InitZeroed ==
    /\ length = [r \in Request |-> 0]
    /\ ready = [r \in Request |-> FALSE]
    /\ selection = [s \in 0 .. TrashRow |-> [own |-> FALSE, length |-> 0]]
    /\ running = Idle
    /\ seen = Nothing

Init ==
    /\ length = [r \in Request |-> 0]
    /\ ready = [r \in Request |-> FALSE]
    /\ selection = [s \in 0 .. TrashRow |-> [own |-> FALSE, length |-> 1]]
    /\ running = Idle
    /\ seen = Nothing

-----------------------------------------------------------------------------
(* The batch of a forward is a sequence of entries [req, prefix, extend,       *)
(* accept], in any order; its rows are packed entry by entry, each entry with  *)
(* extend rows behind its prefix.                                              *)

\* Where the rows of each entry end: the running sum of the extends.
BlockEnds(b) ==
    LET end[i \in 0 .. Len(b)] == IF i = 0 THEN 0 ELSE end[i - 1] + b[i].extend
    IN  end

\* The packed rows: the request of each and its length, its own token included.
RowsOf(b) ==
    LET end == BlockEnds(b)
    IN  [n \in 1 .. end[Len(b)] |->
            LET i == CHOOSE i \in DOMAIN b : end[i - 1] < n /\ n <= end[i]
            IN  [req |-> b[i].req, length |-> b[i].prefix + n - end[i - 1]]]

\* The orders in which a scheduler may lay some requests out.
Orders(ids) == Bijection(1 .. Cardinality(ids), ids)

-----------------------------------------------------------------------------
(* Capture: the row at anchors[i] goes to targets[i]; duplicates among the     *)
(* targets leave any one of theirs.                                            *)

\* The selections that writing some rows can leave.
Captured(rows, anchors, targets) ==
    {[s \in 0 .. TrashRow |->
        IF s \in Range(targets) THEN [own |-> TRUE, length |-> rows[anchors[w[s]]].length]
        ELSE selection[s]] :
            w \in {f \in [Range(targets) -> DOMAIN targets] :
                        \A s \in Range(targets) : targets[f[s]] = s}}

\* Prefill: the rows at which the request changes, and the last one.
LastRows(rows) ==
    {n \in DOMAIN rows : n = Len(rows) \/ rows[n + 1].req # rows[n].req}

CaptureLastRows(b) ==
    LET rows == RowsOf(b)
        last == LastRows(rows)
    IN  Captured(rows, [n \in last |-> n], [n \in last |-> rows[n].req])

\* Mutant: the seed is the last row of the window, accepted or not.
AnchorAtBlockEnd(b, i) == IF BlockEnds(b)[i] < 1 THEN 1 ELSE BlockEnds(b)[i]

\* An entry's last accepted row, kept inside the tensor.
Anchor(b, i) ==
    LET row == BlockEnds(b)[i] - (b[i].extend - FrontTokens - b[i].accept)
        last == BlockEnds(b)[Len(b)]
    IN  IF row < 1 THEN 1 ELSE IF row > last THEN last ELSE row

\* Padded requests have no row or name the reserved slot: their capture is trash.
Target(e) == IF e.extend > 0 /\ e.req > 0 THEN e.req ELSE TrashRow

CaptureAccepted(b) ==
    Captured(RowsOf(b), [i \in DOMAIN b |-> Anchor(b, i)], [i \in DOMAIN b |-> Target(b[i])])

-----------------------------------------------------------------------------
(* Lookup *)

\* Mutant: the row's own position is left out of the tail.
TailShort(s, position) ==
    {p \in selection[s].length .. selection[s].length + TailWidth - 1 : p < position}

\* The tail columns that are valid: positions from the capture to the row's own.
TailOf(s, position) ==
    {p \in selection[s].length .. selection[s].length + TailWidth - 1 : p <= position}

-----------------------------------------------------------------------------
(* Actions *)

\* The chunks of a prefill, one entry each.
Chunks(order, chunk) ==
    [i \in DOMAIN order |->
        [req |-> order[i], prefix |-> length[order[i]], extend |-> chunk[order[i]], accept |-> 0]]

\* The post-prefill draft extend over some chunks.
Prefill ==
    /\ running = Idle
    /\ \E ids \in (SUBSET {r \in Request : ~ready[r]}) \ {{}}, last \in SUBSET Request :
       \E chunk \in [ids -> 1 .. MaxLength], order \in Orders(ids) :
        /\ last \subseteq ids
        /\ \A r \in ids : length[r] + chunk[r] <= MaxLength
        /\ \A r \in last : length[r] + chunk[r] >= FrontTokens
        /\ selection' \in CaptureLastRows(Chunks(order, chunk))
        /\ length' = [r \in Request |-> IF r \in ids THEN length[r] + chunk[r] ELSE length[r]]
        /\ ready' = [r \in Request |-> ready[r] \/ r \in last]
    /\ seen' = Nothing
    /\ UNCHANGED running

\* An iteration takes some of the requests that are past their prompt.
Start ==
    /\ running = Idle
    /\ \E ids \in (SUBSET {r \in Request : ready[r]}) \ {{}} :
        /\ \A r \in ids : length[r] + DraftTokens <= MaxLength
        /\ running' = [ids |-> ids, step |-> 0]
    /\ seen' = Nothing
    /\ UNCHANGED <<length, ready, selection>>

\* One draft step: every request drafts one position further, and attends to its
\* row's selection and tail.
DraftStep ==
    /\ running # Idle /\ running.step < DraftSteps
    /\ seen' = [r \in running.ids |->
                    LET position == length[r] + running.step
                    IN  [selected |-> selection[r], tail |-> TailOf(r, position),
                         position |-> position]]
    /\ running' = [running EXCEPT !.step = @ + 1]
    /\ UNCHANGED <<length, ready, selection>>

\* The windows of a draft extend, front rows first, and padded requests behind.
Windows(order, kept, padded) ==
    [i \in 1 .. Len(order) + padded |->
        IF i <= Len(order)
        THEN [req |-> order[i], prefix |-> length[order[i]] - FrontTokens,
              extend |-> FrontTokens + DraftTokens, accept |-> kept[order[i]]]
        ELSE [req |-> 0, prefix |-> 0, extend |-> 0, accept |-> 0]]

\* The verdict keeps some tokens of each window; the draft model runs over the
\* windows again and seeds the next iteration.
DraftExtend ==
    /\ running # Idle /\ running.step = DraftSteps
    /\ \E kept \in [running.ids -> 1 .. DraftTokens], padded \in 0 .. MaxPadding,
          order \in Orders(running.ids) :
        /\ selection' \in CaptureAccepted(Windows(order, kept, padded))
        /\ length' = [r \in Request |->
                        IF r \in running.ids THEN length[r] + kept[r] ELSE length[r]]
    /\ running' = Idle
    /\ UNCHANGED <<ready, seen>>

\* A request leaves between iterations; its selection row is not cleared, and is
\* no longer that of the slot's holder.
Finish(r) ==
    /\ running = Idle
    /\ length[r] > 0
    /\ length' = [length EXCEPT ![r] = 0]
    /\ ready' = [ready EXCEPT ![r] = FALSE]
    /\ selection' = [selection EXCEPT ![r].own = FALSE]
    /\ seen' = Nothing
    /\ UNCHANGED running

Next == Prefill \/ Start \/ DraftStep \/ DraftExtend \/ \E r \in Request : Finish(r)

Spec == Init /\ [][Next]_vars

-----------------------------------------------------------------------------
(* Properties *)

TypeOK ==
    /\ length \in [Request -> 0 .. MaxLength]
    /\ ready \in [Request -> BOOLEAN]
    /\ selection \in [0 .. TrashRow -> [own : BOOLEAN, length : 1 .. MaxLength]]
    /\ running \in [ids : SUBSET Request, step : 0 .. DraftSteps]
    /\ DOMAIN seen \subseteq Request

\* The seed of an iteration is the request's own selection at its last accepted
\* token: not an earlier tenant's, not a rejected draft's, not a chunk's before.
SeedIsCurrent ==
    \A r \in Request : ready[r] => selection[r] = [own |-> TRUE, length |-> length[r]]

\* A draft step can attend to every position up to its own, each once: those the
\* frozen selection ranges over, then all of those drafted since.
DraftSeesEveryPosition ==
    \A r \in DOMAIN seen :
        /\ seen[r].selected.own
        /\ seen[r].tail = seen[r].selected.length .. seen[r].position
=============================================================================
