------------------------------- MODULE QsaCache -------------------------------
(***************************************************************************)
(* The compressed QSA index cache of one attention layer: the per-request  *)
(* pending ring, the compressed-key cache addressed by raw slot \div ratio, *)
(* and the requests, pages and radix tree whose life cycle both ride on.   *)
(*                                                                         *)
(* Translated from src/patches/qsa_kv_pool.py, src/patches/qsa_metadata.py *)
(* and src/patches/qwen_sparse_attn_backend.py.  The scheduler, the page   *)
(* allocator and the radix tree are SGLang's own; they are modelled from   *)
(* how these files rely on them and marked external in the map.            *)
(*                                                                         *)
(* The index key of a token depends on every token before it, so a key is  *)
(* the prefix that ends at the token.  A compressed entry is the family of *)
(* the Ratio keys it was pooled from.                                      *)
(***************************************************************************)
EXTENDS Integers, Sequences, FiniteSets

CONSTANTS
    NumRequestSlots,  \* request-pool rows; row 0 is never allocated
    NumPages,         \* pages 1..NumPages of the full-KV pool; page 0 is padding
    PageSize,         \* tokens of a full-KV page
    Ratio,            \* compress_ratio: tokens pooled into one compressed key
    RingWindow,       \* SGLANG_QSA_RING_WINDOW (0 when unset)
    DraftTokens,      \* speculative_num_draft_tokens; 0 serves without MTP
    Token,            \* the vocabulary
    Stream            \* the token sequences that prompts and generations follow

\* The pool constructor's checks and what any configuration is made of.
ASSUME QsaAssumption ==
    /\ NumRequestSlots \in Nat \ {0}
    /\ NumPages \in Nat
    /\ Ratio \in Nat \ {0}
    /\ PageSize \in Nat /\ PageSize > 1 /\ PageSize % Ratio = 0
    /\ RingWindow \in Int
    /\ DraftTokens \in Nat
    /\ Stream \subseteq Seq(Token)

VARIABLES
    phase,   \* phase[r]: "free", "prefill" or "decode"
    text,    \* text[r]: the committed tokens of request r
    window,  \* window[r]: rows of the verify forward whose verdict is pending
    pages,   \* pages[r]: the pages of r's req_to_token row, in order
    cached,  \* cached[p]: the prefix that ends with page p, <<>> if not in the tree
    ring,    \* qsa_key_state_buffer, flat
    comp     \* qsa_compressed_k_buffer, flat

vars == <<phase, text, window, pages, cached, ring, comp>>

-----------------------------------------------------------------------------
(* Addressing *)

Request == 0 .. NumRequestSlots - 1
Page    == 1 .. NumPages

\* The ring stride: the environment's window when it is a usable multiple.
Stride == IF RingWindow >= Ratio /\ RingWindow % Ratio = 0 THEN RingWindow ELSE Ratio

\* The largest verify window _require_chain_speculation lets through.
VerifyLimit == IF Stride > Ratio THEN Stride - Ratio ELSE Ratio

GroupsPerPage == PageSize \div Ratio

RingIndex == 0 .. NumRequestSlots * Stride - 1

\* -(state_size // -ratio): the ceiling of state_size / ratio.
CompressedCapacity == ((NumPages + 1) * PageSize + Ratio - 1) \div Ratio
CompIndex == 0 .. CompressedCapacity - 1

RingSlot(r, p) == r * Stride + (p % Stride)

\* The raw KV slot of position p in a request whose pages are tbl.
RawSlot(tbl, p) == tbl[p \div PageSize + 1] * PageSize + (p % PageSize)

\* Mutant: the token-slot row is indexed by group instead of by token.
WriteSlotUnscaled(tbl, g) == RawSlot(tbl, g) \div Ratio

\* Where a group is written: its first raw slot \div ratio.
WriteSlot(tbl, g) == RawSlot(tbl, g * Ratio) \div Ratio

\* Where the scoring kernel reads it: page id * groups per page + block in page.
ReadSlot(tbl, g) ==
    (RawSlot(tbl, (g \div GroupsPerPage) * PageSize) \div PageSize) * GroupsPerPage
        + (g % GroupsPerPage)

Key(t, p) == SubSeq(t, 1, p + 1)
NoKey == <<>>

GroupOf(t, g) == [i \in 0 .. Ratio - 1 |-> Key(t, g * Ratio + i)]
NoGroup == [i \in 0 .. Ratio - 1 |-> NoKey]

\* First position of the pending group of a sequence of length n.
PendingFrom(n) == (n \div Ratio) * Ratio

Full(r) == text[r] \o window[r]

-----------------------------------------------------------------------------
(* Tokens, the radix tree and the page allocator *)

\* What may follow the tokens t: n more tokens of a stream that starts with t.
Continuations(t, n) ==
    {SubSeq(s, Len(t) + 1, Len(t) + n) :
        s \in {x \in Stream : Len(x) >= Len(t) + n /\ SubSeq(x, 1, Len(t)) = t}}

StreamLengths == UNION {1 .. Len(s) : s \in Stream}

Live == {r \in Request : phase[r] # "free"}

InUse == UNION {{pages[r][i] : i \in DOMAIN pages[r]} : r \in Live}

Cached == {p \in Page : cached[p] # <<>>}

\* Mutant: a page nobody holds is reused although the tree still names it.
FreePagesOfTree == Page \ InUse

FreePages == Page \ (InUse \cup Cached)

PagePrefix(t, i) == SubSeq(t, 1, i * PageSize)

FullPages(t) == Len(t) \div PageSize

\* The cached page that ends the page-aligned prefix c.
Node(c) == CHOOSE p \in Cached : cached[p] = c

\* The page rows that hold n tokens, tbl extended by freshly allocated pages.
Grown(tbl, n) ==
    LET need == IF n > Len(tbl) * PageSize
                THEN (n + PageSize - 1) \div PageSize - Len(tbl) ELSE 0
    IN  {tbl \o new : new \in {s \in [1 .. need -> FreePages] :
                                \A i, j \in 1 .. need : s[i] = s[j] => i = j}}

\* Inserting r's full committed pages: a prefix the tree already holds keeps
\* its page and r's duplicate is dropped, a new prefix takes r's page.
InTree(r, i) == \E p \in Cached : cached[p] = PagePrefix(text[r], i)

InsertedPages(r) ==
    [i \in DOMAIN pages[r] |->
        IF i <= FullPages(text[r]) /\ InTree(r, i)
        THEN Node(PagePrefix(text[r], i)) ELSE pages[r][i]]

\* Mutant: the tail page, not yet full, goes to the tree with the full ones.
InsertedTreeWithTail(r) ==
    [p \in Page |->
        IF \E i \in DOMAIN pages[r] : pages[r][i] = p /\ ~InTree(r, i)
        THEN text[r] ELSE cached[p]]

InsertedTree(r) ==
    [p \in Page |->
        IF \E i \in 1 .. FullPages(text[r]) : pages[r][i] = p /\ ~InTree(r, i)
        THEN PagePrefix(text[r],
                CHOOSE i \in 1 .. FullPages(text[r]) : pages[r][i] = p /\ ~InTree(r, i))
        ELSE cached[p]]

-----------------------------------------------------------------------------
(* One forward: every row stores its key, then complete groups are pooled *)

\* The rows of a forward are the last n positions of t.
Rows(t, n) == Len(t) - n .. Len(t) - 1

\* Mutant: verify rows are treated as an extend chunk.
PagedRingAsExtend(r, t, n) ==
    [s \in RingIndex |->
        IF \E p \in Rows(t, n) : p >= PendingFrom(Len(t)) /\ RingSlot(r, p) = s
        THEN Key(t, CHOOSE p \in Rows(t, n) : RingSlot(r, p) = s)
        ELSE ring[s]]

\* A paged row (decode, target verify) stores its key at its own ring slot.
PagedRing(r, t, n) ==
    [s \in RingIndex |->
        IF \E p \in Rows(t, n) : RingSlot(r, p) = s
        THEN Key(t, CHOOSE p \in Rows(t, n) : RingSlot(r, p) = s)
        ELSE ring[s]]

\* Mutant: the first member of the pending group is dumped with the older rows.
ExtendRingLate(r, t, n) ==
    LET pending == {p \in Rows(t, n) : p > PendingFrom(Len(t))}
        dumped  == {p % Ratio : p \in Rows(t, n) \ pending}
    IN  [s \in RingIndex |->
            IF \E p \in pending : RingSlot(r, p) = s
            THEN Key(t, CHOOSE p \in pending : RingSlot(r, p) = s)
            ELSE IF s \in dumped THEN NoKey ELSE ring[s]]

\* On extend only the pending tail reaches the request's ring; older tokens
\* are dumped into the rows of request slot 0 (which of them wins is not
\* determined and never read, so a dump leaves no key).
ExtendRing(r, t, n) ==
    LET pending == {p \in Rows(t, n) : p >= PendingFrom(Len(t))}
        dumped  == {p % Ratio : p \in Rows(t, n) \ pending}
    IN  [s \in RingIndex |->
            IF \E p \in pending : RingSlot(r, p) = s
            THEN Key(t, CHOOSE p \in pending : RingSlot(r, p) = s)
            ELSE IF s \in dumped THEN NoKey ELSE ring[s]]

\* The members of group g as the ring holds them.
RingGroup(rg, r, g) == [i \in 0 .. Ratio - 1 |-> rg[RingSlot(r, g * Ratio + i)]]

\* The groups completed by the last n rows of t.
Completed(t, n) == {g \in 0 .. Len(t) \div Ratio : (g + 1) * Ratio - 1 \in Rows(t, n)}

\* Every completed group goes to its slot; the other rows write the inert slot 0.
Compress(tbl, t, n, value) ==
    [s \in CompIndex |->
        IF \E g \in Completed(t, n) : WriteSlot(tbl, g) = s
        THEN value[CHOOSE g \in Completed(t, n) : WriteSlot(tbl, g) = s]
        ELSE IF s = 0 THEN NoGroup ELSE comp[s]]

\* Mutant: groups are pooled before the rows of the forward stored their keys.
PagedForwardPoolsFirst(r, t, n) ==
    \E tbl \in Grown(pages[r], Len(t)) :
        /\ pages' = [pages EXCEPT ![r] = tbl]
        /\ ring' = PagedRing(r, t, n)
        /\ comp' = Compress(tbl, t, n, [g \in Completed(t, n) |-> RingGroup(ring, r, g)])

\* Paged rows pool what the ring holds once all rows of the forward stored.
PagedForward(r, t, n) ==
    \E tbl \in Grown(pages[r], Len(t)) :
        /\ pages' = [pages EXCEPT ![r] = tbl]
        /\ ring' = PagedRing(r, t, n)
        /\ comp' = Compress(tbl, t, n, [g \in Completed(t, n) |->
                                        RingGroup(PagedRing(r, t, n), r, g)])

\* An extend chunk pools its members from the chunk itself: the first member
\* of group g is row g*Ratio - prefix of the forward.
ExtendForward(r, prefix, chunk) ==
    LET t == text[r] \o chunk
        members == [g \in Completed(t, Len(chunk)) |->
                        [i \in 0 .. Ratio - 1 |->
                            Key(t, prefix + (g * Ratio - prefix) + i)]]
    IN  \E tbl \in Grown(pages[r], Len(t)) :
            /\ pages' = [pages EXCEPT ![r] = tbl]
            /\ ring' = ExtendRing(r, t, Len(chunk))
            /\ comp' = Compress(tbl, t, Len(chunk), members)

-----------------------------------------------------------------------------
Init ==
    /\ phase = [r \in Request |-> "free"]
    /\ text = [r \in Request |-> <<>>]
    /\ window = [r \in Request |-> <<>>]
    /\ pages = [r \in Request |-> <<>>]
    /\ cached = [p \in Page |-> <<>>]
    /\ ring = [s \in RingIndex |-> NoKey]
    /\ comp = [s \in CompIndex |-> NoGroup]

\* A request takes a free request slot and a page-aligned prefix of the tree.
Admit(r) ==
    /\ phase[r] = "free"
    /\ r # 0
    /\ \E c \in {<<>>} \cup {cached[p] : p \in Cached} :
        /\ text' = [text EXCEPT ![r] = c]
        /\ pages' = [pages EXCEPT ![r] =
                        [i \in 1 .. FullPages(c) |-> Node(PagePrefix(c, i))]]
    /\ phase' = [phase EXCEPT ![r] = "prefill"]
    /\ UNCHANGED <<window, cached, ring, comp>>

\* Mutant: chunked prefill may stop anywhere.
ExtendAnyChunk(r) ==
    /\ phase[r] = "prefill"
    /\ Len(text[r]) % Ratio = 0
    /\ \E chunk \in UNION {Continuations(text[r], n) : n \in StreamLengths} :
        /\ ExtendForward(r, Len(text[r]), chunk)
        /\ text' = [text EXCEPT ![r] = @ \o chunk]
    /\ phase' \in {[phase EXCEPT ![r] = x] : x \in {"prefill", "decode"}}
    /\ UNCHANGED <<window, cached>>

\* One prefill chunk.  A chunk that is not the last ends on a page boundary;
\* the write plan asserts that the prefix covers whole groups.
Extend(r) ==
    /\ phase[r] = "prefill"
    /\ Len(text[r]) % Ratio = 0
    /\ \E chunk \in UNION {Continuations(text[r], n) : n \in StreamLengths} :
        /\ ExtendForward(r, Len(text[r]), chunk)
        /\ text' = [text EXCEPT ![r] = @ \o chunk]
        /\ \/ phase' = [phase EXCEPT ![r] = "decode"]
           \/ /\ Len(text[r] \o chunk) % PageSize = 0
              /\ phase' = phase
    /\ UNCHANGED <<window, cached>>

\* Decode without MTP: one row, committed by the forward itself.
Decode(r) ==
    /\ DraftTokens = 0
    /\ phase[r] = "decode"
    /\ \E tok \in Continuations(text[r], 1) :
        /\ PagedForward(r, text[r] \o tok, 1)
        /\ text' = [text EXCEPT ![r] = @ \o tok]
    /\ UNCHANGED <<phase, window, cached>>

\* Target verify: DraftTokens rows, the last sampled token and the drafts
\* behind it, all stored and pooled before any is accepted.
Verify(r) ==
    /\ DraftTokens \in 1 .. VerifyLimit
    /\ phase[r] = "decode"
    /\ window[r] = <<>>
    /\ \E w \in Continuations(text[r], DraftTokens) :
        /\ PagedForward(r, text[r] \o w, DraftTokens)
        /\ window' = [window EXCEPT ![r] = w]
    /\ UNCHANGED <<phase, text, cached>>

\* The verdict: the first k rows are kept, the others are forgotten without
\* undoing what they stored.
Accept(r) ==
    /\ window[r] # <<>>
    /\ \E k \in 1 .. Len(window[r]) :
        text' = [text EXCEPT ![r] = @ \o SubSeq(window[r], 1, k)]
    /\ window' = [window EXCEPT ![r] = <<>>]
    /\ UNCHANGED <<phase, pages, cached, ring, comp>>

\* An unfinished request offers its full pages to the tree.
Publish(r) ==
    /\ phase[r] # "free"
    /\ window[r] = <<>>
    /\ pages' = [pages EXCEPT ![r] = InsertedPages(r)]
    /\ cached' = InsertedTree(r)
    /\ UNCHANGED <<phase, text, window, ring, comp>>

\* A finished, aborted or retracted request: full pages go to the tree, the
\* rest is freed; nothing in the ring or the compressed cache is cleared.
Release(r) ==
    /\ phase[r] # "free"
    /\ window[r] = <<>>
    /\ phase' = [phase EXCEPT ![r] = "free"]
    /\ text' = [text EXCEPT ![r] = <<>>]
    /\ pages' = [pages EXCEPT ![r] = <<>>]
    /\ cached' = InsertedTree(r)
    /\ UNCHANGED <<window, ring, comp>>

\* Mutant: the tree drops a page without asking who holds it.
EvictHeld(p) ==
    /\ p \in Cached
    /\ \A q \in Cached \ {p} : Len(cached[q]) > Len(cached[p])
                               => SubSeq(cached[q], 1, Len(cached[p])) # cached[p]
    /\ cached' = [cached EXCEPT ![p] = <<>>]
    /\ UNCHANGED <<phase, text, window, pages, ring, comp>>

\* The tree drops a leaf that no request holds.
Evict(p) ==
    /\ p \in Cached \ InUse
    /\ \A q \in Cached \ {p} : Len(cached[q]) > Len(cached[p])
                               => SubSeq(cached[q], 1, Len(cached[p])) # cached[p]
    /\ cached' = [cached EXCEPT ![p] = <<>>]
    /\ UNCHANGED <<phase, text, window, pages, ring, comp>>

RequestStep(r) ==
    \/ Admit(r) \/ Extend(r) \/ Decode(r) \/ Verify(r)
    \/ Accept(r) \/ Publish(r) \/ Release(r)

Next == (\E r \in Request : RequestStep(r)) \/ (\E p \in Page : Evict(p))

Spec == Init /\ [][Next]_vars

-----------------------------------------------------------------------------
(* Properties *)

TypeOK ==
    /\ phase \in [Request -> {"free", "prefill", "decode"}]
    /\ text \in [Request -> Seq(Token)]
    /\ window \in [Request -> Seq(Token)]
    /\ pages \in [Request -> Seq(Page)]
    /\ cached \in [Page -> Seq(Token)]
    /\ ring \in [RingIndex -> Seq(Token)]
    /\ comp \in [CompIndex -> [0 .. Ratio - 1 -> Seq(Token)]]

\* The pending ring holds, for every live request, exactly the keys of the
\* pending group and of the verify rows behind it: the next group to complete
\* is pooled from its own members, whatever other requests, rejected drafts
\* and earlier tenants of the request slot stored.
PendingRing ==
    \A r \in Live : \A p \in PendingFrom(Len(text[r])) .. Len(Full(r)) - 1 :
        ring[RingSlot(r, p)] = Key(Full(r), p)

\* Between forwards the ring holds the pending group of every live request: a
\* rejected draft has taken nothing that the next verify window still needs.
\* "drafts up to the ratio are safe", says the window check of the backend.
PendingKeptBetweenForwards ==
    \A r \in Live : window[r] = <<>> =>
        \A p \in PendingFrom(Len(text[r])) .. Len(text[r]) - 1 :
            ring[RingSlot(r, p)] = Key(text[r], p)

\* Every complete group a row of a live request scores, its verify rows
\* included, is read at the slot the page table leads to and was pooled from
\* that request's own tokens.
ReadersSeeOwnGroups ==
    \A r \in Live : \A g \in 0 .. (Len(Full(r)) \div Ratio) - 1 :
        comp[ReadSlot(pages[r], g)] = GroupOf(Full(r), g)

\* The two readers (the packed gather of prefill, the page table of decode)
\* address the same slot as the writer.
ReadersMeetWriter ==
    \A r \in Live : \A g \in 0 .. (Len(Full(r)) \div Ratio) - 1 :
        ReadSlot(pages[r], g) = WriteSlot(pages[r], g)

\* A page the tree may hand to the next request is complete: each of its
\* groups is pooled from the prefix the tree names.
TreeServesGroups ==
    \A p \in Cached : \A i \in 0 .. GroupsPerPage - 1 :
        comp[p * GroupsPerPage + i] =
            GroupOf(cached[p], (Len(cached[p]) \div Ratio) - GroupsPerPage + i)

\* A page that two requests hold, or that the tree holds, lies below the
\* committed length of every request holding it, so no draft or decode row
\* can write to it.
SharedPagesCommitted ==
    \A r \in Live : \A i \in DOMAIN pages[r] :
        \/ i <= FullPages(text[r])
        \/ /\ pages[r][i] \notin Cached
           /\ \A q \in Live \ {r} : \A j \in DOMAIN pages[q] : pages[q][j] # pages[r][i]

\* The device-side assertion of the write plan never fires: a chunk starts on
\* a group boundary, whether after a chunk or after a matched prefix.
ChunksStartOnGroups ==
    \A r \in Live : phase[r] = "prefill" => Len(text[r]) % Ratio = 0

\* What a row of r can score: its groups, read through its page table.
View(r) ==
    [g \in 0 .. (Len(Full(r)) \div Ratio) - 1 |-> comp[ReadSlot(pages[r], g)]]

Promise == INSTANCE IndexCache WITH
    committed <- text, drafted <- window, view <- [r \in Request |-> View(r)]

\* The ring, the pages and the tree together implement the promise: no step
\* changes what another request sees, and none rewrites a visible group.
ImplementsPromise == Promise!Spec

-----------------------------------------------------------------------------
(* The inductive invariant behind the safety theorems *)

\* Row 0 is never handed out; a free slot holds nothing; a pending window is
\* one verify forward of a decoding request; prefill stops on page boundaries.
RequestShape ==
    \A r \in Request :
        /\ r = 0 => phase[r] = "free"
        /\ phase[r] = "free" => text[r] = <<>> /\ window[r] = <<>> /\ pages[r] = <<>>
        /\ phase[r] = "prefill" => Len(text[r]) % PageSize = 0
        /\ window[r] # <<>> => /\ phase[r] = "decode"
                               /\ DraftTokens \in 1 .. VerifyLimit
                               /\ Len(window[r]) = DraftTokens

\* A live request has a page for each of its rows, and no page twice.
PagesCover ==
    \A r \in Live :
        /\ Len(Full(r)) <= Len(pages[r]) * PageSize
        /\ \A i, j \in DOMAIN pages[r] : pages[r][i] = pages[r][j] => i = j

\* A page held by two requests is in the tree.
SharingIsCached ==
    \A r, q \in Live : r # q =>
        \A i \in DOMAIN pages[r], j \in DOMAIN pages[q] :
            pages[r][i] = pages[q][j] => pages[r][i] \in Cached

\* A request holds a cached page only at the place of the prefix it stands for.
CachedPagesMatch ==
    \A r \in Live : \A i \in DOMAIN pages[r] : pages[r][i] \in Cached =>
        i <= FullPages(text[r]) /\ cached[pages[r][i]] = PagePrefix(text[r], i)

\* The tree holds page-aligned prefixes, and with each one its own prefixes.
TreeClosed ==
    \A p \in Cached :
        /\ Len(cached[p]) % PageSize = 0
        /\ \A i \in 1 .. FullPages(cached[p]) :
            \E q \in Cached : cached[q] = PagePrefix(cached[p], i)

IInv ==
    /\ TypeOK
    /\ RequestShape
    /\ PagesCover
    /\ SharingIsCached
    /\ CachedPagesMatch
    /\ TreeClosed
    /\ PendingRing
    /\ ReadersSeeOwnGroups
    /\ TreeServesGroups

\* What verification needs of the ring: room for a pending group that lacks its
\* last member, and for the rows of one verify forward behind it.
RingFits == DraftTokens \in 1 .. VerifyLimit => Ratio - 1 + DraftTokens <= Stride
=============================================================================
