---------------------------- MODULE QsaCacheProofs ----------------------------
(***************************************************************************)
(* The index cache, for every configuration the pool's constructor         *)
(* accepts.  The first half is the page discipline: pages are shared only  *)
(* through the radix tree, and a shared page lies below the committed      *)
(* length of whoever holds it.  The second half is about what the ring and *)
(* the compressed cache contain.  Whenever the ring has room for a pending *)
(* group and a verify window (RingFits), every scorer reads the groups of  *)
(* its own tokens and every page of the tree can be served, for every      *)
(* number of requests, every page size, ratio, stride and draft length;    *)
(* the widened ring always has that room and the stock ring has it only    *)
(* for a window of one row.                                                *)
(***************************************************************************)
EXTENDS QsaCache, QsaArithmetic

\* The part of IInv that speaks of requests, pages and the tree.
PInv ==
    /\ TypeOK
    /\ RequestShape
    /\ PagesCover
    /\ SharingIsCached
    /\ CachedPagesMatch
    /\ TreeClosed

-----------------------------------------------------------------------------
(* Parameters *)

\* A page is a positive number of whole groups.
LEMMA PageOfGroups ==
    /\ GroupsPerPage \in Nat \ {0}
    /\ PageSize = GroupsPerPage * Ratio
    /\ PageSize \in Nat \ {0} /\ Ratio \in Nat \ {0}
<1> USE QsaAssumption
<1>1. PageSize \in Nat \ {0} /\ Ratio \in Nat \ {0} OBVIOUS
<1>2. /\ GroupsPerPage \in Nat
      /\ PageSize = GroupsPerPage * Ratio + (PageSize % Ratio)
  BY <1>1, DivMod, DivNat DEF GroupsPerPage
<1>3. PageSize = GroupsPerPage * Ratio BY <1>2
<1>4. GroupsPerPage # 0 BY <1>1, <1>3
<1> QED BY <1>1, <1>2, <1>3, <1>4

\* The stride is at least the ratio, whatever the environment says.
LEMMA StrideFacts ==
    /\ Stride \in Nat \ {0} /\ Stride >= Ratio
    /\ VerifyLimit \in Nat
BY QsaAssumption DEF Stride, VerifyLimit

\* What a stream offers after t is a sequence of tokens of the length asked.
LEMMA ContinuationFacts ==
    ASSUME NEW t \in Seq(Token), NEW n \in Nat, NEW w \in Continuations(t, n)
    PROVE  w \in Seq(Token) /\ Len(w) = n
<1>1. PICK s \in Stream : /\ Len(s) >= Len(t) + n
                          /\ w = SubSeq(s, Len(t) + 1, Len(t) + n)
  BY DEF Continuations
<1>2. s \in Seq(Token) BY QsaAssumption
<1> QED BY <1>1, <1>2

LEMMA StreamLengthNat == StreamLengths \subseteq Nat
BY QsaAssumption DEF StreamLengths

-----------------------------------------------------------------------------
(* Pages *)

\* A free page is neither cached nor held.
LEMMA FreeFacts ==
    ASSUME NEW p \in FreePages
    PROVE  /\ p \in Page /\ p \notin Cached
           /\ \A r \in Live : \A i \in DOMAIN pages[r] : pages[r][i] # p
BY DEF FreePages, InUse

\* A grown row of pages keeps its pages, adds distinct free ones, and holds
\* the tokens asked for.
LEMMA GrownFacts ==
    ASSUME NEW tbl \in Seq(Page), NEW n \in Nat, NEW new \in Grown(tbl, n)
    PROVE  /\ new \in Seq(Page)
           /\ Len(new) >= Len(tbl) /\ n <= Len(new) * PageSize
           /\ \A i \in 1 .. Len(tbl) : new[i] = tbl[i]
           /\ \A i \in (Len(tbl) + 1) .. Len(new) : new[i] \in FreePages
           /\ \A i, j \in (Len(tbl) + 1) .. Len(new) : new[i] = new[j] => i = j
<1> DEFINE need == IF n > Len(tbl) * PageSize
                   THEN (n + PageSize - 1) \div PageSize - Len(tbl) ELSE 0
<1>1. PICK s \in [1 .. need -> FreePages] :
        new = tbl \o s /\ \A i, j \in 1 .. need : s[i] = s[j] => i = j
  BY DEF Grown
<1> DEFINE q == (n + PageSize - 1) \div PageSize
<1>2. /\ Len(tbl) \in Nat /\ Len(tbl) * PageSize \in Nat
      /\ PageSize \in Nat \ {0}
  BY PageOfGroups
<1>3. q \in Int /\ q * PageSize \in Int /\ n <= q * PageSize
  BY <1>2, CeilDiv
<1>4. need \in Nat /\ n <= (Len(tbl) + need) * PageSize
  <2>1. CASE n > Len(tbl) * PageSize
    <3>1. ~ (q < Len(tbl))
      <4>1. SUFFICES ASSUME q < Len(tbl) PROVE FALSE OBVIOUS
      <4>2. q * PageSize + PageSize <= Len(tbl) * PageSize
        BY <4>1, <1>2, <1>3, MulLess
      <4> QED BY <4>2, <1>2, <1>3, <2>1
    <3> QED BY <3>1, <2>1, <1>2, <1>3
  <2>2. CASE ~ (n > Len(tbl) * PageSize)
    BY <2>2, <1>2
  <2> QED BY <2>1, <2>2
<1>5. s \in Seq(Page) /\ Len(s) = need
  <2>1. s \in [1 .. need -> Page] BY <1>1, FreeFacts
  <2> HIDE DEF need
  <2> QED BY <2>1, <1>4
<1>6. new \in Seq(Page) /\ Len(new) = Len(tbl) + need
  BY <1>1, <1>5
<1>7. /\ \A i \in 1 .. Len(tbl) : new[i] = tbl[i]
      /\ \A i \in (Len(tbl) + 1) .. Len(new) :
            i - Len(tbl) \in 1 .. need /\ new[i] = s[i - Len(tbl)]
  BY <1>1, <1>4, <1>5, <1>6
<1>8. \A i \in (Len(tbl) + 1) .. Len(new) : new[i] \in FreePages
  BY <1>7, <1>1
<1>9. ASSUME NEW i \in (Len(tbl) + 1) .. Len(new), NEW j \in (Len(tbl) + 1) .. Len(new),
             new[i] = new[j]
      PROVE  i = j
  <2>1. i - Len(tbl) = j - Len(tbl) BY <1>9, <1>7, <1>1
  <2> QED BY <2>1, <1>2, <1>6
<1> QED BY <1>4, <1>6, <1>7, <1>8, <1>9

\* Page i of a sequence is full exactly when i pages fit its length; its
\* prefix is then a page-aligned sequence of its own.
LEMMA PrefixFacts ==
    ASSUME NEW t \in Seq(Token)
    PROVE  /\ FullPages(t) \in Nat /\ FullPages(t) * PageSize <= Len(t)
           /\ \A i \in Nat : i <= FullPages(t) <=> i * PageSize <= Len(t)
           /\ \A i \in 1 .. FullPages(t) :
                /\ PagePrefix(t, i) \in Seq(Token) /\ PagePrefix(t, i) # <<>>
                /\ Len(PagePrefix(t, i)) = i * PageSize /\ i * PageSize \in Nat
                /\ Len(PagePrefix(t, i)) % PageSize = 0
                /\ FullPages(PagePrefix(t, i)) = i
                /\ \A j \in 1 .. i : PagePrefix(PagePrefix(t, i), j) = PagePrefix(t, j)
<1>1. FullPages(t) \in Nat /\ FullPages(t) * PageSize <= Len(t)
  <2>1. Len(t) \in Nat /\ PageSize \in Nat \ {0} BY PageOfGroups
  <2> QED BY <2>1, DivNat DEF FullPages
<1>2. \A i \in Nat : i <= FullPages(t) <=> i * PageSize <= Len(t)
  <2> TAKE i \in Nat
  <2>1. i - 1 < Len(t) \div PageSize <=> ((i - 1) + 1) * PageSize <= Len(t)
    BY PageOfGroups, BelowDiv
  <2> QED BY <2>1, <1>1 DEF FullPages
<1>3. ASSUME NEW i \in 1 .. FullPages(t)
      PROVE  /\ PagePrefix(t, i) \in Seq(Token) /\ PagePrefix(t, i) # <<>>
             /\ Len(PagePrefix(t, i)) = i * PageSize /\ i * PageSize \in Nat
             /\ Len(PagePrefix(t, i)) % PageSize = 0
             /\ FullPages(PagePrefix(t, i)) = i
             /\ \A j \in 1 .. i : PagePrefix(PagePrefix(t, i), j) = PagePrefix(t, j)
  <2>1. i \in Nat /\ i * PageSize \in Nat /\ i * PageSize <= Len(t) /\ i * PageSize > 0
    BY <1>1, <1>2, PageOfGroups
  <2>2. PICK m \in 0 .. Len(t) : m = i * PageSize BY <2>1
  <2>3. /\ PagePrefix(t, i) \in Seq(Token) /\ Len(PagePrefix(t, i)) = m
    BY <2>2 DEF PagePrefix
  <2>4. (i * PageSize + 0) \div PageSize = i /\ (i * PageSize + 0) % PageSize = 0
    <3>1. i \in Int /\ 0 \in 0 .. PageSize - 1 /\ PageSize \in Nat \ {0}
      BY <2>1, PageOfGroups
    <3> QED BY <3>1, DivUnique
  <2>5. m \div PageSize = i /\ m % PageSize = 0
    BY <2>1, <2>2, <2>4
  <2>6. ASSUME NEW j \in 1 .. i
        PROVE  PagePrefix(PagePrefix(t, i), j) = PagePrefix(t, j)
    <3>1. j * PageSize \in 0 .. m
      <4>1. CASE j = i BY <4>1, <2>1, <2>2
      <4>2. CASE j < i BY <4>2, <2>1, <2>2, PageOfGroups, MulLess
      <4> QED BY <4>1, <4>2
    <3> QED BY <3>1, <2>2, PrefixOfPrefix DEF PagePrefix
  <2> QED BY <2>1, <2>2, <2>3, <2>5, <2>6 DEF FullPages
<1> QED BY <1>1, <1>2, <1>3

\* Node returns a cached page of the prefix, when there is one.
LEMMA NodeFacts ==
    ASSUME NEW c, \E p \in Cached : cached[p] = c
    PROVE  Node(c) \in Cached /\ Node(c) \in Page /\ cached[Node(c)] = c
BY DEF Node, Cached

-----------------------------------------------------------------------------
(* Types of the buffers after a forward *)

LEMMA RingSlotInRing ==
    ASSUME NEW r \in Request, NEW p \in Int
    PROVE  RingSlot(r, p) \in RingIndex
<1>1. /\ NumRequestSlots \in Nat /\ r \in Nat /\ r < NumRequestSlots
      /\ Stride \in Nat \ {0} /\ p % Stride \in 0 .. Stride - 1
  BY QsaAssumption, StrideFacts, DivMod DEF Request
<1>2. r * Stride \in Nat /\ r * Stride + Stride <= NumRequestSlots * Stride
      /\ NumRequestSlots * Stride \in Nat
  BY <1>1, MulLess
<1> QED BY <1>1, <1>2 DEF RingSlot, RingIndex

LEMMA KeyType ==
    ASSUME NEW t \in Seq(Token), NEW p \in 0 .. Len(t) - 1
    PROVE  Key(t, p) \in Seq(Token)
BY DEF Key

LEMMA RowsFacts ==
    ASSUME NEW t \in Seq(Token), NEW n \in 0 .. Len(t)
    PROVE  Rows(t, n) \subseteq 0 .. Len(t) - 1
BY DEF Rows

LEMMA PagedRingType ==
    ASSUME TypeOK, NEW r \in Request, NEW t \in Seq(Token), NEW n \in 0 .. Len(t)
    PROVE  PagedRing(r, t, n) \in [RingIndex -> Seq(Token)]
<1>1. ASSUME NEW s \in RingIndex, \E p \in Rows(t, n) : RingSlot(r, p) = s
      PROVE  Key(t, CHOOSE p \in Rows(t, n) : RingSlot(r, p) = s) \in Seq(Token)
  <2>1. (CHOOSE p \in Rows(t, n) : RingSlot(r, p) = s) \in Rows(t, n) BY <1>1
  <2> QED BY <2>1, RowsFacts, KeyType
<1> QED BY <1>1 DEF PagedRing, TypeOK

LEMMA ExtendRingType ==
    ASSUME TypeOK, NEW r \in Request, NEW t \in Seq(Token), NEW n \in 0 .. Len(t)
    PROVE  ExtendRing(r, t, n) \in [RingIndex -> Seq(Token)]
<1> DEFINE pending == {p \in Rows(t, n) : p >= PendingFrom(Len(t))}
<1>1. ASSUME NEW s \in RingIndex, \E p \in pending : RingSlot(r, p) = s
      PROVE  Key(t, CHOOSE p \in pending : RingSlot(r, p) = s) \in Seq(Token)
  <2>1. (CHOOSE p \in pending : RingSlot(r, p) = s) \in pending BY <1>1
  <2>2. pending \subseteq Rows(t, n) OBVIOUS
  <2> HIDE DEF pending
  <2> QED BY <2>1, <2>2, RowsFacts, KeyType
<1>2. NoKey \in Seq(Token) BY DEF NoKey
<1> QED BY <1>1, <1>2 DEF ExtendRing, TypeOK

\* A group completed by the last rows lies within the sequence.
LEMMA CompletedFacts ==
    ASSUME NEW t \in Seq(Token), NEW n \in 0 .. Len(t), NEW g \in Completed(t, n)
    PROVE  /\ g \in Nat /\ (g + 1) * Ratio \in Nat /\ g * Ratio \in Nat
           /\ (g + 1) * Ratio = g * Ratio + Ratio
           /\ (g + 1) * Ratio <= Len(t) /\ (g + 1) * Ratio > Len(t) - n
<1>1. g \in 0 .. Len(t) \div Ratio /\ (g + 1) * Ratio - 1 \in Rows(t, n)
  BY DEF Completed
<1>2. Len(t) \in Nat /\ Ratio \in Nat \ {0} BY PageOfGroups
<1>3. Len(t) \div Ratio \in Nat BY <1>2, DivNat
<1>4. g \in Nat BY <1>1, <1>3
<1>5. g * Ratio \in Nat /\ (g + 1) * Ratio = g * Ratio + Ratio
  BY <1>2, <1>4
<1>6. (g + 1) * Ratio \in Nat BY <1>2, <1>5
<1> QED BY <1>1, <1>2, <1>4, <1>5, <1>6 DEF Rows

LEMMA CompressType ==
    ASSUME TypeOK, NEW tbl, NEW t, NEW n, NEW value,
           \A g \in Completed(t, n) : value[g] \in [0 .. Ratio - 1 -> Seq(Token)]
    PROVE  Compress(tbl, t, n, value) \in [CompIndex -> [0 .. Ratio - 1 -> Seq(Token)]]
<1>1. NoGroup \in [0 .. Ratio - 1 -> Seq(Token)] BY DEF NoGroup, NoKey
<1> QED BY <1>1 DEF Compress, TypeOK

LEMMA RingGroupType ==
    ASSUME NEW rg \in [RingIndex -> Seq(Token)], NEW r \in Request, NEW g \in Nat
    PROVE  RingGroup(rg, r, g) \in [0 .. Ratio - 1 -> Seq(Token)]
<1>1. ASSUME NEW i \in 0 .. Ratio - 1
      PROVE  rg[RingSlot(r, g * Ratio + i)] \in Seq(Token)
  <2>1. g * Ratio + i \in Int BY PageOfGroups
  <2> QED BY <2>1, RingSlotInRing
<1> QED BY <1>1 DEF RingGroup

-----------------------------------------------------------------------------
(* Steps *)

\* What a forward of request r does to everything but the two buffers: the
\* row of pages grows to hold the tokens, which stay ahead of what was there.
Grows(r, t, w) ==
    /\ r \in Live
    /\ t \in Seq(Token) /\ w \in Seq(Token)
    /\ Len(text[r]) <= Len(t) /\ SubSeq(t, 1, Len(text[r])) = text[r]
    /\ pages' \in [Request -> Seq(Page)]
    /\ pages'[r] \in Grown(pages[r], Len(t \o w))
    /\ \A q \in Request : q # r => /\ pages'[q] = pages[q] /\ text'[q] = text[q]
                                   /\ window'[q] = window[q]
    /\ text'[r] = t /\ window'[r] = w
    /\ cached' = cached
    /\ \A q \in Request : phase'[q] = "free" <=> phase[q] = "free"

LEMMA LiveFacts ==
    ASSUME TypeOK, NEW r \in Live
    PROVE  /\ r \in Request /\ text[r] \in Seq(Token) /\ window[r] \in Seq(Token)
           /\ pages[r] \in Seq(Page) /\ Full(r) \in Seq(Token)
           /\ Len(Full(r)) = Len(text[r]) + Len(window[r])
           /\ DOMAIN pages[r] = 1 .. Len(pages[r])
BY DEF TypeOK, Live, Full

LEMMA GrowKeepsPages ==
    ASSUME PInv, NEW r, NEW t, NEW w, Grows(r, t, w)
    PROVE  PagesCover' /\ SharingIsCached' /\ CachedPagesMatch' /\ TreeClosed'
<1> USE DEF PInv
<1>1. /\ r \in Request /\ text[r] \in Seq(Token) /\ pages[r] \in Seq(Page)
      /\ t \in Seq(Token) /\ w \in Seq(Token)
  BY LiveFacts DEF Grows
<1>2. Live' = Live /\ Cached' = Cached /\ Live \subseteq Request
  BY DEF Grows, Live, Cached
<1>3. Len(t \o w) \in Nat /\ t \o w \in Seq(Token) BY <1>1
<1> DEFINE old == pages[r]  new == pages'[r]
<1>4. /\ new \in Seq(Page)
      /\ Len(new) >= Len(old) /\ Len(t \o w) <= Len(new) * PageSize
      /\ \A i \in 1 .. Len(old) : new[i] = old[i]
      /\ \A i \in (Len(old) + 1) .. Len(new) : new[i] \in FreePages
      /\ \A i, j \in (Len(old) + 1) .. Len(new) : new[i] = new[j] => i = j
  BY <1>1, <1>3, GrownFacts DEF Grows
<1>5. \A q \in Live : q # r => pages'[q] = pages[q] /\ Full(q)' = Full(q)
  BY <1>2 DEF Grows, Full
<1>6. Full(r)' = t \o w BY DEF Grows, Full
<1>7. \A q \in Live : \A i \in 1 .. Len(pages[q]) : pages[q][i] \notin FreePages
  BY FreeFacts, LiveFacts
<1>8. \A i \in 1 .. Len(new) :
        \/ i \in 1 .. Len(old) /\ new[i] = old[i]
        \/ i \in (Len(old) + 1) .. Len(new) /\ new[i] \in FreePages
  BY <1>1, <1>4
<1>9. r \in Live BY DEF Grows
<1> HIDE DEF old, new
<1>10. PagesCover'
  <2>1. \A i, j \in DOMAIN new : new[i] = new[j] => i = j
    <3> SUFFICES ASSUME NEW i \in 1 .. Len(new), NEW j \in 1 .. Len(new), new[i] = new[j]
                 PROVE  i = j
      BY <1>4
    <3>1. CASE i \in 1 .. Len(old) /\ j \in 1 .. Len(old)
      <4>1. i \in DOMAIN old /\ j \in DOMAIN old /\ old[i] = old[j]
        BY <3>1, <1>4, <1>1 DEF old
      <4> QED BY <4>1, <1>9 DEF PagesCover, old
    <3>2. CASE i \in 1 .. Len(old) /\ j \notin 1 .. Len(old)
      BY <3>2, <1>8, <1>7, <1>9 DEF old
    <3>3. CASE i \notin 1 .. Len(old) /\ j \in 1 .. Len(old)
      BY <3>3, <1>8, <1>7, <1>9 DEF old
    <3>4. CASE i \notin 1 .. Len(old) /\ j \notin 1 .. Len(old)
      BY <3>4, <1>4, <1>8
    <3> QED BY <3>1, <3>2, <3>3, <3>4
  <2>2. ASSUME NEW q \in Live
        PROVE  /\ Len(Full(q)') <= Len(pages'[q]) * PageSize
               /\ \A i, j \in DOMAIN pages'[q] : pages'[q][i] = pages'[q][j] => i = j
    <3>1. CASE q = r BY <3>1, <2>1, <1>4, <1>6 DEF new
    <3>2. CASE q # r BY <3>2, <1>5 DEF PagesCover
    <3> QED BY <3>1, <3>2
  <2> QED BY <2>2, <1>2 DEF PagesCover
<1>11. SharingIsCached'
  <2>1. ASSUME NEW q \in Live, q # r, NEW i \in DOMAIN new, NEW j \in DOMAIN pages[q],
               new[i] = pages[q][j]
        PROVE  new[i] \in Cached
    <3>1. i \in 1 .. Len(new) /\ j \in 1 .. Len(pages[q]) 
      <4>1. DOMAIN pages[q] = 1 .. Len(pages[q]) BY <2>1, LiveFacts
      <4> QED BY <4>1, <1>4, <2>1
    <3>2. new[i] \notin FreePages BY <3>1, <1>7, <2>1
    <3>3. i \in DOMAIN old /\ new[i] = old[i] BY <3>1, <3>2, <1>8, <1>1 DEF old
    <3> QED BY <3>3, <2>1, <1>9 DEF SharingIsCached, old
  <2> QED BY <2>1, <1>2, <1>5, <1>9 DEF SharingIsCached, new
<1>12. CachedPagesMatch'
  <2>1. ASSUME NEW i \in DOMAIN new, new[i] \in Cached
        PROVE  i <= FullPages(t) /\ cached[new[i]] = PagePrefix(t, i)
    <3>1. i \in 1 .. Len(new) BY <1>4
    <3>2. new[i] \notin FreePages BY <2>1 DEF FreePages
    <3>3. i \in DOMAIN old /\ new[i] = old[i] BY <3>1, <3>2, <1>8, <1>1 DEF old
    <3>4. i <= FullPages(text[r]) /\ cached[old[i]] = PagePrefix(text[r], i)
      BY <3>3, <2>1, <1>9 DEF CachedPagesMatch, old
    <3>5. i \in 1 .. FullPages(text[r]) /\ i * PageSize <= Len(text[r]) /\ i * PageSize \in Nat
      BY <3>1, <3>4, <1>1, PrefixFacts
    <3>6. PagePrefix(t, i) = PagePrefix(text[r], i)
      <4>1. PICK n \in Nat : n = Len(text[r]) BY <1>1
      <4>2. n \in 0 .. Len(t) /\ SubSeq(t, 1, n) = text[r]
        BY <4>1, <1>1 DEF Grows
      <4>3. SubSeq(SubSeq(t, 1, n), 1, i * PageSize) = SubSeq(t, 1, i * PageSize)
        BY <4>1, <4>2, <3>5, <1>1, PrefixOfPrefix
      <4> QED BY <4>2, <4>3 DEF PagePrefix
    <3>7. i * PageSize <= Len(t) BY <3>5, <1>1 DEF Grows
    <3> QED BY <3>1, <3>3, <3>4, <3>6, <3>7, <1>1, PrefixFacts
  <2>2. text'[r] = t /\ cached' = cached /\ \A q \in Live : q # r => text'[q] = text[q]
    BY <1>2 DEF Grows
  <2> QED BY <2>1, <2>2, <1>2, <1>5 DEF CachedPagesMatch, new
<1>13. TreeClosed'
  BY <1>2 DEF TreeClosed, Grows
<1> QED BY <1>10, <1>11, <1>12, <1>13

\* Different pages of one sequence stand for different prefixes.
LEMMA PrefixInjective ==
    ASSUME NEW t \in Seq(Token), NEW i \in 1 .. FullPages(t), NEW j \in 1 .. FullPages(t),
           PagePrefix(t, i) = PagePrefix(t, j)
    PROVE  i = j
<1>1. i * PageSize = j * PageSize /\ i \in Nat /\ j \in Nat
  BY PrefixFacts
<1>2. i * PageSize + 0 = j * PageSize + 0 /\ 0 \in 0 .. PageSize - 1 /\ i \in Int /\ j \in Int
  BY <1>1, PageOfGroups
<1> QED BY <1>2, PageOfGroups, SlotInjective

\* What an insertion does to the tree: it keeps every node and adds, for each
\* full page the tree lacked, the request's own page.
LEMMA InsertFacts ==
    ASSUME PInv, NEW r \in Live, cached' = InsertedTree(r)
    PROVE  /\ FullPages(text[r]) <= Len(pages[r])
           /\ cached' \in [Page -> Seq(Token)]
           /\ \A p \in Cached : p \in Cached' /\ cached'[p] = cached[p]
           /\ \A i \in 1 .. FullPages(text[r]) : ~InTree(r, i) =>
                pages[r][i] \in Cached' /\ cached'[pages[r][i]] = PagePrefix(text[r], i)
           /\ \A p \in Cached' : \/ p \in Cached
                                 \/ \E i \in 1 .. FullPages(text[r]) :
                                        ~InTree(r, i) /\ pages[r][i] = p
           /\ TreeClosed'
<1> USE DEF PInv
<1> DEFINE T == FullPages(text[r])
           Fresh(i, p) == pages[r][i] = p /\ ~InTree(r, i)
<1>1. /\ r \in Request /\ text[r] \in Seq(Token) /\ window[r] \in Seq(Token)
      /\ pages[r] \in Seq(Page) /\ DOMAIN pages[r] = 1 .. Len(pages[r])
      /\ Len(Full(r)) = Len(text[r]) + Len(window[r])
  BY LiveFacts
<1>2. T \in Nat /\ T * PageSize <= Len(text[r]) BY <1>1, PrefixFacts
<1>3. T <= Len(pages[r])
  <2>1. /\ Len(text[r]) <= Len(pages[r]) * PageSize
        /\ Len(pages[r]) \in Nat /\ PageSize \in Nat \ {0}
    <3>1. Len(Full(r)) <= Len(pages[r]) * PageSize BY DEF PagesCover
    <3>2. PICK n \in Nat : n = Len(pages[r]) BY <1>1
    <3>3. n * PageSize \in Nat /\ PageSize \in Nat \ {0} BY PageOfGroups
    <3>4. Len(text[r]) \in Nat /\ Len(window[r]) \in Nat BY <1>1
    <3>5. Len(text[r]) + Len(window[r]) <= n * PageSize BY <3>1, <3>2, <1>1
    <3>6. Len(text[r]) <= n * PageSize
      <4>1. \A x, y, z \in Nat : x + y <= z => x <= z OBVIOUS
      <4> QED BY <4>1, <3>3, <3>4, <3>5
    <3> QED BY <3>2, <3>3, <3>6
  <2>2. SUFFICES ASSUME Len(pages[r]) < T PROVE FALSE
    BY <2>1, <1>2
  <2>3. Len(pages[r]) * PageSize + PageSize <= T * PageSize
    BY <2>1, <2>2, <1>2, MulLess
  <2> QED BY <2>1, <2>3, <1>2
<1>4. \A i \in 1 .. T : /\ pages[r][i] \in Page
                        /\ PagePrefix(text[r], i) \in Seq(Token)
                        /\ PagePrefix(text[r], i) # <<>>
  BY <1>1, <1>2, <1>3, PrefixFacts
<1>5. \A i, j \in 1 .. T : pages[r][i] = pages[r][j] => i = j
  BY <1>1, <1>2, <1>3 DEF PagesCover
<1>6. \A p \in Page :
        cached'[p] = IF \E i \in 1 .. T : Fresh(i, p)
                     THEN PagePrefix(text[r], CHOOSE i \in 1 .. T : Fresh(i, p))
                     ELSE cached[p]
  BY DEF InsertedTree
<1>7. \A i \in 1 .. T : pages[r][i] \in Cached => InTree(r, i)
  BY <1>1, <1>2, <1>3 DEF CachedPagesMatch, InTree
<1>8. ASSUME NEW p \in Cached PROVE p \in Cached' /\ cached'[p] = cached[p]
  <2>1. p \in Page /\ cached[p] # <<>> BY DEF Cached
  <2>2. ~ \E i \in 1 .. T : Fresh(i, p) BY <1>7
  <2> QED BY <2>1, <2>2, <1>6 DEF Cached
<1>9. ASSUME NEW i \in 1 .. T, ~InTree(r, i)
      PROVE  pages[r][i] \in Cached' /\ cached'[pages[r][i]] = PagePrefix(text[r], i)
  <2>1. Fresh(i, pages[r][i]) BY <1>9
  <2>2. (CHOOSE k \in 1 .. T : Fresh(k, pages[r][i])) = i
    BY <2>1, <1>5
  <2>3. cached'[pages[r][i]] = PagePrefix(text[r], i) BY <2>1, <2>2, <1>4, <1>6
  <2> QED BY <2>3, <1>4 DEF Cached
<1>10. \A p \in Cached' : p \in Cached \/ \E i \in 1 .. T : ~InTree(r, i) /\ pages[r][i] = p
  BY <1>6 DEF Cached
<1>11. cached' \in [Page -> Seq(Token)]
  <2>1. ASSUME NEW p \in Page PROVE cached'[p] \in Seq(Token)
    <3>1. CASE \E i \in 1 .. T : Fresh(i, p)
      <4>1. (CHOOSE i \in 1 .. T : Fresh(i, p)) \in 1 .. T BY <3>1
      <4> QED BY <4>1, <3>1, <1>4, <1>6
    <3>2. CASE ~ \E i \in 1 .. T : Fresh(i, p)
      BY <3>2, <1>6 DEF TypeOK
    <3> QED BY <3>1, <3>2
  <2>2. cached' = [p \in Page |-> cached'[p]] BY DEF InsertedTree
  <2> QED BY <2>1, <2>2
<1>12. TreeClosed'
  <2>1. ASSUME NEW p \in Cached'
        PROVE  /\ Len(cached'[p]) % PageSize = 0
               /\ \A i \in 1 .. FullPages(cached'[p]) :
                    \E q \in Cached' : cached'[q] = PagePrefix(cached'[p], i)
    <3>1. CASE p \in Cached
      BY <3>1, <1>8 DEF TreeClosed
    <3>2. CASE \E i \in 1 .. T : ~InTree(r, i) /\ pages[r][i] = p
      <4>1. PICK i \in 1 .. T : ~InTree(r, i) /\ pages[r][i] = p BY <3>2
      <4>2. cached'[p] = PagePrefix(text[r], i) BY <4>1, <1>9
      <4>3. /\ FullPages(cached'[p]) = i /\ Len(cached'[p]) % PageSize = 0
            /\ \A j \in 1 .. i : PagePrefix(cached'[p], j) = PagePrefix(text[r], j)
        BY <4>2, <1>1, PrefixFacts
      <4>4. ASSUME NEW j \in 1 .. i
            PROVE  \E q \in Cached' : cached'[q] = PagePrefix(text[r], j)
        <5>1. j \in 1 .. T BY <1>2
        <5>2. CASE InTree(r, j) BY <5>2, <1>8 DEF InTree
        <5>3. CASE ~InTree(r, j) BY <5>1, <5>3, <1>9
        <5> QED BY <5>2, <5>3
      <4> QED BY <4>3, <4>4
    <3> QED BY <3>1, <3>2, <1>10
  <2> QED BY <2>1 DEF TreeClosed
<1> QED BY <1>3, <1>8, <1>9, <1>10, <1>11, <1>12

\* A forward leaves the page discipline intact; t and w are the committed
\* tokens and the window it leaves behind.
LEMMA GrowKeepsPInv ==
    ASSUME PInv, NEW r, NEW t, NEW w, Grows(r, t, w), TypeOK', RequestShape'
    PROVE  PInv'
BY GrowKeepsPages DEF PInv

LEMMA AdmitKeepsPInv ==
    ASSUME PInv, NEW r \in Request, Admit(r)
    PROVE  PInv'
<1> USE DEF PInv
<1>1. PICK c \in {<<>>} \cup {cached[p] : p \in Cached} :
        /\ text' = [text EXCEPT ![r] = c]
        /\ pages' = [pages EXCEPT ![r] =
                        [i \in 1 .. FullPages(c) |-> Node(PagePrefix(c, i))]]
  BY DEF Admit
<1> DEFINE T == FullPages(c)
           row == [i \in 1 .. T |-> Node(PagePrefix(c, i))]
<1>2. c \in Seq(Token)
  <2>1. CASE c = <<>> BY <2>1
  <2>2. CASE \E p \in Cached : c = cached[p] BY <2>2 DEF TypeOK, Cached
  <2> QED BY <2>1, <2>2
<1>3. T \in Nat /\ T * PageSize <= Len(c) BY <1>2, PrefixFacts
<1>4. Len(c) % PageSize = 0 /\ \A i \in 1 .. T : \E q \in Cached : cached[q] = PagePrefix(c, i)
  <2>1. CASE c = <<>>
    <3>1. Len(c) = 0 /\ 0 = 0 * PageSize + 0 BY <2>1, PageOfGroups
    <3>2. (0 * PageSize + 0) % PageSize = 0 /\ (0 * PageSize + 0) \div PageSize = 0
      <4>1. 0 \in Int /\ 0 \in 0 .. PageSize - 1 BY PageOfGroups
      <4> QED BY <4>1, PageOfGroups, DivUnique
    <3>3. T = 0 BY <3>1, <3>2 DEF FullPages
    <3> QED BY <3>1, <3>2, <3>3
  <2>2. CASE \E p \in Cached : c = cached[p] BY <2>2 DEF TreeClosed
  <2> QED BY <2>1, <2>2
<1>5. \A i \in 1 .. T : row[i] \in Cached /\ row[i] \in Page /\ cached[row[i]] = PagePrefix(c, i)
  BY <1>4, NodeFacts
<1>6. row \in Seq(Page) /\ Len(row) = T /\ DOMAIN row = 1 .. T BY <1>3, <1>5
<1>7. /\ phase[r] = "free" /\ r # 0 /\ phase' = [phase EXCEPT ![r] = "prefill"]
      /\ window' = window /\ cached' = cached /\ ring' = ring /\ comp' = comp
  BY DEF Admit
<1> HIDE DEF row
<1>8. pages' = [pages EXCEPT ![r] = row] BY <1>1 DEF row
<1>9. TypeOK' BY <1>1, <1>2, <1>6, <1>7, <1>8 DEF TypeOK
<1>10. window[r] = <<>> BY <1>7 DEF RequestShape
<1>11. RequestShape'
  BY <1>1, <1>4, <1>7, <1>8, <1>10 DEF RequestShape, TypeOK
<1>12. /\ Live' = Live \cup {r} /\ Cached' = Cached /\ r \notin Live
       /\ \A q \in Live : /\ pages'[q] = pages[q] /\ text'[q] = text[q]
                          /\ Full(q)' = Full(q) /\ q \in Request
       /\ pages'[r] = row /\ text'[r] = c
  BY <1>1, <1>7, <1>8 DEF Live, Cached, Full, TypeOK
<1>13. Full(r)' = c BY <1>2, <1>7, <1>10, <1>12 DEF Full, TypeOK
<1>14. PagesCover'
  <2>1. Len(c) <= T * PageSize
    <3>1. Len(c) = (Len(c) \div PageSize) * PageSize + (Len(c) % PageSize)
      <4>1. Len(c) \in Int /\ PageSize \in Nat \ {0} BY <1>2, PageOfGroups
      <4> QED BY <4>1, DivMod
    <3> QED BY <3>1, <1>3, <1>4, PageOfGroups DEF FullPages
  <2>2. \A i, j \in 1 .. T : row[i] = row[j] => i = j
    BY <1>2, <1>5, PrefixInjective
  <2> QED BY <2>1, <2>2, <1>6, <1>12, <1>13 DEF PagesCover
<1>15. SharingIsCached'
  BY <1>5, <1>6, <1>12 DEF SharingIsCached
<1>16. CachedPagesMatch'
  BY <1>5, <1>6, <1>7, <1>12 DEF CachedPagesMatch
<1>17. TreeClosed' BY <1>7, <1>12 DEF TreeClosed
<1> QED BY <1>9, <1>11, <1>14, <1>15, <1>16, <1>17

LEMMA EvictKeepsPInv ==
    ASSUME PInv, NEW p \in Page, Evict(p)
    PROVE  PInv'
<1> USE DEF PInv
<1>1. /\ p \in Cached /\ p \notin InUse
      /\ cached' = [cached EXCEPT ![p] = <<>>]
      /\ UNCHANGED <<phase, text, window, pages, ring, comp>>
      /\ \A q \in Cached \ {p} : Len(cached[q]) > Len(cached[p])
                                 => SubSeq(cached[q], 1, Len(cached[p])) # cached[p]
  BY DEF Evict
<1>2. TypeOK' BY <1>1 DEF TypeOK
<1>3. RequestShape' BY <1>1 DEF RequestShape
<1>4. Live' = Live /\ \A r \in Request : Full(r)' = Full(r) BY <1>1 DEF Live, Full
<1>5. /\ Cached' = Cached \ {p}
      /\ \A q \in Cached' : cached'[q] = cached[q]
  BY <1>1 DEF Cached, TypeOK
<1>6. \A r \in Live : \A i \in DOMAIN pages[r] : pages[r][i] # p
  BY <1>1 DEF InUse
<1>7. PagesCover' BY <1>1, <1>4 DEF PagesCover, Live
<1>8. SharingIsCached' BY <1>1, <1>4, <1>5, <1>6 DEF SharingIsCached
<1>9. CachedPagesMatch' BY <1>1, <1>4, <1>5 DEF CachedPagesMatch
<1>10. TreeClosed'
  <2>1. ASSUME NEW q \in Cached', NEW i \in 1 .. FullPages(cached[q])
        PROVE  \E x \in Cached' : cached[x] = PagePrefix(cached[q], i)
    <3>1. PICK x \in Cached : cached[x] = PagePrefix(cached[q], i)
      BY <1>5, <2>1 DEF TreeClosed
    <3>2. CASE x # p BY <3>1, <3>2, <1>5
    <3>3. CASE x = p
      <4>1. cached[q] \in Seq(Token) /\ q \in Cached \ {p} BY <1>5 DEF TypeOK, Cached
      <4>2. /\ Len(cached[p]) = i * PageSize /\ i * PageSize \in Nat
            /\ i * PageSize <= Len(cached[q])
        BY <3>1, <3>3, <4>1, PrefixFacts
      <4>3. SubSeq(cached[q], 1, Len(cached[p])) = cached[p]
        BY <3>1, <3>3, <4>2 DEF PagePrefix
      <4>4. Len(cached[q]) = i * PageSize
        <5>1. ~ (Len(cached[q]) > Len(cached[p])) BY <1>1, <4>1, <4>3
        <5>2. Len(cached[q]) \in Nat BY <4>1
        <5> HIDE DEF PInv
        <5> QED BY <5>1, <5>2, <4>2
      <4>5. cached[q] = PagePrefix(cached[q], i) BY <4>1, <4>4 DEF PagePrefix
      <4> QED BY <4>5
    <3> QED BY <3>2, <3>3
  <2> QED BY <2>1, <1>5 DEF TreeClosed
<1> QED BY <1>2, <1>3, <1>7, <1>8, <1>9, <1>10

\* What a paged forward leaves behind, apart from the contents of its writes.
LEMMA PagedForwardFacts ==
    ASSUME TypeOK, NEW r \in Request, NEW t \in Seq(Token), NEW n \in 0 .. Len(t),
           PagedForward(r, t, n)
    PROVE  /\ pages' \in [Request -> Seq(Page)] /\ pages'[r] \in Grown(pages[r], Len(t))
           /\ \A q \in Request : q # r => pages'[q] = pages[q]
           /\ ring' \in [RingIndex -> Seq(Token)]
           /\ comp' \in [CompIndex -> [0 .. Ratio - 1 -> Seq(Token)]]
<1> DEFINE value == [g \in Completed(t, n) |-> RingGroup(PagedRing(r, t, n), r, g)]
<1>1. PICK tbl \in Grown(pages[r], Len(t)) :
        /\ pages' = [pages EXCEPT ![r] = tbl]
        /\ ring' = PagedRing(r, t, n)
        /\ comp' = Compress(tbl, t, n, value)
  BY DEF PagedForward
<1>2. tbl \in Seq(Page)
  <2>1. pages[r] \in Seq(Page) /\ Len(t) \in Nat BY DEF TypeOK
  <2> QED BY <2>1, GrownFacts
<1>3. pages' \in [Request -> Seq(Page)] /\ pages'[r] = tbl
      /\ \A q \in Request : q # r => pages'[q] = pages[q]
  BY <1>1, <1>2 DEF TypeOK
<1>4. PagedRing(r, t, n) \in [RingIndex -> Seq(Token)] BY PagedRingType
<1>5. \A g \in Completed(t, n) : value[g] \in [0 .. Ratio - 1 -> Seq(Token)]
  BY <1>4, CompletedFacts, RingGroupType
<1> HIDE DEF value
<1>6. comp' \in [CompIndex -> [0 .. Ratio - 1 -> Seq(Token)]]
  BY <1>1, <1>5, CompressType
<1> QED BY <1>1, <1>3, <1>4, <1>6

\* The same of an extend chunk.
LEMMA ExtendForwardFacts ==
    ASSUME TypeOK, NEW r \in Request, NEW chunk \in Seq(Token), NEW prefix \in Int,
           ExtendForward(r, prefix, chunk)
    PROVE  /\ pages' \in [Request -> Seq(Page)]
           /\ pages'[r] \in Grown(pages[r], Len(text[r] \o chunk))
           /\ \A q \in Request : q # r => pages'[q] = pages[q]
           /\ ring' \in [RingIndex -> Seq(Token)]
           /\ comp' \in [CompIndex -> [0 .. Ratio - 1 -> Seq(Token)]]
<1> DEFINE t == text[r] \o chunk
           n == Len(chunk)
           value == [g \in Completed(t, n) |->
                       [i \in 0 .. Ratio - 1 |-> Key(t, prefix + (g * Ratio - prefix) + i)]]
<1>1. PICK tbl \in Grown(pages[r], Len(t)) :
        /\ pages' = [pages EXCEPT ![r] = tbl]
        /\ ring' = ExtendRing(r, t, n)
        /\ comp' = Compress(tbl, t, n, value)
  BY DEF ExtendForward
<1>2. t \in Seq(Token) /\ n \in 0 .. Len(t) /\ text[r] \in Seq(Token) BY DEF TypeOK
<1> HIDE DEF t, n
<1>3. tbl \in Seq(Page)
  <2>1. pages[r] \in Seq(Page) /\ Len(t) \in Nat BY <1>2 DEF TypeOK
  <2> QED BY <2>1, GrownFacts
<1>4. pages' \in [Request -> Seq(Page)] /\ pages'[r] = tbl
      /\ \A q \in Request : q # r => pages'[q] = pages[q]
  BY <1>1, <1>3 DEF TypeOK
<1>5. ring' \in [RingIndex -> Seq(Token)] BY <1>1, <1>2, ExtendRingType
<1>6. \A g \in Completed(t, n) : value[g] \in [0 .. Ratio - 1 -> Seq(Token)]
  <2>1. ASSUME NEW g \in Completed(t, n), NEW i \in 0 .. Ratio - 1
        PROVE  Key(t, prefix + (g * Ratio - prefix) + i) \in Seq(Token)
    <3>1. /\ g * Ratio \in Nat /\ (g + 1) * Ratio = g * Ratio + Ratio
          /\ (g + 1) * Ratio <= Len(t) /\ Ratio \in Nat
      BY <1>2, CompletedFacts, PageOfGroups
    <3>2. PICK x \in Nat : x = g * Ratio BY <3>1
    <3>3. prefix + (x - prefix) + i \in 0 .. Len(t) - 1 BY <3>1, <3>2, <1>2
    <3> QED BY <3>2, <3>3, <1>2, KeyType
  <2> QED BY <2>1
<1> HIDE DEF value
<1>7. comp' \in [CompIndex -> [0 .. Ratio - 1 -> Seq(Token)]]
  BY <1>1, <1>6, CompressType
<1> QED BY <1>1, <1>4, <1>5, <1>7 DEF t

LEMMA ExtendKeepsPInv ==
    ASSUME PInv, NEW r \in Request, Extend(r)
    PROVE  /\ PInv'
           /\ r # 0 /\ window[r] = <<>> /\ Len(text[r]) % Ratio = 0
           /\ \E x \in Seq(Token) : /\ Grows(r, text[r] \o x, <<>>)
                                    /\ ExtendForward(r, Len(text[r]), x)
<1> USE DEF PInv
<1>1. PICK chunk \in UNION {Continuations(text[r], n) : n \in StreamLengths} :
        /\ ExtendForward(r, Len(text[r]), chunk)
        /\ text' = [text EXCEPT ![r] = @ \o chunk]
        /\ \/ phase' = [phase EXCEPT ![r] = "decode"]
           \/ /\ Len(text[r] \o chunk) % PageSize = 0
              /\ phase' = phase
  BY DEF Extend
<1>2. phase[r] = "prefill" /\ window' = window /\ cached' = cached /\ Len(text[r]) % Ratio = 0
  BY DEF Extend
<1>3. text[r] \in Seq(Token) /\ window[r] = <<>> /\ r \in Live /\ r # 0
  BY <1>2 DEF TypeOK, RequestShape, Live
<1>4. chunk \in Seq(Token) BY <1>3, ContinuationFacts, StreamLengthNat
<1>5. /\ pages' \in [Request -> Seq(Page)]
      /\ pages'[r] \in Grown(pages[r], Len(text[r] \o chunk))
      /\ \A q \in Request : q # r => pages'[q] = pages[q]
      /\ ring' \in [RingIndex -> Seq(Token)]
      /\ comp' \in [CompIndex -> [0 .. Ratio - 1 -> Seq(Token)]]
  <2>1. Len(text[r]) \in Int BY <1>3
  <2> QED BY <1>1, <1>4, <2>1, ExtendForwardFacts
<1> DEFINE t == text[r] \o chunk
<1>6. t \in Seq(Token) /\ Len(text[r]) <= Len(t) /\ SubSeq(t, 1, Len(text[r])) = text[r]
      /\ t \o <<>> = t
  BY <1>3, <1>4
<1> HIDE DEF t
<1>7. text' = [text EXCEPT ![r] = t] /\ text' \in [Request -> Seq(Token)]
  BY <1>1, <1>6 DEF TypeOK, t
<1>8. TypeOK' BY <1>1, <1>2, <1>5, <1>7 DEF TypeOK
<1>9. /\ \A q \in Request : phase'[q] = "free" <=> phase[q] = "free"
      /\ phase'[r] \in {"prefill", "decode"}
      /\ \A q \in Request : q # r => phase'[q] = phase[q]
      /\ phase'[r] = "prefill" => Len(t) % PageSize = 0
  BY <1>1, <1>2 DEF TypeOK, t
<1>10. Grows(r, t, <<>>)
  <2>1. \A q \in Request : q # r => text'[q] = text[q] BY <1>7 DEF TypeOK
  <2>2. text'[r] = t BY <1>7 DEF TypeOK
  <2>3. pages'[r] \in Grown(pages[r], Len(t \o <<>>)) BY <1>5, <1>6 DEF t
  <2>4. <<>> \in Seq(Token) OBVIOUS
  <2> QED BY <1>2, <1>3, <1>5, <1>6, <1>9, <2>1, <2>2, <2>3, <2>4 DEF Grows
<1>11. RequestShape'
  BY <1>2, <1>3, <1>5, <1>7, <1>9, SMTT(40) DEF RequestShape, TypeOK
<1>12. \E x \in Seq(Token) : /\ Grows(r, text[r] \o x, <<>>)
                            /\ ExtendForward(r, Len(text[r]), x)
  BY <1>1, <1>4, <1>10 DEF t
<1> QED BY <1>2, <1>3, <1>8, <1>10, <1>11, <1>12, GrowKeepsPInv

LEMMA DecodeKeepsPInv ==
    ASSUME PInv, NEW r \in Request, Decode(r)
    PROVE  /\ PInv' /\ window[r] = <<>>
           /\ \E x \in Seq(Token) : /\ Len(x) = 1 /\ Grows(r, text[r] \o x, <<>>)
                                    /\ PagedForward(r, text[r] \o x, Len(x))
<1> USE DEF PInv
<1>1. PICK tok \in Continuations(text[r], 1) :
        /\ PagedForward(r, text[r] \o tok, 1)
        /\ text' = [text EXCEPT ![r] = @ \o tok]
  BY DEF Decode
<1>2. /\ phase[r] = "decode" /\ phase' = phase /\ window' = window /\ cached' = cached
      /\ DraftTokens = 0
  BY DEF Decode
<1>3. text[r] \in Seq(Token) /\ window[r] = <<>> /\ r \in Live /\ r # 0
  BY <1>2 DEF TypeOK, RequestShape, Live
<1>4. tok \in Seq(Token) /\ Len(tok) = 1 BY <1>3, ContinuationFacts
<1> DEFINE t == text[r] \o tok
<1>5. /\ t \in Seq(Token) /\ Len(text[r]) <= Len(t) /\ SubSeq(t, 1, Len(text[r])) = text[r]
      /\ t \o <<>> = t /\ 1 \in 0 .. Len(t)
  <2>1. t \in Seq(Token) /\ Len(t) = Len(text[r]) + 1 /\ Len(text[r]) \in Nat
    <3>1. t \in Seq(Token) /\ Len(t) = Len(text[r]) + Len(tok)
      BY <1>3, <1>4, ConcatFacts
    <3>2. Len(text[r]) \in Nat BY <1>3
    <3> QED BY <3>1, <3>2, <1>4
  <2>2. SubSeq(t, 1, Len(text[r])) = text[r] /\ t \o <<>> = t BY <1>3, <1>4
  <2> HIDE DEF t
  <2> QED BY <2>1, <2>2
<1> HIDE DEF t
<1>6. /\ pages' \in [Request -> Seq(Page)] /\ pages'[r] \in Grown(pages[r], Len(t))
      /\ \A q \in Request : q # r => pages'[q] = pages[q]
      /\ ring' \in [RingIndex -> Seq(Token)]
      /\ comp' \in [CompIndex -> [0 .. Ratio - 1 -> Seq(Token)]]
  BY <1>1, <1>5, PagedForwardFacts DEF t
<1>7. text' = [text EXCEPT ![r] = t] /\ text' \in [Request -> Seq(Token)] /\ text'[r] = t
  BY <1>1, <1>5 DEF TypeOK, t
<1>8. TypeOK' BY <1>2, <1>6, <1>7 DEF TypeOK
<1>9. Grows(r, t, <<>>)
  BY <1>2, <1>3, <1>5, <1>6, <1>7 DEF Grows, TypeOK
<1>10. RequestShape'
  BY <1>2, <1>3, <1>6, <1>7 DEF RequestShape, TypeOK
<1>11. \E x \in Seq(Token) : /\ Len(x) = 1 /\ Grows(r, text[r] \o x, <<>>)
                            /\ PagedForward(r, text[r] \o x, Len(x))
  BY <1>1, <1>4, <1>9 DEF t
<1> QED BY <1>3, <1>8, <1>9, <1>10, <1>11, GrowKeepsPInv

LEMMA VerifyKeepsPInv ==
    ASSUME PInv, NEW r \in Request, Verify(r)
    PROVE  /\ PInv' /\ window[r] = <<>> /\ DraftTokens \in 1 .. VerifyLimit
           /\ \E x \in Seq(Token) : /\ Len(x) = DraftTokens /\ Grows(r, text[r], x)
                                    /\ PagedForward(r, text[r] \o x, Len(x))
<1> USE DEF PInv
<1>1. PICK w \in Continuations(text[r], DraftTokens) :
        /\ PagedForward(r, text[r] \o w, DraftTokens)
        /\ window' = [window EXCEPT ![r] = w]
  BY DEF Verify
<1>2. /\ phase[r] = "decode" /\ phase' = phase /\ text' = text /\ cached' = cached
      /\ DraftTokens \in 1 .. VerifyLimit /\ window[r] = <<>>
  BY DEF Verify
<1>3. text[r] \in Seq(Token) /\ r \in Live /\ r # 0
  BY <1>2 DEF TypeOK, RequestShape, Live
<1>4. w \in Seq(Token) /\ Len(w) = DraftTokens /\ DraftTokens \in Nat
  BY <1>3, QsaAssumption, ContinuationFacts
<1> DEFINE t == text[r]
<1>5. /\ t \o w \in Seq(Token) /\ DraftTokens \in 0 .. Len(t \o w)
      /\ SubSeq(t, 1, Len(text[r])) = text[r] /\ Len(text[r]) <= Len(t)
  BY <1>3, <1>4
<1>6. /\ pages' \in [Request -> Seq(Page)] /\ pages'[r] \in Grown(pages[r], Len(t \o w))
      /\ \A q \in Request : q # r => pages'[q] = pages[q]
      /\ ring' \in [RingIndex -> Seq(Token)]
      /\ comp' \in [CompIndex -> [0 .. Ratio - 1 -> Seq(Token)]]
  BY <1>1, <1>5, PagedForwardFacts
<1>7. window' \in [Request -> Seq(Token)] /\ window'[r] = w
  BY <1>1, <1>4 DEF TypeOK
<1>8. TypeOK' BY <1>2, <1>6, <1>7 DEF TypeOK
<1>9. Grows(r, t, w)
  BY <1>1, <1>2, <1>3, <1>4, <1>5, <1>6, <1>7 DEF Grows, TypeOK
<1>10. RequestShape'
  BY <1>1, <1>2, <1>3, <1>4, <1>6, <1>7 DEF RequestShape, TypeOK
<1>11. \E x \in Seq(Token) : /\ Len(x) = DraftTokens /\ Grows(r, text[r], x)
                            /\ PagedForward(r, text[r] \o x, Len(x))
  BY <1>1, <1>4, <1>9
<1> QED BY <1>2, <1>8, <1>9, <1>10, <1>11, GrowKeepsPInv

LEMMA AcceptKeepsPInv ==
    ASSUME PInv, NEW r \in Request, Accept(r)
    PROVE  PInv'
<1> USE DEF PInv
<1>1. PICK k \in 1 .. Len(window[r]) : text' = [text EXCEPT ![r] = @ \o SubSeq(window[r], 1, k)]
  BY DEF Accept
<1>2. /\ window[r] # <<>> /\ window' = [window EXCEPT ![r] = <<>>]
      /\ UNCHANGED <<phase, pages, cached, ring, comp>>
  BY DEF Accept
<1>3. /\ text[r] \in Seq(Token) /\ window[r] \in Seq(Token) /\ phase[r] = "decode"
      /\ r \in Live /\ r # 0
  BY <1>2 DEF TypeOK, RequestShape, Live
<1> DEFINE t == text[r] \o SubSeq(window[r], 1, k)
<1>4. /\ t \in Seq(Token) /\ Len(t) = Len(text[r]) + k
      /\ Len(Full(r)) = Len(text[r]) + Len(window[r])
      /\ Len(t) <= Len(Full(r)) /\ Len(t) \in Nat /\ Len(Full(r)) \in Nat
      /\ SubSeq(t, 1, Len(text[r])) = text[r]
      /\ t \o <<>> = t
  <2>1. /\ SubSeq(window[r], 1, k) \in Seq(Token) /\ Len(SubSeq(window[r], 1, k)) = k
        /\ k \in Nat /\ k <= Len(window[r]) /\ Len(window[r]) \in Nat /\ Len(text[r]) \in Nat
    BY <1>3
  <2>2. t \in Seq(Token) /\ Len(t) = Len(text[r]) + k BY <2>1, <1>3
  <2>3. Len(Full(r)) = Len(text[r]) + Len(window[r]) BY <1>3 DEF Full
  <2>4. SubSeq(t, 1, Len(text[r])) = text[r] BY <2>1, <1>3
  <2>5. t \o <<>> = t BY <2>2
  <2>6. Len(t) <= Len(Full(r)) /\ Len(t) \in Nat /\ Len(Full(r)) \in Nat
    <3>1. \A x, y, z \in Nat : y <= z => x + y <= x + z /\ x + y \in Nat /\ x + z \in Nat
      OBVIOUS
    <3> HIDE DEF t
    <3> QED BY <3>1, <2>1, <2>2, <2>3
  <2> QED BY <2>2, <2>3, <2>4, <2>5, <2>6
<1>5. /\ text' = [text EXCEPT ![r] = t] /\ text' \in [Request -> Seq(Token)] /\ text'[r] = t
      /\ \A q \in Request : q # r => text'[q] = text[q]
  BY <1>1, <1>4 DEF TypeOK
<1> HIDE DEF t
<1>6. TypeOK' BY <1>2, <1>5 DEF TypeOK
<1>7. RequestShape' BY <1>2, <1>3, <1>5 DEF RequestShape, TypeOK
<1>8. Live' = Live /\ Cached' = Cached
      /\ \A q \in Live : /\ pages'[q] = pages[q] /\ cached' = cached
                         /\ q # r => text'[q] = text[q] /\ Full(q)' = Full(q)
  BY <1>2, <1>5 DEF Live, Cached, Full, TypeOK
<1>9. Full(r)' = t BY <1>2, <1>3, <1>4, <1>5 DEF Full, TypeOK
<1>10. PagesCover'
  <2>1. Len(Full(r)) <= Len(pages[r]) * PageSize BY <1>3 DEF PagesCover
  <2>2. Len(pages[r]) * PageSize \in Nat
    <3>1. pages[r] \in Seq(Page) BY <1>3, LiveFacts
    <3>2. PICK n \in Nat : n = Len(pages[r]) BY <3>1
    <3>3. n * PageSize \in Nat BY PageOfGroups
    <3> QED BY <3>2, <3>3
  <2>3. Len(t) <= Len(pages[r]) * PageSize
    <3>1. \A x, y, z \in Nat : x <= y /\ y <= z => x <= z OBVIOUS
    <3> QED BY <3>1, <2>1, <2>2, <1>4
  <2> QED BY <2>3, <1>8, <1>9 DEF PagesCover
<1>11. SharingIsCached' BY <1>8 DEF SharingIsCached
<1>12. CachedPagesMatch'
  <2>1. ASSUME NEW i \in DOMAIN pages[r], pages[r][i] \in Cached
        PROVE  i <= FullPages(t) /\ cached[pages[r][i]] = PagePrefix(t, i)
    <3>1. i \in Nat /\ i # 0
      <4>1. DOMAIN pages[r] = 1 .. Len(pages[r]) BY <1>3, LiveFacts
      <4> QED BY <4>1
    <3>2. i <= FullPages(text[r]) /\ cached[pages[r][i]] = PagePrefix(text[r], i)
      BY <2>1, <1>3 DEF CachedPagesMatch
    <3>3. i * PageSize <= Len(text[r]) /\ i * PageSize \in Nat
      BY <3>1, <3>2, <1>3, PrefixFacts
    <3>4. SubSeq(t, 1, i * PageSize) = SubSeq(text[r], 1, i * PageSize)
      <4>1. PICK m \in 0 .. Len(text[r]) : m = i * PageSize BY <3>3, <1>3
      <4>2. SubSeq(window[r], 1, k) \in Seq(Token) BY <1>3
      <4> QED BY <4>1, <4>2, <1>3, PrefixOfConcat DEF t
    <3>5. i * PageSize <= Len(t) BY <3>3, <1>4, <1>3
    <3> QED BY <3>1, <3>2, <3>4, <3>5, <1>4, PrefixFacts DEF PagePrefix
  <2> QED BY <2>1, <1>5, <1>8 DEF CachedPagesMatch
<1>13. TreeClosed' BY <1>2, <1>8 DEF TreeClosed
<1> QED BY <1>6, <1>7, <1>10, <1>11, <1>12, <1>13

LEMMA ReleaseKeepsPInv ==
    ASSUME PInv, NEW r \in Request, Release(r)
    PROVE  PInv'
<1> USE DEF PInv
<1>1. /\ phase' = [phase EXCEPT ![r] = "free"]
      /\ text' = [text EXCEPT ![r] = <<>>]
      /\ pages' = [pages EXCEPT ![r] = <<>>]
      /\ cached' = InsertedTree(r)
      /\ UNCHANGED <<window, ring, comp>>
      /\ r \in Live /\ window[r] = <<>>
  BY DEF Release, Live
<1>2. /\ cached' \in [Page -> Seq(Token)] /\ TreeClosed'
      /\ \A p \in Cached : p \in Cached' /\ cached'[p] = cached[p]
      /\ \A p \in Cached' : \/ p \in Cached
                            \/ \E i \in 1 .. FullPages(text[r]) :
                                   ~InTree(r, i) /\ pages[r][i] = p
      /\ FullPages(text[r]) <= Len(pages[r])
  BY <1>1, InsertFacts
<1>3. <<>> \in Seq(Token) /\ <<>> \in Seq(Page) OBVIOUS
<1>4. TypeOK' BY <1>1, <1>2, <1>3 DEF TypeOK
<1>5. RequestShape' BY <1>1 DEF RequestShape, TypeOK
<1>6. /\ Live' = Live \ {r}
      /\ \A q \in Live' : /\ pages'[q] = pages[q] /\ text'[q] = text[q]
                          /\ Full(q)' = Full(q)
  BY <1>1 DEF Live, Full, TypeOK
<1>7. PagesCover' BY <1>6 DEF PagesCover
<1>8. SharingIsCached' BY <1>2, <1>6 DEF SharingIsCached
<1>9. CachedPagesMatch'
  <2>1. ASSUME NEW q \in Live, q # r, NEW i \in DOMAIN pages[q], pages[q][i] \in Cached'
        PROVE  pages[q][i] \in Cached
    <3>1. SUFFICES ASSUME NEW j \in 1 .. FullPages(text[r]), ~InTree(r, j),
                          pages[r][j] = pages[q][i]
                   PROVE  pages[q][i] \in Cached
      BY <2>1, <1>2
    <3>2. FullPages(text[r]) \in Nat /\ DOMAIN pages[r] = 1 .. Len(pages[r])
          /\ pages[r] \in Seq(Page)
      BY <1>1, LiveFacts, PrefixFacts
    <3>3. j \in DOMAIN pages[r] BY <3>2, <1>2
    <3> QED BY <3>1, <3>3, <2>1, <1>1 DEF SharingIsCached
  <2> QED BY <2>1, <1>2, <1>6 DEF CachedPagesMatch
<1> QED BY <1>2, <1>4, <1>5, <1>7, <1>8, <1>9

LEMMA PublishKeepsPInv ==
    ASSUME PInv, NEW r \in Request, Publish(r)
    PROVE  PInv'
<1> USE DEF PInv
<1>1. /\ pages' = [pages EXCEPT ![r] = InsertedPages(r)]
      /\ cached' = InsertedTree(r)
      /\ UNCHANGED <<phase, text, window, ring, comp>>
      /\ r \in Live /\ window[r] = <<>>
  BY DEF Publish, Live
<1> DEFINE T == FullPages(text[r])  new == InsertedPages(r)  old == pages[r]
<1>2. /\ T <= Len(old)
      /\ cached' \in [Page -> Seq(Token)] /\ TreeClosed'
      /\ \A p \in Cached : p \in Cached' /\ cached'[p] = cached[p]
      /\ \A i \in 1 .. T : ~InTree(r, i) =>
            old[i] \in Cached' /\ cached'[old[i]] = PagePrefix(text[r], i)
      /\ \A p \in Cached' : p \in Cached \/ \E i \in 1 .. T : ~InTree(r, i) /\ old[i] = p
  BY <1>1, InsertFacts
<1>3. /\ text[r] \in Seq(Token) /\ old \in Seq(Page) /\ DOMAIN old = 1 .. Len(old)
      /\ T \in Nat
  BY <1>1, LiveFacts, PrefixFacts
<1>4. \A i \in DOMAIN old :
        \/ i <= T /\ InTree(r, i) /\ new[i] \in Cached /\ new[i] \in Page
                  /\ cached[new[i]] = PagePrefix(text[r], i)
        \/ ~(i <= T /\ InTree(r, i)) /\ new[i] = old[i]
  BY NodeFacts DEF InsertedPages, InTree
<1>5. new \in Seq(Page) /\ DOMAIN new = DOMAIN old /\ Len(new) = Len(old)
  <2>1. new = [i \in 1 .. Len(old) |-> new[i]] BY <1>3 DEF InsertedPages
  <2>2. \A i \in 1 .. Len(old) : new[i] \in Page BY <1>3, <1>4
  <2>3. PICK n \in Nat : n = Len(old) BY <1>3
  <2> HIDE DEF new, old
  <2>4. new \in [1 .. n -> Page] BY <2>1, <2>2, <2>3
  <2>5. new \in Seq(Page) /\ Len(new) = n /\ DOMAIN new = 1 .. n BY <2>4
  <2> QED BY <2>3, <2>5, <1>3
<1> HIDE DEF new, old
<1>6. pages' = [pages EXCEPT ![r] = new] BY <1>1 DEF new
<1>7. TypeOK' BY <1>1, <1>2, <1>5, <1>6 DEF TypeOK
<1>8. RequestShape' BY <1>1, <1>6 DEF RequestShape, TypeOK, Live
<1>9. /\ Live' = Live /\ text' = text
      /\ \A q \in Live : Full(q)' = Full(q) /\ q \in Request
      /\ \A q \in Live : q # r => pages'[q] = pages[q]
      /\ pages'[r] = new
  BY <1>1, <1>6 DEF Live, Full, TypeOK
<1>10. \A i, j \in DOMAIN old : old[i] = old[j] => i = j
  BY <1>1 DEF PagesCover, old
<1>11. \A i \in DOMAIN old : old[i] \in Cached =>
            i <= T /\ cached[old[i]] = PagePrefix(text[r], i)
  BY <1>1 DEF CachedPagesMatch, old
<1>12. PagesCover'
  <2>1. ASSUME NEW i \in DOMAIN old, NEW j \in DOMAIN old, new[i] = new[j]
        PROVE  i = j
    <3>1. CASE new[i] \in Cached
      <4>1. /\ i \in 1 .. T /\ j \in 1 .. T
            /\ PagePrefix(text[r], i) = PagePrefix(text[r], j)
        BY <2>1, <3>1, <1>3, <1>4, <1>11
      <4> QED BY <4>1, <1>3, PrefixInjective
    <3>2. CASE new[i] \notin Cached
      BY <2>1, <3>2, <1>4, <1>10
    <3> QED BY <3>1, <3>2
  <2>2. Len(Full(r)) <= Len(new) * PageSize BY <1>1, <1>5 DEF PagesCover, old
  <2> QED BY <2>1, <2>2, <1>5, <1>9 DEF PagesCover
<1>13. SharingIsCached'
  <2>1. ASSUME NEW i \in DOMAIN old, NEW q \in Live, q # r, NEW j \in DOMAIN pages[q],
               new[i] = pages[q][j]
        PROVE  new[i] \in Cached
    BY <2>1, <1>1, <1>4 DEF SharingIsCached, old
  <2>2. ASSUME NEW p \in Live, NEW q \in Live, p # q,
               NEW i \in DOMAIN pages'[p], NEW j \in DOMAIN pages'[q],
               pages'[p][i] = pages'[q][j]
        PROVE  pages'[p][i] \in Cached
    <3>1. CASE p = r BY <3>1, <2>1, <2>2, <1>5, <1>9
    <3>2. CASE q = r BY <3>2, <2>1, <2>2, <1>5, <1>9
    <3>3. CASE p # r /\ q # r BY <3>3, <2>2, <1>9 DEF SharingIsCached
    <3> QED BY <3>1, <3>2, <3>3
  <2> QED BY <2>2, <1>2, <1>9 DEF SharingIsCached
<1>14. CachedPagesMatch'
  <2>1. ASSUME NEW q \in Live, q # r, NEW i \in DOMAIN pages[q], pages[q][i] \in Cached'
        PROVE  pages[q][i] \in Cached
    <3>1. SUFFICES ASSUME NEW j \in 1 .. T, ~InTree(r, j), old[j] = pages[q][i]
                   PROVE  pages[q][i] \in Cached
      BY <2>1, <1>2
    <3>2. j \in DOMAIN old BY <1>2, <1>3
    <3> QED BY <3>1, <3>2, <2>1, <1>1 DEF SharingIsCached, old
  <2>2. ASSUME NEW i \in DOMAIN old, new[i] \in Cached'
        PROVE  i <= T /\ cached'[new[i]] = PagePrefix(text[r], i)
    <3>1. CASE new[i] \in Cached
      BY <3>1, <2>2, <1>2, <1>4, <1>11
    <3>2. CASE new[i] \notin Cached
      <4>1. new[i] = old[i] BY <3>2, <1>4
      <4>2. PICK j \in 1 .. T : ~InTree(r, j) /\ old[j] = old[i]
        BY <4>1, <3>2, <2>2, <1>2
      <4>3. j \in DOMAIN old BY <1>2, <1>3
      <4>4. i = j BY <4>2, <4>3, <1>10
      <4> QED BY <4>1, <4>2, <4>4, <1>2
    <3> QED BY <3>1, <3>2
  <2>3. ASSUME NEW q \in Live, NEW i \in DOMAIN pages'[q], pages'[q][i] \in Cached'
        PROVE  /\ i <= FullPages(text'[q])
               /\ cached'[pages'[q][i]] = PagePrefix(text'[q], i)
    <3>1. CASE q = r BY <3>1, <2>2, <2>3, <1>5, <1>9
    <3>2. CASE q # r
      <4>1. pages'[q] = pages[q] /\ text'[q] = text[q] BY <3>2, <1>9
      <4>2. pages[q][i] \in Cached BY <4>1, <3>2, <2>1, <2>3
      <4> QED BY <4>1, <4>2, <2>3, <1>2 DEF CachedPagesMatch
    <3> QED BY <3>1, <3>2
  <2> QED BY <2>3, <1>9 DEF CachedPagesMatch
<1> QED BY <1>2, <1>7, <1>8, <1>12, <1>13, <1>14

-----------------------------------------------------------------------------
(* Theorems about pages *)

LEMMA InitPInv == Init => PInv
<1> SUFFICES ASSUME Init PROVE PInv OBVIOUS
<1> USE DEF Init
<1>1. <<>> \in Seq(Token) /\ <<>> \in Seq(Page) OBVIOUS
<1>2. NoGroup \in [0 .. Ratio - 1 -> Seq(Token)] BY DEF NoGroup, NoKey
<1>3. TypeOK BY <1>1, <1>2 DEF TypeOK, NoKey
<1>4. Live = {} /\ Cached = {} BY DEF Live, Cached
<1>5. RequestShape BY DEF RequestShape
<1> QED BY <1>3, <1>4, <1>5
        DEF PInv, PagesCover, SharingIsCached, CachedPagesMatch, TreeClosed

LEMMA NextPInv ==
    ASSUME PInv, [Next]_vars
    PROVE  PInv'
<1>1. ASSUME NEW r \in Request, RequestStep(r) PROVE PInv'
  BY <1>1, AdmitKeepsPInv, ExtendKeepsPInv, DecodeKeepsPInv, VerifyKeepsPInv,
     AcceptKeepsPInv, PublishKeepsPInv, ReleaseKeepsPInv DEF RequestStep
<1>2. ASSUME NEW p \in Page, Evict(p) PROVE PInv'
  BY <1>2, EvictKeepsPInv
<1>3. CASE UNCHANGED vars
  BY <1>3 DEF vars, PInv, TypeOK, RequestShape, PagesCover, SharingIsCached,
     CachedPagesMatch, TreeClosed, Live, Cached, Full
<1> QED BY <1>1, <1>2, <1>3 DEF Next

\* The page discipline holds in every reachable state of every configuration.
THEOREM PageDiscipline == Spec => []PInv
BY InitPInv, NextPInv, PTL DEF Spec

\* Requests, pages, tree, ring and cache keep their types; that every slot a forward
\* addresses lies in the ring and the compressed cache is PageSlots and RingSlotInRing.
THEOREM TypeCorrect == Spec => []TypeOK
<1>1. PInv => TypeOK BY DEF PInv
<1> QED BY <1>1, PageDiscipline, PTL

\* No page that two requests hold, or that the tree holds, is ever within
\* reach of a decode or draft row.
THEOREM SharedPagesAreCommitted == Spec => []SharedPagesCommitted
<1>1. PInv => SharedPagesCommitted
  BY DEF PInv, CachedPagesMatch, SharingIsCached, SharedPagesCommitted
<1> QED BY <1>1, PageDiscipline, PTL

-----------------------------------------------------------------------------
(* Contents *)

\* The part of IInv that speaks of contents.
GInv ==
    /\ PendingRing
    /\ ReadersSeeOwnGroups
    /\ TreeServesGroups

-----------------------------------------------------------------------------
(* The ring *)

\* Two requests never share a ring slot.
LEMMA RingSlotsApart ==
    ASSUME NEW r \in Request, NEW q \in Request, NEW p \in Int, NEW x \in Int,
           RingSlot(r, p) = RingSlot(q, x)
    PROVE  r = q /\ p % Stride = x % Stride
<1>1. /\ Stride \in Nat \ {0} /\ r \in Int /\ q \in Int
      /\ p % Stride \in 0 .. Stride - 1 /\ x % Stride \in 0 .. Stride - 1
  BY StrideFacts, QsaAssumption, DivMod DEF Request
<1> QED BY <1>1, SlotInjective DEF RingSlot

\* Fewer than Stride consecutive positions of a request have slots of their own.
LEMMA RingWindowDistinct ==
    ASSUME NEW r \in Request, NEW p \in Int, NEW x \in Int,
           p - x < Stride, x - p < Stride, RingSlot(r, p) = RingSlot(r, x)
    PROVE  p = x
<1>1. p % Stride = x % Stride BY RingSlotsApart
<1>2. CASE p <= x BY <1>1, <1>2, StrideFacts, WindowDistinct
<1>3. CASE x <= p BY <1>1, <1>3, StrideFacts, WindowDistinct
<1> QED BY <1>2, <1>3

\* Where the pending group starts.
LEMMA PendingFacts ==
    ASSUME NEW n \in Nat
    PROVE  /\ PendingFrom(n) \in Nat /\ PendingFrom(n) <= n /\ n - PendingFrom(n) < Ratio
           /\ \A g \in Nat : (g + 1) * Ratio > n => PendingFrom(n) <= g * Ratio
           /\ \A m \in Nat : n <= m => PendingFrom(n) <= PendingFrom(m)
           /\ n % Ratio = 0 => PendingFrom(n) = n
<1>1. /\ n \div Ratio \in Nat /\ n % Ratio \in 0 .. Ratio - 1
      /\ n = (n \div Ratio) * Ratio + (n % Ratio) /\ Ratio \in Nat \ {0}
  <2>1. n \in Int /\ Ratio \in Nat \ {0} BY PageOfGroups
  <2>2. n \div Ratio \in Nat BY <2>1, DivNat
  <2>3. n % Ratio \in 0 .. Ratio - 1 /\ n = (n \div Ratio) * Ratio + (n % Ratio)
    BY <2>1, DivMod
  <2> QED BY <2>1, <2>2, <2>3
<1>2. (n \div Ratio) * Ratio \in Nat BY <1>1
<1>3. \A a, b \in Nat : a <= b => a * Ratio <= b * Ratio
  <2> TAKE a, b \in Nat
  <2>1. CASE a = b BY <2>1, <1>1
  <2>2. CASE a < b BY <2>2, <1>1, MulLess
  <2> QED BY <2>1, <2>2
<1>4. \A g \in Nat : (g + 1) * Ratio > n => PendingFrom(n) <= g * Ratio
  <2> SUFFICES ASSUME NEW g \in Nat, (g + 1) * Ratio > n PROVE PendingFrom(n) <= g * Ratio
    OBVIOUS
  <2>1. ~ (g < n \div Ratio)
    <3>1. g < n \div Ratio <=> (g + 1) * Ratio <= n BY <1>1, BelowDiv
    <3>2. (g + 1) * Ratio \in Nat BY <1>1
    <3> QED BY <3>1, <3>2
  <2>2. n \div Ratio <= g BY <2>1, <1>1
  <2> QED BY <2>2, <1>1, <1>3 DEF PendingFrom
<1>5. \A m \in Nat : n <= m => PendingFrom(n) <= PendingFrom(m)
  <2> SUFFICES ASSUME NEW m \in Nat, n <= m PROVE PendingFrom(n) <= PendingFrom(m)
    OBVIOUS
  <2>1. m \div Ratio \in Nat BY <1>1, DivNat
  <2>2. n \div Ratio - 1 < m \div Ratio <=> ((n \div Ratio - 1) + 1) * Ratio <= m
    BY <1>1, BelowDiv
  <2>3. (n \div Ratio) * Ratio <= m BY <1>1, <1>2
  <2>4. (n \div Ratio - 1) + 1 = n \div Ratio BY <1>1
  <2>5. n \div Ratio <= m \div Ratio BY <1>1, <2>1, <2>2, <2>3, <2>4
  <2> QED BY <2>1, <2>5, <1>1, <1>3 DEF PendingFrom
<1> QED BY <1>1, <1>2, <1>4, <1>5 DEF PendingFrom

LEMMA KeyOfPrefix ==
    ASSUME NEW s \in Seq(Token), NEW t \in Seq(Token), Len(s) <= Len(t),
           SubSeq(t, 1, Len(s)) = s, NEW p \in 0 .. Len(s) - 1
    PROVE  Key(t, p) = Key(s, p)
<1>1. Len(s) \in 0 .. Len(t) /\ p + 1 \in 0 .. Len(s) OBVIOUS
<1>2. SubSeq(SubSeq(t, 1, Len(s)), 1, p + 1) = SubSeq(t, 1, p + 1)
  BY <1>1, PrefixOfPrefix
<1> QED BY <1>2 DEF Key

LEMMA GroupOfPrefix ==
    ASSUME NEW s \in Seq(Token), NEW t \in Seq(Token), Len(s) <= Len(t),
           SubSeq(t, 1, Len(s)) = s, NEW g \in Nat, (g + 1) * Ratio <= Len(s)
    PROVE  GroupOf(t, g) = GroupOf(s, g)
<1>1. ASSUME NEW i \in 0 .. Ratio - 1 PROVE Key(t, g * Ratio + i) = Key(s, g * Ratio + i)
  <2>1. g * Ratio \in Nat /\ (g + 1) * Ratio = g * Ratio + Ratio /\ Ratio \in Nat
    BY PageOfGroups
  <2>2. PICK x \in Nat : x = g * Ratio BY <2>1
  <2>3. x + i \in 0 .. Len(s) - 1 BY <2>1, <2>2
  <2> QED BY <2>2, <2>3, KeyOfPrefix
<1> QED BY <1>1 DEF GroupOf

\* After the rows of a paged forward stored their keys, the ring holds the
\* pending group and all rows behind it, and nothing of another request moved.
LEMMA PagedRingKeys ==
    ASSUME TypeOK, PendingRing, NEW r \in Live, window[r] = <<>>,
           NEW w \in Seq(Token), Ratio - 1 + Len(w) <= Stride
    PROVE  /\ \A p \in PendingFrom(Len(text[r])) .. Len(text[r] \o w) - 1 :
                PagedRing(r, text[r] \o w, Len(w))[RingSlot(r, p)] = Key(text[r] \o w, p)
           /\ \A q \in Request, p \in Nat : q # r =>
                PagedRing(r, text[r] \o w, Len(w))[RingSlot(q, p)] = ring[RingSlot(q, p)]
<1> DEFINE t == text[r] \o w  n == Len(w)  L == Len(text[r])  new == PagedRing(r, t, n)
<1>1. /\ r \in Request /\ text[r] \in Seq(Token) /\ L \in Nat /\ n \in Nat
      /\ Full(r) = text[r] /\ Ratio \in Nat \ {0} /\ Stride \in Nat \ {0}
  <2>1. r \in Request /\ text[r] \in Seq(Token) BY LiveFacts
  <2>2. Full(r) = text[r] BY <2>1 DEF Full
  <2> QED BY <2>1, <2>2, PageOfGroups, StrideFacts
<1>2. t \in Seq(Token) /\ Len(t) = L + n /\ SubSeq(t, 1, L) = text[r]
  BY <1>1, ConcatFacts
<1>3. PendingFrom(L) \in Nat /\ PendingFrom(L) <= L /\ L - PendingFrom(L) < Ratio
  BY <1>1, PendingFacts
<1> HIDE DEF t, n, L
<1>4. Rows(t, n) = L .. L + n - 1 BY <1>1, <1>2 DEF Rows
<1>5. \A s \in RingIndex :
        new[s] = IF \E p \in Rows(t, n) : RingSlot(r, p) = s
                 THEN Key(t, CHOOSE p \in Rows(t, n) : RingSlot(r, p) = s) ELSE ring[s]
  BY DEF PagedRing
<1> HIDE DEF new
<1>6. ASSUME NEW p \in PendingFrom(L) .. L + n - 1 PROVE new[RingSlot(r, p)] = Key(t, p)
  <2>1. RingSlot(r, p) \in RingIndex BY <1>1, <1>3, RingSlotInRing
  <2>2. \A x \in Rows(t, n) : RingSlot(r, x) = RingSlot(r, p) => x = p
    <3> SUFFICES ASSUME NEW x \in Rows(t, n), RingSlot(r, x) = RingSlot(r, p) PROVE x = p
      OBVIOUS
    <3>1. x \in Int /\ p \in Int /\ x - p < Stride /\ p - x < Stride
      BY <1>1, <1>3, <1>4 DEF n
    <3> QED BY <3>1, <1>1, RingWindowDistinct
  <2>3. CASE p \in Rows(t, n)
    <3>1. (CHOOSE x \in Rows(t, n) : RingSlot(r, x) = RingSlot(r, p)) = p BY <2>2, <2>3
    <3> QED BY <3>1, <2>1, <2>3, <1>5
  <2>4. CASE p \notin Rows(t, n)
    <3>1. p \in PendingFrom(L) .. L - 1 BY <2>4, <1>1, <1>3, <1>4
    <3>2. new[RingSlot(r, p)] = ring[RingSlot(r, p)] BY <2>1, <2>2, <2>4, <1>5
    <3>3. ring[RingSlot(r, p)] = Key(text[r], p) BY <3>1, <1>1 DEF PendingRing, L
    <3>4. Key(t, p) = Key(text[r], p)
      <4>1. p \in 0 .. L - 1 /\ L <= Len(t) BY <3>1, <1>1, <1>2, <1>3
      <4>2. p \in 0 .. Len(text[r]) - 1 /\ Len(text[r]) <= Len(t)
            /\ SubSeq(t, 1, Len(text[r])) = text[r]
        BY <4>1, <1>2 DEF L
      <4> QED BY <4>2, <1>1, <1>2, KeyOfPrefix
    <3> QED BY <3>2, <3>3, <3>4
  <2> QED BY <2>3, <2>4
<1>7. ASSUME NEW q \in Request, NEW p \in Nat, q # r
      PROVE  new[RingSlot(q, p)] = ring[RingSlot(q, p)]
  <2>1. RingSlot(q, p) \in RingIndex BY RingSlotInRing
  <2>2. \A x \in Rows(t, n) : RingSlot(r, x) # RingSlot(q, p)
    BY <1>1, <1>4, <1>7, RingSlotsApart
  <2> QED BY <2>1, <2>2, <1>5
<1> QED BY <1>2, <1>6, <1>7 DEF new, t, n, L

\* After an extend chunk the ring holds the new pending group, and nothing of
\* another request that can be live moved: the dump is in the rows of slot 0.
LEMMA ExtendRingKeys ==
    ASSUME TypeOK, NEW r \in Live, r # 0, Len(text[r]) % Ratio = 0,
           NEW w \in Seq(Token)
    PROVE  /\ \A p \in PendingFrom(Len(text[r] \o w)) .. Len(text[r] \o w) - 1 :
                ExtendRing(r, text[r] \o w, Len(w))[RingSlot(r, p)] = Key(text[r] \o w, p)
           /\ \A q \in Request, p \in Nat : q # r /\ q # 0 =>
                ExtendRing(r, text[r] \o w, Len(w))[RingSlot(q, p)] = ring[RingSlot(q, p)]
<1> DEFINE t == text[r] \o w  n == Len(w)  L == Len(text[r])  new == ExtendRing(r, t, n)
           from == PendingFrom(Len(t))
           pending == {p \in Rows(t, n) : p >= from}
           dumped  == {p % Ratio : p \in Rows(t, n) \ pending}
<1>1. /\ r \in Request /\ text[r] \in Seq(Token) /\ L \in Nat /\ n \in Nat
      /\ Ratio \in Nat \ {0} /\ Stride \in Nat \ {0} /\ Ratio <= Stride
  <2>1. r \in Request /\ text[r] \in Seq(Token) BY LiveFacts
  <2>2. Ratio \in Nat \ {0} BY PageOfGroups
  <2>3. Stride \in Nat \ {0} /\ Ratio <= Stride BY <2>2, StrideFacts
  <2> QED BY <2>1, <2>2, <2>3
<1>2. t \in Seq(Token) /\ Len(t) = L + n BY <1>1, ConcatFacts
<1>3. \A s \in RingIndex :
        new[s] = IF \E p \in pending : RingSlot(r, p) = s
                 THEN Key(t, CHOOSE p \in pending : RingSlot(r, p) = s)
                 ELSE IF s \in dumped THEN NoKey ELSE ring[s]
  BY DEF ExtendRing
<1> HIDE DEF t, n, L, new
<1>4. from \in Nat /\ Len(t) - from < Ratio /\ L <= from
  <2>1. PICK m \in Nat : m = Len(t) BY <1>1, <1>2
  <2>2. PendingFrom(L) = L BY <1>1, PendingFacts DEF L
  <2>3. L <= m BY <1>1, <1>2, <2>1
  <2>4. PendingFrom(L) <= PendingFrom(m) BY <1>1, <2>1, <2>3, PendingFacts
  <2>5. PendingFrom(m) \in Nat /\ m - PendingFrom(m) < Ratio BY <2>1, PendingFacts
  <2> QED BY <2>1, <2>2, <2>4, <2>5
<1>5. Rows(t, n) = L .. L + n - 1 BY <1>1, <1>2 DEF Rows
<1> HIDE DEF from
<1>6. pending = from .. L + n - 1 BY <1>1, <1>4, <1>5
<1>7. dumped \subseteq 0 .. Ratio - 1
  <2>1. ASSUME NEW p \in Rows(t, n) PROVE p % Ratio \in 0 .. Ratio - 1
    <3>1. p \in Int BY <1>1, <1>5
    <3> QED BY <3>1, <1>1, DivMod
  <2> QED BY <2>1
<1> HIDE DEF pending, dumped
<1>8. ASSUME NEW p \in from .. Len(t) - 1 PROVE new[RingSlot(r, p)] = Key(t, p)
  <2>1. p \in pending /\ p \in Int BY <1>1, <1>2, <1>4, <1>6
  <2>2. RingSlot(r, p) \in RingIndex BY <1>1, <2>1, RingSlotInRing
  <2>3. \A x \in pending : RingSlot(r, x) = RingSlot(r, p) => x = p
    <3> SUFFICES ASSUME NEW x \in pending, RingSlot(r, x) = RingSlot(r, p) PROVE x = p
      OBVIOUS
    <3>1. x \in Int /\ x - p < Stride /\ p - x < Stride
      BY <1>1, <1>2, <1>4, <1>6, <2>1
    <3> QED BY <3>1, <2>1, <1>1, RingWindowDistinct
  <2>4. (CHOOSE x \in pending : RingSlot(r, x) = RingSlot(r, p)) = p BY <2>1, <2>3
  <2> QED BY <2>1, <2>2, <2>4, <1>3
<1>9. ASSUME NEW q \in Request, NEW p \in Nat, q # r, q # 0
      PROVE  new[RingSlot(q, p)] = ring[RingSlot(q, p)]
  <2>1. RingSlot(q, p) \in RingIndex BY RingSlotInRing
  <2>2. \A x \in pending : RingSlot(r, x) # RingSlot(q, p)
    <3> SUFFICES ASSUME NEW x \in pending, RingSlot(r, x) = RingSlot(q, p) PROVE FALSE
      OBVIOUS
    <3>1. x \in Int BY <1>1, <1>4, <1>6
    <3> QED BY <3>1, <1>1, <1>9, RingSlotsApart
  <2>3. RingSlot(q, p) >= Ratio
    <3>1. q \in Nat /\ 0 < q BY <1>9, QsaAssumption DEF Request
    <3>2. q * Stride \in Int /\ 0 * Stride + Stride <= q * Stride BY <1>1, <3>1, MulLess
    <3>3. p \in Int /\ p % Stride \in 0 .. Stride - 1 BY <1>1, DivMod
    <3> QED BY <1>1, <3>1, <3>2, <3>3 DEF RingSlot
  <2>4. RingSlot(q, p) \notin dumped
    <3>1. \A x \in 0 .. Ratio - 1 : ~ (x >= Ratio) BY <1>1
    <3> QED BY <3>1, <1>7, <2>3
  <2> QED BY <2>1, <2>2, <2>4, <1>3
<1> QED BY <1>8, <1>9 DEF new, t, n, from

-----------------------------------------------------------------------------
(* The compressed slots *)

\* Writer and readers agree: group g of a row of pages lives in page
\* g \div GroupsPerPage of the row, in the part of the cache that mirrors it.
LEMMA SlotFacts ==
    ASSUME NEW tbl \in Seq(Page), NEW g \in Nat, (g + 1) * Ratio <= Len(tbl) * PageSize
    PROVE  /\ g \div GroupsPerPage + 1 \in 1 .. Len(tbl)
           /\ g % GroupsPerPage \in 0 .. GroupsPerPage - 1
           /\ WriteSlot(tbl, g) = tbl[g \div GroupsPerPage + 1] * GroupsPerPage
                                       + (g % GroupsPerPage)
           /\ ReadSlot(tbl, g) = WriteSlot(tbl, g)
<1> DEFINE q == g \div GroupsPerPage  m == g % GroupsPerPage
<1>1. /\ GroupsPerPage \in Nat \ {0} /\ PageSize = GroupsPerPage * Ratio
      /\ PageSize \in Nat \ {0} /\ Ratio \in Nat \ {0} /\ Len(tbl) \in Nat
  BY PageOfGroups
<1>2. q \in Nat /\ m \in 0 .. GroupsPerPage - 1 /\ g = q * GroupsPerPage + m
  <2>1. q \in Nat BY <1>1, DivNat
  <2>2. m \in 0 .. GroupsPerPage - 1 /\ g = q * GroupsPerPage + m
    <3>1. g \in Int OBVIOUS
    <3> QED BY <3>1, <1>1, DivMod
  <2> QED BY <2>1, <2>2
<1> HIDE DEF q, m
<1>3. q * PageSize \in Nat /\ m * Ratio \in 0 .. PageSize - 1 /\ m \in Nat
  <2>1. m * Ratio + Ratio <= GroupsPerPage * Ratio BY <1>1, <1>2, MulLess
  <2>2. q * PageSize \in Nat /\ m * Ratio \in Nat BY <1>1, <1>2
  <2> QED BY <1>1, <1>2, <2>1, <2>2
<1>4. g * Ratio = q * PageSize + m * Ratio
  <2>1. \A x, y, z, w \in Nat : (x * y + z) * w = x * (y * w) + z * w OBVIOUS
  <2> QED BY <2>1, <1>1, <1>2, <1>3
<1>5. (g * Ratio) \div PageSize = q /\ (g * Ratio) % PageSize = m * Ratio
  <2>1. q \in Int BY <1>2
  <2>2. /\ (q * PageSize + m * Ratio) \div PageSize = q
        /\ (q * PageSize + m * Ratio) % PageSize = m * Ratio
    BY <2>1, <1>1, <1>3, DivUnique
  <2> QED BY <2>2, <1>4
<1>6. (q * PageSize) \div PageSize = q /\ (q * PageSize) % PageSize = 0
  <2>1. (q * PageSize + 0) \div PageSize = q /\ (q * PageSize + 0) % PageSize = 0
    <3>1. q \in Int /\ 0 \in 0 .. PageSize - 1 BY <1>1, <1>2
    <3> QED BY <3>1, <1>1, DivUnique
  <2> QED BY <2>1, <1>3
<1>7. q + 1 \in 1 .. Len(tbl)
  <2> SUFFICES ASSUME Len(tbl) <= q PROVE FALSE BY <1>1, <1>2
  <2>1. Len(tbl) * PageSize <= q * PageSize
    <3>1. CASE Len(tbl) = q BY <3>1, <1>3
    <3>2. CASE Len(tbl) < q
      <4>1. Len(tbl) * PageSize + PageSize <= q * PageSize /\ Len(tbl) * PageSize \in Int
        BY <3>2, <1>1, <1>2, MulLess
      <4> QED BY <4>1, <1>1, <1>3
    <3> QED BY <3>1, <3>2, <1>1, <1>2
  <2>2. (g + 1) * Ratio = g * Ratio + Ratio BY <1>1
  <2>3. Len(tbl) * PageSize \in Int BY <1>1
  <2> QED BY <2>1, <2>2, <2>3, <1>1, <1>3, <1>4
<1>8. PICK p \in Nat : p = tbl[q + 1]
  <2>1. tbl[q + 1] \in Page BY <1>7
  <2> QED BY <2>1, QsaAssumption DEF Page
<1>9. RawSlot(tbl, g * Ratio) = p * PageSize + m * Ratio
  BY <1>5, <1>8 DEF RawSlot
<1>10. p * PageSize + m * Ratio = (p * GroupsPerPage + m) * Ratio + 0
  <2>1. \A x, y, z, w \in Nat : (x * y + z) * w + 0 = x * (y * w) + z * w OBVIOUS
  <2> QED BY <2>1, <1>1, <1>3, <1>8, SMTT(40)
<1>11. WriteSlot(tbl, g) = p * GroupsPerPage + m
  <2>1. p * GroupsPerPage + m \in Int /\ 0 \in 0 .. Ratio - 1 BY <1>1, <1>3, <1>8
  <2>2. ((p * GroupsPerPage + m) * Ratio + 0) \div Ratio = p * GroupsPerPage + m
    BY <1>1, <2>1, DivUnique
  <2> QED BY <2>2, <1>9, <1>10 DEF WriteSlot
<1>12. ReadSlot(tbl, g) = p * GroupsPerPage + m
  <2>1. RawSlot(tbl, q * PageSize) = p * PageSize + 0 BY <1>6, <1>8 DEF RawSlot
  <2>2. (p * PageSize + 0) \div PageSize = p
    <3>1. p \in Int /\ 0 \in 0 .. PageSize - 1 BY <1>1, <1>8
    <3> QED BY <3>1, <1>1, DivUnique
  <2> QED BY <2>1, <2>2 DEF ReadSlot, q, m
<1> QED BY <1>2, <1>7, <1>8, <1>11, <1>12 DEF q, m

\* Every slot of an allocated page lies in the cache and is not the inert one,
\* and it names its page and its place there.
LEMMA PageSlots ==
    ASSUME NEW p \in Page, NEW m \in 0 .. GroupsPerPage - 1
    PROVE  /\ p * GroupsPerPage + m \in CompIndex /\ p * GroupsPerPage + m # 0
           /\ \A x \in Page, y \in 0 .. GroupsPerPage - 1 :
                x * GroupsPerPage + y = p * GroupsPerPage + m => x = p /\ y = m
<1>1. /\ GroupsPerPage \in Nat \ {0} /\ PageSize = GroupsPerPage * Ratio
      /\ Ratio \in Nat \ {0} /\ NumPages \in Nat /\ p \in Nat /\ 0 < p /\ p < NumPages + 1
  BY PageOfGroups, QsaAssumption DEF Page
<1>2. /\ p * GroupsPerPage \in Nat /\ (NumPages + 1) * GroupsPerPage \in Nat
      /\ p * GroupsPerPage + GroupsPerPage <= (NumPages + 1) * GroupsPerPage
      /\ 0 * GroupsPerPage + GroupsPerPage <= p * GroupsPerPage
  BY <1>1, MulLess
<1>3. CompressedCapacity = (NumPages + 1) * GroupsPerPage
  <2>1. PICK c \in Nat : c = (NumPages + 1) * GroupsPerPage BY <1>2
  <2>2. (c * Ratio + (Ratio - 1)) \div Ratio = c BY <1>1, <2>1, DivUnique
  <2>3. (NumPages + 1) * PageSize = c * Ratio
    <3>1. \A x, y, z \in Nat : x * (y * z) = (x * y) * z OBVIOUS
    <3> QED BY <3>1, <1>1, <2>1
  <2>4. c * Ratio \in Nat BY <1>1, <2>1
  <2>5. (NumPages + 1) * PageSize + Ratio - 1 = c * Ratio + (Ratio - 1)
    BY <1>1, <2>3, <2>4
  <2> QED BY <2>1, <2>2, <2>5 DEF CompressedCapacity
<1>4. p * GroupsPerPage + m \in CompIndex /\ p * GroupsPerPage + m # 0
  BY <1>1, <1>2, <1>3 DEF CompIndex
<1>5. \A x \in Page, y \in 0 .. GroupsPerPage - 1 :
        x * GroupsPerPage + y = p * GroupsPerPage + m => x = p /\ y = m
  BY <1>1, SlotInjective DEF Page
<1> QED BY <1>4, <1>5

-----------------------------------------------------------------------------
(* Groups and pages *)

\* Group m of the page that ends a page-aligned prefix of t, counted from the
\* start of t and from the end of the prefix.
LEMMA NodeGroup ==
    ASSUME NEW t \in Seq(Token), NEW i \in 1 .. FullPages(t),
           NEW m \in 0 .. GroupsPerPage - 1
    PROVE  LET g == (i - 1) * GroupsPerPage + m
           IN  /\ g \in Nat /\ (g + 1) * Ratio <= Len(t)
               /\ g \div GroupsPerPage + 1 = i /\ g % GroupsPerPage = m
               /\ (Len(PagePrefix(t, i)) \div Ratio) - GroupsPerPage + m = g
               /\ GroupOf(PagePrefix(t, i), g) = GroupOf(t, g)
<1> DEFINE g == (i - 1) * GroupsPerPage + m
<1>1. /\ GroupsPerPage \in Nat \ {0} /\ PageSize = GroupsPerPage * Ratio
      /\ Ratio \in Nat \ {0} /\ FullPages(t) \in Nat /\ i \in Nat /\ i # 0 /\ m \in Nat
      /\ i - 1 \in Nat
  <2>1. FullPages(t) \in Nat BY PrefixFacts
  <2> QED BY <2>1, PageOfGroups
<1>2. g \in Nat BY <1>1
<1>3. g \div GroupsPerPage = i - 1 /\ g % GroupsPerPage = m
  <2>1. i - 1 \in Int BY <1>1
  <2> QED BY <2>1, <1>1, DivUnique
<1>4. /\ PagePrefix(t, i) \in Seq(Token) /\ Len(PagePrefix(t, i)) = i * PageSize
      /\ i * PageSize \in Nat /\ i * PageSize <= Len(t)
  BY <1>1, PrefixFacts
<1>5. i * PageSize = (i * GroupsPerPage) * Ratio + 0 /\ i * GroupsPerPage \in Nat
  <2>1. \A x, y, z \in Nat : x * (y * z) = (x * y) * z + 0 OBVIOUS
  <2> QED BY <2>1, <1>1
<1>6. (i * PageSize) \div Ratio = i * GroupsPerPage
  <2>1. i * GroupsPerPage \in Int /\ 0 \in 0 .. Ratio - 1 BY <1>1, <1>5
  <2>2. ((i * GroupsPerPage) * Ratio + 0) \div Ratio = i * GroupsPerPage
    BY <2>1, <1>1, DivUnique
  <2> QED BY <2>2, <1>5
<1>7. i * GroupsPerPage = (i - 1) * GroupsPerPage + GroupsPerPage /\ (i - 1) * GroupsPerPage \in Nat
  <2>1. \A x \in Nat : (x + 1) * GroupsPerPage = x * GroupsPerPage + GroupsPerPage BY <1>1
  <2> QED BY <2>1, <1>1
<1>8. i * GroupsPerPage - GroupsPerPage + m = g /\ g + 1 <= i * GroupsPerPage
  BY <1>1, <1>5, <1>7
<1> HIDE DEF g
<1>9. (g + 1) * Ratio <= i * PageSize /\ (g + 1) * Ratio \in Nat
  <2>1. CASE g + 1 = i * GroupsPerPage BY <2>1, <1>1, <1>4, <1>5
  <2>2. CASE g + 1 < i * GroupsPerPage
    <3>1. (g + 1) * Ratio \in Int /\ (g + 1) * Ratio + Ratio <= (i * GroupsPerPage) * Ratio
      BY <2>2, <1>1, <1>2, <1>5, MulLess
    <3>2. (g + 1) * Ratio \in Nat BY <1>1, <1>2
    <3> QED BY <3>1, <3>2, <1>1, <1>4, <1>5
  <2> QED BY <2>1, <2>2, <1>2, <1>5, <1>8
<1>10. (g + 1) * Ratio <= Len(t)
  <2>1. \A x, y, z \in Nat : x <= y /\ y <= z => x <= z OBVIOUS
  <2> QED BY <2>1, <1>4, <1>9
<1>11. GroupOf(PagePrefix(t, i), g) = GroupOf(t, g)
  <2>1. PICK n \in 0 .. Len(t) : n = i * PageSize BY <1>4
  <2>2. PagePrefix(t, i) = SubSeq(t, 1, n) BY <2>1 DEF PagePrefix
  <2>3. /\ Len(PagePrefix(t, i)) <= Len(t)
        /\ SubSeq(t, 1, Len(PagePrefix(t, i))) = PagePrefix(t, i)
        /\ (g + 1) * Ratio <= Len(PagePrefix(t, i))
    BY <2>1, <2>2, <1>4, <1>9
  <2> QED BY <2>3, <1>2, <1>4, GroupOfPrefix
<1> QED BY <1>1, <1>2, <1>3, <1>4, <1>6, <1>8, <1>10, <1>11 DEF g

\* A group the readers score fits the length.
LEMMA GroupBelow ==
    ASSUME NEW t \in Seq(Token), NEW g \in 0 .. (Len(t) \div Ratio) - 1
    PROVE  g \in Nat /\ (g + 1) * Ratio \in Nat /\ (g + 1) * Ratio <= Len(t)
<1>1. Len(t) \in Nat /\ Ratio \in Nat \ {0} BY PageOfGroups
<1>2. Len(t) \div Ratio \in Nat BY <1>1, DivNat
<1>3. g \in Nat /\ g < Len(t) \div Ratio BY <1>2
<1>4. (g + 1) * Ratio <= Len(t) BY <1>1, <1>3, BelowDiv
<1>5. (g + 1) * Ratio \in Nat BY <1>1, <1>3
<1> QED BY <1>3, <1>4, <1>5

\* A complete group of a live request lies on a page of its row.
LEMMA LiveGroup ==
    ASSUME TypeOK, PagesCover, NEW r \in Live,
           NEW g \in 0 .. (Len(Full(r)) \div Ratio) - 1
    PROVE  /\ g \in Nat /\ (g + 1) * Ratio \in Nat /\ (g + 1) * Ratio <= Len(Full(r))
           /\ (g + 1) * Ratio <= Len(pages[r]) * PageSize
<1>1. Full(r) \in Seq(Token) /\ pages[r] \in Seq(Page) BY LiveFacts
<1>2. Len(Full(r)) \in Nat /\ Len(pages[r]) * PageSize \in Nat
  <2>1. PICK c \in Nat : c = Len(pages[r]) BY <1>1
  <2>2. c * PageSize \in Nat BY PageOfGroups
  <2> QED BY <2>1, <2>2, <1>1
<1>3. g \in Nat /\ (g + 1) * Ratio \in Nat /\ (g + 1) * Ratio <= Len(Full(r))
  BY <1>1, GroupBelow
<1>4. Len(Full(r)) <= Len(pages[r]) * PageSize BY DEF PagesCover
<1>5. (g + 1) * Ratio <= Len(pages[r]) * PageSize
  <2>1. \A x, y, z \in Nat : x <= y /\ y <= z => x <= z OBVIOUS
  <2> QED BY <2>1, <1>2, <1>3, <1>4
<1> QED BY <1>3, <1>5

\* The converse: a group that fits the length is one the readers score.
LEMMA GroupLive ==
    ASSUME NEW t \in Seq(Token), NEW g \in Nat, (g + 1) * Ratio <= Len(t)
    PROVE  g \in 0 .. (Len(t) \div Ratio) - 1
<1>1. Len(t) \in Nat /\ Ratio \in Nat \ {0} /\ g \in Int BY PageOfGroups
<1>2. g < Len(t) \div Ratio BY <1>1, BelowDiv
<1>3. Len(t) \div Ratio \in Nat BY <1>1, DivNat
<1> QED BY <1>2, <1>3

\* A page-aligned length is group-aligned.
LEMMA GroupAligned ==
    ASSUME NEW t \in Seq(Token), Len(t) % PageSize = 0
    PROVE  Len(t) % Ratio = 0
<1>1. /\ GroupsPerPage \in Nat \ {0} /\ PageSize = GroupsPerPage * Ratio
      /\ Ratio \in Nat \ {0} /\ PageSize \in Nat \ {0}
  BY PageOfGroups
<1>2. PICK n \in Nat : n = Len(t) OBVIOUS
<1>3. n \div PageSize \in Nat BY <1>1, <1>2, DivNat
<1>4. n = (n \div PageSize) * PageSize + (n % PageSize)
  <2>1. n \in Int OBVIOUS
  <2> QED BY <2>1, <1>1, DivMod, ZenonT(60)
<1>5. PICK q \in Nat : q = n \div PageSize BY <1>3
<1>6. n = (q * GroupsPerPage) * Ratio + 0
  <2>1. \A x, y, z \in Nat : x * (y * z) + 0 = (x * y) * z + 0 OBVIOUS
  <2>2. n % PageSize = 0 BY <1>2
  <2>3. q * PageSize \in Nat /\ n = q * PageSize + 0 BY <2>2, <1>1, <1>2, <1>4, <1>5
  <2>4. q * (GroupsPerPage * Ratio) + 0 = (q * GroupsPerPage) * Ratio + 0
    <3>1. GroupsPerPage \in Nat /\ Ratio \in Nat BY <1>1
    <3> QED BY <3>1, <2>1
  <2> QED BY <2>3, <2>4, <1>1
<1>7. (q * GroupsPerPage) * Ratio + 0 = n /\ q * GroupsPerPage \in Int /\ 0 \in 0 .. Ratio - 1
  BY <1>1, <1>5, <1>6
<1>8. ((q * GroupsPerPage) * Ratio + 0) % Ratio = 0 BY <1>1, <1>7, DivUnique
<1> QED BY <1>2, <1>7, <1>8

\* A page of the tree serves the groups of every sequence that starts with
\* the prefix it stands for.
LEMMA PageServes ==
    ASSUME TreeServesGroups, NEW t \in Seq(Token), NEW i \in 1 .. FullPages(t),
           NEW p \in Cached, cached[p] = PagePrefix(t, i),
           NEW m \in 0 .. GroupsPerPage - 1
    PROVE  comp[p * GroupsPerPage + m] = GroupOf(t, (i - 1) * GroupsPerPage + m)
<1>1. comp[p * GroupsPerPage + m] =
        GroupOf(PagePrefix(t, i), (Len(PagePrefix(t, i)) \div Ratio) - GroupsPerPage + m)
  BY DEF TreeServesGroups
<1> QED BY <1>1, NodeGroup

-----------------------------------------------------------------------------
(* A forward *)

\* A group is not past the end of its page.
LEMMA GroupInPage ==
    ASSUME NEW g \in Nat
    PROVE  /\ g \div GroupsPerPage \in Nat
           /\ (g + 1) * Ratio <= (g \div GroupsPerPage + 1) * PageSize
           /\ (g + 1) * Ratio \in Nat /\ (g \div GroupsPerPage + 1) * PageSize \in Nat
<1> DEFINE q == g \div GroupsPerPage
<1>1. /\ GroupsPerPage \in Nat \ {0} /\ PageSize = GroupsPerPage * Ratio
      /\ Ratio \in Nat \ {0} /\ PageSize \in Nat
  BY PageOfGroups
<1>2. q \in Nat BY <1>1, DivNat
<1>3. g % GroupsPerPage \in 0 .. GroupsPerPage - 1 /\ g = q * GroupsPerPage + (g % GroupsPerPage)
  <2>1. g \in Int OBVIOUS
  <2> QED BY <2>1, <1>1, DivMod
<1> HIDE DEF q
<1>4. PICK c \in Nat : c = (q + 1) * GroupsPerPage BY <1>1, <1>2
<1>5. g + 1 <= c
  <2>1. (q + 1) * GroupsPerPage = q * GroupsPerPage + GroupsPerPage /\ q * GroupsPerPage \in Nat
    BY <1>1, <1>2
  <2> QED BY <2>1, <1>1, <1>3, <1>4
<1>6. (q + 1) * PageSize = c * Ratio
  <2>1. \A x, y, z \in Nat : x * (y * z) = (x * y) * z OBVIOUS
  <2> QED BY <2>1, <1>1, <1>2, <1>4
<1>7. (g + 1) * Ratio \in Nat /\ c * Ratio \in Nat BY <1>1, <1>4
<1>8. (g + 1) * Ratio <= c * Ratio
  <2>1. CASE g + 1 = c BY <2>1, <1>7
  <2>2. CASE g + 1 < c
    <3>1. (g + 1) * Ratio + Ratio <= c * Ratio BY <2>2, <1>1, <1>4, MulLess
    <3> QED BY <3>1, <1>1, <1>7
  <2> QED BY <2>1, <2>2, <1>4, <1>5
<1> QED BY <1>2, <1>6, <1>7, <1>8 DEF q

\* A group that the rows behind the committed tokens complete lies on a page
\* that only this request holds and that is not in the tree.
LEMMA HitPage ==
    ASSUME PInv, PInv', NEW r, NEW t, NEW w, Grows(r, t, w),
           NEW n \in 0 .. Len(t \o w), Len(text[r]) <= Len(t \o w) - n,
           NEW g \in Completed(t \o w, n)
    PROVE  /\ g \in Nat /\ (g + 1) * Ratio <= Len(pages'[r]) * PageSize
           /\ g \div GroupsPerPage + 1 \in 1 .. Len(pages'[r])
           /\ pages'[r] \in Seq(Page)
           /\ pages'[r][g \div GroupsPerPage + 1] \notin Cached
           /\ \A q \in Live : q # r => \A j \in DOMAIN pages[q] :
                pages[q][j] # pages'[r][g \div GroupsPerPage + 1]
<1> USE DEF PInv
<1> DEFINE i == g \div GroupsPerPage + 1  T == t \o w  new == pages'[r]
<1>1. /\ r \in Request /\ r \in Live /\ text[r] \in Seq(Token) /\ pages[r] \in Seq(Page)
      /\ t \in Seq(Token) /\ w \in Seq(Token) /\ DOMAIN pages[r] = 1 .. Len(pages[r])
  BY LiveFacts DEF Grows
<1>2. T \in Seq(Token) /\ Len(T) \in Nat BY <1>1
<1>3. /\ new \in Seq(Page) /\ Len(T) <= Len(new) * PageSize
      /\ \A j \in 1 .. Len(pages[r]) : new[j] = pages[r][j]
      /\ \A j \in (Len(pages[r]) + 1) .. Len(new) : new[j] \in FreePages
  BY <1>1, <1>2, GrownFacts DEF Grows
<1>4. /\ g \in Nat /\ (g + 1) * Ratio \in Nat
      /\ (g + 1) * Ratio <= Len(T) /\ (g + 1) * Ratio > Len(T) - n
  BY <1>2, CompletedFacts
<1>5. PICK L \in Nat : L = Len(text[r]) BY <1>1
<1> HIDE DEF new, T
<1>6. (g + 1) * Ratio > L BY <1>2, <1>4, <1>5 DEF T
<1>7. (g + 1) * Ratio <= Len(new) * PageSize
  <2>1. PICK c \in Nat : c = Len(new) BY <1>3
  <2>2. c * PageSize \in Nat BY PageOfGroups
  <2>3. \A x, y, z \in Nat : x <= y /\ y <= z => x <= z OBVIOUS
  <2> QED BY <2>1, <2>2, <2>3, <1>2, <1>3, <1>4
<1>8. i \in 1 .. Len(new) BY <1>3, <1>4, <1>7, SlotFacts
<1>9. i \in Nat /\ ~ (i <= FullPages(text[r]))
  <2>1. (g + 1) * Ratio <= i * PageSize /\ i * PageSize \in Nat /\ i \in Nat
    <3>1. g \in Nat BY <1>4
    <3>2. g \div GroupsPerPage \in Nat BY <3>1, GroupInPage
    <3>3. i \in Nat BY <3>2
    <3> HIDE DEF i
    <3>4. (g + 1) * Ratio <= i * PageSize /\ i * PageSize \in Nat
      BY <3>1, GroupInPage DEF i
    <3> QED BY <3>3, <3>4
  <2>2. ~ (i * PageSize <= L) BY <2>1, <1>4, <1>6
  <2> QED BY <2>1, <2>2, <1>1, <1>5, PrefixFacts
<1> HIDE DEF i
<1>10. new[i] \notin Cached
  <2>1. CASE i \in 1 .. Len(pages[r])
    BY <2>1, <1>1, <1>3, <1>9 DEF CachedPagesMatch
  <2>2. CASE i \in (Len(pages[r]) + 1) .. Len(new)
    BY <2>2, <1>3 DEF FreePages
  <2> QED BY <2>1, <2>2, <1>1, <1>3, <1>8
<1>11. ASSUME NEW q \in Live, q # r, NEW j \in DOMAIN pages[q], pages[q][j] = new[i]
       PROVE  FALSE
  <2>1. q \in Live' /\ r \in Live' /\ pages'[q] = pages[q] /\ Cached' = Cached
    BY <1>1, <1>11 DEF Grows, Live, Cached
  <2>2. i \in DOMAIN new BY <1>3, <1>8
  <2>3. pages'[q][j] \in Cached'
    BY <2>1, <2>2, <1>11 DEF SharingIsCached, new
  <2> QED BY <2>1, <2>3, <1>10, <1>11
<1> QED BY <1>3, <1>4, <1>7, <1>8, <1>10, <1>11 DEF new, i

\* A forward that pools each group it completes from the group's own members
\* leaves every reader and the tree with the right groups.
LEMMA ForwardKeepsGroups ==
    ASSUME PInv, PInv', ReadersSeeOwnGroups, TreeServesGroups,
           NEW r, NEW t, NEW w, Grows(r, t, w), window[r] = <<>>,
           NEW n \in 0 .. Len(t \o w), Len(t \o w) = Len(text[r]) + n,
           SubSeq(t \o w, 1, Len(text[r])) = text[r],
           NEW value, comp' = Compress(pages'[r], t \o w, n, value),
           \A g \in Completed(t \o w, n) : value[g] = GroupOf(t \o w, g)
    PROVE  ReadersSeeOwnGroups' /\ TreeServesGroups'
<1> USE DEF PInv
<1> DEFINE T == t \o w  new == pages'[r]  K == GroupsPerPage
<1>1. /\ r \in Request /\ r \in Live /\ text[r] \in Seq(Token) /\ t \in Seq(Token)
      /\ w \in Seq(Token) /\ pages[r] \in Seq(Page)
  BY LiveFacts DEF Grows
<1>2. T \in Seq(Token) /\ Full(r)' = T /\ Full(r) = text[r] /\ Len(text[r]) \in Nat
      /\ Len(text[r]) <= Len(T) - n /\ n \in Nat
  <2>1. T \in Seq(Token) BY <1>1
  <2>2. Full(r)' = T BY DEF Full, Grows
  <2>3. Full(r) = text[r] BY <1>1 DEF Full
  <2>4. Len(text[r]) \in Nat BY <1>1
  <2>5. n \in Nat /\ Len(T) \in Nat BY <2>1
  <2>6. PICK L \in Nat : L = Len(text[r]) BY <2>4
  <2> HIDE DEF T
  <2>7. L <= Len(T) - n BY <2>5, <2>6 DEF T
  <2> QED BY <2>1, <2>2, <2>3, <2>4, <2>5, <2>6, <2>7
<1>3. Live' = Live /\ Cached' = Cached /\ Live \subseteq Request
      /\ \A q \in Live : q # r => pages'[q] = pages[q] /\ Full(q)' = Full(q)
  BY DEF Grows, Live, Cached, Full
<1>4. \A g \in Completed(T, n) :
        /\ g \in Nat /\ (g + 1) * Ratio <= Len(new) * PageSize
        /\ g \div K + 1 \in 1 .. Len(new) /\ new \in Seq(Page)
        /\ new[g \div K + 1] \notin Cached
        /\ \A q \in Live : q # r => \A j \in DOMAIN pages[q] : pages[q][j] # new[g \div K + 1]
  BY <1>2, HitPage
<1>5. /\ new \in Seq(Page) /\ DOMAIN new = 1 .. Len(new)
      /\ \A i, j \in DOMAIN new : new[i] = new[j] => i = j
      /\ Len(pages[r]) <= Len(new)
      /\ \A i \in 1 .. Len(pages[r]) : new[i] = pages[r][i]
  <2>1. r \in Live' BY <1>1, <1>3
  <2>2. new \in Seq(Page) BY <1>1 DEF Grows
  <2>3. Len(t \o w) \in Nat BY <1>2
  <2>4. new \in Grown(pages[r], Len(t \o w)) BY DEF Grows
  <2>5. Len(pages[r]) <= Len(new) /\ \A i \in 1 .. Len(pages[r]) : new[i] = pages[r][i]
    BY <2>3, <2>4, <1>1, GrownFacts
  <2> QED BY <2>1, <2>2, <2>5 DEF PagesCover
<1> HIDE DEF T, new
\* Where the groups of the row of pages are written.
<1>6. \A g \in Completed(T, n) :
        /\ g % K \in 0 .. K - 1 /\ new[g \div K + 1] \in Page
        /\ WriteSlot(new, g) = new[g \div K + 1] * K + (g % K)
  BY <1>4, SlotFacts
<1>7. \A g \in Nat : g = (g \div K) * K + (g % K) /\ g \div K \in Nat
  <2> TAKE g \in Nat
  <2>1. g \in Int /\ K \in Nat \ {0} BY PageOfGroups
  <2>2. g = (g \div K) * K + (g % K) BY <2>1, DivMod
  <2>3. g \div K \in Nat BY <2>1, DivNat
  <2> QED BY <2>2, <2>3
\* No other page, and no other place of the same page, is written.
<1>8. ASSUME NEW p \in Page, NEW m \in 0 .. K - 1,
             NEW g \in Completed(T, n), WriteSlot(new, g) = p * K + m
      PROVE  new[g \div K + 1] = p /\ g % K = m
  BY <1>6, <1>8, PageSlots
<1> DEFINE Hit(s) == \E g \in Completed(T, n) : WriteSlot(new, g) = s
<1>9. \A s \in CompIndex :
        comp'[s] = IF Hit(s)
                   THEN value[CHOOSE g \in Completed(T, n) : WriteSlot(new, g) = s]
                   ELSE IF s = 0 THEN NoGroup ELSE comp[s]
  BY DEF Compress, T, new
<1>10. ASSUME NEW p \in Page, NEW m \in 0 .. K - 1, ~ Hit(p * K + m)
       PROVE  comp'[p * K + m] = comp[p * K + m]
  <2>1. p * K + m \in CompIndex /\ p * K + m # 0 BY PageSlots
  <2> HIDE DEF Hit
  <2> QED BY <2>1, <1>9, <1>10
<1>11. ASSUME NEW g \in Completed(T, n) PROVE comp'[WriteSlot(new, g)] = GroupOf(T, g)
  <2>1. \A h \in Completed(T, n) : WriteSlot(new, h) = WriteSlot(new, g) => h = g
    <3> SUFFICES ASSUME NEW h \in Completed(T, n), WriteSlot(new, h) = WriteSlot(new, g)
                 PROVE  h = g
      OBVIOUS
    <3>1. new[h \div K + 1] = new[g \div K + 1] /\ h % K = g % K
      BY <1>6, <1>8
    <3>2. h \div K + 1 \in DOMAIN new /\ g \div K + 1 \in DOMAIN new /\ g \in Nat /\ h \in Nat
      BY <1>4, <1>5
    <3>3. h \div K + 1 = g \div K + 1 BY <3>1, <3>2, <1>5
    <3>4. h \div K = g \div K BY <3>2, <3>3, <1>7
    <3> QED BY <3>1, <3>2, <3>4, <1>7
  <2>2. (CHOOSE h \in Completed(T, n) : WriteSlot(new, h) = WriteSlot(new, g)) = g
    BY <2>1
  <2>3. WriteSlot(new, g) \in CompIndex BY <1>6, PageSlots
  <2>4. Hit(WriteSlot(new, g)) OBVIOUS
  <2>5. value[g] = GroupOf(T, g) BY DEF T
  <2> HIDE DEF Hit
  <2> QED BY <2>2, <2>3, <2>4, <2>5, <1>9
<1>12. TreeServesGroups'
  <2>1. ASSUME NEW p \in Cached, NEW m \in 0 .. K - 1
        PROVE  comp'[p * K + m] = comp[p * K + m]
    <3>1. p \in Page BY DEF Cached
    <3>2. ~ Hit(p * K + m)
      <4> SUFFICES ASSUME NEW g \in Completed(T, n), WriteSlot(new, g) = p * K + m
                   PROVE  FALSE
        OBVIOUS
      <4>1. new[g \div K + 1] = p BY <3>1, <1>8
      <4> QED BY <4>1, <1>4
    <3> HIDE DEF Hit
    <3> QED BY <3>1, <3>2, <1>10
  <2>2. cached' = cached BY DEF Grows
  <2> HIDE DEF Hit
  <2> QED BY <2>1, <2>2, <1>3 DEF TreeServesGroups
<1>13. ReadersSeeOwnGroups'
  <2>1. ASSUME NEW q \in Live, q # r, NEW g \in 0 .. (Len(Full(q)) \div Ratio) - 1
        PROVE  comp'[ReadSlot(pages[q], g)] = GroupOf(Full(q), g)
    <3>1. g \in Nat /\ (g + 1) * Ratio <= Len(pages[q]) * PageSize BY LiveGroup
    <3>2. pages[q] \in Seq(Page) /\ DOMAIN pages[q] = 1 .. Len(pages[q]) BY LiveFacts
    <3>3. PICK j \in DOMAIN pages[q], m \in 0 .. K - 1 :
            pages[q][j] \in Page /\ ReadSlot(pages[q], g) = pages[q][j] * K + m
      <4> DEFINE i == g \div K + 1
      <4>1. /\ i \in 1 .. Len(pages[q]) /\ g % K \in 0 .. K - 1
            /\ WriteSlot(pages[q], g) = pages[q][i] * K + (g % K)
            /\ ReadSlot(pages[q], g) = WriteSlot(pages[q], g)
        BY <3>1, <3>2, SlotFacts
      <4> HIDE DEF i
      <4>2. i \in DOMAIN pages[q] /\ pages[q][i] \in Page
        BY <4>1, <3>2
      <4> QED BY <4>1, <4>2
    <3>4. ~ Hit(pages[q][j] * K + m)
      <4> SUFFICES ASSUME NEW h \in Completed(T, n), WriteSlot(new, h) = pages[q][j] * K + m
                   PROVE  FALSE
        OBVIOUS
      <4>1. new[h \div K + 1] = pages[q][j] BY <3>3, <1>8
      <4> QED BY <4>1, <1>4, <2>1
    <3> HIDE DEF Hit
    <3>5. comp'[ReadSlot(pages[q], g)] = comp[ReadSlot(pages[q], g)]
      BY <3>3, <3>4, <1>10
    <3> QED BY <3>5 DEF ReadersSeeOwnGroups
  <2>2. ASSUME NEW g \in 0 .. (Len(T) \div Ratio) - 1
        PROVE  comp'[ReadSlot(new, g)] = GroupOf(T, g)
    <3>1. g \in Nat /\ (g + 1) * Ratio \in Nat /\ (g + 1) * Ratio <= Len(T)
          /\ (g + 1) * Ratio <= Len(new) * PageSize
      <4>1. g \in Nat /\ (g + 1) * Ratio \in Nat /\ (g + 1) * Ratio <= Len(T)
        BY <1>2, GroupBelow
      <4>2. r \in Live' /\ PagesCover' BY <1>1, <1>3
      <4>3. Len(T) <= Len(new) * PageSize BY <4>2, <1>2 DEF PagesCover, new
      <4>4. PICK c \in Nat : c = Len(new)
        <5>1. new \in Seq(Page) BY <1>5
        <5> QED BY <5>1
      <4>5. c * PageSize \in Nat BY PageOfGroups
      <4>6. \A x, y, z \in Nat : x <= y /\ y <= z => x <= z OBVIOUS
      <4> QED BY <4>1, <4>3, <4>4, <4>5, <4>6, <1>2
    <3>2. /\ g \div K + 1 \in 1 .. Len(new) /\ g % K \in 0 .. K - 1
          /\ WriteSlot(new, g) = new[g \div K + 1] * K + (g % K)
          /\ ReadSlot(new, g) = WriteSlot(new, g)
      BY <3>1, <1>5, SlotFacts
    <3>3. CASE g \in Completed(T, n) BY <3>2, <3>3, <1>11
    <3>4. CASE g \notin Completed(T, n)
      <4>1. (g + 1) * Ratio <= Len(text[r])
        <5>1. g \in 0 .. Len(T) \div Ratio
          <6>1. Len(T) \in Nat BY <1>2
          <6>2. Ratio \in Nat \ {0} BY PageOfGroups
          <6>3. Len(T) \div Ratio \in Nat BY <6>1, <6>2, DivNat
          <6> QED BY <6>3
        <5>2. (g + 1) * Ratio - 1 \notin Rows(T, n) BY <5>1, <3>4 DEF Completed
        <5>3. PICK x \in Nat, L \in Nat : x = (g + 1) * Ratio /\ L = Len(text[r])
          BY <3>1, <1>2
        <5>4. Len(T) = L + n BY <5>3 DEF T
        <5>5. x - 1 \notin L .. L + n - 1 /\ x <= L + n BY <5>2, <5>3, <5>4, <3>1, <1>2 DEF Rows
        <5>6. x <= L BY <5>3, <5>5, <1>2
        <5> QED BY <5>3, <5>6
      <4>2. /\ g \in 0 .. (Len(Full(r)) \div Ratio) - 1
            /\ (g + 1) * Ratio <= Len(pages[r]) * PageSize
        <5>1. g \in 0 .. (Len(Full(r)) \div Ratio) - 1 BY <4>1, <3>1, <1>1, <1>2, GroupLive
        <5> QED BY <5>1, <1>1, LiveGroup
      <4>3. /\ g \div K + 1 \in 1 .. Len(pages[r])
            /\ ReadSlot(pages[r], g) = pages[r][g \div K + 1] * K + (g % K)
        BY <4>2, <3>1, <1>1, SlotFacts
      <4>4. ReadSlot(new, g) = ReadSlot(pages[r], g) BY <4>3, <3>2, <1>5
      <4>5. comp[ReadSlot(pages[r], g)] = GroupOf(text[r], g)
        BY <4>2, <1>1, <1>2 DEF ReadersSeeOwnGroups
      <4>6. ~ Hit(new[g \div K + 1] * K + (g % K))
        <5> SUFFICES ASSUME NEW h \in Completed(T, n),
                            WriteSlot(new, h) = new[g \div K + 1] * K + (g % K)
                     PROVE  FALSE
          OBVIOUS
        <5>1. new[g \div K + 1] \in Page BY <3>2, <1>5
        <5>2. new[h \div K + 1] = new[g \div K + 1] /\ h % K = g % K
          BY <5>1, <3>2, <1>8
        <5>3. h \div K + 1 \in DOMAIN new /\ g \div K + 1 \in DOMAIN new /\ h \in Nat
          BY <3>2, <1>4, <1>5
        <5>4. h \div K + 1 = g \div K + 1 BY <5>2, <5>3, <1>5
        <5>5. h \div K = g \div K BY <5>3, <5>4, <3>1, <1>7
        <5>6. h = g BY <5>2, <5>3, <5>5, <3>1, <1>7
        <5> QED BY <5>6, <3>4
      <4> HIDE DEF Hit
      <4>7. comp'[ReadSlot(new, g)] = comp[ReadSlot(new, g)]
        <5>1. new[g \div K + 1] \in Page BY <3>2, <1>5
        <5> QED BY <5>1, <4>6, <3>2, <1>10
      <4>8. GroupOf(T, g) = GroupOf(text[r], g)
        <5>1. Len(text[r]) <= Len(T)
          <6>1. \A x, y, z \in Nat : x = y + z => y <= x OBVIOUS
          <6>2. Len(T) \in Nat BY <1>2
          <6> QED BY <6>1, <6>2, <1>2 DEF T
        <5>2. SubSeq(T, 1, Len(text[r])) = text[r] BY DEF T
        <5> QED BY <5>1, <5>2, <4>1, <3>1, <1>1, <1>2, GroupOfPrefix
      <4> QED BY <4>4, <4>5, <4>7, <4>8
    <3> QED BY <3>3, <3>4
  <2>3. r \in Live /\ pages'[r] = new BY <1>1 DEF new
  <2>4. \A q \in Live' : \A g \in 0 .. (Len(Full(q)') \div Ratio) - 1 :
          comp'[ReadSlot(pages'[q], g)] = GroupOf(Full(q)', g)
    <3> SUFFICES ASSUME NEW q \in Live, NEW g \in 0 .. (Len(Full(q)') \div Ratio) - 1
                 PROVE  comp'[ReadSlot(pages'[q], g)] = GroupOf(Full(q)', g)
      BY <1>3
    <3>1. CASE q = r BY <3>1, <2>2, <2>3, <1>2
    <3>2. CASE q # r
      <4>1. pages'[q] = pages[q] /\ Full(q)' = Full(q) BY <3>2, <1>3
      <4> QED BY <4>1, <3>2, <2>1
    <3> QED BY <3>1, <3>2
  <2> HIDE DEF Hit
  <2> QED BY <2>4 DEF ReadersSeeOwnGroups
<1> QED BY <1>12, <1>13

\* A forward that also leaves the pending group of the new length in the ring,
\* and the rings of the others alone, keeps the ring right.
LEMMA ForwardKeepsRing ==
    ASSUME TypeOK, PendingRing, RequestShape, NEW r, NEW t, NEW w, Grows(r, t, w),
           \A p \in PendingFrom(Len(t)) .. Len(t \o w) - 1 :
                ring'[RingSlot(r, p)] = Key(t \o w, p),
           \A q \in Request, p \in Nat : q # r /\ q # 0 =>
                ring'[RingSlot(q, p)] = ring[RingSlot(q, p)]
    PROVE  PendingRing'
<1>1. /\ Live' = Live /\ Full(r)' = t \o w /\ text'[r] = t
      /\ \A q \in Live : q # r => text'[q] = text[q] /\ Full(q)' = Full(q)
  BY DEF Grows, Live, Full
<1>2. ASSUME NEW q \in Live, q # r,
             NEW p \in PendingFrom(Len(text[q])) .. Len(Full(q)) - 1
      PROVE  ring'[RingSlot(q, p)] = Key(Full(q), p)
  <2>1. q \in Request /\ text[q] \in Seq(Token) /\ Full(q) \in Seq(Token)
        /\ q # 0
    BY LiveFacts DEF RequestShape, Live
  <2>2. PendingFrom(Len(text[q])) \in Nat
    <3>1. Len(text[q]) \in Nat BY <2>1
    <3> QED BY <3>1, PendingFacts
  <2>3. p \in Nat
    <3>1. Len(Full(q)) \in Nat BY <2>1
    <3> QED BY <3>1, <2>2
  <2>4. ring'[RingSlot(q, p)] = ring[RingSlot(q, p)] BY <2>1, <2>3, <1>2
  <2> QED BY <2>4 DEF PendingRing
<1>3. \A q \in Live' : \A p \in PendingFrom(Len(text'[q])) .. Len(Full(q)') - 1 :
        ring'[RingSlot(q, p)] = Key(Full(q)', p)
  <2> SUFFICES ASSUME NEW q \in Live,
                      NEW p \in PendingFrom(Len(text'[q])) .. Len(Full(q)') - 1
               PROVE  ring'[RingSlot(q, p)] = Key(Full(q)', p)
    BY <1>1
  <2>1. CASE q = r BY <2>1, <1>1
  <2>2. CASE q # r
    <3>1. text'[q] = text[q] /\ Full(q)' = Full(q) BY <2>2, <1>1
    <3> QED BY <3>1, <2>2, <1>2
  <2> QED BY <2>1, <2>2
<1> QED BY <1>3 DEF PendingRing

\* What a paged forward pools out of the ring.
LEMMA PagedKeepsContents ==
    ASSUME PInv, PInv', GInv, NEW r, NEW t, NEW w, Grows(r, t, w), window[r] = <<>>,
           NEW x \in Seq(Token), t \o w = text[r] \o x, Ratio - 1 + Len(x) <= Stride,
           PagedForward(r, text[r] \o x, Len(x))
    PROVE  GInv'
<1> USE DEF PInv, GInv
<1> DEFINE T == text[r] \o x  n == Len(x)  rg == PagedRing(r, T, n)
           value == [g \in Completed(T, n) |-> RingGroup(rg, r, g)]
<1>1. /\ r \in Request /\ r \in Live /\ text[r] \in Seq(Token) /\ pages[r] \in Seq(Page)
      /\ Len(text[r]) \in Nat /\ t \in Seq(Token) /\ w \in Seq(Token)
      /\ Len(text[r]) <= Len(t)
  <2>1. /\ r \in Request /\ r \in Live /\ text[r] \in Seq(Token) /\ pages[r] \in Seq(Page)
        /\ t \in Seq(Token) /\ w \in Seq(Token) /\ Len(text[r]) <= Len(t)
    BY LiveFacts DEF Grows
  <2>2. Len(text[r]) \in Nat BY <2>1
  <2> QED BY <2>1, <2>2
<1>2. T \in Seq(Token) /\ Len(T) = Len(text[r]) + n /\ n \in Nat
      /\ SubSeq(T, 1, Len(text[r])) = text[r] /\ Len(T) \in Nat
  BY <1>1, ConcatFacts
<1>3. pages' = [pages EXCEPT ![r] = pages'[r]] /\ ring' = rg
      /\ comp' = Compress(pages'[r], T, n, value)
  <2>1. PICK tbl \in Grown(pages[r], Len(T)) :
          pages' = [pages EXCEPT ![r] = tbl] /\ ring' = rg /\ comp' = Compress(tbl, T, n, value)
    BY DEF PagedForward
  <2>2. pages'[r] = tbl BY <2>1, <1>1 DEF TypeOK
  <2> QED BY <2>1, <2>2
<1>4. /\ \A p \in PendingFrom(Len(text[r])) .. Len(T) - 1 : ring'[RingSlot(r, p)] = Key(T, p)
      /\ \A q \in Request, p \in Nat : q # r => ring'[RingSlot(q, p)] = ring[RingSlot(q, p)]
  BY <1>1, <1>3, PagedRingKeys
<1> HIDE DEF T, n, rg
<1>5. ASSUME NEW g \in Completed(T, n) PROVE value[g] = GroupOf(T, g)
  <2>1. n \in 0 .. Len(T) BY <1>1, <1>2
  <2>2. /\ g \in Nat /\ g * Ratio \in Nat /\ (g + 1) * Ratio = g * Ratio + Ratio
        /\ (g + 1) * Ratio <= Len(T) /\ (g + 1) * Ratio > Len(T) - n
    BY <1>2, <2>1, CompletedFacts
  <2>3. PendingFrom(Len(text[r])) <= g * Ratio /\ PendingFrom(Len(text[r])) \in Nat
    <3>1. PICK L \in Nat : L = Len(text[r]) BY <1>1
    <3>2. (g + 1) * Ratio > L BY <3>1, <2>2, <1>2
    <3> QED BY <3>1, <3>2, <2>2, PendingFacts
  <2>4. ASSUME NEW i \in 0 .. Ratio - 1
        PROVE  rg[RingSlot(r, g * Ratio + i)] = Key(T, g * Ratio + i)
    <3>1. PICK y \in Nat : y = g * Ratio BY <2>2
    <3>2. Ratio \in Nat BY PageOfGroups
    <3>3. y + i \in PendingFrom(Len(text[r])) .. Len(T) - 1
      BY <3>1, <3>2, <2>2, <2>3, <1>2
    <3> QED BY <3>1, <3>3, <1>3, <1>4
  <2> QED BY <2>4 DEF RingGroup, GroupOf
<1>6. ReadersSeeOwnGroups' /\ TreeServesGroups'
  <2>1. T = t \o w BY DEF T
  <2>2. n \in 0 .. Len(T) BY <1>1, <1>2
  <2>3. n \in 0 .. Len(t \o w) /\ Len(t \o w) = Len(text[r]) + n
    BY <2>1, <2>2, <1>2
  <2>4. SubSeq(t \o w, 1, Len(text[r])) = text[r] BY <2>1, <1>2
  <2> HIDE DEF value
  <2>5. comp' = Compress(pages'[r], t \o w, n, value) BY <2>1, <1>3
  <2>6. \A g \in Completed(t \o w, n) : value[g] = GroupOf(t \o w, g)
    BY <2>1, <1>5
  <2> QED BY <2>3, <2>4, <2>5, <2>6, ForwardKeepsGroups, ZenonT(60)
<1>7. PendingRing'
  <2>1. T = t \o w BY DEF T
  <2>2. \A p \in PendingFrom(Len(t)) .. Len(T) - 1 : p \in PendingFrom(Len(text[r])) .. Len(T) - 1
    <3>1. PICK L \in Nat, m \in Nat : L = Len(text[r]) /\ m = Len(t) BY <1>1
    <3>2. L <= m BY <3>1, <1>1
    <3>3. PendingFrom(L) \in Nat /\ PendingFrom(m) \in Nat /\ PendingFrom(L) <= PendingFrom(m)
      BY <3>2, PendingFacts
    <3> QED BY <3>1, <3>3, <1>2
  <2> QED BY <2>1, <2>2, <1>4, ForwardKeepsRing
<1> QED BY <1>6, <1>7

\* What an extend chunk pools out of its own rows.
LEMMA ExtendKeepsContents ==
    ASSUME PInv, GInv, NEW r \in Request, Extend(r)
    PROVE  GInv'
<1> USE DEF PInv, GInv
<1>1. /\ PInv' /\ r # 0 /\ window[r] = <<>> /\ Len(text[r]) % Ratio = 0
      /\ \E x \in Seq(Token) : /\ Grows(r, text[r] \o x, <<>>)
                               /\ ExtendForward(r, Len(text[r]), x)
  BY ExtendKeepsPInv
<1>2. PICK x \in Seq(Token) : /\ Grows(r, text[r] \o x, <<>>)
                              /\ ExtendForward(r, Len(text[r]), x)
  BY <1>1
<1> DEFINE T == text[r] \o x  n == Len(x)  prefix == Len(text[r])
           value == [g \in Completed(T, n) |->
                       [i \in 0 .. Ratio - 1 |-> Key(T, prefix + (g * Ratio - prefix) + i)]]
<1>3. r \in Live /\ text[r] \in Seq(Token) /\ pages[r] \in Seq(Page) /\ prefix \in Nat
  <2>1. r \in Live BY <1>2 DEF Grows
  <2>2. text[r] \in Seq(Token) /\ pages[r] \in Seq(Page) BY <2>1, LiveFacts
  <2> QED BY <2>1, <2>2
<1>4. T \in Seq(Token) /\ Len(T) = prefix + n /\ n \in Nat
      /\ SubSeq(T, 1, prefix) = text[r] /\ Len(T) \in Nat /\ T \o <<>> = T
  BY <1>3, ConcatFacts
<1>5. ring' = ExtendRing(r, T, n) /\ comp' = Compress(pages'[r], T, n, value)
  <2>1. PICK tbl \in Grown(pages[r], Len(T)) :
          pages' = [pages EXCEPT ![r] = tbl] /\ ring' = ExtendRing(r, T, n)
          /\ comp' = Compress(tbl, T, n, value)
    BY <1>2 DEF ExtendForward
  <2>2. pages'[r] = tbl BY <2>1 DEF TypeOK
  <2> QED BY <2>1, <2>2
<1>6. /\ \A p \in PendingFrom(Len(T)) .. Len(T) - 1 : ring'[RingSlot(r, p)] = Key(T, p)
      /\ \A q \in Request, p \in Nat :
            q # r /\ q # 0 => ring'[RingSlot(q, p)] = ring[RingSlot(q, p)]
  BY <1>1, <1>3, <1>5, ExtendRingKeys
<1>7. Grows(r, T, <<>>) BY <1>2
<1> HIDE DEF T, n, prefix
<1>8. ASSUME NEW g \in Completed(T, n) PROVE value[g] = GroupOf(T, g)
  <2>1. n \in 0 .. Len(T) BY <1>3, <1>4
  <2>2. g * Ratio \in Nat BY <1>4, <2>1, CompletedFacts
  <2>3. \A i \in 0 .. Ratio - 1 : prefix + (g * Ratio - prefix) + i = g * Ratio + i
    <3>1. PICK y \in Nat : y = g * Ratio BY <2>2
    <3>2. \A i \in 0 .. Ratio - 1 : prefix + (y - prefix) + i = y + i
      BY <1>3, PageOfGroups
    <3> QED BY <3>1, <3>2
  <2> QED BY <2>3 DEF GroupOf
<1>9. PendingRing'
  BY <1>4, <1>6, <1>7, ForwardKeepsRing
<1>10. ReadersSeeOwnGroups' /\ TreeServesGroups'
  <2>0. PICK e : e = <<>> OBVIOUS
  <2>1. n \in 0 .. Len(T \o e) /\ Len(T \o e) = prefix + n BY <2>0, <1>3, <1>4
  <2>2. SubSeq(T \o e, 1, Len(text[r])) = text[r] /\ Len(T \o e) = Len(text[r]) + n
    BY <2>0, <2>1, <1>4 DEF prefix
  <2> HIDE DEF value
  <2>3. comp' = Compress(pages'[r], T \o e, n, value) BY <2>0, <1>4, <1>5
  <2>4. \A g \in Completed(T \o e, n) : value[g] = GroupOf(T \o e, g)
    BY <2>0, <1>4, <1>8
  <2>6. Grows(r, T, e) BY <2>0, <1>7
  <2>5. PInv' /\ window[r] = <<>> BY <1>1
  <2> HIDE DEF PInv
  <2> QED BY <2>1, <2>2, <2>3, <2>4, <2>5, <2>6, ForwardKeepsGroups
<1> QED BY <1>9, <1>10

LEMMA DecodeKeepsContents ==
    ASSUME PInv, GInv, NEW r \in Request, Decode(r)
    PROVE  GInv'
<1>1. /\ PInv' /\ window[r] = <<>>
      /\ \E x \in Seq(Token) : /\ Len(x) = 1 /\ Grows(r, text[r] \o x, <<>>)
                               /\ PagedForward(r, text[r] \o x, Len(x))
  BY DecodeKeepsPInv
<1>2. PICK x \in Seq(Token) : /\ Len(x) = 1 /\ Grows(r, text[r] \o x, <<>>)
                              /\ PagedForward(r, text[r] \o x, Len(x))
  BY <1>1
<1>3. (text[r] \o x) \o <<>> = text[r] \o x
  BY <1>2 DEF PInv, TypeOK
<1>4. Ratio - 1 + Len(x) <= Stride
  <2>1. Ratio \in Nat /\ Stride \in Nat /\ Stride >= Ratio BY PageOfGroups, StrideFacts
  <2> QED BY <2>1, <1>2
<1> QED BY <1>1, <1>2, <1>3, <1>4, PagedKeepsContents

LEMMA VerifyKeepsContents ==
    ASSUME PInv, GInv, RingFits, NEW r \in Request, Verify(r)
    PROVE  GInv'
<1>1. /\ PInv' /\ window[r] = <<>> /\ DraftTokens \in 1 .. VerifyLimit
      /\ \E x \in Seq(Token) : /\ Len(x) = DraftTokens /\ Grows(r, text[r], x)
                               /\ PagedForward(r, text[r] \o x, Len(x))
  BY VerifyKeepsPInv
<1>2. PICK x \in Seq(Token) : /\ Len(x) = DraftTokens /\ Grows(r, text[r], x)
                              /\ PagedForward(r, text[r] \o x, Len(x))
  BY <1>1
<1>3. Ratio - 1 + Len(x) <= Stride BY <1>1, <1>2 DEF RingFits
<1> QED BY <1>1, <1>2, <1>3, PagedKeepsContents

\* A verdict leaves the request with a prefix of the rows it had stored.
LEMMA AcceptKeepsContents ==
    ASSUME PInv, GInv, NEW r \in Request, Accept(r)
    PROVE  GInv'
<1> USE DEF PInv, GInv
<1>1. PICK k \in 1 .. Len(window[r]) : text' = [text EXCEPT ![r] = @ \o SubSeq(window[r], 1, k)]
  BY DEF Accept
<1>2. /\ window[r] # <<>> /\ window' = [window EXCEPT ![r] = <<>>]
      /\ UNCHANGED <<phase, pages, cached, ring, comp>>
  BY DEF Accept
<1>3. /\ text[r] \in Seq(Token) /\ window[r] \in Seq(Token) /\ r \in Live
      /\ Full(r) = text[r] \o window[r] /\ Full(r) \in Seq(Token)
  BY <1>2, LiveFacts DEF RequestShape, Live, Full
<1> DEFINE t == text[r] \o SubSeq(window[r], 1, k)
<1>4. /\ t \in Seq(Token) /\ Len(t) = Len(text[r]) + k
      /\ t = SubSeq(Full(r), 1, Len(text[r]) + k)
  <2>1. k \in 0 .. Len(window[r]) BY <1>3
  <2>2. /\ t \in Seq(Token) /\ Len(t) = Len(text[r]) + k
        /\ t = SubSeq(text[r] \o window[r], 1, Len(text[r]) + k)
    BY <2>1, <1>3, ConcatPrefix
  <2> HIDE DEF t
  <2> QED BY <2>2, <1>3
<1>5. /\ Len(text[r]) \in Nat /\ Len(Full(r)) \in Nat /\ Len(t) \in Nat
      /\ Len(text[r]) <= Len(t) /\ Len(t) <= Len(Full(r))
  <2>1. PICK L \in Nat, m \in Nat : L = Len(text[r]) /\ m = Len(window[r]) BY <1>3
  <2>2. Len(Full(r)) = L + m BY <2>1, <1>3, LiveFacts
  <2>3. k \in Nat /\ k <= m BY <2>1
  <2>4. Len(t) = L + k BY <2>1, <1>4
  <2>5. \A x, y, z \in Nat : y <= z => /\ x <= x + y /\ x + y <= x + z
                                      /\ x + y \in Nat /\ x + z \in Nat
    OBVIOUS
  <2>6. /\ L <= L + k /\ L + k <= L + m /\ L + k \in Nat /\ L + m \in Nat
    BY <2>1, <2>3, <2>5
  <2> HIDE DEF t
  <2> QED BY ONLY <2>1, <2>2, <2>4, <2>6
<1>6. /\ Live' = Live /\ text'[r] = t /\ Full(r)' = t
      /\ \A q \in Live : q # r => text'[q] = text[q] /\ Full(q)' = Full(q)
  <2>1. t \o <<>> = t BY <1>4
  <2> QED BY <2>1, <1>1, <1>2, <1>3 DEF Live, Full, TypeOK
<1> HIDE DEF t
<1>7. SubSeq(Full(r), 1, Len(t)) = t BY <1>4
<1>8. PendingRing'
  <2>1. ASSUME NEW p \in PendingFrom(Len(t)) .. Len(t) - 1 PROVE ring[RingSlot(r, p)] = Key(t, p)
    <3>1. PICK L \in Nat, m \in Nat, f \in Nat : L = Len(text[r]) /\ m = Len(t) /\ f = Len(Full(r))
      BY <1>5
    <3>2. PendingFrom(L) \in Nat /\ PendingFrom(m) \in Nat /\ PendingFrom(L) <= PendingFrom(m)
      BY <3>1, <1>5, PendingFacts
    <3>3. p \in PendingFrom(L) .. f - 1 /\ p \in 0 .. m - 1 BY <3>1, <3>2, <1>5
    <3>4. ring[RingSlot(r, p)] = Key(Full(r), p) BY <3>1, <3>3, <1>3 DEF PendingRing
    <3>5. Key(Full(r), p) = Key(t, p) BY <3>1, <3>3, <1>3, <1>4, <1>5, <1>7, KeyOfPrefix
    <3> QED BY <3>4, <3>5
  <2> QED BY <2>1, <1>2, <1>6 DEF PendingRing
<1>9. ReadersSeeOwnGroups'
  <2>1. ASSUME NEW g \in 0 .. (Len(t) \div Ratio) - 1
        PROVE  comp[ReadSlot(pages[r], g)] = GroupOf(t, g)
    <3>1. g \in Nat /\ (g + 1) * Ratio \in Nat /\ (g + 1) * Ratio <= Len(t) BY <1>4, GroupBelow
    <3>2. (g + 1) * Ratio <= Len(Full(r))
      <4>1. \A x, y, z \in Nat : x <= y /\ y <= z => x <= z OBVIOUS
      <4> QED BY <4>1, <3>1, <1>5
    <3>3. g \in 0 .. (Len(Full(r)) \div Ratio) - 1 BY <3>1, <3>2, <1>3, GroupLive
    <3>4. GroupOf(Full(r), g) = GroupOf(t, g)
      BY <3>1, <1>3, <1>4, <1>5, <1>7, GroupOfPrefix
    <3> QED BY <3>3, <3>4, <1>3 DEF ReadersSeeOwnGroups
  <2> QED BY <2>1, <1>2, <1>6 DEF ReadersSeeOwnGroups
<1>10. TreeServesGroups'
  BY <1>2 DEF TreeServesGroups, Cached
<1> QED BY <1>8, <1>9, <1>10

\* A request that takes a prefix from the tree sees the groups of that prefix.
LEMMA AdmitKeepsContents ==
    ASSUME PInv, GInv, NEW r \in Request, Admit(r)
    PROVE  GInv'
<1> USE DEF PInv, GInv
<1>1. PICK c \in {<<>>} \cup {cached[p] : p \in Cached} :
        /\ text' = [text EXCEPT ![r] = c]
        /\ pages' = [pages EXCEPT ![r] = [i \in 1 .. FullPages(c) |-> Node(PagePrefix(c, i))]]
  BY DEF Admit
<1>2. /\ phase[r] = "free" /\ phase' = [phase EXCEPT ![r] = "prefill"]
      /\ UNCHANGED <<window, cached, ring, comp>>
  BY DEF Admit
<1>3. c \in Seq(Token) /\ FullPages(c) \in Nat
      /\ \A i \in 1 .. FullPages(c) : \E p \in Cached : cached[p] = PagePrefix(c, i)
  <2>1. CASE c = <<>>
    <3>1. c \in Seq(Token) /\ Len(c) = 0 BY <2>1
    <3>2. PageSize \in Nat \ {0} BY PageOfGroups
    <3>3. FullPages(c) = 0
      <4>1. (0 * PageSize + 0) \div PageSize = 0
        <5>1. 0 \in Int /\ 0 \in 0 .. PageSize - 1 BY <3>2
        <5> QED BY <5>1, <3>2, DivUnique
      <4>2. 0 * PageSize + 0 = 0 BY <3>2
      <4> QED BY <4>1, <4>2, <3>1 DEF FullPages
    <3> QED BY <3>1, <3>3
  <2>2. CASE c # <<>>
    <3>1. PICK p \in Cached : c = cached[p] BY <2>2, <1>1
    <3>2. c \in Seq(Token) BY <3>1 DEF TypeOK, Cached
    <3> QED BY <3>1, <3>2, PrefixFacts DEF TreeClosed
  <2> QED BY <2>1, <2>2
<1>4. Len(c) \in Nat /\ Len(c) % PageSize = 0 /\ PInv'
  <2>1. PInv' BY AdmitKeepsPInv
  <2>2. text'[r] = c /\ phase'[r] = "prefill" BY <1>1, <1>2 DEF TypeOK
  <2>3. Len(c) % PageSize = 0 BY <2>1, <2>2 DEF RequestShape
  <2> QED BY <1>3, <2>1, <2>3
<1> DEFINE row == [i \in 1 .. FullPages(c) |-> Node(PagePrefix(c, i))]
<1>5. /\ Live' = Live \cup {r} /\ r \notin Live
      /\ text'[r] = c /\ Full(r)' = c /\ pages'[r] = row
      /\ \A q \in Live : pages'[q] = pages[q] /\ text'[q] = text[q] /\ Full(q)' = Full(q)
  <2>1. window[r] = <<>> BY <1>2 DEF RequestShape
  <2>2. c \o <<>> = c BY <1>3
  <2> QED BY <2>1, <2>2, <1>1, <1>2 DEF Live, Full, TypeOK
<1>6. PendingRing'
  <2>1. PendingFrom(Len(c)) = Len(c)
    <3>1. Len(c) % Ratio = 0 BY <1>3, <1>4, GroupAligned
    <3> QED BY <3>1, <1>4, PendingFacts
  <2>2. PendingFrom(Len(c)) .. Len(c) - 1 = {} BY <2>1, <1>4
  <2> QED BY <2>2, <1>2, <1>5 DEF PendingRing
<1>7. ReadersSeeOwnGroups'
  <2>1. ASSUME NEW g \in 0 .. (Len(c) \div Ratio) - 1
        PROVE  comp[ReadSlot(row, g)] = GroupOf(c, g)
    <3>1. g \in Nat /\ (g + 1) * Ratio \in Nat /\ (g + 1) * Ratio <= Len(c)
      BY <1>3, GroupBelow
    <3>2. row \in Seq(Page) /\ Len(row) = FullPages(c)
      <4>1. \A i \in 1 .. FullPages(c) : row[i] \in Page BY <1>3, NodeFacts
      <4>2. PICK n \in Nat : n = FullPages(c) BY <1>3
      <4>3. row \in [1 .. n -> Page] BY <4>1, <4>2
      <4> HIDE DEF row
      <4> QED BY <4>2, <4>3
    <3>3. (g + 1) * Ratio <= Len(row) * PageSize
      <4>1. Len(c) = FullPages(c) * PageSize
        <5>1. Len(c) \in Int /\ PageSize \in Nat \ {0} BY <1>4, PageOfGroups
        <5>2. Len(c) = (Len(c) \div PageSize) * PageSize + (Len(c) % PageSize)
          BY <5>1, DivMod
        <5>3. (Len(c) \div PageSize) * PageSize \in Int BY <5>1, <1>3 DEF FullPages
        <5> QED BY <5>2, <5>3, <1>4 DEF FullPages
      <4> QED BY <4>1, <3>1, <3>2
    <3> DEFINE i == g \div GroupsPerPage + 1  m == g % GroupsPerPage
    <3>4. /\ i \in 1 .. FullPages(c) /\ m \in 0 .. GroupsPerPage - 1
          /\ ReadSlot(row, g) = row[i] * GroupsPerPage + m
      BY <3>1, <3>2, <3>3, SlotFacts
    <3>5. row[i] \in Cached /\ cached[row[i]] = PagePrefix(c, i)
      BY <3>4, <1>3, NodeFacts
    <3>6. (i - 1) * GroupsPerPage + m = g
      <4>1. g \in Int /\ GroupsPerPage \in Nat \ {0} BY <3>1, PageOfGroups
      <4>2. g = (g \div GroupsPerPage) * GroupsPerPage + m BY <4>1, DivMod
      <4>3. i - 1 = g \div GroupsPerPage
        <5>1. g \div GroupsPerPage \in Nat BY <3>1, GroupInPage
        <5> QED BY <5>1
      <4> HIDE DEF i, m
      <4> QED BY <4>2, <4>3
    <3> HIDE DEF i, m, row
    <3> QED BY <3>4, <3>5, <3>6, <1>3, PageServes
  <2>2. \A q \in Live : \A g \in 0 .. (Len(Full(q)') \div Ratio) - 1 :
          comp[ReadSlot(pages'[q], g)] = GroupOf(Full(q)', g)
    BY <1>5 DEF ReadersSeeOwnGroups
  <2> HIDE DEF row
  <2> QED BY <2>1, <2>2, <1>2, <1>5 DEF ReadersSeeOwnGroups
<1>8. TreeServesGroups'
  BY <1>2 DEF TreeServesGroups, Cached
<1> QED BY <1>6, <1>7, <1>8

\* Handing a request's full pages to the tree: each new node serves the groups
\* the request read there.
LEMMA InsertKeepsTree ==
    ASSUME PInv, GInv, NEW r \in Live, window[r] = <<>>,
           cached' = InsertedTree(r), comp' = comp
    PROVE  TreeServesGroups'
<1> USE DEF PInv, GInv
<1>1. /\ text[r] \in Seq(Token) /\ Full(r) = text[r] /\ pages[r] \in Seq(Page)
      /\ FullPages(text[r]) \in Nat
  BY LiveFacts, PrefixFacts DEF Full
<1>2. /\ \A p \in Cached : p \in Cached' /\ cached'[p] = cached[p]
      /\ \A i \in 1 .. FullPages(text[r]) : ~InTree(r, i) =>
            pages[r][i] \in Cached' /\ cached'[pages[r][i]] = PagePrefix(text[r], i)
      /\ \A p \in Cached' : \/ p \in Cached
                            \/ \E i \in 1 .. FullPages(text[r]) :
                                   ~InTree(r, i) /\ pages[r][i] = p
  BY InsertFacts
<1>3. ASSUME NEW i \in 1 .. FullPages(text[r]), ~InTree(r, i), NEW m \in 0 .. GroupsPerPage - 1
      PROVE  LET c == PagePrefix(text[r], i)
             IN  comp[pages[r][i] * GroupsPerPage + m] =
                    GroupOf(c, (Len(c) \div Ratio) - GroupsPerPage + m)
  <2> DEFINE c == PagePrefix(text[r], i)  g == (i - 1) * GroupsPerPage + m
  <2>1. /\ g \in Nat /\ (g + 1) * Ratio <= Len(text[r])
        /\ g \div GroupsPerPage + 1 = i /\ g % GroupsPerPage = m
        /\ (Len(c) \div Ratio) - GroupsPerPage + m = g
        /\ GroupOf(c, g) = GroupOf(text[r], g)
    BY <1>1, NodeGroup
  <2> HIDE DEF c, g
  <2>2. g \in 0 .. (Len(Full(r)) \div Ratio) - 1 BY <2>1, <1>1, GroupLive
  <2>3. (g + 1) * Ratio <= Len(pages[r]) * PageSize BY <2>2, LiveGroup
  <2>4. ReadSlot(pages[r], g) = pages[r][i] * GroupsPerPage + m
    BY <2>1, <2>3, <1>1, SlotFacts
  <2>5. comp[ReadSlot(pages[r], g)] = GroupOf(text[r], g)
    BY <2>2, <1>1 DEF ReadersSeeOwnGroups
  <2> QED BY <2>1, <2>4, <2>5 DEF c
<1>4. ASSUME NEW p \in Cached', NEW m \in 0 .. GroupsPerPage - 1
      PROVE  comp[p * GroupsPerPage + m] =
                GroupOf(cached'[p], (Len(cached'[p]) \div Ratio) - GroupsPerPage + m)
  <2>1. CASE p \in Cached BY <2>1, <1>2 DEF TreeServesGroups
  <2>2. CASE \E i \in 1 .. FullPages(text[r]) : ~InTree(r, i) /\ pages[r][i] = p
    BY <2>2, <1>2, <1>3
  <2> QED BY <2>1, <2>2, <1>2
<1> QED BY <1>4 DEF TreeServesGroups

LEMMA ReleaseKeepsContents ==
    ASSUME PInv, GInv, NEW r \in Request, Release(r)
    PROVE  GInv'
<1> USE DEF PInv, GInv
<1>1. /\ phase' = [phase EXCEPT ![r] = "free"]
      /\ text' = [text EXCEPT ![r] = <<>>] /\ pages' = [pages EXCEPT ![r] = <<>>]
      /\ cached' = InsertedTree(r) /\ UNCHANGED <<window, ring, comp>>
      /\ r \in Live /\ window[r] = <<>>
  BY DEF Release, Live
<1>2. TreeServesGroups' BY <1>1, InsertKeepsTree
<1>3. /\ Live' = Live \ {r}
      /\ \A q \in Live' : /\ pages'[q] = pages[q] /\ text'[q] = text[q]
                          /\ Full(q)' = Full(q)
  BY <1>1 DEF Live, Full, TypeOK
<1>4. PendingRing' BY <1>1, <1>3 DEF PendingRing
<1>5. ReadersSeeOwnGroups' BY <1>1, <1>3 DEF ReadersSeeOwnGroups
<1> QED BY <1>2, <1>4, <1>5

\* A request that gives its duplicate pages up reads the tree's, and they
\* hold the same groups.
LEMMA PublishKeepsContents ==
    ASSUME PInv, GInv, NEW r \in Request, Publish(r)
    PROVE  GInv'
<1> USE DEF PInv, GInv
<1> DEFINE old == pages[r]  new == InsertedPages(r)
<1>1. /\ pages' = [pages EXCEPT ![r] = new] /\ cached' = InsertedTree(r)
      /\ UNCHANGED <<phase, text, window, ring, comp>>
      /\ r \in Live /\ window[r] = <<>>
  BY DEF Publish, Live
<1>2. TreeServesGroups' BY <1>1, InsertKeepsTree
<1>3. /\ Live' = Live /\ text' = text /\ \A q \in Live : Full(q)' = Full(q)
      /\ pages'[r] = new /\ \A q \in Live : q # r => pages'[q] = pages[q]
  BY <1>1 DEF Live, Full, TypeOK
<1>4. PendingRing' BY <1>1, <1>3 DEF PendingRing
<1>5. /\ text[r] \in Seq(Token) /\ Full(r) = text[r] /\ Full(r) \in Seq(Token)
      /\ old \in Seq(Page) /\ DOMAIN old = 1 .. Len(old) /\ FullPages(text[r]) \in Nat
  BY <1>1, LiveFacts, PrefixFacts DEF Full
<1>6. \A i \in DOMAIN old :
        \/ /\ i <= FullPages(text[r]) /\ new[i] \in Cached /\ new[i] \in Page
           /\ cached[new[i]] = PagePrefix(text[r], i)
        \/ new[i] = old[i]
  BY NodeFacts DEF InsertedPages, InTree
<1>7. new \in Seq(Page) /\ Len(new) = Len(old)
  <2>1. PICK n \in Nat : n = Len(old) BY <1>5
  <2>2. new = [i \in 1 .. Len(old) |-> new[i]] BY <1>5 DEF InsertedPages
  <2>3. \A i \in 1 .. Len(old) : new[i] \in Page BY <1>5, <1>6
  <2> HIDE DEF new, old
  <2>4. new \in [1 .. n -> Page] BY <2>1, <2>2, <2>3
  <2>5. new \in Seq(Page) /\ Len(new) = n BY <2>4
  <2> QED BY <2>1, <2>5
<1>8. ASSUME NEW g \in 0 .. (Len(Full(r)) \div Ratio) - 1
      PROVE  comp[ReadSlot(new, g)] = GroupOf(Full(r), g)
  <2> DEFINE i == g \div GroupsPerPage + 1  m == g % GroupsPerPage
  <2>1. g \in Nat /\ (g + 1) * Ratio <= Len(old) * PageSize BY <1>1, LiveGroup
  <2> HIDE DEF new, old
  <2>2. /\ i \in 1 .. Len(old) /\ m \in 0 .. GroupsPerPage - 1
        /\ ReadSlot(old, g) = old[i] * GroupsPerPage + m
    BY <2>1, <1>5, SlotFacts
  <2>3. (g + 1) * Ratio <= Len(new) * PageSize BY <2>1, <1>7
  <2>4. ReadSlot(new, g) = new[i] * GroupsPerPage + m
    BY <2>1, <2>3, <1>7, SlotFacts
  <2>5. comp[ReadSlot(old, g)] = GroupOf(Full(r), g)
    BY <1>1 DEF ReadersSeeOwnGroups, old
  <2>6. (i - 1) * GroupsPerPage + m = g
    <3>1. g \in Int /\ GroupsPerPage \in Nat \ {0} BY <2>1, PageOfGroups
    <3>2. g = (g \div GroupsPerPage) * GroupsPerPage + m BY <3>1, DivMod
    <3>3. i - 1 = g \div GroupsPerPage
      <4>1. g \div GroupsPerPage \in Nat BY <2>1, GroupInPage
      <4> QED BY <4>1
    <3> HIDE DEF i, m
    <3> QED BY <3>2, <3>3
  <2> HIDE DEF i, m
  <2>7. CASE new[i] = old[i] BY <2>7, <2>2, <2>4, <2>5
  <2>8. CASE /\ i <= FullPages(text[r]) /\ new[i] \in Cached
             /\ cached[new[i]] = PagePrefix(text[r], i)
    <3>1. i \in 1 .. FullPages(text[r]) BY <2>2, <2>8, <1>5
    <3> QED BY <3>1, <2>2, <2>4, <2>6, <2>8, <1>5, PageServes
  <2> QED BY <2>2, <2>7, <2>8, <1>5, <1>6
<1> HIDE DEF new
<1>9. ReadersSeeOwnGroups'
  <2>1. \A q \in Live : \A g \in 0 .. (Len(Full(q)') \div Ratio) - 1 :
          comp[ReadSlot(pages'[q], g)] = GroupOf(Full(q)', g)
    <3> SUFFICES ASSUME NEW q \in Live, NEW g \in 0 .. (Len(Full(q)') \div Ratio) - 1
                 PROVE  comp[ReadSlot(pages'[q], g)] = GroupOf(Full(q)', g)
      OBVIOUS
    <3>1. CASE q = r BY <3>1, <1>3, <1>8
    <3>2. CASE q # r BY <3>2, <1>3 DEF ReadersSeeOwnGroups
    <3> QED BY <3>1, <3>2
  <2> QED BY <2>1, <1>1, <1>3 DEF ReadersSeeOwnGroups
<1> QED BY <1>2, <1>4, <1>9

LEMMA EvictKeepsContents ==
    ASSUME PInv, GInv, NEW p \in Page, Evict(p)
    PROVE  GInv'
<1> USE DEF PInv, GInv
<1>1. cached' = [cached EXCEPT ![p] = <<>>] /\ UNCHANGED <<phase, text, window, pages, ring, comp>>
  BY DEF Evict
<1>2. Live' = Live /\ \A r \in Live : Full(r)' = Full(r) BY <1>1 DEF Live, Full
<1>3. /\ Cached' \subseteq Cached
      /\ \A q \in Cached' : cached'[q] = cached[q]
  BY <1>1 DEF Cached, TypeOK
<1>4. PendingRing' BY <1>1, <1>2 DEF PendingRing
<1>5. ReadersSeeOwnGroups' BY <1>1, <1>2 DEF ReadersSeeOwnGroups
<1>6. TreeServesGroups' BY <1>1, <1>3 DEF TreeServesGroups
<1> QED BY <1>4, <1>5, <1>6

-----------------------------------------------------------------------------
(* Theorems *)

LEMMA InitContents == Init => GInv
<1> SUFFICES ASSUME Init PROVE GInv OBVIOUS
<1>1. Live = {} /\ Cached = {} BY DEF Init, Live, Cached
<1> QED BY <1>1 DEF GInv, PendingRing, ReadersSeeOwnGroups, TreeServesGroups

LEMMA NextContents ==
    ASSUME PInv, GInv, RingFits, [Next]_vars
    PROVE  GInv'
<1>1. ASSUME NEW r \in Request, RequestStep(r) PROVE GInv'
  BY <1>1, AdmitKeepsContents, ExtendKeepsContents, DecodeKeepsContents,
     VerifyKeepsContents, AcceptKeepsContents, PublishKeepsContents,
     ReleaseKeepsContents DEF RequestStep
<1>2. ASSUME NEW p \in Page, Evict(p) PROVE GInv'
  BY <1>2, EvictKeepsContents
<1>3. CASE UNCHANGED vars
  BY <1>3 DEF vars, GInv, PendingRing, ReadersSeeOwnGroups, TreeServesGroups,
     Live, Cached, Full
<1> QED BY <1>1, <1>2, <1>3 DEF Next

\* The whole inductive invariant, whenever the ring fits the verify window.
THEOREM Contents == RingFits => (Spec => []IInv)
<1> SUFFICES ASSUME RingFits PROVE Spec => []IInv OBVIOUS
<1>1. Init => PInv /\ GInv BY InitPInv, InitContents
<1>2. PInv /\ GInv /\ [Next]_vars => (PInv /\ GInv)' BY NextPInv, NextContents
<1>3. PInv /\ GInv => IInv BY DEF PInv, GInv, IInv
<1> QED BY <1>1, <1>2, <1>3, PTL DEF Spec

\* Every group a request scores was pooled from its own tokens, whatever the
\* other requests, rejected drafts, evictions and earlier tenants stored.
THEOREM GroupIntegrity == RingFits => (Spec => []ReadersSeeOwnGroups)
<1> SUFFICES ASSUME RingFits PROVE Spec => []ReadersSeeOwnGroups OBVIOUS
<1>1. Spec => []IInv BY Contents
<1>2. IInv => ReadersSeeOwnGroups BY DEF IInv
<1> QED BY <1>1, <1>2, PTL

\* The ring holds the pending group and the verify rows of every live request.
THEOREM RingIntegrity == RingFits => (Spec => []PendingRing)
<1> SUFFICES ASSUME RingFits PROVE Spec => []PendingRing OBVIOUS
<1>1. Spec => []IInv BY Contents
<1>2. IInv => PendingRing BY DEF IInv
<1> QED BY <1>1, <1>2, PTL

\* Every page the tree may hand out is complete.
THEOREM TreeIntegrity == RingFits => (Spec => []TreeServesGroups)
<1> SUFFICES ASSUME RingFits PROVE Spec => []TreeServesGroups OBVIOUS
<1>1. Spec => []IInv BY Contents
<1>2. IInv => TreeServesGroups BY DEF IInv
<1> QED BY <1>1, <1>2, PTL

\* Writer and readers address one slot, with or without room in the ring.
THEOREM OneAddress == Spec => []ReadersMeetWriter
<1>1. ASSUME PInv PROVE ReadersMeetWriter
  <2>1. ASSUME NEW r \in Live, NEW g \in 0 .. (Len(Full(r)) \div Ratio) - 1
        PROVE  ReadSlot(pages[r], g) = WriteSlot(pages[r], g)
    <3>1. g \in Nat /\ (g + 1) * Ratio <= Len(pages[r]) * PageSize
      BY <1>1, LiveGroup DEF PInv
    <3>2. pages[r] \in Seq(Page) BY <1>1, LiveFacts DEF PInv
    <3> QED BY <3>1, <3>2, SlotFacts
  <2> QED BY <2>1 DEF ReadersMeetWriter
<1> QED BY <1>1, PageDiscipline, PTL

\* The device assertion of the write plan holds on every chunk.
THEOREM AlignedChunks == Spec => []ChunksStartOnGroups
<1>1. ASSUME PInv PROVE ChunksStartOnGroups
  BY <1>1, LiveFacts, GroupAligned DEF PInv, RequestShape, ChunksStartOnGroups
<1> QED BY <1>1, PageDiscipline, PTL

\* A widened ring always has the room, for every window the backend lets
\* through; without drafts, and with a window of one row, so has every ring.
THEOREM WidenedRingFits == Stride > Ratio \/ DraftTokens <= 1 => RingFits
<1>1. Ratio \in Nat \ {0} /\ Stride \in Nat /\ Stride >= Ratio /\ DraftTokens \in Nat
  <2>1. Stride \in Nat /\ Stride >= Ratio BY StrideFacts
  <2> QED BY <2>1, PageOfGroups, QsaAssumption
<1> QED BY <1>1 DEF RingFits, VerifyLimit

\* The stock ring has not: with two or more rows, which the backend lets
\* through up to the ratio, the first member of a pending group that lacks
\* only its last one shares its slot with a row of the verify window.
THEOREM StockRingCollides ==
    ASSUME Stride = Ratio, DraftTokens \in 2 .. VerifyLimit,
           NEW r \in Request, NEW g \in Nat
    PROVE  LET n == g * Ratio + (Ratio - 1)  \* the committed length
           IN  /\ g * Ratio \in PendingFrom(n) .. n - 1
               /\ g * Ratio + Ratio \in n .. n + DraftTokens - 1
               /\ RingSlot(r, g * Ratio) = RingSlot(r, g * Ratio + Ratio)
<1>1. /\ Ratio \in Nat \ {0} /\ VerifyLimit = Ratio /\ DraftTokens \in Nat
      /\ DraftTokens >= 2 /\ Ratio >= 2
  <2>1. Ratio \in Nat \ {0} BY PageOfGroups
  <2> QED BY <2>1 DEF VerifyLimit
<1>2. PICK x \in Nat : x = g * Ratio BY <1>1
<1>3. (g * Ratio + (Ratio - 1)) \div Ratio = g
  <2>1. g \in Int /\ Ratio - 1 \in 0 .. Ratio - 1 BY <1>1
  <2> QED BY <2>1, <1>1, DivUnique
<1>4. PendingFrom(g * Ratio + (Ratio - 1)) = g * Ratio BY <1>3 DEF PendingFrom
<1>5. (g * Ratio) % Ratio = 0 /\ (g * Ratio + Ratio) % Ratio = 0
  <2>1. g \in Int /\ g + 1 \in Int /\ 0 \in 0 .. Ratio - 1 BY <1>1
  <2>2. (g * Ratio + 0) % Ratio = 0 BY <2>1, <1>1, DivUnique
  <2>3. ((g + 1) * Ratio + 0) % Ratio = 0 BY <2>1, <1>1, DivUnique
  <2>4. g * Ratio + 0 = g * Ratio /\ (g + 1) * Ratio + 0 = g * Ratio + Ratio BY <1>1
  <2> QED BY <2>2, <2>3, <2>4
<1>6. RingSlot(r, g * Ratio) = RingSlot(r, g * Ratio + Ratio)
  BY <1>5 DEF RingSlot
<1>7. /\ x \in x .. (x + (Ratio - 1)) - 1
      /\ x + Ratio \in x + (Ratio - 1) .. (x + (Ratio - 1)) + DraftTokens - 1
  BY <1>1
<1> QED BY <1>2, <1>4, <1>6, <1>7

-----------------------------------------------------------------------------
(* The contract.  Ring, pages, tree and draft rows together show each      *)
(* request one pooled key per complete group of its own tokens, and a step *)
(* of one request never moves what another one sees: each action is one    *)
(* action of IndexCache, or leaves it alone.                               *)

\* What every request can score is exact in the contract's own words.
Seen == \A q \in Request : View(q) = Promise!Exact(Full(q))

LEMMA ContentsAreSeen == PInv /\ GInv => Seen
<1> SUFFICES ASSUME PInv, GInv, NEW q \in Request PROVE View(q) = Promise!Exact(Full(q))
  BY DEF Seen
<1>1. \A t, g : Promise!Pooled(t, g) = GroupOf(t, g)
  BY DEF Promise!Pooled, GroupOf, Key
<1>2. CASE q \in Live
  <2>1. \A g \in 0 .. (Len(Full(q)) \div Ratio) - 1 :
          comp[ReadSlot(pages[q], g)] = GroupOf(Full(q), g)
    BY <1>2 DEF GInv, ReadersSeeOwnGroups
  <2> QED BY <1>1, <2>1 DEF View, Promise!Exact, Promise!Groups
<1>3. CASE q \notin Live
  <2>1. Full(q) = <<>>
    BY <1>3 DEF PInv, RequestShape, Live, Full
  <2>2. 0 .. (Len(Full(q)) \div Ratio) - 1 = {}
    <3>1. 0 \in Int /\ 0 \in 0 .. Ratio - 1 /\ Ratio \in Nat \ {0} BY PageOfGroups
    <3>2. (0 * Ratio + 0) \div Ratio = 0 BY <3>1, DivUnique
    <3>3. 0 * Ratio + 0 = 0 /\ Len(Full(q)) = 0 BY <3>1, <2>1
    <3>4. Len(Full(q)) \div Ratio = 0 BY <3>2, <3>3
    <3> QED BY <3>4
  <2> QED BY <2>2 DEF View, Promise!Exact, Promise!Groups
<1> QED BY <1>2, <1>3

\* A step that leaves the tokens of a request alone leaves its view alone.
LEMMA UntouchedView ==
    ASSUME Seen, Seen', NEW q \in Request, text'[q] = text[q], window'[q] = window[q]
    PROVE  View(q)' = View(q) /\ Full(q)' = Full(q)
<1>1. Full(q)' = Full(q) BY DEF Full
<1> QED BY <1>1 DEF Seen, Promise!Exact, Promise!Groups, Promise!Pooled

LEMMA OthersKeepViews ==
    ASSUME Seen, Seen', NEW r \in Request,
           \A q \in Request : q # r => text'[q] = text[q] /\ window'[q] = window[q]
    PROVE  Promise!OthersKeep(r)
BY UntouchedView DEF Promise!OthersKeep

\* The exact view of a sequence extends the exact view of each of its prefixes.
LEMMA ExactOfPrefix ==
    ASSUME NEW s \in Seq(Token), NEW t \in Seq(Token), Len(s) <= Len(t),
           SubSeq(t, 1, Len(s)) = s
    PROVE  /\ Promise!Exact(t) = [g \in Promise!Groups(t) |->
                IF g \in Promise!Groups(s) THEN Promise!Exact(s)[g] ELSE Promise!Pooled(t, g)]
           /\ Promise!Exact(s) = [g \in Promise!Groups(s) |-> Promise!Exact(t)[g]]
<1>1. ASSUME NEW g \in Promise!Groups(s)
      PROVE  g \in Promise!Groups(t) /\ Promise!Pooled(t, g) = Promise!Pooled(s, g)
  <2>1. g \in Nat /\ (g + 1) * Ratio \in Nat /\ (g + 1) * Ratio <= Len(s)
    BY GroupBelow DEF Promise!Groups
  <2>2. (g + 1) * Ratio <= Len(t)
    <3>1. \A x, y, z \in Nat : x <= y /\ y <= z => x <= z OBVIOUS
    <3>2. Len(s) \in Nat /\ Len(t) \in Nat OBVIOUS
    <3> QED BY <3>1, <3>2, <2>1
  <2>3. g \in Promise!Groups(t) BY <2>1, <2>2, GroupLive DEF Promise!Groups
  <2>4. GroupOf(t, g) = GroupOf(s, g) BY <2>1, GroupOfPrefix
  <2> QED BY <2>3, <2>4 DEF Promise!Pooled, GroupOf, Key
<1> QED BY <1>1 DEF Promise!Exact

\* A forward appends rows to one request: old groups stay, new ones are exact.
LEMMA ForwardStores ==
    ASSUME PInv, Seen, Seen', NEW r, NEW t, NEW w, Grows(r, t, w), window[r] = <<>>,
           NEW x \in Seq(Token), t \o w = text[r] \o x
    PROVE  Promise!OthersKeep(r) /\ Promise!Store(r)
<1>1. /\ r \in Request /\ text[r] \in Seq(Token) /\ t \in Seq(Token) /\ w \in Seq(Token)
      /\ text'[r] = t /\ window'[r] = w
      /\ Len(text[r]) <= Len(t) /\ SubSeq(t, 1, Len(text[r])) = text[r]
  BY LiveFacts DEF Grows, PInv
<1>2. Promise!OthersKeep(r) BY <1>1, OthersKeepViews DEF Grows
<1>3. /\ Full(r) = text[r] /\ Full(r)' = t \o w /\ t \o w \in Seq(Token)
      /\ Promise!Rows(r) = text[r] /\ Promise!Rows(r)' = t \o w
  <2>1. Full(r) = text[r] BY <1>1 DEF Full
  <2>2. Full(r)' = t \o w BY <1>1 DEF Full
  <2>3. Promise!Rows(r) = Full(r) /\ Promise!Rows(r)' = Full(r)' BY DEF Full, Promise!Rows
  <2>4. t \o w \in Seq(Token) BY <1>1
  <2> QED BY <2>1, <2>2, <2>3, <2>4
<1>4. /\ Len(text[r]) <= Len(t \o w)
      /\ SubSeq(t \o w, 1, Len(text[r])) = text[r]
  <2>1. /\ Len(text[r] \o x) = Len(text[r]) + Len(x) /\ Len(x) \in Nat /\ Len(text[r]) \in Nat
        /\ SubSeq(text[r] \o x, 1, Len(text[r])) = text[r]
    BY <1>1, ConcatFacts
  <2> QED BY <2>1
<1>5. View(r) = Promise!Exact(text[r]) /\ View(r)' = Promise!Exact(t \o w)
  <2>1. View(r)' = Promise!Exact(Full(r))' BY <1>1 DEF Seen
  <2>2. Promise!Exact(Full(r))' = Promise!Exact(Full(r)')
    BY DEF Promise!Exact, Promise!Groups, Promise!Pooled
  <2>3. View(r) = Promise!Exact(Full(r)) BY <1>1 DEF Seen
  <2> QED BY <1>3, <2>1, <2>2, <2>3
<1>6. Promise!Exact(t \o w) = [g \in Promise!Groups(t \o w) |->
        IF g \in Promise!Groups(text[r]) THEN View(r)[g] ELSE Promise!Pooled(t \o w, g)]
  <2>1. Promise!Exact(t \o w) = [g \in Promise!Groups(t \o w) |->
          IF g \in Promise!Groups(text[r]) THEN Promise!Exact(text[r])[g]
                                          ELSE Promise!Pooled(t \o w, g)]
    BY <1>1, <1>3, <1>4, ExactOfPrefix
  <2> QED BY <2>1, <1>5
<1>7. Promise!Store(r)
  <2>1. Promise!Prefix(text[r], t) /\ Promise!Prefix(text[r], t \o w)
    BY <1>1, <1>4 DEF Promise!Prefix
  <2>2. View(r)' = [g \in Promise!Groups(t \o w) |->
        IF g \in Promise!Groups(text[r]) THEN View(r)[g] ELSE Promise!Pooled(t \o w, g)]
    BY <1>5, <1>6
  <2> QED BY <2>1, <2>2, <1>1, <1>3 DEF Promise!Store
<1> QED BY <1>2, <1>7

LEMMA ExtendStores ==
    ASSUME PInv, Seen, Seen', NEW r \in Request, Extend(r)
    PROVE  Promise!OthersKeep(r) /\ Promise!Store(r)
<1>1. PICK x \in Seq(Token) : window[r] = <<>> /\ Grows(r, text[r] \o x, <<>>)
  BY ExtendKeepsPInv
<1>2. (text[r] \o x) \o <<>> = text[r] \o x BY DEF PInv, TypeOK
<1> QED BY <1>1, <1>2, ForwardStores

LEMMA DecodeStores ==
    ASSUME PInv, Seen, Seen', NEW r \in Request, Decode(r)
    PROVE  Promise!OthersKeep(r) /\ Promise!Store(r)
<1>1. PICK x \in Seq(Token) : window[r] = <<>> /\ Grows(r, text[r] \o x, <<>>)
  BY DecodeKeepsPInv
<1>2. (text[r] \o x) \o <<>> = text[r] \o x BY DEF PInv, TypeOK
<1> QED BY <1>1, <1>2, ForwardStores

LEMMA VerifyStores ==
    ASSUME PInv, Seen, Seen', NEW r \in Request, Verify(r)
    PROVE  Promise!OthersKeep(r) /\ Promise!Store(r)
<1>1. PICK x \in Seq(Token) : window[r] = <<>> /\ Grows(r, text[r], x)
  BY VerifyKeepsPInv
<1> QED BY <1>1, ForwardStores

\* A verdict settles the rows of one request: the view shrinks to the groups kept.
LEMMA AcceptSettles ==
    ASSUME PInv, Seen, Seen', NEW r \in Request, Accept(r)
    PROVE  Promise!OthersKeep(r) /\ Promise!Settle(r)
<1> USE DEF PInv
<1>1. PICK k \in 1 .. Len(window[r]) : text' = [text EXCEPT ![r] = @ \o SubSeq(window[r], 1, k)]
  BY DEF Accept
<1>2. window[r] # <<>> /\ window' = [window EXCEPT ![r] = <<>>] BY DEF Accept
<1> DEFINE t == text[r] \o SubSeq(window[r], 1, k)
<1>3. /\ text[r] \in Seq(Token) /\ window[r] \in Seq(Token)
      /\ Full(r) \in Seq(Token) /\ Full(r) = text[r] \o window[r]
  BY DEF TypeOK, Full
<1>4. /\ t \in Seq(Token) /\ Len(t) = Len(text[r]) + k
      /\ t = SubSeq(Full(r), 1, Len(text[r]) + k)
  <2>1. k \in 0 .. Len(window[r]) BY <1>3
  <2>2. /\ t \in Seq(Token) /\ Len(t) = Len(text[r]) + k
        /\ t = SubSeq(text[r] \o window[r], 1, Len(text[r]) + k)
    BY <2>1, <1>3, ConcatPrefix
  <2> HIDE DEF t
  <2> QED BY <2>2, <1>3
<1>5. /\ Len(Full(r)) = Len(text[r]) + Len(window[r])
      /\ Len(text[r]) \in Nat /\ Len(window[r]) \in Nat
      /\ SubSeq(t, 1, Len(text[r])) = text[r]
  <2>1. SubSeq(window[r], 1, k) \in Seq(Token) BY <1>3
  <2> QED BY <2>1, <1>3, ConcatFacts
<1>6. text'[r] = t /\ window'[r] = <<>> /\ t \o <<>> = t /\ Full(r)' = t
  <2>1. text'[r] = t BY <1>1 DEF TypeOK
  <2>2. window'[r] = <<>> BY <1>2 DEF TypeOK
  <2>3. t \o <<>> = t BY <1>4
  <2> QED BY <2>1, <2>2, <2>3 DEF Full
<1>7. Promise!OthersKeep(r)
  <2>1. \A q \in Request : q # r => text'[q] = text[q] /\ window'[q] = window[q]
    BY <1>1, <1>2 DEF TypeOK
  <2> QED BY <2>1, OthersKeepViews
<1> HIDE DEF t
<1>8. /\ Len(t) <= Len(Full(r)) /\ SubSeq(Full(r), 1, Len(t)) = t
      /\ Len(text[r]) < Len(t) /\ Len(text[r]) <= Len(t)
  BY <1>3, <1>4, <1>5
<1>9. View(r)' = [g \in Promise!Groups(t) |-> View(r)[g]]
  <2>1. Promise!Exact(t) = [g \in Promise!Groups(t) |-> Promise!Exact(Full(r))[g]]
    BY <1>3, <1>4, <1>8, ExactOfPrefix
  <2>2. View(r)' = Promise!Exact(Full(r))' /\ View(r) = Promise!Exact(Full(r)) BY DEF Seen
  <2>3. Promise!Exact(Full(r))' = Promise!Exact(Full(r)')
    BY DEF Promise!Exact, Promise!Groups, Promise!Pooled
  <2> QED BY <2>1, <2>2, <2>3, <1>6
<1>10. Promise!Settle(r)
  <2>1. Promise!Prefix(text[r], t) /\ Promise!Prefix(t, Promise!Rows(r))
    BY <1>3, <1>5, <1>8 DEF Promise!Prefix, Promise!Rows
  <2>2. Len(t) > Len(text[r]) BY <1>4, <1>5, <1>8
  <2> QED BY <2>1, <2>2, <1>6, <1>9 DEF Promise!Settle
<1> QED BY <1>7, <1>10

\* A free slot shows nothing; what it opens with is the prefix the tree shared.
LEMMA AdmitOpens ==
    ASSUME PInv, Seen, Seen', NEW r \in Request, Admit(r)
    PROVE  Promise!OthersKeep(r) /\ Promise!Open(r)
<1>1. PICK c : text' = [text EXCEPT ![r] = c] BY DEF Admit
<1>2. text[r] = <<>> /\ window[r] = <<>> /\ window' = window /\ phase[r] = "free"
  BY DEF Admit, PInv, RequestShape
<1>3. \A q \in Request : q # r => text'[q] = text[q] /\ window'[q] = window[q]
  BY <1>1, <1>2 DEF PInv, TypeOK
<1>4. Promise!Rows(r) = <<>> BY <1>2 DEF Promise!Rows
<1>5. View(r)' = Promise!Exact(text'[r])
  <2>1. Admit(r) => PInv' BY AdmitKeepsPInv
  <2>2. text'[r] \in Seq(Token) BY <2>1 DEF PInv, TypeOK
  <2>3. Full(r)' = text'[r]
    <3>1. text'[r] \o <<>> = text'[r] BY <2>2
    <3> QED BY <3>1, <1>2 DEF Full
  <2>4. View(r)' = Promise!Exact(Full(r))' BY DEF Seen
  <2>5. Promise!Exact(Full(r))' = Promise!Exact(Full(r)')
    BY DEF Promise!Exact, Promise!Groups, Promise!Pooled
  <2> QED BY <2>3, <2>4, <2>5
<1>6. Promise!Open(r) BY <1>2, <1>4, <1>5 DEF Promise!Open
<1> QED BY <1>3, <1>6, OthersKeepViews

LEMMA ReleaseCloses ==
    ASSUME PInv, Seen, Seen', NEW r \in Request, Release(r)
    PROVE  Promise!OthersKeep(r) /\ Promise!Close(r)
<1>1. text' = [text EXCEPT ![r] = <<>>] /\ window[r] = <<>> /\ window' = window
  BY DEF Release
<1>2. text'[r] = <<>> /\ \A q \in Request : q # r => text'[q] = text[q] /\ window'[q] = window[q]
  BY <1>1 DEF PInv, TypeOK
<1>3. View(r)' = Promise!Exact(<<>>)
  <2>1. Full(r)' = <<>> BY <1>1, <1>2 DEF Full
  <2>2. View(r)' = Promise!Exact(Full(r))' BY DEF Seen
  <2>3. Promise!Exact(Full(r))' = Promise!Exact(Full(r)')
    BY DEF Promise!Exact, Promise!Groups, Promise!Pooled
  <2> QED BY <2>1, <2>2, <2>3
<1>4. Promise!Close(r) BY <1>1, <1>2, <1>3 DEF Promise!Close
<1> QED BY <1>2, <1>4, OthersKeepViews

\* Steps on pages and tree alone are invisible.
LEMMA InvisibleStep ==
    ASSUME Seen, Seen', text' = text, window' = window
    PROVE  UNCHANGED Promise!vars
<1>1. \A q \in Request : View(q)' = View(q) BY UntouchedView
<1>2. [q \in Request |-> View(q)]' = [q \in Request |-> View(q)] BY <1>1
<1> QED BY <1>2 DEF Promise!vars

LEMMA StepKeepsPromise ==
    ASSUME PInv, Seen, Seen', [Next]_vars
    PROVE  [Promise!Next]_(Promise!vars)
<1>1. ASSUME NEW r \in Request, RequestStep(r)
      PROVE  [Promise!Next]_(Promise!vars)
  <2>1. CASE Admit(r) BY <2>1, AdmitOpens DEF Promise!Next
  <2>2. CASE Extend(r) BY <2>2, ExtendStores DEF Promise!Next
  <2>3. CASE Decode(r) BY <2>3, DecodeStores DEF Promise!Next
  <2>4. CASE Verify(r) BY <2>4, VerifyStores DEF Promise!Next
  <2>5. CASE Accept(r) BY <2>5, AcceptSettles DEF Promise!Next
  <2>6. CASE Publish(r) BY <2>6, InvisibleStep DEF Publish
  <2>7. CASE Release(r) BY <2>7, ReleaseCloses DEF Promise!Next
  <2> QED BY <1>1, <2>1, <2>2, <2>3, <2>4, <2>5, <2>6, <2>7 DEF RequestStep
<1>2. ASSUME NEW p \in Page, Evict(p) PROVE UNCHANGED Promise!vars
  BY <1>2, InvisibleStep DEF Evict
<1>3. CASE UNCHANGED vars BY <1>3, InvisibleStep DEF vars
<1> QED BY <1>1, <1>2, <1>3 DEF Next

LEMMA InitKeepsPromise == Init /\ Seen => Promise!Init
<1> SUFFICES ASSUME Init, Seen PROVE Promise!Init OBVIOUS
<1>1. \A q \in Request : Full(q) = <<>> BY DEF Init, Full
<1>2. \A q \in Request : View(q) = Promise!Exact(<<>>) BY <1>1 DEF Seen
<1> QED BY <1>2 DEF Init, Promise!Init

\* Whatever the requests, pages, tree, ring and drafts do: no step of one request
\* changes what another one scores, a visible group is never rewritten while its
\* rows stand, and every new one is pooled from the request's own tokens.
THEOREM KeepsThePromise == RingFits => (Spec => ImplementsPromise)
<1> SUFFICES ASSUME RingFits PROVE Spec => ImplementsPromise OBVIOUS
<1>1. Init => PInv /\ GInv BY InitPInv, InitContents
<1>2. PInv /\ GInv /\ [Next]_vars => (PInv /\ GInv)' BY NextPInv, NextContents
<1>3. PInv /\ GInv => Seen BY ContentsAreSeen
<1>4. Init /\ Seen => Promise!Init BY InitKeepsPromise
<1>5. PInv /\ Seen /\ Seen' /\ [Next]_vars => [Promise!Next]_(Promise!vars)
  BY StepKeepsPromise
<1> QED BY <1>1, <1>2, <1>3, <1>4, <1>5, PTL DEF Spec, ImplementsPromise, Promise!Spec
=============================================================================
