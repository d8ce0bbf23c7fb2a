---------------------------- MODULE QsaForwardProofs ---------------------------
(***************************************************************************)
(* What a forward reads from its metadata is its own.  Two pinned halves   *)
(* are enough as long as the device is at most two replays behind; batches *)
(* in flight keep the promise of that staging protocol, and the rows of a  *)
(* replay follow its batch.  The write plan and the row ranges of a batch  *)
(* name exactly the groups of that batch.                                  *)
(***************************************************************************)
EXTENDS QsaReplay, QsaBatch, QsaArithmetic, FiniteSetTheorems

-----------------------------------------------------------------------------
(* The staging protocol *)

\* Nothing is staged at the start.
LEMMA InitIInv == Init => IInv
BY AheadAssumption DEF Init, IInv, TypeOK, Undisturbed, TensorsNeedNoCopy,
                       ReplaySeesItsOwnLengths, Replay, Half

\* Staging: the half whose turn it is belongs to no queued replay, because the one
\* that may still be queued used the other.
LEMMA StageIInv == ASSUME IInv, NEW v \in Lengths, Stage(v) PROVE IInv'
<1> USE AheadAssumption DEF IInv, Half, NoHalf
<1>1. TypeOK'
    BY DEF TypeOK, Stage, Replay
<1>2. Undisturbed'
    BY DEF TypeOK, Stage, Replay, Undisturbed
<1>3. TensorsNeedNoCopy'
    BY DEF TypeOK, Stage, Replay, TensorsNeedNoCopy
<1>4. ReplaySeesItsOwnLengths'
    BY DEF Stage, ReplaySeesItsOwnLengths
<1> QED BY <1>1, <1>2, <1>3, <1>4

\* A replay with a tensor of its own disturbs no half.
LEMMA HandOverIInv == ASSUME IInv, NEW v \in Lengths, HandOver(v) PROVE IInv'
<1> USE AheadAssumption DEF IInv, Half, NoHalf
<1>1. TypeOK'
    BY DEF TypeOK, HandOver, Replay
<1>2. Undisturbed'
    BY DEF TypeOK, HandOver, Replay, Undisturbed
<1>3. TensorsNeedNoCopy'
    BY DEF TypeOK, HandOver, Replay, TensorsNeedNoCopy
<1>4. ReplaySeesItsOwnLengths'
    BY DEF HandOver, ReplaySeesItsOwnLengths
<1> QED BY <1>1, <1>2, <1>3, <1>4

\* The copy takes the half as its replay left it.
LEMMA CopyIInv == ASSUME IInv, Copy PROVE IInv'
<1> USE AheadAssumption DEF IInv, Half, NoHalf
<1>1. TypeOK'
    <2>0. 1 \in DOMAIN stream /\ stream[1] \in Replay
        BY DEF TypeOK, Copy
    <2>1. 1 \in DOMAIN stream /\ stream[1] \in Replay /\ stream[1].half \in Half
        BY <2>0 DEF Copy, Replay, TensorsNeedNoCopy
    <2>2. [stream[1] EXCEPT !.copied = TRUE] \in Replay
        BY <2>1 DEF Replay
    <2>3. stream' = [stream EXCEPT ![1] = [stream[1] EXCEPT !.copied = TRUE]]
        BY DEF Copy
    <2>4. stream' \in Seq(Replay) /\ Len(stream') = Len(stream)
        BY <2>1, <2>2, <2>3 DEF TypeOK
    <2>5. staged' \in Lengths
        BY <2>1 DEF TypeOK, Copy
    <2> QED
        BY <2>4, <2>5 DEF TypeOK, Copy
<1>2. Undisturbed'
    BY DEF TypeOK, Copy, Replay, Undisturbed
<1>3. TensorsNeedNoCopy'
    BY DEF TypeOK, Copy, Replay, TensorsNeedNoCopy
<1>4. ReplaySeesItsOwnLengths'
    BY DEF Copy, ReplaySeesItsOwnLengths
<1> QED BY <1>1, <1>2, <1>3, <1>4

\* The replay at the head has its lengths on the device.
LEMMA RunIInv == ASSUME IInv, Run PROVE IInv'
<1> USE AheadAssumption DEF IInv, Half, NoHalf
<1>1. TypeOK'
    <2>1. 1 \in DOMAIN stream /\ stream[1] \in Replay
        BY DEF TypeOK, Run
    <2>2. last' \in [launched : Lengths, read : Lengths]
        BY <2>1 DEF TypeOK, Run, Replay
    <2>3. stream' \in Seq(Replay) /\ Len(stream') <= MaxAhead
        BY <2>1 DEF TypeOK, Run
    <2> QED
        BY <2>2, <2>3 DEF TypeOK, Run
<1>2. Undisturbed'
    BY DEF TypeOK, Run, Replay, Undisturbed
<1>3. TensorsNeedNoCopy'
    BY DEF TypeOK, Run, Replay, TensorsNeedNoCopy
<1>4. ReplaySeesItsOwnLengths'
    BY DEF TypeOK, Run, Replay, Undisturbed, ReplaySeesItsOwnLengths
<1> QED BY <1>1, <1>2, <1>3, <1>4

\* Every step, stuttering included, keeps the invariant.
LEMMA StepIInv == ASSUME IInv, [Next]_vars PROVE IInv'
<1>1. ASSUME NEW v \in Lengths, Stage(v) PROVE IInv'
    BY <1>1, StageIInv
<1>2. ASSUME NEW v \in Lengths, HandOver(v) PROVE IInv'
    BY <1>2, HandOverIInv
<1>3. CASE Copy
    BY <1>3, CopyIInv
<1>4. CASE Run
    BY <1>4, RunIInv
<1>5. CASE UNCHANGED vars
    BY <1>5 DEF vars, IInv, TypeOK, Undisturbed, TensorsNeedNoCopy, ReplaySeesItsOwnLengths
<1> QED
    BY <1>1, <1>2, <1>3, <1>4, <1>5 DEF Next

\* Every reachable state has the invariant.
LEMMA Invariance == Spec => []IInv
BY InitIInv, StepIInv, PTL DEF Spec

\* Every replay reads the lengths it was launched with, whatever is staged behind
\* it and however copies and launches interleave, two replays ahead at most.
THEOREM ReplaysSeeTheirOwnLengths == Spec => []ReplaySeesItsOwnLengths
<1>1. IInv => ReplaySeesItsOwnLengths
    BY DEF IInv
<1> QED
    BY <1>1, Invariance, PTL

\* Every pending copy still finds its replay's lengths in its half.
THEOREM StagedIsUndisturbed == Spec => []Undisturbed
<1>1. IInv => Undisturbed
    BY DEF IInv
<1> QED
    BY <1>1, Invariance, PTL

-----------------------------------------------------------------------------
(* Batches in flight *)

\* Every step of a replay's life is a step of the protocol, or leaves it alone.
LEMMA ReplayStepsAreSteps == ASSUME [ReplayNext]_replayVars PROVE [Next]_vars
<1>1. CASE Launch
    BY <1>1, LengthsAssumption DEF Launch, Next
<1>2. CASE CopyLengths
    BY <1>2 DEF CopyLengths, Next
<1>3. CASE RunReplay
    BY <1>3 DEF RunReplay, Next
<1>4. CASE Verify
    BY <1>4 DEF Verify
<1>5. CASE Replace
    BY <1>5 DEF Replace
<1>6. CASE UNCHANGED replayVars
    BY <1>6 DEF replayVars
<1> QED
    BY <1>1, <1>2, <1>3, <1>4, <1>5, <1>6 DEF ReplayNext

\* However far the host stages ahead of the device, within two replays: the rows of
\* a replay are laid out from the lengths its own batch was launched with
\* (_stage_extend_lens, mode 2 of _replay_cuda_graph_metadata_gpu).
THEOREM ReplaysOfBatchesSeeTheirOwn == ReplaySpec => []ReplaySeesItsOwnLengths
<1>1. ReplayInit => IInv
    BY InitIInv DEF ReplayInit
<1>2. IInv /\ [ReplayNext]_replayVars => IInv'
    BY ReplayStepsAreSteps, StepIInv
<1>3. IInv => ReplaySeesItsOwnLengths
    BY DEF IInv
<1> QED
    BY <1>1, <1>2, <1>3, PTL DEF ReplaySpec

\* The batches in flight implement the staging protocol of single replays.
THEOREM ReplaysImplementStaging == ReplaySpec => Spec
<1>1. ReplayInit => Init
    BY DEF ReplayInit
<1>2. [ReplayNext]_replayVars => [Next]_vars
    BY ReplayStepsAreSteps
<1> QED
    BY <1>1, <1>2, PTL DEF ReplaySpec, Spec
-----------------------------------------------------------------------------
(* The rows of a replay's tables *)

RowEntry == [req : 0 .. NumRequests, seqlen : 1 .. MaxLength, extend : 0 .. DraftTokens]

\* What a batch in flight is: every entry has a token before its new ones.
GoodBatch(b) ==
    /\ b \in Seq(RowEntry) /\ Len(b) = BatchSize
    /\ \A i \in DOMAIN b : b[i].extend < b[i].seqlen

\* A verify batch: a window of rows for each request, none for a padded entry,
\* and padded entries behind all requests.
Windows(b) ==
    /\ \A i \in 1 .. BatchSize : b[i].extend \in {0, DraftTokens}
    /\ \A i, j \in 1 .. BatchSize : i < j /\ b[j].extend # 0 => b[i].extend # 0

RowCounts(b) == [i \in 1 .. Len(b) |-> b[i].extend]

LEMMA RowEndsAreSums ==
    ASSUME NEW b \in Seq(RowEntry)
    PROVE  SumsOf(Layout!RowEnds(b), Len(b), RowCounts(b)) /\ RowCounts(b) \in [1 .. Len(b) -> Nat]
<1> DEFINE IsEnd(f) == f = [i \in 0 .. Len(b) |-> IF i = 0 THEN 0 ELSE f[i - 1] + b[i].extend]
<1>1. Len(b) \in Nat /\ \A i \in 1 .. Len(b) : b[i] \in RowEntry /\ b[i].extend \in Nat
    <2>1. \A e \in RowEntry : e.extend \in Nat
        BY LayoutAssumption DEF RowEntry
    <2>2. Len(b) \in Nat /\ \A i \in 1 .. Len(b) : b[i] \in RowEntry
        OBVIOUS
    <2> QED
        BY <2>1, <2>2
<1>2. RowCounts(b) \in [1 .. Len(b) -> Nat]
    BY <1>1 DEF RowCounts
<1>3. \E f : IsEnd(f)
    <2>1. PICK f : f = [i \in 0 .. Len(b) |-> IF i = 0 THEN 0 ELSE f[i - 1] + RowCounts(b)[i]]
        BY <1>1, <1>2, SumsExist
    <2>2. \A i \in 0 .. Len(b) : i # 0 => i \in 1 .. Len(b) /\ RowCounts(b)[i] = b[i].extend
        BY <1>1 DEF RowCounts
    <2> QED
        BY <2>1, <2>2
<1>4. Layout!RowEnds(b) = CHOOSE f : IsEnd(f)
    BY DEF Layout!RowEnds
<1>5. IsEnd(Layout!RowEnds(b))
    <2> HIDE DEF IsEnd
    <2> QED
        BY <1>3, <1>4
<1>6. \A i \in 1 .. Len(b) :
        i \in 0 .. Len(b) /\ i - 1 \in 0 .. Len(b) /\ i # 0 /\ RowCounts(b)[i] = b[i].extend
    BY <1>1 DEF RowCounts
<1>7. Layout!RowEnds(b)[0] = 0
    BY <1>1, <1>5
<1>8. \A i \in 1 .. Len(b) : Layout!RowEnds(b)[i] = Layout!RowEnds(b)[i - 1] + RowCounts(b)[i]
    BY <1>5, <1>6
<1> QED
    BY <1>2, <1>7, <1>8 DEF SumsOf

\* Rows end where the rows of the next entry begin; a batch never has more rows
\* than the graph that was captured for it.
LEMMA RowEndsFit ==
    ASSUME NEW b, GoodBatch(b)
    PROVE  /\ \A i \in 0 .. BatchSize : Layout!RowEnds(b)[i] \in Nat
           /\ \A i \in 1 .. BatchSize : Layout!RowEnds(b)[i] = Layout!RowEnds(b)[i - 1] + b[i].extend
           /\ \A i \in 0 .. BatchSize : Layout!RowEnds(b)[i] <= Layout!SumExtend(b)
           /\ Layout!SumExtend(b) \in Nat /\ Layout!SumExtend(b) <= BatchSize * DraftTokens
<1>0. BatchSize \in Nat /\ DraftTokens \in Nat /\ b \in Seq(RowEntry) /\ Len(b) = BatchSize
    BY LayoutAssumption DEF GoodBatch
<1>1. PICK f \in {Layout!RowEnds(b)} : TRUE
    OBVIOUS
<1>2. PICK len \in [1 .. BatchSize -> Nat] : len = RowCounts(b)
    BY <1>0, RowEndsAreSums
<1>3. SumsOf(f, BatchSize, len)
    BY <1>0, <1>1, <1>2, RowEndsAreSums
<1>4. /\ \A i \in 0 .. BatchSize : f[i] \in Nat
      /\ \A i, j \in 0 .. BatchSize : i <= j => f[i] <= f[j]
    BY <1>0, <1>2, <1>3, SumsGrow
<1>5. \A i \in 1 .. BatchSize : len[i] = b[i].extend
    BY <1>0, <1>2 DEF RowCounts
<1>6. \A i \in 1 .. BatchSize : len[i] <= DraftTokens
    <2>1. \A e \in RowEntry : e.extend <= DraftTokens
        BY <1>0 DEF RowEntry
    <2>2. \A i \in 1 .. BatchSize : b[i] \in RowEntry
        BY <1>0
    <2> QED
        BY <1>5, <2>1, <2>2
<1>7. f[BatchSize] <= BatchSize * DraftTokens
    BY <1>0, <1>2, <1>3, <1>6, SumsBounded
<1>8. Layout!SumExtend(b) = f[BatchSize]
    BY <1>0, <1>1 DEF Layout!SumExtend
<1>9. \A i \in 1 .. BatchSize : f[i] = f[i - 1] + b[i].extend
    BY <1>3, <1>5 DEF SumsOf
<1> QED
    BY <1>0, <1>1, <1>4, <1>7, <1>8, <1>9

\* repeat_interleave: a row up to the last real one belongs to one entry.
LEMMA RowHasOneEntry ==
    ASSUME NEW b, GoodBatch(b), NEW n \in 1 .. Layout!SumExtend(b)
    PROVE  /\ Layout!EntryOf(b, n) \in 1 .. BatchSize
           /\ Layout!RowEnds(b)[Layout!EntryOf(b, n) - 1] < n
           /\ n <= Layout!RowEnds(b)[Layout!EntryOf(b, n)]
           /\ \A i \in 1 .. BatchSize :
                Layout!RowEnds(b)[i - 1] < n /\ n <= Layout!RowEnds(b)[i] => i = Layout!EntryOf(b, n)
<1>0. BatchSize \in Nat /\ b \in Seq(RowEntry) /\ Len(b) = BatchSize /\ DOMAIN b = 1 .. BatchSize
    BY LayoutAssumption DEF GoodBatch
<1>1. PICK f \in {Layout!RowEnds(b)} : TRUE
    OBVIOUS
<1>2. PICK len \in [1 .. BatchSize -> Nat] : SumsOf(f, BatchSize, len)
    BY <1>0, <1>1, RowEndsAreSums
<1>3. n \in 1 .. f[BatchSize]
    BY <1>0, <1>1 DEF Layout!SumExtend
<1>4. /\ \E i \in 1 .. BatchSize : f[i - 1] < n /\ n <= f[i]
      /\ \A i, j \in 1 .. BatchSize :
            /\ f[i - 1] < n /\ n <= f[i]
            /\ f[j - 1] < n /\ n <= f[j]
            => i = j
    BY <1>0, <1>2, <1>3, OneBlock
<1>5. Layout!EntryOf(b, n) = CHOOSE i \in 1 .. BatchSize : f[i - 1] < n /\ n <= f[i]
    BY <1>0, <1>1 DEF Layout!EntryOf
<1>6. /\ Layout!EntryOf(b, n) \in 1 .. BatchSize
      /\ f[Layout!EntryOf(b, n) - 1] < n /\ n <= f[Layout!EntryOf(b, n)]
    BY <1>4, <1>5
<1> QED
    BY <1>1, <1>4, <1>6

\* A row that stands for a token: whose, and how many tokens precede and include it.
LEMMA RealRowFacts ==
    ASSUME NEW b, GoodBatch(b), NEW n \in 1 .. Layout!SumExtend(b)
    PROVE  LET i == Layout!EntryOf(b, n)
               k == n - Layout!RowEnds(b)[i - 1]
               row == Layout!RealRow(b, n)
           IN  /\ row.req = b[i].req /\ row.real = TRUE
               /\ k \in 1 .. b[i].extend
               /\ row.length = b[i].seqlen - b[i].extend + k
               /\ row \in Layout!RowType
<1>1. PICK i \in 1 .. BatchSize : i = Layout!EntryOf(b, n)
    BY RowHasOneEntry
<1>2. PICK k \in {n - Layout!RowEnds(b)[i - 1]} : TRUE
    OBVIOUS
<1>3. /\ Layout!RowEnds(b)[i - 1] \in Nat
      /\ Layout!RowEnds(b)[i] = Layout!RowEnds(b)[i - 1] + b[i].extend
      /\ Layout!RowEnds(b)[i - 1] < n /\ n <= Layout!RowEnds(b)[i]
      /\ Layout!SumExtend(b) \in Nat
    <2>1. i - 1 \in 0 .. BatchSize
        BY LayoutAssumption
    <2> QED
        BY <1>1, <2>1, RowEndsFit, RowHasOneEntry
<1>4. PICK e \in RowEntry : e = b[i] /\ e.extend < e.seqlen
    BY LayoutAssumption DEF GoodBatch
<1>5. k \in 1 .. e.extend
    BY <1>2, <1>3, <1>4 DEF RowEntry
<1>6. /\ e.req \in 0 .. NumRequests /\ e.seqlen \in 1 .. MaxLength /\ e.extend \in Nat
      /\ e.extend < e.seqlen /\ MaxLength \in Nat
    BY <1>4, LayoutAssumption DEF RowEntry
<1>7. Layout!RealRow(b, n) = Layout!EntryRow(e, k)
    BY <1>1, <1>2, <1>4 DEF Layout!RealRow
<1>8. Layout!EntryRow(e, k) = [req |-> e.req, prefix |-> e.seqlen - e.extend, real |-> TRUE,
                               length |-> e.seqlen - e.extend + k]
    <2>1. PICK s \in Nat, x \in Nat, p \in Nat :
            s = e.seqlen /\ x = e.extend /\ p = s - x /\ x < s
        BY <1>6
    <2>2. k \in Nat /\ k <= x
        BY <1>5, <2>1
    <2>3. (IF s > x THEN s - x ELSE 0) = p
        BY <2>1
    <2>4. (IF p + k < s THEN p + k ELSE s) = p + k
        BY <2>1, <2>2
    <2> QED
        BY <2>1, <2>3, <2>4 DEF Layout!EntryRow
<1>9. Layout!EntryRow(e, k) \in Layout!RowType
    BY <1>5, <1>6, <1>8 DEF Layout!RowType
<1> QED
    BY <1>1, <1>2, <1>4, <1>5, <1>7, <1>8, <1>9

\* The graph's rows for a batch: the properties of a forward that has run.
LEMMA GraphRowsFacts ==
    ASSUME NEW b, GoodBatch(b), NEW rows, rows = Layout!GraphRows(b, BatchSize * DraftTokens)
    PROVE  /\ rows \in Seq(Layout!RowType) /\ Len(rows) = BatchSize * DraftTokens
           /\ \A n \in 1 .. Layout!SumExtend(b) : rows[n] = Layout!RealRow(b, n)
           /\ \A n \in 1 .. Len(rows) : n > Layout!SumExtend(b) => rows[n] = Layout!PaddingRow(b)
<1> DEFINE Captured == BatchSize * DraftTokens
<1>1. Captured \in Nat /\ Layout!SumExtend(b) \in Nat /\ Layout!SumExtend(b) <= Captured
    BY LayoutAssumption, RowEndsFit
<1>2. Layout!PaddingRow(b) \in Layout!RowType
    <2>1. b[1] \in RowEntry
        BY LayoutAssumption DEF GoodBatch
    <2>2. b[1].req \in 0 .. NumRequests /\ 0 \in 0 .. MaxLength /\ 1 \in 1 .. MaxLength
        BY <2>1, LayoutAssumption DEF RowEntry
    <2> QED
        BY <2>2 DEF Layout!PaddingRow, Layout!RowType
<1>3. \A n \in 1 .. Layout!SumExtend(b) : Layout!RealRow(b, n) \in Layout!RowType
    BY RealRowFacts
<1>4. rows = [n \in 1 .. Captured |-> IF n <= Layout!SumExtend(b) THEN Layout!RealRow(b, n)
                                                                 ELSE Layout!PaddingRow(b)]
    BY DEF Layout!GraphRows
<1> HIDE DEF Captured
<1>5. rows \in [1 .. Captured -> Layout!RowType]
    BY <1>1, <1>2, <1>3, <1>4
<1>6. rows \in Seq(Layout!RowType) /\ Len(rows) = Captured
    BY <1>1, <1>5
<1>7. \A n \in 1 .. Layout!SumExtend(b) : rows[n] = Layout!RealRow(b, n)
    BY <1>1, <1>4
<1>8. \A n \in 1 .. Captured : n > Layout!SumExtend(b) => rows[n] = Layout!PaddingRow(b)
    BY <1>1, <1>4
<1> QED
    BY <1>6, <1>7, <1>8 DEF Captured

\* Rows of a verify batch follow in windows: an even share of the captured rows for
\* every entry gives each of them the entry that its extend lengths give it.
LEMMA SharesAreWindows ==
    ASSUME NEW b, GoodBatch(b), Windows(b), NEW n \in 1 .. Layout!SumExtend(b)
    PROVE  Layout!EntryByShares(b, BatchSize * DraftTokens, n) = Layout!EntryOf(b, n)
<1>0. PICK size \in Nat \ {0}, d \in Nat \ {0} : size = BatchSize /\ d = DraftTokens /\ Len(b) = size
    BY LayoutAssumption DEF GoodBatch
<1>1. PICK f \in {Layout!RowEnds(b)} : TRUE
    OBVIOUS
<1>2. PICK len \in [1 .. size -> Nat] : len = RowCounts(b) /\ SumsOf(f, size, len)
    BY <1>0, <1>1, RowEndsAreSums DEF GoodBatch
<1>3. PICK i \in 1 .. size : i = Layout!EntryOf(b, n) /\ f[i - 1] < n /\ n <= f[i]
    BY <1>0, <1>1, RowHasOneEntry
<1>4. /\ \A j \in 1 .. size : len[j] \in {0, d}
      /\ \A j, k \in 1 .. size : j < k /\ len[k] # 0 => len[j] # 0
    <2>1. \A j \in 1 .. size : len[j] = b[j].extend
        BY <1>0, <1>2 DEF RowCounts
    <2> QED
        BY <1>0, <2>1 DEF Windows
<1>5. PICK h \in Nat : h = i - 1 /\ h + 1 = i /\ h <= size /\ 0 .. h \subseteq 0 .. size
    OBVIOUS
<1>6. f[h] \in Nat /\ f[i] = f[h] + len[i]
    <2>1. h \in 0 .. size
        BY <1>5
    <2> QED
        BY <1>2, <1>5, <2>1, SumsGrow DEF SumsOf
<1>7. len[i] = d
    BY <1>3, <1>4, <1>5, <1>6
<1>8. PICK head \in [1 .. h -> Nat] : \A j \in 1 .. h : head[j] = len[j] /\ head[j] = d
    <2>1. ASSUME NEW j \in 1 .. h PROVE j \in 1 .. size /\ len[j] = d
        <3>1. j \in 1 .. size /\ j < i
            BY <1>5
        <3> QED
            BY <1>0, <1>4, <1>7, <3>1
    <2>2. [j \in 1 .. h |-> len[j]] \in [1 .. h -> Nat]
        BY <2>1
    <2> QED
        BY <2>1, <2>2
<1>9. SumsOf(f, h, head)
    <2>1. \A j \in 1 .. h : j \in 1 .. size
        BY <1>5
    <2> QED
        BY <1>2, <1>8, <2>1 DEF SumsOf
<1>10. f[h] = h * d
    <2>1. f[h] <= h * d
        <3>1. \A j \in 1 .. h : head[j] <= d
            BY <1>0, <1>8
        <3> QED
            BY <1>8, <1>9, <3>1, SumsBounded, <1>0, <1>5
    <2>2. h * d <= f[h]
        <3>1. PICK one \in [1 .. h -> Nat] : one = [j \in 1 .. h |-> 1]
            OBVIOUS
        <3>2. PICK g : g = [j \in 0 .. h |-> j]
            OBVIOUS
        <3>3. SumsOf(g, h, one)
            BY <3>1, <3>2, <1>5 DEF SumsOf
        <3>4. \A j \in 1 .. h : one[j] * d <= head[j]
            BY <3>1, <1>8, <1>0
        <3>5. g[h] * d <= f[h]
            BY <3>3, <3>4, <1>8, <1>9, <1>0, <1>5, SumsScaled
        <3> QED
            BY <3>2, <3>5, <1>5
    <2>3. PICK p \in Nat : p = h * d
        BY <1>0, <1>5
    <2> QED
        BY <1>6, <2>1, <2>2, <2>3
<1>11. PICK k \in 0 .. d - 1 : n - 1 = h * d + k
    <2>1. PICK p \in Nat : p = h * d
        BY <1>0, <1>5
    <2>2. n \in Nat /\ p < n /\ n <= p + d
        BY <1>3, <1>5, <1>6, <1>7, <1>10, <2>1, RowEndsFit
    <2>3. n - 1 - p \in 0 .. d - 1 /\ n - 1 = p + (n - 1 - p)
        BY <2>1, <2>2
    <2> QED
        BY <2>1, <2>3
<1>12. (n - 1) \div d = h
    <2>1. (h * d + k) \div d = h
        <3>1. h \in Int
            BY <1>5
        <3> QED
            BY <1>0, <1>11, <3>1, DivUnique
    <2> QED
        BY <1>11, <2>1
<1>13. (size * d) \div size = d
    <2>1. size * d = d * size + 0 /\ 0 \in 0 .. size - 1 /\ d \in Int
        BY <1>0
    <2> QED
        BY <2>1, DivUnique
<1> QED
    BY <1>0, <1>3, <1>5, <1>12, <1>13 DEF Layout!EntryByShares

-----------------------------------------------------------------------------
(* Where the batches in flight stand *)

\* Requests grow within the bound with all that is queued for them.
Queued ==
    \A j \in DOMAIN stream :
        /\ stream[j].lengths \in Batches
        /\ \A i \in Real(stream[j].lengths) :
             length[stream[j].lengths[i].req] + DraftTokens * j <= MaxLength

\* The last forward laid out the rows of a batch from that batch.
ForwardIsItsBatch ==
    \/ forward = Layout!NoForward
    \/ /\ forward.mode \in {"verify", "draft_extend"}
       /\ GoodBatch(forward.batch)
       /\ forward.mode = "verify" => Windows(forward.batch)
       /\ forward.rows = Layout!GraphRows(forward.batch, BatchSize * DraftTokens)

ReplayInv ==
    /\ IInv
    /\ length \in [1 .. NumRequests -> 1 .. MaxLength]
    /\ Queued
    /\ ForwardIsItsBatch

\* A batch of requests that have room for their new tokens.
LEMMA EntriesAreGood ==
    ASSUME NEW mode \in {"verify", "draft_extend"}, NEW v \in Batches,
           length \in [1 .. NumRequests -> 1 .. MaxLength],
           \A i \in Real(v) : length[v[i].req] + DraftTokens <= MaxLength
    PROVE  /\ GoodBatch(Entries(mode, v)) /\ DOMAIN v = 1 .. BatchSize
           /\ mode = "verify" => Windows(Entries(mode, v))
<1> DEFINE b == Entries(mode, v)
<1>1. /\ BatchSize \in Nat /\ DraftTokens \in Nat \ {0} /\ MaxLength \in Nat \ {0}
      /\ NumRequests \in Nat
    BY LayoutAssumption
<1>2. /\ v \in [1 .. BatchSize -> [req : 0 .. NumRequests, extend : 0 .. DraftTokens]]
      /\ DOMAIN v = 1 .. BatchSize
    BY DEF Batches
<1>3. ASSUME NEW i \in 1 .. BatchSize PROVE b[i] \in RowEntry /\ b[i].extend < b[i].seqlen
    <2>1. v[i].req \in 0 .. NumRequests /\ v[i].extend \in 0 .. DraftTokens
        BY <1>2
    <2>2. CASE i \in Real(v)
        <3>1. v[i].req \in 1 .. NumRequests
            BY <1>1, <2>1, <2>2 DEF Real
        <3>2. PICK l \in 1 .. MaxLength : l = length[v[i].req] /\ l + DraftTokens <= MaxLength
            BY <2>2, <3>1
        <3>3. PICK k \in 0 .. DraftTokens : k = IF mode = "verify" THEN DraftTokens ELSE v[i].extend
            BY <1>1, <2>1
        <3>4. b[i] = [req |-> v[i].req, extend |-> k, seqlen |-> l + k]
            BY <1>2, <2>2, <3>2, <3>3 DEF Entries, Layout!Entry
        <3>5. l + k \in 1 .. MaxLength /\ k < l + k
            <4>1. k \in Nat /\ l \in Nat /\ 1 <= l /\ k <= DraftTokens /\ l + DraftTokens <= MaxLength
                BY <1>1, <3>2
            <4> QED
                BY <1>1, <4>1
        <3> QED
            BY <2>1, <3>4, <3>5 DEF RowEntry
    <2>3. CASE i \notin Real(v)
        <3>1. b[i] = [req |-> 0, extend |-> 0, seqlen |-> 1]
            BY <1>2, <2>3 DEF Entries, Layout!PaddedEntry
        <3> QED
            BY <1>1, <3>1 DEF RowEntry
    <2> QED
        BY <2>2, <2>3
<1>4. b = [i \in 1 .. BatchSize |-> b[i]]
    BY <1>2 DEF Entries
<1> HIDE DEF b
<1>5. b \in [1 .. BatchSize -> RowEntry]
    BY <1>3, <1>4
<1>6. b \in Seq(RowEntry) /\ Len(b) = BatchSize /\ DOMAIN b = 1 .. BatchSize
    BY <1>1, <1>5
<1>7. GoodBatch(b)
    BY <1>3, <1>6 DEF GoodBatch
<1>8. ASSUME mode = "verify" PROVE Windows(b)
    <2>1. \A i \in 1 .. BatchSize : b[i].extend = IF i \in Real(v) THEN DraftTokens ELSE 0
        BY <1>2, <1>8 DEF b, Entries, Layout!Entry, Layout!PaddedEntry
    <2>2. ASSUME NEW i \in 1 .. BatchSize, NEW j \in 1 .. BatchSize, i < j, j \in Real(v)
          PROVE  i \in Real(v)
        <3>1. v[i].req \in 1 .. v[j].req - 1
            BY <1>2, <2>2 DEF Batches, Real
        <3> QED
            BY <1>2, <3>1 DEF Real
    <2> QED
        BY <1>1, <2>1, <2>2 DEF Windows
<1> QED
    BY <1>2, <1>7, <1>8 DEF b

\* What a forward adds to a request is a window at most.
LEMMA ForwardGrows ==
    ASSUME NEW mode, NEW v \in Batches, NEW b, NEW seen, Forwarded(mode, v, b, seen),
           length \in [1 .. NumRequests -> 1 .. MaxLength],
           \A i \in Real(v) : length[v[i].req] + DraftTokens <= MaxLength
    PROVE  /\ length' \in [1 .. NumRequests -> 1 .. MaxLength]
           /\ \A r \in 1 .. NumRequests : length'[r] <= length[r] + DraftTokens
<1>1. MaxLength \in Nat /\ DraftTokens \in Nat
    BY LayoutAssumption
<1>2. v \in [1 .. BatchSize -> [req : 0 .. NumRequests, extend : 0 .. DraftTokens]]
    BY DEF Batches
<1>3. ASSUME NEW r \in 1 .. NumRequests
      PROVE  length'[r] \in 1 .. MaxLength /\ length'[r] <= length[r] + DraftTokens
    <2>1. PICK l \in 1 .. MaxLength : l = length[r]
        OBVIOUS
    <2>2. CASE \E i \in Real(v) : v[i].req = r
        <3>1. PICK i \in Real(v) : v[i].req = r /\ i = CHOOSE x \in Real(v) : v[x].req = r
            BY <2>2
        <3>2. PICK k \in 0 .. DraftTokens : k = v[i].extend
            BY <1>2 DEF Real
        <3>3. length'[r] = l + k
            BY <2>1, <2>2, <3>1, <3>2 DEF Forwarded
        <3>4. l + DraftTokens <= MaxLength
            BY <2>1, <3>1
        <3> QED
            BY <1>1, <2>1, <3>2, <3>3, <3>4
    <2>3. CASE ~ \E i \in Real(v) : v[i].req = r
        <3>1. length'[r] = l + 0
            BY <2>1, <2>3 DEF Forwarded
        <3> QED
            BY <1>1, <2>1, <3>1
    <2> QED
        BY <2>2, <2>3
<1>4. length' = [r \in 1 .. NumRequests |-> length'[r]]
    BY DEF Forwarded
<1> QED
    BY <1>3, <1>4

\* The rows of a forward are those of its batch when the lengths it saw are.
LEMMA ForwardedIsItsBatch ==
    ASSUME NEW mode \in {"verify", "draft_extend"}, NEW v, NEW b, GoodBatch(b),
           mode = "verify" => Windows(b), Forwarded(mode, v, b, b)
    PROVE  ForwardIsItsBatch'
<1>1. /\ forward'.mode = mode /\ forward'.batch = b
      /\ forward'.rows = Layout!GraphRows(b, BatchSize * DraftTokens)
    BY DEF Forwarded, GoodBatch
<1>2. GoodBatch(forward'.batch) /\ (forward'.mode = "verify" => Windows(forward'.batch))
    BY <1>1
<1> QED
    BY <1>1, <1>2 DEF ForwardIsItsBatch, GoodBatch, Windows

LEMMA InitReplayInv == ReplayInit => ReplayInv
<1> SUFFICES ASSUME ReplayInit PROVE ReplayInv
    OBVIOUS
<1>1. IInv
    BY InitIInv DEF ReplayInit
<1>2. length \in [1 .. NumRequests -> 1 .. MaxLength]
    BY RatioAssumption, LayoutAssumption DEF ReplayInit
<1>3. Queued
    BY DEF ReplayInit, Init, Queued
<1>4. ForwardIsItsBatch
    BY DEF ReplayInit, ForwardIsItsBatch
<1> QED
    BY <1>1, <1>2, <1>3, <1>4 DEF ReplayInv

\* A launch queues a batch behind the others.
LEMMA LaunchReplayInv == ASSUME ReplayInv, Launch, IInv' PROVE ReplayInv'
<1>1. PICK v \in Batches : Fits(v) /\ (Stage(v) \/ HandOver(v)) /\ UNCHANGED <<length, forward>>
    BY DEF Launch
<1>2. stream \in Seq(Replay)
    BY DEF ReplayInv, IInv, TypeOK
<1>3. PICK e \in Replay : e.lengths = v /\ stream' = Append(stream, e)
    <2>1. v \in Lengths
        BY LengthsAssumption
    <2>2. turn \in Half
        BY DEF ReplayInv, IInv, TypeOK
    <2>3. CASE Stage(v)
        <3> DEFINE x == [half |-> turn, lengths |-> v, copied |-> FALSE]
        <3>1. x \in Replay /\ x.lengths = v
            BY <2>1, <2>2 DEF Replay
        <3>2. stream' = Append(stream, x)
            BY <2>3 DEF Stage
        <3> QED
            BY <3>1, <3>2
    <2>4. CASE HandOver(v)
        <3> DEFINE x == [half |-> NoHalf, lengths |-> v, copied |-> TRUE]
        <3>1. x \in Replay /\ x.lengths = v
            BY <2>1 DEF Replay
        <3>2. stream' = Append(stream, x)
            BY <2>4 DEF HandOver
        <3> QED
            BY <3>1, <3>2
    <2> QED
        BY <1>1, <2>3, <2>4
<1>4. Queued'
    <2> SUFFICES ASSUME NEW j \in DOMAIN stream'
                 PROVE  /\ stream'[j].lengths \in Batches
                        /\ \A i \in Real(stream'[j].lengths) :
                             length'[stream'[j].lengths[i].req] + DraftTokens * j <= MaxLength
        BY DEF Queued, Real
    <2>1. length' = length
        BY <1>1
    <2>2. CASE j \in DOMAIN stream
        <3>1. stream'[j] = stream[j]
            BY <1>2, <1>3, <2>2
        <3> QED
            BY <2>1, <2>2, <3>1 DEF ReplayInv, Queued
    <2>3. CASE j \notin DOMAIN stream
        <3>1. stream'[j] = e /\ j = Len(stream) + 1
            BY <1>2, <1>3, <2>3
        <3> QED
            BY <1>1, <1>3, <2>1, <3>1 DEF Fits
    <2> QED
        BY <2>2, <2>3
<1>5. length' \in [1 .. NumRequests -> 1 .. MaxLength] /\ ForwardIsItsBatch'
    BY <1>1 DEF ReplayInv, ForwardIsItsBatch, GoodBatch
<1> QED
    BY <1>4, <1>5 DEF ReplayInv

\* A copy changes no batch.
LEMMA CopyReplayInv == ASSUME ReplayInv, CopyLengths, IInv' PROVE ReplayInv'
<1>1. stream \in Seq(Replay) /\ stream # <<>>
    BY DEF ReplayInv, IInv, TypeOK, CopyLengths, Copy
<1>2. /\ DOMAIN stream' = DOMAIN stream
      /\ \A j \in DOMAIN stream : stream'[j].lengths = stream[j].lengths
    <2>1. stream[1] \in Replay
        BY <1>1
    <2>2. stream' = [stream EXCEPT ![1] = [stream[1] EXCEPT !.copied = TRUE]]
        BY DEF CopyLengths, Copy
    <2>3. [stream[1] EXCEPT !.copied = TRUE].lengths = stream[1].lengths
        BY <2>1 DEF Replay
    <2> QED
        BY <1>1, <2>2, <2>3
<1>3. Queued'
    BY <1>2 DEF ReplayInv, Queued, CopyLengths, Real
<1>4. length' \in [1 .. NumRequests -> 1 .. MaxLength] /\ ForwardIsItsBatch'
    BY DEF ReplayInv, CopyLengths, ForwardIsItsBatch, GoodBatch
<1> QED
    BY <1>3, <1>4 DEF ReplayInv

\* The device reaches the oldest replay: it read the lengths of its own batch, so
\* its rows are those of that batch; what is queued behind it still fits.
LEMMA RunReplayInv == ASSUME ReplayInv, RunReplay, IInv' PROVE ReplayInv'
<1>1. stream \in Seq(Replay) /\ stream # <<>> /\ Len(stream) \in Nat /\ 1 \in DOMAIN stream
    BY DEF ReplayInv, IInv, TypeOK, RunReplay, Run
<1>2. PICK v \in Batches : v = stream[1].lengths
    BY <1>1 DEF ReplayInv, Queued
<1>3. last'.launched = v /\ last'.read = v
    BY <1>2 DEF RunReplay, Run, IInv, ReplaySeesItsOwnLengths
<1>4. PICK b \in {Entries("draft_extend", v)} : TRUE
    OBVIOUS
<1>5. DraftTokens \in Nat /\ MaxLength \in Nat
    BY LayoutAssumption
<1>6. \A i \in Real(v) : length[v[i].req] + DraftTokens <= MaxLength
    BY <1>1, <1>2, <1>5 DEF ReplayInv, Queued
<1>7. length \in [1 .. NumRequests -> 1 .. MaxLength]
    BY DEF ReplayInv
<1>8. GoodBatch(b) /\ DOMAIN v = 1 .. BatchSize
    BY <1>4, <1>6, <1>7, EntriesAreGood
<1>9. WithExtends(b, v) = b
    <2>1. b = [i \in 1 .. BatchSize |->
                IF i \in Real(v) THEN Layout!Entry("draft_extend", v[i].req, v[i].extend)
                                 ELSE Layout!PaddedEntry]
        BY <1>4, <1>8 DEF Entries
    <2>2. ASSUME NEW i \in 1 .. BatchSize PROVE [b[i] EXCEPT !.extend = v[i].extend] = b[i]
        <3>1. CASE i \in Real(v)
            <4>1. b[i] = [req |-> v[i].req, extend |-> v[i].extend,
                          seqlen |-> length[v[i].req] + v[i].extend]
                BY <2>1, <3>1 DEF Layout!Entry
            <4> QED
                BY <4>1
        <3>2. CASE i \notin Real(v)
            <4>1. v[i].extend = 0
                BY <1>8, <3>2 DEF Batches, Real
            <4>2. b[i] = [req |-> 0, extend |-> 0, seqlen |-> 1]
                BY <2>1, <3>2 DEF Layout!PaddedEntry
            <4> QED
                BY <4>1, <4>2
        <3> QED
            BY <3>1, <3>2
    <2>3. DOMAIN b = 1 .. BatchSize /\ b = [i \in 1 .. BatchSize |-> b[i]]
        BY <2>1
    <2> QED
        BY <2>2, <2>3 DEF WithExtends
<1>10. Forwarded("draft_extend", v, b, b)
    BY <1>3, <1>4, <1>9 DEF RunReplay
<1>11. ForwardIsItsBatch'
    BY <1>8, <1>10, ForwardedIsItsBatch
<1>12. /\ length' \in [1 .. NumRequests -> 1 .. MaxLength]
       /\ \A r \in 1 .. NumRequests : length'[r] <= length[r] + DraftTokens
    BY <1>6, <1>7, <1>10, ForwardGrows
<1>13. Queued'
    <2> SUFFICES ASSUME NEW j \in DOMAIN stream'
                 PROVE  /\ stream'[j].lengths \in Batches
                        /\ \A i \in Real(stream'[j].lengths) :
                             length'[stream'[j].lengths[i].req] + DraftTokens * j <= MaxLength
        BY DEF Queued, Real
    <2>1. stream' = Tail(stream)
        BY DEF RunReplay, Run
    <2>2. j \in Nat \ {0} /\ j + 1 \in DOMAIN stream /\ stream'[j] = stream[j + 1]
        BY <1>1, <2>1
    <2>3. PICK w \in Batches : w = stream'[j].lengths
        BY <2>2 DEF ReplayInv, Queued
    <2>4. ASSUME NEW i \in Real(w) PROVE length'[w[i].req] + DraftTokens * j <= MaxLength
        <3>1. w[i].req \in 1 .. NumRequests
            <4>1. /\ w \in [1 .. BatchSize -> [req : 0 .. NumRequests, extend : 0 .. DraftTokens]]
                  /\ i \in DOMAIN w /\ w[i].req # 0
                BY <2>3 DEF Batches, Real
            <4>2. w[i].req \in 0 .. NumRequests
                BY <4>1
            <4> QED
                BY <4>1, <4>2, LayoutAssumption
        <3>2. length[w[i].req] + DraftTokens * (j + 1) <= MaxLength
            BY <2>2, <2>3, <2>4 DEF ReplayInv, Queued
        <3>3. PICK l \in Nat, m \in Nat : l = length[w[i].req] /\ m = length'[w[i].req]
            BY <1>7, <1>12, <3>1, <1>5
        <3>4. m <= l + DraftTokens
            BY <1>12, <3>1, <3>3
        <3>5. DraftTokens * (j + 1) = DraftTokens * j + DraftTokens /\ DraftTokens * j \in Nat
            BY <1>5, <2>2
        <3> QED
            BY <1>5, <3>2, <3>3, <3>4, <3>5
    <2> QED
        BY <2>3, <2>4
<1> QED
    BY <1>11, <1>12, <1>13 DEF ReplayInv

\* A verify forward waits for no lengths, and runs behind everything queued.
LEMMA VerifyReplayInv == ASSUME ReplayInv, Verify, IInv' PROVE ReplayInv'
<1>1. PICK v \in Batches : /\ stream = <<>> /\ Fits(v)
                           /\ Forwarded("verify", v, Entries("verify", v), Entries("verify", v))
                           /\ UNCHANGED vars
    BY DEF Verify
<1>2. length \in [1 .. NumRequests -> 1 .. MaxLength]
    BY DEF ReplayInv
<1>3. \A i \in Real(v) : length[v[i].req] + DraftTokens <= MaxLength
    <2>1. DraftTokens * (Len(stream) + 1) = DraftTokens
        BY <1>1, LayoutAssumption
    <2> QED
        BY <1>1, <2>1 DEF Fits
<1>4. GoodBatch(Entries("verify", v)) /\ Windows(Entries("verify", v))
    BY <1>2, <1>3, EntriesAreGood
<1>5. ForwardIsItsBatch'
    BY <1>1, <1>4, ForwardedIsItsBatch
<1>6. length' \in [1 .. NumRequests -> 1 .. MaxLength]
    BY <1>1, <1>2, <1>3, ForwardGrows
<1>7. Queued'
    BY <1>1 DEF vars, Queued
<1> QED
    BY <1>5, <1>6, <1>7 DEF ReplayInv

LEMMA ReplaceReplayInv == ASSUME ReplayInv, Replace, IInv' PROVE ReplayInv'
<1>1. Queued'
    BY DEF Replace, vars, Queued
<1>2. length' \in [1 .. NumRequests -> 1 .. MaxLength]
    BY LayoutAssumption DEF ReplayInv, Replace
<1>3. ForwardIsItsBatch'
    BY DEF Replace, ForwardIsItsBatch
<1> QED
    BY <1>1, <1>2, <1>3 DEF ReplayInv

LEMMA StepReplayInv == ReplayInv /\ [ReplayNext]_replayVars => ReplayInv'
<1> SUFFICES ASSUME ReplayInv, [ReplayNext]_replayVars PROVE ReplayInv'
    OBVIOUS
<1>1. IInv'
    BY ReplayStepsAreSteps, StepIInv DEF ReplayInv
<1>2. CASE UNCHANGED replayVars
    <2>1. Queued' /\ length' = length /\ ForwardIsItsBatch'
        BY <1>2 DEF replayVars, vars, ReplayInv, Queued, Real, ForwardIsItsBatch, GoodBatch, Windows
    <2> QED
        BY <1>1, <2>1 DEF ReplayInv
<1> QED
    BY <1>1, <1>2, LaunchReplayInv, CopyReplayInv, RunReplayInv, VerifyReplayInv,
       ReplaceReplayInv DEF ReplayNext

LEMMA ReplayInvariance == ReplaySpec => []ReplayInv
BY InitReplayInv, StepReplayInv, PTL DEF ReplaySpec

\* The staging buffers, the lengths and the rows keep their types: every row of a
\* forward, a padding row included, stands for at least one token of a slot.
THEOREM ReplayTypeCorrect == ReplaySpec => []ReplayTypeOK
<1>1. ASSUME ReplayInv PROVE ReplayTypeOK
    <2>1. TypeOK /\ length \in [1 .. NumRequests -> 1 .. MaxLength]
        BY <1>1 DEF ReplayInv, IInv
    <2>2. forward.rows \in Seq(Layout!RowType)
        <3>1. CASE forward = Layout!NoForward
            BY <3>1 DEF Layout!NoForward
        <3>2. CASE forward # Layout!NoForward
            BY <1>1, <3>2, GraphRowsFacts DEF ReplayInv, ForwardIsItsBatch
        <3> QED
            BY <3>1, <3>2
    <2> QED
        BY <2>1, <2>2 DEF ReplayTypeOK
<1> QED
    BY <1>1, ReplayInvariance, PTL

\* Whatever the host stages meanwhile, each request of the batch that was launched
\* has one row per new token, in order and next to each other, as its packed
\* tokens are (_graph_speculative_layout on the lengths the replay read).
THEOREM ReplayRowsFollowTheBatch == ReplaySpec => []RowsFollowTheBatch
<1>1. ASSUME ReplayInv PROVE RowsFollowTheBatch
    <2>1. CASE forward = Layout!NoForward
        BY <2>1 DEF Layout!NoForward, RowsFollowTheBatch, Layout!RowsFollowTheBatch
    <2>2. CASE forward # Layout!NoForward
        <3>1. PICK b \in {forward.batch} : TRUE
            OBVIOUS
        <3>2. PICK rows \in {forward.rows} : TRUE
            OBVIOUS
        <3>3. GoodBatch(b) /\ rows = Layout!GraphRows(b, BatchSize * DraftTokens)
            BY <1>1, <2>2, <3>1, <3>2 DEF ReplayInv, ForwardIsItsBatch
        <3>4. ASSUME NEW i \in DOMAIN b, NEW k \in 1 .. b[i].extend
              PROVE  LET row == rows[Layout!RowEnds(b)[i - 1] + k]
                     IN  row.real /\ row.req = b[i].req /\ row.length = b[i].seqlen - b[i].extend + k
            <4>0. i \in 1 .. BatchSize /\ BatchSize \in Nat
                BY <3>3, LayoutAssumption DEF GoodBatch
            <4>1. PICK before \in Nat, x \in Nat : before = Layout!RowEnds(b)[i - 1] /\ x = b[i].extend
                <5>1. i - 1 \in 0 .. BatchSize
                    BY <4>0
                <5>2. b[i] \in RowEntry
                    BY <3>3, <4>0 DEF GoodBatch
                <5>3. b[i].extend \in Nat
                    BY <5>2, LayoutAssumption DEF RowEntry
                <5> QED
                    BY <3>3, <5>1, <5>3, RowEndsFit
            <4>2. Layout!RowEnds(b)[i] = before + x /\ before + x <= Layout!SumExtend(b)
                <5>1. i \in 0 .. BatchSize
                    BY <4>0
                <5> QED
                    BY <3>3, <4>0, <4>1, <5>1, RowEndsFit
            <4>3. PICK n \in 1 .. Layout!SumExtend(b) : n = before + k
                BY <3>3, <4>1, <4>2, RowEndsFit
            <4>4. before < n /\ n <= before + x
                BY <4>1, <4>3
            <4>5. i = Layout!EntryOf(b, n)
                BY <3>3, <4>0, <4>1, <4>2, <4>4, RowHasOneEntry
            <4>6. rows[n] = Layout!RealRow(b, n)
                BY <3>3, GraphRowsFacts
            <4>7. n - before = k
                BY <4>1, <4>3
            <4>8. /\ Layout!RealRow(b, n).real = TRUE /\ Layout!RealRow(b, n).req = b[i].req
                  /\ Layout!RealRow(b, n).length = b[i].seqlen - b[i].extend + (n - before)
                BY <3>3, <4>1, <4>5, RealRowFacts
            <4> QED
                BY <4>1, <4>3, <4>6, <4>7, <4>8
        <3> QED
            BY <3>1, <3>2, <3>4 DEF RowsFollowTheBatch, Layout!RowsFollowTheBatch
    <2> QED
        BY <2>1, <2>2
<1> QED
    BY <1>1, ReplayInvariance, PTL

\* The rows of a replay stand for the same requests and lengths as those of the same
\* batch run eagerly, which is never refused: padding included where the eager mapping
\* goes by extend lengths, and every row of a token where it goes by even shares
\* (both branches of _speculative_row_to_request).
THEOREM ReplaysMirrorEager == ReplaySpec => []EagerMirrorsGraph
<1>1. ASSUME ReplayInv PROVE EagerMirrorsGraph
    <2>1. CASE forward = Layout!NoForward
        BY <2>1 DEF Layout!NoForward, EagerMirrorsGraph, Layout!EagerMirrorsGraph
    <2>2. CASE forward # Layout!NoForward
        <3>1. PICK b \in {forward.batch} : TRUE
            OBVIOUS
        <3>2. PICK rows \in {forward.rows} : TRUE
            OBVIOUS
        <3>3. /\ GoodBatch(b) /\ rows = Layout!GraphRows(b, BatchSize * DraftTokens)
              /\ forward.mode \in {"verify", "draft_extend"}
              /\ forward.mode = "verify" => Windows(b)
            BY <1>1, <2>2, <3>1, <3>2 DEF ReplayInv, ForwardIsItsBatch
        <3>4. /\ Layout!SumExtend(b) \in Nat /\ Layout!SumExtend(b) <= Len(rows)
              /\ Len(rows) = BatchSize * DraftTokens /\ Len(rows) \in Nat /\ b # <<>>
            BY <3>3, RowEndsFit, GraphRowsFacts, LayoutAssumption DEF GoodBatch
        <3>5. ASSUME NEW n \in 1 .. Len(rows), n <= Layout!SumExtend(b)
              PROVE  /\ rows[n].req = b[Layout!EntryOf(b, n)].req
                     /\ rows[n].length = Layout!EagerLengths(b, Len(rows))[n]
            <4>1. n \in 1 .. Layout!SumExtend(b)
                BY <3>4, <3>5
            <4>2. PICK i \in {Layout!EntryOf(b, n)} : TRUE
                OBVIOUS
            <4>3. PICK before \in Nat : before = Layout!RowEnds(b)[i - 1]
                <5>1. i \in 1 .. BatchSize
                    BY <3>3, <4>1, <4>2, RowHasOneEntry
                <5>2. i - 1 \in 0 .. BatchSize
                    BY <5>1, LayoutAssumption
                <5> QED
                    BY <3>3, <5>2, RowEndsFit
            <4>4. rows[n].req = b[i].req /\ rows[n].length = b[i].seqlen - b[i].extend + (n - before)
                <5>1. rows[n] = Layout!RealRow(b, n)
                    BY <3>3, <4>1, GraphRowsFacts
                <5>2. /\ Layout!RealRow(b, n).req = b[i].req
                      /\ Layout!RealRow(b, n).length = b[i].seqlen - b[i].extend + (n - before)
                    BY <3>3, <4>1, <4>2, <4>3, RealRowFacts
                <5> QED
                    BY <5>1, <5>2
            <4>5. Layout!EagerLengths(b, Len(rows))[n] = b[i].seqlen - b[i].extend + n - before
                BY <3>5, <4>2, <4>3 DEF Layout!EagerLengths
            <4>6. b[i].seqlen \in Int /\ b[i].extend \in Int
                <5>1. b[i] \in RowEntry
                    BY <3>3, <4>1, <4>2, RowHasOneEntry DEF GoodBatch
                <5> QED
                    BY <5>1, LayoutAssumption DEF RowEntry
            <4>7. b[i].seqlen - b[i].extend + (n - before) = b[i].seqlen - b[i].extend + n - before
                BY <3>4, <4>1, <4>3, <4>6
            <4> QED
                BY <4>2, <4>4, <4>5, <4>7
        <3>6. ASSUME NEW n \in 1 .. Len(rows), ~ (n <= Layout!SumExtend(b))
              PROVE  /\ rows[n].req = b[1].req /\ rows[n].real = FALSE
                     /\ rows[n].length = Layout!EagerLengths(b, Len(rows))[n]
            <4>1. rows[n] = Layout!PaddingRow(b)
                <5>1. n > Layout!SumExtend(b)
                    BY <3>4, <3>6
                <5> QED
                    BY <3>3, <5>1, GraphRowsFacts
            <4> QED
                BY <3>6, <4>1 DEF Layout!PaddingRow, Layout!EagerLengths
        <3>7. ASSUME NEW n \in 1 .. Len(rows)
              PROVE  rows[n].req = Layout!EagerRequests(TRUE, b, Len(rows))[n]
            BY <3>5, <3>6 DEF Layout!EagerRequests, Layout!EntryByLengths
        <3>8. ASSUME forward.mode = "verify", NEW n \in 1 .. Len(rows), rows[n].real
              PROVE  rows[n].req = Layout!EagerRequests(FALSE, b, Len(rows))[n]
            <4>1. n <= Layout!SumExtend(b)
                BY <3>6, <3>8
            <4>2. Layout!EntryByShares(b, Len(rows), n) = Layout!EntryOf(b, n)
                <5>1. n \in 1 .. Layout!SumExtend(b)
                    BY <3>4, <4>1
                <5> QED
                    BY <3>3, <3>4, <3>8, <5>1, SharesAreWindows
            <4>3. Layout!EagerRequests(FALSE, b, Len(rows))[n] = b[Layout!EntryOf(b, n)].req
                BY <4>2 DEF Layout!EagerRequests
            <4> QED
                BY <3>5, <4>1, <4>3
        <3>9. Layout!EagerMaps(TRUE, b, Len(rows)) /\ Layout!EagerMaps(FALSE, b, Len(rows))
            <4>1. Len(rows) % Len(b) = 0
                <5>1. PICK size \in Nat \ {0}, d \in Nat \ {0} :
                        size = BatchSize /\ d = DraftTokens /\ Len(b) = size
                    BY <3>3, LayoutAssumption DEF GoodBatch
                <5>2. size * d = d * size + 0 /\ 0 \in 0 .. size - 1 /\ d \in Int
                    BY <5>1
                <5>3. (size * d) % size = 0
                    BY <5>1, <5>2, DivUnique
                <5> QED
                    BY <3>4, <5>1, <5>3
            <4> QED
                BY <3>4, <4>1 DEF Layout!EagerMaps
        <3>10. ASSUME NEW carried \in Layout!Carries(forward.mode)
               PROVE  /\ Layout!EagerMaps(carried, b, Len(rows))
                      /\ \A n \in 1 .. Len(rows) : carried \/ rows[n].real =>
                            rows[n].req = Layout!EagerRequests(carried, b, Len(rows))[n]
            <4>1. CASE carried = TRUE
                BY <3>7, <3>9, <4>1
            <4>2. CASE carried = FALSE
                <5>1. forward.mode = "verify"
                    BY <4>2 DEF Layout!Carries
                <5> QED
                    BY <3>8, <3>9, <4>2, <5>1
            <4> QED
                BY <4>1, <4>2 DEF Layout!Carries
        <3>11. \A n \in 1 .. Len(rows) : rows[n].length = Layout!EagerLengths(b, Len(rows))[n]
            BY <3>5, <3>6
        <3>12. b = forward.batch /\ rows = forward.rows
            BY <3>1, <3>2
        <3> QED
            BY <3>10, <3>11, <3>12, Zenon DEF EagerMirrorsGraph, Layout!EagerMirrorsGraph
    <2> QED
        BY <2>1, <2>2
<1> QED
    BY <1>1, ReplayInvariance, PTL

-----------------------------------------------------------------------------
(* Running totals over the rows of a batch *)

LEMMA CumsumSums ==
    ASSUME NEW k \in Nat, NEW counts \in [1 .. k -> Nat]
    PROVE  SumsOf(Cumsum(counts), k, counts) /\ DOMAIN Cumsum(counts) = 0 .. k
<1> DEFINE IsSum(f) == f = [i \in 0 .. k |-> IF i = 0 THEN 0 ELSE f[i - 1] + counts[i]]
<1>1. Len(counts) = k
    OBVIOUS
<1>2. \E f : IsSum(f)
    BY SumsExist
<1>3. Cumsum(counts) = CHOOSE f : IsSum(f)
    BY <1>1 DEF Cumsum
<1>4. IsSum(Cumsum(counts))
    <2> HIDE DEF IsSum
    <2> QED
        BY <1>2, <1>3
<1>5. \A i \in 1 .. k : i \in 0 .. k /\ i # 0
    OBVIOUS
<1>6. Cumsum(counts)[0] = 0
    BY <1>4
<1>7. \A i \in 1 .. k : Cumsum(counts)[i] = Cumsum(counts)[i - 1] + counts[i]
    BY <1>4, <1>5
<1>8. DOMAIN Cumsum(counts) = 0 .. k
    BY <1>4
<1> QED
    BY <1>6, <1>7, <1>8 DEF SumsOf

\* The holder of a place is the one row whose block it lies in.
LEMMA HolderFacts ==
    ASSUME NEW k \in Nat, NEW len \in [1 .. k -> Nat], NEW f, SumsOf(f, k, len),
           DOMAIN f = 0 .. k, NEW n \in 1 .. f[k]
    PROVE  /\ Holder(f, n) \in 1 .. k
           /\ f[Holder(f, n) - 1] < n /\ n <= f[Holder(f, n)]
           /\ \A i \in 1 .. k : f[i - 1] < n /\ n <= f[i] => i = Holder(f, n)
<1>1. /\ \E i \in 1 .. k : f[i - 1] < n /\ n <= f[i]
      /\ \A i, j \in 1 .. k :
            /\ f[i - 1] < n /\ n <= f[i]
            /\ f[j - 1] < n /\ n <= f[j]
            => i = j
    BY OneBlock
<1>2. DOMAIN f \ {0} = 1 .. k
    OBVIOUS
<1>3. Holder(f, n) = CHOOSE i \in 1 .. k : f[i - 1] < n /\ n <= f[i]
    BY <1>2 DEF Holder
<1>4. Holder(f, n) \in 1 .. k /\ f[Holder(f, n) - 1] < n /\ n <= f[Holder(f, n)]
    BY <1>1, <1>3
<1> QED
    BY <1>1, <1>4

\* searchsorted from the right: as many rows end at or before e as stand in front of
\* the row that holds the place behind e.
LEMMA RowsBefore ==
    ASSUME NEW k \in Nat, NEW len \in [1 .. k -> Nat], NEW f, SumsOf(f, k, len),
           NEW n \in 1 .. f[k], NEW i \in 1 .. k, f[i - 1] < n, n <= f[i]
    PROVE  Cardinality({j \in 1 .. k : f[j] <= n - 1}) = i - 1
<1>1. /\ \A j \in 0 .. k : f[j] \in Nat
      /\ \A j, m \in 0 .. k : j <= m => f[j] <= f[m]
    BY SumsGrow
<1>2. n \in Nat /\ i \in Nat /\ i - 1 \in Nat
    BY <1>1
<1>3. {j \in 1 .. k : f[j] <= n - 1} = 1 .. i - 1
    <2>1. ASSUME NEW j \in 1 .. k, f[j] <= n - 1 PROVE j \in 1 .. i - 1
        <3>1. f[j] \in Nat /\ (i <= j => f[i] <= f[j]) /\ f[i] \in Nat
            BY <1>1
        <3> QED
            BY <1>2, <2>1, <3>1
    <2>2. ASSUME NEW j \in 1 .. i - 1 PROVE j \in 1 .. k /\ f[j] <= n - 1
        <3>1. j \in 1 .. k /\ j \in 0 .. k /\ i - 1 \in 0 .. k /\ j <= i - 1
            BY <1>2
        <3>2. f[j] \in Nat /\ f[i - 1] \in Nat /\ f[j] <= f[i - 1]
            BY <1>1, <3>1
        <3> QED
            BY <1>2, <3>1, <3>2
    <2> QED
        BY <2>1, <2>2
<1>4. Cardinality(1 .. i - 1) = i - 1
    <2>1. Cardinality(1 .. i - 1) = IF 1 > i - 1 THEN 0 ELSE (i - 1) - 1 + 1
        <3>1. 1 \in Int /\ i - 1 \in Int
            BY <1>2
        <3> QED
            BY <3>1, FS_Interval
    <2> QED
        BY <1>2, <2>1
<1> QED
    BY <1>3, <1>4

-----------------------------------------------------------------------------
(* What the runner's batches are *)

BatchRow == [req : Nat \ {0}, prefix : Nat, extend : Nat]

\* Chunks begin on a group boundary; a paged row has one new token.
IsBatch(b) ==
    /\ b.mode \in {"extend", "paged"} /\ b.padding \in Nat
    /\ b.rows \in Seq(BatchRow) /\ Len(b.rows) \in Nat \ {0}
    /\ b.mode = "extend" => \A i \in 1 .. Len(b.rows) : b.rows[i].prefix % Ratio = 0
    /\ b.mode = "paged" => \A i \in 1 .. Len(b.rows) : b.rows[i].extend = 1

LEMMA ChunksAreBatches == ASSUME NEW b \in ExtendBatches PROVE IsBatch(b)
<1>1. PICK s \in BoundedSeq(ExtendRow, MaxRequests) \ {<<>>}, n \in 0 .. MaxTail :
        b = [mode |-> "extend", padding |-> n,
             rows |-> [i \in DOMAIN s |-> [req |-> i, prefix |-> s[i].prefix, extend |-> s[i].extend]]]
    BY DEF ExtendBatches
<1>2. PICK m \in 0 .. MaxRequests : s \in [1 .. m -> ExtendRow]
    BY <1>1 DEF BoundedSeq, SeqOf
<1>3. m \in Nat \ {0}
    <2>1. CASE m = 0
        BY <1>2, <2>1
    <2> QED
        BY <2>1, BatchAssumption
<1>4. ASSUME NEW i \in 1 .. m
      PROVE  /\ [req |-> i, prefix |-> s[i].prefix, extend |-> s[i].extend] \in BatchRow
             /\ s[i].prefix % Ratio = 0
    <2>1. s[i] \in ExtendRow
        BY <1>2
    <2> QED
        BY <1>3, <2>1, BatchAssumption DEF ExtendRow, BatchRow
<1>5. b.rows = [i \in 1 .. m |-> [req |-> i, prefix |-> s[i].prefix, extend |-> s[i].extend]]
    BY <1>1, <1>2
<1>6. b.rows \in [1 .. m -> BatchRow]
    BY <1>4, <1>5
<1>7. b.rows \in Seq(BatchRow) /\ Len(b.rows) = m
    BY <1>3, <1>6
<1>8. \A i \in 1 .. m : b.rows[i].prefix % Ratio = 0
    BY <1>4, <1>5
<1>9. b.mode = "extend" /\ b.padding \in Nat
    BY <1>1, BatchAssumption
<1> QED
    BY <1>3, <1>7, <1>8, <1>9 DEF IsBatch

LEMMA WindowsAreBatches == ASSUME NEW b \in PagedBatches PROVE IsBatch(b)
<1>1. PICK s \in BoundedSeq(0 .. MaxPrefix, MaxRequests) \ {<<>>}, w \in 1 .. MaxExtend :
        b = [mode |-> "paged", padding |-> 0,
             rows |-> [n \in 1 .. Len(s) * w |->
                        LET i == (n - 1) \div w + 1
                        IN  [req |-> i, prefix |-> s[i] + ((n - 1) % w), extend |-> 1]]]
    BY DEF PagedBatches
<1>2. PICK m \in 0 .. MaxRequests : s \in [1 .. m -> 0 .. MaxPrefix]
    BY <1>1 DEF BoundedSeq, SeqOf
<1>3. m \in Nat \ {0} /\ w \in Nat \ {0} /\ Len(s) = m /\ MaxPrefix \in Nat
    <2>1. CASE m = 0
        BY <1>2, <2>1
    <2> QED
        BY <1>2, <2>1, BatchAssumption
<1>4. PICK k \in Nat \ {0} : k = m * w
    BY <1>3
<1>5. ASSUME NEW n \in 1 .. k
      PROVE  LET i == (n - 1) \div w + 1
             IN  [req |-> i, prefix |-> s[i] + ((n - 1) % w), extend |-> 1] \in BatchRow
    <2>1. n - 1 \in Nat
        BY <1>4
    <2>2. PICK q \in Nat, r \in Nat : q = (n - 1) \div w /\ r = (n - 1) % w /\ q * w <= n - 1
        <3>1. (n - 1) \div w \in Nat /\ (n - 1) % w \in 0 .. w - 1 /\ ((n - 1) \div w) * w <= n - 1
            BY <1>3, <2>1, DivNat
        <3> QED
            BY <1>3, <3>1
    <2>3. q < m
        <3>1. SUFFICES ASSUME m <= q PROVE FALSE
            BY <1>3, <2>2
        <3>2. m * w <= q * w
            <4>1. CASE m = q
                BY <1>3, <4>1
            <4>2. CASE m < q
                <5>1. m * w + w <= q * w
                    BY <1>3, <2>2, <4>2, MulLess
                <5> QED
                    BY <1>3, <1>4, <2>2, <5>1
            <4> QED
                BY <1>3, <2>2, <3>1, <4>1, <4>2
        <3> QED
            BY <1>4, <2>1, <2>2, <3>2
    <2>4. q + 1 \in 1 .. m /\ q + 1 \in Nat \ {0}
        BY <1>3, <2>2, <2>3
    <2>5. s[q + 1] + r \in Nat
        <3>1. s[q + 1] \in Nat
            BY <1>2, <1>3, <2>4
        <3> QED
            BY <2>2, <3>1
    <2> QED
        BY <2>2, <2>4, <2>5 DEF BatchRow
<1>6. b.rows = [n \in 1 .. k |->
                    LET i == (n - 1) \div w + 1
                    IN  [req |-> i, prefix |-> s[i] + ((n - 1) % w), extend |-> 1]]
    BY <1>1, <1>3, <1>4
<1>7. b.rows \in [1 .. k -> BatchRow]
    BY <1>5, <1>6
<1>8. b.rows \in Seq(BatchRow) /\ Len(b.rows) = k
    BY <1>4, <1>7
<1>9. \A i \in 1 .. k : b.rows[i].extend = 1
    BY <1>6
<1>10. b.mode = "paged" /\ b.padding \in Nat
    BY <1>1
<1> QED
    BY <1>4, <1>8, <1>9, <1>10 DEF IsBatch

-----------------------------------------------------------------------------
(* The rows of a batch *)

\* A row's groups: a row completes the groups from its start block to its end block.
LEMMA BatchRowFacts ==
    ASSUME NEW b, IsBatch(b), NEW i \in RowIds(b)
    PROVE  /\ b.rows[i] \in BatchRow
           /\ Prefix(b, i) \in Nat /\ Extend(b, i) \in Nat
           /\ Length(b, i) = Prefix(b, i) + Extend(b, i) /\ Length(b, i) \in Nat
           /\ EndBlock(b, i) \in Nat /\ StartBlock(b, i) \in Nat
           /\ StartBlock(b, i) <= EndBlock(b, i)
           /\ Count(b, i) = EndBlock(b, i) - StartBlock(b, i)
<1>0. i \in 1 .. Len(b.rows) /\ Len(b.rows) \in Nat
    BY DEF RowIds, NumRows, IsBatch
<1>1. b.rows[i] \in BatchRow
    BY <1>0 DEF IsBatch
<1>2. PICK p \in Nat, x \in Nat, l \in Nat :
        p = Prefix(b, i) /\ x = Extend(b, i) /\ l = Length(b, i) /\ l = p + x
    BY <1>1 DEF BatchRow, Prefix, Extend, Length
<1>3. PICK e \in Nat, r \in 0 .. Ratio - 1 :
        e = l \div Ratio /\ r = l % Ratio /\ l = e * Ratio + r
    <2>1. l \div Ratio \in Nat /\ l % Ratio \in 0 .. Ratio - 1
        BY RatioAssumption, DivNat
    <2>2. l = (l \div Ratio) * Ratio + (l % Ratio)
        BY RatioAssumption, DivMod
    <2> QED
        BY <2>1, <2>2
<1>4. EndBlock(b, i) = e
    BY <1>2, <1>3 DEF EndBlock
<1>5. StartBlock(b, i) \in Nat /\ StartBlock(b, i) <= e
    <2>1. CASE b.mode = "paged"
        <3>1. x = 1
            BY <1>0, <1>2, <2>1 DEF IsBatch, Extend
        <3>2. r = 0 => e # 0
            <4>1. SUFFICES ASSUME r = 0, e = 0 PROVE FALSE
                OBVIOUS
            <4>2. l = 0
                BY <1>3, <4>1, RatioAssumption
            <4> QED
                BY <1>2, <3>1, <4>2
        <3>3. StartBlock(b, i) = e - (IF r = 0 THEN 1 ELSE 0)
            BY <1>2, <1>3, <1>4, <2>1 DEF StartBlock
        <3> QED
            BY <3>2, <3>3
    <2>2. CASE b.mode # "paged"
        <3>1. PICK q \in Nat : q = p \div Ratio /\ q * Ratio <= p
            BY RatioAssumption, DivNat
        <3>2. StartBlock(b, i) = q
            BY <1>2, <2>2, <3>1 DEF StartBlock
        <3>3. q <= e
            <4>1. SUFFICES ASSUME e < q PROVE FALSE
                OBVIOUS
            <4>2. e * Ratio + Ratio <= q * Ratio /\ e * Ratio \in Int /\ q * Ratio \in Int
                BY <4>1, RatioAssumption, MulLess
            <4> QED
                BY <1>2, <1>3, <3>1, <4>2, RatioAssumption
        <3> QED
            BY <3>2, <3>3
    <2> QED
        BY <2>1, <2>2
<1>6. Count(b, i) = e - StartBlock(b, i)
    <2>1. PICK z \in Nat : z = StartBlock(b, i) /\ z <= e
        BY <1>5
    <2> QED
        BY <1>4, <2>1 DEF Count
<1> QED
    BY <1>1, <1>2, <1>4, <1>5, <1>6

\* The groups a row completes are those from its start block to its end block.
LEMMA CompletingFacts ==
    ASSUME NEW b, IsBatch(b), NEW i \in RowIds(b)
    PROVE  Completing(b, i) = StartBlock(b, i) .. EndBlock(b, i) - 1
<1>0. i \in 1 .. Len(b.rows) /\ Len(b.rows) \in Nat
    BY DEF RowIds, NumRows, IsBatch
<1>1. PICK p \in Nat, x \in Nat, l \in Nat, z \in Nat, e \in Nat :
        /\ p = Prefix(b, i) /\ x = Extend(b, i) /\ l = Length(b, i) /\ l = p + x
        /\ z = StartBlock(b, i) /\ e = EndBlock(b, i)
    BY BatchRowFacts
<1>2. e = l \div Ratio /\ l % Ratio \in 0 .. Ratio - 1 /\ l = e * Ratio + (l % Ratio)
    <2>1. l \div Ratio \in Int /\ l % Ratio \in 0 .. Ratio - 1
          /\ l = (l \div Ratio) * Ratio + (l % Ratio)
        BY RatioAssumption, DivMod
    <2> QED
        BY <1>1, <2>1 DEF EndBlock
<1>3. \A g \in Int : g < e <=> (g + 1) * Ratio <= l
    BY <1>2, RatioAssumption, BelowDiv
<1>4. \A g \in Int : (g + 1) * Ratio \in Int
    BY RatioAssumption
<1>5. \A g \in Nat : g < e => g \in 0 .. l
    <2>1. e <= l
        <3>1. e * Ratio <= l
            BY <1>1, RatioAssumption, <1>2, DivNat
        <3>2. e <= e * Ratio
            BY RatioAssumption
        <3> QED
            BY <3>1, <3>2, RatioAssumption
    <2> QED
        BY <2>1
<1>6. ASSUME NEW g \in Nat, g < e
      PROVE  (g + 1) * Ratio - 1 \in p .. l - 1 <=> g >= z
    <2>1. (g + 1) * Ratio <= l /\ (g + 1) * Ratio \in Int
        BY <1>3, <1>4, <1>6
    <2>2. (g + 1) * Ratio - 1 \in p .. l - 1 <=> p < (g + 1) * Ratio
        <3>1. PICK y \in Int : y = (g + 1) * Ratio
            BY <2>1
        <3> QED
            BY <2>1, <3>1
    <2>3. CASE b.mode = "paged"
        <3>1. l = p + 1
            BY <1>0, <1>1, <2>3 DEF IsBatch, Extend
        <3>2. z = e - (IF l % Ratio = 0 THEN 1 ELSE 0)
            BY <1>1, <2>3 DEF StartBlock
        <3>3. p < (g + 1) * Ratio <=> l = (g + 1) * Ratio
            <4>1. PICK y \in Int : y = (g + 1) * Ratio
                BY <2>1
            <4> QED
                BY <2>1, <3>1, <4>1
        <3>4. l = (g + 1) * Ratio <=> l % Ratio = 0 /\ g + 1 = e
            <4>1. ASSUME l = (g + 1) * Ratio PROVE l % Ratio = 0 /\ g + 1 = e
                <5>1. (g + 1) * Ratio + 0 = l /\ 0 \in 0 .. Ratio - 1 /\ g + 1 \in Int
                    BY <4>1, RatioAssumption
                <5>2. ((g + 1) * Ratio + 0) \div Ratio = g + 1 /\ ((g + 1) * Ratio + 0) % Ratio = 0
                    BY <5>1, RatioAssumption, DivUnique
                <5> QED
                    BY <1>2, <5>1, <5>2
            <4>2. ASSUME l % Ratio = 0, g + 1 = e PROVE l = (g + 1) * Ratio
                <5>1. l = e * Ratio + 0
                    BY <1>2, <4>2
                <5>2. e * Ratio \in Int
                    BY RatioAssumption
                <5> QED
                    BY <4>2, <5>1, <5>2
            <4> QED
                BY <4>1, <4>2
        <3>5. l % Ratio = 0 /\ g + 1 = e <=> g >= z
            BY <1>6, <3>2
        <3> QED
            BY <2>2, <3>3, <3>4, <3>5
    <2>4. CASE b.mode # "paged"
        <3>1. z = p \div Ratio /\ p % Ratio = 0
            BY <1>0, <1>1, <2>4 DEF StartBlock, IsBatch, Prefix
        <3>2. p = z * Ratio + 0
            <4>1. p = (p \div Ratio) * Ratio + (p % Ratio)
                BY RatioAssumption, DivMod
            <4> QED
                BY <3>1, <4>1
        <3>3. p < (g + 1) * Ratio <=> g >= z
            <4>1. CASE g >= z
                <5>1. z < g + 1 /\ z \in Int /\ g + 1 \in Int
                    BY <4>1
                <5>2. z * Ratio \in Int /\ z * Ratio + Ratio <= (g + 1) * Ratio
                    BY <5>1, RatioAssumption, MulLess
                <5> QED
                    BY <2>1, <3>2, <4>1, <5>2, RatioAssumption
            <4>2. CASE g < z
                <5>1. (g + 1) * Ratio <= z * Ratio /\ z * Ratio \in Int
                    <6>1. CASE g + 1 = z
                        BY <2>1, <6>1
                    <6>2. CASE g + 1 < z
                        <7>1. (g + 1) * Ratio + Ratio <= z * Ratio /\ z * Ratio \in Int
                            BY <6>2, RatioAssumption, MulLess
                        <7> QED
                            BY <2>1, <7>1, RatioAssumption
                    <6> QED
                        BY <4>2, <6>1, <6>2
                <5> QED
                    BY <2>1, <3>2, <4>2, <5>1
            <4> QED
                BY <4>1, <4>2
        <3> QED
            BY <2>2, <3>3
    <2> QED
        BY <2>3, <2>4
<1>7. ASSUME NEW g \in 0 .. l, (g + 1) * Ratio - 1 \in p .. l - 1 PROVE g < e
    <2>1. PICK y \in Int : y = (g + 1) * Ratio
        BY <1>4
    <2>2. (g + 1) * Ratio <= l
        BY <1>7, <2>1
    <2> QED
        BY <1>3, <2>2
<1>8. Completing(b, i) = {g \in 0 .. l : (g + 1) * Ratio - 1 \in p .. l - 1}
    BY <1>1 DEF Completing
<1>9. \A g : g \in Completing(b, i) <=> g \in z .. e - 1
    <2>1. ASSUME NEW g \in 0 .. l, (g + 1) * Ratio - 1 \in p .. l - 1 PROVE g \in z .. e - 1
        <3>1. g \in Nat /\ g < e
            BY <1>7, <2>1
        <3> QED
            BY <1>6, <2>1, <3>1
    <2>2. ASSUME NEW g \in z .. e - 1 PROVE g \in 0 .. l /\ (g + 1) * Ratio - 1 \in p .. l - 1
        <3>1. g \in Nat /\ g < e /\ g >= z
            OBVIOUS
        <3> QED
            BY <1>5, <1>6, <3>1
    <2> QED
        BY <1>8, <2>1, <2>2
<1> QED
    BY <1>1, <1>9

\* Slots: page 0 holds none, so neither does the inert slot; a group lies in one page.
LEMMA TokenSlotFacts ==
    ASSUME NEW b, IsBatch(b), NEW i \in RowIds(b), NEW g \in Nat
    PROVE  /\ TokenSlot(b, i, g * Ratio) \div Ratio \in Nat \ {0}
           /\ TokenSlot(b, i, g * Ratio + (Ratio - 1)) \div Ratio = TokenSlot(b, i, g * Ratio) \div Ratio
<1>1. PICK c \in Nat \ {0} : PageSize = c * Ratio
    <2>1. PageSize \div Ratio \in Nat /\ PageSize = (PageSize \div Ratio) * Ratio + (PageSize % Ratio)
        <3>1. PageSize \in Nat /\ PageSize \in Int
            BY BatchAssumption
        <3>2. PageSize \div Ratio \in Nat
            BY <3>1, RatioAssumption, DivNat
        <3>3. PageSize = (PageSize \div Ratio) * Ratio + (PageSize % Ratio)
            BY <3>1, RatioAssumption, DivMod
        <3> QED
            BY <3>2, <3>3
    <2>2. PICK c \in Nat : c = PageSize \div Ratio
        BY <2>1
    <2>3. PageSize = c * Ratio
        BY <2>1, <2>2, BatchAssumption, RatioAssumption
    <2>4. c # 0
        BY <2>3, BatchAssumption, RatioAssumption
    <2> QED
        BY <2>3, <2>4
<1>2. PICK q \in Nat, m \in 0 .. c - 1 : g = q * c + m
    <2>1. g \div c \in Nat /\ g % c \in 0 .. c - 1 /\ g = (g \div c) * c + (g % c)
        <3>1. g \div c \in Nat /\ g % c \in 0 .. c - 1
            BY DivNat
        <3>2. g \in Int
            OBVIOUS
        <3>3. g = (g \div c) * c + (g % c)
            BY <3>2, DivMod
        <3> QED
            BY <3>1, <3>3
    <2> QED
        BY <2>1
<1>3. PICK n \in Nat : n = b.rows[i].req - 1
    <2>1. b.rows[i].req \in Nat \ {0}
        BY BatchRowFacts DEF BatchRow
    <2> QED
        BY <2>1
<1>4. PagesPerRequest \in Nat
    <2>1. MaxPrefix + MaxExtend \in Nat
        BY BatchAssumption
    <2>2. (MaxPrefix + MaxExtend) \div PageSize \in Nat
        BY <2>1, BatchAssumption, DivNat
    <2> QED
        BY <2>2 DEF PagesPerRequest
<1>5. PICK page \in Nat \ {0} : page = 1 + n * PagesPerRequest + q
    BY <1>3, <1>4
<1>6. ASSUME NEW j \in 0 .. Ratio - 1
      PROVE  TokenSlot(b, i, g * Ratio + j) \div Ratio = page * c + m
    <2>1. PICK k \in 0 .. PageSize - 1 : k = m * Ratio + j
        <3>1. m * Ratio + Ratio <= c * Ratio /\ m * Ratio \in Nat
            BY <1>1, <1>2, RatioAssumption, MulLess
        <3>2. PICK y \in Nat : y = m * Ratio
            BY <3>1
        <3> QED
            BY <1>1, <3>1, <3>2, RatioAssumption, BatchAssumption
    <2>2. g * Ratio + j = q * PageSize + k
        <3>1. \A x, y, z, w, v \in Nat : (x * y + z) * w + v = x * (y * w) + (z * w + v)
            OBVIOUS
        <3>2. c \in Nat /\ m \in Nat /\ Ratio \in Nat /\ j \in Nat
            BY <1>1, <1>2, RatioAssumption
        <3>3. (q * c + m) * Ratio + j = q * (c * Ratio) + (m * Ratio + j)
            BY <3>1, <3>2
        <3> QED
            BY <1>1, <1>2, <2>1, <3>3
    <2>3. (q * PageSize + k) \div PageSize = q /\ (q * PageSize + k) % PageSize = k
        <3>1. PageSize \in Nat \ {0} /\ q \in Int
            BY BatchAssumption
        <3> QED
            BY <3>1, DivUnique
    <2>4. TokenSlot(b, i, g * Ratio + j) = page * PageSize + k
        <3>1. TokenSlot(b, i, g * Ratio + j) = (1 + n * PagesPerRequest + q) * PageSize + k
            BY <1>3, <2>2, <2>3 DEF TokenSlot, SlotOf
        <3> QED
            BY <1>5, <3>1
    <2>5. page * PageSize + k = (page * c + m) * Ratio + j
        <3>1. \A x, y, z, w, v \in Nat : (x * y + z) * w + v = x * (y * w) + (z * w + v)
            OBVIOUS
        <3>2. c \in Nat /\ m \in Nat /\ Ratio \in Nat /\ j \in Nat /\ page \in Nat
            BY <1>1, <1>2, RatioAssumption
        <3>3. (page * c + m) * Ratio + j = page * (c * Ratio) + (m * Ratio + j)
            BY <3>1, <3>2
        <3> QED
            BY <1>1, <2>1, <3>3
    <2>6. page * c + m \in Int
        BY <1>1, <1>2
    <2>7. ((page * c + m) * Ratio + j) \div Ratio = page * c + m
        BY <2>6, RatioAssumption, DivUnique
    <2> QED
        BY <2>4, <2>5, <2>7
<1>7. page * c + m \in Nat \ {0}
    <2>1. page * c \in Nat \ {0}
        BY <1>1
    <2> QED
        BY <1>2, <2>1
<1>8. TokenSlot(b, i, g * Ratio) \div Ratio = page * c + m
    <2>1. 0 \in 0 .. Ratio - 1 /\ g * Ratio + 0 = g * Ratio
        BY RatioAssumption
    <2>2. TokenSlot(b, i, g * Ratio + 0) \div Ratio = page * c + m
        BY <1>6, <2>1
    <2> QED
        BY <2>1, <2>2
<1>9. TokenSlot(b, i, g * Ratio + (Ratio - 1)) \div Ratio = page * c + m
    <2>1. Ratio - 1 \in 0 .. Ratio - 1
        BY RatioAssumption
    <2> QED
        BY <1>6, <2>1
<1> QED
    BY <1>7, <1>8, <1>9

-----------------------------------------------------------------------------
(* The compacted plan *)

Counts(b) == [i \in RowIds(b) |-> Count(b, i)]

\* The entry that writes group g of row i.
Place(b, i, g) == Ends(b)[i - 1] + (g - StartBlock(b, i)) + 1

LEMMA EndsFacts ==
    ASSUME NEW b, IsBatch(b)
    PROVE  /\ NumRows(b) \in Nat \ {0} /\ RowIds(b) = 1 .. NumRows(b)
           /\ Counts(b) \in [1 .. NumRows(b) -> Nat]
           /\ SumsOf(Ends(b), NumRows(b), Counts(b)) /\ DOMAIN Ends(b) = 0 .. NumRows(b)
           /\ \A i \in 0 .. NumRows(b) : Ends(b)[i] \in Nat
           /\ \A i \in RowIds(b) : Ends(b)[i] = Ends(b)[i - 1] + (EndBlock(b, i) - StartBlock(b, i))
<1>1. NumRows(b) \in Nat \ {0} /\ RowIds(b) = 1 .. NumRows(b)
    BY DEF IsBatch, NumRows, RowIds
<1>2. \A i \in RowIds(b) : Count(b, i) \in Nat /\ Count(b, i) = EndBlock(b, i) - StartBlock(b, i)
    <2> SUFFICES ASSUME NEW i \in RowIds(b)
                 PROVE  Count(b, i) \in Nat /\ Count(b, i) = EndBlock(b, i) - StartBlock(b, i)
        OBVIOUS
    <2>1. PICK z \in Nat, e \in Nat : z = StartBlock(b, i) /\ e = EndBlock(b, i) /\ z <= e
                                      /\ Count(b, i) = e - z
        BY BatchRowFacts
    <2> QED
        BY <2>1
<1>3. Counts(b) \in [1 .. NumRows(b) -> Nat]
    BY <1>1, <1>2 DEF Counts
<1>4. Ends(b) = Cumsum(Counts(b))
    BY DEF Ends, Counts
<1>5. SumsOf(Ends(b), NumRows(b), Counts(b)) /\ DOMAIN Ends(b) = 0 .. NumRows(b)
    BY <1>1, <1>3, <1>4, CumsumSums
<1>6. \A i \in 0 .. NumRows(b) : Ends(b)[i] \in Nat
    BY <1>1, <1>3, <1>5, SumsGrow
<1>7. \A i \in RowIds(b) : Ends(b)[i] = Ends(b)[i - 1] + (EndBlock(b, i) - StartBlock(b, i))
    BY <1>1, <1>2, <1>5 DEF SumsOf, Counts
<1> QED
    BY <1>1, <1>3, <1>5, <1>6, <1>7

TokenCounts(b) == [i \in RowIds(b) |-> Extend(b, i)]

LEMMA TokenEndsFacts ==
    ASSUME NEW b, IsBatch(b)
    PROVE  /\ TokenCounts(b) \in [1 .. NumRows(b) -> Nat]
           /\ SumsOf(TokenEnds(b), NumRows(b), TokenCounts(b))
           /\ DOMAIN TokenEnds(b) = 0 .. NumRows(b)
           /\ \A i \in 0 .. NumRows(b) : TokenEnds(b)[i] \in Nat
           /\ \A i, j \in 0 .. NumRows(b) : i <= j => TokenEnds(b)[i] <= TokenEnds(b)[j]
           /\ \A i \in RowIds(b) : TokenEnds(b)[i] = TokenStart(b, i) + Extend(b, i)
           /\ MappedTokens(b) \in Nat
<1>1. NumRows(b) \in Nat \ {0} /\ RowIds(b) = 1 .. NumRows(b)
    BY DEF IsBatch, NumRows, RowIds
<1>2. TokenCounts(b) \in [1 .. NumRows(b) -> Nat]
    BY <1>1, BatchRowFacts DEF TokenCounts
<1>3. TokenEnds(b) = Cumsum(TokenCounts(b))
    BY DEF TokenEnds, TokenCounts
<1>4. SumsOf(TokenEnds(b), NumRows(b), TokenCounts(b)) /\ DOMAIN TokenEnds(b) = 0 .. NumRows(b)
    BY <1>1, <1>2, <1>3, CumsumSums
<1>5. /\ \A i \in 0 .. NumRows(b) : TokenEnds(b)[i] \in Nat
      /\ \A i, j \in 0 .. NumRows(b) : i <= j => TokenEnds(b)[i] <= TokenEnds(b)[j]
    BY <1>1, <1>2, <1>4, SumsGrow
<1>6. \A i \in RowIds(b) : TokenEnds(b)[i] = TokenStart(b, i) + Extend(b, i)
    BY <1>1, <1>4 DEF SumsOf, TokenCounts, TokenStart
<1> QED
    BY <1>1, <1>2, <1>4, <1>5, <1>6 DEF MappedTokens

\* Where the entries of a row begin and end.
LEMMA RowEntries ==
    ASSUME NEW b, IsBatch(b), NEW i \in RowIds(b)
    PROVE  \E z \in Nat, e \in Nat, a \in Nat, total \in Nat :
            /\ z = StartBlock(b, i) /\ e = EndBlock(b, i) /\ z <= e
            /\ Count(b, i) = e - z
            /\ a = Ends(b)[i - 1] /\ Ends(b)[i] = a + (e - z)
            /\ total = Ends(b)[NumRows(b)] /\ a + (e - z) <= total
<1>1. PICK k \in Nat \ {0} : k = NumRows(b) /\ RowIds(b) = 1 .. k
    BY EndsFacts
<1>2. i \in 0 .. k /\ i - 1 \in 0 .. k /\ k \in 0 .. k /\ i <= k
    BY <1>1
<1>3. PICK z \in Nat, e \in Nat : z = StartBlock(b, i) /\ e = EndBlock(b, i) /\ z <= e
                                   /\ Count(b, i) = e - z
    BY BatchRowFacts
<1>4. PICK a \in Nat, total \in Nat : a = Ends(b)[i - 1] /\ total = Ends(b)[k]
    BY <1>1, <1>2, EndsFacts
<1>5. Ends(b)[i] = a + (e - z)
    <2>1. Ends(b)[i] = Ends(b)[i - 1] + (EndBlock(b, i) - StartBlock(b, i))
        BY EndsFacts
    <2> QED
        BY <1>3, <1>4, <2>1
<1>6. Ends(b)[i] <= Ends(b)[k]
    <2>1. SumsOf(Ends(b), k, Counts(b)) /\ Counts(b) \in [1 .. k -> Nat] /\ k \in Nat
        BY <1>1, EndsFacts
    <2>2. PICK len \in [1 .. k -> Nat] : len = Counts(b)
        BY <2>1
    <2> QED
        BY <1>2, <2>1, <2>2, SumsGrow
<1> QED
    BY <1>1, <1>3, <1>4, <1>5, <1>6

\* The capacity, a bound on shapes, is enough: a paged row completes at most one group,
\* and a chunk that begins on a group boundary at most a ratio-th of its tokens.
LEMMA CapacitySuffices ==
    ASSUME NEW b, IsBatch(b)
    PROVE  Capacity(b) \in Nat \ {0} /\ Ends(b)[NumRows(b)] <= Capacity(b)
<1>1. PICK k \in Nat \ {0} : k = NumRows(b) /\ RowIds(b) = 1 .. k
    BY EndsFacts
<1>2. PICK f \in {Ends(b)} : TRUE
    OBVIOUS
<1>3. PICK len \in [1 .. k -> Nat] : len = Counts(b) /\ SumsOf(f, k, len)
    BY <1>1, <1>2, EndsFacts
<1>4. f[k] \in Nat
    BY <1>1, <1>3, SumsGrow
<1>5. CASE b.mode = "paged"
    <2>1. ASSUME NEW i \in 1 .. k PROVE len[i] <= 1
        <3>1. /\ StartBlock(b, i) = EndBlock(b, i) - (IF Length(b, i) % Ratio = 0 THEN 1 ELSE 0)
              /\ len[i] = EndBlock(b, i) - StartBlock(b, i) /\ EndBlock(b, i) \in Nat
            BY <1>1, <1>3, <1>5, BatchRowFacts DEF StartBlock, Counts
        <3> QED
            BY <3>1
    <2>2. f[k] <= k * 1
        BY <1>1, <1>3, <2>1, SumsBounded
    <2>3. Capacity(b) = k
        BY <1>1, <1>5 DEF Capacity
    <2> QED
        BY <1>1, <1>2, <1>4, <2>2, <2>3
<1>6. CASE b.mode # "paged"
    <2>1. PICK ext \in [1 .. k -> Nat], g \in {TokenEnds(b)} :
            ext = TokenCounts(b) /\ SumsOf(g, k, ext) /\ g[k] = MappedTokens(b) /\ g[k] \in Nat
        <3>1. MappedTokens(b) = TokenEnds(b)[k] /\ MappedTokens(b) \in Nat
            BY <1>1, TokenEndsFacts DEF MappedTokens
        <3> QED
            BY <1>1, <3>1, TokenEndsFacts
    <2>2. ASSUME NEW i \in 1 .. k PROVE len[i] * Ratio <= ext[i]
        <3>0. len[i] = Count(b, i) /\ i \in RowIds(b)
            BY <1>1, <1>3 DEF Counts
        <3>1. PICK p \in Nat, x \in Nat, l \in Nat, z \in Nat, e \in Nat :
                /\ p = Prefix(b, i) /\ x = Extend(b, i) /\ l = Length(b, i) /\ l = p + x
                /\ z = StartBlock(b, i) /\ e = EndBlock(b, i) /\ z <= e /\ len[i] = e - z
            BY <3>0, BatchRowFacts
        <3>2. ext[i] = x
            BY <1>1, <2>1, <3>1 DEF TokenCounts
        <3>3. z = p \div Ratio /\ p % Ratio = 0
            <4>1. b.mode = "extend" /\ i \in 1 .. Len(b.rows)
                BY <1>1, <1>6 DEF IsBatch, NumRows
            <4> QED
                BY <1>6, <3>1, <4>1 DEF StartBlock, IsBatch, Prefix
        <3>4. p = z * Ratio /\ z * Ratio \in Nat
            <4>1. p = (p \div Ratio) * Ratio + (p % Ratio)
                <5>1. p \in Int
                    BY <3>1
                <5> QED
                    BY <5>1, RatioAssumption, DivMod
            <4>2. z * Ratio \in Nat
                BY RatioAssumption
            <4> QED
                BY <3>3, <4>1, <4>2
        <3>5. e * Ratio <= l /\ e * Ratio \in Nat
            <4>1. (l \div Ratio) * Ratio <= l
                BY RatioAssumption, DivNat
            <4>2. e = l \div Ratio
                BY <3>1 DEF EndBlock
            <4>3. e * Ratio \in Nat
                BY RatioAssumption
            <4> QED
                BY <4>1, <4>2, <4>3
        <3>6. (e - z) * Ratio = e * Ratio - z * Ratio
            BY RatioAssumption
        <3> QED
            BY <3>1, <3>2, <3>4, <3>5, <3>6
    <2>3. f[k] * Ratio <= g[k]
        BY <1>1, <1>3, <2>1, <2>2, RatioAssumption, SumsScaled
    <2>4. PICK t \in Nat : t = MappedTokens(b) + b.padding /\ f[k] * Ratio <= t
        <3>1. b.padding \in Nat /\ f[k] * Ratio \in Nat
            BY <1>4, RatioAssumption DEF IsBatch
        <3> QED
            BY <2>1, <2>3, <3>1
    <2>5. PICK c \in Nat : c = t \div Ratio
        BY RatioAssumption, DivNat
    <2>6. f[k] <= c
        <3>1. f[k] = 0 \/ f[k] - 1 \in Nat
            BY <1>4
        <3>2. ASSUME f[k] - 1 \in Nat PROVE f[k] - 1 < c
            <4>1. ((f[k] - 1) + 1) * Ratio <= t
                <5>1. (f[k] - 1) + 1 = f[k]
                    BY <1>4
                <5> QED
                    BY <2>4, <5>1
            <4>2. f[k] - 1 \in Int
                BY <1>4
            <4> QED
                BY <2>5, <4>1, <4>2, RatioAssumption, BelowDiv
        <3> QED
            BY <1>4, <3>1, <3>2
    <2>7. Capacity(b) = c + k
        BY <1>1, <1>6, <2>4, <2>5 DEF Capacity
    <2> QED
        BY <1>1, <1>2, <1>4, <2>6, <2>7
<1> QED
    BY <1>5, <1>6

\* An entry of the plan belongs to one row and writes one of the groups it completes.
LEMMA EntryFacts ==
    ASSUME NEW b, IsBatch(b), NEW n \in 1 .. Ends(b)[NumRows(b)]
    PROVE  LET i == Plan(b)[n].row
               g == Plan(b)[n].block
           IN  /\ i \in RowIds(b) /\ g \in StartBlock(b, i) .. EndBlock(b, i) - 1 /\ g \in Nat
               /\ n = Place(b, i, g)
               /\ Ends(b)[i - 1] < n /\ n <= Ends(b)[i]
               /\ Plan(b)[n].slot = TokenSlot(b, i, g * Ratio) \div Ratio
               /\ Plan(b)[n].slot \in Nat \ {0}
               /\ Plan(b)[n].member = MemberRow(b, i, g)
<1>1. PICK k \in Nat \ {0} : k = NumRows(b) /\ RowIds(b) = 1 .. k
    BY EndsFacts
<1>2. PICK f \in {Ends(b)} : TRUE
    OBVIOUS
<1>3. PICK len \in [1 .. k -> Nat] : SumsOf(f, k, len) /\ DOMAIN f = 0 .. k
    BY <1>1, <1>2, EndsFacts
<1>4. n \in 1 .. f[k] /\ f[k] \in Nat /\ n \in Nat
    BY <1>1, <1>2, <1>3, SumsGrow
<1>5. PICK i \in 1 .. k : f[i - 1] < n /\ n <= f[i]
    <2>1. k \in Nat
        BY <1>1
    <2> QED
        BY <1>3, <1>4, <2>1, OneBlock
<1>6. Owner(b, n - 1) = i
    <2>1. Cardinality({j \in 1 .. k : f[j] <= n - 1}) = i - 1
        BY <1>1, <1>3, <1>4, <1>5, RowsBefore
    <2> QED
        BY <1>1, <1>2, <2>1 DEF Owner
<1>7. PICK z \in Nat, e \in Nat, a \in Nat, total \in Nat :
        /\ z = StartBlock(b, i) /\ e = EndBlock(b, i) /\ z <= e
        /\ Count(b, i) = e - z
        /\ a = Ends(b)[i - 1] /\ Ends(b)[i] = a + (e - z)
        /\ total = Ends(b)[NumRows(b)] /\ a + (e - z) <= total
    BY <1>1, RowEntries
<1>8. PICK g \in z .. e - 1 : g = z + (n - 1) - a
    <2>1. a < n /\ n <= a + (e - z) /\ n \in Nat
        BY <1>2, <1>4, <1>5, <1>7
    <2>2. z + (n - 1) - a \in z .. e - 1
        BY <2>1
    <2> QED
        BY <2>2
<1>9. Plan(b)[n] = Entry(b, n - 1)
    <2>1. n \in 1 .. Capacity(b)
        BY <1>1, <1>2, <1>4, CapacitySuffices
    <2>2. n - 1 < Ends(b)[NumRows(b)]
        BY <1>1, <1>2, <1>4
    <2> QED
        BY <2>1, <2>2 DEF Plan
<1>10. Entry(b, n - 1) = [row |-> i, block |-> g, slot |-> TokenSlot(b, i, g * Ratio) \div Ratio,
                          member |-> MemberRow(b, i, g)]
    <2>1. z + (n - 1) - (a + (e - z) - (e - z)) = g
        <3>1. n \in Int /\ g \in Int /\ a \in Int /\ z \in Int /\ e \in Int
              /\ g = z + (n - 1) - a
            BY <1>4, <1>7, <1>8
        <3> QED
            BY <3>1
    <2>2. StartBlock(b, i) + (n - 1) - (Ends(b)[i] - Count(b, i)) = g
        <3>1. StartBlock(b, i) = z /\ Ends(b)[i] = a + (e - z) /\ Count(b, i) = e - z
            BY <1>7
        <3> QED
            BY <2>1, <3>1
    <2> QED
        BY <1>6, <2>2 DEF Entry
<1>11. g \in Nat /\ n = Place(b, i, g)
    <2>1. n \in Int /\ g \in Int /\ a \in Int /\ z \in Int /\ g = z + (n - 1) - a
        BY <1>4, <1>7, <1>8
    <2>2. n = a + (g - z) + 1
        BY <2>1
    <2>3. Place(b, i, g) = a + (g - z) + 1
        BY <1>7 DEF Place
    <2> QED
        BY <1>7, <1>8, <2>2, <2>3
<1>12. TokenSlot(b, i, g * Ratio) \div Ratio \in Nat \ {0}
    BY <1>1, <1>11, TokenSlotFacts
<1>13. /\ Plan(b)[n].row = i /\ Plan(b)[n].block = g
       /\ Plan(b)[n].slot = TokenSlot(b, i, g * Ratio) \div Ratio
       /\ Plan(b)[n].member = MemberRow(b, i, g)
    BY <1>9, <1>10
<1>14. i \in RowIds(b) /\ g \in StartBlock(b, i) .. EndBlock(b, i) - 1
    BY <1>1, <1>7
<1>15. Ends(b)[i - 1] < n /\ n <= Ends(b)[i]
    BY <1>2, <1>5
<1> QED
    BY <1>11, <1>12, <1>13, <1>14, <1>15

\* Every group that a row completes has its entry.
LEMMA PlaceFacts ==
    ASSUME NEW b, IsBatch(b), NEW i \in RowIds(b), NEW g \in StartBlock(b, i) .. EndBlock(b, i) - 1
    PROVE  /\ Place(b, i, g) \in 1 .. Ends(b)[NumRows(b)]
           /\ Plan(b)[Place(b, i, g)].row = i /\ Plan(b)[Place(b, i, g)].block = g
<1>1. PICK k \in Nat \ {0} : k = NumRows(b) /\ RowIds(b) = 1 .. k
    BY EndsFacts
<1>2. PICK f \in {Ends(b)} : TRUE
    OBVIOUS
<1>3. PICK len \in [1 .. k -> Nat] : SumsOf(f, k, len) /\ DOMAIN f = 0 .. k
    BY <1>1, <1>2, EndsFacts
<1>4. /\ \A j \in 0 .. k : f[j] \in Nat
      /\ \A j, m \in 0 .. k : j <= m => f[j] <= f[m]
    BY <1>1, <1>3, SumsGrow
<1>5. PICK z \in Nat, e \in Nat, a \in Nat, total \in Nat :
        /\ z = StartBlock(b, i) /\ e = EndBlock(b, i) /\ z <= e
        /\ Count(b, i) = e - z
        /\ a = Ends(b)[i - 1] /\ Ends(b)[i] = a + (e - z)
        /\ total = Ends(b)[NumRows(b)] /\ a + (e - z) <= total
    BY RowEntries
<1>6. PICK n \in Nat : n = Place(b, i, g) /\ n = a + (g - z) + 1 /\ a < n /\ n <= a + (e - z)
    <2>1. g \in z .. e - 1
        BY <1>5
    <2>2. Place(b, i, g) = a + (g - z) + 1
        BY <1>5 DEF Place
    <2>3. PICK n \in Int : n = a + (g - z) + 1
        BY <2>1
    <2>4. n \in Nat /\ a < n /\ n <= a + (e - z)
        BY <2>1, <2>3
    <2> QED
        BY <2>2, <2>3, <2>4
<1>7. n \in 1 .. f[k]
    <2>1. n \in 1 .. total
        <3>1. a + (e - z) <= total /\ a < n /\ n <= a + (e - z) /\ z <= e
            BY <1>5, <1>6
        <3> QED
            BY <3>1
    <2> QED
        BY <1>1, <1>2, <1>5, <2>1
<1>8. PICK j \in RowIds(b), h \in Nat :
        /\ j = Plan(b)[n].row /\ h = Plan(b)[n].block
        /\ n = Place(b, j, h) /\ f[j - 1] < n /\ n <= f[j]
    BY <1>1, <1>2, <1>7, EntryFacts
<1>9. j = i
    <2>1. k \in Nat /\ i \in 1 .. k /\ j \in 1 .. k
        BY <1>1
    <2>2. f[i - 1] < n /\ n <= f[i] /\ f[j - 1] < n /\ n <= f[j]
        BY <1>2, <1>5, <1>6, <1>8
    <2> QED
        BY <1>3, <1>7, <2>1, <2>2, OneBlock
<1>10. h = g
    <2>1. n = a + (h - z) + 1
        BY <1>5, <1>8, <1>9 DEF Place
    <2>2. g \in Int /\ n = a + (g - z) + 1
        BY <1>5, <1>6
    <2> QED
        BY <2>1, <2>2
<1> QED
    BY <1>1, <1>2, <1>6, <1>7, <1>8, <1>9, <1>10

\* Behind the entries of the groups nothing is written.
LEMMA InertFacts ==
    ASSUME NEW b, IsBatch(b)
    PROVE  /\ Ends(b)[NumRows(b)] \in Nat /\ DOMAIN Plan(b) = 1 .. Capacity(b)
           /\ {n \in DOMAIN Plan(b) : Plan(b)[n].slot # 0} = 1 .. Ends(b)[NumRows(b)]
           /\ \A n \in DOMAIN Plan(b) : n \notin 1 .. Ends(b)[NumRows(b)] => Plan(b)[n] = InertEntry
<1>1. PICK total \in Nat : total = Ends(b)[NumRows(b)]
    <2>1. NumRows(b) \in 0 .. NumRows(b)
        BY EndsFacts
    <2> QED
        BY <2>1, EndsFacts
<1>2. PICK c \in Nat : c = Capacity(b) /\ total <= c
    BY <1>1, CapacitySuffices
<1>3. DOMAIN Plan(b) = 1 .. c
    BY <1>2 DEF Plan
<1>4. ASSUME NEW n \in 1 .. c, n \notin 1 .. total PROVE Plan(b)[n] = InertEntry
    <2>1. ~ (n - 1 < total)
        BY <1>1, <1>2, <1>4
    <2> QED
        BY <1>1, <1>2, <2>1 DEF Plan
<1>5. InertEntry.slot = 0
    BY DEF InertEntry
<1>6. ASSUME NEW n \in 1 .. total PROVE n \in 1 .. c /\ Plan(b)[n].slot # 0
    <2>1. n \in 1 .. c
        BY <1>1, <1>2
    <2>2. Plan(b)[n].slot \in Nat \ {0}
        BY <1>1, EntryFacts
    <2> QED
        BY <2>1, <2>2
<1>7. {n \in 1 .. c : Plan(b)[n].slot # 0} = 1 .. total
    BY <1>4, <1>5, <1>6
<1> QED
    BY <1>1, <1>2, <1>3, <1>4, <1>7

-----------------------------------------------------------------------------
(* Tokens and their groups *)

\* A mapped token lies in one row, and its position among that row's new tokens.
LEMMA TokenFacts ==
    ASSUME NEW b, IsBatch(b), NEW t \in Tokens(b)
    PROVE  /\ t \in Nat /\ TokenRow(b, t) \in RowIds(b)
           /\ \E s \in Nat, p \in Nat, x \in Nat :
                /\ s = TokenStart(b, TokenRow(b, t)) /\ p = Prefix(b, TokenRow(b, t))
                /\ x = Extend(b, TokenRow(b, t))
                /\ s <= t /\ t < s + x /\ Position(b, t) = p + t - s
           /\ \A i \in RowIds(b) :
                TokenStart(b, i) <= t /\ t < TokenStart(b, i) + Extend(b, i) => i = TokenRow(b, t)
<1>1. PICK k \in Nat : k = NumRows(b) /\ k # 0 /\ RowIds(b) = 1 .. k
    BY EndsFacts
<1>2. PICK f \in {TokenEnds(b)} : TRUE
    OBVIOUS
<1>3. PICK len \in [1 .. k -> Nat] : len = TokenCounts(b) /\ SumsOf(f, k, len) /\ DOMAIN f = 0 .. k
    BY <1>1, <1>2, TokenEndsFacts
<1>4. f[k] \in Nat /\ f[k] = MappedTokens(b)
    BY <1>1, <1>2, TokenEndsFacts DEF MappedTokens
<1>5. t \in Nat /\ t + 1 \in 1 .. f[k]
    BY <1>4 DEF Tokens
<1>6. PICK n \in Nat : n = t + 1 /\ n \in 1 .. f[k]
    BY <1>5
<1>7. PICK i \in 1 .. k : i = Holder(f, n) /\ f[i - 1] < n /\ n <= f[i]
    <2>1. SumsOf(f, k, len) /\ DOMAIN f = 0 .. k /\ n \in 1 .. f[k]
        BY <1>3, <1>6
    <2>2. Holder(f, n) \in 1 .. k /\ f[Holder(f, n) - 1] < n /\ n <= f[Holder(f, n)]
        BY <2>1, HolderFacts
    <2> QED
        BY <2>2
<1>8. TokenRow(b, t) = i
    BY <1>2, <1>6, <1>7 DEF TokenRow
<1>9. PICK s \in Nat, p \in Nat, x \in Nat :
        s = TokenStart(b, i) /\ p = Prefix(b, i) /\ x = Extend(b, i) /\ f[i] = s + x /\ s = f[i - 1]
    <2>1. i \in RowIds(b) /\ i - 1 \in 0 .. k
        BY <1>1
    <2>2. TokenStart(b, i) = f[i - 1] /\ f[i - 1] \in Nat
        BY <1>1, <1>2, <2>1, TokenEndsFacts DEF TokenStart
    <2>3. f[i] = TokenStart(b, i) + Extend(b, i)
        BY <1>2, <2>1, TokenEndsFacts
    <2>4. Prefix(b, i) \in Nat /\ Extend(b, i) \in Nat
        BY <2>1, BatchRowFacts
    <2> QED
        BY <2>2, <2>3, <2>4
<1>10. s <= t /\ t < s + x
    <2>1. s < n /\ n <= s + x
        BY <1>7, <1>9
    <2> QED
        BY <1>5, <1>6, <2>1
<1>11. Position(b, t) = p + t - s
    BY <1>8, <1>9 DEF Position
<1>12. ASSUME NEW j \in RowIds(b), TokenStart(b, j) <= t, t < TokenStart(b, j) + Extend(b, j)
       PROVE  j = i
    <2>1. j \in 1 .. k /\ j - 1 \in 0 .. k
        BY <1>1
    <2>2. PICK c \in Nat, d \in Nat : c = f[j - 1] /\ d = Extend(b, j) /\ f[j] = c + d
        <3>1. f[j] = TokenStart(b, j) + Extend(b, j) /\ TokenStart(b, j) = f[j - 1] /\ f[j - 1] \in Nat
            BY <1>1, <1>2, <2>1, TokenEndsFacts DEF TokenStart
        <3>2. Extend(b, j) \in Nat
            BY BatchRowFacts
        <3> QED
            BY <3>1, <3>2
    <2>3. c <= t /\ t < c + d
        BY <1>2, <1>12, <2>2 DEF TokenStart
    <2>4. f[j - 1] < n /\ n <= f[j]
        BY <1>5, <1>6, <2>2, <2>3
    <2> QED
        BY <1>3, <1>6, <1>7, <2>1, <2>4, HolderFacts
<1>13. i \in RowIds(b)
    BY <1>1
<1> QED
    BY <1>5, <1>8, <1>9, <1>10, <1>11, <1>12, <1>13

\* The members of a group that a chunk completes are among the chunk's own tokens.
LEMMA MemberFacts ==
    ASSUME NEW b, IsBatch(b), b.mode = "extend", NEW i \in RowIds(b),
           NEW g \in StartBlock(b, i) .. EndBlock(b, i) - 1, NEW j \in 0 .. Ratio - 1
    PROVE  /\ MemberRow(b, i, g) \in Nat /\ MemberRow(b, i, g) + j \in Tokens(b)
           /\ TokenRow(b, MemberRow(b, i, g) + j) = i
           /\ Position(b, MemberRow(b, i, g) + j) = g * Ratio + j
<1>1. PICK p \in Nat, x \in Nat, l \in Nat, z \in Nat, e \in Nat :
        /\ p = Prefix(b, i) /\ x = Extend(b, i) /\ l = Length(b, i) /\ l = p + x
        /\ z = StartBlock(b, i) /\ e = EndBlock(b, i)
    BY BatchRowFacts
<1>2. g \in Nat /\ z <= g /\ g < e
    BY <1>1
<1>3. g \in Completing(b, i)
    BY CompletingFacts
<1>4. PICK y \in Nat : y = g * Ratio
    BY <1>2, RatioAssumption
<1>5. p <= y
    <2>1. z = p \div Ratio /\ p % Ratio = 0
        <3>1. i \in 1 .. Len(b.rows) /\ b.mode # "paged"
            BY DEF RowIds, NumRows
        <3> QED
            BY <1>1, <3>1 DEF StartBlock, IsBatch, Prefix
    <2>2. p = z * Ratio /\ z * Ratio \in Nat
        <3>1. p \in Int
            BY <1>1
        <3>2. p = (p \div Ratio) * Ratio + (p % Ratio)
            BY <3>1, RatioAssumption, DivMod
        <3>3. z * Ratio \in Nat
            BY RatioAssumption
        <3> QED
            BY <2>1, <3>2, <3>3
    <2>3. CASE z = g
        BY <1>4, <2>2, <2>3
    <2>4. CASE z < g
        <3>1. z * Ratio + Ratio <= g * Ratio
            BY <1>2, <2>4, RatioAssumption, MulLess
        <3> QED
            BY <1>4, <2>2, <3>1, RatioAssumption
    <2> QED
        BY <1>2, <2>3, <2>4
<1>6. y + j < l
    <2>1. (g + 1) * Ratio <= l
        <3>1. l \in Nat /\ e = l \div Ratio
            BY <1>1 DEF EndBlock
        <3> QED
            BY <1>2, <3>1, RatioAssumption, BelowDiv
    <2>2. (g + 1) * Ratio = y + Ratio
        BY <1>2, <1>4, RatioAssumption
    <2> QED
        BY <2>1, <2>2, RatioAssumption
<1>7. PICK s \in Nat : s = TokenStart(b, i) /\ s + x <= MappedTokens(b) /\ MappedTokens(b) \in Nat
    <2>1. i - 1 \in 0 .. NumRows(b) /\ i \in 0 .. NumRows(b) /\ NumRows(b) \in 0 .. NumRows(b)
          /\ i <= NumRows(b)
        BY EndsFacts
    <2>2. TokenStart(b, i) \in Nat
        BY <2>1, TokenEndsFacts DEF TokenStart
    <2>3. TokenEnds(b)[i] = TokenStart(b, i) + x /\ TokenEnds(b)[i] <= TokenEnds(b)[NumRows(b)]
        BY <1>1, <2>1, TokenEndsFacts
    <2>4. MappedTokens(b) = TokenEnds(b)[NumRows(b)] /\ MappedTokens(b) \in Nat
        BY TokenEndsFacts DEF MappedTokens
    <2> QED
        BY <2>2, <2>3, <2>4
<1>8. MemberRow(b, i, g) = s + y - p
    BY <1>1, <1>4, <1>7 DEF MemberRow
<1>9. PICK t \in Nat : t = MemberRow(b, i, g) + j /\ s <= t /\ t < s + x /\ t - s = (y - p) + j
    <2>1. s + y - p \in Nat
        BY <1>5
    <2>2. PICK t \in Nat : t = (s + y - p) + j
        BY <2>1
    <2>3. s <= t /\ t < s + x /\ t - s = (y - p) + j
        BY <1>1, <1>5, <1>6, <2>2
    <2> QED
        BY <1>8, <2>2, <2>3
<1>10. t \in Tokens(b)
    BY <1>7, <1>9 DEF Tokens
<1>11. TokenRow(b, t) = i
    BY <1>1, <1>7, <1>9, <1>10, TokenFacts
<1>12. Position(b, t) = y + j
    <2>1. Position(b, t) = p + t - s
        BY <1>1, <1>7, <1>11 DEF Position
    <2> QED
        BY <1>9, <2>1
<1>13. MemberRow(b, i, g) \in Nat
    BY <1>5, <1>8
<1> QED
    BY <1>4, <1>9, <1>10, <1>11, <1>12, <1>13

GroupCounts(b) == [i \in RowIds(b) |-> EndBlock(b, i)]

\* The packed keys of a row stand side by side, group after group.
LEMMA PackedFacts ==
    ASSUME NEW b, IsBatch(b), NEW i \in RowIds(b)
    PROVE  \E first \in Nat, e \in Nat, total \in Nat :
            /\ first = GroupEnds(b)[i - 1] /\ e = EndBlock(b, i) /\ first + e <= total
            /\ total = GroupEnds(b)[NumRows(b)]
            /\ \A k \in 1 .. e :
                PackedSlots(b)[first + k] = TokenSlot(b, i, (k - 1) * Ratio) \div Ratio
<1>1. PICK k \in Nat : k = NumRows(b) /\ k # 0 /\ RowIds(b) = 1 .. k
    BY EndsFacts
<1>2. PICK len \in [1 .. k -> Nat] : len = GroupCounts(b)
    BY <1>1, BatchRowFacts DEF GroupCounts
<1>3. PICK f \in {GroupEnds(b)} : SumsOf(f, k, len) /\ DOMAIN f = 0 .. k
    <2>1. GroupEnds(b) = Cumsum(len)
        BY <1>2 DEF GroupEnds, GroupCounts
    <2> QED
        BY <2>1, CumsumSums
<1>4. /\ \A j \in 0 .. k : f[j] \in Nat
      /\ \A j, m \in 0 .. k : j <= m => f[j] <= f[m]
    BY <1>3, SumsGrow
<1>5. i \in 1 .. k /\ i \in 0 .. k /\ i - 1 \in 0 .. k /\ k \in 0 .. k /\ i <= k
    BY <1>1
<1>6. PICK first \in Nat, e \in Nat, total \in Nat :
        /\ first = f[i - 1] /\ e = EndBlock(b, i) /\ total = f[k] /\ f[i] = first + e
        /\ first + e <= total
    <2>1. f[i] = f[i - 1] + len[i] /\ len[i] = EndBlock(b, i) /\ EndBlock(b, i) \in Nat
        BY <1>1, <1>2, <1>3, <1>5, BatchRowFacts DEF SumsOf, GroupCounts
    <2>2. f[i - 1] \in Nat /\ f[k] \in Nat /\ f[i] <= f[k]
        BY <1>4, <1>5
    <2> QED
        BY <2>1, <2>2
<1>7. ASSUME NEW m \in 1 .. e
      PROVE  PackedSlots(b)[first + m] = TokenSlot(b, i, (m - 1) * Ratio) \div Ratio
    <2>1. PICK n \in Nat : n = first + m /\ first < n /\ n <= first + e /\ n \in 1 .. total
        BY <1>6
    <2>2. f[i - 1] < n /\ n <= f[i] /\ n \in 1 .. f[k]
        BY <1>6, <2>1
    <2>3. Holder(f, n) = i
        BY <1>3, <1>5, <2>2, HolderFacts
    <2>4. n - 1 - first = m - 1
        BY <2>1
    <2>5. n \in 1 .. GroupEnds(b)[NumRows(b)]
        BY <1>1, <1>3, <2>2
    <2>6. PackedSlots(b)[n] = TokenSlot(b, i, (n - 1 - f[i - 1]) * Ratio) \div Ratio
        BY <1>3, <2>3, <2>5 DEF PackedSlots
    <2> QED
        BY <1>6, <2>1, <2>4, <2>6
<1> QED
    BY <1>1, <1>3, <1>6, <1>7

-----------------------------------------------------------------------------
(* What a built plan promises *)

PlanInv ==
    /\ batch \in ExtendBatches \cup PagedBatches
    /\ plan \in {None, Plan(batch)}

LEMMA PlanInvariance == BatchSpec => []PlanInv
<1>1. BatchInit => PlanInv
    BY DEF BatchInit, PlanInv
<1>2. PlanInv /\ [Build]_batchVars => PlanInv'
    BY DEF PlanInv, Build, batchVars
<1> QED
    BY <1>1, <1>2, PTL DEF BatchSpec

LEMMA PlanInvFacts == ASSUME PlanInv PROVE IsBatch(batch) /\ (Built => plan = Plan(batch))
BY ChunksAreBatches, WindowsAreBatches DEF PlanInv, Built

\* An entry names a row of the batch, and group, slot and member are numbers: no row
\* owns a block in front of its first one.
THEOREM PlanTypeCorrect == BatchSpec => []PlanTypeOK
<1>1. ASSUME PlanInv PROVE PlanTypeOK
    <2> DEFINE EntryType == [row : RowIds(batch), block : Nat, slot : Nat, member : Nat]
    <2>1. CASE plan = None
        <3>1. plan \in Seq(EntryType)
            BY <2>1 DEF None
        <3> QED
            BY <1>1, <3>1 DEF PlanTypeOK, PlanInv
    <2>2. CASE plan # None
        <3>1. IsBatch(batch) /\ plan = Plan(batch)
            BY <1>1, <2>2, PlanInvFacts DEF Built
        <3>2. PICK c \in Nat : c = Capacity(batch)
            BY <3>1, CapacitySuffices
        <3>3. InertEntry \in EntryType
            <4>1. 1 \in RowIds(batch)
                BY <3>1, EndsFacts
            <4> QED
                BY <4>1 DEF InertEntry
        <3>4. ASSUME NEW n \in 1 .. c PROVE plan[n] \in EntryType
            <4>1. CASE n \in 1 .. Ends(batch)[NumRows(batch)]
                <5>1. PICK i \in RowIds(batch), g \in Nat :
                        /\ i = plan[n].row /\ g = plan[n].block
                        /\ g \in StartBlock(batch, i) .. EndBlock(batch, i) - 1
                        /\ plan[n].slot \in Nat \ {0} /\ plan[n].member = MemberRow(batch, i, g)
                    BY <3>1, <4>1, EntryFacts
                <5>2. MemberRow(batch, i, g) \in Nat
                    <6>1. CASE batch.mode = "extend"
                        <7>1. 0 \in 0 .. Ratio - 1
                            BY RatioAssumption
                        <7> QED
                            BY <3>1, <5>1, <6>1, <7>1, MemberFacts
                    <6>2. CASE batch.mode # "extend"
                        BY <6>2 DEF MemberRow
                    <6> QED
                        BY <6>1, <6>2
                <5>3. plan[n] = Entry(batch, n - 1)
                    <6>1. n - 1 < Ends(batch)[NumRows(batch)]
                        BY <3>1, <4>1, InertFacts
                    <6> QED
                        BY <3>1, <3>2, <6>1 DEF Plan
                <5>4. plan[n] = [row |-> plan[n].row, block |-> plan[n].block, slot |-> plan[n].slot,
                                 member |-> plan[n].member]
                    BY <5>3 DEF Entry
                <5> QED
                    BY <5>1, <5>2, <5>4
            <4>2. CASE n \notin 1 .. Ends(batch)[NumRows(batch)]
                <5>1. plan[n] = InertEntry
                    BY <3>1, <3>2, <4>2, InertFacts
                <5> QED
                    BY <3>3, <5>1
            <4> QED
                BY <4>1, <4>2
        <3>5. plan = [n \in 1 .. c |-> plan[n]]
            BY <3>1, <3>2 DEF Plan
        <3> HIDE DEF EntryType
        <3>6. plan \in [1 .. c -> EntryType]
            BY <3>4, <3>5
        <3>7. plan \in Seq(EntryType)
            BY <3>2, <3>6
        <3> QED
            BY <1>1, <3>7 DEF PlanTypeOK, PlanInv, EntryType
    <2> QED
        BY <2>1, <2>2
<1> QED
    BY <1>1, PlanInvariance, PTL

\* The plan, sized without a look at the lengths, writes every group that the forward
\* completes, each exactly once and at its own slot, and nothing else but slot 0
\* (_qsa_write_plan, _qsa_build_write_plan).
THEOREM PlansCoverCompletedGroups == BatchSpec => []PlanCoversCompletedGroups
<1>1. ASSUME PlanInv, Built PROVE PlanCoversCompletedGroups
    <2>1. PICK b \in {batch} : TRUE
        OBVIOUS
    <2>2. IsBatch(b) /\ plan = Plan(b)
        BY <1>1, <2>1, PlanInvFacts
    <2> DEFINE wanted == UNION {{i} \X Completing(b, i) : i \in RowIds(b)}
               live == {n \in DOMAIN plan : plan[n].slot # 0}
               group == [n \in live |-> <<plan[n].row, plan[n].block>>]
    <2>3. live = 1 .. Ends(b)[NumRows(b)] /\ Ends(b)[NumRows(b)] \in Nat
        BY <2>2, InertFacts
    <2>4. \A i, g : <<i, g>> \in wanted
                        <=> i \in RowIds(b) /\ g \in StartBlock(b, i) .. EndBlock(b, i) - 1
        <3>1. \A i \in RowIds(b) : Completing(b, i) = StartBlock(b, i) .. EndBlock(b, i) - 1
            BY <2>2, CompletingFacts
        <3>2. \A i, g : <<i, g>> \in wanted <=> i \in RowIds(b) /\ g \in Completing(b, i)
            <4>1. ASSUME NEW i, NEW g, <<i, g>> \in wanted
                  PROVE  i \in RowIds(b) /\ g \in Completing(b, i)
                <5>1. PICK j \in RowIds(b) : <<i, g>> \in {j} \X Completing(b, j)
                    BY <4>1
                <5>2. i = j /\ g \in Completing(b, j)
                    BY <5>1
                <5> QED
                    BY <5>1, <5>2
            <4>2. ASSUME NEW i, NEW g, i \in RowIds(b) /\ g \in Completing(b, i)
                  PROVE  <<i, g>> \in wanted
                <5>1. <<i, g>> \in {i} \X Completing(b, i)
                    BY <4>2
                <5> QED
                    BY <4>2, <5>1
            <4> QED
                BY <4>1, <4>2
        <3> HIDE DEF wanted
        <3> QED
            BY <3>1, <3>2
    <2>5. \A x \in wanted : x = <<x[1], x[2]>>
        OBVIOUS
    <2>6. ASSUME NEW n \in live
          PROVE  /\ <<plan[n].row, plan[n].block>> \in wanted
                 /\ n = Place(b, plan[n].row, plan[n].block)
                 /\ plan[n].slot = TokenSlot(b, plan[n].row, plan[n].block * Ratio) \div Ratio
        <3>1. n \in 1 .. Ends(b)[NumRows(b)]
            BY <2>3
        <3>2. /\ plan[n].row \in RowIds(b)
              /\ plan[n].block \in StartBlock(b, plan[n].row) .. EndBlock(b, plan[n].row) - 1
              /\ n = Place(b, plan[n].row, plan[n].block)
              /\ plan[n].slot = TokenSlot(b, plan[n].row, plan[n].block * Ratio) \div Ratio
            BY <2>2, <3>1, EntryFacts
        <3> HIDE DEF wanted
        <3> QED
            BY <2>4, <3>2
    <2>7. ASSUME NEW x \in wanted
          PROVE  \E n \in live : <<plan[n].row, plan[n].block>> = x
        <3>1. /\ x = <<x[1], x[2]>> /\ x[1] \in RowIds(b)
              /\ x[2] \in StartBlock(b, x[1]) .. EndBlock(b, x[1]) - 1
            <4> HIDE DEF wanted
            <4> QED
                BY <2>4, <2>5
        <3>2. /\ Place(b, x[1], x[2]) \in 1 .. Ends(b)[NumRows(b)]
              /\ plan[Place(b, x[1], x[2])].row = x[1] /\ plan[Place(b, x[1], x[2])].block = x[2]
            BY <2>2, <3>1, PlaceFacts
        <3> QED
            BY <2>3, <3>1, <3>2
    <2> HIDE DEF wanted, live
    <2>8. {<<plan[n].row, plan[n].block>> : n \in live} = wanted
        BY <2>6, <2>7
    <2>9. Cardinality(live) = Cardinality(wanted)
        <3>1. group \in [live -> wanted]
            BY <2>6
        <3>2. \A m, n \in live : group[m] = group[n] => m = n
            <4> SUFFICES ASSUME NEW m \in live, NEW n \in live, group[m] = group[n] PROVE m = n
                OBVIOUS
            <4>1. plan[m].row = plan[n].row /\ plan[m].block = plan[n].block
                OBVIOUS
            <4> QED
                BY <2>6, <4>1
        <3>3. \A x \in wanted : \E n \in live : group[n] = x
            BY <2>7
        <3>4. group \in Bijection(live, wanted)
            <4> HIDE DEF group
            <4> QED
                BY <3>1, <3>2, <3>3 DEF Bijection, Injection, Surjection, IsInjective
        <3>5. IsFiniteSet(live)
            <4>1. 1 \in Int /\ Ends(b)[NumRows(b)] \in Int
                BY <2>3
            <4> QED
                BY <2>3, <4>1, FS_Interval
        <3>6. ExistsBijection(live, wanted)
            BY <3>4 DEF ExistsBijection
        <3> QED
            BY <3>5, <3>6, FS_Bijection
    <2>10. \A n \in live :
            plan[n].slot = TokenSlot(b, plan[n].row, plan[n].block * Ratio) \div Ratio
        BY <2>6
    <2> QED
        BY <2>1, <2>8, <2>9, <2>10 DEF PlanCoversCompletedGroups, wanted, live
<1>2. PlanInv => PlanCoversCompletedGroups
    <2>1. ASSUME ~ Built PROVE PlanCoversCompletedGroups
        BY <2>1 DEF PlanCoversCompletedGroups
    <2> QED
        BY <1>1, <2>1
<1> QED
    BY <1>2, PlanInvariance, PTL

\* The members a chunk's group is pooled from are the rows of its own sequence at the
\* group's own positions (member_rows of _qsa_write_plan).
THEOREM MembersAreTheirGroup == BatchSpec => []MembersAreTheGroup
<1>1. ASSUME PlanInv, Built, batch.mode = "extend", NEW n \in DOMAIN plan, plan[n].slot # 0,
             NEW i \in 0 .. Ratio - 1
      PROVE  LET t == plan[n].member + i
             IN  /\ t \in Tokens(batch)
                 /\ TokenRow(batch, t) = plan[n].row
                 /\ Position(batch, t) = plan[n].block * Ratio + i
    <2>1. IsBatch(batch) /\ plan = Plan(batch)
        BY <1>1, PlanInvFacts
    <2>2. n \in 1 .. Ends(batch)[NumRows(batch)]
        BY <1>1, <2>1, InertFacts
    <2>3. /\ plan[n].row \in RowIds(batch)
          /\ plan[n].block \in StartBlock(batch, plan[n].row) .. EndBlock(batch, plan[n].row) - 1
          /\ plan[n].member = MemberRow(batch, plan[n].row, plan[n].block)
        BY <2>1, <2>2, EntryFacts
    <2> QED
        BY <1>1, <2>1, <2>3, MemberFacts
<1>2. PlanInv => MembersAreTheGroup
    BY <1>1 DEF MembersAreTheGroup
<1> QED
    BY <1>2, PlanInvariance, PTL

\* A prefill row scores the packed keys of its own sequence, from the first group to the
\* last one complete at its position (build_qsa_row_ranges and the packed gather).
THEOREM RangesAreOwnCausalGroups == BatchSpec => []RangeIsOwnCausalGroups
<1>1. ASSUME NEW b, IsBatch(b), NEW t \in Tokens(b)
      PROVE  SubSeq(PackedSlots(b), RowStart(b, t) + 1, RowEnd(b, t)) =
                [k \in 1 .. (Position(b, t) + 1) \div Ratio |->
                    TokenSlot(b, TokenRow(b, t), (k - 1) * Ratio) \div Ratio]
    <2>1. PICK i \in RowIds(b) : i = TokenRow(b, t)
        BY <1>1, TokenFacts
    <2>2. PICK q \in Nat, l \in Nat : q = Position(b, t) /\ l = Length(b, i) /\ q < l
        <3>1. PICK s \in Nat, p \in Nat, x \in Nat :
                /\ s = TokenStart(b, i) /\ p = Prefix(b, i) /\ x = Extend(b, i)
                /\ s <= t /\ t < s + x /\ Position(b, t) = p + t - s /\ t \in Nat
            BY <1>1, <2>1, TokenFacts
        <3>2. Length(b, i) = p + x /\ p + x \in Nat
            BY <3>1 DEF Length
        <3>3. PICK q \in Int : q = p + t - s
            BY <3>1
        <3>4. q \in Nat /\ q < p + x
            BY <3>1, <3>3
        <3> QED
            BY <3>1, <3>2, <3>3, <3>4
    <2>3. PICK first \in Nat, e \in Nat, total \in Nat :
            /\ first = GroupEnds(b)[i - 1] /\ e = EndBlock(b, i) /\ first + e <= total
            /\ total = GroupEnds(b)[NumRows(b)]
            /\ \A k \in 1 .. e :
                PackedSlots(b)[first + k] = TokenSlot(b, i, (k - 1) * Ratio) \div Ratio
        BY <1>1, PackedFacts
    <2>4. PICK v \in Nat : v = (q + 1) \div Ratio /\ v <= e
        <3>1. q + 1 \in Nat
            BY <2>2
        <3>2. PICK v \in Nat : v = (q + 1) \div Ratio /\ v * Ratio <= q + 1 /\ v * Ratio \in Nat
            <4>1. (q + 1) \div Ratio \in Nat /\ ((q + 1) \div Ratio) * Ratio <= q + 1
                BY <3>1, RatioAssumption, DivNat
            <4>2. ((q + 1) \div Ratio) * Ratio \in Nat
                BY <4>1, RatioAssumption
            <4> QED
                BY <4>1, <4>2
        <3>3. v * Ratio <= l
            BY <2>2, <3>2
        <3>4. v = 0 \/ v <= e
            <4>1. CASE v # 0
                <5>1. v - 1 \in Int /\ (v - 1) + 1 = v
                    BY <3>2
                <5>2. ((v - 1) + 1) * Ratio <= l
                    BY <3>3, <5>1
                <5>3. v - 1 < l \div Ratio
                    BY <2>2, <5>1, <5>2, RatioAssumption, BelowDiv
                <5> QED
                    BY <2>3, <2>2, <3>2, <5>3 DEF EndBlock
            <4> QED
                BY <4>1
        <3> QED
            BY <2>3, <3>2, <3>4
    <2>5. RowStart(b, t) = first
        BY <2>1, <2>3 DEF RowStart
    <2>6. RowEnd(b, t) = first + v
        <3>1. (IF v < e THEN v ELSE e) = v
            BY <2>3, <2>4
        <3> QED
            BY <2>1, <2>2, <2>3, <2>4, <2>5, <3>1 DEF RowEnd
    <2>7. PICK S \in {{PackedSlots(b)[o] : o \in 1 .. total}} : TRUE
        OBVIOUS
    <2>8. PackedSlots(b) \in Seq(S) /\ Len(PackedSlots(b)) = total
        <3>1. PackedSlots(b) = [o \in 1 .. total |-> PackedSlots(b)[o]]
            BY <2>3 DEF PackedSlots
        <3> QED
            BY <2>7, <3>1, FunctionIsSequence
    <2>9. PICK u \in Seq(S) : u = PackedSlots(b) /\ Len(u) = total
        BY <2>8
    <2>10. first + v <= Len(u)
        BY <2>3, <2>4, <2>9
    <2>11. /\ SubSeq(u, first + 1, first + v) \in Seq(S) /\ Len(SubSeq(u, first + 1, first + v)) = v
           /\ \A j \in 1 .. v : SubSeq(u, first + 1, first + v)[j] = u[first + j]
        <3>1. u \in Seq(S) /\ first \in Nat /\ v \in Nat
            OBVIOUS
        <3> QED
            BY <2>10, <3>1, WindowFacts
    <2> DEFINE own == [k \in 1 .. v |-> TokenSlot(b, i, (k - 1) * Ratio) \div Ratio]
    <2>12. own \in Seq({own[o] : o \in 1 .. v}) /\ Len(own) = v
        <3>1. own = [o \in 1 .. v |-> own[o]]
            OBVIOUS
        <3> HIDE DEF own
        <3> QED
            BY <2>4, <3>1, FunctionIsSequence
    <2>13. \A j \in 1 .. v : u[first + j] = own[j]
        <3>1. \A j \in 1 .. v : j \in 1 .. e
            BY <2>3, <2>4
        <3> QED
            BY <2>3, <2>9, <3>1
    <2> HIDE DEF own
    <2>14. SubSeq(u, first + 1, first + v) = own
        <3>1. PICK w \in Seq(S) : w = SubSeq(u, first + 1, first + v) /\ Len(w) = v
            BY <2>11
        <3>2. PICK T \in {{own[o] : o \in 1 .. v}} : TRUE
            OBVIOUS
        <3>3. PICK r \in Seq(T) : r = own /\ Len(r) = v
            BY <2>12, <3>2
        <3>4. \A j \in 1 .. v : w[j] = r[j]
            BY <2>11, <2>13, <3>1, <3>3
        <3>5. w = r
            BY <3>1, <3>3, <3>4, SameSequence
        <3> QED
            BY <3>1, <3>3, <3>5
    <2> QED
        BY <2>1, <2>2, <2>4, <2>5, <2>6, <2>9, <2>14 DEF own
<1>2. PlanInv => RangeIsOwnCausalGroups
    BY <1>1, PlanInvFacts DEF RangeIsOwnCausalGroups
<1> QED
    BY <1>2, PlanInvariance, PTL

\* Host refresh of a captured graph and eager plan write the same slots
\* (_update_qsa_cuda_graph_metadata against _qsa_write_plan).
THEOREM GraphsWriteWhatEagerWrites == BatchSpec => []GraphWritesWhatEagerWrites
<1>1. ASSUME PlanInv, Built, batch.mode = "paged", NEW i \in RowIds(batch)
      PROVE  {plan[n].slot : n \in {m \in DOMAIN plan : plan[m].row = i /\ plan[m].slot # 0}}
                = {GraphWriteSlot(batch, i)} \ {0}
    <2>1. PICK b \in {batch} : TRUE
        OBVIOUS
    <2>2. IsBatch(b) /\ plan = Plan(b) /\ i \in RowIds(b) /\ b.mode = "paged"
        BY <1>1, <2>1, PlanInvFacts
    <2> DEFINE mine == {m \in DOMAIN plan : plan[m].row = i /\ plan[m].slot # 0}
    <2>3. PICK l \in Nat, e \in Nat, z \in Nat :
            l = Length(b, i) /\ e = EndBlock(b, i) /\ z = StartBlock(b, i)
        BY <2>2, BatchRowFacts
    <2>4. z = e - (IF l % Ratio = 0 THEN 1 ELSE 0)
        BY <2>2, <2>3 DEF StartBlock
    <2>5. ASSUME NEW m \in mine
          PROVE  plan[m].block \in z .. e - 1 /\ plan[m].slot = TokenSlot(b, i, plan[m].block * Ratio) \div Ratio
        <3>1. m \in 1 .. Ends(b)[NumRows(b)]
            BY <2>2, InertFacts
        <3> QED
            BY <2>2, <2>3, <3>1, EntryFacts
    <2>6. \A g \in z .. e - 1 : \E m \in mine : plan[m].block = g
        <3> SUFFICES ASSUME NEW g \in z .. e - 1 PROVE \E m \in mine : plan[m].block = g
            OBVIOUS
        <3>1. PICK m \in 1 .. Ends(b)[NumRows(b)] : plan[m].row = i /\ plan[m].block = g
            BY <2>2, <2>3, PlaceFacts
        <3>2. m \in DOMAIN plan /\ plan[m].slot # 0
            BY <2>2, InertFacts
        <3> QED
            BY <3>1, <3>2
    <2> HIDE DEF mine
    <2>7. CASE l % Ratio = 0
        <3>1. e - 1 \in Nat /\ z = e - 1 /\ z .. e - 1 = {e - 1}
            BY <2>3, <2>4, <2>7
        <3>2. PICK g \in Nat : g = e - 1
            BY <3>1
        <3>3. {plan[n].slot : n \in mine} = {TokenSlot(b, i, g * Ratio) \div Ratio}
            BY <2>5, <2>6, <3>1, <3>2
        <3>4. l = g * Ratio + Ratio /\ g * Ratio \in Nat
            <4>1. l = (l \div Ratio) * Ratio + (l % Ratio)
                <5>1. l \in Int
                    OBVIOUS
                <5> QED
                    BY <5>1, RatioAssumption, DivMod
            <4>2. l = e * Ratio + 0
                BY <2>3, <2>7, <4>1 DEF EndBlock
            <4>3. e * Ratio = g * Ratio + Ratio /\ g * Ratio \in Nat
                <5>1. e = g + 1
                    BY <2>3, <3>2
                <5>2. (g + 1) * Ratio = g * Ratio + Ratio /\ g * Ratio \in Nat
                    BY RatioAssumption
                <5> QED
                    BY <5>1, <5>2
            <4> QED
                BY <4>2, <4>3, RatioAssumption
        <3>5. l > 0 /\ l - 1 = g * Ratio + (Ratio - 1)
            BY <3>4, RatioAssumption
        <3>6. GraphWriteSlot(b, i) = TokenSlot(b, i, g * Ratio + (Ratio - 1)) \div Ratio
            BY <2>3, <2>7, <3>5 DEF GraphWriteSlot
        <3>7. /\ TokenSlot(b, i, g * Ratio) \div Ratio \in Nat \ {0}
              /\ TokenSlot(b, i, g * Ratio + (Ratio - 1)) \div Ratio = TokenSlot(b, i, g * Ratio) \div Ratio
            BY <2>2, TokenSlotFacts
        <3>8. {GraphWriteSlot(b, i)} \ {0} = {TokenSlot(b, i, g * Ratio) \div Ratio}
            BY <3>6, <3>7
        <3> QED
            BY <2>1, <3>3, <3>8 DEF mine
    <2>8. CASE l % Ratio # 0
        <3>1. z .. e - 1 = {}
            BY <2>3, <2>4, <2>8
        <3>2. mine = {}
            BY <2>5, <3>1
        <3>3. GraphWriteSlot(b, i) = 0
            BY <2>3, <2>8 DEF GraphWriteSlot
        <3> QED
            BY <2>1, <3>2, <3>3 DEF mine
    <2> QED
        BY <2>7, <2>8
<1>2. PlanInv => GraphWritesWhatEagerWrites
    BY <1>1 DEF GraphWritesWhatEagerWrites
<1> QED
    BY <1>2, PlanInvariance, PTL
=============================================================================
