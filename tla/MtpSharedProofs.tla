---------------------------- MODULE MtpSharedProofs ----------------------------
(***************************************************************************)
(* Every draft iteration starts from its request's own selection at its    *)
(* last accepted token, and its draft steps see every position: for every  *)
(* number of requests, window, number of front rows and of draft steps,    *)
(* and every order and padding of a batch.  The first part is about the    *)
(* packing of rows: block ends are running sums, and every row belongs to  *)
(* one entry.                                                              *)
(***************************************************************************)
EXTENDS MtpShared, QsaArithmetic, FiniteSetTheorems

Entry == [req : Nat, prefix : Nat, extend : Nat, accept : Nat]

-----------------------------------------------------------------------------
(* Packed rows *)

Extends(b) == [i \in 1 .. Len(b) |-> b[i].extend]

LEMMA ExtendsAreNumbers ==
    ASSUME NEW b \in Seq(Entry) PROVE Extends(b) \in [1 .. Len(b) -> Nat]
<1>1. \A i \in 1 .. Len(b) : b[i] \in Entry
    OBVIOUS
<1>2. \A i \in 1 .. Len(b) : b[i].extend \in Nat
    BY <1>1 DEF Entry
<1> QED
    BY <1>2 DEF Extends

\* Each block ends where the one before ends, plus its own rows.
LEMMA BlockEndsAreSums ==
    ASSUME NEW b \in Seq(Entry)
    PROVE  /\ BlockEnds(b)[0] = 0
           /\ \A i \in DOMAIN b : BlockEnds(b)[i] = BlockEnds(b)[i - 1] + b[i].extend
<1> DEFINE IsEnd(f) ==
        f = [i \in 0 .. Len(b) |-> IF i = 0 THEN 0 ELSE f[i - 1] + b[i].extend]
<1>1. \E f : IsEnd(f)
    <2>1. PICK f : f = [i \in 0 .. Len(b) |-> IF i = 0 THEN 0 ELSE f[i - 1] + Extends(b)[i]]
        BY ExtendsAreNumbers, SumsExist
    <2>2. \A i \in 0 .. Len(b) : i # 0 => Extends(b)[i] = b[i].extend
        BY DEF Extends
    <2>3. IsEnd(f)
        BY <2>1, <2>2
    <2> QED
        BY <2>3
<1>2. BlockEnds(b) = CHOOSE f : IsEnd(f)
    BY DEF BlockEnds
<1>3. IsEnd(BlockEnds(b))
    <2> HIDE DEF IsEnd
    <2> QED
        BY <1>1, <1>2
<1>4. DOMAIN b = 1 .. Len(b)
    OBVIOUS
<1> HIDE DEF IsEnd
<1>5. \A f : IsEnd(f) => /\ f[0] = 0
                         /\ \A i \in 1 .. Len(b) : f[i] = f[i - 1] + b[i].extend
    BY DEF IsEnd
<1> QED
    BY <1>3, <1>4, <1>5

LEMMA BlockEndsSum ==
    ASSUME NEW b \in Seq(Entry)
    PROVE  SumsOf(BlockEnds(b), Len(b), Extends(b))
<1>1. DOMAIN b = 1 .. Len(b)
    OBVIOUS
<1> QED
    BY <1>1, BlockEndsAreSums DEF SumsOf, Extends

\* Block ends are numbers and grow along the batch.
LEMMA BlockEndsGrow ==
    ASSUME NEW b \in Seq(Entry)
    PROVE  /\ \A i \in 0 .. Len(b) : BlockEnds(b)[i] \in Nat
           /\ \A i, j \in 0 .. Len(b) : i <= j => BlockEnds(b)[i] <= BlockEnds(b)[j]
<1>1. Len(b) \in Nat
    OBVIOUS
<1> QED
    BY <1>1, ExtendsAreNumbers, BlockEndsSum, SumsGrow

\* Every row lies in one block.
LEMMA RowHasOneBlock ==
    ASSUME NEW b \in Seq(Entry), NEW n \in 1 .. BlockEnds(b)[Len(b)]
    PROVE  /\ \E i \in DOMAIN b : BlockEnds(b)[i - 1] < n /\ n <= BlockEnds(b)[i]
           /\ \A i, j \in DOMAIN b :
                /\ BlockEnds(b)[i - 1] < n /\ n <= BlockEnds(b)[i]
                /\ BlockEnds(b)[j - 1] < n /\ n <= BlockEnds(b)[j]
                => i = j
<1>1. DOMAIN b = 1 .. Len(b) /\ Len(b) \in Nat
    OBVIOUS
<1> QED
    BY <1>1, ExtendsAreNumbers, BlockEndsSum, OneBlock

\* The rows of a block are those of its entry, in order.
LEMMA RowOfBlock ==
    ASSUME NEW b \in Seq(Entry), NEW i \in DOMAIN b, NEW k \in 1 .. b[i].extend
    PROVE  /\ BlockEnds(b)[i - 1] + k \in DOMAIN RowsOf(b)
           /\ RowsOf(b)[BlockEnds(b)[i - 1] + k] = [req |-> b[i].req, length |-> b[i].prefix + k]
<1> DEFINE E == BlockEnds(b)
           n == E[i - 1] + k
           InBlock(j) == E[j - 1] < n /\ n <= E[j]
<1>1. /\ Len(b) \in Nat /\ i \in 1 .. Len(b) /\ b[i] \in Entry
      /\ E[i] = E[i - 1] + b[i].extend
      /\ E[i - 1] \in Nat /\ E[i] \in Nat /\ E[Len(b)] \in Nat
      /\ E[i] <= E[Len(b)]
    BY BlockEndsGrow, BlockEndsAreSums
<1>2. b[i].extend \in Nat /\ b[i].prefix \in Nat /\ k \in Nat
    BY <1>1 DEF Entry
<1>3. InBlock(i) /\ n \in 1 .. E[Len(b)]
    BY <1>1, <1>2
<1>4. \A j \in DOMAIN b : InBlock(j) => j = i
    BY <1>3, RowHasOneBlock
<1>5. (CHOOSE j \in DOMAIN b : InBlock(j)) = i
    <2> HIDE DEF InBlock
    <2> QED
        BY <1>3, <1>4
<1>6. RowsOf(b)[n] = [req |-> b[i].req, length |-> b[i].prefix + n - E[i - 1]]
    <2>1. RowsOf(b) = [m \in 1 .. E[Len(b)] |->
                        LET j == CHOOSE j \in DOMAIN b : E[j - 1] < m /\ m <= E[j]
                        IN  [req |-> b[j].req, length |-> b[j].prefix + m - E[j - 1]]]
        BY DEF RowsOf
    <2> HIDE DEF E
    <2>2. RowsOf(b)[n] = LET j == CHOOSE j \in DOMAIN b : InBlock(j)
                         IN  [req |-> b[j].req, length |-> b[j].prefix + n - E[j - 1]]
        BY <1>3, <2>1
    <2> QED
        BY <1>5, <2>2
<1>7. DOMAIN RowsOf(b) = 1 .. E[Len(b)]
    BY DEF RowsOf
<1> HIDE DEF E
<1>8. b[i].prefix + n - E[i - 1] = b[i].prefix + k
    BY <1>1, <1>2
<1> QED
    BY <1>3, <1>6, <1>7, <1>8 DEF E

\* Every packed row is one of these.
LEMMA RowsAreOfBlocks ==
    ASSUME NEW b \in Seq(Entry), NEW n \in DOMAIN RowsOf(b)
    PROVE  \E i \in DOMAIN b : \E k \in 1 .. b[i].extend : n = BlockEnds(b)[i - 1] + k
<1> DEFINE E == BlockEnds(b)
<1>1. n \in 1 .. E[Len(b)]
    BY DEF RowsOf
<1>2. PICK i \in DOMAIN b : E[i - 1] < n /\ n <= E[i]
    BY <1>1, RowHasOneBlock
<1>3. /\ E[i] = E[i - 1] + b[i].extend
      /\ E[i - 1] \in Nat /\ E[i] \in Nat /\ E[Len(b)] \in Nat
      /\ b[i].extend \in Nat
    <2>1. i \in 1 .. Len(b) /\ i - 1 \in 0 .. Len(b) /\ b[i] \in Entry
        OBVIOUS
    <2>2. E[i] = E[i - 1] + b[i].extend
        BY BlockEndsAreSums
    <2>3. E[i - 1] \in Nat /\ E[i] \in Nat /\ E[Len(b)] \in Nat
        BY <2>1, BlockEndsGrow
    <2> QED
        BY <2>1, <2>2, <2>3 DEF Entry
<1> HIDE DEF E
<1>4. n - E[i - 1] \in 1 .. b[i].extend /\ n = E[i - 1] + (n - E[i - 1])
    BY <1>1, <1>2, <1>3
<1> QED
    BY <1>4 DEF E

-----------------------------------------------------------------------------
(* Captures *)

\* A target that one row only is sent to gets that row.
LEMMA CapturedAtTarget ==
    ASSUME NEW rows, NEW anchors, NEW targets, NEW new \in Captured(rows, anchors, targets),
           NEW i \in DOMAIN targets, targets[i] \in 0 .. TrashRow,
           \A j \in DOMAIN targets : targets[j] = targets[i] => j = i
    PROVE  new[targets[i]] = [own |-> TRUE, length |-> rows[anchors[i]].length]
<1>1. PICK w \in [Range(targets) -> DOMAIN targets] :
        /\ \A s \in Range(targets) : targets[w[s]] = s
        /\ new = [s \in 0 .. TrashRow |->
                    IF s \in Range(targets)
                    THEN [own |-> TRUE, length |-> rows[anchors[w[s]]].length]
                    ELSE selection[s]]
    BY DEF Captured
<1>2. targets[i] \in Range(targets)
    BY DEF Range
<1>3. w[targets[i]] = i
    BY <1>1, <1>2
<1> QED
    BY <1>1, <1>2, <1>3

\* A row that is nobody's target keeps its selection.
LEMMA CapturedElsewhere ==
    ASSUME NEW rows, NEW anchors, NEW targets, NEW new \in Captured(rows, anchors, targets),
           NEW s \in 0 .. TrashRow, \A j \in DOMAIN targets : targets[j] # s
    PROVE  new[s] = selection[s]
<1>1. s \notin Range(targets)
    BY DEF Range
<1> QED
    BY <1>1 DEF Captured

Selections == [0 .. TrashRow -> [own : BOOLEAN, length : 1 .. MaxLength]]

\* Captures of rows of a legal length leave legal selections, the trash included.
LEMMA CapturedType ==
    ASSUME NEW rows, NEW anchors, NEW targets, NEW new \in Captured(rows, anchors, targets),
           selection \in Selections,
           \A j \in DOMAIN targets : rows[anchors[j]].length \in 1 .. MaxLength
    PROVE  new \in Selections
<1>1. PICK w \in [Range(targets) -> DOMAIN targets] :
        new = [s \in 0 .. TrashRow |->
                    IF s \in Range(targets)
                    THEN [own |-> TRUE, length |-> rows[anchors[w[s]]].length]
                    ELSE selection[s]]
    BY DEF Captured
<1>2. ASSUME NEW s \in 0 .. TrashRow PROVE new[s] \in [own : BOOLEAN, length : 1 .. MaxLength]
    <2>1. CASE s \in Range(targets)
        <3>1. w[s] \in DOMAIN targets
            BY <1>1, <2>1
        <3>2. new[s] = [own |-> TRUE, length |-> rows[anchors[w[s]]].length]
            BY <1>1, <2>1
        <3> QED
            BY <3>1, <3>2
    <2>2. CASE s \notin Range(targets)
        BY <1>1, <2>2 DEF Selections
    <2> QED
        BY <2>1, <2>2
<1>3. DOMAIN new = 0 .. TrashRow /\ new = [s \in 0 .. TrashRow |-> new[s]]
    BY <1>1
<1> QED
    BY <1>2, <1>3 DEF Selections

\* An order of some requests names each of them once.
LEMMA OrderFacts ==
    ASSUME MtpAssumption, NEW ids \in SUBSET Request, NEW order \in Orders(ids)
    PROVE  /\ Len(order) \in Nat /\ DOMAIN order = 1 .. Len(order)
           /\ \A i \in DOMAIN order : order[i] \in ids
           /\ \A i, j \in DOMAIN order : order[i] = order[j] => i = j
           /\ \A r \in ids : \E i \in DOMAIN order : order[i] = r
<1>1. NumRequests \in Nat
    BY DEF MtpAssumption
<1>2. IsFiniteSet(ids)
    <2>1. IsFiniteSet(1 .. NumRequests)
        BY <1>1, FS_Interval
    <2> QED
        BY <2>1, FS_Subset DEF Request
<1>3. Cardinality(ids) \in Nat
    BY <1>2, FS_CardinalityType
<1>4. /\ order \in [1 .. Cardinality(ids) -> ids]
      /\ \A i, j \in DOMAIN order : order[i] = order[j] => i = j
      /\ \A r \in ids : \E i \in 1 .. Cardinality(ids) : order[i] = r
    BY DEF Orders, Bijection, Injection, Surjection, IsInjective
<1>5. Len(order) = Cardinality(ids)
    BY <1>3, <1>4
<1> QED
    BY <1>3, <1>4, <1>5

\* Prefill: when every entry has rows and the requests differ, the rows at which the
\* request changes are the ends of the blocks.
LEMMA LastRowsAreEnds ==
    ASSUME NEW b \in Seq(Entry),
           \A i \in DOMAIN b : b[i].extend >= 1,
           \A i, j \in DOMAIN b : b[i].req = b[j].req => i = j
    PROVE  /\ \A i \in DOMAIN b : BlockEnds(b)[i] \in LastRows(RowsOf(b))
           /\ \A n \in LastRows(RowsOf(b)) : \E i \in DOMAIN b : n = BlockEnds(b)[i]
<1> DEFINE E == BlockEnds(b)
           rows == RowsOf(b)
<1>1. /\ Len(b) \in Nat /\ DOMAIN b = 1 .. Len(b)
      /\ \A i \in 0 .. Len(b) : E[i] \in Nat
      /\ \A i \in DOMAIN b : E[i] = E[i - 1] + b[i].extend
    BY BlockEndsGrow, BlockEndsAreSums
<1>2. \A i \in DOMAIN b : b[i].extend \in Nat /\ b[i].extend >= 1
    <2>1. \A i \in 1 .. Len(b) : b[i] \in Entry
        OBVIOUS
    <2> QED
        BY <1>1, <2>1 DEF Entry
<1>3. DOMAIN rows = 1 .. E[Len(b)] /\ Len(rows) = E[Len(b)]
    <2>1. E[Len(b)] \in Nat
        BY <1>1
    <2> QED
        BY <2>1 DEF RowsOf
<1>4. \A i \in DOMAIN b : \A k \in 1 .. b[i].extend :
        E[i - 1] + k \in DOMAIN rows /\ rows[E[i - 1] + k].req = b[i].req
    <2> TAKE i \in DOMAIN b
    <2> TAKE k \in 1 .. b[i].extend
    <2>1. /\ E[i - 1] + k \in DOMAIN rows
          /\ rows[E[i - 1] + k] = [req |-> b[i].req, length |-> b[i].prefix + k]
        BY RowOfBlock
    <2> HIDE DEF E, rows
    <2> QED
        BY <2>1
<1>5. \A n \in DOMAIN rows : \E i \in DOMAIN b : \E k \in 1 .. b[i].extend : n = E[i - 1] + k
    BY RowsAreOfBlocks
<1> HIDE DEF E, rows
<1>6. ASSUME NEW i \in DOMAIN b PROVE E[i] \in LastRows(rows)
    <2>1. E[i] = E[i - 1] + b[i].extend /\ b[i].extend \in 1 .. b[i].extend
        BY <1>1, <1>2
    <2>2. E[i] \in DOMAIN rows /\ rows[E[i]].req = b[i].req
        BY <1>4, <2>1
    <2>3. CASE E[i] # Len(rows)
        <3>1. E[i] + 1 \in DOMAIN rows
            BY <1>1, <1>3, <2>2, <2>3
        <3>2. PICK j \in DOMAIN b : \E k \in 1 .. b[j].extend : E[i] + 1 = E[j - 1] + k
            BY <1>5, <3>1
        <3>3. PICK k \in 1 .. b[j].extend : E[i] + 1 = E[j - 1] + k
            BY <3>2
        <3>4. j # i
            BY <1>1, <1>2, <2>1, <3>3
        <3>5. rows[E[i] + 1].req = b[j].req
            BY <1>4, <3>3
        <3> QED
            BY <2>2, <3>4, <3>5 DEF LastRows
    <2> QED
        BY <2>2, <2>3 DEF LastRows
<1>7. ASSUME NEW n \in LastRows(rows) PROVE \E i \in DOMAIN b : n = E[i]
    <2>1. n \in DOMAIN rows
        BY DEF LastRows
    <2>2. PICK i \in DOMAIN b : \E k \in 1 .. b[i].extend : n = E[i - 1] + k
        BY <1>5, <2>1
    <2>3. PICK k \in 1 .. b[i].extend : n = E[i - 1] + k
        BY <2>2
    <2>4. SUFFICES ASSUME k # b[i].extend PROVE FALSE
        BY <1>1, <2>3
    <2>5. k + 1 \in 1 .. b[i].extend /\ n + 1 = E[i - 1] + (k + 1)
        <3>1. i - 1 \in 0 .. Len(b) /\ b[i].extend \in Nat
            BY <1>1, <1>2
        <3>2. E[i - 1] \in Nat
            BY <1>1, <3>1
        <3>3. \A x \in Nat : \A y \in 1 .. x : y # x => y + 1 \in 1 .. x
            OBVIOUS
        <3>4. k + 1 \in 1 .. b[i].extend /\ k \in Nat
            BY <2>4, <3>1, <3>3
        <3>5. n + 1 = E[i - 1] + (k + 1)
            <4>1. n = E[i - 1] + k
                BY <2>3
            <4>2. \A x, y \in Nat : (x + y) + 1 = x + (y + 1)
                OBVIOUS
            <4> QED
                BY <3>2, <3>4, <4>1, <4>2
        <3> QED
            BY <3>4, <3>5
    <2>6. n + 1 \in DOMAIN rows /\ rows[n + 1].req = b[i].req /\ rows[n].req = b[i].req
        BY <1>4, <2>3, <2>5
    <2>7. n # Len(rows)
        BY <1>1, <1>3, <2>1, <2>6
    <2> QED
        BY <2>6, <2>7 DEF LastRows
<1> QED
    BY <1>6, <1>7 DEF E, rows

-----------------------------------------------------------------------------
(* What the two captures leave *)

\* A prefill leaves each of its requests its selection at the chunk's end, and every
\* other row alone.
LEMMA PrefillCaptures ==
    ASSUME MtpAssumption, TypeOK,
           NEW ids \in SUBSET Request, NEW order \in Orders(ids),
           NEW chunk \in [ids -> 1 .. MaxLength],
           \A r \in ids : length[r] + chunk[r] <= MaxLength,
           NEW new \in CaptureLastRows(Chunks(order, chunk))
    PROVE  /\ new \in Selections
           /\ \A r \in ids : new[r] = [own |-> TRUE, length |-> length[r] + chunk[r]]
           /\ \A r \in Request \ ids : new[r] = selection[r]
<1> DEFINE b == Chunks(order, chunk)
           E == BlockEnds(b)
           rows == RowsOf(b)
           anchors == [n \in LastRows(rows) |-> n]
           targets == [n \in LastRows(rows) |-> rows[n].req]
<1>1. /\ Len(order) \in Nat /\ DOMAIN order = 1 .. Len(order)
      /\ \A i \in DOMAIN order : order[i] \in ids
      /\ \A i, j \in DOMAIN order : order[i] = order[j] => i = j
      /\ \A r \in ids : \E i \in DOMAIN order : order[i] = r
    BY OrderFacts
<1>2. /\ MaxLength \in Nat /\ NumRequests \in Nat
      /\ length \in [Request -> 0 .. MaxLength]
      /\ selection \in Selections
    BY DEF MtpAssumption, TypeOK, Selections
<1>3. \A r \in ids : /\ r \in Nat /\ r \in 0 .. TrashRow
                     /\ length[r] \in Nat /\ chunk[r] \in Nat /\ chunk[r] >= 1
                     /\ length[r] + chunk[r] \in 1 .. MaxLength
    BY <1>2 DEF Request, TrashRow
<1>4. /\ DOMAIN b = DOMAIN order
      /\ \A i \in DOMAIN b : b[i] = [req |-> order[i], prefix |-> length[order[i]],
                                     extend |-> chunk[order[i]], accept |-> 0]
    BY DEF Chunks
<1>5. b \in Seq(Entry)
    <2>1. \A i \in 1 .. Len(order) : b[i] \in Entry
        BY <1>1, <1>3, <1>4 DEF Entry
    <2>2. b = [i \in 1 .. Len(order) |-> b[i]]
        BY <1>1 DEF Chunks
    <2> HIDE DEF b
    <2> QED
        BY <1>1, <2>1, <2>2
<1> HIDE DEF b
<1>6. /\ \A i \in DOMAIN b : b[i].extend \in Nat /\ b[i].extend >= 1
      /\ \A i, j \in DOMAIN b : b[i].req = b[j].req => i = j
    BY <1>1, <1>3, <1>4
<1>7. /\ \A i \in DOMAIN b : E[i] \in LastRows(rows)
      /\ \A n \in LastRows(rows) : \E i \in DOMAIN b : n = E[i]
    BY <1>5, <1>6, LastRowsAreEnds
<1>8. ASSUME NEW i \in DOMAIN b
      PROVE  rows[E[i]] = [req |-> order[i], length |-> length[order[i]] + chunk[order[i]]]
    <2>1. E[i] = E[i - 1] + b[i].extend
        BY <1>5, BlockEndsAreSums
    <2>2. b[i].extend \in 1 .. b[i].extend
        BY <1>6
    <2> HIDE DEF E, rows
    <2>3. rows[E[i - 1] + b[i].extend] = [req |-> b[i].req, length |-> b[i].prefix + b[i].extend]
        BY <1>5, <2>2, RowOfBlock DEF E, rows
    <2> QED
        BY <1>4, <2>1, <2>3
<1>9. new \in Captured(rows, anchors, targets)
    BY DEF CaptureLastRows, b
<1> HIDE DEF rows, E
<1>10. \A n \in LastRows(rows) :
        targets[n] \in ids /\ rows[anchors[n]].length = length[targets[n]] + chunk[targets[n]]
    <2> TAKE n \in LastRows(rows)
    <2>1. PICK i \in DOMAIN b : n = E[i]
        BY <1>7
    <2>2. rows[n] = [req |-> order[i], length |-> length[order[i]] + chunk[order[i]]]
        BY <1>8, <2>1
    <2>3. targets[n] = rows[n].req /\ anchors[n] = n
        OBVIOUS
    <2> QED
        BY <1>1, <1>4, <2>2, <2>3
<1>11. ASSUME NEW r \in ids
       PROVE  new[r] = [own |-> TRUE, length |-> length[r] + chunk[r]]
    <2>0. \A n \in LastRows(rows) : targets[n] = rows[n].req
        OBVIOUS
    <2>1. PICK i \in DOMAIN b : order[i] = r
        BY <1>1, <1>4
    <2>2. E[i] \in LastRows(rows) /\ targets[E[i]] = r
        <3>1. rows[E[i]] = [req |-> order[i], length |-> length[order[i]] + chunk[order[i]]]
            BY <1>8
        <3> QED
            BY <1>7, <2>0, <2>1, <3>1
    <2>3. ASSUME NEW n \in LastRows(rows), targets[n] = r PROVE n = E[i]
        <3>1. PICK j \in DOMAIN b : n = E[j]
            BY <1>7
        <3>2. rows[n] = [req |-> order[j], length |-> length[order[j]] + chunk[order[j]]]
            BY <1>8, <3>1
        <3>3. order[j] = order[i]
            BY <2>0, <2>1, <2>3, <3>2
        <3> QED
            BY <1>1, <1>4, <3>1, <3>3
    <2>4. DOMAIN targets = LastRows(rows)
        OBVIOUS
    <2> HIDE DEF anchors, targets
    <2>5. new[targets[E[i]]] = [own |-> TRUE, length |-> rows[anchors[E[i]]].length]
        BY <1>3, <1>9, <2>2, <2>3, <2>4, CapturedAtTarget
    <2> QED
        BY <1>10, <2>2, <2>5
<1>12. ASSUME NEW r \in Request \ ids PROVE new[r] = selection[r]
    <2>1. r \in 0 .. TrashRow
        BY <1>2 DEF Request, TrashRow
    <2>2. \A n \in DOMAIN targets : targets[n] # r
        BY <1>10
    <2> HIDE DEF anchors, targets
    <2> QED
        BY <1>9, <2>1, <2>2, CapturedElsewhere
<1>13. new \in Selections
    <2>1. \A n \in DOMAIN targets : rows[anchors[n]].length \in 1 .. MaxLength
        BY <1>3, <1>10
    <2> HIDE DEF anchors, targets
    <2> QED
        BY <1>2, <1>9, <2>1, CapturedType
<1> QED
    BY <1>11, <1>12, <1>13

\* A draft extend leaves each of its requests its selection at the last token the
\* verdict kept, and every other request's alone, however many padded requests
\* follow and whatever row they name.
LEMMA DraftExtendCaptures ==
    ASSUME MtpAssumption, TypeOK,
           NEW ids \in SUBSET Request, ids # {}, NEW order \in Orders(ids),
           NEW kept \in [ids -> 1 .. DraftTokens], NEW padded \in 0 .. MaxPadding,
           \A r \in ids : FrontTokens <= length[r] /\ length[r] + DraftTokens <= MaxLength,
           NEW new \in CaptureAccepted(Windows(order, kept, padded))
    PROVE  /\ new \in Selections
           /\ \A r \in ids : new[r] = [own |-> TRUE, length |-> length[r] + kept[r]]
           /\ \A r \in Request \ ids : new[r] = selection[r]
<1> DEFINE b == Windows(order, kept, padded)
           E == BlockEnds(b)
           rows == RowsOf(b)
           anchors == [i \in DOMAIN b |-> Anchor(b, i)]
           targets == [i \in DOMAIN b |-> Target(b[i])]
<1>0. PICK n \in Nat : n = Len(order)
    BY OrderFacts
<1>1. /\ DOMAIN order = 1 .. n
      /\ \A i \in 1 .. n : order[i] \in ids
      /\ \A i, j \in 1 .. n : order[i] = order[j] => i = j
      /\ \A r \in ids : \E i \in 1 .. n : order[i] = r
    <2>1. DOMAIN order = 1 .. n
        BY <1>0, OrderFacts
    <2> QED
        BY <2>1, OrderFacts
<1>2. /\ DraftTokens \in Nat \ {0} /\ MaxLength \in Nat \ {0} /\ NumRequests \in Nat \ {0}
      /\ FrontTokens \in Nat /\ padded \in Nat /\ FrontTokens + DraftTokens \in Nat \ {0}
      /\ length \in [Request -> 0 .. MaxLength]
      /\ selection \in Selections
    BY DEF MtpAssumption, TypeOK, Selections
<1>3. \A r \in ids : /\ r \in Nat /\ r > 0 /\ r < TrashRow /\ r \in 0 .. TrashRow
                     /\ length[r] \in Nat /\ kept[r] \in 1 .. DraftTokens
                     /\ length[r] - FrontTokens \in Nat
                     /\ length[r] + kept[r] \in 1 .. MaxLength
    BY <1>2 DEF Request, TrashRow
<1>4. /\ DOMAIN b = 1 .. n + padded
      /\ \A i \in 1 .. n :
            /\ b[i].req = order[i] /\ b[i].prefix = length[order[i]] - FrontTokens
            /\ b[i].extend = FrontTokens + DraftTokens /\ b[i].accept = kept[order[i]]
      /\ \A i \in n + 1 .. n + padded : b[i].extend = 0
    <2>1. b = [i \in 1 .. n + padded |->
                IF i <= n
                THEN [req |-> order[i], prefix |-> length[order[i]] - FrontTokens,
                      extend |-> FrontTokens + DraftTokens, accept |-> kept[order[i]]]
                ELSE [req |-> 0, prefix |-> 0, extend |-> 0, accept |-> 0]]
        BY <1>0 DEF Windows
    <2> HIDE DEF b
    <2>2. ASSUME NEW i \in 1 .. n
          PROVE  b[i] = [req |-> order[i], prefix |-> length[order[i]] - FrontTokens,
                         extend |-> FrontTokens + DraftTokens, accept |-> kept[order[i]]]
        <3>1. i \in 1 .. n + padded /\ i <= n
            BY <1>2
        <3> QED
            BY <2>1, <3>1
    <2>3. \A i \in 1 .. n :
            /\ b[i].req = order[i] /\ b[i].prefix = length[order[i]] - FrontTokens
            /\ b[i].extend = FrontTokens + DraftTokens /\ b[i].accept = kept[order[i]]
        <3> TAKE i \in 1 .. n
        <3> DEFINE prefix == length[order[i]] - FrontTokens
                   window == FrontTokens + DraftTokens
        <3>1. b[i] = [req |-> order[i], prefix |-> prefix, extend |-> window,
                      accept |-> kept[order[i]]]
            BY <2>2
        <3> HIDE DEF prefix, window
        <3>2. /\ b[i].req = order[i] /\ b[i].prefix = prefix
              /\ b[i].extend = window /\ b[i].accept = kept[order[i]]
            BY <3>1
        <3> QED
            BY <3>2 DEF prefix, window
    <2>4. \A i \in n + 1 .. n + padded : i \in 1 .. n + padded /\ ~ (i <= n)
        BY <1>2
    <2> QED
        BY <2>1, <2>3, <2>4
<1>5. b \in Seq(Entry) /\ Len(b) = n + padded
    <2>1. ASSUME NEW i \in 1 .. n + padded PROVE b[i] \in Entry
        <3>1. b[i] = IF i <= n
                THEN [req |-> order[i], prefix |-> length[order[i]] - FrontTokens,
                      extend |-> FrontTokens + DraftTokens, accept |-> kept[order[i]]]
                ELSE [req |-> 0, prefix |-> 0, extend |-> 0, accept |-> 0]
            BY <1>0 DEF Windows
        <3> HIDE DEF b
        <3>2. CASE i <= n
            <4>1. order[i] \in ids
                BY <1>1, <1>2, <3>2
            <4>2. /\ order[i] \in Nat /\ length[order[i]] - FrontTokens \in Nat
                  /\ kept[order[i]] \in Nat
                BY <1>2, <1>3, <4>1
            <4> QED
                BY <1>2, <3>1, <3>2, <4>2 DEF Entry
        <3>3. CASE ~ (i <= n)
            BY <3>1, <3>3 DEF Entry
        <3> QED
            BY <3>2, <3>3
    <2>2. b = [i \in 1 .. n + padded |-> b[i]] /\ n + padded \in Nat
        BY <1>0, <1>2 DEF Windows
    <2> HIDE DEF b
    <2> QED
        BY <2>1, <2>2
<1> HIDE DEF b
<1>6. /\ \A i \in 0 .. Len(b) : E[i] \in Nat
      /\ \A i, j \in 0 .. Len(b) : i <= j => E[i] <= E[j]
      /\ \A i \in DOMAIN b : E[i] = E[i - 1] + b[i].extend
    BY <1>5, BlockEndsGrow, BlockEndsAreSums
<1>7. ASSUME NEW i \in 1 .. n, NEW k \in 1 .. FrontTokens + DraftTokens
      PROVE  /\ E[i - 1] + k \in DOMAIN rows
             /\ rows[E[i - 1] + k].length = length[order[i]] - FrontTokens + k
    <2>1. /\ i \in DOMAIN b /\ k \in 1 .. b[i].extend
          /\ b[i].req = order[i] /\ b[i].prefix = length[order[i]] - FrontTokens
        <3>1. i \in 1 .. n + padded
            BY <1>2
        <3> QED
            BY <1>4, <3>1
    <2>2. /\ E[i - 1] + k \in DOMAIN rows
          /\ rows[E[i - 1] + k] = [req |-> b[i].req, length |-> b[i].prefix + k]
        BY <1>5, <2>1, RowOfBlock
    <2> HIDE DEF E, rows
    <2> QED
        BY <2>1, <2>2
<1>8. /\ DOMAIN rows = 1 .. E[Len(b)]
      /\ \A m \in DOMAIN rows : \E i \in DOMAIN b : \E k \in 1 .. b[i].extend : m = E[i - 1] + k
    BY <1>5, RowsAreOfBlocks DEF RowsOf
<1>9. \A i \in DOMAIN b :
        anchors[i] = LET row == E[i] - (b[i].extend - FrontTokens - b[i].accept)
                     IN  IF row < 1 THEN 1
                         ELSE IF row > E[Len(b)] THEN E[Len(b)] ELSE row
    BY DEF Anchor
<1>10. new \in Captured(rows, anchors, targets)
    BY DEF CaptureAccepted, b
<1>11. /\ \A i \in 1 .. n : targets[i] = order[i]
       /\ \A i \in n + 1 .. n + padded : targets[i] = TrashRow
       /\ DOMAIN targets = DOMAIN b
    <2>1. ASSUME NEW i \in 1 .. n PROVE targets[i] = order[i]
        <3>1. i \in DOMAIN b /\ order[i] \in ids
            BY <1>1, <1>2, <1>4
        <3>2. b[i].extend > 0 /\ b[i].req > 0 /\ b[i].req = order[i]
            <4>1. b[i].req = order[i] /\ b[i].extend = FrontTokens + DraftTokens
                BY <1>4
            <4>2. order[i] \in Nat /\ order[i] > 0 /\ FrontTokens + DraftTokens > 0
                BY <1>2, <1>3, <3>1
            <4> QED
                BY <4>1, <4>2
        <3> QED
            BY <3>1, <3>2 DEF Target
    <2>2. ASSUME NEW i \in n + 1 .. n + padded PROVE targets[i] = TrashRow
        <3>1. i \in DOMAIN b /\ b[i].extend = 0
            BY <1>2, <1>4
        <3> QED
            BY <3>1 DEF Target
    <2> QED
        BY <2>1, <2>2
<1> HIDE DEF rows, E, anchors, targets
<1>12. ASSUME NEW i \in 1 .. n
       PROVE  /\ anchors[i] = E[i - 1] + (FrontTokens + kept[order[i]])
              /\ rows[anchors[i]].length = length[order[i]] + kept[order[i]]
    <2>1. i \in DOMAIN b /\ i \in 0 .. Len(b) /\ i - 1 \in 0 .. Len(b) /\ Len(b) \in 0 .. Len(b)
        <3>1. i \in 1 .. n + padded /\ n + padded \in Nat
            BY <1>2
        <3> QED
            BY <1>4, <1>5, <3>1
    <2>2. order[i] \in ids
        BY <1>1
    <2> DEFINE k == kept[order[i]]
    <2>3. k \in 1 .. DraftTokens /\ FrontTokens + k \in 1 .. FrontTokens + DraftTokens
        BY <1>2, <1>3, <2>2
    <2>4. /\ b[i].extend = FrontTokens + DraftTokens /\ b[i].accept = kept[order[i]]
        BY <1>4
    <2>5. /\ E[i - 1] \in Nat /\ E[i] \in Nat /\ E[Len(b)] \in Nat
          /\ E[i] = E[i - 1] + (FrontTokens + DraftTokens) /\ E[i] <= E[Len(b)]
        <3>1. E[i - 1] \in Nat /\ E[i] \in Nat /\ E[Len(b)] \in Nat
            BY <1>6, <2>1
        <3>2. E[i] = E[i - 1] + b[i].extend
            BY <1>6, <2>1
        <3>3. i <= Len(b)
            BY <2>1
        <3>4. E[i] <= E[Len(b)]
            BY <1>6, <2>1, <3>3
        <3> QED
            BY <3>1, <3>2, <3>4, <2>4
    <2>6. anchors[i] = E[i - 1] + (FrontTokens + k)
        <3>1. anchors[i] = LET row == E[i] - (b[i].extend - FrontTokens - b[i].accept)
                           IN  IF row < 1 THEN 1
                               ELSE IF row > E[Len(b)] THEN E[Len(b)] ELSE row
            BY <1>9, <2>1
        <3>2. k \in Nat /\ k >= 1 /\ k <= DraftTokens
            BY <1>2, <2>3
        <3>3. E[i] - (b[i].extend - FrontTokens - b[i].accept) = E[i - 1] + (FrontTokens + k)
            <4>1. \A e, f, d, c \in Nat : (e + (f + d)) - ((f + d) - f - c) = e + (f + c)
                OBVIOUS
            <4>2. DraftTokens \in Nat /\ FrontTokens \in Nat
                BY <1>2
            <4>3. b[i].extend = FrontTokens + DraftTokens /\ b[i].accept = k
                BY <2>4
            <4>4. /\ b[i].extend - FrontTokens - b[i].accept = (FrontTokens + DraftTokens) - FrontTokens - k
                  /\ E[i] = E[i - 1] + (FrontTokens + DraftTokens) /\ E[i - 1] \in Nat
                BY <2>5, <4>3
            <4> HIDE DEF k
            <4>5. (E[i - 1] + (FrontTokens + DraftTokens)) - ((FrontTokens + DraftTokens) - FrontTokens - k)
                    = E[i - 1] + (FrontTokens + k)
                BY <3>2, <4>1, <4>2, <4>4
            <4> QED
                BY <4>4, <4>5
        <3>4. /\ ~ (E[i - 1] + (FrontTokens + k) < 1)
              /\ ~ (E[i - 1] + (FrontTokens + k) > E[Len(b)])
            <4>1. \A e, f, d, c, l \in Nat : c >= 1 /\ c <= d /\ e + (f + d) <= l =>
                    ~ (e + (f + c) < 1) /\ ~ (e + (f + c) > l)
                OBVIOUS
            <4>2. DraftTokens \in Nat /\ FrontTokens \in Nat
                BY <1>2
            <4>3. E[i - 1] + (FrontTokens + DraftTokens) <= E[Len(b)]
                BY <2>5
            <4> HIDE DEF k
            <4> QED
                BY <2>5, <3>2, <4>1, <4>2, <4>3
        <3> HIDE DEF k
        <3> QED
            BY <3>1, <3>3, <3>4
    <2>7. rows[E[i - 1] + (FrontTokens + k)].length = length[order[i]] - FrontTokens + (FrontTokens + k)
        BY <1>7, <2>3
    <2> QED
        BY <1>2, <1>3, <2>2, <2>3, <2>6, <2>7
<1>13. ASSUME NEW m \in DOMAIN rows PROVE rows[m].length \in 1 .. MaxLength
    <2>1. PICK i \in DOMAIN b : \E k \in 1 .. b[i].extend : m = E[i - 1] + k
        BY <1>8
    <2>2. PICK k \in 1 .. b[i].extend : m = E[i - 1] + k
        BY <2>1
    <2>3. i \in 1 .. n
        <3>1. i \notin n + 1 .. n + padded
            BY <1>4, <2>2
        <3> QED
            BY <1>1, <1>2, <1>4, <3>1
    <2>4. k \in 1 .. FrontTokens + DraftTokens /\ k \in Nat
        <3>1. b[i].extend = FrontTokens + DraftTokens
            BY <1>4, <2>3
        <3> QED
            BY <1>2, <3>1
    <2>5. rows[m].length = length[order[i]] - FrontTokens + k
        BY <1>7, <2>2, <2>3, <2>4
    <2>6. order[i] \in ids
        BY <1>1, <2>3
    <2> QED
        BY <1>2, <1>3, <2>4, <2>5, <2>6
<1>14. ASSUME NEW i \in DOMAIN b PROVE anchors[i] \in DOMAIN rows
    <2>1. 1 \in 1 .. n
        BY <1>1
    <2>2. E[0] + 1 \in DOMAIN rows /\ E[0] \in Nat /\ E[Len(b)] \in Nat
        <3>1. 1 \in 1 .. FrontTokens + DraftTokens /\ 0 \in 0 .. Len(b) /\ Len(b) \in 0 .. Len(b)
            BY <1>1, <1>2, <1>5
        <3>2. E[1 - 1] + 1 \in DOMAIN rows
            BY <1>7, <2>1, <3>1
        <3> QED
            BY <1>6, <3>1, <3>2
    <2>3. E[Len(b)] >= 1
        BY <1>8, <2>2
    <2>4. E[i] - (b[i].extend - FrontTokens - b[i].accept) \in Int
        <3>1. i \in 1 .. Len(b) /\ i \in 0 .. Len(b)
            BY <1>2, <1>4, <1>5
        <3>2. b[i] \in Entry
            BY <1>5, <3>1
        <3>3. b[i].extend \in Nat /\ b[i].accept \in Nat /\ E[i] \in Nat
            BY <1>6, <3>1, <3>2 DEF Entry
        <3> QED
            BY <1>2, <3>3
    <2>5. \A x \in Int : \A y \in Nat : y >= 1 =>
            (IF x < 1 THEN 1 ELSE IF x > y THEN y ELSE x) \in 1 .. y
        OBVIOUS
    <2>6. anchors[i] \in 1 .. E[Len(b)]
        BY <1>9, <2>2, <2>3, <2>4, <2>5
    <2> QED
        BY <1>8, <2>6
<1>15. ASSUME NEW r \in ids
       PROVE  new[r] = [own |-> TRUE, length |-> length[r] + kept[r]]
    <2>1. PICK i \in 1 .. n : order[i] = r
        BY <1>1
    <2>2. i \in DOMAIN targets /\ targets[i] = r
        BY <1>1, <1>2, <1>4, <1>11, <2>1
    <2>3. ASSUME NEW j \in DOMAIN targets, targets[j] = targets[i] PROVE j = i
        <3>1. CASE j \in 1 .. n
            BY <1>1, <1>11, <2>1, <2>2, <2>3, <3>1
        <3>2. CASE j \in n + 1 .. n + padded
            BY <1>3, <1>11, <2>2, <2>3, <3>2 DEF TrashRow
        <3> QED
            BY <1>1, <1>2, <1>4, <1>11, <2>3, <3>1, <3>2
    <2>4. new[targets[i]] = [own |-> TRUE, length |-> rows[anchors[i]].length]
        BY <1>3, <1>10, <2>2, <2>3, CapturedAtTarget
    <2> QED
        BY <1>12, <2>1, <2>2, <2>4
<1>16. ASSUME NEW r \in Request \ ids PROVE new[r] = selection[r]
    <2>1. r \in 0 .. TrashRow /\ r # TrashRow
        BY <1>2 DEF Request, TrashRow
    <2>2. ASSUME NEW j \in DOMAIN targets PROVE targets[j] # r
        <3>1. CASE j \in 1 .. n
            BY <1>1, <1>11, <3>1
        <3>2. CASE j \in n + 1 .. n + padded
            BY <1>11, <2>1, <3>2
        <3> QED
            BY <1>1, <1>2, <1>4, <1>11, <2>2, <3>1, <3>2
    <2> QED
        BY <1>10, <2>1, <2>2, CapturedElsewhere
<1>17. new \in Selections
    <2>1. \A i \in DOMAIN targets : rows[anchors[i]].length \in 1 .. MaxLength
        BY <1>11, <1>13, <1>14
    <2> QED
        BY <1>2, <1>10, <2>1, CapturedType
<1> QED
    BY <1>15, <1>16, <1>17

-----------------------------------------------------------------------------
(* The invariant *)

\* What an iteration under way rests on: its requests are past their prompt, hold
\* at least the front rows, and have room for a whole window.
IterationFits ==
    /\ \A r \in Request : ready[r] => FrontTokens <= length[r]
    /\ running = Idle \/ running.ids # {}
    /\ \A r \in running.ids : ready[r] /\ length[r] + DraftTokens <= MaxLength

\* The seed of the next iteration is current only because the windows of this one
\* reach back over their front rows and fit the request's length.
SharedInv ==
    /\ TypeOK
    /\ SeedIsCurrent
    /\ DraftSeesEveryPosition
    /\ IterationFits

\* Nothing is ready and nothing has been drafted.
LEMMA InitSharedInv == Init => SharedInv
<1> SUFFICES ASSUME Init PROVE SharedInv
    OBVIOUS
<1>1. MaxLength \in Nat \ {0} /\ DraftSteps \in Nat /\ NumRequests \in Nat
    BY MtpAssumption DEF MtpAssumption
<1>2. TypeOK
    BY <1>1 DEF Init, TypeOK, Idle, Nothing
<1>3. SeedIsCurrent /\ DraftSeesEveryPosition /\ IterationFits
    BY DEF Init, Idle, Nothing, SeedIsCurrent, DraftSeesEveryPosition, IterationFits
<1> QED
    BY <1>2, <1>3 DEF SharedInv

\* A prefill moves only requests that were not ready, and leaves each its own end.
LEMMA PrefillKeeps == ASSUME SharedInv, Prefill PROVE SharedInv'
<1>1. PICK ids \in SUBSET {r \in Request : ~ready[r]}, last \in SUBSET Request :
        \E chunk \in [ids -> 1 .. MaxLength], order \in Orders(ids) :
            /\ last \subseteq ids
            /\ \A r \in ids : length[r] + chunk[r] <= MaxLength
            /\ \A r \in last : length[r] + chunk[r] >= FrontTokens
            /\ selection' \in CaptureLastRows(Chunks(order, chunk))
            /\ length' = [r \in Request |-> IF r \in ids THEN length[r] + chunk[r] ELSE length[r]]
            /\ ready' = [r \in Request |-> ready[r] \/ r \in last]
    BY DEF Prefill
<1>2. PICK chunk \in [ids -> 1 .. MaxLength], order \in Orders(ids) :
        /\ last \subseteq ids
        /\ \A r \in ids : length[r] + chunk[r] <= MaxLength
        /\ \A r \in last : length[r] + chunk[r] >= FrontTokens
        /\ selection' \in CaptureLastRows(Chunks(order, chunk))
        /\ length' = [r \in Request |-> IF r \in ids THEN length[r] + chunk[r] ELSE length[r]]
        /\ ready' = [r \in Request |-> ready[r] \/ r \in last]
    BY <1>1
<1>3. running = Idle /\ running' = Idle /\ seen' = Nothing
    BY DEF Prefill
<1>4. /\ ids \in SUBSET Request /\ \A r \in ids : ~ready[r]
      /\ length \in [Request -> 0 .. MaxLength] /\ ready \in [Request -> BOOLEAN]
      /\ MaxLength \in Nat /\ FrontTokens \in Nat /\ DraftSteps \in Nat
    BY MtpAssumption DEF SharedInv, TypeOK, MtpAssumption
<1>5. /\ selection' \in Selections
      /\ \A r \in ids : selection'[r] = [own |-> TRUE, length |-> length[r] + chunk[r]]
      /\ \A r \in Request \ ids : selection'[r] = selection[r]
    BY <1>2, <1>4, MtpAssumption, PrefillCaptures DEF SharedInv
<1>6. \A r \in Request : r \in ids => length[r] + chunk[r] \in 0 .. MaxLength
    BY <1>2, <1>4
<1>7. TypeOK'
    <2>1. length' \in [Request -> 0 .. MaxLength]
        BY <1>2, <1>4, <1>6
    <2>2. ready' \in [Request -> BOOLEAN]
        BY <1>2, <1>4
    <2> QED
        BY <1>3, <1>4, <1>5, <2>1, <2>2 DEF TypeOK, Idle, Nothing, Selections
<1>8. SeedIsCurrent'
    <2>1. ASSUME NEW r \in Request, ready'[r]
          PROVE  selection'[r] = [own |-> TRUE, length |-> length'[r]]
        <3>1. CASE r \in ids
            BY <1>2, <1>5, <3>1
        <3>2. CASE r \notin ids
            <4>1. ready[r]
                BY <1>2, <2>1, <3>2
            <4> QED
                BY <1>2, <1>5, <3>2, <4>1 DEF SharedInv, SeedIsCurrent
        <3> QED
            BY <3>1, <3>2
    <2> QED
        BY <2>1 DEF SeedIsCurrent
<1>9. DraftSeesEveryPosition'
    BY <1>3 DEF DraftSeesEveryPosition, Nothing
<1>10. IterationFits'
    <2>1. ASSUME NEW r \in Request, ready'[r] PROVE FrontTokens <= length'[r]
        <3>1. CASE r \in last
            <4>1. length'[r] = length[r] + chunk[r] /\ length[r] + chunk[r] >= FrontTokens
                BY <1>2, <3>1
            <4> QED
                BY <1>4, <1>6, <4>1, <1>2, <3>1
        <3>2. CASE r \notin last
            <4>1. ready[r] /\ r \notin ids
                BY <1>2, <1>4, <2>1, <3>2
            <4> QED
                BY <1>2, <4>1 DEF SharedInv, IterationFits
        <3> QED
            BY <3>1, <3>2
    <2> QED
        BY <1>3, <2>1 DEF IterationFits, Idle
<1> QED
    BY <1>7, <1>8, <1>9, <1>10 DEF SharedInv

\* An iteration starts with requests that are ready and have room.
LEMMA StartKeeps == ASSUME SharedInv, Start PROVE SharedInv'
<1>1. PICK ids \in (SUBSET {r \in Request : ready[r]}) \ {{}} :
        /\ \A r \in ids : length[r] + DraftTokens <= MaxLength
        /\ running' = [ids |-> ids, step |-> 0]
    BY DEF Start
<1>2. seen' = Nothing /\ UNCHANGED <<length, ready, selection>>
    BY DEF Start
<1>3. TypeOK'
    <2>1. DraftSteps \in Nat
        BY MtpAssumption DEF MtpAssumption
    <2> QED
        BY <1>1, <1>2, <2>1 DEF SharedInv, TypeOK, Nothing
<1>4. SeedIsCurrent'
    BY <1>2 DEF SharedInv, SeedIsCurrent
<1>5. DraftSeesEveryPosition'
    BY <1>2 DEF DraftSeesEveryPosition, Nothing
<1>6. IterationFits'
    <2>1. running'.ids = ids /\ ids # {}
        BY <1>1
    <2>2. \A r \in ids : ready'[r] /\ length'[r] + DraftTokens <= MaxLength
        BY <1>1, <1>2
    <2>3. \A r \in Request : ready'[r] => FrontTokens <= length'[r]
        BY <1>2 DEF SharedInv, IterationFits
    <2> QED
        BY <2>1, <2>2, <2>3 DEF IterationFits
<1> QED
    BY <1>3, <1>4, <1>5, <1>6 DEF SharedInv

\* A draft step reads its own current selection, and the tail closes the gap.
LEMMA DraftStepKeeps == ASSUME SharedInv, DraftStep PROVE SharedInv'
<1>1. /\ running # Idle /\ running.step < DraftSteps
      /\ seen' = [r \in running.ids |->
                    [selected |-> selection[r], tail |-> TailOf(r, length[r] + running.step),
                     position |-> length[r] + running.step]]
      /\ running' = [running EXCEPT !.step = @ + 1]
      /\ UNCHANGED <<length, ready, selection>>
    BY DEF DraftStep
<1>2. /\ DraftSteps \in Nat /\ TailWidth \in Nat /\ TailWidth >= DraftSteps /\ MaxLength \in Nat
      /\ running \in [ids : SUBSET Request, step : 0 .. DraftSteps]
      /\ length \in [Request -> 0 .. MaxLength]
    BY MtpAssumption DEF SharedInv, TypeOK, MtpAssumption
<1>3. /\ running'.ids = running.ids
      /\ running' \in [ids : SUBSET Request, step : 0 .. DraftSteps]
    BY <1>1, <1>2
<1>4. TypeOK'
    BY <1>1, <1>2, <1>3 DEF SharedInv, TypeOK
<1>5. SeedIsCurrent'
    BY <1>1 DEF SharedInv, SeedIsCurrent
<1>6. DraftSeesEveryPosition'
    <2> SUFFICES ASSUME NEW r \in running.ids
                 PROVE  /\ seen'[r].selected.own
                        /\ seen'[r].tail = seen'[r].selected.length .. seen'[r].position
        BY <1>1 DEF DraftSeesEveryPosition
    <2>1. r \in Request /\ ready[r]
        BY <1>2 DEF SharedInv, IterationFits
    <2>2. selection[r] = [own |-> TRUE, length |-> length[r]]
        BY <2>1 DEF SharedInv, SeedIsCurrent
    <2> DEFINE l == length[r]
               p == length[r] + running.step
    <2>3. /\ seen'[r].selected = [own |-> TRUE, length |-> l]
          /\ seen'[r].tail = TailOf(r, p) /\ seen'[r].position = p
        BY <1>1, <2>2
    <2>4. l \in Nat /\ running.step \in Nat /\ running.step < TailWidth
        BY <1>1, <1>2, <2>1
    <2>5. TailOf(r, p) = {q \in l .. l + TailWidth - 1 : q <= p}
        BY <2>2 DEF TailOf
    <2>6. {q \in l .. l + TailWidth - 1 : q <= p} = l .. p
        BY <1>2, <2>4
    <2> HIDE DEF l, p
    <2> QED
        BY <2>3, <2>5, <2>6
<1>7. IterationFits'
    <2>1. running' = Idle \/ running'.ids # {}
        BY <1>1, <1>3 DEF SharedInv, IterationFits
    <2> QED
        BY <1>1, <1>3, <2>1 DEF SharedInv, IterationFits
<1> QED
    BY <1>4, <1>5, <1>6, <1>7 DEF SharedInv

\* A draft extend moves each of its requests to its last kept token and captures
\* there.
LEMMA DraftExtendKeeps == ASSUME SharedInv, DraftExtend PROVE SharedInv'
<1> DEFINE ids == running.ids
<1>1. PICK kept \in [ids -> 1 .. DraftTokens], padded \in 0 .. MaxPadding, order \in Orders(ids) :
        /\ selection' \in CaptureAccepted(Windows(order, kept, padded))
        /\ length' = [r \in Request |-> IF r \in ids THEN length[r] + kept[r] ELSE length[r]]
    BY DEF DraftExtend
<1>2. running # Idle /\ running' = Idle /\ UNCHANGED <<ready, seen>>
    BY DEF DraftExtend
<1>3. /\ ids \in SUBSET Request /\ ids # {}
      /\ \A r \in ids : ready[r] /\ length[r] + DraftTokens <= MaxLength
      /\ \A r \in Request : ready[r] => FrontTokens <= length[r]
      /\ length \in [Request -> 0 .. MaxLength] /\ ready \in [Request -> BOOLEAN]
      /\ MaxLength \in Nat /\ FrontTokens \in Nat /\ DraftSteps \in Nat /\ DraftTokens \in Nat
      /\ DOMAIN seen \subseteq Request
    BY <1>2, MtpAssumption DEF SharedInv, TypeOK, IterationFits, MtpAssumption
<1> HIDE DEF ids
<1>4. \A r \in ids : FrontTokens <= length[r] /\ length[r] + DraftTokens <= MaxLength
    BY <1>3
<1>5. /\ selection' \in Selections
      /\ \A r \in ids : selection'[r] = [own |-> TRUE, length |-> length[r] + kept[r]]
      /\ \A r \in Request \ ids : selection'[r] = selection[r]
    <2>1. TypeOK /\ selection' \in CaptureAccepted(Windows(order, kept, padded))
        BY <1>1 DEF SharedInv
    <2>2. ids \in SUBSET Request /\ ids # {}
        BY <1>3
    <2> QED
        BY <1>4, <2>1, <2>2, MtpAssumption, DraftExtendCaptures
<1>6. \A r \in ids : length[r] + kept[r] \in 0 .. MaxLength /\ length[r] <= length[r] + kept[r]
    BY <1>3
<1>7. TypeOK'
    <2>1. length' \in [Request -> 0 .. MaxLength]
        BY <1>1, <1>3, <1>6
    <2> QED
        BY <1>2, <1>3, <1>5, <2>1 DEF TypeOK, Idle, Selections
<1>8. SeedIsCurrent'
    <2>1. ASSUME NEW r \in Request, ready[r]
          PROVE  selection'[r] = [own |-> TRUE, length |-> length'[r]]
        <3>1. CASE r \in ids
            BY <1>1, <1>5, <3>1
        <3>2. CASE r \notin ids
            BY <1>1, <1>5, <2>1, <3>2 DEF SharedInv, SeedIsCurrent
        <3> QED
            BY <3>1, <3>2
    <2> QED
        BY <1>2, <2>1 DEF SeedIsCurrent
<1>9. DraftSeesEveryPosition'
    BY <1>2 DEF SharedInv, DraftSeesEveryPosition
<1>10. IterationFits'
    <2>1. ASSUME NEW r \in Request, ready[r] PROVE FrontTokens <= length'[r]
        <3>1. FrontTokens <= length[r] /\ length[r] \in Nat
            BY <1>3, <2>1
        <3>2. CASE r \in ids
            BY <1>1, <1>3, <1>6, <3>1, <3>2
        <3>3. CASE r \notin ids
            BY <1>1, <3>1, <3>3
        <3> QED
            BY <3>2, <3>3
    <2> QED
        BY <1>2, <2>1 DEF IterationFits, Idle
<1> QED
    BY <1>7, <1>8, <1>9, <1>10 DEF SharedInv

\* A request that leaves is not ready, whatever its selection row still holds.
LEMMA FinishKeeps == ASSUME SharedInv, NEW r \in Request, Finish(r) PROVE SharedInv'
<1>1. /\ running = Idle /\ running' = Idle /\ seen' = Nothing
      /\ length' = [length EXCEPT ![r] = 0]
      /\ ready' = [ready EXCEPT ![r] = FALSE]
      /\ selection' = [selection EXCEPT ![r].own = FALSE]
    BY DEF Finish
<1>2. /\ length \in [Request -> 0 .. MaxLength] /\ ready \in [Request -> BOOLEAN]
      /\ selection \in [0 .. TrashRow -> [own : BOOLEAN, length : 1 .. MaxLength]]
      /\ MaxLength \in Nat /\ NumRequests \in Nat /\ DraftSteps \in Nat
    BY MtpAssumption DEF SharedInv, TypeOK, MtpAssumption
<1>3. r \in 0 .. TrashRow
    BY <1>2 DEF Request, TrashRow
<1>4. TypeOK'
    <2>1. selection' \in [0 .. TrashRow -> [own : BOOLEAN, length : 1 .. MaxLength]]
        BY <1>1, <1>2, <1>3
    <2>2. length' \in [Request -> 0 .. MaxLength] /\ ready' \in [Request -> BOOLEAN]
        BY <1>1, <1>2
    <2> QED
        BY <1>1, <1>2, <2>1, <2>2 DEF TypeOK, Idle, Nothing
<1>5. \A q \in Request : ready'[q] =>
        q # r /\ ready[q] /\ length'[q] = length[q] /\ selection'[q] = selection[q]
    <2>1. \A q \in Request : q \in 0 .. TrashRow
        BY <1>2 DEF Request, TrashRow
    <2> QED
        BY <1>1, <1>2, <2>1
<1>6. SeedIsCurrent'
    BY <1>5 DEF SharedInv, SeedIsCurrent
<1>7. DraftSeesEveryPosition'
    BY <1>1 DEF DraftSeesEveryPosition, Nothing
<1>8. IterationFits'
    BY <1>1, <1>5 DEF SharedInv, IterationFits, Idle
<1> QED
    BY <1>4, <1>6, <1>7, <1>8 DEF SharedInv

\* Every step, stuttering included, keeps the invariant.
LEMMA StepKeepsShared == ASSUME SharedInv, [Next]_vars PROVE SharedInv'
<1>1. CASE Prefill
    BY <1>1, PrefillKeeps
<1>2. CASE Start
    BY <1>2, StartKeeps
<1>3. CASE DraftStep
    BY <1>3, DraftStepKeeps
<1>4. CASE DraftExtend
    BY <1>4, DraftExtendKeeps
<1>5. ASSUME NEW r \in Request, Finish(r) PROVE SharedInv'
    BY <1>5, FinishKeeps
<1>6. CASE UNCHANGED vars
    BY <1>6 DEF vars, SharedInv, TypeOK, SeedIsCurrent, DraftSeesEveryPosition, IterationFits
<1> QED
    BY <1>1, <1>2, <1>3, <1>4, <1>5, <1>6 DEF Next

\* Every reachable state has the invariant.
LEMMA SharedInvariance == Spec => []SharedInv
BY InitSharedInv, StepKeepsShared, PTL DEF Spec

\* Lengths, selections and what draft steps saw stay in their types: in particular
\* every captured length, of trash rows too, is that of a real row
\* (QSAMTPSharedSparseIndices.captured_len).
THEOREM SharedTypeCorrect == Spec => []TypeOK
<1>1. SharedInv => TypeOK
    BY DEF SharedInv
<1> QED
    BY <1>1, SharedInvariance, PTL

\* However long the prompt's chunks, whatever the verdicts keep, in any order and
\* padding of a batch, and whoever held the slot before: an iteration starts from
\* the request's own selection at its last accepted token
\* (capture_mtp_sparse_indices, _capture_mtp_sparse_indices_from_extend_lens).
THEOREM SeedsAreCurrent == Spec => []SeedIsCurrent
<1>1. SharedInv => SeedIsCurrent
    BY DEF SharedInv
<1> QED
    BY <1>1, SharedInvariance, PTL

\* A tail as wide as the draft loop closes the gap between the frozen selection and
\* the row's own position exactly, at every draft step (lookup).
THEOREM DraftsSeeEveryPosition == Spec => []DraftSeesEveryPosition
<1>1. SharedInv => DraftSeesEveryPosition
    BY DEF SharedInv
<1> QED
    BY <1>1, SharedInvariance, PTL
=============================================================================
