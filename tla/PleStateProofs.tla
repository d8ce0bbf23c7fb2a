---------------------------- MODULE PleStateProofs ----------------------------
(***************************************************************************)
(* Both parts of the PLE state are the tail of their own request's tokens, *)
(* in working slots, in snapshots, in the radix tree and behind every step *)
(* of a verify window: for every number of requests and slots, every       *)
(* vocabulary, n-gram size, kernel, interval and window, and every order   *)
(* and padding of a batch.  The first parts are about the operators: the   *)
(* tail of a text, the rows of a batch, the search that finds a packed     *)
(* token's row, and what a forward leaves in each slot.                    *)
(***************************************************************************)
EXTENDS PleState, QsaArithmetic, FiniteSetTheorems

\* What a state may hold, and a row of a batch.
Word == Token \cup {Zero}
Row == [req : Request, new : Seq(Token), pad : BOOLEAN]

-----------------------------------------------------------------------------
(* Tails *)

\* The dilation is positive; both parts have a length and a filling.
LEMMA PartsHaveLengths ==
    /\ Dilation \in Nat \ {0}
    /\ \A p \in Part : PartLength(p) \in Nat /\ Filler(p) \in Word
    /\ PartLength("conv") = (Kernel - 1) * Dilation
<1>1. Dilation \in Nat \ {0} /\ Kernel - 1 \in Nat
    BY PleAssumption DEF Dilation
<1>2. \A n, m \in Nat : n * m \in Nat
    OBVIOUS
<1>3. (Kernel - 1) * Dilation \in Nat
    BY <1>1, <1>2
<1>4. ASSUME NEW p \in Part PROVE PartLength(p) \in Nat /\ Filler(p) \in Word
    BY <1>3, PleAssumption DEF PartLength, Filler, Word
<1> QED
    BY <1>1, <1>4 DEF PartLength

\* The last tokens of a text, one by one.
LEMMA TailIs ==
    ASSUME NEW p \in Part, NEW t \in Seq(Token)
    PROVE  /\ LastTokens(p, t) \in Seq(Word) /\ Len(LastTokens(p, t)) = PartLength(p)
           /\ \A j \in 1 .. PartLength(p) :
                LastTokens(p, t)[j] = IF Len(t) + j <= PartLength(p) THEN Filler(p)
                                      ELSE t[Len(t) + j - PartLength(p)]
<1> DEFINE n == PartLength(p)
           u == Blank(p) \o t
<1>1. n \in Nat /\ Filler(p) \in Word
    BY PartsHaveLengths
<1>2. Blank(p) \in Seq(Word) /\ Len(Blank(p)) = n
    BY <1>1 DEF Blank
<1>3. t \in Seq(Word)
    BY DEF Word
<1>4. u \in Seq(Word) /\ Len(u) = n + Len(t)
    BY <1>2, <1>3
<1>5. \A x \in 1 .. n + Len(t) : u[x] = IF x <= n THEN Filler(p) ELSE t[x - n]
    BY <1>1, <1>2, <1>3 DEF Blank
<1>6. LastTokens(p, t) = SubSeq(u, Len(t) + 1, Len(t) + n)
    BY DEF LastTokens
<1>7. Len(t) \in Nat
    OBVIOUS
<1> HIDE DEF u, n
<1>8. LastTokens(p, t) \in Seq(Word) /\ Len(LastTokens(p, t)) = n
      /\ \A j \in 1 .. n : LastTokens(p, t)[j] = u[Len(t) + j]
    BY <1>1, <1>4, <1>6, <1>7, WindowFacts
<1>9. ASSUME NEW j \in 1 .. n
      PROVE  u[Len(t) + j] = IF Len(t) + j <= n THEN Filler(p) ELSE t[Len(t) + j - n]
    BY <1>1, <1>5, <1>7
<1> QED
    BY <1>8, <1>9 DEF n

\* What a row holds first are the request's new tokens; what is behind them does not
\* matter.
StartsWith(row, new) ==
    \E n \in Nat : /\ row = [o \in 1 .. n |-> row[o]] /\ Len(new) <= n
                   /\ \A o \in 1 .. Len(new) : row[o] = new[o]

\* State and row side by side hold the request's text, filled from the left.
LEMMA TextAt ==
    ASSUME NEW p \in Part, NEW t \in Seq(Token), NEW new \in Seq(Token), NEW row,
           StartsWith(row, new), NEW k \in 0 .. Len(new), NEW x \in 1 .. k + PartLength(p)
    PROVE  (LastTokens(p, t) \o row)[x] =
             IF Len(t) + x <= PartLength(p) THEN Filler(p)
             ELSE (t \o SubSeq(new, 1, k))[Len(t) + x - PartLength(p)]
<1> DEFINE m == PartLength(p)
           h == LastTokens(p, t)
           v == SubSeq(new, 1, k)
<1>1. m \in Nat
    BY PartsHaveLengths
<1>2. PICK n \in Nat : /\ row = [o \in 1 .. n |-> row[o]] /\ Len(new) <= n
                       /\ \A o \in 1 .. Len(new) : row[o] = new[o]
    BY DEF StartsWith
<1>3. row \in Seq({row[o] : o \in 1 .. n}) /\ Len(row) = n
    BY <1>2, FunctionIsSequence
<1>4. h \in Seq(Word) /\ Len(h) = m
      /\ \A j \in 1 .. m : h[j] = IF Len(t) + j <= m THEN Filler(p) ELSE t[Len(t) + j - m]
    BY TailIs
<1>5. Len(new) \in Nat /\ Len(t) \in Nat /\ k \in Nat /\ k <= Len(new)
    OBVIOUS
<1>6. v \in Seq(Token) /\ Len(v) = k /\ \A o \in 1 .. k : v[o] = new[o]
    BY <1>5
<1> HIDE DEF h, m, v
<1>7. \A y \in 1 .. m + n : (h \o row)[y] = IF y <= m THEN h[y] ELSE row[y - m]
    <2> DEFINE S == Word \cup {row[o] : o \in 1 .. n}
    <2>1. h \in Seq(S) /\ row \in Seq(S)
        <3>1. Word \subseteq S /\ {row[o] : o \in 1 .. n} \subseteq S
            OBVIOUS
        <3> HIDE DEF S
        <3> QED
            BY <1>3, <1>4, <3>1, SequenceOver
    <2> HIDE DEF S
    <2> QED
        BY <1>3, <1>4, <2>1, ConcatElements
<1>8. \A y \in 1 .. Len(t) + k : (t \o v)[y] = IF y <= Len(t) THEN t[y] ELSE v[y - Len(t)]
    BY <1>5, <1>6
<1>9. x \in Nat /\ 1 <= x /\ x <= k + m
    BY <1>1, <1>5 DEF m
<1>10. CASE x <= m
    <2>1. (h \o row)[x] = h[x]
        <3>1. x \in 1 .. m + n
            BY <1>1, <1>9, <1>10
        <3> QED
            BY <1>7, <1>10, <3>1
    <2>2. CASE Len(t) + x <= m
        BY <1>4, <1>9, <1>10, <2>1, <2>2 DEF h, m, v
    <2>3. CASE ~ (Len(t) + x <= m)
        <3>1. (t \o v)[Len(t) + x - m] = t[Len(t) + x - m]
            BY <1>1, <1>5, <1>8, <1>9, <1>10, <2>3
        <3> QED
            BY <1>4, <1>9, <1>10, <2>1, <2>3, <3>1 DEF h, m, v
    <2> QED
        BY <2>2, <2>3
<1>11. CASE ~ (x <= m)
    <2>1. x - m \in 1 .. k /\ x - m \in 1 .. Len(new) /\ ~ (Len(t) + x <= m)
        BY <1>1, <1>5, <1>9, <1>11
    <2>4. (h \o row)[x] = row[x - m]
        <3>1. x \in 1 .. m + n
            BY <1>1, <1>2, <1>5, <1>9, <1>11
        <3> QED
            BY <1>7, <1>11, <3>1
    <2>2. (t \o v)[Len(t) + x - m] = v[x - m]
        <3>1. Len(t) + x - m \in 1 .. Len(t) + k /\ ~ (Len(t) + x - m <= Len(t))
              /\ (Len(t) + x - m) - Len(t) = x - m
            BY <1>1, <1>5, <1>9, <2>1
        <3> QED
            BY <1>8, <3>1
    <2>3. row[x - m] = v[x - m]
        BY <1>2, <1>6, <2>1
    <2> QED
        BY <2>1, <2>2, <2>3, <2>4 DEF h, m, v
<1> QED
    BY <1>10, <1>11

\* The gather behind k of the new tokens is the tail of the text with these.
LEMMA TailMoves ==
    ASSUME NEW p \in Part, NEW t \in Seq(Token), NEW new \in Seq(Token), NEW row,
           StartsWith(row, new), NEW k \in 0 .. Len(new)
    PROVE  SubSeq(LastTokens(p, t) \o row, k + 1, k + PartLength(p))
             = LastTokens(p, t \o SubSeq(new, 1, k))
<1> DEFINE m == PartLength(p)
           u == LastTokens(p, t) \o row
           v == t \o SubSeq(new, 1, k)
<1>1. m \in Nat /\ k \in Nat /\ k <= Len(new) /\ Len(new) \in Nat /\ Len(t) \in Nat
    BY PartsHaveLengths
<1>2. SubSeq(new, 1, k) \in Seq(Token) /\ Len(SubSeq(new, 1, k)) = k
    BY <1>1
<1>3. v \in Seq(Token) /\ Len(v) = Len(t) + k
    BY <1>1, <1>2
<1>4. PICK n \in Nat : /\ row = [o \in 1 .. n |-> row[o]] /\ Len(new) <= n
    BY DEF StartsWith
<1>5. row \in Seq({row[o] : o \in 1 .. n}) /\ Len(row) = n
    BY <1>4, FunctionIsSequence
<1>6. LastTokens(p, t) \in Seq(Word) /\ Len(LastTokens(p, t)) = m
    BY TailIs
<1> DEFINE S == Word \cup {row[o] : o \in 1 .. n}
<1>7. u \in Seq(S) /\ Len(u) = m + n
    <2>1. Word \subseteq S /\ {row[o] : o \in 1 .. n} \subseteq S
        OBVIOUS
    <2> HIDE DEF S
    <2>2. LastTokens(p, t) \in Seq(S) /\ row \in Seq(S)
        BY <1>5, <1>6, <2>1, SequenceOver
    <2> QED
        BY <1>5, <1>6, <2>2, ConcatFacts
<1>8. /\ LastTokens(p, v) \in Seq(Word) /\ Len(LastTokens(p, v)) = m
      /\ \A j \in 1 .. m : LastTokens(p, v)[j] = IF Len(v) + j <= m THEN Filler(p) ELSE v[Len(v) + j - m]
    BY <1>3, TailIs
<1>9. ASSUME NEW x \in 1 .. k + m
      PROVE  u[x] = IF Len(t) + x <= m THEN Filler(p) ELSE v[Len(t) + x - m]
    BY TextAt
<1> HIDE DEF u, v, m, S
<1>10. /\ SubSeq(u, k + 1, k + m) \in Seq(S) /\ Len(SubSeq(u, k + 1, k + m)) = m
       /\ \A j \in 1 .. m : SubSeq(u, k + 1, k + m)[j] = u[k + j]
    <2>1. k + m <= Len(u)
        BY <1>1, <1>4, <1>7
    <2> QED
        BY <1>1, <1>7, <2>1, WindowFacts
<1>11. ASSUME NEW j \in 1 .. m PROVE SubSeq(u, k + 1, k + m)[j] = LastTokens(p, v)[j]
    <2>1. SubSeq(u, k + 1, k + m)[j] = u[k + j]
        BY <1>10
    <2>2. k + j \in 1 .. k + m /\ Len(v) + j = Len(t) + (k + j)
        BY <1>1, <1>3
    <2>3. u[k + j] = IF Len(t) + (k + j) <= m THEN Filler(p) ELSE v[Len(t) + (k + j) - m]
        BY <2>2, <1>9
    <2>4. LastTokens(p, v)[j] = IF Len(v) + j <= m THEN Filler(p) ELSE v[Len(v) + j - m]
        BY <1>8
    <2> QED
        BY <1>1, <1>3, <2>1, <2>2, <2>3, <2>4
<1>12. SubSeq(u, k + 1, k + m) = LastTokens(p, v)
    BY <1>1, <1>8, <1>10, <1>11, SameSequence
<1> QED
    BY <1>12 DEF u, v, m

-----------------------------------------------------------------------------
(* Batches *)

\* Rows of a batch: padded ones carry no token, and a request has at most one.
RowsOf(b) ==
    /\ b \in Seq(Row)
    /\ \A i \in DOMAIN b : b[i].pad => b[i].new = <<>>
    /\ \A i, j \in DOMAIN b : ~b[i].pad /\ ~b[j].pad /\ b[i].req = b[j].req => i = j

\* It is a batch of the requests ids, each with some of its news.
IsBatchOf(b, ids, news) ==
    /\ RowsOf(b)
    /\ \A i \in DOMAIN b : ~b[i].pad => b[i].req \in ids /\ b[i].new \in news[b[i].req]
    /\ \A r \in ids : \E i \in DOMAIN b : ~b[i].pad /\ b[i].req = r

\* A batch has finitely many requests.
LEMMA RequestsAreFinite ==
    ASSUME NEW ids \in SUBSET Request PROVE Cardinality(ids) \in Nat
<1>1. IsFiniteSet(ids)
    BY FS_Subset, PleAssumption
<1> QED
    BY <1>1, FS_CardinalityType

\* Whatever the scheduler lays out is a batch of its requests.
LEMMA BatchesAre ==
    ASSUME NEW ids \in SUBSET Request, NEW news, \A r \in ids : news[r] \subseteq Seq(Token),
           NEW b \in Batches(ids, news)
    PROVE  IsBatchOf(b, ids, news)
<1> DEFINE n == Cardinality(ids)
<1>1. n \in Nat
    BY RequestsAreFinite
<1>2. PICK order \in Orders(ids), pick \in Picks(ids, news), m \in 0 .. MaxPadding :
        b = BatchOf(ids, order, pick, m)
    BY DEF Batches
<1> DEFINE real == [i \in 1 .. n |-> [req |-> order[i], new |-> pick[order[i]], pad |-> FALSE]]
           padded == [i \in 1 .. m |-> PaddedRow]
<1>3. m \in Nat
    BY PleAssumption
<1>4. /\ \A i \in 1 .. n : order[i] \in ids
      /\ \A i, j \in 1 .. n : order[i] = order[j] => i = j
      /\ \A r \in ids : \E i \in 1 .. n : order[i] = r
    BY DEF Orders, Bijection, Injection, Surjection, IsInjective
<1>5. \A r \in ids : pick[r] \in news[r] /\ pick[r] \in Seq(Token)
    BY DEF Picks
<1>6. real \in Seq(Row) /\ Len(real) = n
    <2>1. \A i \in 1 .. n : real[i] \in Row
        BY <1>4, <1>5 DEF Row
    <2>2. real \in [1 .. n -> Row]
        BY <2>1
    <2> HIDE DEF real
    <2> QED
        BY <2>2, <1>1
<1>7. padded \in Seq(Row) /\ Len(padded) = m
    <2>1. PaddedRow \in Row
        BY PleAssumption DEF PaddedRow, Row
    <2>2. padded \in [1 .. m -> Row]
        BY <2>1
    <2> HIDE DEF padded
    <2> QED
        BY <2>2, <1>3
<1>8. /\ \A i \in 1 .. n : /\ real[i].req = order[i] /\ real[i].new = pick[order[i]]
                           /\ real[i].pad = FALSE
      /\ \A i \in 1 .. m : padded[i].pad = TRUE /\ padded[i].new = <<>>
    BY DEF PaddedRow
<1> HIDE DEF real, padded
<1>9. b = real \o padded
    BY <1>2 DEF BatchOf, real, padded, n
<1>10. b \in Seq(Row) /\ Len(b) = n + m /\ DOMAIN b = 1 .. n + m
    <2>1. b \in Seq(Row) /\ Len(b) = n + m
        BY <1>6, <1>7, <1>9, ConcatFacts
    <2> QED
        BY <2>1
<1>11. \A i \in 1 .. n + m : b[i] = IF i <= n THEN real[i] ELSE padded[i - n]
    BY <1>6, <1>7, <1>9, ConcatElements
<1> HIDE DEF n
<1>12. \A i \in 1 .. n : i \in DOMAIN b /\ b[i] = real[i]
    BY <1>1, <1>3, <1>10, <1>11
<1>13. \A i \in DOMAIN b : i \notin 1 .. n => b[i].pad = TRUE /\ b[i].new = <<>>
    <2>1. ASSUME NEW i \in DOMAIN b, i \notin 1 .. n PROVE b[i] = padded[i - n] /\ i - n \in 1 .. m
        BY <1>1, <1>3, <1>10, <1>11, <2>1
    <2> QED
        BY <2>1, <1>8
<1>14. \A i \in 1 .. n : b[i].req = order[i] /\ b[i].new = pick[order[i]] /\ b[i].pad = FALSE
    BY <1>8, <1>12
<1>15. \A i \in DOMAIN b : ~b[i].pad => i \in 1 .. n
    BY <1>13
<1>16. RowsOf(b)
    BY <1>4, <1>10, <1>13, <1>14, <1>15 DEF RowsOf
<1>17. ASSUME NEW i \in DOMAIN b, ~b[i].pad PROVE b[i].req \in ids /\ b[i].new \in news[b[i].req]
    <2>1. i \in 1 .. n
        BY <1>15, <1>17
    <2> QED
        BY <1>4, <1>5, <1>14, <2>1
<1>18. ASSUME NEW r \in ids PROVE \E i \in DOMAIN b : ~b[i].pad /\ b[i].req = r
    <2>1. PICK i \in 1 .. n : order[i] = r
        BY <1>4
    <2> QED
        BY <1>12, <1>14, <2>1
<1> QED
    BY <1>16, <1>17, <1>18 DEF IsBatchOf

\* The types of a batch, row by row.
LEMMA BatchRows ==
    ASSUME NEW b, RowsOf(b)
    PROVE  /\ Len(b) \in Nat /\ DOMAIN b = 1 .. Len(b)
           /\ \A i \in DOMAIN b : /\ b[i].req \in Request /\ b[i].new \in Seq(Token)
                                  /\ b[i].pad \in BOOLEAN /\ Len(b[i].new) \in Nat
           /\ \A i \in DOMAIN b : b[i].pad => b[i].new = <<>>
           /\ \A i, j \in DOMAIN b : ~b[i].pad /\ ~b[j].pad /\ b[i].req = b[j].req => i = j
<1>1. b \in Seq(Row)
    BY DEF RowsOf
<1>2. Len(b) \in Nat /\ DOMAIN b = 1 .. Len(b) /\ \A i \in DOMAIN b : b[i] \in Row
    BY <1>1
<1>3. \A i \in DOMAIN b : /\ b[i].req \in Request /\ b[i].new \in Seq(Token)
                          /\ b[i].pad \in BOOLEAN
    BY <1>2 DEF Row
<1> QED
    BY <1>2, <1>3 DEF RowsOf

\* The row of a request is its one row that is not padded.
LEMMA RowOfIs ==
    ASSUME NEW b, RowsOf(b)
    PROVE  /\ \A r \in InBatch(b) : /\ RowOf(b, r) \in DOMAIN b /\ ~b[RowOf(b, r)].pad
                                    /\ b[RowOf(b, r)].req = r
           /\ \A i \in DOMAIN b : ~b[i].pad => b[i].req \in InBatch(b) /\ RowOf(b, b[i].req) = i
<1>1. ASSUME NEW r \in InBatch(b)
      PROVE  RowOf(b, r) \in DOMAIN b /\ ~b[RowOf(b, r)].pad /\ b[RowOf(b, r)].req = r
    <2>1. \E i \in DOMAIN b : ~b[i].pad /\ b[i].req = r
        BY DEF InBatch
    <2> QED
        BY <2>1 DEF RowOf
<1>2. ASSUME NEW i \in DOMAIN b, ~b[i].pad
      PROVE  b[i].req \in InBatch(b) /\ RowOf(b, b[i].req) = i
    <2>1. b[i].req \in InBatch(b)
        BY <1>2 DEF InBatch
    <2> QED
        BY <1>1, <1>2, <2>1, BatchRows
<1> QED
    BY <1>1, <1>2

\* The requests of a batch are those it was laid out for.
LEMMA InBatchOf ==
    ASSUME NEW b, NEW ids, NEW news, IsBatchOf(b, ids, news)
    PROVE  InBatch(b) = ids
BY DEF IsBatchOf, InBatch

-----------------------------------------------------------------------------
(* Rows *)

\* A row of a fixed stride begins with its tokens.
LEMMA StridedRows ==
    ASSUME NEW b, RowsOf(b), NEW width \in Nat, NEW p, NEW i \in DOMAIN b, Len(b[i].new) <= width
    PROVE  StartsWith(Strided(p, b, width)[i], b[i].new)
<1> DEFINE row == [o \in 1 .. width |-> IF o <= Len(b[i].new) THEN b[i].new[o] ELSE Eos]
<1>1. Strided(p, b, width)[i] = row
    BY DEF Strided
<1>2. Len(b[i].new) \in Nat
    BY BatchRows
<1>3. row = [o \in 1 .. width |-> row[o]]
    OBVIOUS
<1>4. \A o \in 1 .. Len(b[i].new) : row[o] = b[i].new[o]
    BY <1>2
<1> HIDE DEF row
<1> QED
    BY <1>1, <1>3, <1>4 DEF StartsWith

Lengths(b) == [i \in 1 .. Len(b) |-> Len(b[i].new)]

\* query_start_loc is the running sum of the rows' lengths.
LEMMA StartLocSums ==
    ASSUME NEW b, RowsOf(b)
    PROVE  Lengths(b) \in [1 .. Len(b) -> Nat] /\ SumsOf(StartLoc(b), Len(b), Lengths(b))
<1> DEFINE IsLoc(f) ==
        f = [i \in 0 .. Len(b) |-> IF i = 0 THEN 0 ELSE f[i - 1] + Len(b[i].new)]
<1>1. Lengths(b) \in [1 .. Len(b) -> Nat] /\ Len(b) \in Nat
    BY BatchRows DEF Lengths
<1>2. \E f : IsLoc(f)
    <2>1. PICK f : f = [i \in 0 .. Len(b) |-> IF i = 0 THEN 0 ELSE f[i - 1] + Lengths(b)[i]]
        BY <1>1, SumsExist
    <2>2. \A i \in 0 .. Len(b) : i # 0 => Lengths(b)[i] = Len(b[i].new)
        BY <1>1 DEF Lengths
    <2>3. IsLoc(f)
        BY <2>1, <2>2
    <2> QED
        BY <2>3
<1>3. StartLoc(b) = CHOOSE f : IsLoc(f)
    BY DEF StartLoc
<1>4. IsLoc(StartLoc(b))
    <2> HIDE DEF IsLoc
    <2> QED
        BY <1>2, <1>3
<1> HIDE DEF IsLoc
<1>5. \A f : IsLoc(f) => /\ f[0] = 0
                         /\ \A i \in 1 .. Len(b) : f[i] = f[i - 1] + Len(b[i].new)
    BY <1>1 DEF IsLoc
<1> QED
    BY <1>1, <1>4, <1>5 DEF SumsOf, Lengths

\* The starts are numbers, grow along the batch, and a row ends where the next starts.
LEMMA StartsGrow ==
    ASSUME NEW b, RowsOf(b)
    PROVE  /\ \A i \in 0 .. Len(b) : StartLoc(b)[i] \in Nat
           /\ \A i, j \in 0 .. Len(b) : i <= j => StartLoc(b)[i] <= StartLoc(b)[j]
           /\ \A i \in 1 .. Len(b) : StartLoc(b)[i] = StartLoc(b)[i - 1] + Len(b[i].new)
<1>1. Len(b) \in Nat
    BY BatchRows
<1>2. \A i \in 1 .. Len(b) : Lengths(b)[i] = Len(b[i].new)
    BY DEF Lengths
<1>3. \A i \in 1 .. Len(b) : StartLoc(b)[i] = StartLoc(b)[i - 1] + Len(b[i].new)
    BY <1>2, StartLocSums DEF SumsOf
<1> QED
    BY <1>1, <1>3, StartLocSums, SumsGrow

\* Where a row's tokens are packed, and that the search finds their row: empty rows
\* share a start with the next one and take none.
LEMMA TokensFindTheirRow ==
    ASSUME NEW b, RowsOf(b), NEW i \in DOMAIN b, NEW o \in 1 .. Len(b[i].new)
    PROVE  /\ RowStart(b, i) + o \in DOMAIN Packed(b)
           /\ Packed(b)[RowStart(b, i) + o] = b[i].new[o]
           /\ RowOfToken(b, RowStart(b, i) + o) = i
<1> DEFINE loc == StartLoc(b)
           t == loc[i - 1] + o
           InBlock(j) == loc[j - 1] < t /\ t <= loc[j]
<1>1. /\ Len(b) \in Nat /\ DOMAIN b = 1 .. Len(b) /\ i \in 1 .. Len(b)
      /\ Len(b[i].new) \in Nat /\ o \in Nat /\ 1 <= o /\ o <= Len(b[i].new)
    BY BatchRows
<1>2. /\ \A j \in 0 .. Len(b) : loc[j] \in Nat
      /\ \A j, k \in 0 .. Len(b) : j <= k => loc[j] <= loc[k]
      /\ \A j \in 1 .. Len(b) : loc[j] = loc[j - 1] + Len(b[j].new)
    BY StartsGrow
<1>3. Packed(b) = [x \in 1 .. loc[Len(b)] |->
                    LET j == CHOOSE j \in DOMAIN b : loc[j - 1] < x /\ x <= loc[j]
                    IN  b[j].new[x - loc[j - 1]]]
    BY DEF Packed
<1>4. RowStart(b, i) + o = t
    BY DEF RowStart
<1> HIDE DEF loc
<1>5. /\ i - 1 \in 0 .. Len(b) /\ i \in 0 .. Len(b) /\ Len(b) \in 0 .. Len(b)
      /\ loc[i - 1] \in Nat /\ loc[i] = loc[i - 1] + Len(b[i].new) /\ loc[i] <= loc[Len(b)]
      /\ loc[Len(b)] \in Nat
    <2>1. i - 1 \in 0 .. Len(b) /\ i \in 0 .. Len(b) /\ Len(b) \in 0 .. Len(b) /\ i <= Len(b)
        BY <1>1
    <2> QED
        BY <1>1, <1>2, <2>1
<1>6. t \in 1 .. loc[Len(b)] /\ InBlock(i) /\ t - loc[i - 1] = o
    BY <1>1, <1>5
<1>7. \A j \in DOMAIN b : InBlock(j) => j = i
    <2>1. t \in 1 .. StartLoc(b)[Len(b)]
        BY <1>6 DEF loc
    <2> QED
        BY <1>1, <1>6, <2>1, StartLocSums, OneBlock DEF loc
<1>8. (CHOOSE j \in DOMAIN b : InBlock(j)) = i
    <2> HIDE DEF InBlock
    <2> QED
        BY <1>6, <1>7
<1>9. Packed(b)[t] = b[i].new[t - loc[i - 1]] /\ t \in DOMAIN Packed(b)
    <2>1. Packed(b)[t] = LET j == CHOOSE j \in DOMAIN b : InBlock(j) IN b[j].new[t - loc[j - 1]]
        BY <1>3, <1>6
    <2>2. t \in DOMAIN Packed(b)
        BY <1>3, <1>6
    <2> HIDE DEF InBlock, t
    <2> QED
        BY <1>8, <2>1, <2>2
<1>10. RowOfToken(b, t) = i
    <2>1. ASSUME NEW j \in 1 .. Len(b) PROVE RowStart(b, j) <= t - 1 <=> j <= i
        <3>1. /\ RowStart(b, j) = loc[j - 1] /\ j - 1 \in 0 .. Len(b) /\ loc[j - 1] \in Nat
              /\ (j <= i => j - 1 <= i - 1) /\ (~ (j <= i) => i <= j - 1)
            BY <1>1, <1>2 DEF RowStart, loc
        <3>2. CASE j <= i
            <4>1. loc[j - 1] <= loc[i - 1]
                BY <1>2, <1>5, <3>1, <3>2
            <4> QED
                BY <1>1, <1>5, <3>1, <3>2, <4>1
        <3>3. CASE ~ (j <= i)
            <4>1. loc[i] <= loc[j - 1]
                BY <1>2, <1>5, <3>1, <3>3
            <4> QED
                BY <1>1, <1>5, <3>1, <3>3, <4>1
        <3> QED
            BY <3>2, <3>3
    <2>2. {j \in DOMAIN b : RowStart(b, j) <= t - 1} = 1 .. i
        <3> HIDE DEF t
        <3> QED
            BY <1>1, <2>1
    <2>3. Cardinality(1 .. i) = i
        BY <1>1, FS_Interval
    <2> QED
        BY <2>2, <2>3 DEF RowOfToken
<1> QED
    BY <1>4, <1>6, <1>9, <1>10

\* The width of a batch is that of its longest row.
LEMMA WidthHolds ==
    ASSUME NEW b, RowsOf(b), NEW i \in DOMAIN b
    PROVE  Width(b) \in Nat /\ Len(b[i].new) <= Width(b)
<1> DEFINE M == StartLoc(b)[Len(b)]
           S == {M - Len(b[j].new) : j \in DOMAIN b}
<1>1. Len(b) \in Nat /\ DOMAIN b = 1 .. Len(b) /\ \A j \in DOMAIN b : Len(b[j].new) \in Nat
    BY BatchRows
<1>2. M \in Nat
    BY <1>1, StartsGrow
<1>3. ASSUME NEW j \in DOMAIN b PROVE Len(b[j].new) <= M
    <2>1. /\ j \in 0 .. Len(b) /\ j - 1 \in 0 .. Len(b) /\ Len(b) \in 0 .. Len(b) /\ j <= Len(b)
          /\ j \in 1 .. Len(b)
        BY <1>1
    <2>2. /\ StartLoc(b)[j - 1] \in Nat /\ StartLoc(b)[j] \in Nat
          /\ StartLoc(b)[j] = StartLoc(b)[j - 1] + Len(b[j].new)
          /\ StartLoc(b)[j] <= M
        BY <2>1, StartsGrow
    <2> HIDE DEF M
    <2> QED
        BY <1>1, <1>2, <2>2
<1> HIDE DEF M
<1>4. S \in SUBSET Nat /\ S # {}
    BY <1>1, <1>2, <1>3
<1>5. PICK x \in S : \A y \in S : x <= y
    BY <1>4, LeastNat
<1>6. PICK longest \in DOMAIN b : x = M - Len(b[longest].new)
    BY <1>5
<1>7. ASSUME NEW j \in DOMAIN b PROVE Len(b[j].new) <= Len(b[longest].new)
    <2>1. M - Len(b[longest].new) <= M - Len(b[j].new)
        BY <1>5, <1>6
    <2>2. Len(b[j].new) \in Nat /\ Len(b[longest].new) \in Nat
        BY <1>1
    <2> QED
        BY <1>2, <2>1, <2>2
<1>8. \E l \in DOMAIN b : \A j \in DOMAIN b : Len(b[j].new) <= Len(b[l].new)
    BY <1>7
<1>9. PICK l \in DOMAIN b : /\ \A j \in DOMAIN b : Len(b[j].new) <= Len(b[l].new)
                           /\ Width(b) = Len(b[l].new)
    BY <1>8 DEF Width
<1> QED
    BY <1>1, <1>9

\* An unpacked row begins with its tokens.
LEMMA UnpackedRows ==
    ASSUME NEW b, RowsOf(b), NEW p, NEW i \in DOMAIN b
    PROVE  StartsWith(Unpacked(p, b)[i], b[i].new)
<1> DEFINE found == [t \in DOMAIN Packed(b) |-> RowOfToken(b, t)]
           row == [o \in 1 .. Width(b) |->
                    IF RowStart(b, i) + o \in DOMAIN found /\ found[RowStart(b, i) + o] = i
                    THEN Packed(b)[RowStart(b, i) + o] ELSE Filler(p)]
<1>1. Unpacked(p, b)[i] = row
    BY DEF Unpacked
<1>2. Width(b) \in Nat /\ Len(b[i].new) <= Width(b) /\ Len(b[i].new) \in Nat
    BY WidthHolds, BatchRows
<1>3. row = [o \in 1 .. Width(b) |-> row[o]]
    OBVIOUS
<1>4. ASSUME NEW o \in 1 .. Len(b[i].new) PROVE row[o] = b[i].new[o]
    <2>1. o \in 1 .. Width(b)
        BY <1>2
    <2> DEFINE t == RowStart(b, i) + o
    <2>2. t \in DOMAIN Packed(b) /\ Packed(b)[t] = b[i].new[o] /\ RowOfToken(b, t) = i
        BY TokensFindTheirRow
    <2>3. t \in DOMAIN found /\ found[t] = i
        <3> HIDE DEF t
        <3> QED
            BY <2>2
    <2>4. row[o] = IF t \in DOMAIN found /\ found[t] = i THEN Packed(b)[t] ELSE Filler(p)
        BY <2>1
    <2> HIDE DEF t, found, row
    <2> QED
        BY <2>2, <2>3, <2>4
<1> HIDE DEF row
<1> QED
    BY <1>1, <1>2, <1>3, <1>4 DEF StartsWith

-----------------------------------------------------------------------------
(* What a forward commits *)

\* No two live requests and no request and the tree share a slot.
Apart ==
    /\ \A r \in Live : work[r] \in Slot /\ spare[r] \in Slot /\ work[r] # spare[r]
    /\ \A r, q \in Live : r # q => work[r] # work[q] /\ spare[r] # spare[q] /\ work[r] # spare[q]
    /\ \A r \in Live, c \in DOMAIN tree : tree[c] # work[r] /\ tree[c] # spare[r]

\* A snapshot is not ahead of its request; who left has none.
Counted ==
    \A r \in Request : tracked[r] <= Len(text[r]) /\ (tracked[r] > 0 => r \in Live)

\* A boundary is a number of tokens that the text has.
LEMMA BoundaryIs ==
    ASSUME NEW n \in Nat
    PROVE  Boundary(n) \in Nat /\ Boundary(n) <= n
<1>1. Interval \in Nat \ {0}
    BY PleAssumption
<1>2. n \div Interval \in Nat
    BY <1>1, DivNat
<1>3. n = Interval * (n \div Interval) + (n % Interval) /\ n % Interval \in 0 .. Interval - 1
    BY <1>1, DivMod
<1> DEFINE q == n \div Interval
<1> HIDE DEF q
<1>4. q * Interval \in Nat /\ q * Interval = Interval * q
    BY <1>1, <1>2 DEF q
<1>5. Boundary(n) = q * Interval
    BY DEF Boundary, q
<1> QED
    BY <1>3, <1>4, <1>5 DEF q

\* A tracked row reaches its boundary after that many of its tokens.
LEMMA TrackedWithin ==
    ASSUME TypeOK, NEW b, RowsOf(b), NEW i \in DOMAIN b, Tracked(b, i),
           phase[b[i].req] = "decode" => Len(b[i].new) = 1
    PROVE  /\ TrackOffset(b, i) \in 0 .. Len(b[i].new)
           /\ Boundary(NewLength(b, i)) = Len(text[b[i].req]) + TrackOffset(b, i)
           /\ Boundary(NewLength(b, i)) \in Nat
<1> DEFINE r == b[i].req
           n == Len(b[i].new)
           l == Len(text[r])
<1>1. r \in Request /\ b[i].new \in Seq(Token) /\ n \in Nat
    BY BatchRows
<1>2. text[r] \in Seq(Token) /\ l \in Nat
    BY <1>1 DEF TypeOK
<1>3. NewLength(b, i) = l + n
    BY DEF NewLength
<1> DEFINE z == Boundary(l + n)
<1>4. z \in Nat /\ z <= l + n /\ z > l
    <2> HIDE DEF l, n
    <2>1. PICK m \in Nat : m = l + n
        BY <1>1, <1>2
    <2>2. z \in Nat /\ z <= l + n
        BY <2>1, BoundaryIs
    <2> QED
        BY <1>3, <2>2 DEF Tracked, l
<1>8. Boundary(NewLength(b, i)) = z
    BY <1>3
<1>5. TrackOffset(b, i) = CASE phase[r] = "decode" -> n
                            [] phase[r] # "decode" /\ z - l < 0 -> 0
                            [] OTHER -> IF z - l < n THEN z - l ELSE n
    BY <1>3 DEF TrackOffset
<1> HIDE DEF z, l, n
<1>6. CASE phase[r] = "decode"
    <2>1. n = 1
        BY <1>6 DEF n
    <2>2. TrackOffset(b, i) = n
        BY <1>5, <1>6
    <2>3. z = l + n /\ n \in 0 .. n
        BY <1>2, <1>4, <2>1
    <2> QED
        BY <1>4, <1>8, <2>2, <2>3 DEF l, n
<1>7. CASE phase[r] # "decode"
    <2>1. TrackOffset(b, i) = IF z - l < n THEN z - l ELSE n
        BY <1>1, <1>2, <1>4, <1>5, <1>7
    <2>2. TrackOffset(b, i) = z - l /\ z - l \in 0 .. n
        BY <1>1, <1>2, <1>4, <2>1
    <2>3. z = l + (z - l)
        BY <1>2, <1>4
    <2> QED
        BY <1>4, <1>8, <2>2, <2>3 DEF l, n
<1> QED
    BY <1>6, <1>7

\* The state of a row behind k of its tokens is the tail of the request's text there.
LEMMA AfterIsTail ==
    ASSUME TypeOK, HistoryIsOwnTail, Apart, NEW b, RowsOf(b), NEW p \in Part,
           NEW i \in DOMAIN b, ~b[i].pad, b[i].req \in Live, NEW rows,
           StartsWith(rows[i], b[i].new), NEW k \in 0 .. Len(b[i].new)
    PROVE  After(p, rows, b, i, k) = LastTokens(p, text[b[i].req] \o SubSeq(b[i].new, 1, k))
<1> DEFINE r == b[i].req
<1>1. r \in Request /\ b[i].new \in Seq(Token)
    BY BatchRows
<1>2. text[r] \in Seq(Token) /\ work[r] \in Slot
    BY <1>1 DEF TypeOK, Apart
<1>3. History(p, StateIndex(b, i)) = LastTokens(p, text[r])
    <2>1. StateIndex(b, i) = work[r]
        BY DEF StateIndex
    <2> QED
        BY <1>2, <2>1 DEF History, HistoryIsOwnTail
<1>4. PICK t \in Seq(Token), new \in Seq(Token), row \in {rows[i]} :
        t = text[r] /\ new = b[i].new /\ row = rows[i]
    BY <1>1, <1>2
<1>5. SubSeq(LastTokens(p, t) \o row, k + 1, k + PartLength(p)) = LastTokens(p, t \o SubSeq(new, 1, k))
    <2>1. StartsWith(row, new) /\ k \in 0 .. Len(new)
        BY <1>4
    <2> QED
        BY <2>1, TailMoves
<1>6. After(p, rows, b, i, k) = SubSeq(History(p, StateIndex(b, i)) \o rows[i], k + 1, k + PartLength(p))
    BY DEF After
<1> QED
    BY <1>3, <1>4, <1>5, <1>6

\* The rows of a forward that commits at once: of live requests, each row beginning with
\* its tokens, a decoding request with one.
Fits(b, rows) ==
    /\ RowsOf(b)
    /\ \A i \in DOMAIN b : ~b[i].pad =>
        /\ b[i].req \in Live
        /\ \A p \in Part : StartsWith(rows[p][i], b[i].new)
        /\ phase[b[i].req] = "decode" => Len(b[i].new) = 1

\* Of the slots a forward names, each belongs to one row.
LEMMA SlotsOfRows ==
    ASSUME Apart, NEW b, NEW rows, Fits(b, rows), NEW i \in DOMAIN b
    PROVE  /\ StateIndex(b, i) \in Slot => ~b[i].pad
           /\ ~b[i].pad => StateIndex(b, i) = work[b[i].req] /\ work[b[i].req] \in Slot
           /\ TrackSlot(b, i) \in Slot => Tracked(b, i)
           /\ Tracked(b, i) => /\ ~b[i].pad /\ TrackSlot(b, i) = spare[b[i].req]
                               /\ spare[b[i].req] \in Slot
           /\ \A j \in DOMAIN b :
                /\ StateIndex(b, i) \in Slot /\ StateIndex(b, i) = StateIndex(b, j) => i = j
                /\ TrackSlot(b, i) \in Slot /\ TrackSlot(b, i) = TrackSlot(b, j) => i = j
                /\ TrackSlot(b, i) \in Slot => TrackSlot(b, i) # StateIndex(b, j)
<1>1. ASSUME NEW j \in DOMAIN b
      PROVE  /\ StateIndex(b, j) \in Slot => ~b[j].pad
             /\ ~b[j].pad => StateIndex(b, j) = work[b[j].req] /\ work[b[j].req] \in Slot
                             /\ spare[b[j].req] \in Slot /\ b[j].req \in Live
             /\ TrackSlot(b, j) \in Slot => Tracked(b, j)
             /\ Tracked(b, j) => ~b[j].pad /\ TrackSlot(b, j) = spare[b[j].req]
    BY PleAssumption DEF Fits, StateIndex, TrackSlot, Tracked, Apart
<1>2. \A j, k \in DOMAIN b : ~b[j].pad /\ ~b[k].pad /\ b[j].req = b[k].req => j = k
    BY DEF Fits, RowsOf
<1>3. ASSUME NEW j \in DOMAIN b
      PROVE  /\ StateIndex(b, i) \in Slot /\ StateIndex(b, i) = StateIndex(b, j) => i = j
             /\ TrackSlot(b, i) \in Slot /\ TrackSlot(b, i) = TrackSlot(b, j) => i = j
             /\ TrackSlot(b, i) \in Slot => TrackSlot(b, i) # StateIndex(b, j)
    <2>1. /\ \A r, q \in Live : work[r] = work[q] => r = q
          /\ \A r, q \in Live : spare[r] = spare[q] => r = q
          /\ \A r, q \in Live : spare[r] # work[q]
        BY DEF Apart
    <2> QED
        BY <1>1, <1>2, <2>1
<1> QED
    BY <1>1, <1>3

\* What a forward leaves in a working slot, in a tracked slot and in the others.
LEMMA CommittedIs ==
    ASSUME TypeOK, HistoryIsOwnTail, Apart, NEW b, NEW rows, Fits(b, rows), NEW p \in Part
    PROVE  /\ \A i \in DOMAIN b : ~b[i].pad =>
                Committed(p, rows[p], b)[work[b[i].req]] = LastTokens(p, text[b[i].req] \o b[i].new)
           /\ \A i \in DOMAIN b : Tracked(b, i) =>
                Committed(p, rows[p], b)[spare[b[i].req]]
                  = LastTokens(p, text[b[i].req] \o SubSeq(b[i].new, 1, TrackOffset(b, i)))
           /\ \A s \in Slot :
                (\A i \in DOMAIN b : ~b[i].pad => s # work[b[i].req] /\ (Tracked(b, i) => s # spare[b[i].req]))
                => Committed(p, rows[p], b)[s] = hist[p][s]
<1> DEFINE Result(s) ==
        IF \E i \in DOMAIN b : TrackSlot(b, i) = s
        THEN LET i == CHOOSE j \in DOMAIN b : TrackSlot(b, j) = s
             IN  After(p, rows[p], b, i, TrackOffset(b, i))
        ELSE IF \E i \in DOMAIN b : StateIndex(b, i) = s
        THEN LET i == CHOOSE j \in DOMAIN b : StateIndex(b, j) = s /\
                        \A l \in DOMAIN b : StateIndex(b, l) = s => l <= j
             IN  After(p, rows[p], b, i, Len(b[i].new))
        ELSE hist[p][s]
<1>1. \A s \in Slot : Committed(p, rows[p], b)[s] = Result(s)
    BY DEF Committed
<1>2. RowsOf(b)
    BY DEF Fits
<1>3. /\ DOMAIN b = 1 .. Len(b) /\ Len(b) \in Nat
      /\ \A i \in DOMAIN b : b[i].new \in Seq(Token) /\ Len(b[i].new) \in Nat
    BY <1>2, BatchRows
<1>4. ASSUME NEW i \in DOMAIN b, ~b[i].pad
      PROVE  Result(work[b[i].req]) = LastTokens(p, text[b[i].req] \o b[i].new)
    <2> DEFINE s == work[b[i].req]
    <2>1. s \in Slot /\ StateIndex(b, i) = s
        BY <1>4, SlotsOfRows
    <2>2. \A j \in DOMAIN b : TrackSlot(b, j) # s
        BY <2>1, SlotsOfRows
    <2>3. \A j \in DOMAIN b : StateIndex(b, j) = s => j = i
        BY <2>1, SlotsOfRows
    <2>4. i <= i
        BY <1>3
    <2> DEFINE Last(j) == StateIndex(b, j) = s /\ \A l \in DOMAIN b : StateIndex(b, l) = s => l <= j
    <2>5. Last(i) /\ \A j \in DOMAIN b : Last(j) => j = i
        BY <2>1, <2>3, <2>4
    <2>6. Result(s) = LET l == CHOOSE j \in DOMAIN b : Last(j) IN After(p, rows[p], b, l, Len(b[l].new))
        BY <2>1, <2>2
    <2>7. (CHOOSE j \in DOMAIN b : Last(j)) = i
        <3> HIDE DEF Last
        <3> QED
            BY <2>5
    <2> HIDE DEF Last, Result
    <2>8. Result(s) = After(p, rows[p], b, i, Len(b[i].new))
        BY <2>6, <2>7
    <2>9. After(p, rows[p], b, i, Len(b[i].new)) = LastTokens(p, text[b[i].req] \o SubSeq(b[i].new, 1, Len(b[i].new)))
        <3>1. b[i].req \in Live /\ StartsWith(rows[p][i], b[i].new)
            BY <1>4 DEF Fits
        <3>2. PICK k \in 0 .. Len(b[i].new) : k = Len(b[i].new)
            BY <1>3
        <3>3. PICK w : w = rows[p]
            OBVIOUS
        <3>4. After(p, w, b, i, k) = LastTokens(p, text[b[i].req] \o SubSeq(b[i].new, 1, k))
            BY <1>2, <1>4, <3>1, <3>3, AfterIsTail
        <3> QED
            BY <3>2, <3>3, <3>4
    <2>10. SubSeq(b[i].new, 1, Len(b[i].new)) = b[i].new
        BY <1>3
    <2> QED
        BY <2>8, <2>9, <2>10
<1>5. ASSUME NEW i \in DOMAIN b, Tracked(b, i)
      PROVE  Result(spare[b[i].req]) = LastTokens(p, text[b[i].req] \o SubSeq(b[i].new, 1, TrackOffset(b, i)))
    <2> DEFINE s == spare[b[i].req]
    <2>1. s \in Slot /\ TrackSlot(b, i) = s /\ ~b[i].pad
        BY <1>5, SlotsOfRows
    <2>2. \A j \in DOMAIN b : TrackSlot(b, j) = s => j = i
        BY <2>1, SlotsOfRows
    <2>3. Result(s) = LET l == CHOOSE j \in DOMAIN b : TrackSlot(b, j) = s
                      IN  After(p, rows[p], b, l, TrackOffset(b, l))
        BY <2>1
    <2>4. (CHOOSE j \in DOMAIN b : TrackSlot(b, j) = s) = i
        BY <2>1, <2>2
    <2> HIDE DEF Result
    <2>5. Result(s) = After(p, rows[p], b, i, TrackOffset(b, i))
        BY <2>3, <2>4
    <2>6. After(p, rows[p], b, i, TrackOffset(b, i))
            = LastTokens(p, text[b[i].req] \o SubSeq(b[i].new, 1, TrackOffset(b, i)))
        <3>1. /\ b[i].req \in Live /\ StartsWith(rows[p][i], b[i].new)
              /\ phase[b[i].req] = "decode" => Len(b[i].new) = 1
            BY <2>1 DEF Fits
        <3>2. PICK k \in 0 .. Len(b[i].new) : k = TrackOffset(b, i)
            BY <1>2, <1>5, <3>1, TrackedWithin
        <3>3. PICK w : w = rows[p]
            OBVIOUS
        <3>4. After(p, w, b, i, k) = LastTokens(p, text[b[i].req] \o SubSeq(b[i].new, 1, k))
            BY <1>2, <2>1, <3>1, <3>3, AfterIsTail
        <3> QED
            BY <3>2, <3>3, <3>4
    <2> QED
        BY <2>5, <2>6
<1>6. ASSUME NEW s \in Slot,
             \A i \in DOMAIN b : ~b[i].pad => s # work[b[i].req] /\ (Tracked(b, i) => s # spare[b[i].req])
      PROVE  Result(s) = hist[p][s]
    <2>1. \A i \in DOMAIN b : TrackSlot(b, i) # s
        BY <1>6, SlotsOfRows
    <2>2. \A i \in DOMAIN b : StateIndex(b, i) # s
        BY <1>6, SlotsOfRows
    <2> QED
        BY <2>1, <2>2
<1>7. \A i \in DOMAIN b : /\ ~b[i].pad => work[b[i].req] \in Slot
                          /\ Tracked(b, i) => spare[b[i].req] \in Slot
    BY SlotsOfRows
<1> HIDE DEF Result
<1> QED
    BY <1>1, <1>4, <1>5, <1>6, <1>7

-----------------------------------------------------------------------------
(* The invariant *)

\* A verify forward whose verdict is pending: its rows are of decoding requests, none has
\* more tokens than the window.
Awaited ==
    inflight # <<>> =>
        /\ mtp /\ RowsOf(inflight)
        /\ \A i \in DOMAIN inflight : ~inflight[i].pad =>
            /\ inflight[i].req \in Live /\ phase[inflight[i].req] = "decode"
            /\ Len(inflight[i].new) \in 1 .. DraftTokens

Slots == Apart /\ Counted /\ Awaited
Tails == HistoryIsOwnTail /\ SnapshotIsBoundary /\ TreeServesTails /\ StepsAreTails

PleInv == TypeOK /\ Slots /\ Tails

\* An empty server satisfies the invariant.
LEMMA PleInvAtFirst == Init => PleInv
<1> SUFFICES ASSUME Init PROVE PleInv
    OBVIOUS
<1>1. Live = {} /\ DOMAIN tree = {} /\ inflight = <<>> /\ inter = <<>>
    BY DEF Init, Live
<1>2. ASSUME NEW p \in Part PROVE Blank(p) \in Seq(Word) /\ Len(Blank(p)) = PartLength(p)
    BY PartsHaveLengths DEF Blank
<1>3. TypeOK
    <2>1. hist \in [Part -> [Slot -> Seq(Word)]] /\ \A p \in Part, s \in Slot : Len(hist[p][s]) = PartLength(p)
        BY <1>2 DEF Init
    <2> QED
        BY <1>1, <2>1 DEF Init, TypeOK, Word
<1>4. Slots
    BY <1>1 DEF Init, Slots, Apart, Counted, Awaited
<1>5. Tails
    BY <1>1 DEF Tails, HistoryIsOwnTail, SnapshotIsBoundary, TreeServesTails, StepsAreTails
<1> QED
    BY <1>3, <1>4, <1>5 DEF PleInv

\* The requests of A grow, each by tokens of its own; those that passed a boundary are
\* tracked there.
Grows(A, add, off, passed) ==
    /\ add \in [A -> Seq(Token)] /\ off \in [A -> Nat] /\ \A r \in A : off[r] <= Len(add[r])
    /\ text' = [r \in Request |-> IF r \in A THEN text[r] \o add[r] ELSE text[r]]
    /\ tracked' = [r \in Request |-> IF r \in passed THEN Len(text[r]) + off[r] ELSE tracked[r]]

\* Their working slots hold the tail of the grown text, the track slots of those that
\* passed a boundary the tail up to there, and no other slot changed.
Held(A, add, off, passed) ==
    /\ hist' = [p \in Part |-> [s \in Slot |-> hist'[p][s]]]
    /\ \A p \in Part, r \in A : hist'[p][work[r]] = LastTokens(p, text[r] \o add[r])
    /\ \A p \in Part, r \in passed :
            hist'[p][spare[r]] = LastTokens(p, text[r] \o SubSeq(add[r], 1, off[r]))
    /\ \A p \in Part, s \in Slot :
            (\A r \in A : s # work[r]) /\ (\A r \in passed : s # spare[r]) => hist'[p][s] = hist[p][s]

\* Nothing else changes, and no forward is left without its verdict.
Rests ==
    /\ UNCHANGED <<mtp, work, spare, tree>>
    /\ inflight' = <<>> /\ DOMAIN inter' = DOMAIN inflight'
    /\ phase' \in [Request -> {"free", "prefill", "decode"}] /\ Live' = Live

\* Then every state is its own tail again.
LEMMA GrowthKeeps ==
    ASSUME PleInv, NEW A \in SUBSET Live, NEW add, NEW off, NEW passed \in SUBSET A,
           Grows(A, add, off, passed), Held(A, add, off, passed), Rests
    PROVE  PleInv'
<1>1. TypeOK /\ Apart /\ Counted /\ Tails
    BY DEF PleInv, Slots
<1>2. A \subseteq Request /\ passed \subseteq A /\ Live \subseteq Request
    BY DEF Live
<1>3. ASSUME NEW r \in A
      PROVE  /\ text'[r] = text[r] \o add[r] /\ text'[r] \in Seq(Token)
             /\ Len(text'[r]) = Len(text[r]) + Len(add[r])
             /\ SubSeq(text'[r], 1, Len(text[r]) + off[r]) = text[r] \o SubSeq(add[r], 1, off[r])
             /\ SubSeq(text'[r], 1, tracked[r]) = SubSeq(text[r], 1, tracked[r])
             /\ Len(text[r]) \in Nat /\ Len(add[r]) \in Nat /\ off[r] \in Nat /\ off[r] <= Len(add[r])
             /\ tracked[r] \in Nat /\ tracked[r] <= Len(text[r])
    <2>1. /\ text[r] \in Seq(Token) /\ add[r] \in Seq(Token) /\ off[r] \in Nat /\ off[r] <= Len(add[r])
          /\ tracked[r] \in Nat /\ tracked[r] <= Len(text[r])
        BY <1>1, <1>2 DEF TypeOK, Counted, Grows
    <2>2. PICK t \in Seq(Token), new \in Seq(Token) : t = text[r] /\ new = add[r]
        BY <2>1
    <2>3. PICK k \in 0 .. Len(new) : k = off[r]
        BY <2>1, <2>2
    <2>4. PICK n \in 0 .. Len(t) : n = tracked[r]
        BY <2>1, <2>2
    <2>5. text'[r] = t \o new
        BY <1>2, <2>2 DEF Grows
    <2>6. t \o new \in Seq(Token) /\ Len(t \o new) = Len(t) + Len(new)
        BY ConcatFacts
    <2>7. t \o SubSeq(new, 1, k) = SubSeq(t \o new, 1, Len(t) + k)
        BY ConcatPrefix
    <2>8. SubSeq(t \o new, 1, n) = SubSeq(t, 1, n)
        BY PrefixOfConcat
    <2>9. /\ text'[r] = text[r] \o add[r] /\ text'[r] \in Seq(Token)
          /\ Len(text'[r]) = Len(text[r]) + Len(add[r])
        BY <2>2, <2>5, <2>6
    <2>10. SubSeq(text'[r], 1, Len(text[r]) + off[r]) = text[r] \o SubSeq(add[r], 1, off[r])
        BY <2>2, <2>3, <2>5, <2>7
    <2>11. SubSeq(text'[r], 1, tracked[r]) = SubSeq(text[r], 1, tracked[r])
        BY <2>2, <2>4, <2>5, <2>8
    <2>12. Len(text[r]) \in Nat /\ Len(add[r]) \in Nat
        BY <2>1
    <2> QED
        BY <2>1, <2>9, <2>10, <2>11, <2>12
<1>4. ASSUME NEW r \in Request, r \notin A
      PROVE  text'[r] = text[r] /\ tracked'[r] = tracked[r]
    BY <1>2, <1>4 DEF Grows
<1>5. ASSUME NEW r \in Request
      PROVE  tracked'[r] = IF r \in passed THEN Len(text[r]) + off[r] ELSE tracked[r]
    BY DEF Grows
<1>14. /\ \A p \in Part, r \in A : hist'[p][work[r]] = LastTokens(p, text[r] \o add[r])
       /\ \A p \in Part, r \in passed :
            hist'[p][spare[r]] = LastTokens(p, text[r] \o SubSeq(add[r], 1, off[r]))
    BY DEF Held
<1>15. ASSUME NEW p \in Part, NEW s \in Slot, \A r \in A : s # work[r], \A r \in passed : s # spare[r]
       PROVE  hist'[p][s] = hist[p][s]
    BY <1>15 DEF Held
<1>6. ASSUME NEW p \in Part, NEW r \in Live PROVE hist'[p][work[r]] = LastTokens(p, text'[r])
    <2>1. CASE r \in A
        BY <1>3, <1>14, <2>1
    <2>2. CASE r \notin A
        <3>1. r \in Request /\ work[r] \in Slot
            BY <1>1, <1>2 DEF Apart
        <3>2. (\A q \in A : work[r] # work[q]) /\ (\A q \in passed : work[r] # spare[q])
            BY <1>1, <2>2 DEF Apart
        <3>3. hist'[p][work[r]] = hist[p][work[r]]
            BY <1>15, <3>1, <3>2
        <3> QED
            BY <1>1, <1>4, <2>2, <3>1, <3>3 DEF Tails, HistoryIsOwnTail
    <2> QED
        BY <2>1, <2>2
<1>7. ASSUME NEW p \in Part, NEW r \in Live, tracked'[r] > 0
      PROVE  hist'[p][spare[r]] = LastTokens(p, SubSeq(text'[r], 1, tracked'[r]))
    <2>1. r \in Request /\ spare[r] \in Slot
        BY <1>1, <1>2 DEF Apart
    <2>2. CASE r \in passed
        <3>1. /\ tracked'[r] = Len(text[r]) + off[r]
              /\ SubSeq(text'[r], 1, Len(text[r]) + off[r]) = text[r] \o SubSeq(add[r], 1, off[r])
            BY <1>2, <1>3, <1>5, <2>1, <2>2
        <3> QED
            BY <1>14, <2>2, <3>1
    <2>3. CASE r \notin passed
        <3>1. (\A q \in A : spare[r] # work[q]) /\ (\A q \in passed : spare[r] # spare[q])
            BY <1>1, <2>3 DEF Apart
        <3>2. hist'[p][spare[r]] = hist[p][spare[r]]
            BY <1>15, <2>1, <3>1
        <3>3. tracked'[r] = tracked[r]
            BY <1>5, <2>1, <2>3
        <3>4. SubSeq(text'[r], 1, tracked[r]) = SubSeq(text[r], 1, tracked[r])
            BY <1>3, <1>4, <2>1
        <3> QED
            BY <1>1, <1>7, <3>2, <3>3, <3>4 DEF Tails, SnapshotIsBoundary
    <2> QED
        BY <2>2, <2>3
<1>8. ASSUME NEW p \in Part, NEW c \in DOMAIN tree PROVE hist'[p][tree[c]] = LastTokens(p, c)
    <2>1. tree[c] \in Slot
        BY <1>1 DEF TypeOK
    <2>2. (\A q \in A : tree[c] # work[q]) /\ (\A q \in passed : tree[c] # spare[q])
        BY <1>1 DEF Apart
    <2> QED
        BY <1>1, <1>15, <2>1, <2>2 DEF Tails, TreeServesTails
<1>9. /\ text' \in [Request -> Seq(Token)] /\ tracked' \in [Request -> Nat]
      /\ \A r \in Request : tracked'[r] <= Len(text'[r]) /\ (tracked'[r] > 0 => r \in Live)
    <2>1. ASSUME NEW r \in Request
          PROVE  /\ text'[r] \in Seq(Token) /\ tracked'[r] \in Nat
                 /\ tracked'[r] <= Len(text'[r]) /\ (tracked'[r] > 0 => r \in Live)
        <3>1. CASE r \in A
            <4>1. /\ text'[r] \in Seq(Token) /\ Len(text'[r]) = Len(text[r]) + Len(add[r])
                  /\ Len(text[r]) \in Nat /\ Len(add[r]) \in Nat /\ off[r] \in Nat /\ off[r] <= Len(add[r])
                  /\ tracked[r] \in Nat /\ tracked[r] <= Len(text[r]) /\ r \in Live
                BY <1>3, <3>1
            <4>2. tracked'[r] = Len(text[r]) + off[r] \/ tracked'[r] = tracked[r]
                BY <1>5
            <4>3. PICK l \in Nat, a \in Nat, o \in Nat, d \in Nat :
                    l = Len(text[r]) /\ a = Len(add[r]) /\ o = off[r] /\ d = tracked[r] /\ o <= a /\ d <= l
                BY <4>1
            <4>5. tracked'[r] = l + o \/ tracked'[r] = d
                BY <4>2, <4>3
            <4>7. o <= a /\ d <= l
                BY <4>3
            <4>6. l + o \in Nat /\ l + o <= l + a /\ d <= l + a
                BY <4>7
            <4>4. tracked'[r] \in Nat /\ tracked'[r] <= Len(text[r]) + Len(add[r])
                BY <4>3, <4>5, <4>6
            <4> QED
                BY <4>1, <4>4
        <3>2. CASE r \notin A
            BY <1>1, <1>4, <3>2 DEF TypeOK, Counted
        <3> QED
            BY <3>1, <3>2
    <2>2. text' = [r \in Request |-> text'[r]] /\ tracked' = [r \in Request |-> tracked'[r]]
        BY DEF Grows
    <2> QED
        BY <2>1, <2>2
<1>10. ASSUME NEW p \in Part, NEW s \in Slot
       PROVE  hist'[p][s] \in Seq(Word) /\ Len(hist'[p][s]) = PartLength(p)
    <2>1. CASE \E r \in A : s = work[r]
        <3>1. PICK r \in A : s = work[r]
            BY <2>1
        <3>2. text'[r] \in Seq(Token) /\ hist'[p][s] = LastTokens(p, text'[r])
            BY <1>3, <1>14, <3>1
        <3>3. PICK t \in Seq(Token) : t = text'[r]
            BY <3>2
        <3> QED
            BY <3>2, <3>3, TailIs
    <2>2. CASE \E r \in passed : s = spare[r]
        <3>1. PICK r \in passed : s = spare[r]
            BY <2>2
        <3>2. hist'[p][s] = LastTokens(p, text[r] \o SubSeq(add[r], 1, off[r]))
            BY <1>14, <3>1
        <3>3. text[r] \in Seq(Token) /\ add[r] \in Seq(Token) /\ off[r] \in 0 .. Len(add[r])
            BY <1>1, <1>2, <1>3 DEF TypeOK, Grows
        <3>4. PICK t \in Seq(Token), new \in Seq(Token), k \in Nat :
                t = text[r] /\ new = add[r] /\ k = off[r] /\ k <= Len(new)
            BY <3>3
        <3>5. t \o SubSeq(new, 1, k) \in Seq(Token)
            <4>1. k \in 0 .. Len(new)
                BY <3>4
            <4> QED
                BY <4>1, ConcatPrefix
        <3>6. PICK u \in Seq(Token) : u = t \o SubSeq(new, 1, k)
            BY <3>5
        <3> QED
            BY <3>2, <3>4, <3>6, TailIs
    <2>3. CASE (\A r \in A : s # work[r]) /\ (\A r \in passed : s # spare[r])
        <3>1. hist'[p][s] = hist[p][s]
            BY <1>15, <2>3
        <3> QED
            BY <1>1, <3>1 DEF TypeOK, Word
    <2> QED
        BY <2>1, <2>2, <2>3
<1>11. TypeOK'
    <2>1. hist' \in [Part -> [Slot -> Seq(Word)]]
        BY <1>10 DEF Held
    <2>2. inflight' \in Seq([req : Request, new : Seq(Token), pad : BOOLEAN])
        BY DEF Rests
    <2> QED
        BY <1>1, <1>9, <1>10, <2>1, <2>2 DEF TypeOK, Word, Rests
<1>12. Slots'
    BY <1>1, <1>9 DEF Slots, Apart, Counted, Awaited, Rests
<1>13. Tails'
    BY <1>6, <1>7, <1>8 DEF Tails, HistoryIsOwnTail, SnapshotIsBoundary, TreeServesTails, StepsAreTails, Rests
<1> QED
    BY <1>11, <1>12, <1>13 DEF PleInv

\* A forward that commits at once leaves every state with its own tail.
LEMMA ForwardKeeps ==
    ASSUME PleInv, NEW b, NEW rows, Fits(b, rows),
           hist' = [p \in Part |-> Committed(p, rows[p], b)],
           text' = TextAfter(b), tracked' = TrackedAfter(b),
           UNCHANGED <<mtp, work, spare, tree, inflight, inter>>, inflight = <<>>,
           phase' \in [Request -> {"free", "prefill", "decode"}], Live' = Live
    PROVE  PleInv'
<1> DEFINE A == InBatch(b)
           row(r) == RowOf(b, r)
           add == [r \in A |-> b[row(r)].new]
           off == [r \in A |-> IF Tracked(b, row(r)) THEN TrackOffset(b, row(r)) ELSE 0]
           passed == {r \in A : Tracked(b, row(r))}
<1>1. TypeOK /\ Apart /\ HistoryIsOwnTail
    BY DEF PleInv, Slots, Tails
<1>2. RowsOf(b) /\ \A i \in DOMAIN b : ~b[i].pad => b[i].req \in Live /\ (phase[b[i].req] = "decode" => Len(b[i].new) = 1)
    BY DEF Fits
<1>3. \A r \in A : row(r) \in DOMAIN b /\ ~b[row(r)].pad /\ b[row(r)].req = r
    BY <1>2, RowOfIs
<1>4. \A i \in DOMAIN b : ~b[i].pad => b[i].req \in A /\ row(b[i].req) = i
    BY <1>2, RowOfIs
<1>5. A \in SUBSET Live
    BY <1>2, <1>3
<1>6. \A r \in A : b[row(r)].new \in Seq(Token) /\ Len(b[row(r)].new) \in Nat
    BY <1>2, <1>3, BatchRows
<1>7. ASSUME NEW r \in passed
      PROVE  /\ TrackOffset(b, row(r)) \in 0 .. Len(b[row(r)].new)
             /\ Boundary(NewLength(b, row(r))) = Len(text[r]) + TrackOffset(b, row(r))
    BY <1>1, <1>2, <1>3, TrackedWithin
<1>8. add \in [A -> Seq(Token)] /\ off \in [A -> Nat] /\ \A r \in A : off[r] <= Len(add[r])
    BY <1>6, <1>7
<1>9. text' = [r \in Request |-> IF r \in A THEN text[r] \o add[r] ELSE text[r]]
    BY DEF TextAfter
<1>10. tracked' = [r \in Request |-> IF r \in passed THEN Len(text[r]) + off[r] ELSE tracked[r]]
    BY <1>7 DEF TrackedAfter
<1>11. ASSUME NEW p \in Part
       PROVE  /\ \A i \in DOMAIN b : ~b[i].pad =>
                   hist'[p][work[b[i].req]] = LastTokens(p, text[b[i].req] \o b[i].new)
              /\ \A i \in DOMAIN b : Tracked(b, i) =>
                   hist'[p][spare[b[i].req]]
                     = LastTokens(p, text[b[i].req] \o SubSeq(b[i].new, 1, TrackOffset(b, i)))
              /\ \A s \in Slot :
                   (\A i \in DOMAIN b : ~b[i].pad => s # work[b[i].req] /\ (Tracked(b, i) => s # spare[b[i].req]))
                   => hist'[p][s] = hist[p][s]
    <2>1. hist'[p] = Committed(p, rows[p], b)
        OBVIOUS
    <2> QED
        BY <1>1, <2>1, CommittedIs
<1>12. hist' = [p \in Part |-> [s \in Slot |-> hist'[p][s]]]
    BY DEF Committed
<1>13. \A p \in Part, r \in A : hist'[p][work[r]] = LastTokens(p, text[r] \o add[r])
    BY <1>3, <1>11
<1>14. \A p \in Part, r \in passed :
            hist'[p][spare[r]] = LastTokens(p, text[r] \o SubSeq(add[r], 1, off[r]))
    BY <1>3, <1>11
<1>15. ASSUME NEW p \in Part, NEW s \in Slot, \A r \in A : s # work[r], \A r \in passed : s # spare[r]
       PROVE  hist'[p][s] = hist[p][s]
    BY <1>4, <1>11, <1>15
<1>16. inflight' = <<>> /\ DOMAIN inter' = DOMAIN inflight'
    BY <1>1 DEF TypeOK
<1>17. passed \in SUBSET A
    OBVIOUS
<1> HIDE DEF A, add, off, passed
<1>18. Grows(A, add, off, passed)
    BY <1>8, <1>9, <1>10 DEF Grows
<1>19. Held(A, add, off, passed)
    BY <1>12, <1>13, <1>14, <1>15 DEF Held
<1>20. Rests
    BY <1>16 DEF Rests
<1>21. PICK B \in SUBSET Live : B = A
    BY <1>5
<1>22. PICK past \in SUBSET B : past = passed
    BY <1>17, <1>21
<1>23. PICK grown, at : grown = add /\ at = off
    OBVIOUS
<1> QED
    BY <1>18, <1>19, <1>20, <1>21, <1>22, <1>23, GrowthKeeps

-----------------------------------------------------------------------------
(* Forwards *)

\* What a request may go on with are tokens, as many as asked for.
LEMMA ContinuationsAre ==
    ASSUME NEW t \in Seq(Token), NEW n \in Nat
    PROVE  \A w \in Continuations(t, n) : w \in Seq(Token) /\ Len(w) = n
<1> SUFFICES ASSUME NEW w \in Continuations(t, n) PROVE w \in Seq(Token) /\ Len(w) = n
    OBVIOUS
<1>1. PICK s \in Stream : Len(s) >= Len(t) + n /\ w = SubSeq(s, Len(t) + 1, Len(t) + n)
    BY DEF Continuations
<1>2. s \in Seq(Token) /\ Len(t) \in Nat /\ Len(s) \in Nat
    BY PleAssumption
<1>3. PICK l \in Nat : l = Len(t)
    BY <1>2
<1>4. l + n <= Len(s)
    BY <1>1, <1>2, <1>3
<1> QED
    BY <1>1, <1>2, <1>3, <1>4, WindowFacts

\* A prefill forward keeps the invariant.
LEMMA ExtendKeeps == PleInv /\ Extend => PleInv'
<1> SUFFICES ASSUME PleInv, Extend PROVE PleInv'
    OBVIOUS
<1>1. TypeOK
    BY DEF PleInv
<1> DEFINE News(ids) == [r \in ids |-> UNION {Continuations(text[r], n) : n \in StreamLengths}]
<1>2. PICK ids \in (SUBSET {r \in Live : phase[r] = "prefill"}) \ {{}} :
        \E b \in Batches(ids, News(ids)) : \E last \in SUBSET ids :
            /\ \A r \in ids \ last : (Len(text[r]) + Len(b[RowOf(b, r)].new)) % Interval = 0
            /\ hist' = [p \in Part |-> Committed(p, Unpacked(p, b), b)]
            /\ text' = TextAfter(b)
            /\ tracked' = TrackedAfter(b)
            /\ phase' = [r \in Request |-> IF r \in last THEN "decode" ELSE phase[r]]
    BY DEF Extend
<1>3. PICK b \in Batches(ids, News(ids)), last \in SUBSET ids :
            /\ hist' = [p \in Part |-> Committed(p, Unpacked(p, b), b)]
            /\ text' = TextAfter(b)
            /\ tracked' = TrackedAfter(b)
            /\ phase' = [r \in Request |-> IF r \in last THEN "decode" ELSE phase[r]]
    BY <1>2
<1>4. inflight = <<>> /\ UNCHANGED <<mtp, work, spare, tree, inflight, inter>>
    BY DEF Extend
<1>5. ids \in SUBSET Request /\ \A r \in ids : r \in Live /\ phase[r] = "prefill"
    BY <1>2 DEF Live
<1>6. ASSUME NEW r \in ids PROVE News(ids)[r] \subseteq Seq(Token)
    <2>1. text[r] \in Seq(Token)
        BY <1>1, <1>5 DEF TypeOK
    <2>2. StreamLengths \subseteq Nat
        BY PleAssumption DEF StreamLengths
    <2>3. PICK t \in Seq(Token) : t = text[r]
        BY <2>1
    <2>4. \A n \in StreamLengths : Continuations(t, n) \subseteq Seq(Token)
        BY <2>2, ContinuationsAre
    <2> QED
        BY <2>3, <2>4
<1>7. PICK news : news = News(ids)
    OBVIOUS
<1>8. IsBatchOf(b, ids, news)
    <2> HIDE DEF News
    <2> QED
        BY <1>3, <1>5, <1>6, <1>7, BatchesAre
<1> DEFINE rows == [p \in Part |-> Unpacked(p, b)]
<1>9. Fits(b, rows)
    <2>1. RowsOf(b) /\ \A i \in DOMAIN b : ~b[i].pad => b[i].req \in ids
        BY <1>8 DEF IsBatchOf
    <2>2. \A p \in Part, i \in DOMAIN b : StartsWith(rows[p][i], b[i].new)
        BY <2>1, UnpackedRows
    <2>3. \A i \in DOMAIN b : ~b[i].pad => b[i].req \in Live /\ phase[b[i].req] # "decode"
        BY <1>5, <2>1
    <2> HIDE DEF rows
    <2> QED
        BY <2>1, <2>2, <2>3 DEF Fits
<1>10. \A p \in Part : rows[p] = Unpacked(p, b)
    OBVIOUS
<1> HIDE DEF rows
<1>11. hist' = [p \in Part |-> Committed(p, rows[p], b)]
    BY <1>3, <1>10
<1>12. phase' \in [Request -> {"free", "prefill", "decode"}] /\ Live' = Live
    <2>1. \A r \in last : phase[r] = "prefill" /\ r \in Request
        BY <1>3, <1>5
    <2> QED
        BY <1>1, <1>3, <2>1 DEF TypeOK, Live
<1> QED
    BY <1>3, <1>4, <1>9, <1>11, <1>12, ForwardKeeps

\* A decode forward keeps the invariant.
LEMMA DecodeKeeps == PleInv /\ Decode => PleInv'
<1> SUFFICES ASSUME PleInv, Decode PROVE PleInv'
    OBVIOUS
<1>1. TypeOK
    BY DEF PleInv
<1> DEFINE News(ids) == [r \in ids |-> Continuations(text[r], 1)]
<1>13. PICK ids \in (SUBSET {r \in Live : phase[r] = "decode"}) \ {{}} :
        \E b \in Batches(ids, News(ids)) :
            /\ hist' = [p \in Part |-> Committed(p, Strided(p, b, 1), b)]
            /\ text' = TextAfter(b)
            /\ tracked' = TrackedAfter(b)
    BY DEF Decode
<1>2. PICK b \in Batches(ids, News(ids)) :
            /\ hist' = [p \in Part |-> Committed(p, Strided(p, b, 1), b)]
            /\ text' = TextAfter(b)
            /\ tracked' = TrackedAfter(b)
    BY <1>13
<1>3. ~mtp /\ UNCHANGED <<mtp, phase, work, spare, tree, inflight, inter>>
    BY DEF Decode
<1>4. inflight = <<>>
    BY <1>3 DEF PleInv, Slots, Awaited
<1>5. ids \in SUBSET Request /\ \A r \in ids : r \in Live
    BY <1>13 DEF Live
<1>6. ASSUME NEW r \in ids PROVE \A w \in News(ids)[r] : w \in Seq(Token) /\ Len(w) = 1
    <2>1. text[r] \in Seq(Token)
        BY <1>1, <1>5 DEF TypeOK
    <2>2. PICK t \in Seq(Token) : t = text[r]
        BY <2>1
    <2>3. \A w \in Continuations(t, 1) : w \in Seq(Token) /\ Len(w) = 1
        BY ContinuationsAre
    <2> QED
        BY <2>2, <2>3
<1>7. PICK news : news = News(ids)
    OBVIOUS
<1> HIDE DEF News
<1>8. IsBatchOf(b, ids, news)
    <2>1. \A r \in ids : news[r] \subseteq Seq(Token)
        BY <1>6, <1>7
    <2> QED
        BY <1>2, <1>5, <1>7, <2>1, BatchesAre
<1> DEFINE rows == [p \in Part |-> Strided(p, b, 1)]
<1>9. Fits(b, rows)
    <2>1. RowsOf(b) /\ \A i \in DOMAIN b : ~b[i].pad => b[i].req \in ids /\ Len(b[i].new) = 1
        BY <1>6, <1>7, <1>8 DEF IsBatchOf
    <2>2. ASSUME NEW p \in Part, NEW i \in DOMAIN b, ~b[i].pad PROVE StartsWith(rows[p][i], b[i].new)
        <3>1. Len(b[i].new) = 1
            BY <2>1, <2>2
        <3>2. Len(b[i].new) <= 1
            BY <3>1
        <3> QED
            BY <2>1, <3>2, StridedRows
    <2> HIDE DEF rows
    <2> QED
        BY <1>5, <2>1, <2>2 DEF Fits
<1>10. \A p \in Part : rows[p] = Strided(p, b, 1)
    OBVIOUS
<1> HIDE DEF rows
<1>11. hist' = [p \in Part |-> Committed(p, rows[p], b)]
    BY <1>2, <1>10
<1>12. phase' \in [Request -> {"free", "prefill", "decode"}] /\ Live' = Live
    BY <1>1, <1>3 DEF TypeOK, Live
<1> QED
    BY <1>2, <1>3, <1>4, <1>9, <1>11, <1>12, ForwardKeeps

\* The last inputs behind a text that a dilated convolution is taken over.
TailTaps(kept) ==
    [j \in 1 .. Kernel |-> LET n == (Kernel - j) * Dilation
                           IN  IF n < Len(kept) THEN kept[Len(kept) - n] ELSE Zero]

\* The convolution of a row's k-th token is taken over the request's own tokens.
LEMMA TapsAreTails ==
    ASSUME TypeOK, HistoryIsOwnTail, Apart, NEW b, RowsOf(b), NEW i \in DOMAIN b, ~b[i].pad,
           b[i].req \in Live, NEW rows, StartsWith(rows[i], b[i].new),
           NEW k \in 1 .. Len(b[i].new), NEW kept, kept = text[b[i].req] \o SubSeq(b[i].new, 1, k)
    PROVE  Taps(rows, b, i, k) = TailTaps(kept)
<1> DEFINE r == b[i].req
           m == PartLength("conv")
<1>1. r \in Request /\ b[i].new \in Seq(Token)
    BY BatchRows
<1>2. text[r] \in Seq(Token) /\ work[r] \in Slot
    BY <1>1 DEF TypeOK, Apart
<1>3. History("conv", StateIndex(b, i)) = LastTokens("conv", text[r])
    <2>1. StateIndex(b, i) = work[r]
        BY DEF StateIndex
    <2> QED
        BY <1>2, <2>1 DEF History, HistoryIsOwnTail, Part
<1>4. PICK t \in Seq(Token), new \in Seq(Token), row \in {rows[i]} :
        t = text[r] /\ new = b[i].new /\ row = rows[i]
    BY <1>1, <1>2
<1>5. StartsWith(row, new) /\ k \in 1 .. Len(new) /\ k \in 0 .. Len(new) /\ k \in Nat /\ k >= 1
    BY <1>4
<1>6. kept = t \o SubSeq(new, 1, k) /\ Len(kept) = Len(t) + k /\ Len(t) \in Nat
    BY <1>4, <1>5
<1>7. m \in Nat /\ m = (Kernel - 1) * Dilation /\ Dilation \in Nat /\ Kernel \in Nat /\ "conv" \in Part
    BY PartsHaveLengths, PleAssumption DEF Part
<1> HIDE DEF m, r
<1>8. ASSUME NEW j \in 1 .. Kernel
      PROVE  (LastTokens("conv", t) \o row)[k + (j - 1) * Dilation]
               = LET n == (Kernel - j) * Dilation IN IF n < Len(kept) THEN kept[Len(kept) - n] ELSE Zero
    <2> DEFINE a == (j - 1) * Dilation
               n == (Kernel - j) * Dilation
               x == k + a
    <2>1. a \in Nat /\ n \in Nat /\ n = m - a
        <3>1. \A u, v, w \in Nat : u * w \in Nat /\ u * w + v * w = (u + v) * w
            OBVIOUS
        <3>2. j - 1 \in Nat /\ Kernel - j \in Nat /\ (j - 1) + (Kernel - j) = Kernel - 1
            BY <1>7
        <3>3. a + n = ((j - 1) + (Kernel - j)) * Dilation /\ a \in Nat /\ n \in Nat
            BY <1>7, <3>1, <3>2
        <3>4. a + n = m
            BY <1>7, <3>2, <3>3
        <3> QED
            BY <1>7, <3>3, <3>4
    <2> HIDE DEF a, n
    <2>2. x \in 1 .. k + m
        BY <1>5, <1>7, <2>1
    <2>3. (LastTokens("conv", t) \o row)[x] =
             IF Len(t) + x <= m THEN Filler("conv") ELSE (t \o SubSeq(new, 1, k))[Len(t) + x - m]
        <3>1. x \in 1 .. k + PartLength("conv")
            BY <2>2 DEF m
        <3>2. PICK y \in 1 .. k + PartLength("conv") : y = x
            BY <3>1
        <3>3. PICK p \in Part : p = "conv"
            BY <1>7
        <3>4. PICK c \in 0 .. Len(new) : c = k
            BY <1>5
        <3>5. y \in 1 .. c + PartLength(p)
            BY <3>2, <3>3, <3>4
        <3>6. (LastTokens(p, t) \o row)[y] =
             IF Len(t) + y <= PartLength(p) THEN Filler(p)
             ELSE (t \o SubSeq(new, 1, c))[Len(t) + y - PartLength(p)]
            <4>1. StartsWith(row, new)
                BY <1>5
            <4> HIDE DEF x
            <4> QED
                BY <3>5, <4>1, TextAt
        <3> QED
            BY <3>2, <3>3, <3>4, <3>6 DEF m
    <2>4. Filler("conv") = Zero
        BY DEF Filler
    <2>5. (Len(t) + x <= m <=> ~ (n < Len(kept))) /\ Len(t) + x - m = Len(kept) - n
        <3>1. \A l, c, d \in Nat : /\ l + (k + c) <= d <=> ~ (d - c < l + k)
                                  /\ l + (k + c) - d = (l + k) - (d - c)
            BY <1>5
        <3>2. PICK l \in Nat : l = Len(t)
            BY <1>6
        <3>3. Len(kept) = l + k
            BY <1>6, <3>2
        <3>4. /\ l + (k + a) <= m <=> ~ (m - a < l + k)
              /\ l + (k + a) - m = (l + k) - (m - a)
            BY <1>7, <2>1, <3>1
        <3> QED
            BY <2>1, <3>2, <3>3, <3>4
    <2>6. (LastTokens("conv", t) \o row)[x] = IF n < Len(kept) THEN kept[Len(kept) - n] ELSE Zero
        BY <1>6, <2>3, <2>4, <2>5
    <2> QED
        BY <2>6 DEF a, n
<1>9. Taps(rows, b, i, k) =
        [j \in 1 .. Kernel |-> (LastTokens("conv", t) \o row)[k + (j - 1) * Dilation]]
    BY <1>3, <1>4 DEF Taps
<1> QED
    BY <1>8, <1>9 DEF TailTaps

\* The steps of a verify forward b of these texts: behind any number of a row's tokens,
\* both parts are the tails of the text with these.
StepsOf(of, b, steps) ==
    \A i \in DOMAIN b : ~b[i].pad =>
        \A k \in 1 .. Len(b[i].new) :
            LET kept == of[b[i].req] \o SubSeq(b[i].new, 1, k)
            IN  /\ \A p \in Part : steps[i][k].after[p] = LastTokens(p, kept)
                /\ steps[i][k].taps = TailTaps(kept)

\* The property about steps, in the words of StepsOf.
LEMMA StepsAre ==
    /\ StepsAreTails <=> StepsOf(text, inflight, inter)
    /\ StepsAreTails' <=> StepsOf(text', inflight', inter')
BY DEF StepsAreTails, StepsOf, TailTaps

\* What a verify forward lays aside are the tails.
LEMMA StepwiseIs ==
    ASSUME TypeOK, HistoryIsOwnTail, Apart, NEW b, RowsOf(b),
           \A i \in DOMAIN b : ~b[i].pad => b[i].req \in Live /\ Len(b[i].new) \in 1 .. DraftTokens
    PROVE  StepsOf(text, b, Stepwise(b)) /\ DOMAIN Stepwise(b) = DOMAIN b
<1>1. DraftTokens \in Nat
    BY PleAssumption
<1>2. ASSUME NEW i \in DOMAIN b, ~b[i].pad, NEW k \in 1 .. Len(b[i].new), NEW kept,
             kept = text[b[i].req] \o SubSeq(b[i].new, 1, k)
      PROVE  /\ \A p \in Part : Stepwise(b)[i][k].after[p] = LastTokens(p, kept)
             /\ Stepwise(b)[i][k].taps = TailTaps(kept)
    <2>1. /\ b[i].req \in Live /\ Len(b[i].new) \in Nat /\ Len(b[i].new) <= DraftTokens
          /\ k \in Nat /\ k \in 1 .. DraftTokens /\ k <= Len(b[i].new) /\ k \in 0 .. Len(b[i].new)
        BY <1>1, <1>2
    <2>2. Stepwise(b)[i] = [c \in 1 .. DraftTokens |->
            [after |-> [p \in Part |-> IF c <= Len(b[i].new)
                                       THEN After(p, Strided(p, b, DraftTokens), b, i, c) ELSE Blank(p)],
             taps |-> Taps(Strided("conv", b, DraftTokens), b, i, c)]]
        BY DEF Stepwise
    <2>3. \A p \in Part : Stepwise(b)[i][k].after[p] = After(p, Strided(p, b, DraftTokens), b, i, k)
        BY <2>1, <2>2
    <2>4. Stepwise(b)[i][k].taps = Taps(Strided("conv", b, DraftTokens), b, i, k)
        BY <2>1, <2>2
    <2>5. ASSUME NEW p PROVE StartsWith(Strided(p, b, DraftTokens)[i], b[i].new)
        BY <1>1, <2>1, StridedRows
    <2>6. ASSUME NEW p \in Part
          PROVE  After(p, Strided(p, b, DraftTokens), b, i, k) = LastTokens(p, kept)
        <3>1. PICK rows : rows = Strided(p, b, DraftTokens)
            OBVIOUS
        <3>2. PICK c \in 0 .. Len(b[i].new) : c = k
            BY <2>1
        <3>3. After(p, rows, b, i, c) = LastTokens(p, text[b[i].req] \o SubSeq(b[i].new, 1, c))
            BY <1>2, <2>1, <2>5, <3>1, AfterIsTail
        <3> QED
            BY <1>2, <3>1, <3>2, <3>3
    <2>7. Taps(Strided("conv", b, DraftTokens), b, i, k) = TailTaps(kept)
        <3>1. PICK rows : rows = Strided("conv", b, DraftTokens)
            OBVIOUS
        <3>2. StartsWith(rows[i], b[i].new)
            BY <2>5, <3>1
        <3>3. Taps(rows, b, i, k) = TailTaps(kept)
            BY <1>2, <2>1, <3>2, TapsAreTails
        <3> QED
            BY <3>1, <3>3
    <2> QED
        BY <2>3, <2>4, <2>6, <2>7
<1>3. DOMAIN Stepwise(b) = DOMAIN b
    BY DEF Stepwise
<1> QED
    BY <1>2, <1>3 DEF StepsOf

\* A verify forward keeps the invariant: no state slot changes.
LEMMA VerifyKeeps == PleInv /\ Verify => PleInv'
<1> SUFFICES ASSUME PleInv, Verify PROVE PleInv'
    OBVIOUS
<1>1. TypeOK /\ Apart /\ Counted /\ HistoryIsOwnTail
    BY DEF PleInv, Slots, Tails
<1> DEFINE News(ids) == [r \in ids |-> UNION {Continuations(text[r], n) : n \in 1 .. DraftTokens}]
<1>2. PICK ids \in (SUBSET {r \in Live : phase[r] = "decode"}) \ {{}} :
        \E b \in Batches(ids, News(ids)) : inflight' = b /\ inter' = Stepwise(b)
    BY DEF Verify
<1>3. PICK b \in Batches(ids, News(ids)) : inflight' = b /\ inter' = Stepwise(b)
    BY <1>2
<1>4. mtp /\ UNCHANGED <<mtp, phase, text, work, spare, tracked, tree, hist>>
    BY DEF Verify
<1>5. ids \in SUBSET Request /\ \A r \in ids : r \in Live /\ phase[r] = "decode"
    BY <1>2 DEF Live
<1>6. ASSUME NEW r \in ids PROVE \A w \in News(ids)[r] : w \in Seq(Token) /\ Len(w) \in 1 .. DraftTokens
    <2>1. text[r] \in Seq(Token) /\ DraftTokens \in Nat
        BY <1>1, <1>5, PleAssumption DEF TypeOK
    <2>2. PICK t \in Seq(Token) : t = text[r]
        BY <2>1
    <2>3. \A n \in 1 .. DraftTokens : \A w \in Continuations(t, n) : w \in Seq(Token) /\ Len(w) = n
        BY <2>1, ContinuationsAre
    <2> QED
        BY <2>2, <2>3
<1>7. PICK news : news = News(ids)
    OBVIOUS
<1> HIDE DEF News
<1>8. IsBatchOf(b, ids, news)
    <2>1. \A r \in ids : news[r] \subseteq Seq(Token)
        BY <1>6, <1>7
    <2> QED
        BY <1>3, <1>5, <1>7, <2>1, BatchesAre
<1>9. /\ RowsOf(b)
      /\ \A i \in DOMAIN b : ~b[i].pad => /\ b[i].req \in Live /\ phase[b[i].req] = "decode"
                                         /\ Len(b[i].new) \in 1 .. DraftTokens
    BY <1>5, <1>6, <1>7, <1>8 DEF IsBatchOf
<1>10. StepsOf(text, b, Stepwise(b)) /\ DOMAIN Stepwise(b) = DOMAIN b
    BY <1>1, <1>9, StepwiseIs
<1>11. Live' = Live
    BY <1>4 DEF Live
<1>12. TypeOK'
    <2>1. inflight' \in Seq([req : Request, new : Seq(Token), pad : BOOLEAN])
        BY <1>3, <1>9 DEF RowsOf, Row
    <2> QED
        BY <1>1, <1>3, <1>4, <1>10, <2>1 DEF TypeOK
<1>13. Slots'
    <2>1. Awaited'
        <3>1. RowsOf(inflight')
            BY <1>3, <1>9
        <3>2. (RowsOf(inflight))'
            BY <3>1 DEF RowsOf
        <3> QED
            BY <1>3, <1>4, <1>9, <1>11, <3>2 DEF Awaited
    <2> QED
        BY <1>1, <1>4, <1>11, <2>1 DEF Slots, Apart, Counted
<1>14. Tails'
    <2>1. StepsAreTails'
        BY <1>3, <1>4, <1>10, StepsAre
    <2> QED
        BY <1>4, <1>11, <2>1 DEF PleInv, Tails, HistoryIsOwnTail, SnapshotIsBoundary, TreeServesTails
<1> QED
    BY <1>12, <1>13, <1>14 DEF PleInv

\* The verdict leaves every state with the tail of the text that it kept.
LEMMA SettleKeeps == PleInv /\ Settle => PleInv'
<1> SUFFICES ASSUME PleInv, Settle PROVE PleInv'
    OBVIOUS
<1>1. TypeOK /\ Apart /\ Counted /\ StepsAreTails /\ inflight # <<>>
    BY DEF PleInv, Slots, Tails, Settle
<1> DEFINE A == InBatch(inflight)
           row(r) == RowOf(inflight, r)
           new(r) == inflight[row(r)].new
<1>2. PICK kept \in [A -> 1 .. DraftTokens] :
        /\ \A r \in A : kept[r] <= Len(new(r))
        /\ text' = [r \in Request |-> IF r \in A THEN text[r] \o SubSeq(new(r), 1, kept[r]) ELSE text[r]]
        /\ tracked' = [r \in Request |-> IF r \in A /\ Boundary(Len(text[r]) + kept[r]) > Len(text[r])
                                         THEN Boundary(Len(text[r]) + kept[r]) ELSE tracked[r]]
        /\ hist' = [p \in Part |-> [s \in Slot |->
                IF \E r \in A : work[r] = s
                THEN LET r == CHOOSE q \in A : work[q] = s
                     IN  inter[row(r)][kept[r]].after[p]
                ELSE IF \E r \in A : spare[r] = s /\ Boundary(Len(text[r]) + kept[r]) > Len(text[r])
                THEN LET r == CHOOSE q \in A : spare[q] = s
                     IN  inter[row(r)][Boundary(Len(text[r]) + kept[r]) - Len(text[r])].after[p]
                ELSE hist[p][s]]]
    BY DEF Settle
<1>3. /\ RowsOf(inflight)
      /\ \A i \in DOMAIN inflight : ~inflight[i].pad =>
            inflight[i].req \in Live /\ Len(inflight[i].new) \in 1 .. DraftTokens
    BY <1>1 DEF PleInv, Slots, Awaited
<1>4. \A r \in A : row(r) \in DOMAIN inflight /\ ~inflight[row(r)].pad /\ inflight[row(r)].req = r
    BY <1>3, RowOfIs
<1>5. A \in SUBSET Live /\ A \subseteq Request
    BY <1>3, <1>4 DEF Live
<1>6. StepsOf(text, inflight, inter)
    BY <1>1, StepsAre
<1> DEFINE add == [r \in A |-> SubSeq(new(r), 1, kept[r])]
           passed == {r \in A : Boundary(Len(text[r]) + kept[r]) > Len(text[r])}
           off == [r \in A |-> IF r \in passed THEN Boundary(Len(text[r]) + kept[r]) - Len(text[r]) ELSE 0]
<1>7. ASSUME NEW r \in A
      PROVE  /\ new(r) \in Seq(Token) /\ text[r] \in Seq(Token)
             /\ kept[r] \in 1 .. Len(new(r)) /\ kept[r] \in Nat /\ Len(text[r]) \in Nat
             /\ add[r] \in Seq(Token) /\ Len(add[r]) = kept[r]
    <2>1. new(r) \in Seq(Token) /\ text[r] \in Seq(Token)
        BY <1>1, <1>3, <1>4, <1>5, BatchRows DEF TypeOK
    <2>2. kept[r] \in Nat /\ 1 <= kept[r] /\ kept[r] <= Len(new(r))
        BY <1>2, PleAssumption
    <2> QED
        BY <2>1, <2>2
<1>8. ASSUME NEW r \in passed
      PROVE  /\ r \in A /\ off[r] \in 1 .. kept[r]
             /\ off[r] = Boundary(Len(text[r]) + kept[r]) - Len(text[r])
             /\ Boundary(Len(text[r]) + kept[r]) = Len(text[r]) + off[r]
             /\ SubSeq(add[r], 1, off[r]) = SubSeq(new(r), 1, off[r])
    <2>1. r \in A /\ off[r] = Boundary(Len(text[r]) + kept[r]) - Len(text[r])
        OBVIOUS
    <2>2. PICK l \in Nat, k \in Nat, u \in Seq(Token) :
            l = Len(text[r]) /\ k = kept[r] /\ u = new(r) /\ k <= Len(u)
        <3>1. Len(text[r]) \in Nat /\ kept[r] \in Nat /\ new(r) \in Seq(Token) /\ kept[r] <= Len(new(r))
            BY <1>7, <2>1
        <3> HIDE DEF new
        <3> QED
            BY <3>1
    <2>3. l + k \in Nat
        OBVIOUS
    <2>4. PICK n \in Nat : n = l + k
        BY <2>3
    <2>5. PICK d \in Nat : d = Boundary(n) /\ d <= n
        BY BoundaryIs
    <2>6. d > l
        BY <2>2, <2>4, <2>5
    <2>7. d - l \in 1 .. k /\ d = l + (d - l)
        BY <2>4, <2>5, <2>6
    <2>8. off[r] = d - l
        BY <2>1, <2>2, <2>4, <2>5
    <2>9. SubSeq(SubSeq(u, 1, k), 1, d - l) = SubSeq(u, 1, d - l)
        <3>1. k \in 0 .. Len(u)
            BY <2>2
        <3>2. PICK o \in 0 .. k : o = d - l
            BY <2>7
        <3> QED
            BY <3>1, <3>2, PrefixOfPrefix
    <2> QED
        BY <2>1, <2>2, <2>4, <2>5, <2>7, <2>8, <2>9
<1>9. ASSUME NEW r \in A, NEW k \in 1 .. Len(new(r)), NEW p \in Part
      PROVE  inter[row(r)][k].after[p] = LastTokens(p, text[r] \o SubSeq(new(r), 1, k))
    BY <1>4, <1>6 DEF StepsOf
<1>10. ASSUME NEW p \in Part, NEW r \in A
       PROVE  hist'[p][work[r]] = LastTokens(p, text[r] \o add[r])
    <2>1. work[r] \in Slot /\ \A q \in A : work[q] = work[r] => q = r
        BY <1>1, <1>5 DEF Apart
    <2>2. (CHOOSE q \in A : work[q] = work[r]) = r
        BY <2>1
    <2>3. hist'[p][work[r]] = inter[row(r)][kept[r]].after[p]
        BY <1>2, <2>1, <2>2
    <2> QED
        BY <1>7, <1>9, <2>3
<1>11. ASSUME NEW p \in Part, NEW r \in passed
       PROVE  hist'[p][spare[r]] = LastTokens(p, text[r] \o SubSeq(add[r], 1, off[r]))
    <2>1. /\ r \in A /\ spare[r] \in Slot /\ \A q \in A : work[q] # spare[r]
          /\ \A q \in A : spare[q] = spare[r] => q = r
        BY <1>1, <1>5, <1>8 DEF Apart
    <2>2. (CHOOSE q \in A : spare[q] = spare[r]) = r
        BY <2>1
    <2>3. hist'[p][spare[r]] = inter[row(r)][off[r]].after[p]
        BY <1>2, <1>8, <2>1, <2>2
    <2>4. off[r] \in 1 .. Len(new(r))
        <3>1. Len(new(r)) \in Nat /\ kept[r] \in 1 .. Len(new(r)) /\ off[r] \in 1 .. kept[r]
            BY <1>7, <1>8
        <3>2. \A n, k, o \in Nat : k \in 1 .. n /\ o \in 1 .. k => o \in 1 .. n
            OBVIOUS
        <3>3. kept[r] \in Nat /\ off[r] \in Nat
            BY <3>1
        <3> HIDE DEF new, off
        <3> QED
            BY <3>1, <3>2, <3>3
    <2>5. PICK k \in 1 .. Len(new(r)) : k = off[r]
        BY <2>4
    <2>6. inter[row(r)][k].after[p] = LastTokens(p, text[r] \o SubSeq(new(r), 1, k))
        BY <1>9, <2>1
    <2> HIDE DEF row, new, add, off
    <2> QED
        BY <1>8, <2>3, <2>5, <2>6
<1>12. ASSUME NEW p \in Part, NEW s \in Slot, \A r \in A : s # work[r], \A r \in passed : s # spare[r]
       PROVE  hist'[p][s] = hist[p][s]
    <2>1. ~ \E r \in A : work[r] = s
        BY <1>12
    <2>2. ~ \E r \in A : spare[r] = s /\ Boundary(Len(text[r]) + kept[r]) > Len(text[r])
        BY <1>12
    <2> QED
        BY <1>2, <2>1, <2>2
<1>13. hist' = [p \in Part |-> [s \in Slot |-> hist'[p][s]]]
    <2>1. hist' = [p \in Part |-> hist'[p]]
        BY <1>2
    <2>2. ASSUME NEW p \in Part PROVE hist'[p] = [s \in Slot |-> hist'[p][s]]
        BY <1>2
    <2> QED
        BY <2>1, <2>2
<1>14. Held(A, add, off, passed)
    <2> HIDE DEF A, add, off, passed
    <2> QED
        BY <1>10, <1>11, <1>12, <1>13 DEF Held
<1>15. Grows(A, add, off, passed)
    <2>1. add \in [A -> Seq(Token)] /\ DOMAIN off = A
        BY <1>7
    <2>2. ASSUME NEW r \in A PROVE off[r] \in Nat /\ off[r] <= Len(add[r])
        <3>1. CASE r \in passed
            <4>1. off[r] \in 1 .. kept[r] /\ kept[r] \in Nat /\ Len(add[r]) = kept[r]
                BY <1>7, <1>8, <3>1
            <4> HIDE DEF add, off
            <4> QED
                BY <4>1
        <3>2. CASE r \notin passed
            <4>1. off[r] = 0
                BY <3>2
            <4> HIDE DEF off, add
            <4> QED
                BY <1>7, <4>1
        <3> QED
            BY <3>1, <3>2
    <2>3. off = [r \in A |-> off[r]]
        OBVIOUS
    <2>4. text' = [r \in Request |-> IF r \in A THEN text[r] \o add[r] ELSE text[r]]
        BY <1>2
    <2>5. tracked' = [r \in Request |-> IF r \in passed THEN Len(text[r]) + off[r] ELSE tracked[r]]
        <3>1. \A r \in Request : tracked'[r] = IF r \in passed THEN Len(text[r]) + off[r] ELSE tracked[r]
            BY <1>2, <1>8
        <3>2. tracked' = [r \in Request |-> tracked'[r]]
            BY <1>2
        <3> HIDE DEF A, passed, off
        <3> QED
            BY <3>1, <3>2
    <2> HIDE DEF A, add, off, passed
    <2>6. off \in [A -> Nat]
        BY <2>2, <2>3
    <2> QED
        BY <2>1, <2>2, <2>4, <2>5, <2>6 DEF Grows
<1>16. Rests
    BY <1>1 DEF Settle, Rests, TypeOK, Live
<1>17. passed \in SUBSET A
    OBVIOUS
<1> HIDE DEF A, add, off, passed
<1>18. PICK B \in SUBSET Live : B = A
    BY <1>5
<1>19. PICK past \in SUBSET B : past = passed
    BY <1>17, <1>18
<1>20. PICK grown, at : grown = add /\ at = off
    OBVIOUS
<1> QED
    BY <1>14, <1>15, <1>16, <1>18, <1>19, <1>20, GrowthKeeps

-----------------------------------------------------------------------------
(* Requests and the tree *)

\* The empty text.
LEMMA EmptySeq == <<>> \in Seq(Token) /\ Len(<<>>) = 0
OBVIOUS

\* Nothing behind the filling is the filling.
LEMMA TailOfNothing == \A p \in Part : LastTokens(p, <<>>) = Blank(p)
<1> SUFFICES ASSUME NEW p \in Part PROVE LastTokens(p, <<>>) = Blank(p)
    OBVIOUS
<1> DEFINE n == PartLength(p)
<1>1. n \in Nat
    BY PartsHaveLengths
<1>2. PICK t \in Seq(Token) : t = <<>> /\ Len(t) = 0
    BY EmptySeq
<1>3. /\ LastTokens(p, t) \in Seq(Word) /\ Len(LastTokens(p, t)) = n
      /\ \A j \in 1 .. n : LastTokens(p, t)[j] = IF Len(t) + j <= n THEN Filler(p) ELSE t[Len(t) + j - n]
    BY TailIs
<1>4. \A j \in 1 .. n : LastTokens(p, t)[j] = Filler(p)
    BY <1>1, <1>2, <1>3
<1>5. LastTokens(p, t) = [j \in 1 .. n |-> LastTokens(p, t)[j]]
    BY <1>3
<1> QED
    BY <1>2, <1>4, <1>5 DEF Blank

\* A new request starts from its prefix's state, in slots nobody has.
LEMMA AdmitKeeps == ASSUME PleInv, NEW r \in Request, Admit(r) PROVE PleInv'
<1>1. TypeOK /\ Apart /\ Counted /\ Tails
    BY DEF PleInv, Slots
<1>2. PICK s \in FreeSlots, t \in FreeSlots, c \in {<<>>} \cup DOMAIN tree :
        /\ s # t
        /\ work' = [work EXCEPT ![r] = s]
        /\ spare' = [spare EXCEPT ![r] = t]
        /\ text' = [text EXCEPT ![r] = c]
        /\ hist' = [p \in Part |-> [hist[p] EXCEPT ![s] = IF c = <<>> THEN Blank(p) ELSE hist[p][tree[c]]]]
    BY DEF Admit
<1>3. /\ phase[r] = "free" /\ inflight = <<>> /\ phase' = [phase EXCEPT ![r] = "prefill"]
      /\ UNCHANGED <<mtp, tracked, tree, inflight, inter>>
    BY DEF Admit
<1>4. /\ s \in Slot /\ t \in Slot
      /\ \A q \in Live : work[q] # s /\ work[q] # t /\ spare[q] # s /\ spare[q] # t
      /\ \A d \in DOMAIN tree : tree[d] # s /\ tree[d] # t
    BY DEF FreeSlots
<1>5. r \notin Live /\ Live' = Live \cup {r} /\ Live \subseteq Request /\ tracked[r] = 0
    BY <1>1, <1>3 DEF Live, TypeOK, Counted
<1>6. /\ \A q \in Live : work'[q] = work[q] /\ spare'[q] = spare[q] /\ text'[q] = text[q]
      /\ work'[r] = s /\ spare'[r] = t /\ text'[r] = c
    BY <1>1, <1>2, <1>5 DEF TypeOK
<1>7. c \in Seq(Token)
    BY <1>1, EmptySeq DEF TypeOK
<1>8. ASSUME NEW p \in Part
      PROVE  /\ hist'[p][s] = LastTokens(p, c)
             /\ \A x \in Slot : x # s => hist'[p][x] = hist[p][x]
    <2>1. hist'[p] = [hist[p] EXCEPT ![s] = IF c = <<>> THEN Blank(p) ELSE hist[p][tree[c]]]
        BY <1>2
    <2>2. hist[p] = [x \in Slot |-> hist[p][x]]
        BY <1>1 DEF TypeOK
    <2>3. hist'[p][s] = IF c = <<>> THEN Blank(p) ELSE hist[p][tree[c]]
        BY <1>4, <2>1, <2>2
    <2>4. c # <<>> => hist[p][tree[c]] = LastTokens(p, c)
        BY <1>1 DEF Tails, TreeServesTails
    <2> QED
        BY <2>1, <2>2, <2>3, <2>4, TailOfNothing
<1>9. TypeOK'
    <2>1. work' \in [Request -> Slot \cup {NoSlot}] /\ spare' \in [Request -> Slot \cup {NoSlot}]
        BY <1>1, <1>2, <1>4 DEF TypeOK
    <2>2. text' \in [Request -> Seq(Token)] /\ phase' \in [Request -> {"free", "prefill", "decode"}]
        BY <1>1, <1>2, <1>3, <1>7 DEF TypeOK
    <2>3. ASSUME NEW p \in Part, NEW x \in Slot
          PROVE  hist'[p][x] \in Seq(Word) /\ Len(hist'[p][x]) = PartLength(p)
        <3>1. LastTokens(p, c) \in Seq(Word) /\ Len(LastTokens(p, c)) = PartLength(p)
            BY <1>7, TailIs
        <3>2. hist[p][x] \in Seq(Word) /\ Len(hist[p][x]) = PartLength(p)
            BY <1>1 DEF TypeOK, Word
        <3> QED
            BY <1>8, <3>1, <3>2
    <2>4. hist' = [p \in Part |-> [x \in Slot |-> hist'[p][x]]]
        <3>1. \A p \in Part : hist[p] = [x \in Slot |-> hist[p][x]]
            BY <1>1 DEF TypeOK
        <3>2. hist' = [p \in Part |-> hist'[p]]
            BY <1>2
        <3>3. \A p \in Part : hist'[p] = [x \in Slot |-> hist'[p][x]]
            BY <1>2, <3>1
        <3> QED
            BY <3>2, <3>3
    <2>5. hist' \in [Part -> [Slot -> Seq(Word)]]
        BY <2>3, <2>4
    <2> QED
        BY <1>1, <1>3, <2>1, <2>2, <2>3, <2>5 DEF TypeOK, Word
<1>10. Slots'
    <2>1. Apart'
        BY <1>1, <1>2, <1>3, <1>4, <1>5, <1>6 DEF Apart
    <2>2. Counted'
        <3>1. Len(c) \in Nat /\ 0 <= Len(c)
            BY <1>7
        <3>2. \A q \in Request : q # r => text'[q] = text[q]
            BY <1>2
        <3> QED
            BY <1>1, <1>3, <1>5, <1>6, <3>1, <3>2 DEF Counted
    <2> QED
        BY <1>3, <2>1, <2>2 DEF Slots, Awaited
<1>11. Tails'
    <2>1. HistoryIsOwnTail'
        <3>1. \A q \in Live : work[q] \in Slot
            BY <1>1 DEF Apart
        <3> QED
            BY <1>1, <1>4, <1>5, <1>6, <1>8, <3>1 DEF Tails, HistoryIsOwnTail
    <2>2. SnapshotIsBoundary'
        <3>1. \A q \in Live : spare[q] \in Slot
            BY <1>1 DEF Apart
        <3> QED
            BY <1>1, <1>3, <1>4, <1>5, <1>6, <1>8, <3>1 DEF Tails, SnapshotIsBoundary
    <2>3. TreeServesTails'
        <3>1. \A d \in DOMAIN tree : tree[d] \in Slot
            BY <1>1 DEF TypeOK
        <3> QED
            BY <1>1, <1>3, <1>4, <1>8, <3>1 DEF Tails, TreeServesTails
    <2> QED
        BY <1>3, <2>1, <2>2, <2>3 DEF Tails, StepsAreTails
<1> QED
    BY <1>9, <1>10, <1>11 DEF PleInv

\* What is offered to the tree is the state at the end of its prefix.
LEMMA OfferedIs ==
    ASSUME PleInv, NEW r \in Live
    PROVE  \A d \in DOMAIN Offered(r) :
             /\ d \in Seq(Token)
             /\ \/ d \in DOMAIN tree /\ Offered(r)[d] = tree[d]
                \/ /\ Offered(r)[d] = spare[r] /\ Offered(r) # tree
                   /\ \A p \in Part : hist[p][spare[r]] = LastTokens(p, d)
<1> DEFINE c == SubSeq(text[r], 1, tracked[r])
<1>1. TypeOK /\ Counted /\ SnapshotIsBoundary /\ r \in Request
    BY DEF PleInv, Slots, Tails, Live
<1>2. c \in Seq(Token)
    <2>1. text[r] \in Seq(Token) /\ tracked[r] \in 0 .. Len(text[r])
        BY <1>1 DEF TypeOK, Counted
    <2>2. PICK t \in Seq(Token) : t = text[r]
        BY <2>1
    <2>3. PICK n \in 0 .. Len(t) : n = tracked[r]
        BY <2>1, <2>2
    <2> QED
        BY <2>2, <2>3, PrefixOfPrefix
<1>3. DOMAIN tree \subseteq Seq(Token)
    BY <1>1 DEF TypeOK
<1>4. CASE tracked[r] = 0 \/ c \in DOMAIN tree
    BY <1>3, <1>4 DEF Offered
<1>5. CASE tracked[r] # 0 /\ c \notin DOMAIN tree
    <2>1. Offered(r) = [d \in DOMAIN tree \cup {c} |-> IF d = c THEN spare[r] ELSE tree[d]]
        BY <1>5 DEF Offered
    <2>2. tracked[r] > 0
        BY <1>1, <1>5 DEF TypeOK
    <2>3. \A p \in Part : hist[p][spare[r]] = LastTokens(p, c)
        BY <1>1, <2>2 DEF SnapshotIsBoundary
    <2> HIDE DEF c
    <2> QED
        BY <1>2, <1>3, <1>5, <2>1, <2>3
<1> QED
    BY <1>4, <1>5

\* Handing a snapshot to the tree keeps the invariant.
LEMMA PublishKeeps == ASSUME PleInv, NEW r \in Request, Publish(r) PROVE PleInv'
<1>1. TypeOK /\ Apart /\ Counted /\ Tails
    BY DEF PleInv, Slots
<1>2. /\ inflight = <<>> /\ r \in Live /\ tree' = Offered(r)
      /\ tracked' = [tracked EXCEPT ![r] = 0]
      /\ UNCHANGED <<mtp, phase, text, work, hist, inflight, inter>>
    BY DEF Publish
<1>3. PICK t \in IF Offered(r) = tree THEN {spare[r]} ELSE FreeSlots : spare' = [spare EXCEPT ![r] = t]
    BY DEF Publish
<1>4. \A d \in DOMAIN tree' :
        /\ d \in Seq(Token)
        /\ \/ d \in DOMAIN tree /\ tree'[d] = tree[d]
           \/ /\ tree'[d] = spare[r] /\ tree' # tree
              /\ \A p \in Part : hist[p][spare[r]] = LastTokens(p, d)
    BY <1>2, OfferedIs
<1>5. /\ t \in Slot /\ \A q \in Live : work[q] # t /\ (q # r => spare[q] # t)
      /\ \A d \in DOMAIN tree' : tree'[d] # t
    <2>1. CASE tree' = tree
        <3>1. t = spare[r]
            BY <1>2, <1>3, <2>1
        <3> QED
            BY <1>1, <1>2, <2>1, <3>1 DEF Apart
    <2>2. CASE tree' # tree
        <3>1. t \in FreeSlots
            BY <1>2, <1>3, <2>2
        <3>2. /\ t \in Slot /\ \A q \in Live : work[q] # t /\ spare[q] # t
              /\ \A d \in DOMAIN tree : tree[d] # t
            BY <3>1 DEF FreeSlots
        <3> QED
            BY <1>2, <1>4, <3>2
    <2> QED
        BY <2>1, <2>2
<1>6. Live' = Live /\ Live \subseteq Request
    BY <1>2 DEF Live
<1>7. spare'[r] = t /\ \A q \in Request : q # r => spare'[q] = spare[q]
    BY <1>1, <1>2, <1>3 DEF TypeOK
<1>8. tracked'[r] = 0 /\ \A q \in Request : q # r => tracked'[q] = tracked[q]
    BY <1>1, <1>2 DEF TypeOK
<1>9. TypeOK'
    <2>1. spare' \in [Request -> Slot \cup {NoSlot}] /\ tracked' \in [Request -> Nat]
        BY <1>1, <1>2, <1>3, <1>5 DEF TypeOK
    <2>2. DOMAIN tree' \subseteq Seq(Token) /\ \A d \in DOMAIN tree' : tree'[d] \in Slot
        <3>1. spare[r] \in Slot /\ \A d \in DOMAIN tree : tree[d] \in Slot
            BY <1>1, <1>2 DEF TypeOK, Apart
        <3> QED
            BY <1>4, <3>1
    <2> QED
        BY <1>1, <1>2, <2>1, <2>2 DEF TypeOK
<1>10. Slots'
    <2>1. Apart'
        <3>1. ASSUME NEW q \in Live PROVE work'[q] \in Slot /\ spare'[q] \in Slot /\ work'[q] # spare'[q]
            BY <1>1, <1>2, <1>5, <1>6, <1>7 DEF Apart
        <3>2. ASSUME NEW q \in Live, NEW x \in Live, q # x
              PROVE  work'[q] # work'[x] /\ spare'[q] # spare'[x] /\ work'[q] # spare'[x]
            BY <1>1, <1>2, <1>5, <1>6, <1>7, <3>2 DEF Apart
        <3>3. ASSUME NEW q \in Live, NEW d \in DOMAIN tree' PROVE tree'[d] # work'[q] /\ tree'[d] # spare'[q]
            BY <1>1, <1>2, <1>4, <1>5, <1>6, <1>7 DEF Apart
        <3> QED
            BY <1>6, <3>1, <3>2, <3>3 DEF Apart
    <2>2. Counted'
        <3>1. text[r] \in Seq(Token)
            BY <1>1, <1>2, <1>6 DEF TypeOK
        <3>2. 0 <= Len(text[r])
            BY <3>1
        <3> QED
            BY <1>1, <1>2, <1>6, <1>8, <3>2 DEF Counted
    <2> QED
        BY <1>2, <2>1, <2>2 DEF Slots, Awaited
<1>11. Tails'
    <2>1. HistoryIsOwnTail'
        BY <1>1, <1>2, <1>6 DEF Tails, HistoryIsOwnTail
    <2>2. SnapshotIsBoundary'
        BY <1>1, <1>2, <1>6, <1>7, <1>8 DEF Tails, SnapshotIsBoundary
    <2>3. TreeServesTails'
        BY <1>1, <1>2, <1>4 DEF Tails, TreeServesTails
    <2> QED
        BY <1>2, <2>1, <2>2, <2>3 DEF Tails, StepsAreTails
<1> QED
    BY <1>9, <1>10, <1>11 DEF PleInv

\* Leaving keeps it; the slots are not cleared.
LEMMA ReleaseKeeps == ASSUME PleInv, NEW r \in Request, Release(r) PROVE PleInv'
<1>1. TypeOK /\ Apart /\ Counted /\ Tails
    BY DEF PleInv, Slots
<1>2. /\ inflight = <<>> /\ r \in Live /\ tree' = Offered(r)
      /\ phase' = [phase EXCEPT ![r] = "free"]
      /\ text' = [text EXCEPT ![r] = <<>>]
      /\ work' = [work EXCEPT ![r] = NoSlot]
      /\ spare' = [spare EXCEPT ![r] = NoSlot]
      /\ tracked' = [tracked EXCEPT ![r] = 0]
      /\ UNCHANGED <<mtp, hist, inflight, inter>>
    BY DEF Release
<1>3. \A d \in DOMAIN tree' :
        /\ d \in Seq(Token)
        /\ \/ d \in DOMAIN tree /\ tree'[d] = tree[d]
           \/ /\ tree'[d] = spare[r]
              /\ \A p \in Part : hist[p][spare[r]] = LastTokens(p, d)
    BY <1>2, OfferedIs
<1>4. Live' = Live \ {r} /\ Live \subseteq Request
    BY <1>1, <1>2 DEF Live, TypeOK
<1>5. \A q \in Request : q # r =>
        work'[q] = work[q] /\ spare'[q] = spare[q] /\ text'[q] = text[q] /\ tracked'[q] = tracked[q]
    BY <1>1, <1>2 DEF TypeOK
<1>6. text'[r] = <<>> /\ tracked'[r] = 0
    BY <1>1, <1>2 DEF TypeOK
<1>7. TypeOK'
    <2>1. DOMAIN tree' \subseteq Seq(Token) /\ \A d \in DOMAIN tree' : tree'[d] \in Slot
        <3>1. spare[r] \in Slot /\ \A d \in DOMAIN tree : tree[d] \in Slot
            BY <1>1, <1>2 DEF TypeOK, Apart
        <3> QED
            BY <1>3, <3>1
    <2>2. /\ phase' \in [Request -> {"free", "prefill", "decode"}] /\ text' \in [Request -> Seq(Token)]
          /\ work' \in [Request -> Slot \cup {NoSlot}] /\ spare' \in [Request -> Slot \cup {NoSlot}]
          /\ tracked' \in [Request -> Nat]
        BY <1>1, <1>2 DEF TypeOK
    <2> QED
        BY <1>1, <1>2, <2>1, <2>2 DEF TypeOK
<1>8. Slots'
    <2>1. Apart'
        <3>1. ASSUME NEW q \in Live, q # r, NEW d \in DOMAIN tree' PROVE tree'[d] # work[q] /\ tree'[d] # spare[q]
            BY <1>1, <1>2, <1>3, <3>1 DEF Apart
        <3> QED
            BY <1>1, <1>4, <1>5, <3>1 DEF Apart
    <2>2. Counted'
        BY <1>1, <1>4, <1>5, <1>6 DEF Counted
    <2> QED
        BY <1>2, <2>1, <2>2 DEF Slots, Awaited
<1>9. Tails'
    <2>1. HistoryIsOwnTail'
        BY <1>1, <1>2, <1>4, <1>5 DEF Tails, HistoryIsOwnTail
    <2>2. SnapshotIsBoundary'
        BY <1>1, <1>2, <1>4, <1>5 DEF Tails, SnapshotIsBoundary
    <2>3. TreeServesTails'
        BY <1>1, <1>2, <1>3 DEF Tails, TreeServesTails
    <2> QED
        BY <1>2, <2>1, <2>2, <2>3 DEF Tails, StepsAreTails
<1> QED
    BY <1>7, <1>8, <1>9 DEF PleInv

\* So does eviction.
LEMMA EvictKeeps == ASSUME PleInv, NEW c \in DOMAIN tree, Evict(c) PROVE PleInv'
<1>1. TypeOK /\ Apart /\ Counted /\ Tails
    BY DEF PleInv, Slots
<1>2. /\ inflight = <<>> /\ tree' = [d \in DOMAIN tree \ {c} |-> tree[d]]
      /\ UNCHANGED <<mtp, phase, text, work, spare, tracked, hist, inflight, inter>>
    BY DEF Evict
<1>3. TypeOK' /\ Live' = Live
    BY <1>1, <1>2 DEF TypeOK, Live
<1>4. Slots'
    BY <1>1, <1>2, <1>3 DEF Slots, Apart, Counted, Awaited
<1>5. Tails'
    BY <1>1, <1>2, <1>3 DEF Tails, HistoryIsOwnTail, SnapshotIsBoundary, TreeServesTails, StepsAreTails
<1> QED
    BY <1>3, <1>4, <1>5 DEF PleInv

\* And so does a step that changes nothing.
LEMMA RestKeeps == PleInv /\ UNCHANGED vars => PleInv'
<1> SUFFICES ASSUME PleInv, UNCHANGED vars PROVE PleInv'
    OBVIOUS
<1>1. TypeOK' /\ Live' = Live
    BY DEF PleInv, TypeOK, Live, vars
<1>2. Slots'
    BY <1>1 DEF PleInv, Slots, Apart, Counted, Awaited, RowsOf, vars
<1>3. Tails'
    BY <1>1, StepsAre DEF PleInv, Tails, HistoryIsOwnTail, SnapshotIsBoundary, TreeServesTails, vars
<1> QED
    BY <1>1, <1>2, <1>3 DEF PleInv

\* One step of the server keeps the invariant.
LEMMA PleInvIsKept == PleInv /\ [Next]_vars => PleInv'
<1> SUFFICES ASSUME PleInv, [Next]_vars PROVE PleInv'
    OBVIOUS
<1>1. CASE \E r \in Request : RequestStep(r)
    BY <1>1, AdmitKeeps, PublishKeeps, ReleaseKeeps DEF RequestStep
<1>2. CASE \E c \in DOMAIN tree : Evict(c)
    BY <1>2, EvictKeeps
<1> QED
    BY <1>1, <1>2, ExtendKeeps, DecodeKeeps, VerifyKeeps, SettleKeeps, RestKeeps DEF Next

-----------------------------------------------------------------------------
(* Theorems *)

\* The invariant holds in every reachable state.
LEMMA Invariance == Spec => []PleInv
BY PleInvAtFirst, PleInvIsKept, PTL DEF Spec

\* No action of the pool, the scheduler or a forward takes the state out of its types.
THEOREM StateTypeCorrect == Spec => []TypeOK
<1>1. PleInv => TypeOK
    BY DEF PleInv
<1> QED
    BY <1>1, Invariance, PTL

\* Through chunked prefills, batches of any order with padded rows, rejected drafts and
\* slots taken over from others, the n-gram history and the convolution state of a
\* request are the tail of its own tokens (_prepare_ple_batch, _commit_ple_batch).
THEOREM HistoryStaysOwn == Spec => []HistoryIsOwnTail
<1>1. PleInv => HistoryIsOwnTail
    BY DEF PleInv, Tails
<1> QED
    BY <1>1, Invariance, PTL

\* A track slot holds the state at the boundary that _ple_track_targets recorded, until
\* the tree is offered it.
THEOREM SnapshotsAreOfBoundaries == Spec => []SnapshotIsBoundary
<1>1. PleInv => SnapshotIsBoundary
    BY DEF PleInv, Tails
<1> QED
    BY <1>1, Invariance, PTL

\* Whoever takes a prefix of the tree over takes over the state at the end of that prefix,
\* whichever request, long gone, left it there.
THEOREM SharedPrefixesServeTails == Spec => []TreeServesTails
<1>1. PleInv => TreeServesTails
    BY DEF PleInv, Tails
<1> QED
    BY <1>1, Invariance, PTL

\* For every number of tokens that a verdict may keep, the verify forward laid the right
\* state aside, and its dilated convolution read the request's own tokens.
THEOREM VerifyKeepsEveryStep == Spec => []StepsAreTails
<1>1. PleInv => StepsAreTails
    BY DEF PleInv, Tails
<1> QED
    BY <1>1, Invariance, PTL
=============================================================================
