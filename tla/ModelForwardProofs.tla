--------------------------- MODULE ModelForwardProofs ---------------------------
(***************************************************************************)
(* Every layer reads the rows and the selection made for it, and ranks     *)
(* that wait for each other wait at the same collective: for every plan of *)
(* layers, number of ranks, forwards and faults.  The argument is that     *)
(* the queue of a stream is in one order, the order of the program, so     *)
(* that what is before its head has happened; a task overwrites a buffer   *)
(* only when all that reads the buffer's last contents is behind.          *)
(***************************************************************************)
EXTENDS ModelForward, TLAPS

-----------------------------------------------------------------------------
(* The order of a queue *)

OpName ==
    {"ple_gather", "start_rows", "wait_rows", "ple_reduce", "read_rows", "ple_scatter",
     "index", "start_index", "wait_index", "attend",
     "dispatch", "moe_gather", "combine", "moe_scatter"}

OpType == [op : OpName, forward : Nat, layer : Layers, graph : BOOLEAN]
TaskType == [op : {"rows", "index"}, forward : Nat, layer : Layers, graph : BOOLEAN]

\* The layer during which an operation is enqueued: a prefetch is, one layer early.
StepOf(offload, o) ==
    IF o.op = "start_rows" \/ (o.op = "ple_gather" /\ offload /\ o.layer > 1)
    THEN o.layer - 1 ELSE o.layer

\* Where it comes among the operations enqueued during that layer.
PlaceOf(offload, o) ==
    CASE o.op = "ple_gather" -> IF StepOf(offload, o) = o.layer THEN 3 ELSE 1
      [] o.op = "start_rows" -> 2
      [] o.op = "wait_rows" -> 3
      [] o.op = "ple_reduce" -> 4
      [] o.op = "read_rows" -> 5
      [] o.op = "ple_scatter" -> 6
      [] o.op \in {"index", "start_index"} -> 7
      [] o.op = "wait_index" -> 8
      [] o.op = "attend" -> 9
      [] o.op \in {"dispatch", "moe_gather"} -> 10
      [] o.op \in {"combine", "moe_scatter"} -> 11

Spot(offload, o) == 12 * StepOf(offload, o) + PlaceOf(offload, o)

Before(offload, o, p) == o.forward < p.forward \/ (o.forward = p.forward /\ Spot(offload, o) < Spot(offload, p))

InOrder(offload, s) == \A j, k \in DOMAIN s : j < k => Before(offload, s[j], s[k])

Queued(r) == ToSet(main[r])

\* The operation that starts a task of a side stream.
StartOf(t) == Task(t, IF t.op = "rows" THEN "start_rows" ELSE "start_index")

LEMMA PlanLayers ==
    /\ Layers = 1 .. Len(Plan) /\ Len(Plan) \in Nat \ {0}
    /\ \A i \in Layers : Plan[i].ple \in BOOLEAN /\ Plan[i].qsa \in BOOLEAN
<1> DEFINE Layer == [ple : BOOLEAN, qsa : BOOLEAN]
<1>1. Plan \in Seq(Layer) /\ Plan # <<>>
    BY ForwardAssumption
<1>2. \A l \in Layer : l.ple \in BOOLEAN /\ l.qsa \in BOOLEAN
    OBVIOUS
<1> HIDE DEF Layer
<1>3. Layers = 1 .. Len(Plan) /\ Len(Plan) \in Nat \ {0}
    BY <1>1 DEF Layers
<1>4. \A i \in Layers : Plan[i] \in Layer
    BY <1>1 DEF Layers
<1> QED
    BY <1>2, <1>3, <1>4

LEMMA Spots ==
    ASSUME NEW offload, NEW o \in OpType
    PROVE  /\ StepOf(offload, o) \in Nat /\ PlaceOf(offload, o) \in 1 .. 11
           /\ Spot(offload, o) \in Nat /\ 12 * StepOf(offload, o) < Spot(offload, o) /\ Spot(offload, o) < 12 * StepOf(offload, o) + 12
<1>1. o.layer \in Nat \ {0} /\ o.op \in OpName
    BY PlanLayers DEF OpType
<1>2. StepOf(offload, o) \in Nat
    BY <1>1 DEF StepOf
<1>3. PlaceOf(offload, o) \in 1 .. 11
    BY <1>1 DEF PlaceOf, OpName
<1>4. \A s \in Nat : \A p \in 1 .. 11 :
        12 * s + p \in Nat /\ 12 * s < 12 * s + p /\ 12 * s + p < 12 * s + 12
    OBVIOUS
<1> QED
    BY <1>2, <1>3, <1>4 DEF Spot

\* A later step comes after an earlier one of the same forward.
LEMMA StepsAreBefore ==
    ASSUME NEW offload, NEW o \in OpType, NEW p \in OpType, o.forward = p.forward, StepOf(offload, o) < StepOf(offload, p)
    PROVE  Before(offload, o, p)
<1>1. \A a, b, x, y \in Nat : x < 12 * a + 12 /\ 12 * b < y /\ a < b => x < y
    OBVIOUS
<1> QED
    BY <1>1, Spots DEF Before

LEMMA BeforeIsStrict ==
    ASSUME NEW offload, NEW o \in OpType, NEW p \in OpType, Before(offload, o, p)
    PROVE  o # p /\ ~Before(offload, p, o)
<1>1. o.forward \in Nat /\ p.forward \in Nat
    BY DEF OpType
<1> QED
    BY <1>1, Spots DEF Before

LEMMA BeforeIsTransitive ==
    ASSUME NEW offload, NEW o \in OpType, NEW p \in OpType, NEW q \in OpType, Before(offload, o, p), Before(offload, p, q)
    PROVE  Before(offload, o, q)
<1>1. o.forward \in Nat /\ p.forward \in Nat /\ q.forward \in Nat
    BY DEF OpType
<1>2. \A a, b, c, x, y, z \in Nat :
        (a < b \/ (a = b /\ x < y)) /\ (b < c \/ (b = c /\ y < z)) => a < c \/ (a = c /\ x < z)
    OBVIOUS
<1>3. Spot(offload, o) \in Nat /\ Spot(offload, p) \in Nat /\ Spot(offload, q) \in Nat
    BY Spots
<1> QED
    BY <1>1, <1>2, <1>3 DEF Before

\* What is enqueued after all of an ordered queue keeps it in order.
LEMMA AppendKeepsOrder ==
    ASSUME NEW offload, NEW s \in Seq(OpType), NEW t \in Seq(OpType), InOrder(offload, s), InOrder(offload, t),
           \A o \in ToSet(s), p \in ToSet(t) : Before(offload, o, p)
    PROVE  /\ s \o t \in Seq(OpType) /\ InOrder(offload, s \o t)
           /\ ToSet(s \o t) = ToSet(s) \cup ToSet(t)
<1> DEFINE u == s \o t
<1>1. PICK m \in Nat, n \in Nat : m = Len(s) /\ n = Len(t)
    OBVIOUS
<1>2. u \in Seq(OpType) /\ DOMAIN u = 1 .. m + n
    BY <1>1
<1>3. \A k \in 1 .. m : u[k] = s[k]
    BY <1>1
<1>4. \A k \in 1 .. n : u[m + k] = t[k]
    BY <1>1
<1>5. DOMAIN s = 1 .. m /\ DOMAIN t = 1 .. n
    BY <1>1
<1>6. \A k \in 1 .. m + n : k \notin 1 .. m => k - m \in 1 .. n /\ m + (k - m) = k
    BY <1>1
<1>7. \A k \in 1 .. n : m + k \in 1 .. m + n
    BY <1>1
<1>8. \A k \in 1 .. m : k \in 1 .. m + n
    BY <1>1
<1> HIDE DEF u
<1>9. ToSet(u) = ToSet(s) \cup ToSet(t)
    <2>1. \A k \in 1 .. m + n : u[k] \in ToSet(s) \cup ToSet(t)
        <3> SUFFICES ASSUME NEW k \in 1 .. m + n PROVE u[k] \in ToSet(s) \cup ToSet(t)
            OBVIOUS
        <3>1. CASE k \in 1 .. m
            BY <3>1, <1>3, <1>5 DEF ToSet
        <3>2. CASE k \notin 1 .. m
            <4>1. u[k] = t[k - m] /\ k - m \in 1 .. n
                BY <3>2, <1>4, <1>6
            <4> QED
                BY <4>1, <1>5 DEF ToSet
        <3> QED
            BY <3>1, <3>2
    <2>2. \A x \in ToSet(s) : x \in ToSet(u)
        BY <1>2, <1>3, <1>5, <1>8 DEF ToSet
    <2>3. \A x \in ToSet(t) : x \in ToSet(u)
        <3> SUFFICES ASSUME NEW k \in 1 .. n PROVE t[k] \in ToSet(u)
            BY <1>5 DEF ToSet
        <3>1. t[k] = u[m + k] /\ m + k \in DOMAIN u
            BY <1>2, <1>4, <1>7
        <3> QED
            BY <3>1 DEF ToSet
    <2> QED
        BY <2>1, <2>2, <2>3, <1>2 DEF ToSet
<1>10. InOrder(offload, u)
    <2> SUFFICES ASSUME NEW j \in 1 .. m + n, NEW k \in 1 .. m + n, j < k
                 PROVE  Before(offload, u[j], u[k])
        BY <1>2 DEF InOrder
    <2>1. CASE k \in 1 .. m
        <3>1. j \in 1 .. m
            BY <2>1, <1>1
        <3> QED
            BY <2>1, <3>1, <1>3, <1>5 DEF InOrder
    <2>2. CASE j \in 1 .. m /\ k \notin 1 .. m
        <3>1. u[j] = s[j] /\ u[k] = t[k - m] /\ k - m \in 1 .. n
            BY <2>2, <1>3, <1>4, <1>6
        <3>2. s[j] \in ToSet(s) /\ t[k - m] \in ToSet(t)
            BY <2>2, <3>1, <1>5 DEF ToSet
        <3> QED
            BY <3>1, <3>2
    <2>3. CASE j \notin 1 .. m /\ k \notin 1 .. m
        <3>1. /\ u[j] = t[j - m] /\ j - m \in 1 .. n
              /\ u[k] = t[k - m] /\ k - m \in 1 .. n
            BY <2>3, <1>4, <1>6
        <3>2. j - m < k - m
            BY <1>1
        <3> QED
            BY <3>1, <3>2, <1>5 DEF InOrder
    <2>4. k \in 1 .. m \/ (j \in 1 .. m /\ k \notin 1 .. m) \/ (j \notin 1 .. m /\ k \notin 1 .. m)
        OBVIOUS
    <2> QED
        BY <2>1, <2>2, <2>3, <2>4
<1> QED
    BY <1>2, <1>9, <1>10 DEF u

\* The head of an ordered queue is before all the rest.
LEMMA HeadIsFirst ==
    ASSUME NEW offload, NEW s \in Seq(OpType), InOrder(offload, s), s # <<>>
    PROVE  /\ Head(s) \in ToSet(s) /\ Head(s) \in OpType
           /\ Tail(s) \in Seq(OpType) /\ InOrder(offload, Tail(s))
           /\ ToSet(Tail(s)) = ToSet(s) \ {Head(s)}
           /\ \A o \in ToSet(s) : o \in OpType /\ (o = Head(s) \/ Before(offload, Head(s), o))
<1>1. PICK m \in Nat : m = Len(s)
    OBVIOUS
<1>2. m >= 1 /\ DOMAIN s = 1 .. m /\ 1 \in 1 .. m /\ Head(s) = s[1]
    BY <1>1
<1> DEFINE t == Tail(s)
<1>3. t \in Seq(OpType) /\ Len(t) = m - 1
    BY <1>1, <1>2
<1>4. \A k \in 1 .. m - 1 : t[k] = s[k + 1]
    BY <1>1, <1>2
<1>5. DOMAIN t = 1 .. m - 1
    BY <1>3, <1>2
<1>6. \A k \in 1 .. m : s[k] \in OpType
    BY <1>2
<1> HIDE DEF t
<1>7. Head(s) \in ToSet(s) /\ Head(s) \in OpType
    BY <1>2, <1>6 DEF ToSet
<1>8. \A k \in 1 .. m : k = 1 \/ (1 < k /\ k - 1 \in 1 .. m - 1 /\ (k - 1) + 1 = k)
    BY <1>1
<1>9. \A k \in 1 .. m - 1 : k + 1 \in 1 .. m /\ 1 < k + 1
    BY <1>1
<1>10. \A o \in ToSet(s) : o \in OpType /\ (o = Head(s) \/ Before(offload, Head(s), o))
    BY <1>2, <1>6, <1>8 DEF ToSet, InOrder
<1>11. InOrder(offload, t)
    <2> SUFFICES ASSUME NEW j \in 1 .. m - 1, NEW k \in 1 .. m - 1, j < k
                 PROVE  Before(offload, t[j], t[k])
        BY <1>5 DEF InOrder
    <2>1. j + 1 < k + 1 /\ j + 1 \in 1 .. m /\ k + 1 \in 1 .. m
        BY <1>9
    <2> QED
        BY <2>1, <1>4, <1>2 DEF InOrder
<1>12. ToSet(t) = ToSet(s) \ {Head(s)}
    <2>1. \A o \in ToSet(t) : o \in ToSet(s) /\ o # Head(s)
        <3> SUFFICES ASSUME NEW k \in 1 .. m - 1
                     PROVE  t[k] \in ToSet(s) /\ t[k] # Head(s)
            BY <1>5 DEF ToSet
        <3>1. k + 1 \in 1 .. m /\ 1 < k + 1
            BY <1>9
        <3>2. t[k] = s[k + 1] /\ Before(offload, s[1], s[k + 1])
            BY <3>1, <1>2, <1>4 DEF InOrder
        <3>3. s[k + 1] # s[1]
            BY <3>1, <3>2, <1>2, <1>6, BeforeIsStrict
        <3> QED
            BY <3>1, <3>2, <3>3, <1>2 DEF ToSet
    <2>2. \A o \in ToSet(s) : o # Head(s) => o \in ToSet(t)
        <3> SUFFICES ASSUME NEW k \in 1 .. m, s[k] # Head(s) PROVE s[k] \in ToSet(t)
            BY <1>2 DEF ToSet
        <3>1. k - 1 \in 1 .. m - 1 /\ s[k] = t[k - 1]
            BY <1>2, <1>4, <1>8
        <3> QED
            BY <3>1, <1>5 DEF ToSet
    <2> QED
        BY <2>1, <2>2
<1> QED
    BY <1>3, <1>7, <1>10, <1>11, <1>12 DEF t

-----------------------------------------------------------------------------
(* What the host enqueues during a layer *)

\* The prefetch of the next layer is started during layer i.
Ahead(r, i) == i + 1 \in Layers /\ Prefetches(r, i + 1)

Enqueued(r, i) == When(Ahead(r, i), StartPrefetch(r, i + 1)) \o LayerOps(r, i)

\* The collectives of step i of the current forward, whatever the rank.
StepCollectives(i) ==
    (IF server.gather /\ server.offload /\ i + 1 \in PleLayers THEN {Op("ple_gather", i + 1)} ELSE {})
    \cup (IF server.gather /\ i \in PleLayers
          THEN {Op("ple_reduce", i), Op("ple_scatter", i)}
               \cup (IF server.offload /\ i > 1 THEN {} ELSE {Op("ple_gather", i)})
          ELSE {})
    \cup (IF server.a2a THEN {Op("dispatch", i), Op("combine", i)}
          ELSE IF Cardinality(Rank) > 1 THEN {Op("moe_gather", i), Op("moe_scatter", i)} ELSE {})

\* An ordered part of step i, the operations S, with places from a up to b.
Segment(s, i, a, b, S) ==
    /\ s \in Seq(OpType) /\ InOrder(server.offload, s) /\ ToSet(s) = S
    /\ \A o \in S : /\ o.forward = forward /\ o.graph = graph /\ StepOf(server.offload, o) = i
                    /\ a <= PlaceOf(server.offload, o) /\ PlaceOf(server.offload, o) < b

\* The operation named n of layer l has a place from a up to b in step i.
Placed(n, l, i, a, b) ==
    n \in OpName /\ StepOf(server.offload, Op(n, l)) = i /\ a <= PlaceOf(server.offload, Op(n, l)) /\ PlaceOf(server.offload, Op(n, l)) < b

LEMMA EmptySegment ==
    ASSUME NEW i, NEW a, NEW b
    PROVE  Segment(<<>>, i, a, b, {})
BY DEF Segment, InOrder, ToSet

LEMMA SegmentsJoin ==
    ASSUME NEW s, NEW t, NEW i, NEW a \in Nat, NEW b \in Nat, NEW c \in Nat, NEW S, NEW T,
           Segment(s, i, a, b, S), Segment(t, i, b, c, T), a <= b, b <= c
    PROVE  Segment(s \o t, i, a, c, S \cup T)
<1>1. s \in Seq(OpType) /\ t \in Seq(OpType) /\ InOrder(server.offload, s) /\ InOrder(server.offload, t)
    BY DEF Segment
<1>0. ToSet(s) = S /\ ToSet(t) = T
    BY DEF Segment
<1>2. \A o \in S : o \in OpType
    BY <1>1, <1>0 DEF ToSet
<1>3. \A o \in T : o \in OpType
    BY <1>1, <1>0 DEF ToSet
<1>4. ASSUME NEW o \in S, NEW p \in T PROVE Before(server.offload, o, p)
    <2>1. o.forward = p.forward /\ StepOf(server.offload, o) = i /\ StepOf(server.offload, p) = i
        BY DEF Segment
    <2>2. PlaceOf(server.offload, o) \in 1 .. 11 /\ PlaceOf(server.offload, p) \in 1 .. 11 /\ i \in Nat
        BY <1>2, <1>3, <2>1, Spots
    <2>3. PlaceOf(server.offload, o) < b /\ b <= PlaceOf(server.offload, p)
        BY DEF Segment
    <2>4. Spot(server.offload, o) < Spot(server.offload, p)
        BY <2>1, <2>2, <2>3 DEF Spot
    <2> QED
        BY <2>1, <2>4 DEF Before
<1>5. s \o t \in Seq(OpType) /\ InOrder(server.offload, s \o t) /\ ToSet(s \o t) = S \cup T
    BY <1>0, <1>1, <1>4, AppendKeepsOrder
<1>6. \A o \in S : PlaceOf(server.offload, o) \in Nat
    BY <1>2, Spots
<1>7. \A o \in T : PlaceOf(server.offload, o) \in Nat
    BY <1>3, Spots
<1>8. \A o \in S : a <= PlaceOf(server.offload, o) /\ PlaceOf(server.offload, o) < c
    BY <1>6 DEF Segment
<1>9. \A o \in T : a <= PlaceOf(server.offload, o) /\ PlaceOf(server.offload, o) < c
    BY <1>7 DEF Segment
<1> QED
    BY <1>5, <1>8, <1>9 DEF Segment

LEMMA OneOp ==
    ASSUME forward \in Nat, graph \in BOOLEAN, NEW n, NEW l \in Layers, NEW i, NEW a, NEW b,
           Placed(n, l, i, a, b)
    PROVE  Segment(Ops(<<n>>, l), i, a, b, {Op(n, l)})
<1>1. Op(n, l) \in OpType
    BY DEF Op, OpType, Placed
<1>2. Ops(<<n>>, l) = <<Op(n, l)>>
    BY DEF Ops
<1>3. ToSet(<<Op(n, l)>>) = {Op(n, l)}
    BY DEF ToSet
<1>4. InOrder(server.offload, <<Op(n, l)>>)
    BY DEF InOrder
<1>5. Op(n, l).forward = forward /\ Op(n, l).graph = graph
    BY DEF Op
<1>6. <<Op(n, l)>> \in Seq(OpType)
    BY <1>1
<1> QED
    BY <1>2, <1>3, <1>4, <1>5, <1>6 DEF Segment, Placed

\* A list of names is the list of its first and the list of the rest.
LEMMA OpsOfTwo ==
    ASSUME NEW n, NEW m, NEW l
    PROVE  Ops(<<n, m>>, l) = Ops(<<n>>, l) \o Ops(<<m>>, l)
<1>1. Ops(<<n>>, l) = <<Op(n, l)>> /\ Ops(<<m>>, l) = <<Op(m, l)>>
    BY DEF Ops
<1>2. Ops(<<n, m>>, l) = <<Op(n, l), Op(m, l)>>
    BY DEF Ops
<1>3. PICK x : x = Op(n, l)
    OBVIOUS
<1>4. PICK y : y = Op(m, l)
    OBVIOUS
<1>5. PICK u : u = <<x>> \o <<y>>
    OBVIOUS
<1>6. /\ <<x>> \in Seq({x, y}) /\ <<y>> \in Seq({x, y})
      /\ Len(<<x>>) = 1 /\ Len(<<y>>) = 1
    OBVIOUS
<1>7. u \in Seq({x, y}) /\ Len(u) = 2 /\ u[1] = x /\ u[2] = y
    BY <1>5, <1>6
<1>8. u = <<x, y>>
    BY <1>7
<1> QED
    BY <1>1, <1>2, <1>3, <1>4, <1>5, <1>8, Zenon

\* An operation alone, two or three of them, or nothing.
LEMMA Optional ==
    ASSUME NEW c, NEW s, NEW i, NEW a, NEW b, NEW S, c => Segment(s, i, a, b, S)
    PROVE  Segment(When(c, s), i, a, b, {o \in S : c})
<1>1. CASE c
    <2>1. When(c, s) = s /\ {o \in S : c} = S
        BY <1>1 DEF When
    <2> QED
        BY <1>1, <2>1
<1>2. CASE ~c
    <2>1. When(c, s) = <<>> /\ {o \in S : c} = {}
        BY <1>2 DEF When
    <2> QED
        BY <2>1, EmptySegment
<1> QED
    BY <1>1, <1>2

LEMMA TwoOps ==
    ASSUME forward \in Nat, graph \in BOOLEAN, NEW n, NEW m, NEW l \in Layers, NEW i,
           NEW a \in Nat, NEW b \in Nat, NEW c \in Nat, a <= b, b <= c,
           Placed(n, l, i, a, b), Placed(m, l, i, b, c)
    PROVE  Segment(Ops(<<n, m>>, l), i, a, c, {Op(n, l), Op(m, l)})
<1>1. Segment(Ops(<<n>>, l), i, a, b, {Op(n, l)}) /\ Segment(Ops(<<m>>, l), i, b, c, {Op(m, l)})
    BY OneOp
<1>2. Segment(Ops(<<n>>, l) \o Ops(<<m>>, l), i, a, c, {Op(n, l)} \cup {Op(m, l)})
    BY <1>1, SegmentsJoin
<1>3. {Op(n, l)} \cup {Op(m, l)} = {Op(n, l), Op(m, l)}
    OBVIOUS
<1> QED
    BY <1>2, <1>3, OpsOfTwo

LEMMA ThreeOps ==
    ASSUME forward \in Nat, graph \in BOOLEAN, NEW n, NEW m, NEW k, NEW l \in Layers, NEW i,
           NEW a \in Nat, NEW b \in Nat, NEW c \in Nat, NEW d \in Nat, a <= b, b <= c, c <= d,
           Placed(n, l, i, a, b), Placed(m, l, i, b, c), Placed(k, l, i, c, d)
    PROVE  Segment(Ops(<<n, m, k>>, l), i, a, d, {Op(n, l), Op(m, l), Op(k, l)})
<1>1. Segment(Ops(<<n>>, l), i, a, b, {Op(n, l)})
    BY OneOp
<1>2. Segment(Ops(<<m, k>>, l), i, b, d, {Op(m, l), Op(k, l)})
    BY TwoOps
<1>3. b <= d
    OBVIOUS
<1>4. Segment(Ops(<<n>>, l) \o Ops(<<m, k>>, l), i, a, d, {Op(n, l)} \cup {Op(m, l), Op(k, l)})
    BY <1>1, <1>2, <1>3, SegmentsJoin
<1>5. {Op(n, l)} \cup {Op(m, l), Op(k, l)} = {Op(n, l), Op(m, l), Op(k, l)}
    OBVIOUS
<1>6. Ops(<<n, m, k>>, l) = Ops(<<n>>, l) \o Ops(<<m, k>>, l)
    <2>1. Ops(<<n>>, l) = <<Op(n, l)>> /\ Ops(<<m, k>>, l) = <<Op(m, l), Op(k, l)>>
        BY DEF Ops
    <2>2. Ops(<<n, m, k>>, l) = <<Op(n, l), Op(m, l), Op(k, l)>>
        BY DEF Ops
    <2>3. PICK x : x = Op(n, l)
        OBVIOUS
    <2>4. PICK y : y = Op(m, l)
        OBVIOUS
    <2>5. PICK z : z = Op(k, l)
        OBVIOUS
    <2>6. PICK u : u = <<x>> \o <<y, z>>
        OBVIOUS
    <2>7. /\ <<x>> \in Seq({x, y, z}) /\ <<y, z>> \in Seq({x, y, z})
          /\ Len(<<x>>) = 1 /\ Len(<<y, z>>) = 2
        OBVIOUS
    <2>8. u \in Seq({x, y, z}) /\ Len(u) = 3 /\ u[1] = x /\ u[2] = y /\ u[3] = z
        BY <2>6, <2>7
    <2>9. u = <<x, y, z>>
        BY <2>8
    <2> QED
        BY <2>1, <2>2, <2>3, <2>4, <2>5, <2>6, <2>9, Zenon
<1> QED
    BY <1>4, <1>5, <1>6

LEMMA Places ==
    ASSUME NEW l \in Layers
    PROVE  /\ ~(server.offload /\ l > 1) => Placed("ple_gather", l, l, 3, 4)
           /\ server.offload /\ l > 1 => Placed("ple_gather", l, l - 1, 1, 2)
           /\ Placed("start_rows", l, l - 1, 2, 3)
           /\ Placed("wait_rows", l, l, 3, 4) /\ Placed("ple_reduce", l, l, 4, 5)
           /\ Placed("read_rows", l, l, 5, 6) /\ Placed("ple_scatter", l, l, 6, 7)
           /\ Placed("ple_scatter", l, l, 5, 7)
           /\ Placed("index", l, l, 7, 9) /\ Placed("start_index", l, l, 7, 8)
           /\ Placed("wait_index", l, l, 8, 9) /\ Placed("attend", l, l, 9, 10)
           /\ Placed("dispatch", l, l, 10, 11) /\ Placed("moe_gather", l, l, 10, 11)
           /\ Placed("combine", l, l, 11, 12) /\ Placed("moe_scatter", l, l, 11, 12)
<1>1. \A n : Op(n, l).op = n /\ Op(n, l).layer = l
    BY DEF Op
<1>2. l \in Nat /\ l - 1 # l
    BY PlanLayers
<1>3. \A n \in OpName \ {"ple_gather", "start_rows"} : StepOf(server.offload, Op(n, l)) = l
    BY <1>1 DEF StepOf
<1>4. ~(server.offload /\ l > 1) => Placed("ple_gather", l, l, 3, 4)
    BY <1>1 DEF StepOf, PlaceOf, Placed, OpName
<1>5. server.offload /\ l > 1 => Placed("ple_gather", l, l - 1, 1, 2)
    <2>1. SUFFICES ASSUME server.offload /\ l > 1 PROVE Placed("ple_gather", l, l - 1, 1, 2)
        OBVIOUS
    <2>2. StepOf(server.offload, Op("ple_gather", l)) = l - 1
        BY <1>1, <2>1 DEF StepOf
    <2>3. PlaceOf(server.offload, Op("ple_gather", l)) = 1
        BY <1>1, <1>2, <2>2 DEF PlaceOf
    <2> QED
        BY <2>2, <2>3 DEF Placed, OpName
<1>6. Placed("start_rows", l, l - 1, 2, 3)
    <2>1. StepOf(server.offload, Op("start_rows", l)) = l - 1
        BY <1>1 DEF StepOf
    <2>2. PlaceOf(server.offload, Op("start_rows", l)) = 2
        BY <1>1 DEF PlaceOf
    <2> QED
        BY <2>1, <2>2 DEF Placed, OpName
<1>7. /\ PlaceOf(server.offload, Op("wait_rows", l)) = 3 /\ PlaceOf(server.offload, Op("ple_reduce", l)) = 4
      /\ PlaceOf(server.offload, Op("read_rows", l)) = 5 /\ PlaceOf(server.offload, Op("ple_scatter", l)) = 6
      /\ PlaceOf(server.offload, Op("index", l)) = 7 /\ PlaceOf(server.offload, Op("start_index", l)) = 7
    BY <1>1 DEF PlaceOf
<1>8. /\ PlaceOf(server.offload, Op("wait_index", l)) = 8 /\ PlaceOf(server.offload, Op("attend", l)) = 9
      /\ PlaceOf(server.offload, Op("dispatch", l)) = 10 /\ PlaceOf(server.offload, Op("moe_gather", l)) = 10
      /\ PlaceOf(server.offload, Op("combine", l)) = 11 /\ PlaceOf(server.offload, Op("moe_scatter", l)) = 11
    BY <1>1 DEF PlaceOf
<1>9. /\ Placed("wait_rows", l, l, 3, 4) /\ Placed("ple_reduce", l, l, 4, 5)
      /\ Placed("read_rows", l, l, 5, 6) /\ Placed("ple_scatter", l, l, 6, 7)
      /\ Placed("ple_scatter", l, l, 5, 7)
      /\ Placed("index", l, l, 7, 9) /\ Placed("start_index", l, l, 7, 8)
    BY <1>3, <1>7 DEF Placed, OpName
<1>10. /\ Placed("wait_index", l, l, 8, 9) /\ Placed("attend", l, l, 9, 10)
       /\ Placed("dispatch", l, l, 10, 11) /\ Placed("moe_gather", l, l, 10, 11)
       /\ Placed("combine", l, l, 11, 12) /\ Placed("moe_scatter", l, l, 11, 12)
    BY <1>3, <1>8 DEF Placed, OpName
<1> QED
    BY <1>4, <1>5, <1>6, <1>9, <1>10

LEMMA PrefetchOps ==
    ASSUME forward \in Nat, graph \in BOOLEAN, NEW r \in Rank, NEW i \in Layers
    PROVE  Segment(When(Ahead(r, i), StartPrefetch(r, i + 1)), i, 1, 3,
                   {o \in {x \in {Op("ple_gather", i + 1)} : server.gather}
                          \cup {Op("start_rows", i + 1)} : Ahead(r, i)})
<1> DEFINE u == When(server.gather, Ops(<<"ple_gather">>, i + 1))
           v == Ops(<<"start_rows">>, i + 1)
           U == {x \in {Op("ple_gather", i + 1)} : server.gather}
           V == {Op("start_rows", i + 1)}
<1>1. ASSUME Ahead(r, i) PROVE Segment(u \o v, i, 1, 3, U \cup V)
    <2>1. i + 1 \in Layers /\ server.offload /\ i + 1 > 1 /\ (i + 1) - 1 = i
        BY <1>1, PlanLayers DEF Ahead, Prefetches
    <2>2. Placed("ple_gather", i + 1, i, 1, 2) /\ Placed("start_rows", i + 1, i, 2, 3)
        BY <2>1, Places
    <2>3. Segment(u, i, 1, 2, U)
        BY <2>1, <2>2, OneOp, Optional
    <2>4. Segment(v, i, 2, 3, V)
        BY <2>1, <2>2, OneOp
    <2> HIDE DEF u, v, U, V
    <2> QED
        BY <2>3, <2>4, SegmentsJoin
<1>2. StartPrefetch(r, i + 1) = u \o v
    BY DEF StartPrefetch
<1> HIDE DEF u, v, U, V
<1>3. Ahead(r, i) => Segment(StartPrefetch(r, i + 1), i, 1, 3, U \cup V)
    BY <1>1, <1>2
<1> QED
    BY <1>3, Optional DEF U, V

LEMMA PleOps ==
    ASSUME forward \in Nat, graph \in BOOLEAN, NEW r \in Rank, NEW i \in Layers,
           HasPending(r, i) <=> i > 1 /\ Prefetches(r, i)
    PROVE  LET own == i \in PleLayers
               held == HasPending(r, i)
           IN  Segment(Ple(r, i), i, 3, 7,
                       {o \in {Op("wait_rows", i), Op("read_rows", i)} : own /\ held}
                       \cup {o \in {Op("ple_gather", i)} : own /\ ~held /\ server.gather}
                       \cup {o \in {Op("ple_reduce", i), Op("ple_scatter", i)} : own /\ server.gather})
<1> DEFINE g == server.gather
           S == {o \in {Op("wait_rows", i), Op("read_rows", i)} : i \in PleLayers /\ HasPending(r, i)}
                \cup {o \in {Op("ple_gather", i)} : i \in PleLayers /\ ~HasPending(r, i) /\ g}
                \cup {o \in {Op("ple_reduce", i), Op("ple_scatter", i)} : i \in PleLayers /\ g}
<1>1. CASE i \in PleLayers /\ HasPending(r, i)
    <2> DEFINE a == Ops(<<"wait_rows">>, i)
               b == When(g, Ops(<<"ple_reduce">>, i))
               c == Ops(<<"read_rows">>, i)
               d == When(g, Ops(<<"ple_scatter">>, i))
               A == {Op("wait_rows", i)}
               B == {o \in {Op("ple_reduce", i)} : g}
               C == {Op("read_rows", i)}
               D == {o \in {Op("ple_scatter", i)} : g}
    <2>1. Ple(r, i) = a \o b \o c \o d
        BY <1>1 DEF Ple, Consume, PleLayers
    <2>2. Segment(a, i, 3, 4, A)
        BY Places, OneOp
    <2>3. Segment(b, i, 4, 5, B)
        BY Places, OneOp, Optional
    <2>4. Segment(c, i, 5, 6, C)
        BY Places, OneOp
    <2>5. Segment(d, i, 6, 7, D)
        BY Places, OneOp, Optional
    <2>6. ((A \cup B) \cup C) \cup D = S
        BY <1>1
    <2> HIDE DEF a, b, c, d, A, B, C, D, S
    <2>7. Segment(a \o b, i, 3, 5, A \cup B)
        BY <2>2, <2>3, SegmentsJoin
    <2>8. Segment(a \o b \o c, i, 3, 6, (A \cup B) \cup C)
        BY <2>7, <2>4, SegmentsJoin
    <2>9. Segment(a \o b \o c \o d, i, 3, 7, ((A \cup B) \cup C) \cup D)
        BY <2>8, <2>5, SegmentsJoin
    <2> QED
        BY <2>1, <2>6, <2>9 DEF S
<1>2. CASE i \in PleLayers /\ ~HasPending(r, i)
    <2> DEFINE T == {Op("ple_gather", i), Op("ple_reduce", i), Op("ple_scatter", i)}
               t == Ops(<<"ple_gather", "ple_reduce", "ple_scatter">>, i)
    <2>1. Ple(r, i) = When(g, t)
        BY <1>2 DEF Ple, Direct, PleLayers
    <2>2. ASSUME g PROVE Segment(t, i, 3, 7, T)
        <3>1. ~(server.offload /\ i > 1)
            BY <1>2, <2>2 DEF Prefetches
        <3>2. /\ Placed("ple_gather", i, i, 3, 4) /\ Placed("ple_reduce", i, i, 4, 5)
              /\ Placed("ple_scatter", i, i, 5, 7)
            BY <3>1, Places
        <3>3. 3 <= 4 /\ 4 <= 5 /\ 5 <= 7 /\ 3 \in Nat /\ 4 \in Nat /\ 5 \in Nat /\ 7 \in Nat
            OBVIOUS
        <3> QED
            BY <3>2, <3>3, ThreeOps, Zenon
    <2>3. {o \in T : g} = S
        BY <1>2
    <2> HIDE DEF t, T, S
    <2>4. Segment(When(g, t), i, 3, 7, {o \in T : g})
        BY <2>2, Optional
    <2> QED
        BY <2>1, <2>3, <2>4 DEF S
<1>3. CASE i \notin PleLayers
    <2>1. Ple(r, i) = <<>> /\ S = {}
        BY <1>3 DEF Ple, PleLayers
    <2> QED
        BY <2>1, EmptySegment
<1> QED
    BY <1>1, <1>2, <1>3

LEMMA AttentionOps ==
    ASSUME forward \in Nat, graph \in BOOLEAN, NEW r \in Rank, NEW i \in Layers
    PROVE  Segment(Attention(r, i), i, 7, 10,
                   IF IsIdle(r) \/ ~Plan[i].qsa THEN {}
                   ELSE IF server.overlap /\ graph
                        THEN {Op("start_index", i), Op("wait_index", i), Op("attend", i)}
                        ELSE {Op("index", i), Op("attend", i)})
<1>1. CASE IsIdle(r) \/ ~Plan[i].qsa
    <2>1. Attention(r, i) = <<>>
        BY <1>1 DEF Attention
    <2> QED
        BY <1>1, <2>1, EmptySegment
<1>2. CASE ~(IsIdle(r) \/ ~Plan[i].qsa) /\ server.overlap /\ graph
    <2> DEFINE t == Ops(<<"start_index", "wait_index", "attend">>, i)
               T == {Op("start_index", i), Op("wait_index", i), Op("attend", i)}
    <2>1. Attention(r, i) = t
        BY <1>2 DEF Attention
    <2>2. /\ Placed("start_index", i, i, 7, 8) /\ Placed("wait_index", i, i, 8, 9)
          /\ Placed("attend", i, i, 9, 10)
        BY Places
    <2>3. 7 <= 8 /\ 8 <= 9 /\ 9 <= 10 /\ 7 \in Nat /\ 8 \in Nat /\ 9 \in Nat /\ 10 \in Nat
        OBVIOUS
    <2>4. Segment(t, i, 7, 10, T)
        BY <2>2, <2>3, ThreeOps, Zenon
    <2> HIDE DEF t, T
    <2>5. Segment(Attention(r, i), i, 7, 10, T)
        BY <2>1, <2>4
    <2> QED
        BY <1>2, <2>5 DEF T
<1>3. CASE ~(IsIdle(r) \/ ~Plan[i].qsa) /\ ~(server.overlap /\ graph)
    <2> DEFINE t == Ops(<<"index", "attend">>, i)
               T == {Op("index", i), Op("attend", i)}
    <2>1. Attention(r, i) = t
        BY <1>3 DEF Attention
    <2>2. Placed("index", i, i, 7, 9) /\ Placed("attend", i, i, 9, 10)
        BY Places
    <2>3. 7 <= 9 /\ 9 <= 10 /\ 7 \in Nat /\ 9 \in Nat /\ 10 \in Nat
        OBVIOUS
    <2>4. Segment(t, i, 7, 10, T)
        BY <2>2, <2>3, TwoOps, Zenon
    <2> HIDE DEF t, T
    <2>5. Segment(Attention(r, i), i, 7, 10, T)
        BY <2>1, <2>4
    <2> QED
        BY <1>3, <2>5 DEF T
<1> QED
    BY <1>1, <1>2, <1>3

LEMMA ExpertOps ==
    ASSUME forward \in Nat, graph \in BOOLEAN, NEW r \in Rank, NEW i \in Layers
    PROVE  Segment(Experts(r, i), i, 10, 12,
                   IF server.a2a THEN {Op("dispatch", i), Op("combine", i)}
                   ELSE IF Cardinality(Rank) > 1
                        THEN {Op("moe_gather", i), Op("moe_scatter", i)} ELSE {})
<1> DEFINE t == Ops(<<"dispatch", "combine">>, i)
           T == {Op("dispatch", i), Op("combine", i)}
           u == Ops(<<"moe_gather", "moe_scatter">>, i)
           U == {Op("moe_gather", i), Op("moe_scatter", i)}
           many == Cardinality(Rank) > 1
<1>1. 10 <= 11 /\ 11 <= 12 /\ 10 \in Nat /\ 11 \in Nat /\ 12 \in Nat
    OBVIOUS
<1>2. Segment(t, i, 10, 12, T)
    <2>1. Placed("dispatch", i, i, 10, 11) /\ Placed("combine", i, i, 11, 12)
        BY Places
    <2> QED
        BY <1>1, <2>1, TwoOps, Zenon
<1>3. Segment(u, i, 10, 12, U)
    <2>1. Placed("moe_gather", i, i, 10, 11) /\ Placed("moe_scatter", i, i, 11, 12)
        BY Places
    <2> QED
        BY <1>1, <2>1, TwoOps, Zenon
<1>4. Experts(r, i) = IF server.a2a THEN t ELSE IF many THEN u ELSE <<>>
    BY DEF Experts, When
<1>5. Segment(<<>>, i, 10, 12, {})
    BY EmptySegment
<1> HIDE DEF t, T, u, U, many
<1>6. Segment(Experts(r, i), i, 10, 12, IF server.a2a THEN T ELSE IF many THEN U ELSE {})
    BY <1>2, <1>3, <1>4, <1>5
<1> QED
    BY <1>6 DEF T, U, many

\* Whatever a rank enqueues during layer i, it is one ordered piece of work: every
\* operation with what it depends on, and the collectives that every rank has.
LEMMA LayerIsEnqueued ==
    ASSUME forward \in Nat, graph \in BOOLEAN, NEW r \in Rank, NEW i \in Layers,
           HasPending(r, i) <=> i > 1 /\ Prefetches(r, i)
    PROVE  LET Q == ToSet(Enqueued(r, i))
           IN  /\ Enqueued(r, i) \in Seq(OpType) /\ InOrder(server.offload, Enqueued(r, i))
               /\ \A o \in Q : o.forward = forward /\ o.graph = graph /\ StepOf(server.offload, o) = i
               /\ \A o \in Q : o.op = "start_rows" => Ahead(r, i) /\ o = Op("start_rows", i + 1)
               /\ Ahead(r, i) => Op("start_rows", i + 1) \in Q
               /\ \A o \in Q : o.op \in {"wait_rows", "read_rows"} =>
                    /\ o = Op(o.op, i) /\ i \in PleLayers /\ HasPending(r, i)
                    /\ Op("wait_rows", i) \in Q
               /\ \A o \in Q : o.op \in {"index", "start_index", "wait_index", "attend"} => o = Op(o.op, i)
               /\ \A o \in Q : o.op = "attend" => Op("index", i) \in Q \/ Op("start_index", i) \in Q
               /\ \A o \in Q : o.op = "start_index" => Op("wait_index", i) \in Q
               /\ {o \in Q : o.op \in Collective} = StepCollectives(i)
<1> DEFINE g == server.gather
           P == {o \in {x \in {Op("ple_gather", i + 1)} : g} \cup {Op("start_rows", i + 1)} : Ahead(r, i)}
           L == {o \in {Op("wait_rows", i), Op("read_rows", i)} : i \in PleLayers /\ HasPending(r, i)}
                \cup {o \in {Op("ple_gather", i)} : i \in PleLayers /\ ~HasPending(r, i) /\ g}
                \cup {o \in {Op("ple_reduce", i), Op("ple_scatter", i)} : i \in PleLayers /\ g}
           A == IF IsIdle(r) \/ ~Plan[i].qsa THEN {}
                ELSE IF server.overlap /\ graph
                     THEN {Op("start_index", i), Op("wait_index", i), Op("attend", i)}
                     ELSE {Op("index", i), Op("attend", i)}
           E == IF server.a2a THEN {Op("dispatch", i), Op("combine", i)}
                ELSE IF Cardinality(Rank) > 1
                     THEN {Op("moe_gather", i), Op("moe_scatter", i)} ELSE {}
           Q == P \cup ((L \cup A) \cup E)
<1>1. Segment(Enqueued(r, i), i, 1, 12, Q)
    <2> DEFINE s == When(Ahead(r, i), StartPrefetch(r, i + 1))
    <2>1. Segment(s, i, 1, 3, P)
        BY PrefetchOps
    <2>2. Segment(Ple(r, i), i, 3, 7, L)
        BY PleOps
    <2>3. Segment(Attention(r, i), i, 7, 10, A)
        BY AttentionOps
    <2>4. Segment(Experts(r, i), i, 10, 12, E)
        BY ExpertOps
    <2>5. Enqueued(r, i) = s \o (Ple(r, i) \o Attention(r, i) \o Experts(r, i))
        BY DEF Enqueued, LayerOps
    <2> HIDE DEF s, P, L, A, E
    <2>6. Segment(Ple(r, i) \o Attention(r, i), i, 3, 10, L \cup A)
        BY <2>2, <2>3, SegmentsJoin
    <2>7. Segment(Ple(r, i) \o Attention(r, i) \o Experts(r, i), i, 3, 12, (L \cup A) \cup E)
        BY <2>6, <2>4, SegmentsJoin
    <2>8. Segment(s \o (Ple(r, i) \o Attention(r, i) \o Experts(r, i)), i, 1, 12, Q)
        BY <2>1, <2>7, SegmentsJoin
    <2> QED
        BY <2>5, <2>8
<1> HIDE DEF P, L, A, E
<1>2. ToSet(Enqueued(r, i)) = Q /\ Enqueued(r, i) \in Seq(OpType) /\ InOrder(server.offload, Enqueued(r, i))
    BY <1>1 DEF Segment
<1>3. \A o \in Q : o.forward = forward /\ o.graph = graph /\ StepOf(server.offload, o) = i
    BY <1>1 DEF Segment
<1>4. \A n, l : Op(n, l).op = n /\ Op(n, l).layer = l
    BY DEF Op
<1>5. \A o \in P : \/ o = Op("ple_gather", i + 1)
                   \/ o = Op("start_rows", i + 1) /\ Ahead(r, i)
    BY DEF P
<1>6. \A o \in L : \/ o \in {Op("wait_rows", i), Op("read_rows", i)} /\ i \in PleLayers /\ HasPending(r, i)
                   \/ o \in {Op("ple_gather", i), Op("ple_reduce", i), Op("ple_scatter", i)}
    BY DEF L
<1>7. \A o \in A : \/ o \in {Op("start_index", i), Op("wait_index", i), Op("attend", i)}
                        /\ Op("start_index", i) \in A /\ Op("wait_index", i) \in A
                   \/ o \in {Op("index", i), Op("attend", i)} /\ Op("index", i) \in A
    BY DEF A
<1>8. \A o \in E : o \in {Op("dispatch", i), Op("combine", i), Op("moe_gather", i), Op("moe_scatter", i)}
    BY DEF E
<1>9. Ahead(r, i) => Op("start_rows", i + 1) \in Q
    BY DEF P
<1>10. \A o \in Q : o.op = "start_rows" => Ahead(r, i) /\ o = Op("start_rows", i + 1)
    BY <1>4, <1>5, <1>6, <1>7, <1>8
<1>11. \A o \in Q : o.op \in {"wait_rows", "read_rows"} =>
        o = Op(o.op, i) /\ i \in PleLayers /\ HasPending(r, i) /\ Op("wait_rows", i) \in Q
    <2>1. i \in PleLayers /\ HasPending(r, i) => Op("wait_rows", i) \in Q
        BY DEF L
    <2>2. \A o \in Q : o.op \in {"wait_rows", "read_rows"} =>
            o \in {Op("wait_rows", i), Op("read_rows", i)} /\ i \in PleLayers /\ HasPending(r, i)
        BY <1>4, <1>5, <1>6, <1>7, <1>8
    <2> QED
        BY <2>1, <2>2, <1>4
<1>12. \A o \in Q : o.op \in {"index", "start_index", "wait_index", "attend"} => o = Op(o.op, i)
    BY <1>4, <1>5, <1>6, <1>7, <1>8
<1>13. \A o \in Q : o.op \in {"start_index", "attend"} => o \in A
    BY <1>4, <1>5, <1>6, <1>8
<1>14. \A o \in Q : o.op = "attend" => Op("index", i) \in Q \/ Op("start_index", i) \in Q
    BY <1>4, <1>7, <1>13
<1>15. \A o \in Q : o.op = "start_index" => Op("wait_index", i) \in Q
    BY <1>4, <1>7, <1>13
<1>16. {o \in Q : o.op \in Collective} = StepCollectives(i)
    <2>1. {o \in P : o.op \in Collective}
            = IF g /\ server.offload /\ i + 1 \in PleLayers THEN {Op("ple_gather", i + 1)} ELSE {}
        <3>1. g => (Ahead(r, i) <=> server.offload /\ i + 1 \in PleLayers)
            BY DEF Ahead, Prefetches, PleLayers
        <3>2. {o \in P : o.op \in Collective} = {o \in {Op("ple_gather", i + 1)} : g /\ Ahead(r, i)}
            BY <1>4 DEF P, Collective
        <3> QED
            BY <3>1, <3>2
    <2>2. {o \in L : o.op \in Collective}
            = IF g /\ i \in PleLayers
              THEN {Op("ple_reduce", i), Op("ple_scatter", i)}
                   \cup (IF server.offload /\ i > 1 THEN {} ELSE {Op("ple_gather", i)})
              ELSE {}
        <3>1. g /\ i \in PleLayers => (HasPending(r, i) <=> server.offload /\ i > 1)
            BY DEF Prefetches
        <3>2. {o \in L : o.op \in Collective}
                = {o \in {Op("ple_gather", i)} : i \in PleLayers /\ ~HasPending(r, i) /\ g}
                  \cup {o \in {Op("ple_reduce", i), Op("ple_scatter", i)} : i \in PleLayers /\ g}
            BY <1>4 DEF L, Collective
        <3> QED
            BY <3>1, <3>2
    <2>3. {o \in A : o.op \in Collective} = {}
        BY <1>4, <1>7 DEF Collective
    <2>4. {o \in E : o.op \in Collective} = E
        BY <1>4, <1>8 DEF Collective
    <2>5. {o \in Q : o.op \in Collective}
            = {o \in P : o.op \in Collective} \cup {o \in L : o.op \in Collective}
              \cup {o \in A : o.op \in Collective} \cup {o \in E : o.op \in Collective}
        OBVIOUS
    <2> QED
        BY <2>1, <2>2, <2>3, <2>4, <2>5 DEF E, StepCollectives
<1> HIDE DEF Q
<1> QED
    BY <1>2, <1>3, <1>9, <1>10, <1>11, <1>12, <1>14, <1>15, <1>16

-----------------------------------------------------------------------------
(* The invariant of one rank *)

Shapes ==
    /\ server \in Server
    /\ forward \in 0 .. server.forwards /\ graph \in BOOLEAN
    /\ idle \subseteq Rank /\ idle # Rank
    /\ host \in [Rank -> {0} \cup Layers]
    /\ DOMAIN pending = Rank
    /\ \A r \in Rank : DOMAIN pending[r] \subseteq PleLayers \ {1}
    /\ main \in [Rank -> Seq(OpType)]
    /\ side \in [Rank -> SUBSET TaskType] /\ DOMAIN started = Rank
    /\ \A r \in Rank : started[r] \subseteq side[r]
    /\ DOMAIN buffer = Rank /\ \A r \in Rank : DOMAIN buffer[r] = PleLayers \X BOOLEAN
    /\ DOMAIN chosen = Rank
    /\ lastHc \in [Rank -> 0 .. server.forwards]
    /\ DOMAIN seen = Rank

\* The host of rank r has come to step i of forward f.
Reached(r, f, i) == f < forward \/ (f = forward /\ (host[r] = 0 \/ i < host[r]))

Behind(r, o) == Reached(r, o.forward, StepOf(server.offload, o))

\* A queue is in order, holds only what its host has come to, and one graph a forward.
Queues(r) ==
    /\ InOrder(server.offload, main[r])
    /\ \A o \in Queued(r) : Behind(r, o)
    /\ \A o \in Queued(r) : o.forward = forward => o.graph = graph
    /\ \A o, p \in Queued(r) : o.forward = p.forward => o.graph = p.graph
    /\ \A o \in Queued(r) : o.op \in {"start_rows", "wait_rows", "read_rows"} => o.layer \in PleLayers

\* The prefetch of the layer at hand is pending exactly when the layer before
\* started it; one that a failed forward left stops its host before it gets there.
Prefetched(r) == host[r] \in Layers => (HasPending(r, host[r]) <=> host[r] > 1 /\ Prefetches(r, host[r]))

\* Tasks wait for the operation that starts them, and nothing queued is before it.
Tasks(r) ==
    /\ \A o \in Queued(r) : o.op = "start_rows" => Task(o, "rows") \in side[r] \ started[r]
    /\ \A o \in Queued(r) : o.op = "start_index" => Task(o, "index") \in side[r] \ started[r]
    /\ \A t \in side[r] : Behind(r, StartOf(t))
    /\ \A t \in side[r] : t.op = "rows" => t.layer \in PleLayers
    /\ \A t \in started[r] : \A p \in Queued(r) : Before(server.offload, StartOf(t), p)
    /\ \A t \in side[r] : t.op = "index" => Task(t, "wait_index") \in Queued(r)

\* The task that gathers the rows of layer l in forward f.
RowsTask(f, l, g) == [op |-> "rows", forward |-> f, layer |-> l, graph |-> g]

\* Those rows, once gathered, stay until they are read.
Gathered(r, f, l, g) ==
    RowsTask(f, l, g) \notin side[r] =>
        /\ buffer[r][<<l, g>>] = <<f, l>>
        /\ \A u \in side[r] : u.op = "rows" /\ u.layer = l => u.forward >= f

Rows(r) ==
    /\ \A o \in Queued(r) : o.op = "read_rows" =>
        /\ Gathered(r, o.forward, o.layer, o.graph)
        /\ Task(o, "rows") \in side[r] => Task(o, "wait_rows") \in Queued(r)
    /\ host[r] \in Layers /\ HasPending(r, host[r]) => Gathered(r, forward, host[r], graph)

\* The indexer of o's layer has been started, or has run.
Indexed(r, o) == Task(o, "index") \notin Queued(r) /\ Task(o, "start_index") \notin Queued(r)

Selections(r) ==
    \A o \in Queued(r) : o.op = "attend" /\ Indexed(r, o) =>
        /\ Task(o, "index") \in side[r] \/ chosen[r] = <<o.forward, o.layer>>
        /\ \A p \in Queued(r) : Before(server.offload, Task(o, "start_index"), p)

RankInv(r) == Queues(r) /\ Prefetched(r) /\ Tasks(r) /\ Rows(r) /\ Selections(r)

ReadInv == Shapes /\ (\A r \in Rank : RankInv(r)) /\ ReadsAreOwn

\* A record of the same forward, layer and graph under another name.
LEMMA TaskFields ==
    ASSUME NEW o \in OpType \cup TaskType, NEW n
    PROVE  /\ Task(o, n).op = n /\ Task(o, n).forward = o.forward
           /\ Task(o, n).layer = o.layer /\ Task(o, n).graph = o.graph
           /\ n \in OpName => Task(o, n) \in OpType
           /\ n \in {"rows", "index"} => Task(o, n) \in TaskType
           /\ o.forward \in Nat /\ o.layer \in Layers /\ o.graph \in BOOLEAN
BY DEF Task, OpType, TaskType

LEMMA SameRecord ==
    ASSUME NEW o \in OpType, NEW p \in OpType,
           o.op = p.op, o.forward = p.forward, o.layer = p.layer, o.graph = p.graph
    PROVE  o = p
BY DEF OpType

LEMMA SameTask ==
    ASSUME NEW t \in TaskType, NEW u \in TaskType,
           t.op = u.op, t.forward = u.forward, t.layer = u.layer, t.graph = u.graph
    PROVE  t = u
BY DEF TaskType

\* What starts a task that an operation handed over is that operation.
LEMMA StartOfTask ==
    ASSUME NEW o \in OpType
    PROVE  /\ o.op = "start_rows" => StartOf(Task(o, "rows")) = o
           /\ o.op = "start_index" => StartOf(Task(o, "index")) = o
<1>1. \A n, m : Task(Task(o, n), m) = Task(o, m)
    BY DEF Task, OpType
<1>2. Task(o, "rows").op = "rows" /\ Task(o, "index").op = "index"
    BY TaskFields
<1>3. o.op = "start_rows" => Task(o, "start_rows") = o
    BY TaskFields, SameRecord DEF OpName
<1>4. o.op = "start_index" => Task(o, "start_index") = o
    BY TaskFields, SameRecord DEF OpName
<1> QED
    BY <1>1, <1>2, <1>3, <1>4 DEF StartOf

LEMMA RankTypes ==
    ASSUME Shapes, NEW r \in Rank
    PROVE  /\ main[r] \in Seq(OpType) /\ \A o \in Queued(r) : o \in OpType
           /\ \A t \in side[r] : t \in TaskType
           /\ \A t \in started[r] : t \in side[r]
           /\ \A t \in side[r] : StartOf(t) \in OpType
           /\ host[r] \in {0} \cup Layers /\ forward \in Nat /\ graph \in BOOLEAN
<1>1. main[r] \in Seq(OpType) /\ side[r] \in SUBSET TaskType
    BY DEF Shapes
<1>2. \A o \in Queued(r) : o \in OpType
    BY <1>1 DEF Queued, ToSet
<1>3. \A t \in side[r] : StartOf(t) \in OpType
    BY <1>1, TaskFields DEF StartOf, OpName
<1>4. forward \in Nat
    BY ForwardAssumption DEF Shapes
<1> QED
    BY <1>1, <1>2, <1>3, <1>4 DEF Shapes

\* What a host has come to is before what it enqueues next.
LEMMA BehindIsBefore ==
    ASSUME Shapes, NEW r \in Rank, host[r] \in Layers, NEW o \in OpType, NEW p \in OpType,
           Behind(r, o), p.forward = forward, StepOf(server.offload, p) = host[r]
    PROVE  Before(server.offload, o, p)
<1>1. CASE o.forward < forward
    BY <1>1 DEF Before
<1>2. CASE o.forward = forward /\ StepOf(server.offload, o) < host[r]
    BY <1>2, StepsAreBefore
<1>3. host[r] # 0
    BY PlanLayers
<1> QED
    BY <1>1, <1>2, <1>3 DEF Behind, Reached

\* What a layer finds pending changes with nothing else.
LEMMA PendingStays ==
    ASSUME NEW r \in Rank, server' = server, graph' = graph, idle' = idle, pending'[r] = pending[r]
    PROVE  \A l : (Prefetches(r, l)' <=> Prefetches(r, l)) /\ (HasPending(r, l)' <=> HasPending(r, l))
<1> SUFFICES ASSUME NEW l
             PROVE  (Prefetches(r, l)' <=> Prefetches(r, l)) /\ (HasPending(r, l)' <=> HasPending(r, l))
    OBVIOUS
<1>1. Prefetches(r, l)' <=> Prefetches(r, l)
    BY DEF Prefetches, IsIdle
<1> QED
    BY <1>1 DEF HasPending

-----------------------------------------------------------------------------
(* A layer is enqueued *)

Sides(Q) == {t \in TaskType : \E o \in Q : \/ o.op = "start_rows" /\ t = Task(o, "rows")
                                           \/ o.op = "start_index" /\ t = Task(o, "index")}

LEMMA EnqueueEffect ==
    ASSUME Shapes, NEW r \in Rank, RankInv(r), Enqueue(r), NEW i, i = host[r],
           NEW Q, Q = ToSet(Enqueued(r, i))
    PROVE  /\ i \in Layers
           /\ Queued(r)' = Queued(r) \cup Q /\ main'[r] \in Seq(OpType)
           /\ InOrder(server.offload, main'[r])
           /\ side'[r] = side[r] \cup Sides(Q)
           /\ host'[r] = IF i = Len(Plan) THEN 0 ELSE i + 1
           /\ i + 1 \in Layers => (HasPending(r, i + 1)' <=> Ahead(r, i))
           /\ DOMAIN pending'[r] = IF graph THEN DOMAIN pending[r]
                                   ELSE (DOMAIN pending[r] \ {i}) \cup {l \in {i + 1} : Ahead(r, i)}
           /\ \A q \in Rank \ {r} : /\ main'[q] = main[q] /\ side'[q] = side[q]
                                    /\ pending'[q] = pending[q] /\ host'[q] = host[q]
<1> DEFINE ops == Enqueued(r, i)
<1>1. i \in Layers /\ i \in Nat
    BY PlanLayers DEF Enqueue
<1>2. HasPending(r, i) <=> i > 1 /\ Prefetches(r, i)
    BY <1>1 DEF RankInv, Prefetched
<1>3. forward \in Nat /\ graph \in BOOLEAN /\ main[r] \in Seq(OpType) /\ \A o \in Queued(r) : o \in OpType
    BY RankTypes
<1>4. ops \in Seq(OpType) /\ InOrder(server.offload, ops)
    BY <1>1, <1>2, <1>3, LayerIsEnqueued
<1>5. \A o \in Q : o \in OpType /\ o.forward = forward /\ StepOf(server.offload, o) = i
    <2>1. \A o \in Q : o.forward = forward /\ StepOf(server.offload, o) = i
        BY <1>1, <1>2, <1>3, LayerIsEnqueued
    <2>2. \A o \in ToSet(ops) : o \in OpType
        <3> HIDE DEF ops
        <3> QED
            BY <1>4 DEF ToSet
    <2> QED
        BY <2>1, <2>2
<1>6. DOMAIN main = Rank /\ DOMAIN side = Rank /\ DOMAIN pending = Rank /\ DOMAIN host = Rank
    BY DEF Shapes
<1>7. main' = [main EXCEPT ![r] = @ \o ops]
    BY DEF Enqueue, Enqueued, Ahead
<1>8. side' = [side EXCEPT ![r] = @ \cup Sided(ops)]
    BY DEF Enqueue, Enqueued, Ahead
<1>9. \A o \in ToSet(main[r]), p \in ToSet(ops) : Before(server.offload, o, p)
    <2>1. \A o \in Queued(r) : Behind(r, o)
        BY DEF RankInv, Queues
    <2> QED
        BY <1>1, <1>3, <1>5, <2>1, BehindIsBefore DEF Queued
<1>10. InOrder(server.offload, main[r])
    BY DEF RankInv, Queues
<1> HIDE DEF ops
<1>11. main'[r] = main[r] \o ops
    BY <1>6, <1>7
<1>12. /\ main'[r] \in Seq(OpType) /\ InOrder(server.offload, main'[r])
       /\ ToSet(main'[r]) = ToSet(main[r]) \cup ToSet(ops)
    BY <1>3, <1>4, <1>9, <1>10, <1>11, AppendKeepsOrder
<1>13. Queued(r)' = Queued(r) \cup Q
    BY <1>12 DEF Queued, ops
<1>14. Sided(ops) = Sides(Q)
    <2>1. \A o \in Q : Task(o, "rows") \in TaskType /\ Task(o, "index") \in TaskType
        BY <1>5, TaskFields
    <2>2. ToSet(ops) = Q
        BY DEF ops
    <2> QED
        BY <2>1, <2>2 DEF Sided, Sides
<1>15. side'[r] = side[r] \cup Sides(Q)
    BY <1>6, <1>8, <1>14
<1>16. host'[r] = IF i = Len(Plan) THEN 0 ELSE i + 1
    BY <1>6 DEF Enqueue
<1>17. DOMAIN pending'[r] = IF graph THEN DOMAIN pending[r]
                            ELSE (DOMAIN pending[r] \ {i}) \cup {l \in {i + 1} : Ahead(r, i)}
    <2> DEFINE kept == [l \in DOMAIN pending[r] \ {i} |-> pending[r][l]]
    <2>1. pending'[r] = IF graph THEN pending[r]
                        ELSE IF Ahead(r, i) THEN [l \in DOMAIN kept \cup {i + 1} |-> forward] ELSE kept
        BY <1>6 DEF Enqueue, Ahead
    <2>2. DOMAIN kept = DOMAIN pending[r] \ {i}
        OBVIOUS
    <2> HIDE DEF kept
    <2> QED
        BY <2>1, <2>2
<1>18. i + 1 \in Layers => (HasPending(r, i + 1)' <=> Ahead(r, i))
    <2>1. ~graph => i + 1 \notin DOMAIN pending[r]
        BY DEF Enqueue, LeftOver
    <2>2. graph' = graph /\ (Prefetches(r, i + 1)' <=> Prefetches(r, i + 1))
        BY DEF Enqueue, Prefetches, IsIdle
    <2>3. CASE graph
        <3>1. i + 1 > 1
            BY <1>1, PlanLayers
        <3> QED
            BY <3>1, <2>2, <2>3 DEF HasPending, Ahead
    <2>4. CASE ~graph
        BY <2>1, <2>2, <2>4, <1>17 DEF HasPending
    <2> QED
        BY <2>3, <2>4
<1>19. \A q \in Rank \ {r} : /\ main'[q] = main[q] /\ side'[q] = side[q]
                             /\ pending'[q] = pending[q] /\ host'[q] = host[q]
    BY <1>6, <1>7, <1>8 DEF Enqueue
<1> QED
    BY <1>1, <1>12, <1>13, <1>15, <1>16, <1>17, <1>18, <1>19

LEMMA EnqueueKeepsRank ==
    ASSUME Shapes, NEW r \in Rank, RankInv(r), Enqueue(r)
    PROVE  RankInv(r)'
<1>0. PICK i, Q : i = host[r] /\ Q = ToSet(Enqueued(r, i))
    OBVIOUS
<1>1. /\ i \in Layers
      /\ Queued(r)' = Queued(r) \cup Q /\ main'[r] \in Seq(OpType)
      /\ InOrder(server.offload, main'[r])
      /\ side'[r] = side[r] \cup Sides(Q)
      /\ host'[r] = IF i = Len(Plan) THEN 0 ELSE i + 1
      /\ i + 1 \in Layers => (HasPending(r, i + 1)' <=> Ahead(r, i))
    BY <1>0, EnqueueEffect
<1>2. /\ server' = server /\ forward' = forward /\ graph' = graph /\ idle' = idle
      /\ started' = started /\ buffer' = buffer /\ chosen' = chosen
    BY DEF Enqueue
<1>3. HasPending(r, i) <=> i > 1 /\ Prefetches(r, i)
    BY <1>0, <1>1 DEF RankInv, Prefetched
<1>4. /\ \A o \in Queued(r) : o \in OpType
      /\ \A t \in side[r] : t \in TaskType /\ StartOf(t) \in OpType
      /\ \A t \in started[r] : t \in side[r]
      /\ forward \in Nat /\ graph \in BOOLEAN
    BY RankTypes
<1>5. /\ \A o \in Q : o.forward = forward /\ o.graph = graph /\ StepOf(server.offload, o) = i
      /\ \A o \in Q : o.op = "start_rows" => Ahead(r, i) /\ o = Op("start_rows", i + 1)
      /\ Ahead(r, i) => Op("start_rows", i + 1) \in Q
      /\ \A o \in Q : o.op \in {"wait_rows", "read_rows"} =>
            o = Op(o.op, i) /\ i \in PleLayers /\ HasPending(r, i) /\ Op("wait_rows", i) \in Q
      /\ \A o \in Q : o.op \in {"index", "start_index", "wait_index", "attend"} => o = Op(o.op, i)
      /\ \A o \in Q : o.op = "attend" => Op("index", i) \in Q \/ Op("start_index", i) \in Q
      /\ \A o \in Q : o.op = "start_index" => Op("wait_index", i) \in Q
    BY <1>0, <1>1, <1>3, <1>4, LayerIsEnqueued
<1>6. \A o \in Q : o \in OpType
    <2>1. Enqueued(r, i) \in Seq(OpType)
        BY <1>0, <1>1, <1>3, <1>4, LayerIsEnqueued
    <2> QED
        BY <1>0, <2>1 DEF ToSet
<1>7. i \in Nat \ {0} /\ Layers = 1 .. Len(Plan) /\ Len(Plan) \in Nat
    BY <1>1, PlanLayers
<1>8. \A l : Op("start_rows", l).layer = l /\ Op("read_rows", l).layer = l /\ Op("wait_rows", l).layer = l
    BY DEF Op
\* What was behind stays behind, and the new step is behind now.
<1>9. \A o \in OpType : Behind(r, o) => Behind(r, o)'
    <2> SUFFICES ASSUME NEW o \in OpType, Behind(r, o) PROVE Behind(r, o)'
        OBVIOUS
    <2>1. StepOf(server.offload, o) \in Nat
        BY Spots
    <2> QED
        BY <1>0, <1>1, <1>2, <1>7, <2>1 DEF Behind, Reached
<1>10. \A o \in OpType : o.forward = forward /\ StepOf(server.offload, o) = i => Behind(r, o)'
    BY <1>1, <1>2, <1>7 DEF Behind, Reached
<1>11. \A o, p \in OpType :
        Behind(r, o) /\ p.forward = forward /\ StepOf(server.offload, p) = i => Before(server.offload, o, p)
    BY <1>0, <1>1, BehindIsBefore
<1>12. \A o \in Queued(r) : Behind(r, o)
    BY DEF RankInv, Queues
<1>13. Queues(r)'
    <2>1. \A o \in Queued(r)' : Behind(r, o)'
        BY <1>1, <1>4, <1>5, <1>6, <1>9, <1>10, <1>12
    <2>2. \A o \in Queued(r)' : o.forward = forward => o.graph = graph
        BY <1>1, <1>5 DEF RankInv, Queues
    <2>3. \A o, p \in Queued(r)' : o.forward = p.forward => o.graph = p.graph
        BY <1>1, <1>5 DEF RankInv, Queues
    <2>4. \A o \in Q : o.op \in {"start_rows", "wait_rows", "read_rows"} => o.layer \in PleLayers
        <3>1. Ahead(r, i) => i + 1 \in PleLayers
            BY DEF Ahead, Prefetches
        <3>2. \A o \in Q : o.op = "start_rows" => o.layer \in PleLayers
            BY <3>1, <1>5, <1>8
        <3>3. \A o \in Q : o.op = "wait_rows" => o.layer \in PleLayers
            BY <1>5, <1>8
        <3>4. \A o \in Q : o.op = "read_rows" => o.layer \in PleLayers
            BY <1>5, <1>8
        <3> QED
            BY <3>2, <3>3, <3>4
    <2>5. \A o \in Queued(r)' : o.op \in {"start_rows", "wait_rows", "read_rows"} => o.layer \in PleLayers
        BY <1>1, <2>4 DEF RankInv, Queues
    <2> QED
        BY <1>1, <1>2, <2>1, <2>2, <2>3, <2>5 DEF Queues
<1>14. Prefetched(r)'
    <2>1. SUFFICES ASSUME host'[r] \in Layers
                   PROVE  HasPending(r, host[r])' <=> host'[r] > 1 /\ Prefetches(r, host[r])'
        BY DEF Prefetched
    <2>2. host'[r] = i + 1 /\ i + 1 \in Layers /\ i + 1 > 1
        BY <1>1, <1>7, <2>1
    <2>3. HasPending(r, i + 1)' <=> Prefetches(r, i + 1)
        BY <1>1, <2>2 DEF Ahead
    <2>4. Prefetches(r, host[r])' <=> Prefetches(r, i + 1)
        BY <1>2, <2>2 DEF Prefetches, IsIdle
    <2>5. HasPending(r, host[r])' <=> HasPending(r, i + 1)'
        BY <2>2 DEF HasPending, Prefetches, IsIdle
    <2> QED
        BY <2>2, <2>3, <2>4, <2>5
<1>15. Tasks(r)'
    <2>1. \A o \in OpType : Task(o, "rows") \in TaskType /\ Task(o, "index") \in TaskType
        BY TaskFields
    <2>2. \A o \in Q : o.op = "start_rows" => Task(o, "rows") \in Sides(Q)
        BY <1>6, <2>1 DEF Sides
    <2>3. \A o \in Q : o.op = "start_index" => Task(o, "index") \in Sides(Q)
        BY <1>6, <2>1 DEF Sides
    <2>4. \A o \in Q : o.op = "start_rows" => StartOf(Task(o, "rows")) = o
        BY <1>6, StartOfTask
    <2>5. \A o \in Q : o.op = "start_index" => StartOf(Task(o, "index")) = o
        BY <1>6, StartOfTask
    <2>6. \A t \in Sides(Q) : StartOf(t) \in Q
        BY <2>4, <2>5 DEF Sides
    <2>7. \A t \in Sides(Q) : ~Behind(r, StartOf(t))
        BY <1>0, <2>6, <1>5, <1>7, <1>4 DEF Behind, Reached
    <2>8. \A t \in side[r] : Behind(r, StartOf(t))
        BY DEF RankInv, Tasks
    <2>9. \A t \in Sides(Q) : t \notin started[r]
        BY <2>7, <2>8, <1>4
    <2>10. \A o \in Queued(r)' : o.op = "start_rows" => Task(o, "rows") \in side'[r] \ started'[r]
        BY <1>1, <1>2, <2>2, <2>9 DEF RankInv, Tasks
    <2>11. \A o \in Queued(r)' : o.op = "start_index" => Task(o, "index") \in side'[r] \ started'[r]
        BY <1>1, <1>2, <2>3, <2>9 DEF RankInv, Tasks
    <2>12. \A t \in side'[r] : Behind(r, StartOf(t))'
        <3>1. \A t \in Sides(Q) : Behind(r, StartOf(t))'
            BY <2>6, <1>5, <1>6, <1>10
        <3>2. \A t \in side[r] : Behind(r, StartOf(t))'
            BY <2>8, <1>4, <1>9
        <3> QED
            BY <1>1, <3>1, <3>2
    <2>13. \A t \in side'[r] : t.op = "rows" => t.layer \in PleLayers
        <3>1. \A t \in Sides(Q) : t.op = "rows" => t.layer \in PleLayers
            <4> SUFFICES ASSUME NEW t \in Sides(Q), t.op = "rows" PROVE t.layer \in PleLayers
                OBVIOUS
            <4>1. PICK o \in Q : o.op = "start_rows" /\ t = Task(o, "rows")
                BY <1>6, TaskFields DEF Sides
            <4>2. o.layer = i + 1 /\ Ahead(r, i)
                BY <4>1, <1>5, <1>8
            <4> QED
                BY <4>1, <4>2, <1>6, TaskFields DEF Ahead, Prefetches
        <3> QED
            BY <1>1, <3>1 DEF RankInv, Tasks
    <2>14. \A t \in started'[r] : \A p \in Queued(r)' : Before(server.offload, StartOf(t), p)
        <3>1. \A t \in started[r] : \A p \in Q : Before(server.offload, StartOf(t), p)
            BY <1>4, <1>5, <1>6, <1>11, <2>8
        <3> QED
            BY <1>1, <1>2, <3>1 DEF RankInv, Tasks
    <2>15. \A t \in side'[r] : t.op = "index" => Task(t, "wait_index") \in Queued(r)'
        <3>1. \A t \in Sides(Q) : t.op = "index" => Task(t, "wait_index") \in Q
            <4> SUFFICES ASSUME NEW t \in Sides(Q), t.op = "index" PROVE Task(t, "wait_index") \in Q
                OBVIOUS
            <4>1. PICK o \in Q : o.op = "start_index" /\ t = Task(o, "index")
                BY <1>6, TaskFields DEF Sides
            <4>2. o = Op("start_index", i) /\ Op("wait_index", i) \in Q
                BY <4>1, <1>5
            <4>3. Task(t, "wait_index") = Op("wait_index", i)
                <5>1. Task(t, "wait_index") \in OpType /\ Task(t, "wait_index").op = "wait_index"
                    BY TaskFields DEF Sides, OpName
                <5>2. /\ Task(t, "wait_index").forward = o.forward /\ Task(t, "wait_index").layer = o.layer
                      /\ Task(t, "wait_index").graph = o.graph
                    BY <4>1, <1>6, TaskFields DEF Sides
                <5>3. /\ Op("wait_index", i) \in OpType /\ Op("wait_index", i).op = "wait_index"
                      /\ Op("wait_index", i).forward = o.forward /\ Op("wait_index", i).layer = o.layer
                      /\ Op("wait_index", i).graph = o.graph
                    BY <4>2, <1>6 DEF Op
                <5> QED
                    BY <5>1, <5>2, <5>3, SameRecord
            <4> QED
                BY <4>2, <4>3
        <3> QED
            BY <1>1, <3>1 DEF RankInv, Tasks
    <2> QED
        BY <1>2, <2>10, <2>11, <2>12, <2>13, <2>14, <2>15 DEF Tasks
<1>16. Rows(r)'
    <2>1. ASSUME NEW t \in Sides(Q), t.op = "rows"
          PROVE  t = RowsTask(forward, i + 1, graph) /\ Ahead(r, i)
        <3>1. PICK o \in Q : o.op = "start_rows" /\ t = Task(o, "rows")
            BY <2>1, <1>6, TaskFields DEF Sides
        <3>2. o = Op("start_rows", i + 1) /\ Ahead(r, i)
            BY <3>1, <1>5
        <3> QED
            BY <3>1, <3>2 DEF Task, Op, RowsTask
    <2>2. \A f, l, g : RowsTask(f, l, g).op = "rows" /\ RowsTask(f, l, g).forward = f /\ RowsTask(f, l, g).layer = l
        BY DEF RowsTask
    <2>3. ASSUME NEW f \in Nat, NEW l, NEW g, f <= forward, Gathered(r, f, l, g)
          PROVE  Gathered(r, f, l, g)'
        <3>1. \A u \in Sides(Q) : u.op = "rows" => u.forward = forward
            BY <2>1, <2>2
        <3> QED
            BY <1>1, <1>2, <1>4, <2>3, <3>1 DEF Gathered
    <2>4. ASSUME NEW o \in Queued(r)', o.op = "read_rows"
          PROVE  /\ Gathered(r, o.forward, o.layer, o.graph)'
                 /\ Task(o, "rows") \in side'[r] => Task(o, "wait_rows") \in Queued(r)'
        <3>1. CASE o \in Queued(r)
            <4>1. o \in OpType /\ o.forward \in Nat /\ o.forward <= forward /\ Behind(r, o)
                BY <3>1, <1>4, <1>12 DEF OpType, Behind, Reached
            <4>2. Gathered(r, o.forward, o.layer, o.graph)'
                BY <2>3, <2>4, <3>1, <4>1 DEF RankInv, Rows
            <4>3. Task(o, "rows") \notin Sides(Q)
                <5>1. SUFFICES ASSUME Task(o, "rows") \in Sides(Q) PROVE FALSE
                    OBVIOUS
                <5>2. Task(o, "rows") = RowsTask(forward, i + 1, graph)
                    BY <2>1, <4>1, <5>1, TaskFields
                <5>3. o.forward = forward /\ o.layer = i + 1
                    BY <5>2, <2>2, <4>1, TaskFields
                <5>4. StepOf(server.offload, o) = i + 1
                    BY <5>3, <2>4 DEF StepOf
                <5> QED
                    BY <1>0, <4>1, <5>3, <5>4, <1>7, <1>4 DEF Behind, Reached
            <4> QED
                BY <2>4, <3>1, <4>2, <4>3, <1>1 DEF RankInv, Rows
        <3>2. CASE o \in Q
            <4>1. o = Op("read_rows", i) /\ HasPending(r, i) /\ Op("wait_rows", i) \in Q
                BY <2>4, <3>2, <1>5
            <4>2. o.forward = forward /\ o.layer = i /\ o.graph = graph
                BY <4>1 DEF Op
            <4>3. Gathered(r, forward, i, graph)
                BY <1>0, <4>1, <1>1 DEF RankInv, Rows
            <4>4. Gathered(r, o.forward, o.layer, o.graph)'
                <5>1. Gathered(r, o.forward, o.layer, o.graph)
                    BY <4>2, <4>3
                <5>2. o.forward \in Nat /\ o.forward <= forward
                    BY <4>2, <1>4
                <5> QED
                    BY <5>1, <5>2, <2>3
            <4>5. Task(o, "wait_rows") = Op("wait_rows", i)
                BY <4>1 DEF Task, Op
            <4> QED
                BY <4>1, <4>2, <4>4, <4>5, <1>1
        <3> QED
            BY <3>1, <3>2, <2>4, <1>1
    <2>5. ASSUME host'[r] \in Layers, HasPending(r, host[r])'
          PROVE  Gathered(r, forward, host[r], graph)'
        <3>1. host'[r] = i + 1 /\ i + 1 \in Layers
            BY <2>5, <1>1, <1>7
        <3>2. Ahead(r, i)
            <4>1. HasPending(r, i + 1)'
                BY <3>1, <2>5 DEF HasPending, Prefetches, IsIdle
            <4> QED
                BY <3>1, <4>1, <1>1
        <3>3. Op("start_rows", i + 1) \in Q
            BY <3>2, <1>5
        <3>4. Task(Op("start_rows", i + 1), "rows") = RowsTask(forward, i + 1, graph)
            BY DEF Task, Op, RowsTask
        <3>5. RowsTask(forward, i + 1, graph) \in Sides(Q)
            BY <3>1, <3>3, <3>4, <1>4 DEF Sides, TaskType, RowsTask, Op
        <3> QED
            BY <3>1, <3>5, <1>1, <1>2 DEF Gathered
    <2> QED
        BY <2>4, <2>5, <1>2 DEF Rows
<1>17. Selections(r)'
    <2> SUFFICES ASSUME NEW o \in Queued(r)', o.op = "attend", Indexed(r, o)'
                 PROVE  /\ Task(o, "index") \in side'[r] \/ chosen'[r] = <<o.forward, o.layer>>
                        /\ \A p \in Queued(r)' : Before(server'.offload, Task(o, "start_index"), p)
        BY DEF Selections
    <2>1. Task(o, "index") \notin Queued(r)' /\ Task(o, "start_index") \notin Queued(r)'
        BY DEF Indexed
    <2>2. o \notin Q
        <3>1. SUFFICES ASSUME o \in Q PROVE FALSE
            OBVIOUS
        <3>2. o = Op("attend", i) /\ (Op("index", i) \in Q \/ Op("start_index", i) \in Q)
            BY <3>1, <1>5
        <3>3. Task(o, "index") = Op("index", i) /\ Task(o, "start_index") = Op("start_index", i)
            BY <3>2 DEF Task, Op
        <3> QED
            BY <2>1, <3>2, <3>3, <1>1
    <2>3. o \in Queued(r) /\ o \in OpType
        BY <2>2, <1>1, <1>4
    <2>4. Indexed(r, o)
        BY <2>1, <1>1 DEF Indexed
    <2>5. /\ Task(o, "index") \in side[r] \/ chosen[r] = <<o.forward, o.layer>>
          /\ \A p \in Queued(r) : Before(server.offload, Task(o, "start_index"), p)
        BY <2>3, <2>4 DEF RankInv, Selections
    <2>6. Task(o, "start_index") \in OpType /\ Behind(r, Task(o, "start_index"))
        <3>1. /\ Task(o, "start_index") \in OpType /\ Task(o, "start_index").op = "start_index"
              /\ Task(o, "start_index").layer = o.layer /\ Task(o, "start_index").forward = o.forward
            BY <2>3, TaskFields DEF OpName
        <3>2. StepOf(server.offload, Task(o, "start_index")) = o.layer /\ StepOf(server.offload, o) = o.layer
            BY <3>1 DEF StepOf
        <3> QED
            BY <2>3, <3>1, <3>2, <1>12 DEF Behind
    <2>7. \A p \in Q : Before(server.offload, Task(o, "start_index"), p)
        BY <2>6, <1>5, <1>6, <1>11
    <2> QED
        BY <2>5, <2>7, <1>1, <1>2
<1> QED
    BY <1>13, <1>14, <1>15, <1>16, <1>17 DEF RankInv

-----------------------------------------------------------------------------
(* An operation is run *)

\* The order of the operations of a selection and of a read, by their layers.
LEMMA OrderInLayers ==
    ASSUME NEW offload, NEW o \in OpType
    PROVE  /\ o.op = "read_rows" => ~Before(offload, o, Task(o, "wait_rows"))
           /\ o.op = "attend" => \A n \in {"index", "start_index", "wait_index"} :
                                    ~Before(offload, o, Task(o, n))
           /\ o.op = "attend" => \A p \in OpType : p.op = "index" =>
                ~(Before(offload, Task(o, "start_index"), p) /\ Before(offload, p, o))
           /\ o.op = "attend" => \A t \in TaskType :
                t.op = "index" /\ Before(offload, Task(o, "start_index"), Task(t, "wait_index"))
                               /\ Before(offload, StartOf(t), o)
                    => t.forward = o.forward /\ t.layer = o.layer
<1>1. ASSUME NEW p \in OpType, p.op \in {"wait_rows", "read_rows", "index", "start_index", "wait_index", "attend"}
      PROVE  Spot(offload, p) = 12 * p.layer + (CASE p.op = "wait_rows" -> 3 [] p.op = "read_rows" -> 5
                                                  [] p.op \in {"index", "start_index"} -> 7
                                                  [] p.op = "wait_index" -> 8 [] p.op = "attend" -> 9)
    <2>1. StepOf(offload, p) = p.layer
        BY <1>1 DEF StepOf
    <2> QED
        BY <1>1, <2>1 DEF Spot, PlaceOf
<1>2. \A p \in OpType : /\ p.forward \in Nat /\ p.layer \in Nat
                        /\ (p.op = "read_rows" => Spot(offload, p) = 12 * p.layer + 5)
                        /\ (p.op = "wait_rows" => Spot(offload, p) = 12 * p.layer + 3)
                        /\ (p.op = "index" => Spot(offload, p) = 12 * p.layer + 7)
                        /\ (p.op = "start_index" => Spot(offload, p) = 12 * p.layer + 7)
                        /\ (p.op = "wait_index" => Spot(offload, p) = 12 * p.layer + 8)
                        /\ (p.op = "attend" => Spot(offload, p) = 12 * p.layer + 9)
    <2>1. \A p \in OpType : p.forward \in Nat /\ p.layer \in Nat
        BY PlanLayers DEF OpType
    <2> QED
        BY <1>1, <2>1
<1>3. \A n \in OpName : /\ Task(o, n) \in OpType /\ Task(o, n).op = n
                        /\ Task(o, n).forward = o.forward /\ Task(o, n).layer = o.layer
    BY TaskFields
<1>4. \A x \in Nat : ~(12 * x + 5 < 12 * x + 3) /\ ~(12 * x + 9 < 12 * x + 7) /\ ~(12 * x + 9 < 12 * x + 8)
    OBVIOUS
<1>5. \A x, y \in Nat : ~(12 * x + 7 < 12 * y + 7 /\ 12 * y + 7 < 12 * x + 9)
    OBVIOUS
<1>6. \A x, y \in Nat : 12 * x + 7 < 12 * y + 8 /\ 12 * y + 7 < 12 * x + 9 => x = y
    OBVIOUS
<1>7. \A x, y \in Nat : ~(x < x) /\ ~(x < y /\ y < x)
    OBVIOUS
<1>8. o.op = "read_rows" => ~Before(offload, o, Task(o, "wait_rows"))
    BY <1>2, <1>3, <1>4, <1>7 DEF Before, OpName
<1>9. o.op = "attend" => \A n \in {"index", "start_index", "wait_index"} : ~Before(offload, o, Task(o, n))
    BY <1>2, <1>3, <1>4, <1>7 DEF Before, OpName
<1>10. ASSUME o.op = "attend", NEW p \in OpType, p.op = "index"
       PROVE  ~(Before(offload, Task(o, "start_index"), p) /\ Before(offload, p, o))
    <2>1. /\ Spot(offload, Task(o, "start_index")) = 12 * o.layer + 7
          /\ Task(o, "start_index").forward = o.forward
        BY <1>2, <1>3 DEF OpName
    <2>2. Spot(offload, p) = 12 * p.layer + 7 /\ Spot(offload, o) = 12 * o.layer + 9
        BY <1>2, <1>10
    <2>3. o.layer \in Nat /\ p.layer \in Nat /\ o.forward \in Nat /\ p.forward \in Nat
        BY <1>2
    <2> QED
        BY <2>1, <2>2, <2>3, <1>5, <1>7 DEF Before
<1>11. ASSUME o.op = "attend", NEW t \in TaskType, t.op = "index",
              Before(offload, Task(o, "start_index"), Task(t, "wait_index")), Before(offload, StartOf(t), o)
       PROVE  t.forward = o.forward /\ t.layer = o.layer
    <2>1. /\ Spot(offload, Task(o, "start_index")) = 12 * o.layer + 7
          /\ Task(o, "start_index").forward = o.forward /\ Spot(offload, o) = 12 * o.layer + 9
        BY <1>2, <1>3, <1>11 DEF OpName
    <2>2. StartOf(t) = Task(t, "start_index")
        BY <1>11 DEF StartOf
    <2>3. \A n \in OpName : /\ Task(t, n) \in OpType /\ Task(t, n).op = n
                            /\ Task(t, n).forward = t.forward /\ Task(t, n).layer = t.layer
        BY TaskFields
    <2>4. /\ Spot(offload, Task(t, "start_index")) = 12 * t.layer + 7
          /\ Spot(offload, Task(t, "wait_index")) = 12 * t.layer + 8
          /\ Task(t, "start_index").forward = t.forward /\ Task(t, "wait_index").forward = t.forward
        BY <1>2, <2>3 DEF OpName
    <2>5. o.layer \in Nat /\ t.layer \in Nat /\ o.forward \in Nat /\ t.forward \in Nat
        BY <1>2, TaskFields, PlanLayers
    <2>6. t.forward = o.forward
        BY <1>11, <2>1, <2>2, <2>4, <2>5, <1>7 DEF Before
    <2> QED
        BY <1>11, <2>1, <2>2, <2>4, <2>5, <2>6, <1>6, <1>7 DEF Before
<1> QED
    BY <1>8, <1>9, <1>10, <1>11

\* The head of a queue: what is left comes after it.
LEMMA HeadOfQueue ==
    ASSUME Shapes, NEW r \in Rank, RankInv(r), main[r] # <<>>
    PROVE  /\ Head(main[r]) \in Queued(r) /\ Head(main[r]) \in OpType
           /\ Tail(main[r]) \in Seq(OpType) /\ InOrder(server.offload, Tail(main[r]))
           /\ ToSet(Tail(main[r])) = Queued(r) \ {Head(main[r])}
           /\ \A p \in Queued(r) : p = Head(main[r]) \/ Before(server.offload, Head(main[r]), p)
<1>1. main[r] \in Seq(OpType) /\ InOrder(server.offload, main[r])
    BY RankTypes DEF RankInv, Queues
<1> QED
    BY <1>1, HeadIsFirst DEF Queued

\* Rows and a selection that are read are those of the operation that reads.
LEMMA HeadReadsOwn ==
    ASSUME Shapes, NEW r \in Rank, RankInv(r), main[r] # <<>>, NEW o, o = Head(main[r])
    PROVE  /\ o.op = "read_rows" => buffer[r][BufferOf(o)] = <<o.forward, o.layer>>
           /\ o.op = "attend" => chosen[r] = <<o.forward, o.layer>>
<1>1. /\ o \in Queued(r) /\ o \in OpType
      /\ \A p \in Queued(r) : p = o \/ Before(server.offload, o, p)
    BY HeadOfQueue
<1>2. \A n : Task(o, n).op = n
    BY <1>1, TaskFields
<1>3. ASSUME o.op = "read_rows" PROVE buffer[r][BufferOf(o)] = <<o.forward, o.layer>>
    <2>1. Task(o, "wait_rows") \notin Queued(r)
        BY <1>1, <1>2, <1>3, OrderInLayers
    <2>2. Task(o, "rows") \notin side[r]
        BY <1>1, <1>3, <2>1 DEF RankInv, Rows
    <2>3. Task(o, "rows") = RowsTask(o.forward, o.layer, o.graph)
        BY <1>1 DEF Task, OpType, RowsTask
    <2>4. Gathered(r, o.forward, o.layer, o.graph)
        BY <1>1, <1>3 DEF RankInv, Rows
    <2> QED
        BY <2>2, <2>3, <2>4 DEF Gathered, BufferOf
<1>4. ASSUME o.op = "attend" PROVE chosen[r] = <<o.forward, o.layer>>
    <2>1. \A n \in {"index", "start_index", "wait_index"} : Task(o, n) \notin Queued(r)
        BY <1>1, <1>2, <1>4, OrderInLayers
    <2>2. Task(o, "index") \in side[r] \/ chosen[r] = <<o.forward, o.layer>>
        BY <1>1, <1>4, <2>1 DEF RankInv, Selections, Indexed
    <2>3. Task(o, "index") \notin side[r]
        <3>1. SUFFICES ASSUME Task(o, "index") \in side[r] PROVE FALSE
            OBVIOUS
        <3>2. Task(Task(o, "index"), "wait_index") \in Queued(r)
            BY <3>1, <1>2 DEF RankInv, Tasks
        <3>3. Task(Task(o, "index"), "wait_index") = Task(o, "wait_index")
            BY <1>1 DEF Task, OpType
        <3> QED
            BY <2>1, <3>2, <3>3
    <2> QED
        BY <2>2, <2>3
<1> QED
    BY <1>3, <1>4

\* The main stream of r takes its head: a collective, or what Run does with it.
Taken(r, o) ==
    /\ main[r] # <<>> /\ o = Head(main[r]) /\ ~Waits(r, o)
    /\ main'[r] = Tail(main[r])
    /\ started'[r] = CASE o.op = "start_rows" -> started[r] \cup {Task(o, "rows")}
                       [] o.op = "start_index" -> started[r] \cup {Task(o, "index")}
                       [] OTHER -> started[r]
    /\ chosen'[r] = IF o.op = "index" THEN <<o.forward, o.layer>> ELSE chosen[r]
    /\ UNCHANGED <<server, forward, idle, graph, host, pending, side, buffer>>

LEMMA TakenKeepsRank ==
    ASSUME Shapes, NEW r \in Rank, RankInv(r), NEW o, Taken(r, o)
    PROVE  RankInv(r)'
<1>1. /\ o \in Queued(r) /\ o \in OpType /\ Tail(main[r]) \in Seq(OpType)
      /\ InOrder(server.offload, Tail(main[r])) /\ ToSet(Tail(main[r])) = Queued(r) \ {o}
      /\ \A p \in Queued(r) : p = o \/ Before(server.offload, o, p)
    BY HeadOfQueue DEF Taken
<1>2. /\ server' = server /\ forward' = forward /\ graph' = graph /\ idle' = idle
      /\ host' = host /\ pending' = pending /\ side' = side /\ buffer' = buffer
    BY DEF Taken
<1>3. main'[r] = Tail(main[r]) /\ Queued(r)' = Queued(r) \ {o}
    BY <1>1 DEF Queued, Taken
<1>4. /\ \A p \in Queued(r) : p \in OpType
      /\ \A t \in side[r] : t \in TaskType /\ StartOf(t) \in OpType
    BY RankTypes
<1>5. \A p \in Queued(r)' : Before(server.offload, o, p)
    BY <1>1, <1>3
<1>6. Queues(r)'
    <2>1. \A p \in Queued(r)' : Behind(r, p)'
        BY <1>2, <1>3 DEF RankInv, Queues, Behind, Reached
    <2> QED
        BY <1>1, <1>2, <1>3, <2>1 DEF RankInv, Queues
<1>7. Prefetched(r)'
    BY <1>2, PendingStays DEF RankInv, Prefetched
<1>8. Tasks(r)'
    <2>1. \A p \in Queued(r)' : p.op = "start_rows" => Task(p, "rows") \in side'[r] \ started'[r]
        <3> SUFFICES ASSUME NEW p \in Queued(r)', p.op = "start_rows"
                     PROVE  Task(p, "rows") \in side[r] \ started'[r]
            BY <1>2
        <3>1. p \in Queued(r) /\ p # o /\ Task(p, "rows") \in side[r] \ started[r]
            BY <1>3 DEF RankInv, Tasks
        <3>2. p \in OpType
            BY <3>1, <1>4
        <3>3. o.op = "start_rows" => Task(p, "rows") # Task(o, "rows")
            BY <3>1, <3>2, <1>1, TaskFields, SameRecord
        <3>4. Task(p, "rows") # Task(o, "index")
            BY <3>2, <1>1, TaskFields
        <3> QED
            BY <3>1, <3>3, <3>4 DEF Taken
    <2>2. \A p \in Queued(r)' : p.op = "start_index" => Task(p, "index") \in side'[r] \ started'[r]
        <3> SUFFICES ASSUME NEW p \in Queued(r)', p.op = "start_index"
                     PROVE  Task(p, "index") \in side[r] \ started'[r]
            BY <1>2
        <3>1. p \in Queued(r) /\ p # o /\ Task(p, "index") \in side[r] \ started[r]
            BY <1>3 DEF RankInv, Tasks
        <3>2. p \in OpType
            BY <3>1, <1>4
        <3>3. o.op = "start_index" => Task(p, "index") # Task(o, "index")
            BY <3>1, <3>2, <1>1, TaskFields, SameRecord
        <3>4. Task(p, "index") # Task(o, "rows")
            BY <3>2, <1>1, TaskFields
        <3> QED
            BY <3>1, <3>3, <3>4 DEF Taken
    <2>3. \A t \in side'[r] : Behind(r, StartOf(t))'
        BY <1>2 DEF RankInv, Tasks, Behind, Reached
    <2>4. \A t \in side'[r] : t.op = "rows" => t.layer \in PleLayers
        BY <1>2 DEF RankInv, Tasks
    <2>5. \A t \in started'[r] : \A p \in Queued(r)' : Before(server.offload, StartOf(t), p)
        <3>1. \A t \in started[r] : \A p \in Queued(r)' : Before(server.offload, StartOf(t), p)
            BY <1>3 DEF RankInv, Tasks
        <3>2. \A t \in started'[r] : t \in started[r] \/ StartOf(t) = o
            BY <1>1, StartOfTask DEF Taken
        <3> QED
            BY <3>1, <3>2, <1>5
    <2>6. \A t \in side'[r] : t.op = "index" => Task(t, "wait_index") \in Queued(r)'
        <3> SUFFICES ASSUME NEW t \in side[r], t.op = "index"
                     PROVE  Task(t, "wait_index") \in Queued(r) /\ Task(t, "wait_index") # o
            BY <1>2, <1>3
        <3>1. Task(t, "wait_index") \in Queued(r)
            BY DEF RankInv, Tasks
        <3>2. Task(t, "wait_index") # o
            <4>1. SUFFICES ASSUME Task(t, "wait_index") = o PROVE FALSE
                OBVIOUS
            <4>2. o.op = "wait_index" /\ Task(o, "index") \in TaskType /\ t \in TaskType
                BY <4>1, <1>1, <1>4, TaskFields
            <4>3. Task(o, "index") = t
                BY <4>1, <4>2, <1>1, TaskFields, SameTask
            <4> QED
                BY <4>2, <4>3 DEF Taken, Waits
        <3> QED
            BY <3>1, <3>2
    <2> QED
        BY <1>2, <2>1, <2>2, <2>3, <2>4, <2>5, <2>6 DEF Tasks
<1>9. Rows(r)'
    <2>1. \A f, l, g : Gathered(r, f, l, g) => Gathered(r, f, l, g)'
        BY <1>2 DEF Gathered
    <2>2. ASSUME NEW p \in Queued(r)', p.op = "read_rows"
          PROVE  /\ Gathered(r, p.forward, p.layer, p.graph)'
                 /\ Task(p, "rows") \in side'[r] => Task(p, "wait_rows") \in Queued(r)'
        <3>1. p \in Queued(r) /\ p \in OpType
            BY <1>3, <1>4
        <3>2. /\ Gathered(r, p.forward, p.layer, p.graph)
              /\ Task(p, "rows") \in side[r] => Task(p, "wait_rows") \in Queued(r)
            BY <2>2, <3>1 DEF RankInv, Rows
        <3>3. Task(p, "rows") \in side[r] => Task(p, "wait_rows") # o
            <4>1. SUFFICES ASSUME Task(p, "rows") \in side[r], Task(p, "wait_rows") = o PROVE FALSE
                OBVIOUS
            <4>2. o.op = "wait_rows" /\ Task(o, "rows") \in TaskType /\ Task(p, "rows") \in TaskType
                BY <4>1, <3>1, <1>1, TaskFields
            <4>3. Task(o, "rows") = Task(p, "rows")
                BY <4>1, <4>2, <3>1, <1>1, TaskFields, SameTask
            <4> QED
                BY <4>1, <4>2, <4>3 DEF Taken, Waits
        <3> QED
            BY <2>1, <3>2, <3>3, <1>2, <1>3
    <2>3. host'[r] \in Layers /\ HasPending(r, host[r])' => Gathered(r, forward, host[r], graph)'
        <3>1. HasPending(r, host[r])' <=> HasPending(r, host[r])
            BY <1>2 DEF HasPending, Prefetches, IsIdle
        <3> QED
            BY <1>2, <3>1 DEF RankInv, Rows, Gathered
    <2> QED
        BY <2>2, <2>3, <1>2 DEF Rows
<1>10. Selections(r)'
    <2> SUFFICES ASSUME NEW p \in Queued(r)', p.op = "attend", Indexed(r, p)'
                 PROVE  /\ Task(p, "index") \in side'[r] \/ chosen'[r] = <<p.forward, p.layer>>
                        /\ \A q \in Queued(r)' : Before(server'.offload, Task(p, "start_index"), q)
        BY DEF Selections
    <2>1. p \in Queued(r) /\ p \in OpType /\ p # o /\ Before(server.offload, o, p)
        BY <1>3, <1>4, <1>5
    <2>2. /\ Task(p, "index") \in OpType /\ Task(p, "start_index") \in OpType
          /\ Task(p, "index").op = "index" /\ Task(p, "index").forward = p.forward
          /\ Task(p, "index").layer = p.layer
          /\ Task(p, "start_index").op = "start_index" /\ Task(p, "start_index").forward = p.forward
          /\ Task(p, "start_index").layer = p.layer
        BY <2>1, TaskFields DEF OpName
    <2>3. CASE Indexed(r, p)
        <3>1. /\ Task(p, "index") \in side[r] \/ chosen[r] = <<p.forward, p.layer>>
              /\ \A q \in Queued(r) : Before(server.offload, Task(p, "start_index"), q)
            BY <2>1, <2>3 DEF RankInv, Selections
        <3>2. o.op # "index"
            BY <2>1, <3>1, <1>1, OrderInLayers
        <3>3. chosen'[r] = chosen[r]
            BY <3>2 DEF Taken
        <3> QED
            BY <3>1, <3>3, <1>2, <1>3
    <2>4. CASE o = Task(p, "index")
        <3>1. chosen'[r] = <<p.forward, p.layer>>
            BY <2>2, <2>4 DEF Taken
        <3>2. \A q \in OpType : Before(server.offload, o, q) => Before(server.offload, Task(p, "start_index"), q)
            BY <2>2, <2>4 DEF Before, Spot, StepOf, PlaceOf
        <3> QED
            BY <3>1, <3>2, <1>2, <1>3, <1>4, <1>5
    <2>5. CASE o = Task(p, "start_index")
        <3>1. Task(o, "index") = Task(p, "index")
            BY <2>1, <2>5 DEF Task, OpType
        <3>2. Task(p, "index") \in side[r]
            BY <3>1, <2>2, <2>5, <1>1 DEF RankInv, Tasks
        <3> QED
            BY <3>2, <2>5, <1>2, <1>5
    <2>6. Indexed(r, p) \/ o = Task(p, "index") \/ o = Task(p, "start_index")
        BY <1>3 DEF Indexed
    <2> QED
        BY <2>3, <2>4, <2>5, <2>6
<1> QED
    BY <1>6, <1>7, <1>8, <1>9, <1>10 DEF RankInv

-----------------------------------------------------------------------------
(* A side stream runs a task *)

LEMMA RunSideKeepsRank ==
    ASSUME Shapes, NEW r \in Rank, RankInv(r), RunSide(r)
    PROVE  RankInv(r)'
<1>1. PICK t \in side[r] \cap started[r] :
        /\ \A u \in side[r] : u.op = t.op /\ u.layer = t.layer => u.forward >= t.forward
        /\ side' = [side EXCEPT ![r] = @ \ {t}]
        /\ started' = [started EXCEPT ![r] = @ \ {t}]
        /\ buffer' = IF t.op = "rows"
                     THEN [buffer EXCEPT ![r][BufferOf(t)] = <<t.forward, t.layer>>] ELSE buffer
        /\ chosen' = IF t.op = "index" THEN [chosen EXCEPT ![r] = <<t.forward, t.layer>>] ELSE chosen
    BY DEF RunSide
<1>2. /\ server' = server /\ forward' = forward /\ graph' = graph /\ idle' = idle
      /\ host' = host /\ pending' = pending /\ main' = main
    BY DEF RunSide
<1>3. /\ \A p \in Queued(r) : p \in OpType
      /\ \A u \in side[r] : u \in TaskType /\ StartOf(u) \in OpType
      /\ forward \in Nat /\ host[r] \in {0} \cup Layers
    BY RankTypes
<1>4. side'[r] = side[r] \ {t} /\ started'[r] = started[r] \ {t}
    BY <1>1 DEF Shapes
<1>5. chosen'[r] = IF t.op = "index" THEN <<t.forward, t.layer>> ELSE chosen[r]
    BY <1>1 DEF Shapes
<1>6. /\ t.op = "rows" => buffer'[r][<<t.layer, t.graph>>] = <<t.forward, t.layer>>
      /\ \A b : t.op # "rows" \/ b # <<t.layer, t.graph>> => buffer'[r][b] = buffer[r][b]
    <2>1. r \in DOMAIN buffer /\ DOMAIN buffer[r] = PleLayers \X BOOLEAN
        BY DEF Shapes
    <2>2. t.op = "rows" => <<t.layer, t.graph>> \in PleLayers \X BOOLEAN
        BY <1>1, <1>3 DEF RankInv, Tasks, TaskType
    <2>3. CASE t.op = "rows"
        <3>1. buffer'[r] = [buffer[r] EXCEPT ![<<t.layer, t.graph>>] = <<t.forward, t.layer>>]
            BY <1>1, <2>1, <2>3 DEF BufferOf
        <3>2. PICK b, v : b = <<t.layer, t.graph>> /\ v = <<t.forward, t.layer>>
            OBVIOUS
        <3>3. b \in DOMAIN buffer[r] /\ buffer'[r] = [buffer[r] EXCEPT ![b] = v]
            BY <2>1, <2>2, <2>3, <3>1, <3>2
        <3>4. buffer'[r][b] = v
            BY <3>3
        <3>5. \A c : c # b => buffer'[r][c] = buffer[r][c]
            BY <3>3
        <3> QED
            BY <2>3, <3>2, <3>4, <3>5
    <2>4. CASE t.op # "rows"
        BY <2>4, <1>1
    <2> QED
        BY <2>3, <2>4
<1>7. Queued(r)' = Queued(r)
    BY <1>2 DEF Queued
<1>8. Queues(r)'
    BY <1>2, <1>7 DEF RankInv, Queues, Behind, Reached
<1>9. Prefetched(r)'
    BY <1>2, PendingStays DEF RankInv, Prefetched
<1>10. Tasks(r)'
    <2>1. \A u \in side'[r] : Behind(r, StartOf(u))'
        BY <1>2, <1>4 DEF RankInv, Tasks, Behind, Reached
    <2>2. \A o \in Queued(r) : o.op = "start_rows" => Task(o, "rows") \in side'[r] \ started'[r]
        BY <1>1, <1>4 DEF RankInv, Tasks
    <2>3. \A o \in Queued(r) : o.op = "start_index" => Task(o, "index") \in side'[r] \ started'[r]
        BY <1>1, <1>4 DEF RankInv, Tasks
    <2> QED
        BY <1>2, <1>4, <1>7, <2>1, <2>2, <2>3 DEF RankInv, Tasks
\* The rows of a forward that is still to be read are not overwritten.
<1>11. ASSUME NEW f \in Nat, NEW l, NEW g, Gathered(r, f, l, g),
              t.op = "rows" /\ t.layer = l => t.forward <= f
       PROVE  Gathered(r, f, l, g)'
    <2> SUFFICES ASSUME RowsTask(f, l, g) \notin side'[r]
                 PROVE  /\ buffer'[r][<<l, g>>] = <<f, l>>
                        /\ \A u \in side'[r] : u.op = "rows" /\ u.layer = l => u.forward >= f
        BY DEF Gathered
    <2>1. CASE RowsTask(f, l, g) = t
        <3>1. t.op = "rows" /\ t.layer = l /\ t.graph = g /\ t.forward = f
            BY <2>1 DEF RowsTask
        <3> QED
            BY <3>1, <1>1, <1>4, <1>6
    <2>2. CASE RowsTask(f, l, g) # t
        <3>1. RowsTask(f, l, g) \notin side[r]
            BY <2>2, <1>4
        <3>2. /\ buffer[r][<<l, g>>] = <<f, l>>
              /\ \A u \in side[r] : u.op = "rows" /\ u.layer = l => u.forward >= f
            BY <3>1, <1>11 DEF Gathered
        <3>3. t.op # "rows" \/ <<l, g>> # <<t.layer, t.graph>>
            <4>1. SUFFICES ASSUME t.op = "rows", l = t.layer, g = t.graph PROVE FALSE
                OBVIOUS
            <4>2. t.forward >= f /\ t.forward <= f /\ t \in TaskType
                BY <4>1, <3>2, <1>1, <1>3, <1>11
            <4>3. t.forward = f
                BY <4>2 DEF TaskType
            <4> QED
                BY <2>2, <4>1, <4>2, <4>3 DEF RowsTask, TaskType
        <3>4. buffer'[r][<<l, g>>] = buffer[r][<<l, g>>]
            BY <3>3, <1>6
        <3> QED
            BY <3>2, <3>4, <1>4
    <2> QED
        BY <2>1, <2>2
<1>12. Rows(r)'
    <2>1. ASSUME NEW o \in Queued(r), o.op = "read_rows" PROVE Gathered(r, o.forward, o.layer, o.graph)'
        <3>1. o.forward \in Nat /\ t.forward \in Nat /\ StartOf(t).forward = t.forward
            BY <1>1, <1>3, TaskFields DEF OpType, TaskType, StartOf
        <3>2. t.forward <= o.forward
            BY <1>1, <3>1 DEF RankInv, Tasks, Before
        <3> QED
            BY <2>1, <3>1, <3>2, <1>11 DEF RankInv, Rows
    <2>2. ASSUME host[r] \in Layers, HasPending(r, host[r])
          PROVE  Gathered(r, forward, host[r], graph)'
        <3>1. PICK f, l, g : f = forward /\ l = host[r] /\ g = graph
            OBVIOUS
        <3>2. Gathered(r, f, l, g)
            BY <2>2, <3>1 DEF RankInv, Rows
        <3>3. t.forward \in Nat /\ StartOf(t).forward = t.forward
            BY <1>1, <1>3, TaskFields DEF TaskType, StartOf
        <3>4. t.forward <= f
            <4>1. Behind(r, StartOf(t))
                BY <1>1 DEF RankInv, Tasks
            <4> QED
                BY <4>1, <3>1, <3>3, <1>3 DEF Behind, Reached
        <3>5. Gathered(r, f, l, g)'
            BY <3>1, <3>2, <3>4, <1>3, <1>11
        <3> QED
            BY <3>1, <3>5, <1>2 DEF Gathered
    <2>3. HasPending(r, host[r])' <=> HasPending(r, host[r])
        BY <1>2 DEF HasPending, Prefetches, IsIdle
    <2> QED
        BY <2>1, <2>2, <2>3, <1>2, <1>4, <1>7 DEF RankInv, Rows
<1>13. Selections(r)'
    <2> SUFFICES ASSUME NEW o \in Queued(r), o.op = "attend", Indexed(r, o)
                 PROVE  /\ Task(o, "index") \in side'[r] \/ chosen'[r] = <<o.forward, o.layer>>
                        /\ \A q \in Queued(r) : Before(server.offload, Task(o, "start_index"), q)
        BY <1>2, <1>7 DEF Selections, Indexed
    <2>1. /\ Task(o, "index") \in side[r] \/ chosen[r] = <<o.forward, o.layer>>
          /\ \A q \in Queued(r) : Before(server.offload, Task(o, "start_index"), q)
        BY DEF RankInv, Selections
    <2>2. o \in OpType /\ t \in TaskType
        BY <1>1, <1>3
    <2>3. CASE t.op # "index"
        <3>1. Task(o, "index") # t
            BY <2>2, <2>3, TaskFields
        <3> QED
            BY <2>1, <2>3, <3>1, <1>4, <1>5
    <2>4. CASE t.op = "index"
        <3>1. Task(t, "wait_index") \in Queued(r) /\ Before(server.offload, StartOf(t), o)
            BY <2>4, <1>1 DEF RankInv, Tasks
        <3>2. t.forward = o.forward /\ t.layer = o.layer
            BY <2>1, <2>2, <2>4, <3>1, OrderInLayers
        <3> QED
            BY <2>1, <2>4, <3>2, <1>5
    <2> QED
        BY <2>3, <2>4
<1> QED
    BY <1>8, <1>9, <1>10, <1>12, <1>13 DEF RankInv

-----------------------------------------------------------------------------
(* The other steps *)

\* A step that leaves what a rank has alone leaves its invariant alone.
LEMMA UntouchedRank ==
    ASSUME NEW r \in Rank, RankInv(r),
           server' = server, forward' = forward, graph' = graph, idle' = idle,
           host'[r] = host[r], pending'[r] = pending[r], main'[r] = main[r], side'[r] = side[r],
           started'[r] = started[r], buffer'[r] = buffer[r], chosen'[r] = chosen[r]
    PROVE  RankInv(r)'
<1>1. Queued(r)' = Queued(r)
    BY DEF Queued
<1>2. \A o : Behind(r, o) => Behind(r, o)'
    BY DEF Behind, Reached
<1>3. Queues(r)'
    BY <1>1, <1>2 DEF RankInv, Queues
<1>4. Prefetched(r)'
    BY DEF RankInv, Prefetched, Prefetches, HasPending, IsIdle
<1>5. Tasks(r)'
    BY <1>1, <1>2 DEF RankInv, Tasks
<1>6. Rows(r)'
    <2>1. HasPending(r, host[r])' <=> HasPending(r, host[r])
        BY DEF HasPending, Prefetches, IsIdle
    <2> QED
        BY <1>1, <2>1 DEF RankInv, Rows, Gathered
<1>7. Selections(r)'
    BY <1>1 DEF RankInv, Selections, Indexed
<1> QED
    BY <1>3, <1>4, <1>5, <1>6, <1>7 DEF RankInv

\* A host that gives up has come to everything of its forward.
LEMMA StopKeepsRank ==
    ASSUME Shapes, NEW r \in Rank, RankInv(r), host'[r] = 0,
           server' = server, forward' = forward, graph' = graph, idle' = idle,
           pending'[r] = pending[r], main'[r] = main[r], side'[r] = side[r],
           started'[r] = started[r], buffer'[r] = buffer[r], chosen'[r] = chosen[r]
    PROVE  RankInv(r)'
<1>1. Queued(r)' = Queued(r)
    BY DEF Queued
<1>2. \A o : Behind(r, o) => Behind(r, o)'
    BY DEF Behind, Reached
<1>3. host'[r] \notin Layers
    BY PlanLayers
<1>4. Queues(r)'
    BY <1>1, <1>2 DEF RankInv, Queues
<1>5. Prefetched(r)'
    BY <1>3 DEF Prefetched
<1>6. Tasks(r)'
    BY <1>1, <1>2 DEF RankInv, Tasks
<1>7. Rows(r)'
    BY <1>1, <1>3 DEF RankInv, Rows, Gathered
<1>8. Selections(r)'
    BY <1>1 DEF RankInv, Selections, Indexed
<1> QED
    BY <1>4, <1>5, <1>6, <1>7, <1>8 DEF RankInv

\* When a forward begins, what is queued is of earlier ones.
LEMMA BeginKeepsRank ==
    ASSUME Shapes, NEW r \in Rank, RankInv(r), Begin
    PROVE  RankInv(r)'
<1>1. /\ forward' = forward + 1 /\ host'[r] = 1 /\ host[r] = 0
      /\ UNCHANGED <<server, pending, main, side, started, buffer, chosen>>
    BY DEF Begin
<1>2. Queued(r)' = Queued(r)
    BY <1>1 DEF Queued
<1>3. /\ \A o \in Queued(r) : o \in OpType
      /\ \A t \in side[r] : t \in TaskType /\ StartOf(t) \in OpType
      /\ forward \in Nat
    BY RankTypes
<1>4. \A o \in OpType : Behind(r, o) => Behind(r, o)' /\ o.forward < forward + 1
    <2>1. \A o \in OpType : o.forward \in Nat
        BY DEF OpType
    <2> QED
        BY <1>1, <1>3, <2>1 DEF Behind, Reached
<1>5. \A o \in OpType : o.forward < forward + 1 => o.forward # forward + 1
    BY <1>3 DEF OpType
<1>6. 1 \notin DOMAIN pending[r]
    BY DEF Shapes
<1>7. Queues(r)'
    <2>1. \A o \in Queued(r)' : Behind(r, o)' /\ o.forward # forward'
        BY <1>1, <1>2, <1>3, <1>4, <1>5 DEF RankInv, Queues
    <2> QED
        BY <1>1, <1>2, <2>1 DEF RankInv, Queues
<1>8. Prefetched(r)'
    BY <1>1, <1>6 DEF Prefetched, HasPending, Prefetches, IsIdle
<1>9. Tasks(r)'
    <2>1. \A t \in side'[r] : Behind(r, StartOf(t))'
        BY <1>1, <1>3, <1>4 DEF RankInv, Tasks
    <2> QED
        BY <1>1, <1>2, <2>1 DEF RankInv, Tasks
<1>10. Rows(r)'
    <2>1. ~HasPending(r, host[r])'
        BY <1>1, <1>6 DEF HasPending
    <2> QED
        BY <1>1, <1>2, <2>1 DEF RankInv, Rows, Gathered
<1>11. Selections(r)'
    BY <1>1, <1>2 DEF RankInv, Selections, Indexed
<1> QED
    BY <1>7, <1>8, <1>9, <1>10, <1>11 DEF RankInv

-----------------------------------------------------------------------------
(* Every layer reads its own *)

LEMMA ReadInvHoldsAtFirst == Init => ReadInv
<1> SUFFICES ASSUME Init PROVE ReadInv
    OBVIOUS
<1>1. server \in Server /\ Rank # {} /\ server.forwards \in Nat
    BY ForwardAssumption DEF Init, Rank
<1>2. Shapes
    <2>1. 0 \in 0 .. server.forwards /\ <<>> \in Seq(OpType) /\ {} \in SUBSET TaskType
        BY <1>1
    <2>2. /\ forward \in 0 .. server.forwards /\ graph \in BOOLEAN
          /\ idle \subseteq Rank /\ idle # Rank
          /\ host \in [Rank -> {0} \cup Layers]
        BY <1>1, <2>1 DEF Init
    <2>3. DOMAIN pending = Rank /\ \A r \in Rank : DOMAIN pending[r] = {}
        BY DEF Init
    <2>4. main \in [Rank -> Seq(OpType)] /\ side \in [Rank -> SUBSET TaskType]
        BY <2>1 DEF Init
    <2>5. DOMAIN started = Rank /\ \A r \in Rank : started[r] = {}
        BY DEF Init
    <2>6. DOMAIN buffer = Rank /\ \A r \in Rank : DOMAIN buffer[r] = PleLayers \X BOOLEAN
        BY DEF Init
    <2>7. DOMAIN chosen = Rank /\ lastHc \in [Rank -> 0 .. server.forwards] /\ DOMAIN seen = Rank
        BY <2>1 DEF Init
    <2> QED
        BY <1>1, <2>2, <2>3, <2>4, <2>5, <2>6, <2>7 DEF Shapes
<1>3. \A r \in Rank : /\ Queued(r) = {} /\ side[r] = {} /\ started[r] = {} /\ host[r] \notin Layers
                      /\ InOrder(server.offload, main[r])
    BY PlanLayers DEF Init, Queued, ToSet, InOrder
<1>4. \A r \in Rank : RankInv(r)
    BY <1>3 DEF RankInv, Queues, Prefetched, Tasks, Rows, Selections
<1>5. ReadsAreOwn
    BY DEF Init, ReadsAreOwn, NoRead
<1> QED
    BY <1>2, <1>4, <1>5 DEF ReadInv

LEMMA StepsKeepShapes ==
    ASSUME Shapes, \A r \in Rank : RankInv(r), [Next]_vars
    PROVE  Shapes'
<1>0. /\ server \in Server /\ server.forwards \in Nat /\ forward \in 0 .. server.forwards
      /\ graph \in BOOLEAN /\ DOMAIN pending = Rank /\ DOMAIN started = Rank
      /\ DOMAIN buffer = Rank /\ DOMAIN chosen = Rank /\ DOMAIN seen = Rank
      /\ host \in [Rank -> {0} \cup Layers] /\ main \in [Rank -> Seq(OpType)]
      /\ side \in [Rank -> SUBSET TaskType] /\ lastHc \in [Rank -> 0 .. server.forwards]
    BY ForwardAssumption DEF Shapes
<1>1. CASE Begin
    <2>1. forward' \in 0 .. server.forwards
        BY <1>0, <1>1 DEF Begin
    <2>2. host' \in [Rank -> {0} \cup Layers] /\ lastHc' \in [Rank -> 0 .. server.forwards]
        <3>1. 1 \in Layers /\ 0 \in 0 .. server.forwards
            BY <1>0, PlanLayers
        <3> QED
            BY <3>1, <1>1 DEF Begin
    <2>3. server' = server /\ graph' \in BOOLEAN /\ idle' \subseteq Rank /\ idle' # Rank
        BY <1>1 DEF Begin
    <2> QED
        BY <2>1, <2>2, <2>3, <1>1 DEF Begin, Shapes, Rank
<1>2. ASSUME NEW r \in Rank, Enqueue(r) PROVE Shapes'
    <2>1. PICK i, Q : i = host[r] /\ Q = ToSet(Enqueued(r, i))
        OBVIOUS
    <2>2. /\ i \in Layers /\ main'[r] \in Seq(OpType) /\ side'[r] = side[r] \cup Sides(Q)
          /\ DOMAIN pending'[r] = IF graph THEN DOMAIN pending[r]
                                  ELSE (DOMAIN pending[r] \ {i}) \cup {l \in {i + 1} : Ahead(r, i)}
          /\ \A q \in Rank \ {r} : /\ main'[q] = main[q] /\ side'[q] = side[q]
                                   /\ pending'[q] = pending[q] /\ host'[q] = host[q]
        BY <1>2, <2>1, EnqueueEffect
    <2>3. /\ server' = server /\ forward' = forward /\ graph' = graph /\ idle' = idle
          /\ started' = started /\ buffer' = buffer /\ chosen' = chosen /\ seen' = seen
        BY <1>2 DEF Enqueue
    <2>4. main' \in [Rank -> Seq(OpType)]
        <3>1. main' = [main EXCEPT ![r] = main'[r]]
            BY <1>0, <1>2 DEF Enqueue
        <3> QED
            BY <3>1, <2>2, <1>0
    <2>5. side' \in [Rank -> SUBSET TaskType] /\ \A q \in Rank : side[q] \subseteq side'[q]
        <3>1. side' = [side EXCEPT ![r] = side'[r]]
            BY <1>0, <1>2 DEF Enqueue
        <3>2. side'[r] \in SUBSET TaskType
            BY <2>2, <1>0 DEF Sides
        <3> QED
            BY <3>1, <3>2, <2>2, <1>0
    <2>6. host' \in [Rank -> {0} \cup Layers]
        <3>1. host' = [host EXCEPT ![r] = IF i = Len(Plan) THEN 0 ELSE i + 1]
            BY <1>2, <2>1 DEF Enqueue
        <3>2. (IF i = Len(Plan) THEN 0 ELSE i + 1) \in {0} \cup Layers
            BY <2>2, PlanLayers
        <3> QED
            BY <3>1, <3>2, <1>0
    <2>7. DOMAIN pending' = Rank /\ \A q \in Rank : DOMAIN pending'[q] \subseteq PleLayers \ {1}
        <3>1. DOMAIN pending' = Rank
            BY <1>0, <1>2 DEF Enqueue
        <3>2. Ahead(r, i) => i + 1 \in PleLayers /\ i + 1 # 1
            BY <2>2, PlanLayers DEF Ahead, Prefetches
        <3>3. DOMAIN pending'[r] \subseteq PleLayers \ {1}
            BY <3>2, <2>2 DEF Shapes
        <3> QED
            BY <3>1, <3>3, <2>2 DEF Shapes
    <2>8. lastHc' \in [Rank -> 0 .. server.forwards]
        BY <1>0, <1>2 DEF Enqueue
    <2> QED
        BY <2>3, <2>4, <2>5, <2>6, <2>7, <2>8 DEF Shapes, Rank
<1>3. ASSUME NEW r \in Rank, Refuse(r) \/ Fail(r) PROVE Shapes'
    <2>1. host' \in [Rank -> {0} \cup Layers]
        BY <1>0, <1>3 DEF Refuse, Fail
    <2> QED
        BY <2>1, <1>3 DEF Refuse, Fail, Shapes, Rank
<1>4. ASSUME NEW r \in Rank, Run(r) PROVE Shapes'
    <2>1. main' \in [Rank -> Seq(OpType)]
        <3>1. Tail(main[r]) \in Seq(OpType)
            BY <1>4, HeadOfQueue DEF Run
        <3> QED
            BY <3>1, <1>0, <1>4 DEF Run
    <2>2. DOMAIN started' = Rank /\ DOMAIN chosen' = Rank /\ DOMAIN seen' = Rank
        BY <1>0, <1>4 DEF Run
    <2>3. \A q \in Rank : started'[q] \subseteq side[q]
        <3>1. /\ Head(main[r]) \in Queued(r)
            BY <1>4, HeadOfQueue DEF Run
        <3>2. /\ Head(main[r]).op = "start_rows" => Task(Head(main[r]), "rows") \in side[r]
              /\ Head(main[r]).op = "start_index" => Task(Head(main[r]), "index") \in side[r]
            BY <3>1 DEF RankInv, Tasks
        <3>3. \A q \in Rank : started[q] \subseteq side[q]
            BY DEF Shapes
        <3>4. \/ started' = started
              \/ Head(main[r]).op = "start_rows"
                 /\ started' = [started EXCEPT ![r] = @ \cup {Task(Head(main[r]), "rows")}]
              \/ Head(main[r]).op = "start_index"
                 /\ started' = [started EXCEPT ![r] = @ \cup {Task(Head(main[r]), "index")}]
            BY <1>4 DEF Run
        <3>5. \A x : x \in side[r] =>
                \A q \in Rank : [started EXCEPT ![r] = @ \cup {x}][q] \subseteq side[q]
            BY <3>3, <1>0
        <3> QED
            BY <3>2, <3>3, <3>4, <3>5
    <2> QED
        BY <2>1, <2>2, <2>3, <1>4 DEF Run, Shapes, Rank
<1>5. CASE Join
    <2>1. main' \in [Rank -> Seq(OpType)]
        <3>1. \A r \in Rank : Tail(main[r]) \in Seq(OpType)
            BY <1>5, HeadOfQueue DEF Join, Joined
        <3> QED
            BY <3>1, <1>5 DEF Join
    <2> QED
        BY <2>1, <1>5 DEF Join, Shapes, Rank
<1>6. ASSUME NEW r \in Rank, RunSide(r) PROVE Shapes'
    <2>1. PICK t \in side[r] \cap started[r] :
            /\ side' = [side EXCEPT ![r] = @ \ {t}]
            /\ started' = [started EXCEPT ![r] = @ \ {t}]
            /\ buffer' = IF t.op = "rows"
                         THEN [buffer EXCEPT ![r][BufferOf(t)] = <<t.forward, t.layer>>] ELSE buffer
            /\ chosen' = IF t.op = "index" THEN [chosen EXCEPT ![r] = <<t.forward, t.layer>>] ELSE chosen
        BY <1>6 DEF RunSide
    <2>2. /\ side' \in [Rank -> SUBSET TaskType] /\ DOMAIN started' = Rank
          /\ \A q \in Rank : started'[q] \subseteq side'[q]
        <3>1. \A q \in Rank : started[q] \subseteq side[q]
            BY DEF Shapes
        <3> QED
            BY <2>1, <3>1, <1>0
    <2>3. DOMAIN buffer' = Rank /\ \A q \in Rank : DOMAIN buffer'[q] = DOMAIN buffer[q]
        BY <2>1, <1>0
    <2>4. DOMAIN chosen' = Rank
        BY <2>1, <1>0
    <2> QED
        BY <2>2, <2>3, <2>4, <1>6 DEF RunSide, Shapes, Rank
<1>7. CASE UNCHANGED vars
    BY <1>7 DEF vars, Shapes, Rank
<1> QED
    BY <1>1, <1>2, <1>3, <1>4, <1>5, <1>6, <1>7 DEF Next, Step

LEMMA StepsKeepRanks ==
    ASSUME ReadInv, [Next]_vars
    PROVE  (\A r \in Rank : RankInv(r))' /\ ReadsAreOwn'
<1>0. Shapes /\ (\A r \in Rank : RankInv(r)) /\ ReadsAreOwn
    BY DEF ReadInv
<1>1. /\ DOMAIN pending = Rank /\ DOMAIN started = Rank /\ DOMAIN buffer = Rank /\ DOMAIN chosen = Rank
      /\ DOMAIN seen = Rank /\ DOMAIN host = Rank /\ DOMAIN main = Rank /\ DOMAIN side = Rank
    BY <1>0 DEF Shapes
<1>2. CASE Begin
    <2>1. server' = server /\ seen' = seen
        BY <1>2 DEF Begin
    <2>2. \A r \in Rank : RankInv(r)'
        BY <1>0, <1>2, BeginKeepsRank
    <2> QED
        BY <2>1, <2>2, <1>0 DEF Rank, ReadsAreOwn
<1>3. ASSUME NEW r \in Rank, Enqueue(r) PROVE (\A q \in Rank : RankInv(q)') /\ ReadsAreOwn' /\ Rank' = Rank
    <2>1. RankInv(r)'
        BY <1>0, <1>3, EnqueueKeepsRank
    <2>2. ASSUME NEW q \in Rank \ {r} PROVE RankInv(q)'
        <3>1. /\ main'[q] = main[q] /\ side'[q] = side[q]
              /\ pending'[q] = pending[q] /\ host'[q] = host[q]
            BY <1>1, <1>3 DEF Enqueue
        <3> QED
            BY <3>1, <1>0, <1>3, UntouchedRank DEF Enqueue
    <2> QED
        BY <2>1, <2>2, <1>0, <1>3 DEF Enqueue, Rank, ReadsAreOwn
<1>4. ASSUME NEW r \in Rank, Refuse(r) \/ Fail(r)
      PROVE  (\A q \in Rank : RankInv(q)') /\ ReadsAreOwn' /\ Rank' = Rank
    <2>1. /\ UNCHANGED <<server, forward, idle, graph, pending, main, side, started, buffer, chosen, seen>>
          /\ host' = [host EXCEPT ![r] = 0]
        BY <1>4 DEF Refuse, Fail
    <2>2. host'[r] = 0 /\ \A q \in Rank \ {r} : host'[q] = host[q]
        BY <1>1, <2>1
    <2>3. RankInv(r)'
        BY <2>1, <2>2, <1>0, StopKeepsRank
    <2>4. \A q \in Rank \ {r} : RankInv(q)'
        BY <2>1, <2>2, <1>0, UntouchedRank
    <2> QED
        BY <2>1, <2>3, <2>4, <1>0 DEF Rank, ReadsAreOwn
<1>5. ASSUME NEW r \in Rank, Run(r) PROVE (\A q \in Rank : RankInv(q)') /\ ReadsAreOwn' /\ Rank' = Rank
    <2>1. PICK o : o = Head(main[r])
        OBVIOUS
    <2>2. Taken(r, o)
        BY <1>1, <1>5, <2>1 DEF Run, Taken
    <2>3. RankInv(r)'
        BY <1>0, <2>2, TakenKeepsRank
    <2>4. ASSUME NEW q \in Rank \ {r} PROVE RankInv(q)'
        <3>1. /\ main'[q] = main[q] /\ started'[q] = started[q] /\ chosen'[q] = chosen[q]
            BY <1>1, <1>5 DEF Run
        <3>2. /\ UNCHANGED <<server, forward, idle, graph, host, pending, side, buffer>>
            BY <1>5 DEF Run
        <3> QED
            BY <3>1, <3>2, <1>0, UntouchedRank
    <2>5. ReadsAreOwn'
        <3>1. /\ o.op = "read_rows" => buffer[r][BufferOf(o)] = <<o.forward, o.layer>>
              /\ o.op = "attend" => chosen[r] = <<o.forward, o.layer>>
            BY <1>0, <2>1, <1>5, HeadReadsOwn DEF Run
        <3>2. \/ seen' = seen
              \/ o.op \in {"read_rows", "attend"}
                 /\ seen' = [seen EXCEPT ![r] = [wanted |-> <<o.forward, o.layer>>,
                                                got |-> IF o.op = "read_rows" THEN buffer[r][BufferOf(o)]
                                                        ELSE chosen[r]]]
            BY <1>5, <2>1 DEF Run
        <3>3. server' = server
            BY <1>5 DEF Run
        <3> QED
            BY <3>1, <3>2, <3>3, <1>0, <1>1 DEF ReadsAreOwn, Rank
    <2> QED
        BY <2>3, <2>4, <2>5, <1>5 DEF Run, Rank
<1>6. CASE Join
    <2>1. \A r \in Rank : Taken(r, Head(main[r]))
        <3> SUFFICES ASSUME NEW r \in Rank PROVE Taken(r, Head(main[r]))
            OBVIOUS
        <3>1. main[r] # <<>> /\ Head(main[r]).op \in Collective /\ main'[r] = Tail(main[r])
            BY <1>6 DEF Join, Joined
        <3>2. ~Waits(r, Head(main[r]))
            BY <3>1 DEF Waits, Collective
        <3>3. Head(main[r]).op \notin {"start_rows", "start_index", "index"}
            BY <3>1 DEF Collective
        <3> QED
            BY <3>1, <3>2, <3>3, <1>6 DEF Join, Taken
    <2>2. \A r \in Rank : RankInv(r)'
        <3> SUFFICES ASSUME NEW r \in Rank PROVE RankInv(r)'
            OBVIOUS
        <3>1. PICK o : o = Head(main[r])
            OBVIOUS
        <3>2. Taken(r, o)
            BY <2>1, <3>1
        <3> QED
            BY <3>2, <1>0, TakenKeepsRank
    <2> QED
        BY <2>2, <1>0, <1>6 DEF Join, Rank, ReadsAreOwn
<1>7. ASSUME NEW r \in Rank, RunSide(r) PROVE (\A q \in Rank : RankInv(q)') /\ ReadsAreOwn' /\ Rank' = Rank
    <2>1. RankInv(r)'
        BY <1>0, <1>7, RunSideKeepsRank
    <2>2. ASSUME NEW q \in Rank \ {r} PROVE RankInv(q)'
        <3>1. /\ side'[q] = side[q] /\ started'[q] = started[q]
              /\ buffer'[q] = buffer[q] /\ chosen'[q] = chosen[q]
            BY <1>1, <1>7 DEF RunSide
        <3> QED
            BY <3>1, <1>0, <1>7, UntouchedRank DEF RunSide
    <2> QED
        BY <2>1, <2>2, <1>0, <1>7 DEF RunSide, Rank, ReadsAreOwn
<1>8. CASE UNCHANGED vars
    <2>1. \A r \in Rank : RankInv(r)'
        BY <1>0, <1>8, UntouchedRank DEF vars
    <2> QED
        BY <2>1, <1>0, <1>8 DEF vars, Rank, ReadsAreOwn
<1> QED
    BY <1>2, <1>3, <1>4, <1>5, <1>6, <1>7, <1>8 DEF Next, Step

LEMMA ReadInvHolds == Spec => []ReadInv
<1>1. ReadInv /\ [Next]_vars => ReadInv'
    BY StepsKeepShapes, StepsKeepRanks DEF ReadInv
<1> QED
    BY <1>1, ReadInvHoldsAtFirst, PTL DEF Spec

\* The queues, tasks and prefetch states have their types: hosts and devices of
\* Qwen4ExpModel.forward, whatever fails.
THEOREM ForwardTypeCorrect == Spec => []TypeOK
<1>1. ReadInv => TypeOK
    BY DEF ReadInv, Shapes, TypeOK
<1> QED
    BY <1>1, ReadInvHolds, PTL

\* Whatever the order in which the main stream and the side streams run, and
\* after any number of forwards that failed half-way, a layer reads the n-gram
\* rows gathered for it in this forward, and the selection of its own indexer.
THEOREM LayersReadTheirOwn == Spec => []ReadsAreOwn
<1>1. ReadInv => ReadsAreOwn
    BY DEF ReadInv
<1> QED
    BY <1>1, ReadInvHolds, PTL

-----------------------------------------------------------------------------
(* Ranks that wait meet *)

\* Nothing is left pending behind a forward, and nothing is in a graph.
NothingLeft == \A r \in Rank : \A l \in DOMAIN pending[r] : ~graph /\ l = host[r]

\* A collective that one rank still has queued is queued at every other rank, or
\* that rank's host has not come to it.
Met ==
    \A r, q \in Rank : \A o \in Queued(r) : o.op \in Collective => o \in Queued(q) \/ ~Behind(q, o)

\* What a host has enqueued ahead of another is still queued.
KeptAhead ==
    \A r, q \in Rank : \A i \in Layers :
        Reached(q, forward, i) /\ ~Reached(r, forward, i) => StepCollectives(i) \subseteq Queued(q)

OnlyThese ==
    \A r \in Rank : \A o \in Queued(r) :
        o.op \in Collective /\ o.forward = forward => o \in StepCollectives(StepOf(server.offload, o))

MeetInv == NothingLeft /\ Met /\ KeptAhead /\ OnlyThese

\* Where no layer raises.
MeetsUnlessFaulty == ~server.faults => MeetInv

LEMMA StepsAreLayers ==
    ASSUME Shapes, NEW r \in Rank, RankInv(r), NEW o \in Queued(r)
    PROVE  o \in OpType /\ (o.op \in Collective => StepOf(server.offload, o) \in Layers)
<1>1. o \in OpType
    BY RankTypes
<1>2. o.layer \in 1 .. Len(Plan) /\ Len(Plan) \in Nat
    BY <1>1, PlanLayers DEF OpType
<1>3. o.op \in Collective => StepOf(server.offload, o) \in 1 .. Len(Plan)
    BY <1>2 DEF StepOf, Collective
<1> QED
    BY <1>1, <1>3, PlanLayers

\* A collective of step i is enqueued in step i of this forward.
LEMMA CollectivesOfAStep ==
    ASSUME NEW i \in Layers, NEW o \in StepCollectives(i)
    PROVE  o.forward = forward /\ StepOf(server.offload, o) = i
<1>1. i \in Nat /\ (i + 1) - 1 = i /\ (i + 1 > 1)
    BY PlanLayers
<1>2. \A n, l : Op(n, l).op = n /\ Op(n, l).layer = l /\ Op(n, l).forward = forward
    BY DEF Op
<1>3. CASE server.gather /\ server.offload /\ o = Op("ple_gather", i + 1)
    BY <1>1, <1>2, <1>3 DEF StepOf
<1>4. CASE ~(server.offload /\ i > 1) /\ o = Op("ple_gather", i)
    BY <1>2, <1>4 DEF StepOf
<1>5. CASE o \in {Op("ple_reduce", i), Op("ple_scatter", i), Op("dispatch", i), Op("combine", i),
                  Op("moe_gather", i), Op("moe_scatter", i)}
    <2>1. o.op # "start_rows" /\ o.op # "ple_gather" /\ o.layer = i /\ o.forward = forward
        BY <1>2, <1>5
    <2> QED
        BY <2>1 DEF StepOf
<1> QED
    BY <1>3, <1>4, <1>5 DEF StepCollectives

LEMMA MeetHoldsAtFirst == Init => MeetInv
<1> SUFFICES ASSUME Init PROVE MeetInv
    OBVIOUS
<1>1. \A r \in Rank : Queued(r) = {} /\ DOMAIN pending[r] = {}
    BY DEF Init, Queued, ToSet
<1>2. \A r \in Rank, i \in Layers : Reached(r, forward, i)
    BY DEF Init, Reached
<1> QED
    BY <1>1, <1>2 DEF MeetInv, NothingLeft, Met, KeptAhead, OnlyThese

LEMMA BeginMeets ==
    ASSUME ReadInv, MeetInv, Begin
    PROVE  MeetInv'
<1>0. Shapes /\ \A r \in Rank : RankInv(r)
    BY DEF ReadInv
<1>1. /\ server' = server /\ main' = main /\ pending' = pending /\ forward' = forward + 1
      /\ \A r \in Rank : host[r] = 0 /\ host'[r] = 1
    BY DEF Begin
<1>2. \A r \in Rank : Queued(r)' = Queued(r)
    BY <1>1 DEF Queued
<1>3. Rank' = Rank
    BY <1>1 DEF Rank
<1>4. \A r \in Rank : \A o \in Queued(r) : o.forward \in Nat /\ o.forward <= forward /\ o.forward # forward + 1
    <2> SUFFICES ASSUME NEW r \in Rank, NEW o \in Queued(r)
                 PROVE  o.forward \in Nat /\ o.forward <= forward /\ o.forward # forward + 1
        OBVIOUS
    <2>1. o.forward \in Nat /\ forward \in Nat
        BY <1>0, RankTypes DEF OpType
    <2>2. Behind(r, o)
        BY <1>0 DEF RankInv, Queues
    <2> QED
        BY <2>1, <2>2 DEF Behind, Reached
<1>5. \A r \in Rank : DOMAIN pending[r] = {}
    <2> SUFFICES ASSUME NEW r \in Rank, NEW l \in DOMAIN pending[r] PROVE FALSE
        OBVIOUS
    <2>1. l = 0 /\ l \in Layers
        BY <1>0, <1>1 DEF MeetInv, NothingLeft, Shapes, PleLayers
    <2> QED
        BY <2>1, PlanLayers
<1>6. NothingLeft'
    BY <1>1, <1>3, <1>5 DEF NothingLeft
<1>7. Met'
    <2> SUFFICES ASSUME NEW r \in Rank, NEW q \in Rank, NEW o \in Queued(r), o.op \in Collective
                 PROVE  o \in Queued(q)
        BY <1>2, <1>3 DEF Met
    <2>1. Behind(q, o)
        <3>1. o.forward < forward \/ o.forward = forward
            BY <1>4, <1>0, RankTypes
        <3> QED
            BY <3>1, <1>1 DEF Behind, Reached
    <2> QED
        BY <2>1 DEF MeetInv, Met
<1>8. KeptAhead'
    <2> SUFFICES ASSUME NEW q \in Rank, NEW i \in Layers, Reached(q, forward, i)' PROVE FALSE
        BY <1>3 DEF KeptAhead
    <2>1. i < 1 \/ forward' < forward'
        BY <1>1 DEF Reached
    <2>2. forward' \in Nat
        BY <1>0, <1>1, RankTypes
    <2> QED
        BY <2>1, <2>2, PlanLayers
<1>9. OnlyThese'
    BY <1>1, <1>2, <1>3, <1>4 DEF OnlyThese
<1> QED
    BY <1>6, <1>7, <1>8, <1>9 DEF MeetInv

LEMMA EnqueueMeets ==
    ASSUME ReadInv, MeetInv, NEW r \in Rank, Enqueue(r)
    PROVE  MeetInv'
<1>0. Shapes /\ \A q \in Rank : RankInv(q)
    BY DEF ReadInv
<1>1. PICK i, Q : i = host[r] /\ Q = ToSet(Enqueued(r, i))
    OBVIOUS
<1>2. /\ i \in Layers /\ Queued(r)' = Queued(r) \cup Q
      /\ host'[r] = IF i = Len(Plan) THEN 0 ELSE i + 1
      /\ DOMAIN pending'[r] = IF graph THEN DOMAIN pending[r]
                              ELSE (DOMAIN pending[r] \ {i}) \cup {l \in {i + 1} : Ahead(r, i)}
      /\ \A q \in Rank \ {r} : main'[q] = main[q] /\ pending'[q] = pending[q] /\ host'[q] = host[q]
    BY <1>0, <1>1, EnqueueEffect
<1>3. server' = server /\ forward' = forward /\ graph' = graph /\ Rank' = Rank
    BY DEF Enqueue, Rank
<1>4. \A q \in Rank \ {r} : Queued(q)' = Queued(q)
    BY <1>2 DEF Queued
<1>5. /\ \A o \in Q : o.forward = forward /\ StepOf(server.offload, o) = i
      /\ {o \in Q : o.op \in Collective} = StepCollectives(i)
    <2>1. HasPending(r, i) <=> i > 1 /\ Prefetches(r, i)
        BY <1>0, <1>1, <1>2 DEF RankInv, Prefetched
    <2>2. forward \in Nat /\ graph \in BOOLEAN
        BY <1>0, RankTypes
    <2> QED
        BY <1>1, <1>2, <2>1, <2>2, LayerIsEnqueued
<1>6. \A l : StepCollectives(l)' = StepCollectives(l)
    BY <1>3 DEF StepCollectives, Op
<1>7. i \in Nat \ {0} /\ Layers = 1 .. Len(Plan) /\ Len(Plan) \in Nat
    BY <1>2, PlanLayers
\* The host of r has now come to what it had come to, and to step i.
<1>8. \A f, l : Reached(r, f, l) => f < forward \/ (f = forward /\ l < i)
    BY <1>1, <1>7 DEF Reached
<1>9. \A f : \A l \in Layers : Reached(r, f, l)' => f < forward \/ (f = forward /\ (l < i \/ l = i))
    BY <1>2, <1>3, <1>7 DEF Reached
<1>10. \A l : \A q \in Rank \ {r} : \A f : Reached(q, f, l)' <=> Reached(q, f, l)
    BY <1>2, <1>3 DEF Reached
<1>11. \A f, l : f < forward \/ (f = forward /\ l < i) => Reached(r, f, l)
    BY <1>1, <1>7 DEF Reached
<1>12. ~Reached(r, forward, i)
    <2>1. forward \in Nat
        BY <1>0, RankTypes
    <2> QED
        BY <2>1, <1>7, <1>8
<1>13. NothingLeft'
    <2>1. DOMAIN pending[r] \subseteq {i}
        BY <1>1 DEF MeetInv, NothingLeft
    <2>2. Ahead(r, i) => host'[r] = i + 1
        BY <1>2, <1>7 DEF Ahead
    <2>3. \A l \in DOMAIN pending'[r] : ~graph /\ l = host'[r]
        <3>1. graph => DOMAIN pending[r] = {}
            BY DEF MeetInv, NothingLeft
        <3> QED
            BY <1>2, <2>1, <2>2, <3>1
    <2>4. \A q \in Rank \ {r} : \A l \in DOMAIN pending'[q] : ~graph /\ l = host'[q]
        BY <1>2 DEF MeetInv, NothingLeft
    <2> QED
        BY <2>3, <2>4, <1>3 DEF NothingLeft
<1>14. Met'
    <2> SUFFICES ASSUME NEW a \in Rank, NEW b \in Rank, NEW o \in Queued(a)', o.op \in Collective, Behind(b, o)'
                 PROVE  o \in Queued(b)'
        BY <1>3 DEF Met
    <2>1. CASE a = r /\ b # r /\ o \in Q
        <3>1. o \in StepCollectives(i) /\ o.forward = forward /\ StepOf(server.offload, o) = i
            BY <2>1, <1>5
        <3>2. Reached(b, forward, i)'
            BY <3>1, <1>3 DEF Behind, Reached
        <3>3. Reached(b, forward, i)
            BY <2>1, <3>2, <1>2, <1>3 DEF Reached
        <3>4. StepCollectives(i) \subseteq Queued(b)
            BY <3>3, <1>2, <1>12 DEF MeetInv, KeptAhead
        <3> QED
            BY <2>1, <3>1, <3>4, <1>4
    <2>2. CASE b # r /\ o \in Queued(a)
        <3>1. Behind(b, o)
            BY <2>2, <1>3, <1>10 DEF Behind
        <3> QED
            BY <2>2, <3>1, <1>4 DEF MeetInv, Met
    <2>3. CASE b = r /\ o \in Queued(a)
        <3>1. CASE Behind(r, o)
            BY <2>3, <3>1, <1>2 DEF MeetInv, Met
        <3>2. CASE ~Behind(r, o)
            <4>1. PICK l : l = StepOf(server.offload, o)
                OBVIOUS
            <4>2. l \in Layers /\ Reached(r, o.forward, l)' /\ ~Reached(r, o.forward, l)
                BY <2>3, <3>2, <4>1, <1>0, <1>3, StepsAreLayers DEF Behind
            <4>3. o.forward = forward /\ StepOf(server.offload, o) = i
                BY <4>1, <4>2, <1>9, <1>11
            <4>4. o \in StepCollectives(i)
                BY <2>3, <4>3 DEF MeetInv, OnlyThese
            <4> QED
                BY <2>3, <4>4, <1>2, <1>5
        <3> QED
            BY <3>1, <3>2
    <2>4. CASE a = b
        BY <2>4
    <2> QED
        BY <2>1, <2>2, <2>3, <2>4, <1>2, <1>4
<1>15. KeptAhead'
    <2> SUFFICES ASSUME NEW a \in Rank, NEW b \in Rank, NEW l \in Layers,
                        Reached(b, forward, l)', ~Reached(a, forward, l)'
                 PROVE  StepCollectives(l) \subseteq Queued(b)'
        BY <1>3, <1>6 DEF KeptAhead
    <2>1. /\ forward' < forward' \/ host'[b] = 0 \/ l < host'[b]
          /\ ~(host'[a] = 0 \/ l < host'[a])
        BY DEF Reached
    <2>2. ~Reached(a, forward, l)
        <3>1. CASE a = r
            <4>1. ~(l < i) /\ l # i
                BY <3>1, <2>1, <1>2, <1>3, <1>7 DEF Reached
            <4>2. forward \in Nat
                BY <1>0, RankTypes
            <4> QED
                BY <3>1, <4>1, <4>2, <1>8
        <3>2. CASE a # r
            BY <3>2, <1>2, <1>3 DEF Reached
        <3> QED
            BY <3>1, <3>2
    <2>3. CASE Reached(b, forward, l)
        <3>1. StepCollectives(l) \subseteq Queued(b)
            BY <2>2, <2>3 DEF MeetInv, KeptAhead
        <3> QED
            BY <3>1, <1>2, <1>4
    <2>4. CASE ~Reached(b, forward, l)
        <3>1. b = r
            BY <2>4, <1>2, <1>3 DEF Reached
        <3>2. ~(l < i) /\ (l < i \/ l = i)
            <4>1. forward \in Nat
                BY <1>0, RankTypes
            <4>2. l < i \/ l = i
                BY <3>1, <4>1, <1>2, <1>3, <1>7 DEF Reached
            <4> QED
                BY <3>1, <2>4, <4>2, <1>11
        <3> QED
            BY <3>1, <3>2, <1>2, <1>5
    <2> QED
        BY <2>3, <2>4
<1>16. OnlyThese'
    <2> SUFFICES ASSUME NEW a \in Rank, NEW o \in Queued(a)', o.op \in Collective, o.forward = forward
                 PROVE  o \in StepCollectives(StepOf(server.offload, o))
        BY <1>3, <1>6 DEF OnlyThese
    <2>1. CASE o \in Queued(a)
        BY <2>1 DEF MeetInv, OnlyThese
    <2>2. CASE o \in Q
        BY <2>2, <1>5
    <2> QED
        BY <2>1, <2>2, <1>2, <1>4
<1> QED
    BY <1>13, <1>14, <1>15, <1>16 DEF MeetInv

\* A collective leaves every queue at once.
LEMMA JoinMeets ==
    ASSUME ReadInv, MeetInv, Join
    PROVE  MeetInv'
<1>0. Shapes /\ \A q \in Rank : RankInv(q)
    BY DEF ReadInv
<1>1. server' = server /\ forward' = forward /\ graph' = graph /\ host' = host /\ pending' = pending /\ Rank' = Rank
    BY DEF Join, Rank
<1>2. PICK c \in Rank : TRUE
    BY ForwardAssumption, <1>0 DEF Shapes, Rank
<1>3. PICK o : o = Head(main[c])
    OBVIOUS
<1>4. \A q \in Rank : main[q] # <<>> /\ Head(main[q]) = o /\ main'[q] = Tail(main[q])
    BY <1>2, <1>3 DEF Join, Joined
<1>5. \A q \in Rank : Queued(q)' = Queued(q) \ {o} /\ o \in Queued(q)
    BY <1>0, <1>4, HeadOfQueue DEF Queued
<1>6. \A f, l : \A q \in Rank : Reached(q, f, l)' <=> Reached(q, f, l)
    BY <1>1 DEF Reached
<1>7. \A l : StepCollectives(l)' = StepCollectives(l)
    BY <1>1 DEF StepCollectives, Op
<1>8. NothingLeft'
    BY <1>1 DEF MeetInv, NothingLeft
<1>9. Met'
    BY <1>1, <1>5 DEF MeetInv, Met, Behind, Reached
<1>10. KeptAhead'
    <2> SUFFICES ASSUME NEW a \in Rank, NEW b \in Rank, NEW l \in Layers,
                        Reached(b, forward, l)', ~Reached(a, forward, l)'
                 PROVE  StepCollectives(l) \subseteq Queued(b)'
        BY <1>1, <1>7 DEF KeptAhead
    <2>1. Reached(b, forward, l) /\ ~Reached(a, forward, l)
        BY <1>1 DEF Reached
    <2>2. StepCollectives(l) \subseteq Queued(b)
        BY <2>1 DEF MeetInv, KeptAhead
    <2>3. o \notin StepCollectives(l)
        <3>1. Behind(a, o)
            BY <1>0, <1>5 DEF RankInv, Queues
        <3> QED
            BY <2>1, <3>1, CollectivesOfAStep DEF Behind
    <2> QED
        BY <2>2, <2>3, <1>5
<1>11. OnlyThese'
    <2> SUFFICES ASSUME NEW a \in Rank, NEW p \in Queued(a), p.op \in Collective, p.forward = forward
                 PROVE  p \in StepCollectives(StepOf(server.offload, p))
        BY <1>1, <1>5, <1>7 DEF OnlyThese
    <2> QED
        BY DEF MeetInv, OnlyThese
<1> QED
    BY <1>8, <1>9, <1>10, <1>11 DEF MeetInv

\* A step that takes no collective from a queue and moves no host.
LEMMA OtherStepsMeet ==
    ASSUME MeetInv, server' = server, forward' = forward, graph' = graph,
           \A q \in Rank : host'[q] = host[q] /\ pending'[q] = pending[q],
           \A q \in Rank : Queued(q)' \subseteq Queued(q),
           \A q \in Rank : \A o \in Queued(q) : o.op \in Collective => o \in Queued(q)'
    PROVE  MeetInv'
<1>1. Rank' = Rank
    BY DEF Rank
<1>2. \A l : StepCollectives(l)' = StepCollectives(l)
    BY <1>1 DEF StepCollectives, Op
<1>3. NothingLeft'
    BY <1>1 DEF MeetInv, NothingLeft
<1>4. Met'
    <2> SUFFICES ASSUME NEW a \in Rank, NEW b \in Rank, NEW o \in Queued(a)', o.op \in Collective,
                        Behind(b, o)'
                 PROVE  o \in Queued(b)'
        BY <1>1 DEF Met
    <2>1. Behind(b, o)
        BY DEF Behind, Reached
    <2> QED
        BY <2>1 DEF MeetInv, Met
<1>5. KeptAhead'
    <2> SUFFICES ASSUME NEW a \in Rank, NEW b \in Rank, NEW l \in Layers,
                        Reached(b, forward, l)', ~Reached(a, forward, l)'
                 PROVE  StepCollectives(l) \subseteq Queued(b)'
        BY <1>1, <1>2 DEF KeptAhead
    <2>1. Reached(b, forward, l) /\ ~Reached(a, forward, l)
        BY DEF Reached
    <2>2. StepCollectives(l) \subseteq Queued(b)
        BY <2>1 DEF MeetInv, KeptAhead
    <2>3. \A o \in StepCollectives(l) : o.op \in Collective
        BY DEF StepCollectives, Op, Collective
    <2> QED
        BY <2>2, <2>3
<1>6. OnlyThese'
    <2> SUFFICES ASSUME NEW a \in Rank, NEW p \in Queued(a), p.op \in Collective, p.forward = forward
                 PROVE  p \in StepCollectives(StepOf(server.offload, p))
        BY <1>1, <1>2 DEF OnlyThese
    <2> QED
        BY DEF MeetInv, OnlyThese
<1> QED
    BY <1>3, <1>4, <1>5, <1>6 DEF MeetInv

LEMMA StepsMeet ==
    ASSUME ReadInv, MeetsUnlessFaulty, [Next]_vars
    PROVE  MeetsUnlessFaulty'
<1> SUFFICES ASSUME ~server'.faults PROVE MeetInv'
    BY DEF MeetsUnlessFaulty
<1>1. server' = server
    BY DEF Next, Begin, Join, Step, Enqueue, Refuse, Run, RunSide, Fail, vars
<1>2. MeetInv /\ ~server.faults
    BY <1>1 DEF MeetsUnlessFaulty
<1>3. Shapes /\ \A q \in Rank : RankInv(q)
    BY DEF ReadInv
<1>4. CASE Begin
    BY <1>2, <1>4, BeginMeets
<1>5. CASE Join
    BY <1>2, <1>5, JoinMeets
<1>6. ASSUME NEW r \in Rank, Enqueue(r) PROVE MeetInv'
    BY <1>2, <1>6, EnqueueMeets
<1>7. ASSUME NEW r \in Rank, Refuse(r) PROVE MeetInv'
    <2>1. host[r] + 1 = host[r] /\ host[r] \in Layers
        BY <1>2, <1>7 DEF Refuse, LeftOver, MeetInv, NothingLeft
    <2> QED
        BY <2>1, PlanLayers
<1>8. ASSUME NEW r \in Rank, Run(r) PROVE MeetInv'
    <2>1. main[r] # <<>> /\ Head(main[r]).op \notin Collective
          /\ main' = [main EXCEPT ![r] = Tail(main[r])] /\ DOMAIN main = Rank
        BY <1>3, <1>8 DEF Run, Shapes
    <2>2. Queued(r)' = Queued(r) \ {Head(main[r])}
        BY <1>3, <2>1, HeadOfQueue DEF Queued
    <2>3. \A q \in Rank \ {r} : Queued(q)' = Queued(q)
        BY <2>1 DEF Queued
    <2>4. /\ \A q \in Rank : Queued(q)' \subseteq Queued(q)
          /\ \A q \in Rank : \A o \in Queued(q) : o.op \in Collective => o \in Queued(q)'
        BY <2>1, <2>2, <2>3
    <2> QED
        BY <1>2, <1>8, <2>4, OtherStepsMeet DEF Run
<1>9. ASSUME NEW r \in Rank, RunSide(r) PROVE MeetInv'
    <2>1. \A q \in Rank : Queued(q)' = Queued(q)
        BY <1>9 DEF RunSide, Queued
    <2> QED
        BY <1>2, <1>9, <2>1, OtherStepsMeet DEF RunSide
<1>10. ASSUME NEW r \in Rank, Fail(r) PROVE MeetInv'
    BY <1>2, <1>10 DEF Fail
<1>11. CASE UNCHANGED vars
    <2>1. \A q \in Rank : Queued(q)' = Queued(q)
        BY <1>11 DEF vars, Queued
    <2> QED
        BY <1>2, <1>11, <2>1, OtherStepsMeet DEF vars
<1> QED
    BY <1>4, <1>5, <1>6, <1>7, <1>8, <1>9, <1>10, <1>11 DEF Next, Step

\* Two heads that are collectives are one: were they not, each would be before the other.
LEMMA HeadsMeet == ReadInv /\ MeetInv => RanksMeet
<1> SUFFICES ASSUME ReadInv, MeetInv, NEW r \in Rank, NEW q \in Rank,
                    main[r] # <<>>, main[q] # <<>>,
                    Head(main[r]).op \in Collective, Head(main[q]).op \in Collective
             PROVE  Head(main[r]) = Head(main[q])
    BY DEF RanksMeet
<1>1. PICK o, p : o = Head(main[r]) /\ p = Head(main[q])
    OBVIOUS
<1>2. Shapes /\ RankInv(r) /\ RankInv(q)
    BY DEF ReadInv
<1>3. /\ o \in Queued(r) /\ o \in OpType /\ \A x \in Queued(r) : x = o \/ Before(server.offload, o, x)
      /\ p \in Queued(q) /\ p \in OpType /\ \A x \in Queued(q) : x = p \/ Before(server.offload, p, x)
    BY <1>1, <1>2, HeadOfQueue
<1>4. Behind(r, o) /\ Behind(q, p)
    BY <1>2, <1>3 DEF RankInv, Queues
<1>5. ASSUME NEW c \in Rank, NEW x \in OpType, NEW y \in OpType, Behind(c, x), ~Behind(c, y),
             y.forward <= forward
      PROVE  Before(server.offload, x, y)
    <2>1. forward \in Nat /\ host[c] \in Nat /\ x.forward \in Nat /\ y.forward \in Nat
        BY <1>2, RankTypes, PlanLayers DEF OpType
    <2>2. y.forward = forward /\ host[c] # 0 /\ ~(StepOf(server.offload, y) < host[c])
        BY <1>5, <2>1 DEF Behind, Reached
    <2>3. StepOf(server.offload, x) \in Nat /\ StepOf(server.offload, y) \in Nat
        BY Spots
    <2>4. x.forward < forward \/ (x.forward = forward /\ StepOf(server.offload, x) < StepOf(server.offload, y))
        BY <1>5, <2>1, <2>2, <2>3 DEF Behind, Reached
    <2> QED
        BY <2>2, <2>4, StepsAreBefore DEF Before
<1>6. o.forward <= forward /\ p.forward <= forward
    <2>1. forward \in Nat /\ o.forward \in Nat /\ p.forward \in Nat
        BY <1>2, <1>3, RankTypes DEF OpType
    <2> QED
        BY <1>4, <2>1 DEF Behind, Reached
<1>7. o = p \/ Before(server.offload, p, o)
    <2>1. o \in Queued(q) \/ ~Behind(q, o)
        BY <1>1, <1>3 DEF MeetInv, Met
    <2> QED
        BY <2>1, <1>3, <1>4, <1>5, <1>6
<1>8. o = p \/ Before(server.offload, o, p)
    <2>1. p \in Queued(r) \/ ~Behind(r, p)
        BY <1>1, <1>3 DEF MeetInv, Met
    <2> QED
        BY <2>1, <1>3, <1>4, <1>5, <1>6
<1> QED
    BY <1>1, <1>3, <1>7, <1>8, BeforeIsStrict

\* Forwards fail on servers of one rank only: with more, the peers of a rank that
\* raised wait for it until the process group is torn down.
FaultsAreAlone == \A s \in Server : s.faults => \A r, q \in s.ranks : r = q

\* Ranks that wait for each other in _gather_ids, the expert dispatch or a scatter
\* wait at the same one, whatever batch each has and however far each host is ahead.
THEOREM RanksWaitTogether == FaultsAreAlone => (Spec => []RanksMeet)
<1> SUFFICES ASSUME FaultsAreAlone PROVE Spec => []RanksMeet
    OBVIOUS
<1>1. Init => MeetsUnlessFaulty
    BY MeetHoldsAtFirst DEF MeetsUnlessFaulty
<1>2. ReadInv /\ MeetsUnlessFaulty /\ [Next]_vars => MeetsUnlessFaulty'
    BY StepsMeet
<1>3. ReadInv /\ MeetsUnlessFaulty => RanksMeet
    <2>1. ReadInv /\ server.faults => RanksMeet
        BY DEF FaultsAreAlone, ReadInv, Shapes, RanksMeet, Rank
    <2> QED
        BY <2>1, HeadsMeet DEF MeetsUnlessFaulty
<1> QED
    BY <1>1, <1>2, <1>3, ReadInvHolds, PTL DEF Spec
=============================================================================
