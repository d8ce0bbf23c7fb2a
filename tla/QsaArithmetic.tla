---------------------------- MODULE QsaArithmetic ----------------------------
(***************************************************************************)
(* Facts about \div, % and prefixes that the addressing of the index cache *)
(* rests on, and induction.  The provers know \div and % only through      *)
(* DivMod, so what follows from it is stated here once; induction over the *)
(* numbers is stated for the set of the numbers that have a property.      *)
(***************************************************************************)
EXTENDS Integers, Sequences, WellFoundedInduction, TLAPS

\* The quotient and the remainder of a division by a positive number.
LEMMA DivMod ==
    ASSUME NEW a \in Int, NEW w \in Nat \ {0}
    PROVE  /\ a \div w \in Int /\ a % w \in 0 .. w - 1
           /\ a = (a \div w) * w + (a % w)
BY SMTT(30)

\* Products are integers, and different multiples of w are at least w apart.
LEMMA MulLess ==
    ASSUME NEW x \in Int, NEW y \in Int, NEW w \in Nat \ {0}, x < y
    PROVE  x * w \in Int /\ y * w \in Int /\ x * w + w <= y * w
BY SMTT(30)

\* The slot row * w + offset names its row and its offset.
LEMMA SlotInjective ==
    ASSUME NEW w \in Nat \ {0}, NEW x \in Int, NEW y \in Int,
           NEW i \in 0 .. w - 1, NEW j \in 0 .. w - 1,
           x * w + i = y * w + j
    PROVE  x = y /\ i = j
<1>1. x * w \in Int /\ y * w \in Int  OBVIOUS
<1>2. CASE x < y
  BY <1>1, <1>2, MulLess
<1>3. CASE y < x
  BY <1>1, <1>3, MulLess
<1>4. CASE x = y
  BY <1>4, <1>1
<1> QED BY <1>2, <1>3, <1>4

\* A division with a remainder below the divisor is the only one.
LEMMA DivUnique ==
    ASSUME NEW w \in Nat \ {0}, NEW q \in Int, NEW i \in 0 .. w - 1
    PROVE  (q * w + i) \div w = q /\ (q * w + i) % w = i
<1> DEFINE n == q * w + i
<1>1. q * w \in Int /\ n \in Int OBVIOUS
<1>2. n \div w \in Int /\ n % w \in 0 .. w - 1 /\ n = (n \div w) * w + (n % w)
  BY <1>1, DivMod
<1> QED BY <1>2, SlotInjective

\* Fewer than w consecutive positions have different remainders.
LEMMA WindowDistinct ==
    ASSUME NEW w \in Nat \ {0}, NEW p \in Int, NEW q \in Int,
           p <= q, q - p < w, p % w = q % w
    PROVE  p = q
<1>1. /\ p \div w \in Int /\ q \div w \in Int /\ p % w \in 0 .. w - 1 /\ q % w \in 0 .. w - 1
      /\ p = (p \div w) * w + (p % w) /\ q = (q \div w) * w + (q % w)
  BY DivMod
<1>2. (p \div w) * w \in Int /\ (q \div w) * w \in Int BY <1>1
<1>3. CASE p \div w < q \div w
  <2>1. (p \div w) * w + w <= (q \div w) * w BY <1>1, <1>3, MulLess
  <2> QED BY <1>1, <1>2, <2>1
<1>4. CASE q \div w < p \div w
  <2>1. (q \div w) * w + w <= (p \div w) * w BY <1>1, <1>4, MulLess
  <2> QED BY <1>1, <1>2, <2>1
<1>5. CASE q \div w = p \div w
  BY <1>1, <1>2, <1>5
<1> QED BY <1>1, <1>3, <1>4, <1>5

\* A natural number has natural quotients.
LEMMA DivNat ==
    ASSUME NEW n \in Nat, NEW w \in Nat \ {0}
    PROVE  n \div w \in Nat /\ n % w \in 0 .. w - 1 /\ (n \div w) * w <= n
<1>1. n \div w \in Int /\ n % w \in 0 .. w - 1 /\ n = (n \div w) * w + (n % w)
  BY DivMod
<1>2. (n \div w) * w \in Int BY <1>1
<1>3. CASE n \div w < 0
  <2>1. (n \div w) * w + w <= 0 * w BY <1>1, <1>3, MulLess
  <2> QED BY <1>1, <1>2, <2>1
<1> QED BY <1>1, <1>2, <1>3

\* Group g is complete in n positions exactly when g is below n \div w.
LEMMA BelowDiv ==
    ASSUME NEW n \in Nat, NEW g \in Int, NEW w \in Nat \ {0}
    PROVE  g < n \div w <=> (g + 1) * w <= n
<1>1. n \div w \in Int /\ n % w \in 0 .. w - 1 /\ n = (n \div w) * w + (n % w)
  BY DivMod
<1>2. (n \div w) * w \in Int /\ (g + 1) * w \in Int BY <1>1
<1>3. CASE g + 1 < n \div w
  BY <1>1, <1>2, <1>3, MulLess
<1>4. CASE g + 1 = n \div w
  BY <1>1, <1>2, <1>4
<1>5. CASE n \div w < g + 1
  <2>1. (n \div w) * w + w <= (g + 1) * w BY <1>1, <1>5, MulLess
  <2> QED BY <1>1, <1>2, <2>1, <1>5
<1> QED BY <1>1, <1>3, <1>4, <1>5

\* Rounding up: that many blocks of w hold n.
LEMMA CeilDiv ==
    ASSUME NEW n \in Nat, NEW w \in Nat \ {0}
    PROVE  /\ (n + w - 1) \div w \in Int /\ ((n + w - 1) \div w) * w \in Int
           /\ n <= ((n + w - 1) \div w) * w
<1>1. PICK m \in Int : m = n + w - 1 OBVIOUS
<1>2. m \div w \in Int /\ m % w \in 0 .. w - 1 /\ m = (m \div w) * w + (m % w)
  BY DivMod
<1>3. (m \div w) * w \in Int BY <1>2
<1>4. n <= (m \div w) * w BY <1>1, <1>2, <1>3
<1> QED BY <1>1, <1>2, <1>3, <1>4

-----------------------------------------------------------------------------
(* Prefixes of sequences *)

\* A concatenation and its left part.
LEMMA ConcatFacts ==
    ASSUME NEW S, NEW s \in Seq(S), NEW t \in Seq(S)
    PROVE  /\ s \o t \in Seq(S) /\ Len(s \o t) = Len(s) + Len(t)
           /\ SubSeq(s \o t, 1, Len(s)) = s
OBVIOUS

\* A concatenation element by element.
LEMMA ConcatElements ==
    ASSUME NEW S, NEW s \in Seq(S), NEW t \in Seq(S)
    PROVE  \A x \in 1 .. Len(s) + Len(t) : (s \o t)[x] = IF x <= Len(s) THEN s[x] ELSE t[x - Len(s)]
OBVIOUS

\* A prefix of a concatenation that ends in its left part.
LEMMA PrefixOfConcat ==
    ASSUME NEW S, NEW s \in Seq(S), NEW t \in Seq(S), NEW n \in 0 .. Len(s)
    PROVE  SubSeq(s \o t, 1, n) = SubSeq(s, 1, n)
OBVIOUS

\* A prefix of a prefix.
LEMMA PrefixOfPrefix ==
    ASSUME NEW S, NEW s \in Seq(S), NEW m \in 0 .. Len(s), NEW n \in 0 .. m
    PROVE  /\ SubSeq(s, 1, m) \in Seq(S) /\ Len(SubSeq(s, 1, m)) = m
           /\ SubSeq(SubSeq(s, 1, m), 1, n) = SubSeq(s, 1, n)
OBVIOUS

\* A sequence and a prefix of another, up to the end of that prefix.
LEMMA ConcatPrefix ==
    ASSUME NEW S, NEW s \in Seq(S), NEW t \in Seq(S), NEW k \in 0 .. Len(t)
    PROVE  /\ s \o SubSeq(t, 1, k) \in Seq(S)
           /\ Len(s \o SubSeq(t, 1, k)) = Len(s) + k
           /\ s \o SubSeq(t, 1, k) = SubSeq(s \o t, 1, Len(s) + k)
OBVIOUS

-----------------------------------------------------------------------------
(* Induction *)

Below == {pair \in Nat \X Nat : pair[1] < pair[2]}

\* A set of numbers that is not empty has a least one.
LEMMA LeastNat ==
    ASSUME NEW S \in SUBSET Nat, S # {}
    PROVE  \E x \in S : \A y \in S : x <= y
<1>1. IsWellFoundedOn(Below, Nat)
    BY NatLessThanWellFounded DEF OpToRel, Below
<1>2. PICK x \in S : \A y \in S : <<y, x>> \notin Below
    BY <1>1, WFMin
<1>3. ASSUME NEW y \in S PROVE x <= y
    <2>1. <<y, x>> \in Nat \X Nat
        BY <1>2
    <2>2. ~ (y < x)
        BY <1>2, <2>1 DEF Below
    <2> QED
        BY <2>1, <2>2
<1> QED
    BY <1>3

\* A set of numbers that holds 0 and the successor of each of its own holds all.
LEMMA InductiveSet ==
    ASSUME NEW P \in SUBSET Nat, 0 \in P, \A n \in Nat : n \in P => n + 1 \in P
    PROVE  P = Nat
<1> SUFFICES ASSUME Nat \ P # {} PROVE FALSE
    OBVIOUS
<1>1. PICK m \in Nat \ P : \A y \in Nat \ P : m <= y
    BY LeastNat
<1>2. m # 0
    OBVIOUS
<1>3. m - 1 \in P
    BY <1>1, <1>2
<1>4. (m - 1) + 1 \in P
    BY <1>2, <1>3
<1> QED
    BY <1>4

\* Any function on 1 .. n is a sequence of its values.
LEMMA FunctionIsSequence ==
    ASSUME NEW n \in Nat, NEW f, f = [o \in 1 .. n |-> f[o]]
    PROVE  f \in Seq({f[o] : o \in 1 .. n}) /\ Len(f) = n
OBVIOUS

\* A sequence over a set is one over any larger set.
LEMMA SequenceOver ==
    ASSUME NEW A, NEW B, A \subseteq B, NEW s \in Seq(A) PROVE s \in Seq(B)
OBVIOUS

\* A window of m elements behind the first k.
LEMMA WindowFacts ==
    ASSUME NEW S, NEW u \in Seq(S), NEW k \in Nat, NEW m \in Nat, k + m <= Len(u)
    PROVE  /\ SubSeq(u, k + 1, k + m) \in Seq(S) /\ Len(SubSeq(u, k + 1, k + m)) = m
           /\ \A j \in 1 .. m : SubSeq(u, k + 1, k + m)[j] = u[k + j]
<1>1. ASSUME NEW j \in 1 .. m PROVE SubSeq(u, k + 1, k + m)[j] = u[k + j]
    <2>1. SubSeq(u, k + 1, k + m)[j] = u[(k + 1) + j - 1]
        OBVIOUS
    <2>2. (k + 1) + j - 1 = k + j
        OBVIOUS
    <2> QED
        BY <2>1, <2>2
<1> QED
    BY <1>1

\* Sequences of one length with the same elements are the same.
LEMMA SameSequence ==
    ASSUME NEW A, NEW s \in Seq(A), NEW B, NEW t \in Seq(B), NEW n \in Nat,
           Len(s) = n, Len(t) = n, \A j \in 1 .. n : s[j] = t[j]
    PROVE  s = t
<1>1. s = [j \in 1 .. n |-> s[j]]
    OBVIOUS
<1>2. t = [j \in 1 .. n |-> t[j]]
    OBVIOUS
<1> QED
    BY <1>1, <1>2

-----------------------------------------------------------------------------
(* Running sums: where the blocks of a packed tensor end *)

\* Running sums exist: a recursion of finite length defines a function.
LEMMA SumsExist ==
    ASSUME NEW n \in Nat, NEW len \in [1 .. n -> Nat]
    PROVE  \E f : f = [i \in 0 .. n |-> IF i = 0 THEN 0 ELSE f[i - 1] + len[i]]
<1> DEFINE P == {m \in Nat : m <= n => \E f :
                    f = [i \in 0 .. m |-> IF i = 0 THEN 0 ELSE f[i - 1] + len[i]]}
<1>1. 0 \in P
    <2> DEFINE g == [i \in 0 .. 0 |-> 0]
    <2>1. g = [i \in 0 .. 0 |-> IF i = 0 THEN 0 ELSE g[i - 1] + len[i]]
        OBVIOUS
    <2> QED
        BY <2>1
<1>2. ASSUME NEW m \in Nat, m \in P PROVE m + 1 \in P
    <2>1. SUFFICES ASSUME m + 1 <= n
                   PROVE  \E f : f = [i \in 0 .. m + 1 |->
                                        IF i = 0 THEN 0 ELSE f[i - 1] + len[i]]
        OBVIOUS
    <2>2. PICK f : f = [i \in 0 .. m |-> IF i = 0 THEN 0 ELSE f[i - 1] + len[i]]
        BY <1>2, <2>1
    <2> DEFINE g == [i \in 0 .. m + 1 |-> IF i = m + 1 THEN f[m] + len[i] ELSE f[i]]
    <2>3. \A i \in 0 .. m : f[i] = IF i = 0 THEN 0 ELSE f[i - 1] + len[i]
        BY <2>2
    <2>4. ASSUME NEW i \in 0 .. m + 1
          PROVE  g[i] = IF i = 0 THEN 0 ELSE g[i - 1] + len[i]
        <3>1. CASE i = m + 1
            <4>1. i # 0 /\ i - 1 = m /\ m \in 0 .. m + 1 /\ m # m + 1
                BY <3>1
            <4> QED
                BY <3>1, <4>1
        <3>2. CASE i # m + 1
            <4>1. i \in 0 .. m /\ i - 1 # m + 1 /\ (i # 0 => i - 1 \in 0 .. m + 1)
                BY <3>2
            <4> QED
                BY <3>2, <4>1, <2>3
        <3> QED
            BY <3>1, <3>2
    <2>5. g = [i \in 0 .. m + 1 |-> IF i = 0 THEN 0 ELSE g[i - 1] + len[i]]
        BY <2>4
    <2> QED
        BY <2>5
<1>3. P = Nat
    <2> HIDE DEF P
    <2>1. P \subseteq Nat
        BY DEF P
    <2> QED
        BY <1>1, <1>2, <2>1, InductiveSet
<1>4. n \in P
    <2> HIDE DEF P
    <2> QED
        BY <1>3
<1>5. n <= n
    OBVIOUS
<1> QED
    BY <1>4, <1>5

\* The running sums of the lengths len: numbers that grow by one length each.
SumsOf(f, n, len) ==
    /\ f[0] = 0
    /\ \A i \in 1 .. n : f[i] = f[i - 1] + len[i]

LEMMA SumsGrow ==
    ASSUME NEW n \in Nat, NEW len \in [1 .. n -> Nat], NEW f, SumsOf(f, n, len)
    PROVE  /\ \A i \in 0 .. n : f[i] \in Nat
           /\ \A i, j \in 0 .. n : i <= j => f[i] <= f[j]
<1> DEFINE P == {m \in Nat : m <= n =>
                    /\ f[m] \in Nat
                    /\ \A i \in 0 .. m : f[i] \in Nat /\ f[i] <= f[m]}
<1>1. 0 \in P
    BY DEF SumsOf
<1>2. ASSUME NEW m \in Nat, m \in P PROVE m + 1 \in P
    <2> SUFFICES ASSUME m + 1 <= n
                 PROVE  /\ f[m + 1] \in Nat
                        /\ \A i \in 0 .. m + 1 : f[i] \in Nat /\ f[i] <= f[m + 1]
        OBVIOUS
    <2>1. f[m + 1] = f[m] + len[m + 1]
        <3>1. m + 1 \in 1 .. n
            OBVIOUS
        <3>2. f[m + 1] = f[(m + 1) - 1] + len[m + 1]
            BY <3>1 DEF SumsOf
        <3> QED
            BY <3>2
    <2>2. len[m + 1] \in Nat
        OBVIOUS
    <2>3. f[m] \in Nat /\ \A i \in 0 .. m : f[i] \in Nat /\ f[i] <= f[m]
        BY <1>2
    <2> QED
        BY <2>1, <2>2, <2>3
<1>3. P = Nat
    <2> HIDE DEF P
    <2>1. P \subseteq Nat
        BY DEF P
    <2> QED
        BY <1>1, <1>2, <2>1, InductiveSet
<1>4. \A j \in 0 .. n : /\ f[j] \in Nat
                        /\ \A i \in 0 .. j : f[i] \in Nat /\ f[i] <= f[j]
    BY <1>3
<1>5. \A i, j \in 0 .. n : i <= j => f[i] <= f[j]
    BY <1>4
<1> QED
    BY <1>4, <1>5

\* Lengths of at most d add up to at most n * d.
LEMMA SumsBounded ==
    ASSUME NEW n \in Nat, NEW len \in [1 .. n -> Nat], NEW f, SumsOf(f, n, len),
           NEW d \in Nat, \A i \in 1 .. n : len[i] <= d
    PROVE  f[n] <= n * d
<1> DEFINE P == {m \in Nat : m <= n => f[m] <= m * d}
<1>1. 0 \in P
    BY DEF SumsOf
<1>2. ASSUME NEW m \in Nat, m \in P PROVE m + 1 \in P
    <2> SUFFICES ASSUME m + 1 <= n PROVE f[m + 1] <= (m + 1) * d
        OBVIOUS
    <2>1. f[m + 1] = f[m] + len[m + 1] /\ len[m + 1] \in Nat /\ len[m + 1] <= d
        BY DEF SumsOf
    <2>2. f[m] \in Nat
        BY SumsGrow
    <2>3. f[m] <= m * d
        BY <1>2
    <2>4. (m + 1) * d = m * d + d /\ m * d \in Nat
        OBVIOUS
    <2> QED
        BY <2>1, <2>2, <2>3, <2>4
<1>3. P = Nat
    <2> HIDE DEF P
    <2>1. P \subseteq Nat
        BY DEF P
    <2> QED
        BY <1>1, <1>2, <2>1, InductiveSet
<1>4. n \in P
    <2> HIDE DEF P
    <2> QED
        BY <1>3
<1> QED
    BY <1>4

\* Totals of numbers that are w times smaller are w times smaller.
LEMMA SumsScaled ==
    ASSUME NEW k \in Nat, NEW small \in [1 .. k -> Nat], NEW big \in [1 .. k -> Nat],
           NEW f, SumsOf(f, k, small), NEW g, SumsOf(g, k, big),
           NEW w \in Nat, \A i \in 1 .. k : small[i] * w <= big[i]
    PROVE  f[k] * w <= g[k]
<1> DEFINE P == {m \in Nat : m <= k => f[m] * w <= g[m]}
<1>1. 0 \in P
    BY DEF SumsOf
<1>2. ASSUME NEW m \in Nat, m \in P PROVE m + 1 \in P
    <2> SUFFICES ASSUME m + 1 <= k PROVE f[m + 1] * w <= g[m + 1]
        OBVIOUS
    <2>0. m \in 0 .. k /\ m + 1 \in 1 .. k /\ m <= k
        OBVIOUS
    <2>1. f[m + 1] = f[m] + small[m + 1] /\ g[m + 1] = g[m] + big[m + 1]
        BY <2>0 DEF SumsOf
    <2>2. PICK a \in Nat, b \in Nat : a = f[m] /\ b = g[m]
        BY <2>0, SumsGrow
    <2>3. PICK c \in Nat, d \in Nat : c = small[m + 1] /\ d = big[m + 1]
        BY <2>0
    <2>4. a * w <= b
        BY <1>2, <2>0, <2>2
    <2>5. c * w <= d
        BY <2>0, <2>3
    <2>6. (a + c) * w = a * w + c * w /\ a * w \in Nat /\ c * w \in Nat
        OBVIOUS
    <2>7. (a + c) * w <= b + d
        <3>1. PICK x \in Nat, y \in Nat : x = a * w /\ y = c * w
            BY <2>6
        <3> QED
            BY <2>4, <2>5, <2>6, <3>1
    <2>8. f[m + 1] = a + c /\ g[m + 1] = b + d
        BY <2>1, <2>2, <2>3
    <2> QED
        BY <2>7, <2>8
<1>3. P = Nat
    <2> HIDE DEF P
    <2>1. P \subseteq Nat
        BY DEF P
    <2> QED
        BY <1>1, <1>2, <2>1, InductiveSet
<1>4. k \in P
    <2> HIDE DEF P
    <2> QED
        BY <1>3
<1> QED
    BY <1>4

\* Every place up to the last sum lies in one block.
LEMMA OneBlock ==
    ASSUME NEW n \in Nat, NEW len \in [1 .. n -> Nat], NEW f, SumsOf(f, n, len),
           NEW t \in 1 .. f[n]
    PROVE  /\ \E i \in 1 .. n : f[i - 1] < t /\ t <= f[i]
           /\ \A i, j \in 1 .. n :
                /\ f[i - 1] < t /\ t <= f[i]
                /\ f[j - 1] < t /\ t <= f[j]
                => i = j
<1> DEFINE S == {i \in 0 .. n : t <= f[i]}
<1>1. /\ \A i \in 0 .. n : f[i] \in Nat
      /\ \A i, j \in 0 .. n : i <= j => f[i] <= f[j]
      /\ f[0] = 0
    BY SumsGrow DEF SumsOf
<1>2. t \in Nat /\ 1 <= t /\ t <= f[n]
    BY <1>1
<1>3. PICK i \in S : \A j \in S : i <= j
    <2>1. S \in SUBSET Nat /\ n \in S
        BY <1>1, <1>2
    <2> QED
        BY <2>1, LeastNat
<1>4. i # 0 /\ i - 1 \notin S
    BY <1>1, <1>2, <1>3
<1>5. i \in 1 .. n /\ f[i - 1] < t /\ t <= f[i]
    BY <1>1, <1>2, <1>3, <1>4
<1>6. \A j, k \in 1 .. n : j < k /\ t <= f[j] => ~ (f[k - 1] < t)
    BY <1>1, <1>2
<1>7. \A j, k \in 1 .. n :
        /\ f[j - 1] < t /\ t <= f[j]
        /\ f[k - 1] < t /\ t <= f[k]
        => j = k
    BY <1>1, <1>6
<1> QED
    BY <1>5, <1>7
=============================================================================
