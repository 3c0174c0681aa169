---------------------------- MODULE InjectionProofs ----------------------------
(***************************************************************************)
(* Theorems about Redactor and Injection, for any bytes, values, aliases,  *)
(* stores, processes and faults.                                           *)
(*                                                                         *)
(* Induction is by a least counterexample, on numbers and on where a scan  *)
(* stands.  A scan takes one item at a time; which item depends only on    *)
(* the bytes that the longest value may reach over, which is what is held  *)
(* back.                                                                   *)
(***************************************************************************)
EXTENDS Injection, WellFoundedInduction, FiniteSetTheorems, SequenceTheorems, TLAPS

-----------------------------------------------------------------------------
(* Numbers.  Induction is by a least counterexample.                       *)

LEMMA Least ==
  ASSUME NEW S \in SUBSET Nat, NEW m \in S
  PROVE  \E x \in S : \A y \in S : x <= y
<1>1. IsWellFoundedOn(OpToRel(<, Nat), Nat)
  BY NatLessThanWellFounded
<1>2. PICK x \in S : \A y \in S : ~ (<<y, x>> \in OpToRel(<, Nat))
  BY <1>1, WFMin, Zenon
<1>3. \A y \in S : ~(y < x)
  BY <1>2 DEF OpToRel
<1>4. QED
  BY <1>3

LEMMA UpTo ==
  ASSUME NEW b \in Nat, NEW G, 0 \in G, \A n \in 1 .. b : n - 1 \in G => n \in G
  PROVE  \A n \in 0 .. b : n \in G
<1> DEFINE Bad == {n \in 0 .. b : n \notin G}
<1> SUFFICES ASSUME NEW m \in Bad PROVE FALSE
  OBVIOUS
<1>1. Bad \in SUBSET Nat
  OBVIOUS
<1>2. PICK n \in Bad : \A k \in Bad : n <= k
  BY <1>1, Least
<1>3. n \in 1 .. b /\ n - 1 \in 0 .. b
  BY <1>2
<1>4. n - 1 \notin Bad
  BY <1>2, <1>3
<1>5. QED
  BY <1>2, <1>3, <1>4

LEMMA Greatest ==
  ASSUME NEW b \in Nat, NEW S \in SUBSET (0 .. b), NEW m \in S
  PROVE  \E x \in S : \A y \in S : y <= x
<1> DEFINE T == {b - y : y \in S}
<1>1. T \in SUBSET Nat /\ b - m \in T
  OBVIOUS
<1>2. PICK x \in T : \A y \in T : x <= y
  BY <1>1, Least
<1>3. PICK z \in S : x = b - z
  OBVIOUS
<1>4. \A y \in S : b - z <= b - y
  BY <1>2, <1>3
<1>5. QED
  BY <1>4

\* Max of the community modules, on sets like these.
LEMMA MaxIsGreatest ==
  ASSUME NEW b \in Nat, NEW S \in SUBSET (0 .. b), NEW m \in S
  PROVE  Max(S) \in S /\ \A y \in S : y <= Max(S)
<1>1. \E x \in S : \A y \in S : x >= y
  BY Greatest
<1>2. QED
  BY <1>1 DEF Max

LEMMA MinOfTwo ==
  ASSUME NEW a \in Int, NEW b \in Int
  PROVE  Min({a, b}) = IF a <= b THEN a ELSE b
<1>1. \E x \in {a, b} : \A y \in {a, b} : x =< y
  OBVIOUS
<1>2. Min({a, b}) \in {a, b} /\ \A y \in {a, b} : Min({a, b}) =< y
  BY <1>1 DEF Min
<1>3. QED
  BY <1>2

LEMMA FiniteIsBounded ==
  ASSUME NEW S, IsFiniteSet(S), NEW f \in [S -> Int]
  PROVE  \E b \in Nat : \A x \in S : f[x] <= b
<1>1. PICK seq \in Seq(S) : \A x \in S : \E n \in 1 .. Len(seq) : seq[n] = x
  BY DEF IsFiniteSet
<1> DEFINE Bounded(n) == \E b \in Nat : \A i \in 1 .. n : f[seq[i]] <= b
           Good == {n \in 0 .. Len(seq) : Bounded(n)}
<1>2. Bounded(0)
  OBVIOUS
<1>3. ASSUME NEW n \in 1 .. Len(seq), Bounded(n - 1) PROVE Bounded(n)
  <2>1. PICK b \in Nat : \A i \in 1 .. (n - 1) : f[seq[i]] <= b
    BY <1>3
  <2>2. f[seq[n]] \in Int /\ n \in Nat
    OBVIOUS
  <2> DEFINE c == IF f[seq[n]] <= b THEN b ELSE f[seq[n]]
  <2>3. c \in Nat /\ b <= c /\ f[seq[n]] <= c
    BY <2>2
  <2> HIDE DEF c
  <2>4. ASSUME NEW i \in 1 .. n PROVE f[seq[i]] <= c
    <3>1. CASE i = n
      BY <2>3, <3>1
    <3>2. CASE i # n
      <4>1. i \in 1 .. (n - 1) /\ f[seq[i]] \in Int
        BY <2>2, <3>2
      <4>2. QED
        BY <2>1, <2>3, <4>1
    <3>3. QED
      BY <3>1, <3>2
  <2>5. QED
    BY <2>3, <2>4
<1> HIDE DEF Bounded
<1>4. \A n \in 0 .. Len(seq) : n \in Good
  <2>1. 0 \in Good
    BY <1>2
  <2>2. \A n \in 1 .. Len(seq) : n - 1 \in Good => n \in Good
    BY <1>3
  <2> HIDE DEF Good
  <2>3. Len(seq) \in Nat
    OBVIOUS
  <2>4. QED
    BY <2>1, <2>2, <2>3, UpTo
<1>5. Bounded(Len(seq))
  BY <1>4
<1>6. PICK b \in Nat : \A i \in 1 .. Len(seq) : f[seq[i]] <= b
  BY <1>5 DEF Bounded
<1>7. \A x \in S : f[x] <= b
  BY <1>1, <1>6
<1>8. QED
  BY <1>7

LEMMA MaxSpanBounds ==
  ASSUME NEW S \in SUBSET Values
  PROVE  /\ MaxSpan(S) \in Nat
         /\ \A s \in S : SpanCap(Len(s)) \in Nat /\ SpanCap(Len(s)) <= MaxSpan(S)
         /\ \A s \in S : Len(s) \in Nat \ {0} /\ Len(s) <= SpanCap(Len(s))
<1>1. \A s \in Values : Len(s) \in Nat \ {0} /\ Len(s) <= SpanCap(Len(s)) /\ SpanCap(Len(s)) \in Nat
  BY RedactorAssumption DEF SpanCap
<1>2. CASE S = {}
  BY <1>2 DEF MaxSpan
<1>3. CASE S # {}
  <2> DEFINE f == [s \in Values |-> SpanCap(Len(s))]
             T == {SpanCap(Len(s)) : s \in S}
  <2>1. f \in [Values -> Int]
    BY <1>1
  <2>2. PICK b \in Nat : \A s \in Values : f[s] <= b
    BY <2>1, FiniteIsBounded, RedactorAssumption
  <2>3. T \in SUBSET (0 .. b) /\ T # {}
    BY <1>1, <1>3, <2>2
  <2>4. Max(T) \in T /\ \A y \in T : y <= Max(T)
    BY <2>3, MaxIsGreatest
  <2>5. MaxSpan(S) = Max(T)
    BY <1>3 DEF MaxSpan
  <2>6. QED
    BY <1>1, <2>3, <2>4, <2>5
<1>4. QED
  BY <1>2, <1>3

-----------------------------------------------------------------------------
(* Bytes without gaps.                                                     *)

Stripping(s, m, f) ==
  f = [n \in 0 .. m |-> IF n = 0 THEN <<>>
                        ELSE IF IsGap(s[n]) THEN f[n - 1] ELSE Append(f[n - 1], s[n])]

LEMMA StrippingExists == ASSUME NEW s, NEW m \in Nat PROVE \E f : Stripping(s, m, f)
<1> DEFINE Defined(k) == \E f : Stripping(s, k, f)
           Good == {n \in 0 .. m : Defined(n)}
<1>1. Defined(0)
  <2>1. Stripping(s, 0, [n \in 0 .. 0 |-> <<>>])
    BY DEF Stripping
  <2>2. QED
    BY <2>1
<1>2. ASSUME NEW k \in Nat \ {0}, Defined(k - 1) PROVE Defined(k)
  <2>1. PICK f : Stripping(s, k - 1, f)
    BY <1>2
  <2> DEFINE last == IF IsGap(s[k]) THEN f[k - 1] ELSE Append(f[k - 1], s[k])
             g == [n \in 0 .. k |-> IF n = k THEN last ELSE f[n]]
  <2>2. \A n \in 0 .. (k - 1) : g[n] = f[n]
    OBVIOUS
  <2>3. ASSUME NEW n \in 0 .. k
        PROVE  g[n] = IF n = 0 THEN <<>>
                      ELSE IF IsGap(s[n]) THEN g[n - 1] ELSE Append(g[n - 1], s[n])
    <3>1. CASE n = k
      <4>1. g[n] = last /\ g[n - 1] = f[n - 1]
        BY <3>1
      <4>2. QED
        BY <3>1, <4>1
    <3>2. CASE n # k
      <4>1. n \in 0 .. (k - 1) /\ (n # 0 => n - 1 \in 0 .. (k - 1))
        BY <3>2
      <4>2. f[n] = IF n = 0 THEN <<>>
                   ELSE IF IsGap(s[n]) THEN f[n - 1] ELSE Append(f[n - 1], s[n])
        BY <2>1, <4>1 DEF Stripping
      <4>3. g[n] = f[n] /\ (n # 0 => g[n - 1] = f[n - 1])
        BY <2>2, <4>1
      <4> HIDE DEF g
      <4>4. QED
        BY <4>2, <4>3
    <3>3. QED
      BY <3>1, <3>2
  <2>4. g = [n \in 0 .. k |-> g[n]]
    OBVIOUS
  <2> HIDE DEF g
  <2>5. Stripping(s, k, g)
    BY <2>3, <2>4 DEF Stripping
  <2>6. QED
    BY <2>5
<1> HIDE DEF Defined
<1>3. \A n \in 0 .. m : n \in Good
  <2>1. 0 \in Good
    BY <1>1
  <2>2. \A n \in 1 .. m : n - 1 \in Good => n \in Good
    BY <1>2
  <2> HIDE DEF Good
  <2>3. QED
    BY <2>1, <2>2, UpTo
<1>4. Defined(m)
  BY <1>3
<1>5. QED
  BY <1>4 DEF Defined

LEMMA StrippingAgrees ==
  ASSUME NEW s, NEW t, NEW m \in Nat, NEW k \in Nat, NEW f, NEW g,
         Stripping(s, m, f), Stripping(t, k, g),
         NEW n \in Nat, n <= m, n <= k, \A i \in 1 .. n : s[i] = t[i]
  PROVE  f[n] = g[n]
<1> DEFINE Bad == {i \in 0 .. n : f[i] # g[i]}
<1>1. Bad = {}
  <2> SUFFICES ASSUME NEW j \in Bad PROVE FALSE
    OBVIOUS
  <2>1. Bad \in SUBSET Nat
    OBVIOUS
  <2>2. PICK i \in Bad : \A x \in Bad : i <= x
    BY <2>1, Least
  <2>3. i \in 0 .. m /\ i \in 0 .. k
    OBVIOUS
  <2>4. /\ f[i] = IF i = 0 THEN <<>>
                  ELSE IF IsGap(s[i]) THEN f[i - 1] ELSE Append(f[i - 1], s[i])
        /\ g[i] = IF i = 0 THEN <<>>
                  ELSE IF IsGap(t[i]) THEN g[i - 1] ELSE Append(g[i - 1], t[i])
    BY <2>3 DEF Stripping
  <2>5. i \in 1 .. n /\ i - 1 \in 0 .. n
    BY <2>4
  <2>6. f[i - 1] = g[i - 1]
    BY <2>2, <2>5
  <2>7. s[i] = t[i]
    BY <2>5
  <2>8. QED
    BY <2>4, <2>5, <2>6, <2>7
<1>2. n \in 0 .. n
  OBVIOUS
<1>3. QED
  BY <1>1, <1>2

LEMMA Prefixes ==
  ASSUME NEW s \in Seq(Bytes), NEW n \in 0 .. Len(s)
  PROVE  /\ SubSeq(s, 1, n) \in Seq(Bytes) /\ Len(SubSeq(s, 1, n)) = n
         /\ \A i \in 1 .. n : SubSeq(s, 1, n)[i] = s[i]
BY SubSeqProperties

\* What WithoutGaps makes of the prefixes of s.
LEMMA StripIs ==
  ASSUME NEW s \in Seq(Bytes), NEW f, Stripping(s, Len(s), f), NEW n \in 0 .. Len(s)
  PROVE  WithoutGaps(SubSeq(s, 1, n)) = f[n]
<1> DEFINE p == SubSeq(s, 1, n)
           g == CHOOSE g : Stripping(p, Len(p), g)
<1>1. p \in Seq(Bytes) /\ Len(p) = n /\ \A i \in 1 .. n : p[i] = s[i]
  BY Prefixes
<1>2. n \in Nat /\ Len(s) \in Nat /\ n <= Len(s)
  OBVIOUS
<1> HIDE DEF p
<1>3. Stripping(p, Len(p), g)
  BY <1>1, <1>2, StrippingExists
<1>4. WithoutGaps(p) = g[Len(p)]
  BY DEF WithoutGaps, Stripping
<1> HIDE DEF g
<1>5. g[n] = f[n]
  BY <1>1, <1>2, <1>3, StrippingAgrees
<1>6. QED
  BY <1>1, <1>4, <1>5 DEF p

LEMMA StripStep ==
  ASSUME NEW s \in Seq(Bytes), NEW n \in 1 .. Len(s)
  PROVE  WithoutGaps(SubSeq(s, 1, n)) =
           IF IsGap(s[n]) THEN WithoutGaps(SubSeq(s, 1, n - 1))
           ELSE Append(WithoutGaps(SubSeq(s, 1, n - 1)), s[n])
<1>1. Len(s) \in Nat /\ n \in 0 .. Len(s) /\ n - 1 \in 0 .. Len(s) /\ n # 0
  OBVIOUS
<1>2. PICK f : Stripping(s, Len(s), f)
  BY <1>1, StrippingExists
<1>3. f[n] = IF IsGap(s[n]) THEN f[n - 1] ELSE Append(f[n - 1], s[n])
  BY <1>1, <1>2 DEF Stripping
<1>4. QED
  BY <1>1, <1>2, <1>3, StripIs

LEMMA StripNone == ASSUME NEW s \in Seq(Bytes) PROVE WithoutGaps(SubSeq(s, 1, 0)) = <<>>
<1>1. PICK f : Stripping(s, Len(s), f)
  BY StrippingExists
<1>2. f[0] = <<>>
  BY <1>1 DEF Stripping
<1>3. QED
  BY <1>1, <1>2, StripIs

\* Trailing gaps make no difference.
LEMMA StripTail ==
  ASSUME NEW s \in Seq(Bytes), NEW m \in 0 .. Len(s), NEW n \in m .. Len(s),
         \A i \in (m + 1) .. n : IsGap(s[i])
  PROVE  WithoutGaps(SubSeq(s, 1, n)) = WithoutGaps(SubSeq(s, 1, m))
<1> DEFINE Bad == {i \in m .. n : WithoutGaps(SubSeq(s, 1, i)) # WithoutGaps(SubSeq(s, 1, m))}
<1>1. Bad = {}
  <2> SUFFICES ASSUME NEW j \in Bad PROVE FALSE
    OBVIOUS
  <2>1. Bad \in SUBSET Nat
    OBVIOUS
  <2>2. PICK i \in Bad : \A x \in Bad : i <= x
    BY <2>1, Least
  <2>3. i \in (m + 1) .. n /\ i \in 1 .. Len(s) /\ i - 1 \in m .. n
    OBVIOUS
  <2>4. WithoutGaps(SubSeq(s, 1, i)) = WithoutGaps(SubSeq(s, 1, i - 1))
    BY <2>3, StripStep
  <2>5. i - 1 \notin Bad
    BY <2>2, <2>3
  <2>6. QED
    BY <2>2, <2>3, <2>4, <2>5
<1>2. n \in m .. n
  OBVIOUS
<1>3. QED
  BY <1>1, <1>2

\* The first byte stays the first, unless it is a gap.
LEMMA StripHead ==
  ASSUME NEW s \in Seq(Bytes), s # <<>>, ~IsGap(s[1])
  PROVE  WithoutGaps(s) \in Seq(Bytes) /\ WithoutGaps(s) # <<>> /\ Head(WithoutGaps(s)) = s[1]
<1> DEFINE Good(w) == w \in Seq(Bytes) /\ w # <<>> /\ Head(w) = s[1]
           Bad == {i \in 1 .. Len(s) : ~Good(WithoutGaps(SubSeq(s, 1, i)))}
<1>1. Len(s) \in Nat /\ Len(s) >= 1 /\ s[1] \in Bytes
  OBVIOUS
<1>2. Good(WithoutGaps(SubSeq(s, 1, 1)))
  <2>1. ASSUME NEW n \in 1 .. Len(s), n = 1 PROVE Good(WithoutGaps(SubSeq(s, 1, n)))
    <3>1. WithoutGaps(SubSeq(s, 1, n)) = Append(WithoutGaps(SubSeq(s, 1, n - 1)), s[n])
      BY <2>1, StripStep, Zenon
    <3>2. n - 1 = 0
      BY <2>1
    <3>3. WithoutGaps(SubSeq(s, 1, n)) = Append(<<>>, s[1])
      BY <2>1, <3>1, <3>2, StripNone
    <3> DEFINE w == WithoutGaps(SubSeq(s, 1, n))
    <3>4. w = Append(<<>>, s[1])
      BY <3>3
    <3> HIDE DEF w
    <3>5. w = <<s[1]>>
      BY <3>4
    <3>6. Good(w)
      BY <1>1, <3>5
    <3>7. QED
      BY <3>6 DEF w
  <2>2. QED
    BY <1>1, <2>1
<1>3. ASSUME NEW w, Good(w), NEW b \in Bytes PROVE Good(Append(w, b))
  BY <1>3, HeadTailAppend, AppendProperties
<1> HIDE DEF Good
<1>4. Bad = {}
  <2> SUFFICES ASSUME NEW j \in Bad PROVE FALSE
    OBVIOUS
  <2>1. Bad \in SUBSET Nat
    OBVIOUS
  <2>2. PICK i \in Bad : \A x \in Bad : i <= x
    BY <2>1, Least
  <2>3. i \in 1 .. Len(s) /\ i # 1
    BY <1>2
  <2>4. i - 1 \in 1 .. Len(s) /\ i - 1 \notin Bad /\ s[i] \in Bytes
    BY <2>2, <2>3
  <2>5. Good(WithoutGaps(SubSeq(s, 1, i - 1)))
    BY <2>4
  <2>6. Good(WithoutGaps(SubSeq(s, 1, i)))
    BY <1>3, <2>3, <2>4, <2>5, StripStep
  <2>7. QED
    BY <2>6
<1>5. Good(WithoutGaps(SubSeq(s, 1, Len(s))))
  BY <1>1, <1>4
<1>6. SubSeq(s, 1, Len(s)) = s
  BY SubSeqFull
<1>7. QED
  BY <1>5, <1>6 DEF Good

-----------------------------------------------------------------------------
(* matchAt.                                                                *)

LEMMA SpansType ==
  ASSUME NEW buf \in Seq(Bytes), NEW limit \in Int
  PROVE  Spans(buf, limit) \subseteq 1 .. Len(buf)
BY DEF Spans

LEMMA ReachType ==
  ASSUME NEW buf \in Seq(Bytes), NEW S \in SUBSET Values
  PROVE  /\ FragmentReach(buf, S) \in Nat
         /\ Len(buf) >= MaxSpan(S) => FragmentReach(buf, S) = MaxSpan(S)
<1>1. Len(buf) \in Nat /\ MaxSpan(S) \in Nat
  BY MaxSpanBounds
<1>2. QED
  BY <1>1, MinOfTwo DEF FragmentReach

LEMMA ExactType ==
  ASSUME NEW buf \in Seq(Bytes), NEW S \in SUBSET Values
  PROVE  ExactMatches(buf, S) \subseteq 1 .. Len(buf)
<1>1. \A v \in S : Len(v) \in Nat \ {0}
  BY MaxSpanBounds
<1>2. QED
  BY <1>1 DEF ExactMatches

LEMMA FlexType ==
  ASSUME NEW buf \in Seq(Bytes), NEW S \in SUBSET Values
  PROVE  FlexMatches(buf, S) \subseteq 1 .. Len(buf)
<1>1. MaxSpan(S) \in Nat
  BY MaxSpanBounds
<1>2. \A s : FlexSpans(buf, s, MaxSpan(S)) \subseteq 1 .. Len(buf)
  BY <1>1, SpansType DEF FlexSpans
<1>3. QED
  BY <1>2 DEF FlexMatches

LEMMA FragmentType ==
  ASSUME NEW buf \in Seq(Bytes), NEW S \in SUBSET Values
  PROVE  FragmentMatches(buf, S) \subseteq 1 .. Len(buf)
<1>1. FragmentMatches(buf, S) \subseteq Spans(buf, FragmentReach(buf, S))
  BY DEF FragmentMatches
<1>2. QED
  BY <1>1, SpansType, ReachType

LEMMA MatchType ==
  ASSUME NEW buf \in Seq(Bytes), NEW S \in SUBSET Values
  PROVE  MatchAt(buf, S) \in 0 .. Len(buf)
<1>1. Len(buf) \in Nat
  OBVIOUS
<1>2. ASSUME NEW T \in SUBSET (0 .. Len(buf)), T # {} PROVE Max(T) \in 0 .. Len(buf)
  BY <1>1, <1>2, MaxIsGreatest
<1>3. ExactMatches(buf, S) \in SUBSET (0 .. Len(buf)) /\ FlexMatches(buf, S) \in SUBSET (0 .. Len(buf))
  BY <1>1, ExactType, FlexType
<1>4. FragmentMatches(buf, S) \cup {0} \in SUBSET (0 .. Len(buf))
  BY <1>1, FragmentType
<1>5. QED
  BY <1>2, <1>3, <1>4 DEF MatchAt

\* No match means that no value of S begins here, exactly or with gaps put between its bytes.
LEMMA NoMatchNoValue ==
  ASSUME NEW buf \in Seq(Bytes), NEW S \in SUBSET Values, MatchAt(buf, S) = 0,
         NEW s \in S, NEW n \in 1 .. Len(buf), n <= SpanCap(Len(s))
  PROVE  /\ SubSeq(buf, 1, n) # s
         /\ ~IsGap(buf[1]) => WithoutGaps(SubSeq(buf, 1, n)) # WithoutGaps(s)
<1>1. Len(buf) \in Nat /\ s \in Seq(Bytes) /\ s # <<>> /\ n \in Nat
  BY RedactorAssumption
<1>2. /\ MaxSpan(S) \in Nat /\ SpanCap(Len(s)) \in Nat /\ SpanCap(Len(s)) <= MaxSpan(S)
      /\ Len(s) \in Nat \ {0}
  BY MaxSpanBounds
<1>3. ExactMatches(buf, S) = {}
  <2> SUFFICES ASSUME ExactMatches(buf, S) # {} PROVE FALSE
    OBVIOUS
  <2>1. ExactMatches(buf, S) \in SUBSET (0 .. Len(buf)) /\ 0 \notin ExactMatches(buf, S)
    BY <1>1, ExactType
  <2>2. Max(ExactMatches(buf, S)) \in ExactMatches(buf, S)
    BY <1>1, <2>1, MaxIsGreatest
  <2>3. QED
    BY <2>1, <2>2 DEF MatchAt
<1>4. FlexMatches(buf, S) = {}
  <2> SUFFICES ASSUME FlexMatches(buf, S) # {} PROVE FALSE
    OBVIOUS
  <2>1. FlexMatches(buf, S) \in SUBSET (0 .. Len(buf)) /\ 0 \notin FlexMatches(buf, S)
    BY <1>1, FlexType
  <2>2. Max(FlexMatches(buf, S)) \in FlexMatches(buf, S)
    BY <1>1, <2>1, MaxIsGreatest
  <2>3. QED
    BY <1>3, <2>1, <2>2 DEF MatchAt
<1>5. SubSeq(buf, 1, n) # s
  <2> SUFFICES ASSUME SubSeq(buf, 1, n) = s PROVE FALSE
    OBVIOUS
  <2>1. Len(s) = n
    BY <1>1, Prefixes
  <2>2. s \in {v \in S : Len(v) <= Len(buf) /\ SubSeq(buf, 1, Len(v)) = v}
    BY <1>1, <2>1
  <2>3. QED
    BY <1>3, <2>2 DEF ExactMatches
<1>6. ASSUME ~IsGap(buf[1]), WithoutGaps(SubSeq(buf, 1, n)) = WithoutGaps(s) PROVE FALSE
  <2> DEFINE p == SubSeq(buf, 1, n)
             Dense == {i \in 1 .. n : ~IsGap(buf[i])}
  <2>1. p \in Seq(Bytes) /\ p # <<>> /\ p[1] = buf[1]
    <3>1. p \in Seq(Bytes) /\ Len(p) = n /\ p[1] = buf[1]
      BY <1>1, Prefixes
    <3>2. QED
      BY <1>1, <3>1
  <2>2. WithoutGaps(s) # <<>> /\ Head(WithoutGaps(s)) = buf[1]
    BY <1>6, <2>1, StripHead
  <2>3. Dense \in SUBSET (0 .. n) /\ 1 \in Dense
    BY <1>1, <1>6
  <2>4. PICK m \in Dense : \A i \in Dense : i <= m
    BY <1>1, <2>3, Greatest
  <2>5. \A i \in (m + 1) .. n : IsGap(buf[i])
    BY <1>1, <2>4
  <2>6. m \in 0 .. Len(buf) /\ n \in m .. Len(buf)
    BY <1>1
  <2>7. WithoutGaps(SubSeq(buf, 1, n)) = WithoutGaps(SubSeq(buf, 1, m))
    BY <2>5, <2>6, StripTail
  <2>8. m \in Spans(buf, MaxSpan(S))
    BY <1>1, <1>2 DEF Spans
  <2>9. m \in FlexSpans(buf, s, MaxSpan(S))
    BY <1>6, <2>2, <2>7, <2>8 DEF FlexSpans
  <2> DEFINE Having == {t \in S : WithoutGaps(t) # <<>> /\ FlexSpans(buf, t, MaxSpan(S)) # {}}
             Lengths == {Len(t) : t \in Having}
  <2>10. s \in Having
    BY <2>2, <2>9
  <2>11. Lengths \in SUBSET (0 .. MaxSpan(S)) /\ Len(s) \in Lengths
    <3>1. \A t \in S : Len(t) \in 0 .. MaxSpan(S)
      BY <1>2, MaxSpanBounds
    <3>2. QED
      BY <2>10, <3>1
  <2>12. Max(Lengths) \in Lengths
    BY <1>2, <2>11, MaxIsGreatest
  <2>13. PICK t \in Having : Len(t) = Max(Lengths)
    BY <2>12
  <2>14. FlexSpans(buf, t, MaxSpan(S)) \subseteq FlexMatches(buf, S)
    BY <2>13 DEF FlexMatches
  <2>15. QED
    BY <1>4, <2>13, <2>14
<1>7. QED
  BY <1>5, <1>6

\* MaxSpan(S) bytes decide.
LEMMA MatchIsLocal ==
  ASSUME NEW b \in Seq(Bytes), NEW c \in Seq(Bytes), NEW S \in SUBSET Values,
         Len(b) >= MaxSpan(S), Len(c) >= MaxSpan(S), \A i \in 1 .. MaxSpan(S) : b[i] = c[i]
  PROVE  MatchAt(b, S) = MatchAt(c, S)
<1> DEFINE M == MaxSpan(S)
<1>1. M \in Nat /\ Len(b) \in Nat /\ Len(c) \in Nat
  BY MaxSpanBounds
<1>2. ASSUME NEW n \in 0 .. M PROVE SubSeq(b, 1, n) = SubSeq(c, 1, n)
  <2>1. n \in 0 .. Len(b) /\ n \in 0 .. Len(c)
    BY <1>1
  <2>2. /\ SubSeq(b, 1, n) \in Seq(Bytes) /\ Len(SubSeq(b, 1, n)) = n
        /\ SubSeq(c, 1, n) \in Seq(Bytes) /\ Len(SubSeq(c, 1, n)) = n
        /\ \A i \in 1 .. n : SubSeq(b, 1, n)[i] = b[i] /\ SubSeq(c, 1, n)[i] = c[i]
    BY <2>1, Prefixes
  <2>3. \A i \in 1 .. n : b[i] = c[i]
    BY <1>1
  <2>4. QED
    BY <2>2, <2>3, SeqEqual
<1>3. Spans(b, M) = Spans(c, M) /\ Spans(b, M) \subseteq 1 .. M
  BY <1>1 DEF Spans
<1>4. \A v \in S : Len(v) \in 0 .. M
  BY <1>1, MaxSpanBounds
<1>5. ExactMatches(b, S) = ExactMatches(c, S)
  <2>1. \A v \in S : /\ Len(v) <= Len(b) /\ Len(v) <= Len(c)
                    /\ SubSeq(b, 1, Len(v)) = SubSeq(c, 1, Len(v))
    BY <1>1, <1>2, <1>4
  <2>2. QED
    BY <2>1 DEF ExactMatches
<1>6. ASSUME NEW s PROVE FlexSpans(b, s, M) = FlexSpans(c, s, M)
  <2>1. ASSUME NEW n \in Spans(b, M)
        PROVE  SubSeq(b, 1, n) = SubSeq(c, 1, n) /\ b[1] = c[1]
    BY <1>1, <1>2, <1>3
  <2> HIDE DEF M
  <2>2. \A n : n \in FlexSpans(b, s, M) <=> n \in FlexSpans(c, s, M)
    BY <1>3, <2>1 DEF FlexSpans
  <2>3. QED
    BY <2>2 DEF FlexSpans
<1>7. FlexMatches(b, S) = FlexMatches(c, S)
  BY <1>6 DEF FlexMatches
<1>8. FragmentMatches(b, S) = FragmentMatches(c, S)
  <2>1. FragmentReach(b, S) = M /\ FragmentReach(c, S) = M
    BY ReachType
  <2>2. ASSUME NEW n \in Spans(b, M)
        PROVE  SubSeq(b, 1, n) = SubSeq(c, 1, n) /\ b[1] = c[1]
    BY <1>1, <1>2, <1>3
  <2> HIDE DEF M
  <2>3. QED
    BY <1>3, <2>1, <2>2 DEF FragmentMatches
<1>9. QED
  BY <1>5, <1>7, <1>8 DEF MatchAt

-----------------------------------------------------------------------------
(* scan.                                                                   *)

Here(text, q, S) == MatchAt(SubSeq(text, q, Len(text)), S)
Step(text, q, S) == IF Here(text, q, S) = 0 THEN 1 ELSE Here(text, q, S)
Item(text, q, S) == IF Here(text, q, S) = 0 THEN q ELSE Placeholder
Stops(text, q, S, final) == Len(text) - q + 1 <= Hold(S, final)

\* The body of Scan's recursion.
ScanFrom(text, S, final, f, q) ==
  IF Stops(text, q, S, final) THEN [out |-> <<>>, seen |-> q - 1]
  ELSE [f[q + Step(text, q, S)] EXCEPT !.out = <<Item(text, q, S)>> \o @]

Scanning(text, S, final, k, f) ==
  f = [q \in k .. (Len(text) + 1) |-> ScanFrom(text, S, final, f, q)]

LEMMA HoldType == ASSUME NEW S \in SUBSET Values, NEW final \in BOOLEAN PROVE Hold(S, final) \in Nat
BY MaxSpanBounds DEF Hold

\* A scan goes on while there are bytes, and forwards.
LEMMA StepType ==
  ASSUME NEW text \in Seq(Bytes), NEW S \in SUBSET Values, NEW final \in BOOLEAN,
         NEW q \in 1 .. (Len(text) + 1), ~Stops(text, q, S, final)
  PROVE  /\ q \in 1 .. Len(text)
         /\ q + Step(text, q, S) \in (q + 1) .. (Len(text) + 1)
         /\ Item(text, q, S) \in 0 .. Len(text)
<1>1. Len(text) \in Nat /\ Hold(S, final) \in Nat
  BY HoldType
<1>2. q \in 1 .. Len(text)
  BY <1>1 DEF Stops
<1>3. /\ SubSeq(text, q, Len(text)) \in Seq(Bytes)
      /\ Len(SubSeq(text, q, Len(text))) = Len(text) - q + 1
  BY <1>1, <1>2, SubSeqProperties
<1>4. Here(text, q, S) \in 0 .. (Len(text) - q + 1)
  BY <1>3, MatchType DEF Here
<1>5. QED
  BY <1>1, <1>2, <1>4 DEF Step, Item, Placeholder

LEMMA ScanningExists ==
  ASSUME NEW text \in Seq(Bytes), NEW S \in SUBSET Values, NEW final \in BOOLEAN
  PROVE  \E f : Scanning(text, S, final, 1, f)
<1> DEFINE L == Len(text)
           Defined(m) == \E f : Scanning(text, S, final, L + 1 - m, f)
           Good == {n \in 0 .. L : Defined(n)}
<1>1. L \in Nat
  OBVIOUS
<1>2. Defined(0)
  <2> DEFINE end == [out |-> <<>>, seen |-> L + 1 - 1]
             f == [q \in (L + 1 - 0) .. (L + 1) |-> end]
  <2>1. \A q \in (L + 1 - 0) .. (L + 1) : q = L + 1 /\ Stops(text, q, S, final)
    BY <1>1, HoldType DEF Stops
  <2>2. \A q \in (L + 1 - 0) .. (L + 1) : ScanFrom(text, S, final, f, q) = end
    BY <2>1 DEF ScanFrom
  <2>3. Scanning(text, S, final, L + 1 - 0, f)
    BY <2>2 DEF Scanning
  <2>4. QED
    BY <2>3
<1>3. ASSUME NEW m \in 1 .. L, Defined(m - 1) PROVE Defined(m)
  <2> DEFINE k == L + 1 - m
  <2>1. k \in 1 .. L /\ L + 1 - (m - 1) = k + 1
    BY <1>1
  <2>2. PICK f : Scanning(text, S, final, k + 1, f)
    BY <1>3, <2>1
  <2> HIDE DEF k
  <2> DEFINE g == [q \in k .. (L + 1) |-> IF q = k THEN ScanFrom(text, S, final, f, k) ELSE f[q]]
  <2>3. \A q \in (k + 1) .. (L + 1) : g[q] = f[q] /\ f[q] = ScanFrom(text, S, final, f, q)
    <3>1. \A q \in (k + 1) .. (L + 1) : f[q] = ScanFrom(text, S, final, f, q)
      BY <2>2 DEF Scanning
    <3>2. \A q \in (k + 1) .. (L + 1) : q \in k .. (L + 1) /\ q # k
      BY <1>1, <2>1
    <3>3. \A q \in (k + 1) .. (L + 1) : g[q] = f[q]
      BY <3>2
    <3>4. QED
      BY <3>1, <3>3
  <2>4. g[k] = ScanFrom(text, S, final, f, k) /\ g = [q \in k .. (L + 1) |-> g[q]]
    BY <1>1, <2>1
  <2> HIDE DEF g
  <2>5. ASSUME NEW q \in k .. (L + 1)
        PROVE  ScanFrom(text, S, final, f, q) = ScanFrom(text, S, final, g, q)
    <3>1. CASE Stops(text, q, S, final)
      BY <3>1 DEF ScanFrom
    <3>2. CASE ~Stops(text, q, S, final)
      <4>1. q \in 1 .. (L + 1)
        BY <1>1, <2>1
      <4>2. q + Step(text, q, S) \in (q + 1) .. (L + 1)
        BY <3>2, <4>1, StepType
      <4>3. q + Step(text, q, S) \in (k + 1) .. (L + 1)
        BY <1>1, <2>1, <4>1, <4>2
      <4>4. g[q + Step(text, q, S)] = f[q + Step(text, q, S)]
        BY <2>3, <4>3
      <4>5. QED
        BY <3>2, <4>4 DEF ScanFrom
    <3>3. QED
      BY <3>1, <3>2
  <2>6. \A q \in k .. (L + 1) : g[q] = ScanFrom(text, S, final, g, q)
    <3>1. ASSUME NEW q \in k .. (L + 1) PROVE q = k \/ q \in (k + 1) .. (L + 1)
      BY <1>1, <2>1
    <3>2. QED
      BY <2>3, <2>4, <2>5, <3>1
  <2>7. Scanning(text, S, final, k, g)
    BY <2>4, <2>6 DEF Scanning
  <2>8. QED
    BY <2>7 DEF k
<1> HIDE DEF Defined
<1>4. \A n \in 0 .. L : n \in Good
  <2>1. 0 \in Good
    BY <1>1, <1>2
  <2>2. \A n \in 1 .. L : n - 1 \in Good => n \in Good
    BY <1>3
  <2> HIDE DEF Good
  <2>3. QED
    BY <1>1, <2>1, <2>2, UpTo
<1>5. Defined(L)
  BY <1>1, <1>4
<1>6. L + 1 - L = 1
  BY <1>1
<1>7. QED
  BY <1>5, <1>6 DEF Defined

LEMMA ScanUnfolds ==
  ASSUME NEW text \in Seq(Bytes), NEW S \in SUBSET Values, NEW final \in BOOLEAN,
         NEW q \in 1 .. (Len(text) + 1),
         NEW rest \in [out : Seq(0 .. Len(text)), seen : 0 .. Len(text)],
         ~Stops(text, q, S, final) => rest = Scan(text, q + Step(text, q, S), S, final)
  PROVE  Scan(text, q, S, final) =
           IF Stops(text, q, S, final) THEN [out |-> <<>>, seen |-> q - 1]
           ELSE [out |-> <<Item(text, q, S)>> \o rest.out, seen |-> rest.seen]
<1> DEFINE f == CHOOSE f : Scanning(text, S, final, 1, f)
<1>1. Scanning(text, S, final, 1, f)
  BY ScanningExists
<1>2. ASSUME NEW p PROVE Scan(text, p, S, final) = f[p]
  BY DEF Scan, Scanning, ScanFrom, Stops, Step, Item, Here
<1> HIDE DEF f
<1>3. f[q] = ScanFrom(text, S, final, f, q)
  BY <1>1 DEF Scanning
<1>4. ~Stops(text, q, S, final) => rest = f[q + Step(text, q, S)]
  BY <1>2
<1>5. QED
  BY <1>2, <1>3, <1>4 DEF ScanFrom

\* What is so where a scan stops, and wherever it is so one step further, is so everywhere.
LEMMA ScanInduction ==
  ASSUME NEW text \in Seq(Bytes), NEW S \in SUBSET Values, NEW final \in BOOLEAN, NEW G,
         \A q \in 1 .. (Len(text) + 1) : Stops(text, q, S, final) => q \in G,
         \A q \in 1 .. (Len(text) + 1) :
           ~Stops(text, q, S, final) /\ q + Step(text, q, S) \in G => q \in G,
         NEW p \in 1 .. (Len(text) + 1)
  PROVE  p \in G
<1> DEFINE L == Len(text)
           Bad == {m \in 0 .. L : L + 1 - m \notin G}
<1>1. L \in Nat
  OBVIOUS
<1>2. Bad = {}
  <2> SUFFICES ASSUME NEW j \in Bad PROVE FALSE
    OBVIOUS
  <2>1. Bad \in SUBSET Nat
    OBVIOUS
  <2>2. PICK m \in Bad : \A x \in Bad : m <= x
    BY <2>1, Least
  <2> DEFINE q == L + 1 - m
  <2>3. q \in 1 .. (L + 1) /\ q \notin G /\ ~Stops(text, q, S, final)
    BY <1>1
  <2>4. q + Step(text, q, S) \in (q + 1) .. (L + 1)
    BY <2>3, StepType
  <2>5. PICK k \in 0 .. L : q + Step(text, q, S) = L + 1 - k /\ k < m
    <3> DEFINE n == q + Step(text, q, S)
    <3>1. n \in (q + 1) .. (L + 1) /\ m \in Nat
      BY <2>4
    <3> HIDE DEF n
    <3>2. L + 1 - n \in 0 .. L /\ n = L + 1 - (L + 1 - n) /\ L + 1 - n < m
      BY <1>1, <2>3, <3>1
    <3>3. QED
      BY <3>2 DEF n
  <2>6. k \notin Bad
    BY <2>2, <2>5
  <2>7. q + Step(text, q, S) \in G
    BY <2>5, <2>6
  <2>8. QED
    BY <2>3, <2>7
<1> DEFINE m == L + 1 - p
<1>3. m \in 0 .. L /\ L + 1 - m = p
  BY <1>1
<1> HIDE DEF m
<1>4. m \notin Bad
  BY <1>2
<1>5. QED
  BY <1>3, <1>4

\* Where a scan may stop and what it may keep.
LEMMA ScanType ==
  ASSUME NEW text \in Seq(Bytes), NEW S \in SUBSET Values, NEW final \in BOOLEAN,
         NEW p \in 1 .. (Len(text) + 1)
  PROVE  /\ Scan(text, p, S, final) \in [out : Seq(0 .. Len(text)), seen : (p - 1) .. Len(text)]
         /\ final => Scan(text, p, S, final).seen = Len(text)
<1> DEFINE L == Len(text)
           R(q) == Scan(text, q, S, final)
           Good(q) == /\ R(q) \in [out : Seq(0 .. L), seen : (q - 1) .. L]
                      /\ final => R(q).seen = L
<1>1. L \in Nat /\ Hold(S, final) \in Nat /\ (final => Hold(S, final) = 0)
  BY HoldType DEF Hold
<1>2. ASSUME NEW q \in 1 .. (L + 1), Stops(text, q, S, final) PROVE Good(q)
  <2>1. R(q) = [out |-> <<>>, seen |-> q - 1]
    <3> DEFINE any == [out |-> <<>>, seen |-> 0]
    <3>1. any \in [out : Seq(0 .. Len(text)), seen : 0 .. Len(text)]
      BY <1>1
    <3> HIDE DEF any
    <3>2. QED
      BY <1>2, <3>1, ScanUnfolds, ZenonT(60)
  <2>2. ASSUME final PROVE q - 1 = L
    <3>1. L - q + 1 <= 0
      BY <1>1, <1>2, <2>2 DEF Stops
    <3>2. QED
      BY <1>1, <3>1
  <2> DEFINE r == R(q)
  <2>3. r = [out |-> <<>>, seen |-> q - 1]
    BY <2>1
  <2> HIDE DEF r
  <2>4. r \in [out : Seq(0 .. L), seen : (q - 1) .. L] /\ (final => r.seen = L)
    BY <1>1, <2>2, <2>3
  <2>5. QED
    BY <2>4 DEF r
<1>3. ASSUME NEW q \in 1 .. (L + 1), ~Stops(text, q, S, final), Good(q + Step(text, q, S)) PROVE Good(q)
  <2> DEFINE n == q + Step(text, q, S)
             i == Item(text, q, S)
             r == R(q)
             t == R(n)
  <2>1. n \in (q + 1) .. (L + 1) /\ i \in 0 .. L
    BY <1>3, StepType
  <2>2. t \in [out : Seq(0 .. L), seen : (n - 1) .. L] /\ (final => t.seen = L)
    BY <1>3
  <2>3. t = Scan(text, q + Step(text, q, S), S, final) /\ i = Item(text, q, S)
    OBVIOUS
  <2> HIDE DEF n, i, t
  <2>4. t \in [out : Seq(0 .. L), seen : 0 .. L]
    BY <1>1, <2>1, <2>2
  <2>5. r = [out |-> <<i>> \o t.out, seen |-> t.seen]
    BY <1>3, <2>3, <2>4, ScanUnfolds, ZenonT(60)
  <2> HIDE DEF r
  <2>6. <<i>> \o t.out \in Seq(0 .. L)
    <3>1. <<i>> \in Seq(0 .. L) /\ t.out \in Seq(0 .. L)
      BY <2>1, <2>4
    <3>2. QED
      BY <3>1, ConcatProperties
  <2>7. t.seen \in (q - 1) .. L
    BY <1>1, <2>1, <2>2
  <2>8. r \in [out : Seq(0 .. L), seen : (q - 1) .. L] /\ (final => r.seen = L)
    BY <2>2, <2>5, <2>6, <2>7
  <2>9. QED
    BY <2>8 DEF r
<1> HIDE DEF Good
<1> DEFINE G == {q \in 1 .. (L + 1) : Good(q)}
<1>4. p \in G
  BY <1>2, <1>3, ScanInduction
<1>5. QED
  BY <1>4 DEF Good

LEMMA ScanRecurs ==
  ASSUME NEW text \in Seq(Bytes), NEW S \in SUBSET Values, NEW final \in BOOLEAN,
         NEW q \in 1 .. (Len(text) + 1)
  PROVE  /\ Stops(text, q, S, final) => Scan(text, q, S, final) = [out |-> <<>>, seen |-> q - 1]
         /\ ~Stops(text, q, S, final) =>
              Scan(text, q, S, final) =
                [out |-> <<Item(text, q, S)>> \o Scan(text, q + Step(text, q, S), S, final).out,
                 seen |-> Scan(text, q + Step(text, q, S), S, final).seen]
<1> DEFINE L == Len(text)
<1>1. L \in Nat
  OBVIOUS
<1>2. CASE Stops(text, q, S, final)
  <2> DEFINE any == [out |-> <<>>, seen |-> 0]
  <2>1. any \in [out : Seq(0 .. L), seen : 0 .. L]
    BY <1>1
  <2> HIDE DEF any
  <2>2. QED
    BY <1>2, <2>1, ScanUnfolds, ZenonT(60)
<1>3. CASE ~Stops(text, q, S, final)
  <2> DEFINE n == q + Step(text, q, S)
             rest == Scan(text, n, S, final)
  <2>1. n \in (q + 1) .. (L + 1)
    BY <1>3, StepType
  <2> HIDE DEF n
  <2>2. n \in 1 .. (L + 1)
    BY <1>1, <2>1
  <2>3. rest \in [out : Seq(0 .. L), seen : (n - 1) .. L]
    BY <2>2, ScanType
  <2> HIDE DEF rest
  <2>4. rest \in [out : Seq(0 .. L), seen : 0 .. L]
    BY <1>1, <2>2, <2>3
  <2>5. rest = Scan(text, q + Step(text, q, S), S, final)
    BY DEF rest, n
  <2>6. QED
    BY <1>3, <2>4, <2>5, ScanUnfolds
<1>4. QED
  BY <1>2, <1>3

\* What a scan writes on lies where no match begins, and before what it holds back.
KeptBytes(r, low, text, S, final) ==
  \A k \in DOMAIN r.out : r.out[k] # Placeholder =>
    /\ r.out[k] \in low .. r.seen
    /\ Here(text, r.out[k], S) = 0 /\ ~Stops(text, r.out[k], S, final)

LEMMA ScanKept ==
  ASSUME NEW text \in Seq(Bytes), NEW S \in SUBSET Values, NEW final \in BOOLEAN,
         NEW p \in 1 .. (Len(text) + 1)
  PROVE  KeptBytes(Scan(text, p, S, final), p, text, S, final)
<1> DEFINE L == Len(text)
           R(q) == Scan(text, q, S, final)
           Good(q) == KeptBytes(R(q), q, text, S, final)
           G == {q \in 1 .. (L + 1) : Good(q)}
<1>1. L \in Nat
  OBVIOUS
<1>2. ASSUME NEW q \in 1 .. (L + 1), Stops(text, q, S, final) PROVE Good(q)
  <2> DEFINE r == R(q)
  <2>2. r = [out |-> <<>>, seen |-> q - 1]
    BY <1>2, ScanRecurs
  <2> HIDE DEF r
  <2>3. DOMAIN r.out = {}
    BY <2>2
  <2>4. KeptBytes(r, q, text, S, final)
    BY <2>3 DEF KeptBytes
  <2>5. QED
    BY <2>4 DEF r
<1>3. ASSUME NEW q \in 1 .. (L + 1), ~Stops(text, q, S, final), Good(q + Step(text, q, S)) PROVE Good(q)
  <2> DEFINE n == q + Step(text, q, S)
             i == Item(text, q, S)
             r == R(q)
             t == R(n)
  <2>1. q \in 1 .. L /\ n \in (q + 1) .. (L + 1) /\ i \in 0 .. L
    BY <1>3, StepType
  <2>2. t \in [out : Seq(0 .. L), seen : (n - 1) .. L] /\ KeptBytes(t, n, text, S, final)
    <3>1. n \in 1 .. (L + 1)
      BY <1>1, <2>1
    <3> HIDE DEF n
    <3>2. QED
      BY <1>3, <3>1, ScanType DEF n
  <2>3. t = Scan(text, q + Step(text, q, S), S, final) /\ i = Item(text, q, S)
    OBVIOUS
  <2> HIDE DEF n, i, t
  <2>4. t \in [out : Seq(0 .. L), seen : 0 .. L]
    BY <1>1, <2>1, <2>2
  <2>5. r = [out |-> <<i>> \o t.out, seen |-> t.seen]
    BY <1>3, <2>3, ScanRecurs
  <2> HIDE DEF r
  <2>6. ASSUME NEW k \in DOMAIN r.out
        PROVE  r.out[k] = i \/ \E j \in DOMAIN t.out : r.out[k] = t.out[j]
    <3>1. <<i>> \in Seq(0 .. L) /\ t.out \in Seq(0 .. L) /\ r.out = <<i>> \o t.out
      BY <2>1, <2>4, <2>5
    <3>2. /\ DOMAIN r.out = 1 .. (1 + Len(t.out)) /\ r.out[1] = i
          /\ \A j \in 2 .. (1 + Len(t.out)) : r.out[j] = t.out[j - 1]
      BY <3>1, ConcatProperties
    <3>3. k = 1 \/ (k \in 2 .. (1 + Len(t.out)) /\ k - 1 \in DOMAIN t.out)
      BY <3>1, <3>2, SMTT(30)
    <3>4. QED
      BY <3>2, <3>3
  <2>7. r.seen = t.seen /\ t.seen \in Int /\ q <= n - 1 /\ n - 1 <= t.seen
    BY <1>1, <2>1, <2>2, <2>5
  <2>8. ASSUME NEW k \in DOMAIN r.out, r.out[k] # Placeholder
        PROVE  /\ r.out[k] \in q .. r.seen
               /\ Here(text, r.out[k], S) = 0 /\ ~Stops(text, r.out[k], S, final)
    <3>1. CASE r.out[k] = i
      <4>1. i = q /\ Here(text, q, S) = 0
        BY <2>3, <2>8, <3>1 DEF Item
      <4>2. QED
        BY <1>3, <2>7, <2>1, <3>1, <4>1
    <3>2. CASE \E j \in DOMAIN t.out : r.out[k] = t.out[j]
      <4>1. PICK j \in DOMAIN t.out : r.out[k] = t.out[j]
        BY <3>2
      <4>2. /\ t.out[j] \in n .. t.seen
            /\ Here(text, t.out[j], S) = 0 /\ ~Stops(text, t.out[j], S, final)
        BY <2>2, <2>8, <4>1 DEF KeptBytes
      <4>3. QED
        BY <2>1, <2>7, <4>1, <4>2
    <3>3. QED
      BY <2>6, <3>1, <3>2
  <2>9. KeptBytes(r, q, text, S, final)
    BY <2>8 DEF KeptBytes
  <2>10. QED
    BY <2>9 DEF r
<1> HIDE DEF Good
<1>4. p \in G
  BY <1>2, <1>3, ScanInduction
<1>5. QED
  BY <1>4 DEF Good

\* A scan that gives something out gets on.
LEMMA ScanMoves ==
  ASSUME NEW text \in Seq(Bytes), NEW S \in SUBSET Values, NEW final \in BOOLEAN,
         NEW p \in 1 .. (Len(text) + 1), Scan(text, p, S, final).seen < p
  PROVE  Scan(text, p, S, final).out = <<>>
<1> DEFINE L == Len(text)
           n == p + Step(text, p, S)
           t == Scan(text, n, S, final)
           r == Scan(text, p, S, final)
<1>1. CASE Stops(text, p, S, final)
  <2>1. r = [out |-> <<>>, seen |-> p - 1]
    BY <1>1, ScanRecurs
  <2>2. QED
    BY <2>1
<1>2. CASE ~Stops(text, p, S, final)
  <2>1. n \in (p + 1) .. (L + 1) /\ L \in Nat
    BY <1>2, StepType
  <2>2. r = [out |-> <<Item(text, p, S)>> \o t.out, seen |-> t.seen]
    BY <1>2, ScanRecurs
  <2>3. r.seen = t.seen
    <3> HIDE DEF r
    <3>1. QED
      BY <2>2
  <2> HIDE DEF n
  <2>4. n \in 1 .. (L + 1)
    BY <2>1
  <2>5. t \in [out : Seq(0 .. L), seen : (n - 1) .. L]
    BY <2>4, ScanType
  <2> HIDE DEF t
  <2>6. t.seen >= p /\ t.seen \in Int
    BY <2>1, <2>5
  <2>7. QED
    BY <2>3, <2>6
<1>3. QED
  BY <1>1, <1>2

LEMMA Appended ==
  ASSUME NEW t \in Seq(Bytes), NEW e \in Seq(Bytes)
  PROVE  /\ t \o e \in Seq(Bytes) /\ Len(t \o e) = Len(t) + Len(e)
         /\ \A i \in 1 .. Len(t) : (t \o e)[i] = t[i]
BY ConcatProperties

\* Where a pass over t goes on, the bytes after t make no difference.
LEMMA MatchesAlike ==
  ASSUME NEW t \in Seq(Bytes), NEW e \in Seq(Bytes), NEW S \in SUBSET Values,
         NEW q \in 1 .. (Len(t) + 1), ~Stops(t, q, S, FALSE)
  PROVE  /\ ~Stops(t \o e, q, S, TRUE)
         /\ Step(t \o e, q, S) = Step(t, q, S) /\ Item(t \o e, q, S) = Item(t, q, S)
<1> DEFINE u == t \o e
           b == SubSeq(t, q, Len(t))
           c == SubSeq(u, q, Len(u))
<1>1. u \in Seq(Bytes) /\ Len(u) = Len(t) + Len(e) /\ \A i \in 1 .. Len(t) : u[i] = t[i]
  BY Appended
<1>2. Len(t) \in Nat /\ Len(e) \in Nat /\ MaxSpan(S) \in Nat
  BY MaxSpanBounds
<1>3. q \in 1 .. Len(t) /\ Len(t) - q + 1 >= MaxSpan(S)
  BY <1>2 DEF Stops, Hold
<1> HIDE DEF u
<1>4. ~Stops(u, q, S, TRUE)
  BY <1>1, <1>2, <1>3 DEF Stops, Hold
<1>5. /\ b \in Seq(Bytes) /\ Len(b) = Len(t) - q + 1
      /\ \A i \in 1 .. (Len(t) - q + 1) : b[i] = t[q + i - 1]
  BY <1>2, <1>3, SubSeqProperties
<1>6. /\ c \in Seq(Bytes) /\ Len(c) = Len(u) - q + 1
      /\ \A i \in 1 .. (Len(u) - q + 1) : c[i] = u[q + i - 1]
  <2>1. q \in 1 .. (Len(u) + 1) /\ Len(u) \in Nat
    BY <1>1, <1>2, <1>3
  <2>2. QED
    BY <1>1, <1>2, <1>3, <2>1, SubSeqProperties
<1> HIDE DEF b, c
<1>7. ASSUME NEW i \in 1 .. MaxSpan(S) PROVE b[i] = c[i]
  <2>1. /\ i \in 1 .. (Len(t) - q + 1) /\ i \in 1 .. (Len(u) - q + 1)
        /\ q + i - 1 \in 1 .. Len(t)
    BY <1>1, <1>2, <1>3
  <2>2. QED
    BY <1>1, <1>5, <1>6, <2>1
<1>8. Len(b) >= MaxSpan(S) /\ Len(c) >= MaxSpan(S)
  BY <1>1, <1>2, <1>3, <1>5, <1>6
<1>9. MatchAt(b, S) = MatchAt(c, S)
  BY <1>5, <1>6, <1>7, <1>8, MatchIsLocal
<1>10. Here(t, q, S) = Here(u, q, S)
  BY <1>9 DEF Here, b, c
<1>11. QED
  BY <1>4, <1>10 DEF Step, Item, u

\* Sequences over T are joined in any order.
Joins(T) == \A a, b, c \in Seq(T) : (a \o b) \o c = a \o (b \o c)

LEMMA JoinAll == \A T : Joins(T)
<1>1. \A T : \A a, b, c \in Seq(T) : (a \o b) \o c = a \o (b \o c)
  BY ConcatAssociative, Zenon
<1>2. QED
  BY <1>1, Zenon DEF Joins

\* A pass over t and a pass over what it left, with what came after it, make one pass.
LEMMA PassesJoin ==
  ASSUME NEW t \in Seq(Bytes), NEW e \in Seq(Bytes), NEW S \in SUBSET Values,
         NEW p \in 1 .. (Len(t) + 1)
  PROVE  Scan(t \o e, p, S, TRUE).out =
           Scan(t, p, S, FALSE).out \o Scan(t \o e, Scan(t, p, S, FALSE).seen + 1, S, TRUE).out
<1> DEFINE u == t \o e
           L == Len(t)
           R(q) == Scan(t, q, S, FALSE)
           W(q) == Scan(u, q, S, TRUE)
           Good(q) == W(q).out = R(q).out \o W(R(q).seen + 1).out
           G == {q \in 1 .. (L + 1) : Good(q)}
<1>1. /\ u \in Seq(Bytes) /\ Len(u) = L + Len(e) /\ L \in Nat /\ Len(u) \in Nat /\ L <= Len(u)
  BY Appended
<1>2. ASSUME NEW final, final = TRUE, NEW q \in 1 .. (L + 1)
      PROVE  /\ Scan(u, q, S, final) \in [out : Seq(0 .. Len(u)), seen : (q - 1) .. Len(u)]
             /\ ~Stops(u, q, S, final) =>
                  Scan(u, q, S, final) =
                    [out |-> <<Item(u, q, S)>> \o Scan(u, q + Step(u, q, S), S, final).out,
                     seen |-> Scan(u, q + Step(u, q, S), S, final).seen]
  <2> HIDE DEF u
  <2>1. q \in 1 .. (Len(u) + 1) /\ final \in BOOLEAN
    BY <1>1, <1>2
  <2>2. QED
    BY <1>1, <2>1, ScanType, ScanRecurs, ZenonT(60)
<1>3. ASSUME NEW final, final = FALSE, NEW q \in 1 .. (L + 1)
      PROVE  /\ Scan(t, q, S, final) \in [out : Seq(0 .. L), seen : (q - 1) .. L]
             /\ Stops(t, q, S, final) => Scan(t, q, S, final) = [out |-> <<>>, seen |-> q - 1]
             /\ ~Stops(t, q, S, final) =>
                  Scan(t, q, S, final) =
                    [out |-> <<Item(t, q, S)>> \o Scan(t, q + Step(t, q, S), S, final).out,
                     seen |-> Scan(t, q + Step(t, q, S), S, final).seen]
  <2>1. final \in BOOLEAN
    BY <1>3
  <2>2. QED
    BY <2>1, ScanType, ScanRecurs, ZenonT(60)
<1>4. ASSUME NEW q \in 1 .. (L + 1)
      PROVE  /\ W(q) \in [out : Seq(0 .. Len(u)), seen : (q - 1) .. Len(u)]
             /\ ~Stops(u, q, S, TRUE) =>
                  W(q) = [out |-> <<Item(u, q, S)>> \o W(q + Step(u, q, S)).out,
                          seen |-> W(q + Step(u, q, S)).seen]
             /\ R(q) \in [out : Seq(0 .. L), seen : (q - 1) .. L]
             /\ Stops(t, q, S, FALSE) => R(q) = [out |-> <<>>, seen |-> q - 1]
             /\ ~Stops(t, q, S, FALSE) =>
                  R(q) = [out |-> <<Item(t, q, S)>> \o R(q + Step(t, q, S)).out,
                          seen |-> R(q + Step(t, q, S)).seen]
  BY <1>2, <1>3, Zenon
<1>5. ASSUME NEW q \in 1 .. (L + 1), ~Stops(t, q, S, FALSE)
      PROVE  /\ q + Step(t, q, S) \in (q + 1) .. (L + 1) /\ Item(t, q, S) \in 0 .. L
             /\ ~Stops(u, q, S, TRUE) /\ Step(u, q, S) = Step(t, q, S) /\ Item(u, q, S) = Item(t, q, S)
  <2>1. ASSUME NEW final, final = FALSE
        PROVE  q + Step(t, q, S) \in (q + 1) .. (L + 1) /\ Item(t, q, S) \in 0 .. L
    <3>1. final \in BOOLEAN /\ ~Stops(t, q, S, final)
      BY <1>5, <2>1
    <3>2. QED
      BY <3>1, StepType
  <2>2. QED
    BY <1>5, <2>1, MatchesAlike
<1> HIDE DEF R, W, u
<1>6. ASSUME NEW q \in 1 .. (L + 1), Stops(t, q, S, FALSE) PROVE Good(q)
  <2>1. R(q) = [out |-> <<>>, seen |-> q - 1] /\ W(q).out \in Seq(0 .. Len(u))
    BY <1>4, <1>6
  <2>2. R(q).out = <<>> /\ R(q).seen + 1 = q
    BY <2>1
  <2>3. <<>> \o W(q).out = W(q).out
    BY <2>1, ConcatEmptySeq
  <2>4. QED
    BY <2>2, <2>3
<1>7. ASSUME NEW q \in 1 .. (L + 1), ~Stops(t, q, S, FALSE), Good(q + Step(t, q, S)) PROVE Good(q)
  <2> DEFINE n == q + Step(t, q, S)
             i == Item(t, q, S)
  <2>1. n \in 1 .. (L + 1) /\ i \in Int
    <3>1. n \in (q + 1) .. (L + 1) /\ i \in 0 .. L
      BY <1>5, <1>7
    <3> HIDE DEF n, i
    <3>2. QED
      BY <1>1, <3>1
  <2>2. /\ R(q) = [out |-> <<i>> \o R(n).out, seen |-> R(n).seen]
        /\ W(q) = [out |-> <<i>> \o W(n).out, seen |-> W(n).seen]
    BY <1>4, <1>5, <1>7
  <2>3. W(n).out = R(n).out \o W(R(n).seen + 1).out
    BY <1>7
  <2> HIDE DEF n, i
  <2>4. R(n) \in [out : Seq(0 .. L), seen : (n - 1) .. L] /\ R(n).seen + 1 \in 1 .. (L + 1)
    <3>1. R(n) \in [out : Seq(0 .. L), seen : (n - 1) .. L]
      BY <1>4, <2>1
    <3>2. QED
      BY <1>1, <2>1, <3>1
  <2> DEFINE a == R(n).out
             b == W(R(n).seen + 1).out
  <2>5. b \in Seq(0 .. Len(u)) /\ a \in Seq(0 .. L)
    BY <1>4, <2>4
  <2>6. R(q).out = <<i>> \o a /\ R(q).seen = R(n).seen /\ W(q).out = <<i>> \o W(n).out
    BY <2>2, SMTT(30)
  <2> HIDE DEF a, b
  <2>7. <<i>> \in Seq(Int) /\ a \in Seq(Int) /\ b \in Seq(Int)
    BY <1>1, <2>1, <2>5
  <2>8. <<i>> \o (a \o b) = (<<i>> \o a) \o b
    <3> DEFINE c == <<i>>
    <3>1. c \in Seq(Int)
      BY <2>7
    <3> HIDE DEF c
    <3>2. c \o (a \o b) = (c \o a) \o b
      <4>1. Joins(Int)
        BY JoinAll, Zenon
      <4>2. (c \o a) \o b = c \o (a \o b)
        BY <2>7, <3>1, <4>1, Zenon DEF Joins
      <4>3. QED
        BY <4>2, Zenon
    <3>3. QED
      BY <3>2 DEF c
  <2>9. W(q).out = R(q).out \o W(R(q).seen + 1).out
    BY <2>3, <2>6, <2>8 DEF a, b
  <2>10. QED
    BY <2>9
<1> HIDE DEF Good
<1>8. ASSUME NEW final, final = FALSE PROVE p \in G
  <2>1. final \in BOOLEAN
    BY <1>8
  <2>2. \A q \in 1 .. (Len(t) + 1) : Stops(t, q, S, final) => q \in G
    BY <1>6, <1>8
  <2>3. \A q \in 1 .. (Len(t) + 1) :
           ~Stops(t, q, S, final) /\ q + Step(t, q, S) \in G => q \in G
    BY <1>7, <1>8
  <2> HIDE DEF G
  <2>4. QED
    BY <2>1, <2>2, <2>3, ScanInduction
<1>9. Good(p)
  BY <1>8
<1>10. QED
  BY <1>9 DEF Good, R, W, u

\* What is written on at q is not the beginning of s.
CleanAt(text, q, s) ==
  \A n \in 1 .. SpanCap(Len(s)) : q + n - 1 <= Len(text) =>
    /\ SubSeq(text, q, q + n - 1) # s
    /\ ~IsGap(text[q]) => WithoutGaps(SubSeq(text, q, q + n - 1)) # WithoutGaps(s)

\* What has gone out lies in the bytes consumed.
Positions == (\A k \in DOMAIN out : out[k] <= seen) /\ (seen = 0 => out = <<>>)

Counts ==
  /\ dropped <=> CapExceeded(Len(out))
  /\ written = IF MaxOut > 0 THEN Min({Len(out), MaxOut}) ELSE Len(out)

\* A byte goes out when all is there that a value beginning in it would take.
Clean ==
  \A k \in DOMAIN out : \A s \in secrets : out[k] > addedAt[s] =>
    /\ closed \/ out[k] + SpanCap(Len(s)) - 1 <= Len(input)
    /\ CleanAt(input, out[k], s)

\* Whatever is still to come, one pass over all of it would begin with what has gone out.
OnePass ==
  (\A s \in secrets : addedAt[s] = 0) =>
    /\ closed => out = Scan(input, 1, secrets, TRUE).out
    /\ ~closed => \A e \in Seq(Bytes) :
         Scan(input \o e, 1, secrets, TRUE).out = out \o Scan(input \o e, seen + 1, secrets, TRUE).out

RedactInv == RedactTypeOK /\ Positions /\ Counts /\ Clean /\ OnePass

LEMMA SpanType ==
  ASSUME NEW s \in Values
  PROVE  Len(s) \in Nat \ {0} /\ SpanCap(Len(s)) \in Nat /\ Len(s) <= SpanCap(Len(s))
BY RedactorAssumption DEF SpanCap

\* What no match begins in is clean as far as the text goes.
LEMMA NoMatchIsClean ==
  ASSUME NEW text \in Seq(Bytes), NEW S \in SUBSET Values, NEW s \in S,
         NEW q \in 1 .. Len(text), Here(text, q, S) = 0
  PROVE  CleanAt(text, q, s)
<1> DEFINE b == SubSeq(text, q, Len(text))
<1>1. Len(text) \in Nat /\ SpanCap(Len(s)) \in Nat
  BY SpanType
<1>2. /\ b \in Seq(Bytes) /\ Len(b) = Len(text) - q + 1
      /\ \A i \in 1 .. (Len(text) - q + 1) : b[i] = text[q + i - 1]
  BY <1>1, SubSeqProperties
<1>3. MatchAt(b, S) = 0
  BY DEF Here
<1> HIDE DEF b
<1>4. b[1] = text[q]
  <2>1. 1 \in 1 .. (Len(text) - q + 1) /\ q + 1 - 1 = q
    BY <1>1
  <2>2. QED
    BY <1>2, <2>1
<1>5. ASSUME NEW n \in 1 .. SpanCap(Len(s)), q + n - 1 <= Len(text)
      PROVE  /\ SubSeq(text, q, q + n - 1) # s
             /\ ~IsGap(text[q]) => WithoutGaps(SubSeq(text, q, q + n - 1)) # WithoutGaps(s)
  <2> DEFINE c == SubSeq(text, q, q + n - 1)
             d == SubSeq(b, 1, n)
  <2>1. n \in 1 .. Len(b) /\ n \in 0 .. Len(b) /\ n <= SpanCap(Len(s)) /\ q + n - 1 \in Int
    BY <1>1, <1>2, <1>5
  <2>2. d \in Seq(Bytes) /\ Len(d) = n /\ \A i \in 1 .. n : d[i] = b[i]
    BY <1>2, <2>1, Prefixes
  <2>3. c \in Seq(Bytes) /\ Len(c) = n /\ \A i \in 1 .. n : c[i] = text[q + i - 1]
    <3>1. \A i \in q .. (q + n - 1) : text[i] \in Bytes
      BY <1>1, <1>5
    <3>2. q + n - 1 - q + 1 = n /\ q <= q + n - 1
      BY <2>1
    <3>3. QED
      BY <2>1, <3>1, <3>2, SubSeqProperties
  <2>4. \A i \in 1 .. n : b[i] = text[q + i - 1]
    BY <1>1, <1>2, <1>5, <2>1
  <2> HIDE DEF c, d
  <2>5. c = d
    <3>1. Len(c) = Len(d) /\ \A i \in 1 .. Len(c) : c[i] = d[i]
      BY <2>2, <2>3, <2>4
    <3>2. QED
      BY <2>2, <2>3, <3>1, SeqEqual
  <2>6. d # s /\ (~IsGap(b[1]) => WithoutGaps(d) # WithoutGaps(s))
    BY <1>2, <1>3, <2>1, NoMatchNoValue DEF d
  <2>7. QED
    BY <1>4, <2>5, <2>6 DEF c
<1>6. QED
  BY <1>5 DEF CleanAt

\* A byte that is clean stays clean when the text goes on after all that matters.
LEMMA CleanStays ==
  ASSUME NEW text \in Seq(Bytes), NEW more \in Seq(Bytes), NEW s \in Values,
         NEW q \in 1 .. Len(text), CleanAt(text, q, s), Len(text) <= Len(more),
         \A i \in 1 .. Len(text) : more[i] = text[i],
         Len(more) = Len(text) \/ q + SpanCap(Len(s)) - 1 <= Len(text)
  PROVE  CleanAt(more, q, s)
<1>1. Len(text) \in Nat /\ Len(more) \in Nat /\ SpanCap(Len(s)) \in Nat
  BY SpanType
<1>2. ASSUME NEW n \in 1 .. SpanCap(Len(s)), q + n - 1 <= Len(more)
      PROVE  /\ SubSeq(more, q, q + n - 1) # s
             /\ ~IsGap(more[q]) => WithoutGaps(SubSeq(more, q, q + n - 1)) # WithoutGaps(s)
  <2> DEFINE c == SubSeq(text, q, q + n - 1)
             d == SubSeq(more, q, q + n - 1)
  <2>1. q + n - 1 <= Len(text) /\ q + n - 1 \in Int /\ n \in Nat
    BY <1>1, <1>2
  <2>2. /\ \A i \in q .. (q + n - 1) : text[i] \in Bytes /\ more[i] \in Bytes
        /\ q + n - 1 - q + 1 = n /\ q <= q + n - 1
        /\ \A i \in 1 .. n : text[q + i - 1] = more[q + i - 1]
    BY <1>1, <2>1
  <2>3. c \in Seq(Bytes) /\ Len(c) = n /\ \A i \in 1 .. n : c[i] = text[q + i - 1]
    BY <2>1, <2>2, SubSeqProperties
  <2>4. d \in Seq(Bytes) /\ Len(d) = n /\ \A i \in 1 .. n : d[i] = more[q + i - 1]
    BY <2>1, <2>2, SubSeqProperties
  <2> HIDE DEF c, d
  <2>5. c = d
    <3>1. Len(c) = Len(d) /\ \A i \in 1 .. Len(c) : c[i] = d[i]
      BY <2>2, <2>3, <2>4
    <3>2. QED
      BY <2>3, <2>4, <3>1, SeqEqual
  <2>6. c # s /\ (~IsGap(text[q]) => WithoutGaps(c) # WithoutGaps(s))
    BY <1>1, <2>1 DEF CleanAt, c
  <2>7. QED
    BY <2>5, <2>6 DEF d
<1>3. QED
  BY <1>2 DEF CleanAt

\* Write and Flush: what a scan of more bytes adds.
LEMMA EmitKeeps ==
  ASSUME RedactTypeOK, Positions, Counts, Clean, ~closed, closed' \in BOOLEAN,
         input' \in Seq(Bytes), Len(input) <= Len(input'),
         \A i \in 1 .. Len(input) : input'[i] = input[i],
         secrets' = secrets, addedAt' = addedAt,
         closed' => input' = input,
         Emit(Scan(input', seen + 1, secrets, closed'))
  PROVE  RedactTypeOK' /\ Positions' /\ Counts' /\ Clean'
<1> DEFINE r == Scan(input', seen + 1, secrets, closed')
           L == Len(input)
           M == Len(input')
<1>1. /\ L \in Nat /\ M \in Nat /\ L <= M /\ seen \in 0 .. L /\ secrets \in SUBSET Values
      /\ seen + 1 \in 1 .. (M + 1) /\ out \in Seq(0 .. L) /\ input \in Seq(Bytes)
      /\ addedAt \in [secrets -> 0 .. L]
  BY DEF RedactTypeOK
<1>2. r \in [out : Seq(0 .. M), seen : (seen + 1 - 1) .. M] /\ (closed' => r.seen = M)
  BY <1>1, ScanType
<1>3. KeptBytes(r, seen + 1, input', secrets, closed')
  BY <1>1, ScanKept
<1>4. r.seen < seen + 1 => r.out = <<>>
  BY <1>1, ScanMoves
<1>5. /\ out' = out \o r.out /\ seen' = r.seen
      /\ dropped' = (dropped \/ CapExceeded(Len(out')))
      /\ written' = (IF MaxOut > 0 THEN Min({Len(out'), MaxOut}) ELSE Len(out'))
  BY DEF Emit
<1> HIDE DEF r
<1>6. seen' \in seen .. M
  BY <1>1, <1>2, <1>5
<1>7. /\ out' \in Seq(0 .. M) /\ Len(out') = Len(out) + Len(r.out)
      /\ \A k \in DOMAIN out' : \/ k \in DOMAIN out /\ out'[k] = out[k]
                                \/ \E j \in DOMAIN r.out : out'[k] = r.out[j]
  <2>1. out \in Seq(0 .. M) /\ r.out \in Seq(0 .. M)
    BY <1>1, <1>2
  <2>2. /\ out' \in Seq(0 .. M) /\ Len(out') = Len(out) + Len(r.out)
        /\ \A k \in 1 .. (Len(out) + Len(r.out)) :
             out'[k] = IF k <= Len(out) THEN out[k] ELSE r.out[k - Len(out)]
    BY <1>5, <2>1, ConcatProperties
  <2>3. ASSUME NEW k \in DOMAIN out'
        PROVE  \/ k \in DOMAIN out /\ out'[k] = out[k]
               \/ \E j \in DOMAIN r.out : out'[k] = r.out[j]
    <3>1. k \in 1 .. (Len(out) + Len(r.out)) /\ Len(out) \in Nat /\ Len(r.out) \in Nat
      BY <2>1, <2>2, SMTT(30)
    <3>2. CASE k <= Len(out)
      BY <2>1, <2>2, <3>1, <3>2, SMTT(30)
    <3>3. CASE k > Len(out)
      <4>1. k - Len(out) \in DOMAIN r.out
        BY <2>1, <3>1, <3>3
      <4>2. QED
        BY <2>2, <3>1, <3>3, <4>1, SMTT(30)
    <3>4. QED
      BY <3>1, <3>2, <3>3
  <2>4. QED
    BY <2>2, <2>3
<1>8. Len(out) \in Nat /\ Len(out') \in Nat /\ Len(out) <= Len(out')
  BY <1>1, <1>2, <1>7
<1>9. Counts'
  <2>1. MaxOut \in Nat
    BY RedactorAssumption
  <2>2. dropped' <=> CapExceeded(Len(out'))
    <3>1. CapExceeded(Len(out)) => CapExceeded(Len(out'))
      BY <1>8, <2>1 DEF CapExceeded
    <3>2. dropped <=> CapExceeded(Len(out))
      BY DEF Counts
    <3>3. QED
      BY <1>5, <3>1, <3>2, Zenon
  <2>3. QED
    BY <1>5, <2>2 DEF Counts
<1>10. written' \in 0 .. Len(out') /\ dropped' \in BOOLEAN
  <2>1. MaxOut \in Nat /\ (Min({Len(out'), MaxOut}) = IF Len(out') <= MaxOut THEN Len(out') ELSE MaxOut)
    BY <1>8, RedactorAssumption, MinOfTwo, SMTT(30)
  <2>2. QED
    BY <1>5, <1>8, <2>1, SMTT(30) DEF RedactTypeOK, CapExceeded
<1>11. RedactTypeOK'
  <2>1. addedAt' \in [secrets' -> 0 .. M]
    BY <1>1
  <2>2. QED
    BY <1>1, <1>2, <1>5, <1>6, <1>7, <1>10, <2>1 DEF RedactTypeOK
<1>12. Positions'
  <2>1. ASSUME NEW k \in DOMAIN out' PROVE out'[k] <= seen'
    <3>1. CASE k \in DOMAIN out /\ out'[k] = out[k]
      <4>1. out[k] \in 0 .. L /\ out[k] <= seen
        BY <1>1, <3>1 DEF Positions
      <4>2. QED
        BY <1>1, <1>6, <3>1, <4>1
    <3>2. CASE \E j \in DOMAIN r.out : out'[k] = r.out[j]
      <4>1. PICK j \in DOMAIN r.out : out'[k] = r.out[j]
        BY <3>2
      <4>2. CASE r.out[j] = Placeholder
        BY <1>1, <1>6, <4>1, <4>2 DEF Placeholder
      <4>3. CASE r.out[j] # Placeholder
        BY <1>1, <1>3, <1>5, <1>6, <4>1, <4>3 DEF KeptBytes
      <4>4. QED
        BY <4>2, <4>3
    <3>3. QED
      BY <1>7, <3>1, <3>2
  <2>2. seen' = 0 => out' = <<>>
    <3>1. SUFFICES ASSUME seen' = 0 PROVE out' = <<>>
      OBVIOUS
    <3>2. seen = 0
      BY <1>1, <1>6, <3>1
    <3>3. out = <<>> /\ r.out = <<>>
      BY <1>4, <1>5, <3>1, <3>2 DEF Positions
    <3>4. QED
      BY <1>5, <3>3
  <2>3. QED
    BY <2>1, <2>2 DEF Positions
<1>13. Clean'
  <2> SUFFICES ASSUME NEW k \in DOMAIN out', NEW s \in secrets, out'[k] > addedAt[s]
               PROVE  /\ closed' \/ out'[k] + SpanCap(Len(s)) - 1 <= M
                      /\ CleanAt(input', out'[k], s)
    BY DEF Clean
  <2>0. addedAt[s] \in 0 .. L /\ s \in Values
    BY <1>1
  <2>1. /\ SpanCap(Len(s)) \in Nat /\ SpanCap(Len(s)) <= MaxSpan(secrets) /\ MaxSpan(secrets) \in Nat
        /\ Len(s) \in Nat \ {0} /\ Len(s) <= SpanCap(Len(s))
    BY <1>1, MaxSpanBounds
  <2>2. CASE k \in DOMAIN out /\ out'[k] = out[k]
    <3>1. out[k] \in 1 .. L
      BY <1>1, <2>0, <2>2
    <3>2. out[k] + SpanCap(Len(s)) - 1 <= L /\ CleanAt(input, out[k], s)
      BY <2>2 DEF Clean
    <3>3. CleanAt(input', out[k], s)
      BY <1>1, <2>0, <3>1, <3>2, CleanStays
    <3>4. QED
      BY <1>1, <2>1, <2>2, <3>1, <3>2, <3>3
  <2>3. CASE \E j \in DOMAIN r.out : out'[k] = r.out[j]
    <3>1. PICK j \in DOMAIN r.out : out'[k] = r.out[j]
      BY <2>3
    <3>2. r.out[j] # Placeholder
      BY <2>0, <3>1 DEF Placeholder
    <3>3. /\ out'[k] \in (seen + 1) .. r.seen
          /\ Here(input', out'[k], secrets) = 0 /\ ~Stops(input', out'[k], secrets, closed')
      BY <1>3, <3>1, <3>2 DEF KeptBytes
    <3>4. out'[k] \in 1 .. M
      BY <1>1, <1>5, <1>6, <3>3, SMTT(30)
    <3>5. CleanAt(input', out'[k], s)
      BY <1>1, <3>3, <3>4, NoMatchIsClean
    <3>6. closed' \/ out'[k] + SpanCap(Len(s)) - 1 <= M
      <4>1. SUFFICES ASSUME ~closed' PROVE out'[k] + SpanCap(Len(s)) - 1 <= M
        OBVIOUS
      <4>2. ~(M - out'[k] + 1 <= MaxSpan(secrets) - 1)
        BY <2>1, <3>3, <4>1 DEF Stops, Hold
      <4>3. QED
        BY <1>1, <2>1, <3>4, <4>2, SMTT(30)
    <3>7. QED
      BY <3>5, <3>6
  <2>4. QED
    BY <1>7, <2>2, <2>3
<1>14. QED
  BY <1>9, <1>11, <1>12, <1>13

LEMMA PassType ==
  ASSUME NEW text \in Seq(Bytes), NEW S \in SUBSET Values, NEW p \in 1 .. (Len(text) + 1)
  PROVE  /\ Scan(text, p, S, TRUE).out \in Seq(0 .. Len(text))
         /\ Scan(text, p, S, FALSE) \in [out : Seq(0 .. Len(text)), seen : (p - 1) .. Len(text)]
<1>1. ASSUME NEW final \in BOOLEAN
      PROVE  Scan(text, p, S, final) \in [out : Seq(0 .. Len(text)), seen : (p - 1) .. Len(text)]
  BY ScanType
<1>2. ASSUME NEW final \in BOOLEAN PROVE Scan(text, p, S, final).out \in Seq(0 .. Len(text))
  BY <1>1
<1>3. QED
  BY <1>1, <1>2

LEMMA WriteKeeps ==
  ASSUME RedactInv, NEW n \in Nat, NEW chunk \in [1 .. n -> Bytes], Write(chunk)
  PROVE  RedactInv'
<1>1. /\ input \in Seq(Bytes) /\ secrets \in SUBSET Values /\ seen \in 0 .. Len(input)
      /\ chunk \in Seq(Bytes) /\ closed = FALSE /\ closed' = FALSE
      /\ secrets' = secrets /\ addedAt' = addedAt /\ input' = input \o chunk
      /\ out \in Seq(0 .. Len(input))
  BY DEF RedactInv, RedactTypeOK, Write
<1>2. /\ input' \in Seq(Bytes) /\ Len(input') = Len(input) + Len(chunk)
      /\ \A i \in 1 .. Len(input) : input'[i] = input[i]
  BY <1>1, Appended
<1>3. Len(input) \in Nat /\ Len(chunk) \in Nat /\ Len(input) <= Len(input') /\ seen + 1 \in 1 .. (Len(input') + 1)
  BY <1>1, <1>2
<1>4. Emit(Scan(input', seen + 1, secrets, FALSE))
  BY DEF Write
<1>5. RedactTypeOK' /\ Positions' /\ Counts' /\ Clean'
  <2>1. Emit(Scan(input', seen + 1, secrets, closed'))
    BY <1>1, <1>4, Zenon
  <2>2. closed' \in BOOLEAN /\ ~closed' /\ ~closed
    BY <1>1
  <2>3. QED
    BY <1>1, <1>2, <1>3, <2>1, <2>2, EmitKeeps DEF RedactInv
<1>6. ASSUME \A s \in secrets : addedAt[s] = 0, NEW e \in Seq(Bytes)
      PROVE  Scan(input' \o e, 1, secrets, TRUE).out = out' \o Scan(input' \o e, seen' + 1, secrets, TRUE).out
  <2> DEFINE text == input' \o e
             r == Scan(input', seen + 1, secrets, FALSE)
             rest == Scan(text, r.seen + 1, secrets, TRUE)
  <2>1. text = input \o (chunk \o e) /\ chunk \o e \in Seq(Bytes)
    <3>1. (input \o chunk) \o e = input \o (chunk \o e)
      <4>1. input \in Seq(Bytes) /\ chunk \in Seq(Bytes) /\ e \in Seq(Bytes)
        BY <1>1
      <4>2. Joins(Bytes)
        BY JoinAll, Zenon
      <4>3. QED
        BY <4>1, <4>2, Zenon DEF Joins
    <3>2. QED
      BY <1>1, <3>1, Appended
  <2>2. Scan(text, 1, secrets, TRUE).out = out \o Scan(text, seen + 1, secrets, TRUE).out
    <3> HIDE DEF text
    <3>1. QED
      BY <1>1, <1>6, <2>1 DEF RedactInv, OnePass
  <2>3. Scan(text, seen + 1, secrets, TRUE).out = r.out \o rest.out
    BY <1>1, <1>2, <1>3, PassesJoin, ZenonT(60)
  <2>4. out' = out \o r.out /\ seen' = r.seen
    BY <1>4 DEF Emit
  <2>5. out \in Seq(Int) /\ r.out \in Seq(Int) /\ rest.out \in Seq(Int)
    <3>1. text \in Seq(Bytes) /\ Len(text) = Len(input') + Len(e) /\ Len(e) \in Nat
      BY <1>2, Appended
    <3>3. r.seen \in 0 .. Len(input') /\ r.out \in Seq(0 .. Len(input'))
      <4> DEFINE p == seen + 1
                 text0 == input'
      <4>1. p \in 1 .. (Len(text0) + 1) /\ text0 \in Seq(Bytes) /\ secrets \in SUBSET Values
        BY <1>1, <1>2, <1>3
      <4>2. r = Scan(text0, p, secrets, FALSE)
        OBVIOUS
      <4> HIDE DEF p, text0, r, text
      <4>3. r \in [out : Seq(0 .. Len(text0)), seen : (p - 1) .. Len(text0)]
        BY <4>1, <4>2, PassType
      <4>4. p - 1 \in Nat
        BY <1>1 DEF p
      <4>5. r.seen \in 0 .. Len(text0) /\ r.out \in Seq(0 .. Len(text0))
        BY <4>1, <4>3, <4>4
      <4>6. QED
        BY <4>5 DEF text0
    <3> HIDE DEF r, text
    <3>4. r.seen + 1 \in 1 .. (Len(text) + 1) /\ r.out \in Seq(0 .. Len(input'))
      BY <1>1, <1>3, <3>1, <3>3, SMTT(30)
    <3>6. rest.out \in Seq(0 .. Len(text))
      BY <1>1, <3>1, <3>4, PassType
    <3> HIDE DEF rest
    <3>7. \A a, b : a .. b \subseteq Int
      OBVIOUS
    <3>8. QED
      BY <1>1, <3>4, <3>6, SMTT(30)
  <2> HIDE DEF text, r, rest
  <2>6. out \o (r.out \o rest.out) = (out \o r.out) \o rest.out
    <3>1. Joins(Int)
      BY JoinAll, Zenon
    <3>2. (out \o r.out) \o rest.out = out \o (r.out \o rest.out)
      BY <2>5, <3>1, Zenon DEF Joins
    <3>3. QED
      BY <3>2, Zenon
  <2>7. rest = Scan(text, seen' + 1, secrets, TRUE)
    BY <2>4 DEF rest
  <2>8. Scan(text, 1, secrets, TRUE).out = out' \o Scan(text, seen' + 1, secrets, TRUE).out
    BY <2>2, <2>3, <2>4, <2>6, <2>7
  <2>9. QED
    BY <2>8 DEF text
<1>7. OnePass'
  BY <1>1, <1>6 DEF OnePass
<1>8. QED
  BY <1>5, <1>7 DEF RedactInv

LEMMA FlushKeeps == ASSUME RedactInv, Flush PROVE RedactInv'
<1>1. /\ input \in Seq(Bytes) /\ secrets \in SUBSET Values /\ seen \in 0 .. Len(input)
      /\ ~closed /\ closed' = TRUE
      /\ secrets' = secrets /\ addedAt' = addedAt /\ input' = input
  BY DEF RedactInv, RedactTypeOK, Flush
<1>2. Emit(Scan(input', seen + 1, secrets, TRUE))
  BY <1>1 DEF Flush
<1>3. RedactTypeOK' /\ Positions' /\ Counts' /\ Clean'
  <2>1. Emit(Scan(input', seen + 1, secrets, closed'))
    BY <1>1, <1>2, Zenon
  <2>2. closed' \in BOOLEAN /\ Len(input) \in Nat /\ Len(input) <= Len(input')
    BY <1>1
  <2>3. input' \in Seq(Bytes) /\ \A i \in 1 .. Len(input) : input'[i] = input[i]
    BY <1>1
  <2>4. QED
    BY <1>1, <2>1, <2>2, <2>3, EmitKeeps DEF RedactInv
<1>4. ASSUME \A s \in secrets : addedAt[s] = 0 PROVE out' = Scan(input', 1, secrets, TRUE).out
  <2>1. <<>> \in Seq(Bytes) /\ input \o <<>> = input
    BY <1>1, ConcatEmptySeq
  <2>2. Scan(input \o <<>>, 1, secrets, TRUE).out = out \o Scan(input \o <<>>, seen + 1, secrets, TRUE).out
    BY <1>1, <1>4, <2>1 DEF RedactInv, OnePass
  <2>3. out' = out \o Scan(input', seen + 1, secrets, TRUE).out
    BY <1>2 DEF Emit
  <2>4. QED
    BY <1>1, <2>1, <2>2, <2>3
<1>5. OnePass'
  BY <1>1, <1>4 DEF OnePass
<1>6. QED
  BY <1>3, <1>5 DEF RedactInv

\* A pass from the first byte is what comes after nothing.
LEMMA NothingOut ==
  ASSUME NEW S \in SUBSET Values, NEW text \in Seq(Bytes)
  PROVE  Scan(text, 1, S, TRUE).out = <<>> \o Scan(text, 1, S, TRUE).out
<1> DEFINE o == Scan(text, 1, S, TRUE).out
<1>1. 1 \in 1 .. (Len(text) + 1)
  OBVIOUS
<1>2. o \in Seq(0 .. Len(text))
  BY <1>1, PassType
<1> HIDE DEF o
<1>3. o = <<>> \o o
  BY <1>2, ConcatEmptySeq
<1>4. QED
  BY <1>3 DEF o

\* A value added late changes nothing of what is known of the others; one added before the
\* first byte went out is as if it had always been there.
LEMMA AddKeeps == ASSUME RedactInv, NEW s \in Values, AddSecret(s) PROVE RedactInv'
<1>1. /\ ~closed /\ ~closed' /\ s \notin secrets /\ secrets' = secrets \cup {s}
      /\ addedAt' = [t \in secrets' |-> IF t = s THEN seen ELSE addedAt[t]]
      /\ UNCHANGED <<input, seen, out, written, dropped, closed>>
  BY DEF AddSecret
<1>2. /\ input \in Seq(Bytes) /\ seen \in 0 .. Len(input) /\ secrets \in SUBSET Values
      /\ addedAt \in [secrets -> 0 .. Len(input)]
  BY DEF RedactInv, RedactTypeOK
<1>3. \A t \in secrets : t \in secrets' /\ addedAt'[t] = addedAt[t]
  BY <1>1
<1>4. s \in secrets' /\ addedAt'[s] = seen
  BY <1>1
<1>5. addedAt' \in [secrets' -> 0 .. Len(input)] /\ secrets' \subseteq Values
  BY <1>1, <1>2
<1>6. RedactTypeOK' /\ Positions' /\ Counts'
  BY <1>1, <1>5 DEF RedactInv, RedactTypeOK, Positions, Counts
<1>7. Clean'
  <2> SUFFICES ASSUME NEW k \in DOMAIN out', NEW t \in secrets', out'[k] > addedAt'[t]
               PROVE  /\ closed' \/ out'[k] + SpanCap(Len(t)) - 1 <= Len(input')
                      /\ CleanAt(input', out'[k], t)
    BY DEF Clean
  <2>1. out' = out /\ input' = input
    BY <1>1
  <2>2. t # s
    <3> SUFFICES ASSUME t = s PROVE FALSE
      OBVIOUS
    <3>1. out[k] > seen /\ out[k] <= seen /\ k \in DOMAIN out /\ seen \in Int
      BY <1>2, <1>4, <2>1 DEF RedactInv, Positions
    <3>2. out[k] \in Int
      BY <3>1 DEF RedactInv, RedactTypeOK
    <3>3. QED
      BY <3>1, <3>2
  <2>3. t \in secrets /\ out[k] > addedAt[t]
    BY <1>1, <1>3, <2>1, <2>2
  <2>4. QED
    BY <1>1, <2>1, <2>3 DEF RedactInv, Clean
<1>8. OnePass'
  <2> SUFFICES ASSUME \A t \in secrets' : addedAt'[t] = 0, NEW e \in Seq(Bytes)
               PROVE  Scan(input \o e, 1, secrets', TRUE).out
                        = out \o Scan(input \o e, seen + 1, secrets', TRUE).out
    BY <1>1 DEF OnePass
  <2>1. seen = 0 /\ out = <<>>
    BY <1>4 DEF RedactInv, Positions
  <2>2. input \o e \in Seq(Bytes)
    BY <1>2, Appended
  <2>3. seen + 1 = 1
    BY <2>1
  <2>4. QED
    BY <1>5, <2>1, <2>2, <2>3, NothingOut
<1>9. QED
  BY <1>6, <1>7, <1>8 DEF RedactInv

LEMMA RedactStep == RedactInv /\ (RedactNext \/ UNCHANGED redactVars) => RedactInv'
<1> SUFFICES ASSUME RedactInv, RedactNext \/ UNCHANGED redactVars PROVE RedactInv'
  OBVIOUS
<1>1. CASE UNCHANGED redactVars
  BY <1>1 DEF redactVars, RedactInv, RedactTypeOK, Positions, Counts, Clean, OnePass
<1>2. CASE \E n \in 1 .. MaxChunk : \E chunk \in [1 .. n -> Bytes] : Write(chunk)
  <2>1. PICK n \in 1 .. MaxChunk : \E chunk \in [1 .. n -> Bytes] : Write(chunk)
    BY <1>2
  <2>2. PICK chunk \in [1 .. n -> Bytes] : Write(chunk)
    BY <2>1
  <2>3. n \in Nat
    OBVIOUS
  <2>4. QED
    BY <2>2, <2>3, WriteKeeps
<1>3. CASE Flush
  BY <1>3, FlushKeeps
<1>4. CASE \E s \in Late : AddSecret(s)
  BY <1>4, AddKeeps, RedactorAssumption
<1>5. QED
  BY <1>1, <1>2, <1>3, <1>4 DEF RedactNext

\* Nothing printed, with or without values.
Silent == input = <<>> /\ seen = 0 /\ out = <<>> /\ written = 0 /\ dropped = FALSE /\ closed = FALSE

LEMMA SilentIsGood ==
  Silent /\ secrets \in SUBSET Values /\ addedAt = [s \in secrets |-> 0] => RedactInv
<1> SUFFICES ASSUME Silent, secrets \in SUBSET Values, addedAt = [s \in secrets |-> 0]
             PROVE  RedactInv
  OBVIOUS
<1>1. Len(input) = 0 /\ Len(out) = 0 /\ DOMAIN out = {} /\ seen = 0
  BY DEF Silent
<1>2. RedactTypeOK
  <2>1. input \in Seq(Bytes) /\ out \in Seq(0 .. Len(input))
    BY DEF Silent
  <2>2. seen \in 0 .. Len(input) /\ written \in 0 .. Len(out) /\ seen = Len(input)
    BY <1>1 DEF Silent
  <2>3. addedAt \in [secrets -> 0 .. Len(input)]
    BY <1>1
  <2>4. dropped \in BOOLEAN /\ closed \in BOOLEAN
    BY DEF Silent
  <2>5. QED
    BY <2>1, <2>2, <2>3, <2>4 DEF RedactTypeOK
<1>3. Positions /\ Clean
  BY <1>1 DEF Silent, Positions, Clean
<1>4. Counts
  <2>1. MaxOut \in Nat /\ (Min({0, MaxOut}) = IF 0 <= MaxOut THEN 0 ELSE MaxOut)
    BY RedactorAssumption, MinOfTwo
  <2>2. QED
    BY <1>1, <2>1 DEF Silent, Counts, CapExceeded
<1>5. OnePass
  <2> SUFFICES ASSUME NEW e \in Seq(Bytes)
               PROVE  Scan(input \o e, 1, secrets, TRUE).out
                        = out \o Scan(input \o e, seen + 1, secrets, TRUE).out
    BY DEF Silent, OnePass
  <2>1. input \o e \in Seq(Bytes)
    BY <1>2, Appended DEF RedactTypeOK
  <2>2. seen + 1 = 1 /\ out = <<>>
    BY DEF Silent
  <2>3. QED
    BY <2>1, <2>2, NothingOut
<1>6. QED
  BY <1>2, <1>3, <1>4, <1>5 DEF RedactInv

LEMMA InvisibleChunks == RedactInv => ChunkingIsInvisible
<1> SUFFICES ASSUME RedactInv PROVE ChunkingIsInvisible
  OBVIOUS
<1>1. closed /\ (\A s \in secrets : addedAt[s] = 0) => out = Scan(input, 1, secrets, TRUE).out
  BY DEF RedactInv, OnePass
<1>2. dropped <=> written < Len(out)
  <2>1. Len(out) \in Nat /\ MaxOut \in Nat
    BY RedactorAssumption DEF RedactInv, RedactTypeOK
  <2>2. Min({Len(out), MaxOut}) = IF Len(out) <= MaxOut THEN Len(out) ELSE MaxOut
    BY <2>1, MinOfTwo
  <2>3. CapExceeded(Len(out)) <=> written < Len(out)
    BY <2>1, <2>2 DEF RedactInv, Counts, CapExceeded
  <2>4. dropped <=> CapExceeded(Len(out))
    BY DEF RedactInv, Counts
  <2>5. QED
    BY <2>3, <2>4, Zenon
<1>3. QED
  BY <1>1, <1>2 DEF ChunkingIsInvisible

LEMMA CleanOutput == RedactInv => NoValueIsWritten
<1> SUFFICES ASSUME RedactInv,
                    NEW i \in DOMAIN out, NEW j \in DOMAIN out, NEW s \in secrets,
                    i <= j, out[i] > addedAt[s], j - i < SpanCap(Len(s)),
                    \A k \in i .. j : out[k] = out[i] + (k - i)
             PROVE  /\ SubSeq(input, out[i], out[i] + (j - i)) # s
                    /\ ~IsGap(SubSeq(input, out[i], out[i] + (j - i))[1])
                         => WithoutGaps(SubSeq(input, out[i], out[i] + (j - i))) # WithoutGaps(s)
  BY DEF NoValueIsWritten
<1>1. /\ input \in Seq(Bytes) /\ out \in Seq(0 .. Len(input)) /\ s \in Values
      /\ addedAt[s] \in Nat /\ Len(input) \in Nat
  BY DEF RedactInv, RedactTypeOK
<1>2. i \in Nat /\ j \in Nat /\ out[i] \in 0 .. Len(input) /\ out[j] \in 0 .. Len(input)
  BY <1>1, SMTT(30)
<1>3. out[j] = out[i] + (j - i) /\ out[i] \in 1 .. Len(input)
  <2>1. j \in i .. j
    BY <1>2
  <2>2. out[j] = out[i] + (j - i)
    BY <2>1
  <2> DEFINE q == out[i]
             a == addedAt[s]
  <2>3. q > a /\ q \in 0 .. Len(input) /\ a \in Nat
    BY <1>1, <1>2
  <2> HIDE DEF q, a
  <2>4. q \in 1 .. Len(input)
    BY <1>1, <2>3
  <2>5. QED
    BY <2>2, <2>4 DEF q
<1>4. SpanCap(Len(s)) \in Nat
  BY <1>1, SpanType
<1> DEFINE n == j - i + 1
           q == out[i]
<1>5. n \in 1 .. SpanCap(Len(s)) /\ q + n - 1 = q + (j - i) /\ q + n - 1 <= Len(input)
  BY <1>2, <1>3, <1>4
<1>6. CleanAt(input, q, s)
  BY DEF RedactInv, Clean
<1> DEFINE part == SubSeq(input, q, q + (j - i))
<1>7. part # s /\ (~IsGap(input[q]) => WithoutGaps(part) # WithoutGaps(s))
  BY <1>5, <1>6 DEF CleanAt
<1>8. part[1] = input[q]
  <2>1. q \in Int /\ n \in Int /\ 1 <= n /\ q >= 1
    BY <1>3, <1>5
  <2> DEFINE e == q + (j - i)
  <2>2. e \in Int /\ e <= Len(input) /\ q <= e
    BY <1>2, <1>5, <2>1
  <2> HIDE DEF q, n, e
  <2>3. \A x \in q .. e : input[x] \in Bytes
    BY <1>1, <2>1, <2>2
  <2>4. 1 \in 1 .. (e - q + 1) /\ q + 1 - 1 = q
    BY <2>1, <2>2
  <2>5. SubSeq(input, q, e)[1] = input[q]
    BY <2>1, <2>2, <2>3, <2>4, SubSeqProperties
  <2>6. QED
    BY <2>5 DEF e, q
<1>9. QED
  BY <1>7, <1>8

-----------------------------------------------------------------------------
(* What the secrets commands and the run keep to.                          *)

Ops == {"set", "rotate", "delete", "status"}
Open == {"alone", "shared", "deleted"}

Call ==
  [pc : {"idle", "open", "create", "fill", "opened", "write"}, op : Ops \cup {None},
   alias : Aliases \cup {None}, backend : Backends \cup {None}, key : Owners \cup {None},
   value : Typed \cup {None}, fd : Open \cup {None}]

CallGood(c) ==
  /\ c \in Call
  /\ c.pc \in {"create", "fill"} => c.backend = "file"
  /\ c.pc = "opened" => c.backend \in Backends /\ (c.backend = "file" => c.key \in Owners)
  /\ c.pc = "write" => c.key \in Owners /\ c.value \in Typed /\ c.fd \in Open

Calls ==
  /\ proc \in [Owners -> Call] /\ \A p \in Owners : CallGood(proc[p])
  /\ \A p \in Procs : ~At(p, "idle") => proc[p].alias \in Aliases

\* A key is in use from when it is written.  As long as nobody else has created one, it is
\* the key of everything sealed.
Lone == \A k, l \in keys : k = l

KeyInv ==
  /\ keyFile \in {None, "empty"} \cup Owners /\ keys \subseteq Owners /\ IsFiniteSet(keys)
  /\ keyFile = None <=> keys = {}
  /\ keyFile \in Owners => keyFile \in keys
  /\ \A p \in Owners : /\ At(p, "create") => p \notin keys
                       /\ At(p, "fill") => p \in keys
                       /\ proc[p].key \in Owners => proc[p].key \in keys /\ (Lone => keyFile = proc[p].key)

Sealed == [key : Owners, value : Typed]

SealedInv ==
  \A a \in Aliases : cell[a] \in Sealed => cell[a].key \in keys /\ (Lone => keyFile = cell[a].key)

\* What is in a file is what was left there; a Set alone with a file finds it empty.
CellInv ==
  /\ cell \in [Aliases -> {None, Empty, Corrupt} \cup Sealed]
  /\ latest \in [Backends -> [Aliases -> SUBSET (Typed \cup {None})]]
  /\ \A a \in Aliases :
       /\ cell[a] \in Sealed => cell[a].value \in latest["file"][a]
       /\ \A v \in Typed : latest["file"][a] = {v} => cell[a] \in Sealed /\ cell[a].value = v
       /\ \A p \in Writing(a) :
            /\ latest["file"][a] = Typed \cup {None}
            /\ proc[p].fd = "alone" => Writing(a) = {p} /\ cell[a] = Empty

ChainInv ==
  /\ keychain \in [Aliases -> Typed \cup {None}]
  /\ \A a \in Aliases : keychain[a] # None => keychain[a] \in latest["keychain"][a]

\* The run.
RunShape(r) ==
  r = [pc |-> r.pc, todo |-> r.todo, handle |-> r.handle, given |-> r.given, files |-> r.files,
       held |-> r.held]

HandleGood(h, requested) ==
  /\ h.backend \in Backends /\ h.backend = Backend(requested)
  /\ h.backend = "file" => h.key \in Owners

RunGood ==
  /\ RunShape(run) /\ run.pc \in {"idle", "resolve", "stream"} /\ run.todo \in 1 .. (Len(Order) + 1)
  /\ Range(run.given) \cup Range(run.files) \cup run.held \subseteq Values
  /\ \A r \in DOMAIN run.handle : HandleGood(run.handle[r], r)
  /\ project \in Projects

\* A store is opened for the alias that comes next.
OpeningInv ==
  ~At(Runner, "idle") =>
    /\ Resolving /\ project.entries = None /\ Handle(Wanted) \notin DOMAIN run.handle
    /\ proc[Runner].backend = Backend(Declared[Wanted])

\* Before the command starts there is no output, and after that no value it holds is new.
HeldInv ==
  /\ run.pc # "stream" => Silent /\ secrets = {} /\ addedAt = <<>> /\ run.held = {}
  /\ \A v \in run.held : Len(v) >= MinRedactable => v \in secrets /\ addedAt[v] = 0

InjInv ==
  /\ Calls /\ KeyInv /\ SealedInv /\ CellInv /\ ChainInv
  /\ RunGood /\ OpeningInv /\ HeldInv /\ RedactInv

LEMMA Names ==
  /\ Runner \notin Procs /\ Runner \in Owners /\ Procs \subseteq Owners
  /\ None \notin Owners /\ "empty" \notin Owners /\ None # "empty"
  /\ Empty \notin Sealed /\ Corrupt \notin Sealed /\ None \notin Sealed
  /\ None \notin Typed /\ Typed \subseteq Values
<1>1. /\ Runner \notin Procs /\ Runner \in Owners /\ Procs \subseteq Owners
      /\ None \notin Owners /\ "empty" \notin Owners /\ None # "empty"
  BY InjectionAssumption DEF Owners
<1>2. None \notin Typed /\ Typed \subseteq Values /\ None \notin [key : Owners, value : Values]
  BY InjectionAssumption
<1>3. Sealed \subseteq [key : Owners, value : Values]
  BY <1>2 DEF Sealed
<1>4. Empty.key = None /\ Corrupt.key = None /\ \A c \in Sealed : c.key \in Owners
  BY DEF Empty, Corrupt, Sealed
<1>5. QED
  BY <1>1, <1>2, <1>3, <1>4, Zenon

LEMMA IdleIsGood == CallGood(Idle)
<1>1. Idle \in Call
  BY DEF Idle, Call
<1>2. QED
  BY <1>1 DEF CallGood, Idle

LEMMA InjStarts == InjInit => InjInv
<1> SUFFICES ASSUME InjInit PROVE InjInv
  OBVIOUS
<1>1. Calls
  BY Names, IdleIsGood DEF InjInit, Calls, CallGood, At, Idle
<1>2. KeyInv /\ SealedInv
  BY Names, FS_EmptySet DEF InjInit, KeyInv, SealedInv, Idle, At, Lone
<1>3. CellInv /\ ChainInv
  BY Names DEF InjInit, CellInv, ChainInv, Writing, At, Idle, Backends
<1>4. RunGood
  BY DEF InjInit, RunGood, RunShape, NoRun, Range
<1>5. OpeningInv
  BY Names DEF InjInit, OpeningInv, Idle, At
<1>6. HeldInv
  BY DEF InjInit, RedactInit, HeldInv, NoRun, Silent
<1>7. RedactInv
  <2>1. <<>> = [s \in {} |-> 0]
    OBVIOUS
  <2>2. addedAt = [s \in secrets |-> 0] /\ secrets \in SUBSET Values
    BY <2>1 DEF InjInit, RedactInit
  <2>3. Silent
    BY DEF InjInit, RedactInit, Silent
  <2>4. QED
    BY <2>2, <2>3, SilentIsGood
<1>8. QED
  BY <1>1, <1>2, <1>3, <1>4, <1>5, <1>6, <1>7 DEF InjInv

-----------------------------------------------------------------------------
(* One call moves.                                                         *)

Steps(p, c) == proc' = [proc EXCEPT ![p] = c]

LEMMA CallMoves ==
  ASSUME Calls, NEW p \in Owners, NEW c, Steps(p, c), CallGood(c),
         p \in Procs /\ c.pc # "idle" => c.alias \in Aliases
  PROVE  Calls'
<1>1. proc \in [Owners -> Call] /\ c \in Call
  BY DEF Calls, CallGood
<1>2. proc' \in [Owners -> Call] /\ proc'[p] = c /\ \A q \in Owners \ {p} : proc'[q] = proc[q]
  BY <1>1 DEF Steps
<1>3. ASSUME NEW q \in Owners PROVE CallGood(proc'[q])
  BY <1>2 DEF Calls
<1>4. ASSUME NEW q \in Procs, proc'[q].pc # "idle" PROVE proc'[q].alias \in Aliases
  BY <1>2, <1>4, Names DEF Calls, At
<1>5. QED
  BY <1>2, <1>3, <1>4 DEF Calls, At

\* A call that is not writing leaves the files as they are.
LEMMA CellsStay ==
  ASSUME Calls, CellInv, NEW p \in Owners, NEW c, Steps(p, c), c.pc # "write",
         cell' = cell, latest'["file"] = latest["file"],
         latest' \in [Backends -> [Aliases -> SUBSET (Typed \cup {None})]]
  PROVE  CellInv'
<1>1. proc'[p] = c /\ \A q \in Owners \ {p} : proc'[q] = proc[q]
  BY DEF Steps, Calls
<1>2. ASSUME NEW a \in Aliases, NEW q \in Writing(a)'
      PROVE  q \in Writing(a) /\ proc'[q] = proc[q]
  <2>1. q \in Procs /\ proc'[q].pc = "write" /\ proc'[q].alias = a /\ proc'[q].fd # "deleted"
    BY <1>2 DEF Writing, At
  <2>2. q \in Owners \ {p}
    BY <1>1, <2>1, Names
  <2>3. QED
    BY <1>1, <2>1, <2>2 DEF Writing, At
<1>3. ASSUME NEW a \in Aliases, NEW q \in Writing(a)'
      PROVE  /\ latest'["file"][a] = Typed \cup {None}
             /\ proc'[q].fd = "alone" => Writing(a)' = {q} /\ cell'[a] = Empty
  BY <1>2, <1>3 DEF CellInv
<1>4. QED
  BY <1>3 DEF CellInv

\* It may only use the key of the file, or the one it has.
LEMMA KeysStay ==
  ASSUME Calls, KeyInv, NEW p \in Owners, NEW c, Steps(p, c), keyFile' = keyFile, keys' = keys,
         c.pc = "create" => p \notin keys, c.pc = "fill" => p \in keys,
         c.key \in Owners => c.key \in {keyFile, proc[p].key}
  PROVE  KeyInv'
<1>1. proc'[p] = c /\ \A q \in Owners \ {p} : proc'[q] = proc[q]
  BY DEF Steps, Calls
<1>2. Lone' <=> Lone
  BY DEF Lone
<1>3. ASSUME NEW q \in Owners
      PROVE  /\ proc'[q].pc = "create" => q \notin keys
             /\ proc'[q].pc = "fill" => q \in keys
             /\ proc'[q].key \in Owners => proc'[q].key \in keys /\ (Lone => keyFile = proc'[q].key)
  <2>1. CASE q # p
    BY <1>1, <2>1 DEF KeyInv, At
  <2>2. CASE q = p
    BY <1>1, <2>2 DEF KeyInv, At, Lone
  <2>3. QED
    BY <2>1, <2>2
<1>4. QED
  BY <1>2, <1>3 DEF KeyInv, At

LEMMA OpeningStays ==
  ASSUME Calls, OpeningInv, NEW p \in Owners, NEW c, Steps(p, c),
         run' = run, project' = project,
         p = Runner => c.pc = "idle" \/ (~At(p, "idle") /\ c.backend = proc[p].backend)
  PROVE  OpeningInv'
<1>1. proc'[p] = c /\ \A q \in Owners \ {p} : proc'[q] = proc[q]
  BY DEF Steps, Calls
<1>2. CASE p # Runner
  <2>1. proc'[Runner] = proc[Runner]
    BY <1>1, <1>2, Names
  <2>2. QED
    BY <2>1 DEF OpeningInv, Resolving, Wanted, Handle, At
<1>3. CASE p = Runner
  BY <1>1, <1>3 DEF OpeningInv, Resolving, Wanted, Handle, At
<1>4. QED
  BY <1>2, <1>3

\* What a step of a store leaves alone.
LEMMA RunStays ==
  ASSUME InjInv, UNCHANGED <<run, project>>, UNCHANGED redactVars
  PROVE  RunGood' /\ HeldInv' /\ RedactInv'
<1>1. RedactInv'
  BY RedactStep DEF InjInv
<1>2. RunGood'
  BY DEF InjInv, RunGood, RunShape, HandleGood
<1>3. HeldInv'
  BY DEF InjInv, HeldInv, Silent, redactVars
<1>4. QED
  BY <1>1, <1>2, <1>3

LEMMA SealedStays ==
  ASSUME SealedInv, cell' = cell, keys' = keys, keyFile' = keyFile
  PROVE  SealedInv'
BY DEF SealedInv, Lone

-----------------------------------------------------------------------------
(* The secrets commands.                                                   *)

LEMMA StartStep ==
  ASSUME InjInv, UNCHANGED redactVars, NEW p \in Procs, NEW op \in Ops, NEW a \in Aliases,
         NEW flag \in {"auto", "keychain", "envfile"}, StartCommand(p, op, a, flag)
  PROVE  InjInv'
<1> DEFINE b == Backend(IF op = "set" THEN ChooseStore(flag, Declared[a]) ELSE Declared[a])
           c == [Idle EXCEPT !.pc = "open", !.op = op, !.alias = a, !.backend = b]
<1>1. Steps(p, c) /\ UNCHANGED <<keyFile, cell, keychain, run, project, latest, keys>>
  BY DEF StartCommand, Steps, storeVars
<1>2. b \in Backends \cup {None}
  BY DEF Backend, Backends
<1> HIDE DEF b
<1>3. CallGood(c) /\ c.alias = a /\ c.pc = "open" /\ c.key = None
  <2>1. Idle \in Call /\ Idle.key = None
    BY IdleIsGood DEF CallGood, Idle
  <2>2. c \in Call /\ c.alias = a /\ c.pc = "open" /\ c.key = Idle.key
    BY <1>2, <2>1, ZenonT(60) DEF Call
  <2> HIDE DEF c
  <2>3. QED
    BY <2>1, <2>2 DEF CallGood
<1> HIDE DEF c
<1>4. p \in Owners /\ p # Runner /\ None \notin Owners
  BY Names
<1>5. Calls' /\ CellInv' /\ KeyInv' /\ OpeningInv' /\ SealedInv' /\ ChainInv'
  <2>1. Calls'
    BY <1>1, <1>3, <1>4, CallMoves DEF InjInv
  <2>2. CellInv'
    BY <1>1, <1>3, <1>4, CellsStay DEF InjInv, CellInv
  <2>3. KeyInv'
    BY <1>1, <1>3, <1>4, KeysStay DEF InjInv
  <2>4. OpeningInv'
    BY <1>1, <1>3, <1>4, OpeningStays DEF InjInv
  <2>5. SealedInv' /\ ChainInv'
    BY <1>1, SealedStays DEF InjInv, ChainInv
  <2>6. QED
    BY <2>1, <2>2, <2>3, <2>4, <2>5
<1>6. QED
  BY <1>1, <1>5, RunStays DEF InjInv

\* A call that ends, whatever it has done.
LEMMA CallEnds ==
  ASSUME InjInv, NEW p \in Owners, Done(p), cell' = cell, keyFile' = keyFile, keys' = keys,
         latest'["file"] = latest["file"],
         latest' \in [Backends -> [Aliases -> SUBSET (Typed \cup {None})]]
  PROVE  Calls' /\ CellInv' /\ KeyInv' /\ SealedInv'
<1>1. Steps(p, Idle) /\ Idle.pc = "idle" /\ Idle.key = None
  BY DEF Done, Steps, Idle
<1>2. Calls'
  BY <1>1, IdleIsGood, CallMoves DEF InjInv
<1>3. CellInv'
  BY <1>1, CellsStay DEF InjInv
<1>4. KeyInv'
  BY <1>1, Names, KeysStay DEF InjInv
<1>5. QED
  BY <1>2, <1>3, <1>4, SealedStays DEF InjInv

LEMMA OpeningUntouched ==
  ASSUME InjInv, NEW p \in Owners, Done(p), run' = run, project' = project
  PROVE  OpeningInv'
<1>1. Steps(p, Idle) /\ Idle.pc = "idle"
  BY DEF Done, Steps, Idle
<1>2. QED
  BY <1>1, OpeningStays DEF InjInv

LEMMA EndStep ==
  ASSUME InjInv, UNCHANGED redactVars, NEW p \in Procs, EndCommand(p) \/ Killed(p)
  PROVE  InjInv'
<1>1. Done(p) /\ UNCHANGED <<keyFile, cell, keychain, run, project, latest, keys>>
  BY DEF EndCommand, Killed, storeVars
<1>2. p \in Owners
  BY Names
<1>3. Calls' /\ CellInv' /\ KeyInv' /\ SealedInv'
  BY <1>1, <1>2, CallEnds DEF InjInv, CellInv
<1>4. OpeningInv' /\ ChainInv'
  BY <1>1, <1>2, OpeningUntouched DEF InjInv, ChainInv
<1>5. QED
  BY <1>1, <1>3, <1>4, RunStays DEF InjInv

LEMMA SetKeychainStep ==
  ASSUME InjInv, UNCHANGED redactVars, NEW p \in Procs, NEW v \in Typed, SetKeychain(p, v)
  PROVE  InjInv'
<1> DEFINE a == proc[p].alias
<1>1. /\ Done(p) /\ UNCHANGED <<keyFile, cell, run, project, keys>>
      /\ keychain' = [keychain EXCEPT ![a] = v]
      /\ latest' = [latest EXCEPT !["keychain"][a] = {v}]
  BY DEF SetKeychain
<1>2. p \in Owners /\ a \in Aliases
  BY Names DEF InjInv, Calls, SetKeychain, At
<1> HIDE DEF a
<1>3. latest \in [Backends -> [Aliases -> SUBSET (Typed \cup {None})]] /\ keychain \in [Aliases -> Typed \cup {None}]
  BY DEF InjInv, CellInv, ChainInv
<1>4. /\ latest' \in [Backends -> [Aliases -> SUBSET (Typed \cup {None})]]
      /\ latest'["file"] = latest["file"] /\ latest'["keychain"][a] = {v}
      /\ \A x \in Aliases \ {a} : latest'["keychain"][x] = latest["keychain"][x]
  BY <1>1, <1>2, <1>3 DEF Backends
<1>5. Calls' /\ CellInv' /\ KeyInv' /\ SealedInv'
  BY <1>1, <1>2, <1>4, CallEnds
<1>6. ChainInv'
  BY <1>1, <1>2, <1>3, <1>4 DEF InjInv, ChainInv
<1>7. OpeningInv'
  BY <1>1, <1>2, OpeningUntouched
<1>8. QED
  BY <1>1, <1>5, <1>6, <1>7, RunStays DEF InjInv

\* Calls of which only the file descriptor changes.
Same(c, d) ==
  c.pc = d.pc /\ c.op = d.op /\ c.alias = d.alias /\ c.backend = d.backend /\ c.key = d.key
  /\ c.value = d.value

LEMMA FdIsGood ==
  ASSUME NEW c, CallGood(c), NEW fd \in Open
  PROVE  CallGood([c EXCEPT !.fd = fd]) /\ Same([c EXCEPT !.fd = fd], c) /\ [c EXCEPT !.fd = fd].fd = fd
<1> DEFINE d == [c EXCEPT !.fd = fd]
<1>1. c \in Call
  BY DEF CallGood
<1>2. d \in Call /\ Same(d, c) /\ d.fd = fd
  BY <1>1 DEF Call, Same
<1> HIDE DEF d
<1>3. CallGood(d)
  BY <1>2 DEF CallGood, Same
<1>4. QED
  BY <1>2, <1>3 DEF d

LEMMA OpenCellStep ==
  ASSUME InjInv, UNCHANGED redactVars, NEW p \in Procs, NEW v \in Typed, OpenCell(p, v)
  PROVE  InjInv'
<1> DEFINE a == proc[p].alias
           fd == IF Writing(a) = {} THEN "alone" ELSE "shared"
           new == [proc[p] EXCEPT !.pc = "write", !.value = v, !.fd = fd]
<1>1. /\ proc[p].pc = "opened" /\ proc[p].backend = "file"
      /\ UNCHANGED <<keyFile, keychain, run, project, keys>>
      /\ cell' = [cell EXCEPT ![a] = Empty]
      /\ latest' = [latest EXCEPT !["file"][a] = Typed \cup {None}]
      /\ proc' = [q \in DOMAIN proc |->
           IF q = p THEN new ELSE IF q \in Writing(a) THEN [proc[q] EXCEPT !.fd = "shared"] ELSE proc[q]]
  BY ZenonT(60) DEF OpenCell, Truncated, At
<1>2. /\ proc \in [Owners -> Call] /\ p \in Owners /\ \A q \in Owners : CallGood(proc[q])
      /\ a \in Aliases /\ Writing(a) \subseteq Procs
  BY <1>1, Names DEF InjInv, Calls, At, Writing
<1>3. proc[p].key \in Owners /\ p \notin Writing(a)
  BY <1>1, <1>2 DEF CallGood, Writing, At
<1>4. fd \in {"alone", "shared"} /\ (fd = "alone" => Writing(a) = {})
  OBVIOUS
<1> HIDE DEF a, fd
<1>5. CallGood(new) /\ new.pc = "write" /\ new.key = proc[p].key /\ new.alias = a /\ new.fd = fd
  <2> DEFINE old == proc[p]
  <2>1. old \in Call /\ old.key \in Owners /\ old.alias = a
    BY <1>2, <1>3 DEF a
  <2> HIDE DEF old
  <2>2. /\ new \in Call /\ new.pc = "write" /\ new.key = old.key /\ new.alias = a /\ new.fd = fd
        /\ new.value = v
    <3>1. new = [old EXCEPT !.pc = "write", !.value = v, !.fd = fd]
      BY DEF old
    <3> HIDE DEF new
    <3>2. QED
      BY <1>4, <2>1, <3>1 DEF Call, Open
  <2> HIDE DEF new
  <2>3. CallGood(new)
    BY <1>4, <2>1, <2>2 DEF CallGood, Open
  <2>4. QED
    BY <2>2, <2>3 DEF old
<1> HIDE DEF new
<1>6. ASSUME NEW q \in Owners
      PROVE  /\ CallGood(proc'[q])
             /\ q = p => proc'[q] = new
             /\ q \in Writing(a) => Same(proc'[q], proc[q]) /\ proc'[q].fd = "shared" /\ q # p
             /\ q \notin Writing(a) /\ q # p => proc'[q] = proc[q]
  <2>1. CASE q = p
    BY <1>1, <1>2, <1>3, <1>5, <2>1
  <2>2. CASE q \in Writing(a)
    <3>1. proc'[q] = [proc[q] EXCEPT !.fd = "shared"] /\ CallGood(proc[q])
      BY <1>1, <1>2, <1>3, <2>2
    <3>2. "shared" \in Open
      BY DEF Open
    <3>3. CallGood(proc'[q]) /\ Same(proc'[q], proc[q]) /\ proc'[q].fd = "shared"
      BY <3>1, <3>2, FdIsGood
    <3>4. QED
      BY <1>3, <2>2, <3>3
  <2>3. CASE q # p /\ q \notin Writing(a)
    BY <1>1, <1>2, <2>3
  <2>4. QED
    BY <2>1, <2>2, <2>3
<1>7. proc' \in [Owners -> Call]
  <2>1. proc' = [q \in Owners |-> proc'[q]]
    BY <1>1, <1>2
  <2>2. \A q \in Owners : proc'[q] \in Call
    BY <1>6 DEF CallGood
  <2>3. QED
    BY <2>1, <2>2
<1>8. ASSUME NEW q \in Owners, q # p
      PROVE  Same(proc'[q], proc[q]) /\ (proc'[q].fd # proc[q].fd => q \in Writing(a))
  BY <1>6, <1>8 DEF Same
<1>9. Calls'
  <2>1. ASSUME NEW q \in Procs, proc'[q].pc # "idle" PROVE proc'[q].alias \in Aliases
    <3>1. q \in Owners
      BY Names
    <3>2. CASE q = p
      BY <1>2, <1>5, <1>6, <3>1, <3>2
    <3>3. CASE q # p
      BY <1>8, <2>1, <3>1, <3>3 DEF InjInv, Calls, At, Same
    <3>4. QED
      BY <3>2, <3>3
  <2>2. QED
    BY <1>6, <1>7, <2>1 DEF Calls, At
<1>10. KeyInv'
  <2>1. Lone' <=> Lone
    BY <1>1 DEF Lone
  <2>2. ASSUME NEW q \in Owners
        PROVE  /\ proc'[q].pc = "create" => q \notin keys
               /\ proc'[q].pc = "fill" => q \in keys
               /\ proc'[q].key \in Owners => proc'[q].key \in keys /\ (Lone => keyFile = proc'[q].key)
    <3>1. CASE q = p
      BY <1>5, <1>6, <3>1 DEF InjInv, KeyInv
    <3>2. CASE q # p
      BY <1>8, <3>2 DEF InjInv, KeyInv, At, Same
    <3>3. QED
      BY <3>1, <3>2
  <2>3. QED
    BY <1>1, <2>1, <2>2 DEF InjInv, KeyInv, At
<1>11. cell \in [Aliases -> {None, Empty, Corrupt} \cup Sealed]
       /\ latest \in [Backends -> [Aliases -> SUBSET (Typed \cup {None})]]
  BY DEF InjInv, CellInv
<1>12. /\ cell' \in [Aliases -> {None, Empty, Corrupt} \cup Sealed] /\ cell'[a] = Empty
       /\ \A x \in Aliases \ {a} : cell'[x] = cell[x]
  BY <1>1, <1>2, <1>11
<1>13. /\ latest' \in [Backends -> [Aliases -> SUBSET (Typed \cup {None})]]
       /\ latest'["file"][a] = Typed \cup {None} /\ latest'["keychain"] = latest["keychain"]
       /\ \A x \in Aliases \ {a} : latest'["file"][x] = latest["file"][x]
  BY <1>1, <1>2, <1>11 DEF Backends
<1>14. SealedInv'
  BY <1>1, <1>12, Names DEF InjInv, SealedInv, Lone
<1>15. ASSUME NEW x \in Aliases, NEW q \in Writing(x)'
       PROVE  \/ x = a /\ (q = p \/ q \in Writing(a))
              \/ x # a /\ q \in Writing(x) /\ proc'[q] = proc[q]
  <2>1. q \in Procs /\ q \in Owners /\ proc'[q].pc = "write" /\ proc'[q].alias = x /\ proc'[q].fd # "deleted"
    BY <1>15, Names DEF Writing, At
  <2>2. CASE q = p
    BY <1>5, <1>6, <2>1, <2>2
  <2>3. CASE q # p
    <3>1. CASE q \in Writing(a)
      BY <1>8, <2>1, <2>3, <3>1 DEF Writing, Same
    <3>2. CASE q \notin Writing(a)
      <4>1. proc'[q] = proc[q]
        BY <1>6, <2>1, <2>3, <3>2
      <4>2. q \in Writing(x)
        BY <2>1, <4>1 DEF Writing, At
      <4>3. QED
        BY <3>2, <4>1, <4>2
    <3>3. QED
      BY <3>1, <3>2
  <2>4. QED
    BY <2>2, <2>3
<1>16. CellInv'
  <2>1. ASSUME NEW x \in Aliases
        PROVE  /\ cell'[x] \in Sealed => cell'[x].value \in latest'["file"][x]
               /\ \A w \in Typed : latest'["file"][x] = {w} => cell'[x] \in Sealed /\ cell'[x].value = w
    <3>1. CASE x = a
      <4>1. \A w \in Typed : Typed \cup {None} # {w}
        BY Names
      <4>2. QED
        BY <1>12, <1>13, <3>1, <4>1, Names
    <3>2. CASE x # a
      <4>1. cell'[x] = cell[x] /\ latest'["file"][x] = latest["file"][x]
        BY <1>12, <1>13, <3>2
      <4>2. /\ cell[x] \in Sealed => cell[x].value \in latest["file"][x]
            /\ \A w \in Typed : latest["file"][x] = {w} => cell[x] \in Sealed /\ cell[x].value = w
        BY DEF InjInv, CellInv
      <4>3. QED
        BY <4>1, <4>2, Zenon
    <3>3. QED
      BY <3>1, <3>2
  <2>2. ASSUME NEW x \in Aliases, NEW q \in Writing(x)'
        PROVE  /\ latest'["file"][x] = Typed \cup {None}
               /\ proc'[q].fd = "alone" => Writing(x)' = {q} /\ cell'[x] = Empty
    <3>1. CASE x = a
      <4>1. latest'["file"][x] = Typed \cup {None} /\ cell'[x] = Empty
        BY <1>12, <1>13, <3>1
      <4>2. ASSUME proc'[q].fd = "alone" PROVE Writing(x)' = {q}
        <5>1. q = p \/ q \in Writing(a)
          BY <1>15, <2>2, <3>1
        <5>2. q = p
          BY <1>2, <1>6, <4>2, <5>1, Names
        <5>3. Writing(a) = {}
          BY <1>4, <1>5, <1>6, <1>2, <4>2, <5>2
        <5>4. \A r \in Writing(x)' : r = p
          BY <1>15, <3>1, <5>3
        <5>5. QED
          BY <2>2, <5>2, <5>4
      <4>3. QED
        BY <4>1, <4>2
    <3>2. CASE x # a
      <4>1. \A r \in Writing(x)' : r \in Writing(x)
        BY <1>15, <3>2
      <4>2. q \in Writing(x) /\ proc'[q] = proc[q]
        BY <1>15, <2>2, <3>2
      <4>3. QED
        BY <1>12, <1>13, <2>2, <3>2, <4>1, <4>2 DEF InjInv, CellInv
    <3>3. QED
      BY <3>1, <3>2
  <2>3. QED
    BY <1>12, <1>13, <2>1, <2>2 DEF CellInv
<1>17. ChainInv'
  BY <1>1, <1>13 DEF InjInv, ChainInv
<1>18. OpeningInv'
  <2>1. proc'[Runner] = proc[Runner]
    BY <1>2, <1>6, Names
  <2>2. QED
    BY <1>1, <2>1 DEF InjInv, OpeningInv, Resolving, Wanted, Handle, At
<1>19. QED
  BY <1>1, <1>9, <1>10, <1>14, <1>16, <1>17, <1>18, RunStays DEF InjInv

LEMMA WriteCellStep ==
  ASSUME InjInv, UNCHANGED redactVars, NEW p \in Procs, WriteCell(p)
  PROVE  InjInv'
<1> DEFINE a == proc[p].alias
           sealed == [key |-> proc[p].key, value |-> proc[p].value]
           Covered == cell[a] = Empty
                      \/ (cell[a] # Corrupt /\ Len(cell[a].value) <= Len(proc[p].value))
<1>1. /\ proc[p].pc = "write" /\ Done(p)
      /\ UNCHANGED <<keyFile, keychain, run, project, keys>>
  BY DEF WriteCell, At
<1>2. /\ p \in Owners /\ a \in Aliases /\ CallGood(proc[p]) /\ proc[p] \in Call
  BY <1>1, Names DEF InjInv, Calls, At
<1>3. proc[p].key \in Owners /\ proc[p].value \in Typed /\ proc[p].fd \in Open
  BY <1>1, <1>2 DEF CallGood
<1>4. CASE proc[p].fd = "deleted"
  <2>1. UNCHANGED <<cell, latest>>
    BY <1>4 DEF WriteCell
  <2>2. Calls' /\ CellInv' /\ KeyInv' /\ SealedInv'
    BY <1>1, <1>2, <2>1, CallEnds DEF InjInv, CellInv
  <2>3. OpeningInv' /\ ChainInv'
    BY <1>1, <1>2, <2>1, OpeningUntouched DEF InjInv, ChainInv
  <2>4. QED
    BY <1>1, <2>2, <2>3, RunStays DEF InjInv
<1>5. CASE proc[p].fd # "deleted"
  <2>1. /\ cell' = [cell EXCEPT ![a] = IF Covered THEN sealed ELSE Corrupt]
        /\ latest' = IF proc[p].fd = "alone"
                     THEN [latest EXCEPT !["file"][a] = {proc[p].value}] ELSE latest
    BY <1>5 DEF WriteCell
  <2>2. p \in Writing(a)
    BY <1>1, <1>5 DEF Writing, At
  <2>3. /\ latest["file"][a] = Typed \cup {None}
        /\ proc[p].fd = "alone" => Writing(a) = {p} /\ cell[a] = Empty
    BY <1>2, <2>2 DEF InjInv, CellInv
  <2>4. proc[p].fd = "alone" => Covered
    BY <2>3
  <2>5. sealed \in Sealed /\ sealed.key = proc[p].key /\ sealed.value = proc[p].value
    BY <1>3 DEF Sealed
  <2> DEFINE c == IF Covered THEN sealed ELSE Corrupt
             v == proc[p].value
             l == IF proc[p].fd = "alone" THEN {v} ELSE Typed \cup {None}
  <2>6. /\ c = sealed \/ c = Corrupt
        /\ proc[p].fd = "alone" => c = sealed
    BY <2>4
  <2> HIDE DEF Covered, sealed, a
  <2>7. cell \in [Aliases -> {None, Empty, Corrupt} \cup Sealed]
        /\ latest \in [Backends -> [Aliases -> SUBSET (Typed \cup {None})]]
    BY DEF InjInv, CellInv
  <2>8. /\ cell' \in [Aliases -> {None, Empty, Corrupt} \cup Sealed] /\ cell'[a] = c
        /\ \A x \in Aliases \ {a} : cell'[x] = cell[x]
    BY <1>2, <2>1, <2>5, <2>6, <2>7
  <2>9. /\ latest' \in [Backends -> [Aliases -> SUBSET (Typed \cup {None})]]
        /\ latest'["file"][a] = l /\ latest'["keychain"] = latest["keychain"]
        /\ \A x \in Aliases \ {a} : latest'["file"][x] = latest["file"][x]
    <3>1. CASE proc[p].fd = "alone"
      <4>1. latest' = [latest EXCEPT !["file"][a] = {v}] /\ l = {v} /\ {v} \subseteq Typed
        BY <1>3, <2>1, <3>1
      <4>2. QED
        BY <1>2, <2>7, <4>1 DEF Backends
    <3>2. CASE proc[p].fd # "alone"
      <4>1. latest' = latest /\ l = Typed \cup {None}
        BY <2>1, <3>2
      <4>2. QED
        BY <1>2, <2>3, <2>7, <4>1 DEF Backends
    <3>3. QED
      BY <3>1, <3>2
  <2> HIDE DEF c
  <2>10. proc' \in [Owners -> Call] /\ proc'[p] = Idle /\ \A q \in Owners \ {p} : proc'[q] = proc[q]
    BY <1>1, <1>2, IdleIsGood DEF Done, InjInv, Calls, CallGood
  <2>11. ASSUME NEW x \in Aliases, NEW q \in Writing(x)'
         PROVE  q \in Writing(x) /\ proc'[q] = proc[q] /\ q # p
    <3>1. q \in Procs /\ proc'[q].pc = "write" /\ q \in Owners /\ Idle.pc = "idle"
      BY <2>11, Names DEF Writing, At, Idle
    <3>2. q # p /\ proc'[q] = proc[q]
      BY <2>10, <3>1
    <3>3. QED
      BY <2>11, <3>1, <3>2 DEF Writing, At
  <2>12. CellInv'
    <3>1. ASSUME NEW x \in Aliases
          PROVE  /\ cell'[x] \in Sealed => cell'[x].value \in latest'["file"][x]
                 /\ \A w \in Typed : latest'["file"][x] = {w} => cell'[x] \in Sealed /\ cell'[x].value = w
      <4>1. CASE x = a
        <5>1. CASE proc[p].fd = "alone"
          BY <1>3, <2>5, <2>6, <2>8, <2>9, <4>1, <5>1
        <5>2. CASE proc[p].fd # "alone"
          <6>1. l = Typed \cup {None} /\ \A w \in Typed : l # {w}
            BY <5>2, Names
          <6>2. c \in Sealed => c.value \in Typed
            BY <1>3, <2>5, <2>6, Names
          <6>3. QED
            BY <2>8, <2>9, <4>1, <6>1, <6>2
        <5>3. QED
          BY <5>1, <5>2
      <4>2. CASE x # a
        <5>1. cell'[x] = cell[x] /\ latest'["file"][x] = latest["file"][x]
          BY <2>8, <2>9, <4>2
        <5>2. /\ cell[x] \in Sealed => cell[x].value \in latest["file"][x]
              /\ \A w \in Typed : latest["file"][x] = {w} => cell[x] \in Sealed /\ cell[x].value = w
          BY DEF InjInv, CellInv
        <5>3. QED
          BY <5>1, <5>2, Zenon
      <4>3. QED
        BY <4>1, <4>2
    <3>2. ASSUME NEW x \in Aliases, NEW q \in Writing(x)'
          PROVE  /\ latest'["file"][x] = Typed \cup {None}
                 /\ proc'[q].fd = "alone" => Writing(x)' = {q} /\ cell'[x] = Empty
      <4>1. q \in Writing(x) /\ proc'[q] = proc[q] /\ q # p
        BY <2>11, <3>2
      <4>2. \A r \in Writing(x)' : r \in Writing(x)
        BY <2>11
      <4>3. /\ latest["file"][x] = Typed \cup {None}
            /\ proc[q].fd = "alone" => Writing(x) = {q} /\ cell[x] = Empty
        BY <4>1 DEF InjInv, CellInv
      <4>4. CASE x = a
        <5>1. proc[p].fd # "alone"
          BY <2>3, <4>1, <4>4
        <5>2. proc[q].fd # "alone"
          BY <2>2, <4>1, <4>3, <4>4
        <5>3. QED
          BY <2>9, <4>1, <4>4, <5>1, <5>2
      <4>5. CASE x # a
        <5>1. cell'[x] = cell[x] /\ latest'["file"][x] = latest["file"][x]
          BY <2>8, <2>9, <4>5
        <5>2. QED
          BY <3>2, <4>1, <4>2, <4>3, <5>1
      <4>6. QED
        BY <4>4, <4>5
    <3>3. QED
      BY <2>8, <2>9, <3>1, <3>2 DEF CellInv
  <2>13. SealedInv'
    <3>1. Lone' <=> Lone
      BY <1>1 DEF Lone
    <3>2. ASSUME NEW x \in Aliases, cell'[x] \in Sealed
          PROVE  cell'[x].key \in keys /\ (Lone => keyFile = cell'[x].key)
      <4>1. CASE x = a
        <5>1. c = sealed
          BY <2>6, <2>8, <3>2, <4>1, Names
        <5>2. cell'[x].key = proc[p].key
          BY <2>5, <2>8, <4>1, <5>1
        <5>3. QED
          BY <1>2, <1>3, <5>2 DEF InjInv, KeyInv
      <4>2. CASE x # a
        BY <2>8, <3>2, <4>2 DEF InjInv, SealedInv
      <4>3. QED
        BY <4>1, <4>2
    <3>3. QED
      BY <1>1, <3>1, <3>2 DEF SealedInv
  <2>14. Steps(p, Idle) /\ Idle.pc = "idle" /\ Idle.key = None
    BY <1>1 DEF Done, Steps, Idle
  <2>15. Calls' /\ KeyInv'
    BY <1>1, <1>2, <2>14, IdleIsGood, Names, CallMoves, KeysStay DEF InjInv
  <2>16. OpeningInv' /\ ChainInv'
    BY <1>1, <1>2, <2>9, OpeningUntouched DEF InjInv, ChainInv
  <2>17. QED
    BY <1>1, <2>12, <2>13, <2>15, <2>16, RunStays DEF InjInv
<1>6. QED
  BY <1>4, <1>5

LEMMA DeleteValueStep ==
  ASSUME InjInv, UNCHANGED redactVars, NEW p \in Procs, DeleteValue(p)
  PROVE  InjInv'
<1> DEFINE a == proc[p].alias
           b == proc[p].backend
<1>1. /\ proc[p].pc = "opened" /\ UNCHANGED <<keyFile, run, project, keys>>
      /\ latest' = [latest EXCEPT ![b][a] = {}]
      /\ proc' = [q \in DOMAIN proc |->
           IF q = p THEN Idle
           ELSE IF b = "file" /\ q \in Writing(a) THEN [proc[q] EXCEPT !.fd = "deleted"]
           ELSE proc[q]]
      /\ b = "keychain" => keychain' = [keychain EXCEPT ![a] = None] /\ UNCHANGED cell
      /\ b # "keychain" => cell' = [cell EXCEPT ![a] = None] /\ UNCHANGED keychain
  BY DEF DeleteValue, At
<1>2. /\ proc \in [Owners -> Call] /\ p \in Owners /\ \A q \in Owners : CallGood(proc[q])
      /\ a \in Aliases /\ Writing(a) \subseteq Procs
  BY <1>1, Names DEF InjInv, Calls, At, Writing
<1>3. b \in Backends /\ p \notin Writing(a)
  BY <1>1, <1>2 DEF CallGood, Writing, At
<1>4. /\ latest \in [Backends -> [Aliases -> SUBSET (Typed \cup {None})]]
      /\ cell \in [Aliases -> {None, Empty, Corrupt} \cup Sealed]
      /\ keychain \in [Aliases -> Typed \cup {None}]
  BY DEF InjInv, CellInv, ChainInv
<1> HIDE DEF a, b
<1>5. ASSUME NEW q \in Owners
      PROVE  /\ CallGood(proc'[q])
             /\ q = p => proc'[q] = Idle
             /\ q # p => Same(proc'[q], proc[q])
             /\ b = "file" /\ q \in Writing(a) => proc'[q].fd = "deleted" /\ q # p
             /\ (b # "file" \/ q \notin Writing(a)) /\ q # p => proc'[q] = proc[q]
  <2>1. CASE q = p
    BY <1>1, <1>2, <1>3, <2>1, IdleIsGood
  <2>2. CASE q # p /\ b = "file" /\ q \in Writing(a)
    <3>1. proc'[q] = [proc[q] EXCEPT !.fd = "deleted"] /\ CallGood(proc[q])
      BY <1>1, <1>2, <1>3, <2>2
    <3>2. "deleted" \in Open
      BY DEF Open
    <3>3. CallGood(proc'[q]) /\ Same(proc'[q], proc[q]) /\ proc'[q].fd = "deleted"
      BY <3>1, <3>2, FdIsGood
    <3>4. QED
      BY <2>2, <3>3
  <2>3. CASE q # p /\ (b # "file" \/ q \notin Writing(a))
    BY <1>1, <1>2, <2>3 DEF Same
  <2>4. QED
    BY <2>1, <2>2, <2>3
<1>6. proc' \in [Owners -> Call]
  <2>1. proc' = [q \in Owners |-> proc'[q]]
    BY <1>1, <1>2
  <2>2. \A q \in Owners : proc'[q] \in Call
    BY <1>5 DEF CallGood
  <2>3. QED
    BY <2>1, <2>2
<1>7. Calls'
  <2>1. ASSUME NEW q \in Procs, proc'[q].pc # "idle" PROVE proc'[q].alias \in Aliases
    <3>1. q \in Owners /\ Idle.pc = "idle"
      BY Names DEF Idle
    <3>2. q # p /\ Same(proc'[q], proc[q])
      BY <1>5, <2>1, <3>1
    <3>3. QED
      BY <2>1, <3>2 DEF InjInv, Calls, At, Same
  <2>2. QED
    BY <1>5, <1>6, <2>1 DEF Calls, At
<1>8. KeyInv'
  <2>1. Lone' <=> Lone
    BY <1>1 DEF Lone
  <2>2. ASSUME NEW q \in Owners
        PROVE  /\ proc'[q].pc = "create" => q \notin keys
               /\ proc'[q].pc = "fill" => q \in keys
               /\ proc'[q].key \in Owners => proc'[q].key \in keys /\ (Lone => keyFile = proc'[q].key)
    <3>1. CASE q = p
      <4>1. proc'[q].pc = "idle" /\ proc'[q].key = None
        BY <1>5, <3>1 DEF Idle
      <4>2. QED
        BY <4>1, Names
    <3>2. CASE q # p
      BY <1>5, <3>2 DEF InjInv, KeyInv, At, Same
    <3>3. QED
      BY <3>1, <3>2
  <2>3. QED
    BY <1>1, <2>1, <2>2 DEF InjInv, KeyInv, At
<1>9. /\ latest' \in [Backends -> [Aliases -> SUBSET (Typed \cup {None})]]
      /\ latest'[b][a] = {}
      /\ \A d \in Backends, x \in Aliases : d # b \/ x # a => latest'[d][x] = latest[d][x]
  BY <1>1, <1>2, <1>3, <1>4
<1>10. /\ cell' \in [Aliases -> {None, Empty, Corrupt} \cup Sealed]
       /\ b = "file" => cell'[a] = None
       /\ \A x \in Aliases : b # "file" \/ x # a => cell'[x] = cell[x]
  <2>1. CASE b = "file"
    BY <1>1, <1>2, <1>4, <2>1
  <2>2. CASE b = "keychain"
    BY <1>1, <1>4, <2>2
  <2>3. QED
    BY <1>3, <2>1, <2>2 DEF Backends
<1>11. /\ keychain' \in [Aliases -> Typed \cup {None}]
       /\ b = "keychain" => keychain'[a] = None
       /\ \A x \in Aliases : b # "keychain" \/ x # a => keychain'[x] = keychain[x]
  <2>1. CASE b # "keychain"
    BY <1>1, <1>4, <2>1
  <2>2. CASE b = "keychain"
    BY <1>1, <1>2, <1>4, <2>2
  <2>3. QED
    BY <2>1, <2>2
<1>12. SealedInv'
  <2>1. ASSUME NEW x \in Aliases, cell'[x] \in Sealed PROVE cell'[x] = cell[x]
    BY <1>10, <2>1, Names
  <2>2. QED
    BY <1>1, <2>1 DEF InjInv, SealedInv, Lone
<1>13. ASSUME NEW x \in Aliases, NEW q \in Writing(x)'
       PROVE  q \in Writing(x) /\ proc'[q] = proc[q] /\ (b # "file" \/ x # a)
  <2>1. /\ q \in Procs /\ q \in Owners /\ proc'[q].pc = "write" /\ proc'[q].alias = x
        /\ proc'[q].fd # "deleted" /\ Idle.pc = "idle"
    BY <1>13, Names DEF Writing, At, Idle
  <2>2. q # p /\ ~(b = "file" /\ q \in Writing(a))
    BY <1>5, <2>1
  <2>3. proc'[q] = proc[q]
    BY <1>5, <2>1, <2>2
  <2>4. q \in Writing(x)
    BY <2>1, <2>3 DEF Writing, At
  <2>5. QED
    BY <2>2, <2>3, <2>4
<1>14. CellInv'
  <2>1. ASSUME NEW x \in Aliases
        PROVE  /\ cell'[x] \in Sealed => cell'[x].value \in latest'["file"][x]
               /\ \A w \in Typed : latest'["file"][x] = {w} => cell'[x] \in Sealed /\ cell'[x].value = w
    <3>1. CASE b = "file" /\ x = a
      <4>1. cell'[x] \notin Sealed
        BY <1>10, <3>1, Names
      <4>2. \A w \in Typed : latest'["file"][x] # {w}
        BY <1>9, <3>1
      <4>3. QED
        BY <4>1, <4>2
    <3>2. CASE b # "file" \/ x # a
      <4>1. cell'[x] = cell[x] /\ latest'["file"][x] = latest["file"][x]
        BY <1>9, <1>10, <3>2 DEF Backends
      <4>2. /\ cell[x] \in Sealed => cell[x].value \in latest["file"][x]
            /\ \A w \in Typed : latest["file"][x] = {w} => cell[x] \in Sealed /\ cell[x].value = w
        BY DEF InjInv, CellInv
      <4>3. QED
        BY <4>1, <4>2, Zenon
    <3>3. QED
      BY <3>1, <3>2
  <2>2. ASSUME NEW x \in Aliases, NEW q \in Writing(x)'
        PROVE  /\ latest'["file"][x] = Typed \cup {None}
               /\ proc'[q].fd = "alone" => Writing(x)' = {q} /\ cell'[x] = Empty
    <3>1. q \in Writing(x) /\ proc'[q] = proc[q] /\ (b # "file" \/ x # a)
      BY <1>13, <2>2
    <3>2. cell'[x] = cell[x] /\ latest'["file"][x] = latest["file"][x]
      BY <1>9, <1>10, <3>1 DEF Backends
    <3>3. \A r \in Writing(x)' : r \in Writing(x)
      BY <1>13
    <3>4. QED
      BY <2>2, <3>1, <3>2, <3>3 DEF InjInv, CellInv
  <2>3. QED
    BY <1>9, <1>10, <2>1, <2>2 DEF CellInv
<1>15. ChainInv'
  <2>1. ASSUME NEW x \in Aliases, keychain'[x] # None
        PROVE  keychain'[x] \in latest'["keychain"][x]
    <3>1. keychain'[x] = keychain[x] /\ (b # "keychain" \/ x # a)
      BY <1>11, <2>1
    <3>2. latest'["keychain"][x] = latest["keychain"][x]
      BY <1>9, <3>1 DEF Backends
    <3>3. QED
      BY <2>1, <3>1, <3>2 DEF InjInv, ChainInv
  <2>2. QED
    BY <1>11, <2>1 DEF ChainInv
<1>16. OpeningInv'
  <2>1. Runner \notin Writing(a) /\ Runner # p /\ Runner \in Owners
    BY <1>2, Names
  <2>2. proc'[Runner] = proc[Runner]
    BY <1>5, <2>1
  <2>3. QED
    BY <1>1, <2>2 DEF InjInv, OpeningInv, Resolving, Wanted, Handle, At
<1>17. QED
  BY <1>1, <1>7, <1>8, <1>12, <1>14, <1>15, <1>16, RunStays DEF InjInv

-----------------------------------------------------------------------------
(* Opening the local store.                                                *)

LEMMA ReadKeyStep ==
  ASSUME InjInv, UNCHANGED redactVars, NEW p \in Owners, ReadKey(p)
  PROVE  InjInv'
<1>1. /\ proc[p].pc = "open" /\ UNCHANGED <<keyFile, cell, keychain, run, project, latest, keys>>
  BY DEF ReadKey, At, storeVars
<1>2. CallGood(proc[p]) /\ proc[p] \in Call /\ proc \in [Owners -> Call]
  BY DEF InjInv, Calls, CallGood
<1>3. p \in Procs => proc[p].alias \in Aliases
  BY <1>1 DEF InjInv, Calls, At
<1>4. \E c : /\ Steps(p, c) /\ CallGood(c) /\ c.alias = proc[p].alias /\ c.backend = proc[p].backend
             /\ c.pc \in {"opened", "create"} /\ (c.pc = "create" => keyFile = None)
             /\ (c.key \in Owners => c.key \in {keyFile, proc[p].key})
  <2> DEFINE old == proc[p]
  <2>1. old \in Call
    BY <1>2
  <2>2. CASE proc[p].backend = "keychain"
    <3> DEFINE c == [old EXCEPT !.pc = "opened"]
    <3>1. Steps(p, c)
      BY <2>2 DEF ReadKey, Goto, Steps
    <3> HIDE DEF old
    <3>2. c \in Call /\ c.alias = old.alias /\ c.backend = old.backend /\ c.pc = "opened" /\ c.key = old.key
      BY <2>1 DEF Call
    <3> HIDE DEF c
    <3>3. CallGood(c)
      BY <2>2, <3>2 DEF CallGood, old, Backends
    <3>4. QED
      BY <3>1, <3>2, <3>3 DEF old
  <2>3. CASE proc[p].backend = "file" /\ keyFile \in Owners
    <3> DEFINE c == [old EXCEPT !.pc = "opened", !.key = keyFile]
    <3>1. Steps(p, c)
      <4>1. proc[p].backend # "keychain" /\ keyFile # None
        BY <2>3, Names
      <4>2. proc' = [proc EXCEPT ![p].pc = "opened", ![p].key = keyFile]
        BY <2>3, <4>1 DEF ReadKey
      <4>3. QED
        BY <4>2 DEF Steps
    <3> HIDE DEF old
    <3>2. c \in Call /\ c.alias = old.alias /\ c.backend = old.backend /\ c.pc = "opened" /\ c.key = keyFile
      BY <2>1, <2>3 DEF Call
    <3> HIDE DEF c
    <3>3. CallGood(c)
      BY <2>3, <3>2 DEF CallGood, old, Backends
    <3>4. QED
      BY <3>1, <3>2, <3>3 DEF old
  <2>4. CASE proc[p].backend = "file" /\ keyFile = None
    <3> DEFINE c == [old EXCEPT !.pc = "create"]
    <3>1. Steps(p, c)
      BY <2>4, Names DEF ReadKey, Goto, Steps
    <3> HIDE DEF old
    <3>2. c \in Call /\ c.alias = old.alias /\ c.backend = old.backend /\ c.pc = "create" /\ c.key = old.key
      BY <2>1 DEF Call
    <3> HIDE DEF c
    <3>3. CallGood(c)
      BY <2>4, <3>2 DEF CallGood, old
    <3>4. QED
      BY <2>4, <3>1, <3>2, <3>3 DEF old
  <2>5. QED
    BY <2>2, <2>3, <2>4 DEF ReadKey
<1>5. PICK c : /\ Steps(p, c) /\ CallGood(c) /\ c.alias = proc[p].alias /\ c.backend = proc[p].backend
               /\ c.pc \in {"opened", "create"} /\ (c.pc = "create" => keyFile = None)
               /\ (c.key \in Owners => c.key \in {keyFile, proc[p].key})
  BY <1>4
<1>6. Calls'
  BY <1>3, <1>5, CallMoves DEF InjInv
<1>7. CellInv'
  BY <1>1, <1>5, CellsStay DEF InjInv, CellInv
<1>8. KeyInv'
  <2>1. c.pc = "create" => p \notin keys
    BY <1>5 DEF InjInv, KeyInv
  <2>2. c.pc = "fill" => p \in keys
    BY <1>5
  <2>3. QED
    BY <1>1, <1>5, <2>1, <2>2, KeysStay DEF InjInv
<1>9. OpeningInv'
  BY <1>1, <1>5, OpeningStays DEF InjInv, At
<1>10. SealedInv' /\ ChainInv'
  BY <1>1, SealedStays DEF InjInv, ChainInv
<1>11. QED
  BY <1>1, <1>6, <1>7, <1>8, <1>9, <1>10, RunStays DEF InjInv

LEMMA TruncateKeyStep ==
  ASSUME InjInv, UNCHANGED redactVars, NEW p \in Owners, TruncateKey(p)
  PROVE  InjInv'
<1> DEFINE c == [proc[p] EXCEPT !.pc = "fill"]
<1>1. /\ proc[p].pc = "create" /\ UNCHANGED <<cell, keychain, run, project, latest>>
      /\ keyFile' = "empty" /\ keys' = keys \cup {p} /\ Steps(p, c)
  BY DEF TruncateKey, Goto, Steps, At
<1>2. CallGood(proc[p]) /\ proc[p] \in Call /\ proc \in [Owners -> Call]
  BY DEF InjInv, Calls, CallGood
<1>3. p \in Procs => proc[p].alias \in Aliases
  BY <1>1 DEF InjInv, Calls, At
<1>4. CallGood(c) /\ c.alias = proc[p].alias /\ c.backend = proc[p].backend /\ c.pc = "fill" /\ c.key = proc[p].key
  <2> DEFINE old == proc[p]
  <2>1. old \in Call
    BY <1>2
  <2>2. c = [old EXCEPT !.pc = "fill"]
    OBVIOUS
  <2> HIDE DEF old, c
  <2>3. c \in Call /\ c.alias = old.alias /\ c.backend = old.backend /\ c.pc = "fill" /\ c.key = old.key
    BY <2>1, <2>2 DEF Call
  <2>4. CallGood(c)
    BY <1>1, <1>2, <2>3 DEF CallGood, old
  <2>5. QED
    BY <2>3, <2>4 DEF old
<1> HIDE DEF c
<1>5. p \notin keys /\ keys \subseteq Owners /\ IsFiniteSet(keys)
  BY <1>1 DEF InjInv, KeyInv, At
<1>6. ASSUME NEW k \in keys PROVE ~Lone'
  BY <1>1, <1>5 DEF Lone
<1>7. Calls'
  BY <1>1, <1>3, <1>4, CallMoves DEF InjInv
<1>8. CellInv'
  BY <1>1, <1>4, CellsStay DEF InjInv, CellInv
<1>9. KeyInv'
  <2>1. proc'[p] = c /\ \A q \in Owners \ {p} : proc'[q] = proc[q]
    BY <1>1, <1>2 DEF Steps
  <2>2. ASSUME NEW q \in Owners
        PROVE  /\ proc'[q].pc = "create" => q \notin keys'
               /\ proc'[q].pc = "fill" => q \in keys'
               /\ proc'[q].key \in Owners => proc'[q].key \in keys' /\ (Lone' => keyFile' = proc'[q].key)
    <3>1. proc'[q].key = proc[q].key
      BY <1>4, <2>1
    <3>2. proc[q].key \in Owners => proc[q].key \in keys
      BY DEF InjInv, KeyInv
    <3>3. proc'[q].pc = "create" => q \notin keys'
      BY <1>1, <1>4, <2>1 DEF InjInv, KeyInv, At
    <3>4. proc'[q].pc = "fill" => q \in keys'
      BY <1>1, <1>4, <2>1 DEF InjInv, KeyInv, At
    <3>5. QED
      BY <1>1, <1>6, <3>1, <3>2, <3>3, <3>4
  <2>3. IsFiniteSet(keys')
    BY <1>1, <1>5, FS_AddElement
  <2>4. keyFile' # None /\ keyFile' \notin Owners /\ keys' # {} /\ keys' \subseteq Owners
    BY <1>1, <1>5, Names
  <2>5. keyFile' \in {None, "empty"} \cup Owners
    BY <1>1
  <2>6. QED
    BY <2>2, <2>3, <2>4, <2>5 DEF KeyInv, At
<1>10. SealedInv'
  <2>1. ASSUME NEW a \in Aliases, cell[a] \in Sealed PROVE cell[a].key \in keys
    BY <2>1 DEF InjInv, SealedInv
  <2>2. QED
    BY <1>1, <1>6, <2>1 DEF SealedInv
<1>11. OpeningInv'
  BY <1>1, <1>4, OpeningStays DEF InjInv, At
<1>12. ChainInv'
  BY <1>1 DEF InjInv, ChainInv
<1>13. QED
  BY <1>1, <1>7, <1>8, <1>9, <1>10, <1>11, <1>12, RunStays DEF InjInv

LEMMA WriteKeyStep ==
  ASSUME InjInv, UNCHANGED redactVars, NEW p \in Owners, WriteKey(p)
  PROVE  InjInv'
<1> DEFINE c == [proc[p] EXCEPT !.pc = "opened", !.key = p]
<1>1. /\ proc[p].pc = "fill" /\ UNCHANGED <<cell, keychain, run, project, latest, keys>>
      /\ keyFile' = p /\ Steps(p, c)
  BY DEF WriteKey, Steps, At
<1>2. CallGood(proc[p]) /\ proc[p] \in Call /\ proc \in [Owners -> Call]
  BY DEF InjInv, Calls, CallGood
<1>3. p \in Procs => proc[p].alias \in Aliases
  BY <1>1 DEF InjInv, Calls, At
<1>4. CallGood(c) /\ c.alias = proc[p].alias /\ c.backend = proc[p].backend /\ c.pc = "opened" /\ c.key = p
  <2> DEFINE old == proc[p]
  <2>1. old \in Call
    BY <1>2
  <2>2. c = [old EXCEPT !.pc = "opened", !.key = p]
    OBVIOUS
  <2> HIDE DEF old, c
  <2>3. c \in Call /\ c.alias = old.alias /\ c.backend = old.backend /\ c.pc = "opened" /\ c.key = p
    BY <2>1, <2>2 DEF Call
  <2>4. CallGood(c)
    BY <1>1, <1>2, <2>3 DEF CallGood, old, Backends
  <2>5. QED
    BY <2>3, <2>4 DEF old
<1> HIDE DEF c
<1>5. p \in keys /\ keys \subseteq Owners /\ IsFiniteSet(keys)
  BY <1>1 DEF InjInv, KeyInv, At
<1>6. Lone' => \A k \in keys : k = p
  BY <1>1, <1>5 DEF Lone
<1>7. Calls'
  BY <1>1, <1>3, <1>4, CallMoves DEF InjInv
<1>8. CellInv'
  BY <1>1, <1>4, CellsStay DEF InjInv, CellInv
<1>9. KeyInv'
  <2>1. proc'[p] = c /\ \A q \in Owners \ {p} : proc'[q] = proc[q]
    BY <1>1, <1>2 DEF Steps
  <2>2. ASSUME NEW q \in Owners
        PROVE  /\ proc'[q].pc = "create" => q \notin keys
               /\ proc'[q].pc = "fill" => q \in keys
               /\ proc'[q].key \in Owners => proc'[q].key \in keys
    <3>1. CASE q = p
      BY <1>4, <1>5, <2>1, <3>1
    <3>2. CASE q # p
      BY <2>1, <3>2 DEF InjInv, KeyInv, At
    <3>3. QED
      BY <3>1, <3>2
  <2>3. keyFile' # None /\ keyFile' \in keys /\ keys # {}
    BY <1>1, <1>5, Names
  <2>4. QED
    BY <1>1, <1>5, <1>6, <2>2, <2>3 DEF KeyInv, At
<1>10. SealedInv'
  BY <1>1, <1>6 DEF InjInv, SealedInv
<1>11. OpeningInv'
  BY <1>1, <1>4, OpeningStays DEF InjInv, At
<1>12. ChainInv'
  BY <1>1 DEF InjInv, ChainInv
<1>13. QED
  BY <1>1, <1>7, <1>8, <1>9, <1>10, <1>11, <1>12, RunStays DEF InjInv

-----------------------------------------------------------------------------
(* The run.                                                                *)

LEMMA WithOne ==
  ASSUME NEW f, NEW x, NEW v
  PROVE  /\ DOMAIN With(f, x, v) = DOMAIN f \cup {x} /\ With(f, x, v)[x] = v
         /\ \A y \in DOMAIN f \ {x} : With(f, x, v)[y] = f[y]
         /\ Range(With(f, x, v)) \subseteq Range(f) \cup {v}
BY DEF With, Range

LEMMA WantedIsAlias == InjInv /\ Resolving => Wanted \in Aliases /\ run.todo + 1 \in 1 .. (Len(Order) + 1)
<1> SUFFICES ASSUME InjInv, Resolving PROVE Wanted \in Aliases /\ run.todo + 1 \in 1 .. (Len(Order) + 1)
  OBVIOUS
<1>1. Order \in Seq(Aliases) /\ Len(Order) \in Nat
  BY InjectionAssumption
<1>2. run.todo \in 1 .. Len(Order)
  BY <1>1 DEF InjInv, RunGood, Resolving
<1>3. QED
  BY <1>1, <1>2 DEF Wanted

\* What is read is what was left there last, in the store that the alias names.
LEMMA FoundIsLatest ==
  ASSUME InjInv, Resolving, Handle(Wanted) \in DOMAIN run.handle, Found # None
  PROVE  Found \in Typed /\ Found \in latest[Backend(Declared[Wanted])][Wanted]
<1> DEFINE h == run.handle[Handle(Wanted)]
           a == Wanted
<1>1. a \in Aliases
  BY WantedIsAlias
<1>2. h.backend \in Backends /\ h.backend = Backend(Declared[a]) /\ (h.backend = "file" => h.key \in Owners)
  BY DEF InjInv, RunGood, HandleGood, Handle
<1>3. Found = Get(h.backend, h.key, a)
  BY DEF Found
<1> HIDE DEF h, a
<1>4. CASE h.backend = "keychain"
  <2>1. Found = keychain[a]
    BY <1>3, <1>4 DEF Get
  <2>2. QED
    BY <1>1, <1>2, <1>4, <2>1 DEF InjInv, ChainInv, a
<1>5. CASE h.backend = "file"
  <2>1. cell[a].key = h.key /\ cell[a] # None /\ Found = cell[a].value
    BY <1>3, <1>5 DEF Get
  <2>2. cell[a] \in {None, Empty, Corrupt} \cup Sealed
    BY <1>1 DEF InjInv, CellInv
  <2>3. Empty.key = None /\ Corrupt.key = None
    BY DEF Empty, Corrupt
  <2>4. cell[a] \in Sealed
    BY <1>2, <1>5, <2>1, <2>2, <2>3, Names
  <2>5. cell[a].value \in Typed /\ cell[a].value \in latest["file"][a]
    BY <1>1, <2>4 DEF InjInv, CellInv, Sealed
  <2>6. QED
    BY <1>2, <1>5, <2>1, <2>5 DEF a
<1>6. QED
  BY <1>2, <1>4, <1>5 DEF Backends

LEMMA StoresStay ==
  ASSUME InjInv, UNCHANGED <<storeVars, proc, latest, keys>>
  PROVE  Calls' /\ KeyInv' /\ SealedInv' /\ CellInv' /\ ChainInv'
<1>1. UNCHANGED <<keyFile, cell, keychain, proc, latest, keys>>
  BY DEF storeVars
<1>2. Calls'
  BY <1>1 DEF InjInv, Calls, At
<1>3. KeyInv'
  BY <1>1 DEF InjInv, KeyInv, At, Lone
<1>4. SealedInv' /\ ChainInv'
  BY <1>1 DEF InjInv, SealedInv, Lone, ChainInv
<1>5. CellInv'
  BY <1>1 DEF InjInv, CellInv, Writing, At
<1>6. QED
  BY <1>2, <1>3, <1>4, <1>5

\* No output yet.
LEMMA NoOutput ==
  ASSUME InjInv, run.pc # "stream", run'.held = {}, UNCHANGED redactVars
  PROVE  HeldInv' /\ RedactInv'
<1>1. RedactInv'
  BY RedactStep DEF InjInv
<1>2. Silent /\ secrets = {} /\ addedAt = <<>>
  BY DEF InjInv, HeldInv
<1>3. HeldInv'
  BY <1>2 DEF HeldInv, Silent, redactVars
<1>4. QED
  BY <1>1, <1>3

LEMMA StartRunStep ==
  ASSUME InjInv, UNCHANGED redactVars, NEW v \in External, StartRun(v)
  PROVE  InjInv'
<1>1. /\ run.pc = "idle" /\ run' = [NoRun EXCEPT !.pc = "resolve", !.given = With(@, "env", v)]
      /\ UNCHANGED <<storeVars, proc, project, latest, keys>>
  BY DEF StartRun
<1>2. /\ RunShape(run') /\ run'.pc = "resolve" /\ run'.todo = 1 /\ run'.handle = <<>> /\ run'.files = <<>>
      /\ run'.held = {} /\ run'.given = With(<<>>, "env", v)
  BY <1>1 DEF NoRun, RunShape
<1>3. Range(run'.given) \cup Range(run'.files) \cup run'.held \subseteq Values
  <2>1. Range(<<>>) = {}
    BY DEF Range
  <2>2. v \in Values
    BY InjectionAssumption
  <2>3. Range(With(<<>>, "env", v)) \subseteq Range(<<>>) \cup {v}
    BY WithOne, Zenon
  <2>4. QED
    BY <1>2, <2>1, <2>2, <2>3
<1>4. RunGood'
  <2>1. run'.todo \in 1 .. (Len(Order) + 1)
    BY <1>2, InjectionAssumption
  <2>2. \A r \in DOMAIN run'.handle : HandleGood(run'.handle[r], r)
    BY <1>2
  <2>3. QED
    BY <1>1, <1>2, <1>3, <2>1, <2>2 DEF InjInv, RunGood
<1>5. OpeningInv'
  <2>1. At(Runner, "idle")
    BY <1>1 DEF InjInv, OpeningInv, Resolving
  <2>2. QED
    BY <1>1, <2>1 DEF OpeningInv, At
<1>6. HeldInv' /\ RedactInv'
  BY <1>1, <1>2, NoOutput
<1>7. QED
  BY <1>1, <1>4, <1>5, <1>6, StoresStay DEF InjInv

LEMMA OpenStoreStep ==
  ASSUME InjInv, UNCHANGED redactVars, OpenStore
  PROVE  InjInv'
<1> DEFINE b == Backend(Declared[Wanted])
           c == [proc[Runner] EXCEPT !.pc = "open", !.backend = b]
<1>1. /\ Resolving /\ project.entries = None /\ Handle(Wanted) \notin DOMAIN run.handle /\ b # None
      /\ Steps(Runner, c)
      /\ UNCHANGED <<keyFile, cell, keychain, run, project, latest, keys>>
  BY DEF OpenStore, Steps, storeVars
<1>2. Runner \in Owners /\ Runner \notin Procs /\ proc[Runner] \in Call /\ proc \in [Owners -> Call]
  BY Names DEF InjInv, Calls, CallGood
<1>3. b \in Backends
  <2>1. b \in Backends \cup {None}
    BY DEF Backend, Backends
  <2> HIDE DEF b
  <2>2. QED
    BY <1>1, <2>1
<1> HIDE DEF b
<1>4. CallGood(c) /\ c.pc = "open" /\ c.key = proc[Runner].key /\ c.backend = b
  <2> DEFINE old == proc[Runner]
  <2>1. old \in Call
    BY <1>2
  <2>2. c = [old EXCEPT !.pc = "open", !.backend = b]
    OBVIOUS
  <2> HIDE DEF old, c
  <2>3. c \in Call /\ c.pc = "open" /\ c.key = old.key /\ c.backend = b
    BY <1>3, <2>1, <2>2 DEF Call
  <2>4. CallGood(c)
    BY <2>3 DEF CallGood
  <2>5. QED
    BY <2>3, <2>4 DEF old
<1> HIDE DEF c
<1>5. Calls'
  BY <1>1, <1>2, <1>4, CallMoves DEF InjInv
<1>6. CellInv'
  BY <1>1, <1>2, <1>4, CellsStay DEF InjInv, CellInv
<1>7. KeyInv'
  BY <1>1, <1>2, <1>4, KeysStay DEF InjInv
<1>8. OpeningInv'
  <2>1. proc'[Runner] = c
    BY <1>1, <1>2 DEF Steps
  <2>2. QED
    BY <1>1, <1>4, <2>1 DEF OpeningInv, Resolving, Wanted, Handle, At, b
<1>9. SealedInv' /\ ChainInv'
  BY <1>1, SealedStays DEF InjInv, ChainInv
<1>10. QED
  BY <1>1, <1>5, <1>6, <1>7, <1>8, <1>9, RunStays DEF InjInv

LEMMA StoreOpenedStep ==
  ASSUME InjInv, UNCHANGED redactVars, StoreOpened
  PROVE  InjInv'
<1> DEFINE h == [backend |-> proc[Runner].backend, key |-> proc[Runner].key]
           r == Handle(Wanted)
<1>1. /\ Resolving /\ proc[Runner].pc = "opened" /\ Done(Runner)
      /\ run' = [run EXCEPT !.handle = With(@, r, h)]
      /\ UNCHANGED <<keyFile, cell, keychain, project, latest, keys>>
  BY DEF StoreOpened, At, storeVars
<1>2. Runner \in Owners
  BY Names
<1>3. HandleGood(h, r)
  <2>1. CallGood(proc[Runner])
    BY <1>2 DEF InjInv, Calls
  <2>2. proc[Runner].backend = Backend(r)
    BY <1>1 DEF InjInv, OpeningInv, At, Handle
  <2>3. h.backend = proc[Runner].backend /\ h.key = proc[Runner].key
    OBVIOUS
  <2>4. QED
    BY <1>1, <2>1, <2>2, <2>3 DEF CallGood, HandleGood
<1> HIDE DEF h, r
<1>4. RunShape(run) /\ run.held = {} /\ run.pc = "resolve"
  BY <1>1 DEF InjInv, RunGood, HeldInv, Resolving
<1>5. /\ RunShape(run') /\ run'.pc = run.pc /\ run'.todo = run.todo /\ run'.given = run.given
      /\ run'.files = run.files /\ run'.held = run.held /\ run'.handle = With(run.handle, r, h)
  BY <1>1, <1>4 DEF RunShape
<1>6. RunGood'
  <2> DEFINE old == run.handle
             new == With(old, r, h)
  <2>1. DOMAIN new = DOMAIN old \cup {r} /\ new[r] = h /\ \A q \in DOMAIN old : q # r => new[q] = old[q]
    BY DEF With
  <2>2. \A q \in DOMAIN old : HandleGood(old[q], q)
    BY DEF InjInv, RunGood
  <2> HIDE DEF old, new
  <2>3. \A q \in DOMAIN new : HandleGood(new[q], q)
    BY <1>3, <2>1, <2>2
  <2>4. run'.handle = new
    BY <1>5 DEF old, new
  <2>5. \A q \in DOMAIN run'.handle : HandleGood(run'.handle[q], q)
    BY <2>3, <2>4
  <2>6. QED
    BY <1>1, <1>5, <2>5 DEF InjInv, RunGood
<1>7. Calls' /\ CellInv' /\ KeyInv' /\ SealedInv'
  BY <1>1, <1>2, CallEnds DEF InjInv, CellInv
<1>8. OpeningInv'
  <2>1. proc'[Runner] = Idle /\ Idle.pc = "idle"
    BY <1>1, <1>2 DEF Done, Idle, InjInv, Calls
  <2>2. QED
    BY <2>1 DEF OpeningInv, At
<1>9. ChainInv'
  BY <1>1 DEF InjInv, ChainInv
<1>10. HeldInv' /\ RedactInv'
  BY <1>4, <1>5, NoOutput
<1>11. QED
  BY <1>6, <1>7, <1>8, <1>9, <1>10 DEF InjInv

LEMMA ResolveAliasStep ==
  ASSUME InjInv, UNCHANGED redactVars, ResolveAlias
  PROVE  InjInv'
<1>1. /\ Resolving /\ Handle(Wanted) \in DOMAIN run.handle /\ Found # None
      /\ run' = [run EXCEPT !.given = With(@, project.targets[Wanted], Found), !.todo = @ + 1]
      /\ UNCHANGED <<storeVars, proc, project, latest, keys>>
  BY DEF ResolveAlias
<1>2. Found \in Values
  BY <1>1, FoundIsLatest, Names
<1>3. RunShape(run) /\ run.held = {} /\ run.pc = "resolve" /\ run.todo + 1 \in 1 .. (Len(Order) + 1)
  BY <1>1, WantedIsAlias DEF InjInv, RunGood, HeldInv, Resolving
<1> DEFINE f == Found
           w == project.targets[Wanted]
<1>4. /\ RunShape(run') /\ run'.pc = run.pc /\ run'.todo = run.todo + 1 /\ run'.given = With(run.given, w, f)
      /\ run'.files = run.files /\ run'.held = run.held /\ run'.handle = run.handle
  <2>1. run' = [run EXCEPT !.given = With(@, w, f), !.todo = @ + 1]
    BY <1>1
  <2> HIDE DEF f, w
  <2>2. QED
    BY <1>3, <2>1 DEF RunShape
<1> HIDE DEF f, w
<1>5. RunGood'
  <2>1. Range(With(run.given, w, f)) \subseteq Range(run.given) \cup {f}
    BY WithOne, Zenon
  <2>2. QED
    BY <1>1, <1>2, <1>3, <1>4, <2>1 DEF InjInv, RunGood, f
<1>6. OpeningInv'
  <2>1. At(Runner, "idle")
    BY <1>1 DEF InjInv, OpeningInv
  <2>2. QED
    BY <1>1, <2>1 DEF OpeningInv, At
<1>7. HeldInv' /\ RedactInv'
  BY <1>3, <1>4, NoOutput
<1>8. QED
  BY <1>1, <1>5, <1>6, <1>7, StoresStay DEF InjInv

LEMMA ResolveEntryStep ==
  ASSUME InjInv, UNCHANGED redactVars, ResolveEntry
  PROVE  InjInv'
<1> DEFINE w == Wanted
           v == project.entries[w].value
           t == project.targets[w]
<1>1. /\ Resolving /\ project.entries # None /\ Available(w)
      /\ \/ run' = [run EXCEPT !.given = With(@, t, v), !.todo = @ + 1]
         \/ run' = [run EXCEPT !.files = With(@, project.names[w], v), !.todo = @ + 1,
                               !.given = Without(@, t)]
      /\ UNCHANGED <<storeVars, proc, project, latest, keys>>
  BY DEF ResolveEntry
<1>2. v \in Values
  <2>1. w \in Aliases /\ project \in Projects /\ project.entries[w] # None
    BY <1>1, WantedIsAlias DEF InjInv, RunGood, Available
  <2>2. QED
    BY <1>1, <2>1, InjectionAssumption
<1>3. RunShape(run) /\ run.held = {} /\ run.pc = "resolve" /\ run.todo + 1 \in 1 .. (Len(Order) + 1)
  BY <1>1, WantedIsAlias DEF InjInv, RunGood, HeldInv, Resolving
<1> DEFINE n == project.names[w]
<1> HIDE DEF w, v, n, t
<1>4. /\ RunShape(run') /\ run'.pc = run.pc /\ run'.todo = run.todo + 1
      /\ run'.held = run.held /\ run'.handle = run.handle
      /\ Range(run'.given) \cup Range(run'.files) \subseteq Range(run.given) \cup Range(run.files) \cup {v}
  <2>1. CASE run' = [run EXCEPT !.given = With(@, t, v), !.todo = @ + 1]
    <3>1. /\ RunShape(run') /\ run'.pc = run.pc /\ run'.todo = run.todo + 1
          /\ run'.held = run.held /\ run'.handle = run.handle
          /\ run'.given = With(run.given, t, v) /\ run'.files = run.files
      BY <1>3, <2>1 DEF RunShape
    <3>2. Range(With(run.given, t, v)) \subseteq Range(run.given) \cup {v}
      BY WithOne, Zenon
    <3>3. QED
      BY <3>1, <3>2
  <2>2. CASE run' = [run EXCEPT !.files = With(@, n, v), !.todo = @ + 1, !.given = Without(@, t)]
    <3>1. /\ RunShape(run') /\ run'.pc = run.pc /\ run'.todo = run.todo + 1
          /\ run'.held = run.held /\ run'.handle = run.handle
          /\ run'.files = With(run.files, n, v) /\ run'.given = Without(run.given, t)
      BY <1>3, <2>2 DEF RunShape
    <3>2. Range(With(run.files, n, v)) \subseteq Range(run.files) \cup {v}
      BY WithOne, Zenon
    <3>3. Range(Without(run.given, t)) \subseteq Range(run.given)
      BY Zenon DEF Without, Restrict, Range
    <3>4. QED
      BY <3>1, <3>2, <3>3
  <2>3. QED
    BY <1>1, <2>1, <2>2 DEF n
<1>5. RunGood'
  BY <1>1, <1>2, <1>3, <1>4 DEF InjInv, RunGood
<1>6. OpeningInv'
  <2>1. At(Runner, "idle")
    BY <1>1 DEF InjInv, OpeningInv
  <2>2. QED
    BY <1>1, <2>1 DEF OpeningInv, At
<1>7. HeldInv' /\ RedactInv'
  BY <1>3, <1>4, NoOutput
<1>8. QED
  BY <1>1, <1>5, <1>6, <1>7, StoresStay DEF InjInv

LEMMA NoRunIsGood ==
  /\ RunShape(NoRun) /\ NoRun.pc = "idle" /\ NoRun.todo \in 1 .. (Len(Order) + 1)
  /\ NoRun.held = {} /\ NoRun.given = <<>> /\ NoRun.files = <<>>
  /\ Range(NoRun.given) \cup Range(NoRun.files) \cup NoRun.held \subseteq Values
  /\ \A r \in DOMAIN NoRun.handle : HandleGood(NoRun.handle[r], r)
<1>1. Len(Order) \in Nat
  BY InjectionAssumption
<1>2. QED
  BY <1>1 DEF NoRun, RunShape, Range

LEMMA RunFailsStep ==
  ASSUME InjInv, UNCHANGED redactVars, RunFails
  PROVE  InjInv'
<1>1. /\ run.pc = "resolve" /\ run' = NoRun /\ Done(Runner)
      /\ UNCHANGED <<keyFile, cell, keychain, project, latest, keys>>
  BY DEF RunFails, Resolving, storeVars
<1>2. Runner \in Owners
  BY Names
<1>3. Calls' /\ CellInv' /\ KeyInv' /\ SealedInv'
  BY <1>1, <1>2, CallEnds DEF InjInv, CellInv
<1>4. RunGood'
  BY <1>1, NoRunIsGood DEF InjInv, RunGood
<1>5. OpeningInv'
  <2>1. proc'[Runner] = Idle /\ Idle.pc = "idle"
    BY <1>1, <1>2 DEF Done, Idle, InjInv, Calls
  <2>2. QED
    BY <2>1 DEF OpeningInv, At
<1>6. ChainInv'
  BY <1>1 DEF InjInv, ChainInv
<1>7. HeldInv' /\ RedactInv'
  BY <1>1, NoRunIsGood, NoOutput
<1>8. QED
  BY <1>3, <1>4, <1>5, <1>6, <1>7 DEF InjInv

LEMMA StartStreamStep ==
  ASSUME InjInv, StartStream
  PROVE  InjInv'
<1> DEFINE held == Range(run.given) \cup Range(run.files)
<1>1. /\ run.pc = "resolve" /\ run' = [NoRun EXCEPT !.pc = "stream", !.held = held]
      /\ secrets' = Redactable /\ addedAt' = [s \in Redactable |-> 0]
      /\ UNCHANGED <<input, seen, out, written, dropped, closed>>
      /\ keyFile' = None /\ cell' = [a \in Aliases |-> None] /\ keychain' = [a \in Aliases |-> None]
      /\ proc' = [p \in DOMAIN proc |-> Idle] /\ keys' = {}
      /\ latest' = [b \in Backends |-> [a \in Aliases |-> {}]]
      /\ project' = CHOOSE p \in Projects : TRUE
  BY DEF StartStream, New
<1>2. held \subseteq Values /\ Redactable = {v \in held : Len(v) >= MinRedactable}
  BY DEF InjInv, RunGood, Redactable
<1>3. /\ RunShape(run') /\ run'.pc = "stream" /\ run'.todo = NoRun.todo /\ run'.given = NoRun.given
      /\ run'.files = NoRun.files /\ run'.held = held /\ run'.handle = NoRun.handle
  <2> HIDE DEF held
  <2>1. QED
    BY <1>1 DEF RunShape, NoRun
<1> HIDE DEF held
<1>4. proc' = [p \in Owners |-> Idle] /\ Idle.pc = "idle" /\ Idle.key = None
  BY <1>1 DEF InjInv, Calls, Idle
<1>5. Calls'
  BY <1>4, IdleIsGood, Names DEF Calls, CallGood, At
<1>6. KeyInv' /\ SealedInv'
  <2>1. KeyInv'
    BY <1>1, <1>4, Names, FS_EmptySet DEF KeyInv, At, Lone
  <2>2. SealedInv'
    BY <1>1, Names DEF SealedInv
  <2>3. QED
    BY <2>1, <2>2
<1>7. CellInv' /\ ChainInv'
  <2>1. ASSUME NEW a \in Aliases, NEW p \in Writing(a)' PROVE FALSE
    BY <1>4, <2>1, Names DEF Writing, At
  <2>2. QED
    BY <1>1, <2>1, Names DEF CellInv, ChainInv, Backends
<1>8. RunGood'
  <2>1. project' \in Projects
    BY <1>1, InjectionAssumption
  <2>2. Range(run'.given) \cup Range(run'.files) \cup run'.held \subseteq Values
    BY <1>2, <1>3, NoRunIsGood
  <2>3. QED
    BY <1>3, <2>1, <2>2, NoRunIsGood DEF RunGood
<1>9. OpeningInv'
  <2>1. proc'[Runner] = Idle
    BY <1>4, Names
  <2>2. QED
    BY <1>4, <2>1 DEF OpeningInv, At
<1>10. HeldInv'
  BY <1>1, <1>2, <1>3 DEF HeldInv
<1>11. RedactInv'
  <2>1. Silent'
    BY <1>1 DEF InjInv, HeldInv, Silent
  <2>2. secrets' \in SUBSET Values /\ addedAt' = [s \in secrets' |-> 0]
    BY <1>1, <1>2
  <2>3. (Silent /\ secrets \in SUBSET Values /\ addedAt = [s \in secrets |-> 0] => RedactInv)'
    BY SilentIsGood, PTL
  <2>4. QED
    BY <2>1, <2>2, <2>3
<1>12. QED
  BY <1>5, <1>6, <1>7, <1>8, <1>9, <1>10, <1>11 DEF InjInv

LEMMA StreamStep ==
  ASSUME InjInv, RedactNext, run.pc = "stream", UNCHANGED injVars
  PROVE  InjInv'
<1>1. UNCHANGED <<storeVars, proc, run, project, latest, keys>>
  BY DEF injVars
<1>2. RedactInv'
  BY RedactStep DEF InjInv
<1>3. RunGood' /\ OpeningInv'
  BY <1>1 DEF InjInv, RunGood, RunShape, HandleGood, OpeningInv, Resolving, Wanted, Handle, At
<1>4. HeldInv'
  <2>1. secrets \subseteq secrets' /\ \A v \in secrets : addedAt'[v] = addedAt[v]
    <3>1. CASE UNCHANGED <<secrets, addedAt>>
      BY <3>1
    <3>2. ASSUME NEW s \in Late, AddSecret(s)
          PROVE  secrets \subseteq secrets' /\ \A v \in secrets : addedAt'[v] = addedAt[v]
      BY <3>2 DEF AddSecret
    <3>3. QED
      BY <3>1, <3>2 DEF RedactNext, Write, Flush
  <2>2. QED
    BY <1>1, <2>1 DEF InjInv, HeldInv
<1>5. QED
  BY <1>1, <1>2, <1>3, <1>4, StoresStay DEF InjInv

LEMMA StutterStep ==
  ASSUME InjInv, UNCHANGED <<injVars, redactVars>>
  PROVE  InjInv'
<1>1. UNCHANGED <<storeVars, proc, run, project, latest, keys>> /\ UNCHANGED redactVars
  BY DEF injVars
<1>2. OpeningInv'
  BY <1>1 DEF InjInv, OpeningInv, Resolving, Wanted, Handle, At
<1>3. QED
  BY <1>1, <1>2, StoresStay, RunStays DEF InjInv

LEMMA InjStep == InjInv /\ [InjNext]_<<injVars, redactVars>> => InjInv'
<1> SUFFICES ASSUME InjInv, InjNext PROVE InjInv'
  BY StutterStep
<1>1. CASE run.pc # "stream" /\ UNCHANGED redactVars /\ \E p \in Procs : Command(p)
  <2> PICK p \in Procs : Command(p)
    BY <1>1
  <2>1. ASSUME NEW op \in {"set", "rotate", "delete", "status"}, NEW a \in Aliases,
               NEW flag \in {"auto", "keychain", "envfile"}, StartCommand(p, op, a, flag)
        PROVE  InjInv'
    BY <1>1, <2>1, StartStep DEF Ops
  <2>2. ASSUME NEW v \in Typed, SetKeychain(p, v) \/ OpenCell(p, v) PROVE InjInv'
    BY <1>1, <2>2, SetKeychainStep, OpenCellStep
  <2>3. CASE WriteCell(p)
    BY <1>1, <2>3, WriteCellStep
  <2>4. CASE DeleteValue(p)
    BY <1>1, <2>4, DeleteValueStep
  <2>5. CASE EndCommand(p) \/ Killed(p)
    BY <1>1, <2>5, EndStep
  <2>6. QED
    BY <2>1, <2>2, <2>3, <2>4, <2>5 DEF Command
<1>2. CASE UNCHANGED redactVars /\ \E p \in DOMAIN proc : Opening(p)
  <2> PICK p \in Owners : Opening(p)
    BY <1>2 DEF InjInv, Calls
  <2>1. QED
    BY <1>2, ReadKeyStep, TruncateKeyStep, WriteKeyStep DEF Opening
<1>3. CASE UNCHANGED redactVars /\ Resolution
  BY <1>3, StartRunStep, OpenStoreStep, StoreOpenedStep, ResolveAliasStep, ResolveEntryStep, RunFailsStep
     DEF Resolution
<1>4. CASE StartStream
  BY <1>4, StartStreamStep
<1>5. CASE run.pc = "stream" /\ RedactNext /\ UNCHANGED injVars
  BY <1>5, StreamStep
<1>6. QED
  BY <1>1, <1>2, <1>3, <1>4, <1>5 DEF InjNext

LEMMA InjHolds == InjSpec => []InjInv
BY InjStarts, InjStep, PTL DEF InjSpec

-----------------------------------------------------------------------------
\* Whoever is killed in between, what `secrets set` has stored in the local store is what a
\* run finds until it is replaced or deleted: newFileStore and Set of store.go.
THEOREM StoredIsFound == InjSpec => []StoresHold
<1>1. InjInv => StoresHold
  <2> SUFFICES ASSUME InjInv PROVE StoresHold
    OBVIOUS
  <2>1. RedactTypeOK
    BY DEF InjInv, RedactInv
  <2>2. InjTypeOK
    <3>1. Sealed \subseteq [key : DOMAIN proc, value : Values] /\ Typed \subseteq Values
      BY Names DEF Sealed, InjInv, Calls
    <3>2. keyFile \in {None, "empty"} \cup DOMAIN proc
      BY DEF InjInv, KeyInv, Calls
    <3>3. QED
      BY <3>1, <3>2 DEF InjTypeOK, InjInv, CellInv, ChainInv, RunGood
  <2>3. StoredIsReadable
    <3> SUFFICES ASSUME Cardinality(keys) <= 1, NEW a \in Aliases, NEW v \in Typed,
                        latest["file"][a] = {v}
                 PROVE  keyFile \in DOMAIN proc /\ cell[a] = [key |-> keyFile, value |-> v]
      BY DEF StoredIsReadable
    <3>1. Lone
      <4>1. IsFiniteSet(keys)
        BY DEF InjInv, KeyInv
      <4>2. Cardinality(keys) = 0 \/ Cardinality(keys) = 1
        BY <4>1, FS_CardinalityType
      <4>3. CASE Cardinality(keys) = 0
        BY <4>1, <4>3, FS_EmptySet DEF Lone
      <4>4. CASE Cardinality(keys) = 1
        BY <4>1, <4>4, FS_Singleton DEF Lone
      <4>5. QED
        BY <4>2, <4>3, <4>4
    <3>2. cell[a] \in Sealed /\ cell[a].value = v
      BY DEF InjInv, CellInv
    <3>3. cell[a].key \in Owners /\ keyFile = cell[a].key
      BY <3>1, <3>2 DEF InjInv, SealedInv, Sealed
    <3>4. cell[a] = [key |-> cell[a].key, value |-> cell[a].value]
      BY <3>2 DEF Sealed
    <3>5. QED
      BY <3>2, <3>3, <3>4 DEF InjInv, Calls
  <2>4. QED
    BY <2>1, <2>2, <2>3 DEF StoresHold
<1>2. QED
  BY <1>1, InjHolds, PTL

\* The output does not depend on how it was cut into chunks, and Truncated is reported
\* exactly when bytes were dropped: scan and capWriter.
THEOREM OutputIsOnePass == InjSpec => []ChunkingIsInvisible
<1>1. InjInv => ChunkingIsInvisible
  BY InvisibleChunks DEF InjInv
<1>2. QED
  BY <1>1, InjHolds, PTL

\* Every value that the command holds, and is not too short, is registered before it starts
\* and never written on: resolve and Redactables of runner.go.
THEOREM SecretsStayIn == InjSpec => []NoSecretLeaves
<1>1. InjInv => NoSecretLeaves
  BY CleanOutput DEF InjInv, HeldInv, NoSecretLeaves
<1>2. QED
  BY <1>1, InjHolds, PTL

\* A run takes each alias from the store that its own declaration names, and the value that
\* was set there last: storeFor and Resolve.
THEOREM EachItsOwn == InjSpec => RunsGetTheirOwn
<1> DEFINE Own == project.entries = None /\ run'.todo > run.todo
                    => run'.given[project.targets[Wanted]] \in latest[Backend(Declared[Wanted])][Wanted]
<1>1. ASSUME InjInv, InjNext PROVE Own
  <2> SUFFICES ASSUME project.entries = None, run'.todo > run.todo PROVE Own
    OBVIOUS
  <2>1. run.todo \in Nat /\ run.todo >= 1 /\ RunShape(run) /\ NoRun.todo = 1
    BY <1>1, LenProperties DEF InjInv, RunGood, NoRun
  <2>2. ASSUME run'.todo = run.todo \/ run'.todo = 1 PROVE FALSE
    BY <2>1, <2>2
  <2>3. CASE ResolveAlias
    <3> DEFINE w == project.targets[Wanted]
               f == Found
               old == run.given
    <3>1. /\ Resolving /\ Handle(Wanted) \in DOMAIN run.handle /\ f # None
          /\ run' = [run EXCEPT !.given = With(@, w, f), !.todo = @ + 1]
      BY <2>3 DEF ResolveAlias
    <3>2. f \in latest[Backend(Declared[Wanted])][Wanted]
      BY <1>1, <3>1, FoundIsLatest
    <3> HIDE DEF w, f
    <3>3. run'.given = With(old, w, f)
      BY <2>1, <3>1 DEF RunShape
    <3> HIDE DEF old
    <3>4. With(old, w, f)[w] = f
      BY DEF With
    <3>5. QED
      BY <3>2, <3>3, <3>4 DEF w
  <2>4. CASE StartStream \/ RunFails \/ \E v \in External : StartRun(v)
    <3>1. \E pc, given, held : run' = NoRun \/ run' = [NoRun EXCEPT !.pc = pc, !.given = given]
                              \/ run' = [NoRun EXCEPT !.pc = pc, !.held = held]
      BY <2>4 DEF StartStream, RunFails, StartRun
    <3>2. run'.todo = NoRun.todo
      BY <3>1 DEF NoRun
    <3>3. QED
      BY <2>1, <2>2, <3>2
  <2>5. CASE StoreOpened
    <3>1. run'.todo = run.todo
      BY <2>1, <2>5 DEF StoreOpened, RunShape
    <3>2. QED
      BY <2>2, <3>1
  <2>6. ASSUME NEW p, Command(p) \/ Opening(p) PROVE run' = run
    BY <2>6 DEF Command, StartCommand, SetKeychain, OpenCell, WriteCell, DeleteValue, EndCommand,
                Killed, Opening, ReadKey, TruncateKey, WriteKey
  <2>7. CASE Resolution
    <3>1. ASSUME OpenStore PROVE run' = run
      BY <3>1 DEF OpenStore
    <3>2. ~ResolveEntry
      BY DEF ResolveEntry
    <3>3. QED
      BY <2>2, <2>3, <2>4, <2>5, <2>7, <3>1, <3>2 DEF Resolution
  <2>8. QED
    BY <1>1, <2>2, <2>4, <2>6, <2>7 DEF InjNext, injVars
<1>2. InjInv /\ [InjNext]_<<injVars, redactVars>> => [Own]_injVars
  BY <1>1
<1>3. QED
  BY <1>2, InjHolds, PTL DEF InjSpec, RunsGetTheirOwn

===============================================================================
