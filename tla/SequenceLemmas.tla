----------------------------- MODULE SequenceLemmas ----------------------------
(***************************************************************************)
(* The elements of a sequence after an element is put in or taken out, and *)
(* their number when no element occurs twice.                              *)
(***************************************************************************)
EXTENDS Integers, Sequences, FiniteSets, Functions, FiniteSetTheorems, SequenceTheorems, TLAPS

LEMMA RangeOfEmpty == Range(<<>>) = {} /\ IsInjective(<<>>)
BY DEF Range, IsInjective

LEMMA RangeOfTail ==
  ASSUME NEW S, NEW q \in Seq(S), q # <<>>, IsInjective(q)
  PROVE  /\ Head(q) \in Range(q)
         /\ Range(Tail(q)) = Range(q) \ {Head(q)}
         /\ IsInjective(Tail(q))
<1> DEFINE t == Tail(q)
           n == Len(q)
<1>1. /\ n \in Nat \ {0} /\ DOMAIN q = 1 .. n
      /\ t \in Seq(S) /\ Len(t) = n - 1
      /\ \A i \in 1 .. Len(t) : t[i] = q[i + 1]
  BY EmptySeq, LenProperties, HeadTailProperties
<1>2. DOMAIN t = 1 .. n - 1
  BY <1>1, LenProperties
<1>3. Head(q) = q[1]
  OBVIOUS
<1> HIDE DEF t, n
<1>4. Head(q) \in Range(q)
  BY <1>1, <1>3 DEF Range
<1>5. \A i \in 1 .. n - 1 : t[i] = q[i + 1] /\ i + 1 \in 1 .. n
  BY <1>1
<1>6. Range(t) = Range(q) \ {Head(q)}
  <2>1. ASSUME NEW x \in Range(t) PROVE x \in Range(q) \ {Head(q)}
    <3>1. PICK i \in 1 .. n - 1 : x = t[i]
      BY <1>2 DEF Range
    <3>2. x = q[i + 1] /\ i + 1 \in DOMAIN q /\ 1 \in DOMAIN q /\ i + 1 # 1
      BY <1>1, <1>5, <3>1
    <3>3. QED BY <3>2, <1>3 DEF Range, IsInjective
  <2>2. ASSUME NEW x \in Range(q), x # Head(q) PROVE x \in Range(t)
    <3>1. PICK i \in 1 .. n : x = q[i]
      BY <1>1 DEF Range
    <3>2. i # 1
      BY <1>3, <2>2, <3>1
    <3>3. i - 1 \in 1 .. n - 1 /\ t[i - 1] = q[i]
      BY <1>1, <1>5, <3>2
    <3>4. QED BY <1>2, <3>1, <3>3 DEF Range
  <2>3. QED BY <2>1, <2>2
<1>7. IsInjective(t)
  <2>1. SUFFICES ASSUME NEW i \in 1 .. n - 1, NEW k \in 1 .. n - 1, t[i] = t[k]
                 PROVE  i = k
    BY <1>2 DEF IsInjective
  <2>2. q[i + 1] = q[k + 1] /\ i + 1 \in DOMAIN q /\ k + 1 \in DOMAIN q
    BY <1>1, <1>5, <2>1
  <2>3. i + 1 = k + 1
    BY <2>2 DEF IsInjective
  <2>4. QED BY <2>3
<1>8. QED BY <1>4, <1>6, <1>7 DEF t

LEMMA RangeOfAppend ==
  ASSUME NEW S, NEW q \in Seq(S), NEW e \in S
  PROVE  /\ Range(Append(q, e)) = Range(q) \cup {e}
         /\ IsInjective(q) /\ e \notin Range(q) => IsInjective(Append(q, e))
<1> DEFINE a == Append(q, e)
           n == Len(q)
<1>1. /\ n \in Nat /\ DOMAIN q = 1 .. n
      /\ a \in Seq(S) /\ Len(a) = n + 1
      /\ \A i \in 1 .. n : a[i] = q[i]
      /\ a[n + 1] = e
  BY LenProperties, AppendProperties
<1>2. DOMAIN a = 1 .. n + 1
  BY <1>1, LenProperties
<1> HIDE DEF a, n
<1>3. 1 .. n + 1 = (1 .. n) \cup {n + 1} /\ n + 1 \notin 1 .. n
  BY <1>1
<1>4. Range(a) = Range(q) \cup {e}
  BY <1>1, <1>2, <1>3 DEF Range
<1>5. ASSUME IsInjective(q), e \notin Range(q) PROVE IsInjective(a)
  <2>1. SUFFICES ASSUME NEW i \in 1 .. n + 1, NEW k \in 1 .. n + 1, a[i] = a[k]
                 PROVE  i = k
    BY <1>2 DEF IsInjective
  <2>2. \A m \in 1 .. n : q[m] # e
    BY <1>1, <1>5 DEF Range
  <2>3. CASE i \in 1 .. n /\ k \in 1 .. n
    BY <1>1, <1>5, <2>1, <2>3 DEF IsInjective
  <2>4. CASE i = n + 1 \/ k = n + 1
    BY <1>1, <1>3, <2>1, <2>2, <2>4
  <2>5. QED BY <1>3, <2>3, <2>4
<1>6. QED BY <1>4, <1>5 DEF a

LEMMA RangeOfCons ==
  ASSUME NEW S, NEW q \in Seq(S), NEW e \in S
  PROVE  /\ <<e>> \o q \in Seq(S)
         /\ Len(<<e>> \o q) = Len(q) + 1
         /\ (<<e>> \o q)[1] = e
         /\ \A i \in 1 .. Len(q) : (<<e>> \o q)[i + 1] = q[i]
         /\ Range(<<e>> \o q) = {e} \cup Range(q)
         /\ IsInjective(q) /\ e \notin Range(q) => IsInjective(<<e>> \o q)
<1> DEFINE c == <<e>> \o q
           n == Len(q)
<1>1. <<e>> \in Seq(S) /\ Len(<<e>>) = 1 /\ <<e>>[1] = e
  OBVIOUS
<1>2. /\ n \in Nat /\ DOMAIN q = 1 .. n
      /\ c \in Seq(S) /\ Len(c) = n + 1
      /\ \A i \in 1 .. n + 1 : c[i] = IF i <= 1 THEN e ELSE q[i - 1]
  BY <1>1, LenProperties, ConcatProperties
<1>3. DOMAIN c = 1 .. n + 1
  BY <1>2, LenProperties
<1> HIDE DEF c, n
<1>4. c[1] = e
  BY <1>2
<1>5. ASSUME NEW i \in 1 .. n PROVE c[i + 1] = q[i] /\ i + 1 \in 1 .. n + 1
  BY <1>2
<1>6. ASSUME NEW i \in 1 .. n + 1, i # 1 PROVE i - 1 \in 1 .. n /\ c[i] = q[i - 1]
  BY <1>2, <1>6
<1>7. Range(c) = {e} \cup Range(q)
  <2>1. ASSUME NEW x \in Range(c) PROVE x \in {e} \cup Range(q)
    <3>1. PICK i \in 1 .. n + 1 : x = c[i]
      BY <1>3 DEF Range
    <3>2. QED BY <1>2, <1>4, <1>6, <3>1 DEF Range
  <2>2. ASSUME NEW x \in Range(q) PROVE x \in Range(c)
    <3>1. PICK i \in 1 .. n : x = q[i]
      BY <1>2 DEF Range
    <3>2. QED BY <1>3, <1>5, <3>1 DEF Range
  <2>3. e \in Range(c)
    BY <1>2, <1>3, <1>4 DEF Range
  <2>4. QED BY <2>1, <2>2, <2>3
<1>8. ASSUME IsInjective(q), e \notin Range(q) PROVE IsInjective(c)
  <2>1. SUFFICES ASSUME NEW i \in 1 .. n + 1, NEW k \in 1 .. n + 1, c[i] = c[k]
                 PROVE  i = k
    BY <1>3 DEF IsInjective
  <2>2. \A m \in 1 .. n : q[m] # e
    BY <1>2, <1>8 DEF Range
  <2>3. CASE i # 1 /\ k # 1
    <3>1. i - 1 \in DOMAIN q /\ k - 1 \in DOMAIN q /\ q[i - 1] = q[k - 1]
      BY <1>2, <1>6, <2>1, <2>3
    <3>2. i - 1 = k - 1
      BY <1>8, <3>1 DEF IsInjective
    <3>3. QED BY <3>2
  <2>4. CASE i = 1 \/ k = 1
    BY <1>4, <1>6, <2>1, <2>2, <2>4
  <2>5. QED BY <2>3, <2>4
<1>9. QED BY <1>2, <1>4, <1>5, <1>7, <1>8 DEF c, n

(* As many elements as places, if no element occurs twice.                 *)
LEMMA RangeCardinality ==
  ASSUME NEW S, NEW q \in Seq(S), IsInjective(q)
  PROVE  IsFiniteSet(Range(q)) /\ Cardinality(Range(q)) = Len(q)
<1>1. Len(q) \in Nat /\ DOMAIN q = 1 .. Len(q) /\ q \in [1 .. Len(q) -> S]
  BY LenProperties
<1>2. IsFiniteSet(1 .. Len(q)) /\ Cardinality(1 .. Len(q)) = Len(q)
  BY <1>1, FS_Interval
<1>3. q \in Bijection(1 .. Len(q), Range(q))
  BY <1>1 DEF Bijection, Injection, Surjection, IsInjective, Range
<1>4. QED BY <1>2, <1>3, FS_Bijection DEF ExistsBijection

================================================================================
