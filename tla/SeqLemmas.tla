----------------------------- MODULE SeqLemmas -----------------------------
(***************************************************************************)
(* What the operators on sequences and sets the models are built from      *)
(* return: splice, push, shift and the like as RemoveAt, InsertAt, Append  *)
(* and Tail, what is left of a queue as a suffix, the elements of a set in *)
(* some order, the greatest of some numbers.  The proof modules cite them. *)
(***************************************************************************)
EXTENDS Integers, SequencesExt, SequenceTheorems, FiniteSetTheorems,
        WellFoundedInduction, TLAPS

\* RemoveAt drops one element and keeps the order of the others: the splice
\* calls of the source.
LEMMA RemoveAtLemma ==
    ASSUME NEW S, NEW s \in Seq(S), NEW k \in 1 .. Len(s)
    PROVE  /\ RemoveAt(s, k) \in Seq(S)
           /\ Len(RemoveAt(s, k)) = Len(s) - 1
           /\ \A i \in 1 .. Len(s) - 1 :
                 RemoveAt(s, k)[i] = IF i < k THEN s[i] ELSE s[i + 1]
<1> DEFINE before == SubSeq(s, 1, k - 1)
           after == SubSeq(s, k + 1, Len(s))
<1>1. Len(s) \in Nat /\ \A i \in 1 .. Len(s) : s[i] \in S
  BY LenProperties, ElementOfSeq
<1>2. /\ before \in Seq(S)
      /\ Len(before) = k - 1
      /\ \A i \in 1 .. k - 1 : before[i] = s[i]
  <2>1. \A i \in 1 .. k - 1 : s[i] \in S
    BY <1>1
  <2>2. 1 \in Int /\ k - 1 \in Int
    BY <1>1
  <2>. QED
    BY <2>1, <2>2, <1>1, SubSeqProperties
<1>3. /\ after \in Seq(S)
      /\ Len(after) = Len(s) - k
      /\ \A i \in 1 .. Len(s) - k : after[i] = s[k + i]
  <2>1. \A i \in k + 1 .. Len(s) : s[i] \in S
    BY <1>1
  <2>2. k + 1 \in Int /\ Len(s) \in Int
    BY <1>1
  <2>3. /\ SubSeq(s, k + 1, Len(s)) \in Seq(S)
        /\ Len(SubSeq(s, k + 1, Len(s))) =
              IF k + 1 <= Len(s) THEN Len(s) - (k + 1) + 1 ELSE 0
        /\ \A i \in 1 .. Len(s) - (k + 1) + 1 :
              SubSeq(s, k + 1, Len(s))[i] = s[(k + 1) + i - 1]
    BY <2>1, <2>2, SubSeqProperties
  <2>. QED
    BY <2>3, <1>1
<1>4. /\ before \o after \in Seq(S)
      /\ Len(before \o after) = Len(before) + Len(after)
      /\ \A i \in 1 .. Len(before) + Len(after) : (before \o after)[i] =
            IF i <= Len(before) THEN before[i] ELSE after[i - Len(before)]
  BY <1>2, <1>3, ConcatProperties
<1>5. RemoveAt(s, k) = before \o after
  BY DEF RemoveAt
<1>. HIDE DEF before, after
<1>. QED
  BY SMTT(30), <1>1, <1>2, <1>3, <1>4, <1>5

\* InsertAt puts one element in and keeps the order of the others.
LEMMA InsertAtLemma ==
    ASSUME NEW S, NEW s \in Seq(S), NEW k \in 1 .. Len(s) + 1, NEW e \in S
    PROVE  /\ InsertAt(s, k, e) \in Seq(S)
           /\ Len(InsertAt(s, k, e)) = Len(s) + 1
           /\ \A i \in 1 .. Len(s) + 1 :
                 InsertAt(s, k, e)[i] = IF i < k THEN s[i]
                                        ELSE IF i = k THEN e ELSE s[i - 1]
<1> DEFINE before == SubSeq(s, 1, k - 1)
           after == SubSeq(s, k, Len(s))
<1>1. Len(s) \in Nat /\ \A i \in 1 .. Len(s) : s[i] \in S
  BY LenProperties, ElementOfSeq
<1>2. /\ before \in Seq(S)
      /\ Len(before) = k - 1
      /\ \A i \in 1 .. k - 1 : before[i] = s[i]
  <2>1. \A i \in 1 .. k - 1 : s[i] \in S
    BY <1>1
  <2>2. 1 \in Int /\ k - 1 \in Int
    BY <1>1
  <2>. QED
    BY <2>1, <2>2, <1>1, SubSeqProperties
<1>3. /\ after \in Seq(S)
      /\ Len(after) = Len(s) - k + 1
      /\ \A i \in 1 .. Len(s) - k + 1 : after[i] = s[k + i - 1]
  <2>1. \A i \in k .. Len(s) : s[i] \in S
    BY <1>1
  <2>2. k \in Int /\ Len(s) \in Int
    BY <1>1
  <2>3. /\ SubSeq(s, k, Len(s)) \in Seq(S)
        /\ Len(SubSeq(s, k, Len(s))) = IF k <= Len(s) THEN Len(s) - k + 1 ELSE 0
        /\ \A i \in 1 .. Len(s) - k + 1 : SubSeq(s, k, Len(s))[i] = s[k + i - 1]
    BY <2>1, <2>2, SubSeqProperties
  <2>. QED
    BY <2>3, <1>1
<1>4. <<e>> \in Seq(S) /\ Len(<<e>>) = 1 /\ <<e>>[1] = e
  OBVIOUS
<1>5. /\ before \o <<e>> \in Seq(S)
      /\ Len(before \o <<e>>) = Len(before) + Len(<<e>>)
      /\ \A i \in 1 .. Len(before) + Len(<<e>>) : (before \o <<e>>)[i] =
            IF i <= Len(before) THEN before[i] ELSE <<e>>[i - Len(before)]
  BY <1>2, <1>4, ConcatProperties
<1> DEFINE front == before \o <<e>>
<1>6. /\ front \o after \in Seq(S)
      /\ Len(front \o after) = Len(front) + Len(after)
      /\ \A i \in 1 .. Len(front) + Len(after) : (front \o after)[i] =
            IF i <= Len(front) THEN front[i] ELSE after[i - Len(front)]
  <2>1. front \in Seq(S) /\ after \in Seq(S)
    BY <1>3, <1>5
  <2>. HIDE DEF front, after
  <2>. QED
    BY <2>1, ConcatProperties
<1>7. /\ Len(front) = k
      /\ \A i \in 1 .. k : front[i] = IF i < k THEN s[i] ELSE e
  <2>. HIDE DEF before, after
  <2>. QED
    BY <1>1, <1>2, <1>4, <1>5
<1>8. InsertAt(s, k, e) = front \o after
  BY DEF InsertAt
<1>. HIDE DEF before, after, front
<1>. QED
  BY <1>1, <1>3, <1>6, <1>7, <1>8

\* push() and shift() on an array, as what they do to its elements.
LEMMA AppendFacts ==
    ASSUME NEW S, NEW s \in Seq(S), NEW e \in S
    PROVE  /\ Append(s, e) \in Seq(S)
           /\ Len(s) \in Nat /\ Len(Append(s, e)) = Len(s) + 1
           /\ DOMAIN Append(s, e) = 1 .. Len(s) + 1
           /\ \A i \in 1 .. Len(s) : Append(s, e)[i] = s[i]
           /\ Append(s, e)[Len(s) + 1] = e
           /\ Range(Append(s, e)) = Range(s) \cup {e}
<1>1. /\ Append(s, e) \in Seq(S)
      /\ Len(s) \in Nat /\ Len(Append(s, e)) = Len(s) + 1
      /\ DOMAIN s = 1 .. Len(s)
      /\ DOMAIN Append(s, e) = 1 .. Len(s) + 1
      /\ \A i \in 1 .. Len(s) : Append(s, e)[i] = s[i]
      /\ Append(s, e)[Len(s) + 1] = e
  BY AppendProperties, LenProperties
<1>2. Range(Append(s, e)) = Range(s) \cup {e}
  BY <1>1 DEF Range
<1>. QED
  BY <1>1, <1>2

\* What shift() takes and what it leaves.
LEMMA TailFacts ==
    ASSUME NEW S, NEW s \in Seq(S), s # <<>>
    PROVE  /\ Head(s) \in S /\ Tail(s) \in Seq(S)
           /\ Len(s) \in Nat /\ Len(s) > 0 /\ Len(Tail(s)) = Len(s) - 1
           /\ DOMAIN s = 1 .. Len(s) /\ DOMAIN Tail(s) = 1 .. Len(s) - 1
           /\ Head(s) = s[1]
           /\ \A i \in 1 .. Len(s) - 1 : Tail(s)[i] = s[i + 1]
           /\ Head(s) \in Range(s) /\ Range(Tail(s)) \subseteq Range(s)
           /\ Range(s) = Range(Tail(s)) \cup {Head(s)}
<1>1. /\ Head(s) \in S /\ Tail(s) \in Seq(S)
      /\ Len(s) \in Nat /\ Len(s) > 0 /\ Len(Tail(s)) = Len(s) - 1
      /\ DOMAIN s = 1 .. Len(s) /\ DOMAIN Tail(s) = 1 .. Len(s) - 1
      /\ Head(s) = s[1]
      /\ \A i \in 1 .. Len(s) - 1 : Tail(s)[i] = s[i + 1]
  BY HeadTailProperties, LenProperties, EmptySeq
<1>2. Head(s) \in Range(s) /\ Range(Tail(s)) \subseteq Range(s)
  BY <1>1 DEF Range
<1>3. Range(s) \subseteq Range(Tail(s)) \cup {Head(s)}
  <2> SUFFICES ASSUME NEW i \in 1 .. Len(s)
               PROVE  s[i] \in Range(Tail(s)) \cup {Head(s)}
    BY <1>1 DEF Range
  <2>1. CASE i = 1
    BY <1>1, <2>1
  <2>2. CASE i > 1
    <3>1. i - 1 \in 1 .. Len(s) - 1 /\ s[i] = Tail(s)[i - 1]
      BY <1>1, <2>2
    <3>. QED
      BY <1>1, <3>1 DEF Range
  <2>. QED
    BY <1>1, <2>1, <2>2
<1>. QED
  BY <1>1, <1>2, <1>3

\* Reverse() and the beginning of a sequence, element by element.
LEMMA ReverseFacts ==
    ASSUME NEW S, NEW s \in Seq(S)
    PROVE  /\ Reverse(s) \in Seq(S) /\ Len(Reverse(s)) = Len(s)
           /\ \A i \in 1 .. Len(s) : Reverse(s)[i] = s[Len(s) - i + 1]
<1>1. Len(s) \in Nat /\ \A i \in 1 .. Len(s) : s[i] \in S
  BY LenProperties, ElementOfSeq
<1>2. \A i \in 1 .. Len(s) : (Len(s) - i) + 1 \in 1 .. Len(s)
  BY <1>1
<1>3. Reverse(s) = [i \in 1 .. Len(s) |-> s[(Len(s) - i) + 1]]
  BY DEF Reverse
<1>4. Reverse(s) \in [1 .. Len(s) -> S]
  BY <1>1, <1>2, <1>3
<1>. QED
  BY <1>1, <1>3, <1>4, IsASeq, LenProperties

\* slice(0, n): the first n elements.
LEMMA FrontFacts ==
    ASSUME NEW S, NEW s \in Seq(S), NEW n \in 0 .. Len(s)
    PROVE  /\ SubSeq(s, 1, n) \in Seq(S) /\ Len(SubSeq(s, 1, n)) = n
           /\ \A i \in 1 .. n : SubSeq(s, 1, n)[i] = s[i]
<1>1. Len(s) \in Nat /\ \A i \in 1 .. Len(s) : s[i] \in S
  BY LenProperties, ElementOfSeq
<1>2. 1 \in Int /\ n \in Int /\ \A i \in 1 .. n : s[i] \in S
  BY <1>1
<1>3. /\ SubSeq(s, 1, n) \in Seq(S)
      /\ Len(SubSeq(s, 1, n)) = IF 1 <= n THEN n - 1 + 1 ELSE 0
      /\ \A i \in 1 .. n - 1 + 1 : SubSeq(s, 1, n)[i] = s[1 + i - 1]
  BY <1>2, SubSeqProperties
<1>. QED
  BY <1>1, <1>3

\* A suffix is the other sequence from some position on.
LEMMA SuffixForm ==
    ASSUME NEW S, NEW s \in Seq(S), NEW t \in Seq(S)
    PROVE  IsSuffix(s, t) <=>
              /\ Len(s) <= Len(t)
              /\ \A i \in 1 .. Len(s) : s[i] = t[Len(t) - Len(s) + i]
<1>1. Len(s) \in Nat /\ Len(t) \in Nat
  BY LenProperties
<1>2. /\ Reverse(s) \in Seq(S) /\ Len(Reverse(s)) = Len(s)
      /\ \A i \in 1 .. Len(s) : Reverse(s)[i] = s[Len(s) - i + 1]
  BY ReverseFacts
<1>3. /\ Reverse(t) \in Seq(S) /\ Len(Reverse(t)) = Len(t)
      /\ \A i \in 1 .. Len(t) : Reverse(t)[i] = t[Len(t) - i + 1]
  BY ReverseFacts
<1> DEFINE n == Len(s)
           r == Reverse(s)
           q == Reverse(t)
<1>. HIDE DEF r, q
<1>4. ASSUME n <= Len(t)
      PROVE  SubSeq(r, 1, n) = SubSeq(q, 1, n) <=> \A i \in 1 .. n : r[i] = q[i]
  <2>1. /\ SubSeq(r, 1, n) \in Seq(S) /\ Len(SubSeq(r, 1, n)) = n
        /\ \A i \in 1 .. n : SubSeq(r, 1, n)[i] = r[i]
    BY <1>1, <1>2, FrontFacts DEF r
  <2>2. /\ SubSeq(q, 1, n) \in Seq(S) /\ Len(SubSeq(q, 1, n)) = n
        /\ \A i \in 1 .. n : SubSeq(q, 1, n)[i] = q[i]
    BY <1>1, <1>3, <1>4, FrontFacts DEF q
  <2>. QED
    BY <2>1, <2>2, SeqEqual
<1>5. ASSUME n <= Len(t)
      PROVE  (\A i \in 1 .. n : r[i] = q[i]) <=> \A i \in 1 .. n : s[i] = t[Len(t) - n + i]
  <2>1. \A i \in 1 .. n : n - i + 1 \in 1 .. n /\ n - (n - i + 1) + 1 = i
                          /\ Len(t) - (n - i + 1) + 1 = Len(t) - n + i /\ i \in 1 .. Len(t)
    BY <1>1, <1>5
  <2>2. ASSUME \A i \in 1 .. n : r[i] = q[i], NEW i \in 1 .. n
        PROVE  s[i] = t[Len(t) - n + i]
    <3>1. r[n - i + 1] = q[n - i + 1]
      BY <2>1, <2>2
    <3>2. r[n - i + 1] = s[i]
      BY <1>2, <2>1 DEF r
    <3>3. q[n - i + 1] = t[Len(t) - n + i]
      BY <1>1, <1>3, <1>5, <2>1 DEF q
    <3>. QED
      BY <3>1, <3>2, <3>3
  <2>3. ASSUME \A i \in 1 .. n : s[i] = t[Len(t) - n + i], NEW i \in 1 .. n
        PROVE  r[i] = q[i]
    <3>1. s[n - i + 1] = t[Len(t) - n + (n - i + 1)]
      BY <2>1, <2>3
    <3>2. r[i] = s[n - i + 1]
      BY <1>2 DEF r
    <3>3. q[i] = t[Len(t) - i + 1]
      BY <1>3, <2>1 DEF q
    <3>4. Len(t) - n + (n - i + 1) = Len(t) - i + 1
      BY <1>1
    <3>. QED
      BY <3>1, <3>2, <3>3, <3>4
  <2>. QED
    BY <2>2, <2>3
<1>6. IsSuffix(s, t) <=> n <= Len(t) /\ SubSeq(r, 1, n) = SubSeq(q, 1, n)
  BY <1>2, <1>3 DEF IsSuffix, IsPrefix, r, q
<1>. QED
  BY <1>4, <1>5, <1>6

\* shift() leaves a suffix, push() on both keeps one.
LEMMA SuffixTail ==
    ASSUME NEW S, NEW s \in Seq(S), NEW t \in Seq(S), s # <<>>, IsSuffix(s, t)
    PROVE  IsSuffix(Tail(s), t)
<1>1. /\ Tail(s) \in Seq(S) /\ Len(s) \in Nat /\ Len(s) > 0 /\ Len(Tail(s)) = Len(s) - 1
      /\ \A i \in 1 .. Len(s) - 1 : Tail(s)[i] = s[i + 1]
  BY TailFacts
<1>2. /\ Len(s) <= Len(t) /\ Len(t) \in Nat
      /\ \A i \in 1 .. Len(s) : s[i] = t[Len(t) - Len(s) + i]
  BY SuffixForm, LenProperties
<1>3. ASSUME NEW i \in 1 .. Len(Tail(s))
      PROVE  Tail(s)[i] = t[Len(t) - Len(Tail(s)) + i]
  <2>1. i + 1 \in 1 .. Len(s) /\ Len(t) - Len(Tail(s)) + i = Len(t) - Len(s) + (i + 1)
    BY <1>1, <1>2
  <2>. QED
    BY <1>1, <1>2, <2>1
<1>4. IsSuffix(Tail(s), t) <=>
         /\ Len(Tail(s)) <= Len(t)
         /\ \A i \in 1 .. Len(Tail(s)) : Tail(s)[i] = t[Len(t) - Len(Tail(s)) + i]
  BY <1>1, SuffixForm
<1>. QED
  BY <1>1, <1>2, <1>3, <1>4

\* push() of one element on a queue and on what was ever put in it.
LEMMA SuffixAppend ==
    ASSUME NEW S, NEW s \in Seq(S), NEW t \in Seq(S), NEW e \in S, IsSuffix(s, t)
    PROVE  IsSuffix(Append(s, e), Append(t, e))
<1> DEFINE a == Append(s, e)
           b == Append(t, e)
<1>1. /\ a \in Seq(S) /\ Len(s) \in Nat /\ Len(a) = Len(s) + 1
      /\ \A i \in 1 .. Len(s) : a[i] = s[i]
      /\ a[Len(s) + 1] = e
  BY AppendFacts
<1>2. /\ b \in Seq(S) /\ Len(t) \in Nat /\ Len(b) = Len(t) + 1
      /\ \A i \in 1 .. Len(t) : b[i] = t[i]
      /\ b[Len(t) + 1] = e
  BY AppendFacts
<1>3. Len(s) <= Len(t) /\ \A i \in 1 .. Len(s) : s[i] = t[Len(t) - Len(s) + i]
  BY SuffixForm
<1>. HIDE DEF a, b
<1>4. ASSUME NEW i \in 1 .. Len(a)
      PROVE  a[i] = b[Len(b) - Len(a) + i]
  <2>1. Len(b) - Len(a) + i = Len(t) - Len(s) + i
    BY <1>1, <1>2
  <2>2. CASE i = Len(s) + 1
    BY <1>1, <1>2, <2>1, <2>2
  <2>3. CASE i \in 1 .. Len(s)
    <3>1. Len(t) - Len(s) + i \in 1 .. Len(t)
      BY <1>1, <1>2, <1>3, <2>3
    <3>2. a[i] = s[i] /\ s[i] = t[Len(t) - Len(s) + i]
      BY <1>1, <1>3, <2>3
    <3>3. b[Len(t) - Len(s) + i] = t[Len(t) - Len(s) + i]
      BY <1>2, <3>1
    <3>. QED
      BY <2>1, <3>2, <3>3
  <2>. QED
    BY <1>1, <2>2, <2>3
<1>5. IsSuffix(a, b)
  <2>1. IsSuffix(a, b) <=> Len(a) <= Len(b) /\ \A i \in 1 .. Len(a) : a[i] = b[Len(b) - Len(a) + i]
    BY <1>1, <1>2, SuffixForm
  <2>. QED
    BY <1>1, <1>2, <1>3, <1>4, <2>1
<1>. QED
  BY <1>5 DEF a, b

\* What waits in a queue without repetitions is not at its head as well.
LEMMA SuffixHead ==
    ASSUME NEW S, NEW s \in Seq(S), NEW t \in Seq(S), s # <<>>, IsSuffix(s, t), IsInjective(t)
    PROVE  Head(s) \notin Range(Tail(s)) /\ Range(s) \subseteq Range(t)
<1>1. /\ Len(s) \in Nat /\ Len(s) > 0 /\ DOMAIN Tail(s) = 1 .. Len(s) - 1 /\ Head(s) = s[1]
      /\ \A i \in 1 .. Len(s) - 1 : Tail(s)[i] = s[i + 1]
      /\ DOMAIN s = 1 .. Len(s)
  BY TailFacts
<1>2. /\ Len(s) <= Len(t) /\ Len(t) \in Nat /\ DOMAIN t = 1 .. Len(t)
      /\ \A i \in 1 .. Len(s) : s[i] = t[Len(t) - Len(s) + i]
  BY SuffixForm, LenProperties
<1>3. \A i \in 1 .. Len(s) : Len(t) - Len(s) + i \in 1 .. Len(t)
  BY <1>1, <1>2
<1>4. ASSUME NEW i \in 1 .. Len(s) - 1, s[i + 1] = s[1]
      PROVE  FALSE
  <2>1. i + 1 \in 1 .. Len(s) /\ 1 \in 1 .. Len(s)
    BY <1>1
  <2>2. t[Len(t) - Len(s) + (i + 1)] = t[Len(t) - Len(s) + 1]
    BY <1>2, <1>4, <2>1
  <2>3. Len(t) - Len(s) + (i + 1) = Len(t) - Len(s) + 1
    BY <1>2, <1>3, <2>1, <2>2 DEF IsInjective
  <2>. QED
    BY <1>1, <1>2, <2>3
<1>5. Head(s) \notin Range(Tail(s))
  BY <1>1, <1>4 DEF Range
<1>6. Range(s) \subseteq Range(t)
  BY <1>1, <1>2, <1>3 DEF Range
<1>. QED
  BY <1>5, <1>6

\* SetToSeq lists every element of a finite set once.
LEMMA SetToSeqLemma ==
    ASSUME NEW S, IsFiniteSet(S)
    PROVE  /\ Cardinality(S) \in Nat
           /\ SetToSeq(S) \in Seq(S)
           /\ DOMAIN SetToSeq(S) = 1 .. Cardinality(S)
           /\ Len(SetToSeq(S)) = Cardinality(S)
           /\ \A i, j \in DOMAIN SetToSeq(S) : SetToSeq(S)[i] = SetToSeq(S)[j] => i = j
           /\ \A x \in S : \E i \in DOMAIN SetToSeq(S) : SetToSeq(S)[i] = x
<1> DEFINE n == Cardinality(S)
           f == SetToSeq(S)
<1>1. n \in Nat /\ ExistsBijection(1 .. n, S)
  BY FS_CardinalityType
<1>2. \E g \in [1 .. n -> S] : IsInjective(g)
  BY <1>1 DEF ExistsBijection, Bijection, Injection
<1>3. f \in [1 .. n -> S] /\ IsInjective(f)
  BY <1>2 DEF SetToSeq
<1>4. f \in Injection(1 .. n, S)
  BY <1>3 DEF Injection
<1>5. f \in Surjection(1 .. n, S)
  <2>1. Cardinality(1 .. n) = Cardinality(S)
    BY <1>1, FS_Interval
  <2>. HIDE DEF f
  <2>. QED
    BY <1>4, <2>1, FS_Injection
<1>6. f \in Seq(S) /\ Len(f) = n /\ DOMAIN f = 1 .. n
  BY <1>1, <1>3
<1>7. \A x \in S : \E i \in DOMAIN f : f[i] = x
  BY <1>5, <1>6 DEF Surjection
<1>. QED
  BY <1>1, <1>3, <1>6, <1>7 DEF IsInjective

\* The sequences SetToSeqs gives list every element of a finite set once.
LEMMA SetToSeqsLemma ==
    ASSUME NEW S, IsFiniteSet(S), NEW f \in SetToSeqs(S)
    PROVE  /\ f \in Seq(S)
           /\ Len(f) \in Nat
           /\ DOMAIN f = 1 .. Len(f)
           /\ \A i, j \in DOMAIN f : f[i] = f[j] => i = j
           /\ \A x \in S : \E i \in DOMAIN f : f[i] = x
<1> DEFINE n == Cardinality(S)
<1>1. n \in Nat
  BY FS_CardinalityType
<1>2. f \in [1 .. n -> S] /\ \A i, j \in 1 .. n : i # j => f[i] # f[j]
  BY DEF SetToSeqs
<1>3. f \in Seq(S) /\ Len(f) = n /\ DOMAIN f = 1 .. n
  BY <1>1, <1>2
<1>4. f \in Injection(1 .. n, S)
  BY <1>2, <1>3 DEF Injection, IsInjective
<1>5. f \in Surjection(1 .. n, S)
  BY <1>1, <1>4, FS_Interval, FS_Injection
<1>6. \A x \in S : \E i \in DOMAIN f : f[i] = x
  BY <1>3, <1>5 DEF Surjection
<1>. QED
  BY <1>1, <1>2, <1>3, <1>6

\* Of some natural numbers one is the least: the induction principle, as a fact
\* about sets.
LEMMA LeastNumber ==
    ASSUME NEW T, T \subseteq Nat, T # {}
    PROVE  \E x \in T : \A y \in T : x <= y
<1> DEFINE R == OpToRel(<, Nat)
<1>1. \A x, y \in Nat : x < y => <<x, y>> \in R
  BY DEF OpToRel
<1>2. IsWellFoundedOn(R, Nat)
  BY NatLessThanWellFounded
<1>. HIDE DEF R
<1>3. PICK x \in T : \A y \in T : ~ (<<y, x>> \in R)
  BY <1>2, WFMin
<1>4. ASSUME NEW y \in T
      PROVE  x <= y
  <2>1. x \in Nat /\ y \in Nat /\ <<y, x>> \notin R
    BY <1>3
  <2>2. ~ (y < x)
    BY <1>1, <2>1
  <2>. QED
    BY <2>1, <2>2
<1>. QED
  BY <1>4

\* Numbers that have a bound have a greatest one, which Max() finds.
LEMMA MaxLemma ==
    ASSUME NEW n \in Nat, NEW S, S \subseteq 0 .. n, S # {}
    PROVE  Max(S) \in S
<1> DEFINE T == {n - b : b \in S}
<1>1. \A b \in S : n - b \in Nat /\ b \in Nat
  OBVIOUS
<1>2. T \subseteq Nat /\ T # {}
  BY <1>1
<1>. HIDE DEF T
<1>3. PICK x \in T : \A y \in T : x <= y
  BY <1>2, LeastNumber
<1>4. PICK b \in S : x = n - b
  BY DEF T
<1>5. ASSUME NEW c \in S
      PROVE  b >= c
  <2>1. n - c \in T
    BY DEF T
  <2>2. n - b <= n - c
    BY <1>3, <1>4, <2>1
  <2>. QED
    BY <1>1, <2>2
<1>. QED
  BY <1>5 DEF Max

\* A sequence followed by copies of an element.
LEMMA CopiesFacts ==
    ASSUME NEW S, NEW s \in Seq(S), NEW e \in S, NEW n \in Nat
    PROVE  LET t == s \o [i \in 1 .. n |-> e] IN
           /\ t \in Seq(S)
           /\ Range(t) \subseteq Range(s) \cup {e}
           /\ n = 0 => t = s
           /\ n = 1 /\ IsInjective(s) /\ e \notin Range(s) => IsInjective(t)
<1> DEFINE copies == [i \in 1 .. n |-> e]
           t == s \o copies
<1>1. /\ copies \in Seq(S) /\ Len(copies) = n /\ \A i \in 1 .. n : copies[i] = e
  OBVIOUS
<1>. HIDE DEF copies
<1>0. /\ t \in Seq(S) /\ Len(t) = Len(s) + Len(copies)
      /\ \A i \in 1 .. Len(s) + Len(copies) :
            t[i] = IF i <= Len(s) THEN s[i] ELSE copies[i - Len(s)]
  BY <1>1, ConcatProperties
<1>. HIDE DEF t
<1>2. /\ t \in Seq(S) /\ Len(s) \in Nat /\ Len(t) = Len(s) + n
      /\ DOMAIN s = 1 .. Len(s) /\ DOMAIN t = 1 .. Len(s) + n
      /\ \A i \in 1 .. Len(s) + n : t[i] = IF i <= Len(s) THEN s[i] ELSE copies[i - Len(s)]
  BY <1>0, <1>1, LenProperties
<1>3. \A i \in 1 .. Len(s) + n : t[i] = IF i <= Len(s) THEN s[i] ELSE e
  BY <1>1, <1>2
<1>4. Range(t) \subseteq Range(s) \cup {e}
  BY <1>2, <1>3 DEF Range
<1>5. n = 0 => t = s
  BY <1>2, <1>3, SeqEqual
<1>6. ASSUME n = 1, IsInjective(s), e \notin Range(s)
      PROVE  IsInjective(t)
  <2>1. \A i \in 1 .. Len(s) : s[i] # e
    BY <1>2, <1>6 DEF Range
  <2>2. \A i, j \in 1 .. Len(s) : s[i] = s[j] => i = j
    BY <1>2, <1>6 DEF IsInjective
  <2>3. \A i, j \in 1 .. Len(s) + 1 : t[i] = t[j] => i = j
    BY <1>2, <1>3, <1>6, <2>1, <2>2
  <2>. QED
    BY <1>2, <1>6, <2>3 DEF IsInjective
<1>. QED
  BY <1>2, <1>4, <1>5, <1>6 DEF t, copies

\* What appending and taking the head mean to a sequence without repetitions.
LEMMA InjectiveFacts ==
    ASSUME NEW S, NEW s \in Seq(S), IsInjective(s)
    PROVE  /\ \A e \in S : e \notin Range(s) => IsInjective(Append(s, e))
           /\ s # <<>> => /\ IsInjective(Tail(s)) /\ Head(s) \notin Range(Tail(s))
                          /\ Range(Tail(s)) = Range(s) \ {Head(s)}
<1>1. /\ Len(s) \in Nat /\ DOMAIN s = 1 .. Len(s)
      /\ \A i, j \in 1 .. Len(s) : s[i] = s[j] => i = j
  BY LenProperties DEF IsInjective
<1>2. ASSUME NEW e \in S, e \notin Range(s)
      PROVE  IsInjective(Append(s, e))
  <2>1. /\ DOMAIN Append(s, e) = 1 .. Len(s) + 1
        /\ \A i \in 1 .. Len(s) : Append(s, e)[i] = s[i]
        /\ Append(s, e)[Len(s) + 1] = e
    BY AppendFacts
  <2>2. \A i \in 1 .. Len(s) : s[i] # e
    BY <1>1, <1>2 DEF Range
  <2> DEFINE t == Append(s, e)
  <2>. HIDE DEF t
  <2>3. \A i, j \in 1 .. Len(s) + 1 : t[i] = t[j] => i = j
    BY <1>1, <2>1, <2>2 DEF t
  <2>. QED
    BY <2>1, <2>3 DEF IsInjective, t
<1>3. ASSUME s # <<>>
      PROVE  /\ IsInjective(Tail(s)) /\ Head(s) \notin Range(Tail(s))
             /\ Range(Tail(s)) = Range(s) \ {Head(s)}
  <2> DEFINE t == Tail(s)
  <2>1. /\ DOMAIN t = 1 .. Len(s) - 1 /\ Head(s) = s[1] /\ Len(s) > 0
        /\ \A i \in 1 .. Len(s) - 1 : t[i] = s[i + 1]
        /\ Range(s) = Range(t) \cup {Head(s)}
    BY <1>3, TailFacts
  <2>. HIDE DEF t
  <2>2. \A i \in 1 .. Len(s) - 1 : i + 1 \in 1 .. Len(s) /\ i + 1 # 1
    BY <1>1
  <2>3. \A i, j \in 1 .. Len(s) - 1 : t[i] = t[j] => i = j
    BY <1>1, <2>1, <2>2
  <2>4. Head(s) \notin Range(t)
    BY <1>1, <2>1, <2>2 DEF Range
  <2>. QED
    BY <2>1, <2>3, <2>4 DEF IsInjective, t
<1>. QED
  BY <1>2, <1>3

=============================================================================
