----------------------------- MODULE ListasProofs ------------------------------
(* Facts about lists without repetitions, which the modules that keep a list *)
(* of pages, queries or Workers need: Append, RemoveFirst, Tail and Min.     *)
EXTENDS SequencesExt, Integers, SequenceTheorems, WellFoundedInduction, TLAPS

\* A set of natural numbers that has elements has a least one.
LEMMA MinNat ==
    ASSUME NEW S \in SUBSET Nat, S # {}
    PROVE  Min(S) \in S /\ \A y \in S : Min(S) <= y
<1>1. PICK x \in S : \A y \in S : <<y, x>> \notin OpToRel(<, Nat)
  BY NatLessThanWellFounded, WFMin
<1>2. ASSUME NEW y \in S PROVE x <= y
  <2>1. <<y, x>> \in Nat \X Nat /\ ~ (<<y, x>>[1] < <<y, x>>[2])
    BY <1>1 DEF OpToRel
  <2> QED
    BY <2>1
<1> QED
  BY <1>2 DEF Min

\* The elements of a list, by position.
LEMMA ElementosLista ==
    ASSUME NEW S, NEW s \in Seq(S)
    PROVE  /\ DOMAIN s = 1 .. Len(s) /\ Len(s) \in Nat
           /\ ToSet(s) \subseteq S
           /\ \A x : x \in ToSet(s) <=> \E k \in 1 .. Len(s) : s[k] = x
           /\ s = <<>> <=> ToSet(s) = {}
<1>1. DOMAIN s = 1 .. Len(s) /\ Len(s) \in Nat /\ \A k \in 1 .. Len(s) : s[k] \in S
  BY LenProperties, ElementOfSeq
<1>2. s = <<>> => ToSet(s) = {}
  BY DEF ToSet
<1>3. s # <<>> => s[1] \in ToSet(s)
  BY <1>1, EmptySeq DEF ToSet
<1> QED
  BY <1>1, <1>2, <1>3 DEF ToSet

\* Appending a new element.
LEMMA AgregarLista ==
    ASSUME NEW S, NEW s \in Seq(S), NEW e \in S
    PROVE  /\ Append(s, e) \in Seq(S)
           /\ ToSet(Append(s, e)) = ToSet(s) \union {e}
           /\ IsInjective(s) /\ e \notin ToSet(s) => IsInjective(Append(s, e))
<1> DEFINE r == Append(s, e)
<1>1. r \in Seq(S) /\ Len(r) = Len(s) + 1 /\ Len(s) \in Nat
  BY AppendProperties, LenProperties
<1>2. (\A k \in 1 .. Len(s) : r[k] = s[k]) /\ r[Len(s) + 1] = e
  BY AppendProperties
<1>3. DOMAIN r = 1 .. Len(s) + 1 /\ DOMAIN s = 1 .. Len(s)
  BY <1>1, LenProperties
<1> HIDE DEF r
<1>4. ToSet(r) = ToSet(s) \union {e}
  BY <1>1, <1>2, <1>3 DEF ToSet
<1>5. IsInjective(s) /\ e \notin ToSet(s) => IsInjective(r)
  BY <1>1, <1>2, <1>3 DEF ToSet, IsInjective
<1> QED
  BY <1>1, <1>4, <1>5 DEF r

\* The list without one of its positions.
LEMMA QuitarPosicion ==
    ASSUME NEW S, NEW s \in Seq(S), NEW k \in 1 .. Len(s)
    PROVE  /\ RemoveAt(s, k) \in Seq(S)
           /\ Len(RemoveAt(s, k)) = Len(s) - 1
           /\ \A j \in 1 .. Len(s) - 1 :
                 RemoveAt(s, k)[j] = IF j < k THEN s[j] ELSE s[j + 1]
<1> DEFINE a == SubSeq(s, 1, k - 1)
           b == SubSeq(s, k + 1, Len(s))
<1>1. Len(s) \in Nat /\ \A i \in 1 .. Len(s) : s[i] \in S
  BY LenProperties, ElementOfSeq
<1>2. a \in Seq(S) /\ Len(a) = k - 1 /\ \A i \in 1 .. k - 1 : a[i] = s[i]
  BY <1>1, SubSeqProperties
<1>3. b \in Seq(S) /\ Len(b) = Len(s) - k /\ \A i \in 1 .. Len(s) - k : b[i] = s[k + i]
  <2>1. /\ b \in Seq(S)
        /\ Len(b) = IF k + 1 <= Len(s) THEN Len(s) - (k + 1) + 1 ELSE 0
        /\ \A i \in 1 .. Len(s) - (k + 1) + 1 : b[i] = s[(k + 1) + i - 1]
    BY <1>1, SubSeqProperties
  <2> HIDE DEF b
  <2> QED
    BY <1>1, <2>1
<1> HIDE DEF a, b
<1>4. /\ a \o b \in Seq(S) /\ Len(a \o b) = Len(a) + Len(b)
      /\ \A i \in 1 .. Len(a) + Len(b) : (a \o b)[i] = IF i <= Len(a) THEN a[i] ELSE b[i - Len(a)]
  BY <1>2, <1>3, ConcatProperties
<1>5. RemoveAt(s, k) = a \o b
  BY DEF RemoveAt, a, b
<1>6. ASSUME NEW j \in 1 .. Len(s) - 1
      PROVE  (a \o b)[j] = IF j < k THEN s[j] ELSE s[j + 1]
  <2>1. j \in 1 .. Len(a) + Len(b)
    BY <1>1, <1>2, <1>3
  <2>2. CASE j < k
    BY <1>1, <1>2, <1>4, <2>1, <2>2
  <2>3. CASE ~ (j < k)
    <3>1. j - Len(a) \in 1 .. Len(s) - k /\ ~ (j <= Len(a)) /\ k + (j - Len(a)) = j + 1
      BY <1>1, <1>2, <2>3
    <3> QED
      BY <1>3, <1>4, <2>1, <2>3, <3>1
  <2> QED
    BY <2>2, <2>3
<1>7. Len(a) + Len(b) = Len(s) - 1
  BY <1>1, <1>2, <1>3
<1> QED
  BY <1>4, <1>5, <1>6, <1>7

\* Removing an element leaves a list.
LEMMA QuitarTipo ==
    ASSUME NEW S, NEW s \in Seq(S), NEW e
    PROVE  RemoveFirst(s, e) \in Seq(S)
<1>1. CASE ~ \E i \in 1 .. Len(s) : s[i] = e
  BY <1>1 DEF RemoveFirst
<1>2. CASE \E i \in 1 .. Len(s) : s[i] = e
  <2> DEFINE I == {i \in 1 .. Len(s) : s[i] = e}
  <2>1. RemoveFirst(s, e) = RemoveAt(s, Min(I))
    BY <1>2 DEF RemoveFirst, SelectInSeq
  <2>2. I \in SUBSET Nat /\ I # {}
    BY <1>2
  <2>3. Min(I) \in 1 .. Len(s)
    BY <2>2, MinNat
  <2> HIDE DEF I
  <2> QED
    BY <2>1, <2>3, QuitarPosicion
<1> QED
  BY <1>1, <1>2

\* Removing an element of a list without repetitions takes it out of the list
\* and leaves the others.
LEMMA QuitarLista ==
    ASSUME NEW S, NEW s \in Seq(S), IsInjective(s), NEW e
    PROVE  /\ RemoveFirst(s, e) \in Seq(S)
           /\ ToSet(RemoveFirst(s, e)) = ToSet(s) \ {e}
           /\ IsInjective(RemoveFirst(s, e))
<1>0. Len(s) \in Nat /\ DOMAIN s = 1 .. Len(s)
  BY LenProperties
<1>1. CASE ~ \E i \in 1 .. Len(s) : s[i] = e
  <2>1. RemoveFirst(s, e) = s
    BY <1>1 DEF RemoveFirst
  <2> QED
    BY <1>0, <1>1, <2>1 DEF ToSet
<1>2. CASE \E i \in 1 .. Len(s) : s[i] = e
  <2> DEFINE I == {i \in 1 .. Len(s) : s[i] = e}
             k == Min(I)
             r == RemoveAt(s, k)
  <2>1. RemoveFirst(s, e) = r
    BY <1>2 DEF RemoveFirst, SelectInSeq
  <2>2. k \in 1 .. Len(s) /\ s[k] = e
    <3>1. I \in SUBSET Nat /\ I # {}
      BY <1>0, <1>2
    <3>2. k \in I
      BY <3>1, MinNat
    <3> QED
      BY <3>2
  <2> HIDE DEF k
  <2>3. /\ r \in Seq(S) /\ Len(r) = Len(s) - 1
        /\ \A j \in 1 .. Len(s) - 1 : r[j] = IF j < k THEN s[j] ELSE s[j + 1]
    BY <2>2, QuitarPosicion
  <2> HIDE DEF r
  <2>4. DOMAIN r = 1 .. Len(s) - 1
    BY <2>3, LenProperties
  <2>5. IsInjective(r)
    BY <1>0, <2>2, <2>3, <2>4 DEF IsInjective
  <2>6. ASSUME NEW x \in ToSet(r) PROVE x \in ToSet(s) \ {e}
    BY <1>0, <2>2, <2>3, <2>4, <2>6 DEF ToSet, IsInjective
  <2>7. ASSUME NEW x \in ToSet(s) \ {e} PROVE x \in ToSet(r)
    <3>1. PICK j \in 1 .. Len(s) : s[j] = x
      BY <1>0 DEF ToSet
    <3>2. CASE j < k
      <4>1. j \in 1 .. Len(s) - 1 /\ r[j] = x
        BY <1>0, <2>2, <2>3, <3>1, <3>2
      <4> QED
        BY <2>4, <4>1 DEF ToSet
    <3>3. CASE j > k
      <4>1. j - 1 \in 1 .. Len(s) - 1 /\ r[j - 1] = x
        BY <1>0, <2>2, <2>3, <3>1, <3>3
      <4> QED
        BY <2>4, <4>1 DEF ToSet
    <3> QED
      BY <1>0, <2>2, <3>1, <3>2, <3>3
  <2> QED
    BY <2>1, <2>3, <2>5, <2>6, <2>7
<1> QED
  BY <1>1, <1>2
=============================================================================
