--------------------------- MODULE SequenceFacts ----------------------------
(***************************************************************************)
(* Facts about numbers, finite sets and sequences that the proofs of other *)
(* modules cite: what a recursive function is, and what the operators of   *)
(* the community modules return.                                           *)
(***************************************************************************)
EXTENDS Integers, Sequences, FiniteSets, SequencesExt, FiniteSetTheorems,
        WellFoundedInduction, TLAPS

------------------------------------------------------------------------------
(* Induction, as the least element of a set of numbers, and recursion.        *)

LEMMA LessThan == \E R : IsWellFoundedOn(R, Nat) /\ \A m, n \in Nat : <<m, n>> \in R <=> m < n
<1> DEFINE R == OpToRel(<, Nat)
<1>1. IsWellFoundedOn(R, Nat)
  BY NatLessThanWellFounded
<1>2. \A m, n \in Nat : <<m, n>> \in R <=> m < n
  BY DEF OpToRel
<1>3. QED
  BY <1>1, <1>2

LEMMA LeastNumber ==
  ASSUME NEW T \in SUBSET Nat, T # {}
  PROVE  \E m \in T : \A n \in T : m <= n
<1>1. PICK R : IsWellFoundedOn(R, Nat) /\ \A m, n \in Nat : <<m, n>> \in R <=> m < n
  BY LessThan
<1>2. IsWellFoundedOn(R, Nat) /\ T \subseteq Nat
  BY <1>1
<1>3. \E m \in T : \A n \in T : ~(<<n, m>> \in R)
  BY <1>2, WFMin
<1>4. PICK m \in T : \A n \in T : ~(<<n, m>> \in R)
  BY <1>3
<1>5. \A n \in T : ~(n < m)
  BY <1>1, <1>4
<1>6. QED
  BY <1>5

LEMMA Induction ==
  ASSUME NEW T \in SUBSET Nat, 0 \in T, \A n \in T : n + 1 \in T
  PROVE  T = Nat
<1> SUFFICES ASSUME T # Nat PROVE FALSE
  OBVIOUS
<1>1. Nat \ T \in SUBSET Nat /\ Nat \ T # {}
  OBVIOUS
<1>2. PICK m \in Nat \ T : \A n \in Nat \ T : m <= n
  BY <1>1, LeastNumber
<1>3. m # 0 /\ m - 1 \in Nat
  BY <1>2
<1>4. m - 1 \in T
  BY <1>2, <1>3
<1>5. QED
  BY <1>2, <1>3, <1>4

(* The first n values of the function that starts with base and goes on by    *)
(* step, which is a function itself since it is an argument of lemmas.        *)
Approximates(g, n, S, base, step) ==
  /\ g \in [0..n -> S] /\ g[0] = base
  /\ \A k \in 0..n : k < n => g[k + 1] = step[g[k]]

LEMMA ApproximationsExist ==
  ASSUME NEW S, NEW base \in S, NEW step \in [S -> S]
  PROVE  \A n \in Nat : \E g : Approximates(g, n, S, base, step)
<1> DEFINE T == {n \in Nat : \E g : Approximates(g, n, S, base, step)}
<1>1. 0 \in T
  <2>1. Approximates([k \in 0..0 |-> base], 0, S, base, step)
    BY DEF Approximates
  <2>2. QED
    BY <2>1
<1>2. ASSUME NEW n \in T PROVE n + 1 \in T
  <2>1. n \in Nat
    OBVIOUS
  <2>2. PICK g : Approximates(g, n, S, base, step)
    OBVIOUS
  <2>3. PICK h : h = [k \in 0..(n + 1) |-> IF k <= n THEN g[k] ELSE step[g[n]]]
    OBVIOUS
  <2>4. g \in [0..n -> S] /\ g[0] = base
    BY <2>2 DEF Approximates
  <2>5. h \in [0..(n + 1) -> S] /\ h[0] = base
    BY <2>1, <2>3, <2>4
  <2>6. ASSUME NEW k \in 0..(n + 1), k < n + 1 PROVE h[k + 1] = step[h[k]]
    <3>1. h[k] = g[k] /\ k \in 0..n
      BY <2>1, <2>3, <2>6
    <3>2. CASE k < n
      BY <2>1, <2>2, <2>3, <3>1, <3>2 DEF Approximates
    <3>3. CASE k = n
      BY <2>1, <2>3, <3>1, <3>3
    <3>4. QED
      BY <2>1, <3>1, <3>2, <3>3
  <2>7. Approximates(h, n + 1, S, base, step)
    BY <2>5, <2>6 DEF Approximates
  <2>8. QED
    BY <2>1, <2>7
<1>3. T \in SUBSET Nat
  OBVIOUS
<1> HIDE DEF T
<1>4. T = Nat
  BY <1>1, <1>2, <1>3, Induction
<1>5. QED
  BY <1>4 DEF T

LEMMA ApproximationsAgree ==
  ASSUME NEW S, NEW base, NEW step, NEW m \in Nat, NEW n \in Nat, m <= n, NEW g, NEW h,
         Approximates(g, m, S, base, step), Approximates(h, n, S, base, step)
  PROVE  g[m] = h[m]
<1> DEFINE T == {k \in Nat : k <= m => g[k] = h[k]}
<1>1. 0 \in T
  BY DEF Approximates
<1>2. ASSUME NEW k \in T PROVE k + 1 \in T
  <2>1. CASE k + 1 <= m
    <3>1. k \in 0..m /\ k < m /\ k \in 0..n /\ k < n /\ g[k] = h[k]
      BY <2>1
    <3>2. g[k + 1] = h[k + 1]
      BY <3>1 DEF Approximates
    <3>3. QED
      BY <3>2
  <2>2. CASE ~(k + 1 <= m)
    BY <2>2
  <2>3. QED
    BY <2>1, <2>2
<1>3. T \in SUBSET Nat
  OBVIOUS
<1> HIDE DEF T
<1>4. T = Nat
  BY <1>1, <1>2, <1>3, Induction
<1>5. QED
  BY <1>4 DEF T

LEMMA Recursion ==
  ASSUME NEW S, NEW base \in S, NEW step \in [S -> S]
  PROVE  \E f \in [Nat -> S] : f[0] = base /\ \A n \in Nat : f[n + 1] = step[f[n]]
<1> DEFINE first(n) == CHOOSE g : Approximates(g, n, S, base, step)
<1>1. \A n \in Nat : Approximates(first(n), n, S, base, step)
  BY ApproximationsExist
<1> HIDE DEF first
<1>2. PICK f : f = [n \in Nat |-> first(n)[n]]
  OBVIOUS
<1>3. \A n \in Nat : f[n] = first(n)[n]
  BY <1>2
<1>4. \A n \in Nat : n \in 0..n /\ n \in 0..(n + 1) /\ n < n + 1 /\ n + 1 \in Nat /\ n <= n + 1
  OBVIOUS
<1>5. f \in [Nat -> S]
  BY <1>1, <1>2, <1>4 DEF Approximates
<1>6. f[0] = base
  BY <1>1, <1>3 DEF Approximates
<1>7. ASSUME NEW n \in Nat PROVE f[n + 1] = step[f[n]]
  <2>1. Approximates(first(n), n, S, base, step) /\ Approximates(first(n + 1), n + 1, S, base, step)
    BY <1>1, <1>4
  <2>2. first(n)[n] = first(n + 1)[n]
    BY <1>4, <2>1, ApproximationsAgree
  <2>3. first(n + 1)[n + 1] = step[first(n + 1)[n]]
    BY <1>4, <2>1 DEF Approximates
  <2>4. QED
    BY <1>3, <1>4, <2>2, <2>3
<1>8. QED
  BY <1>5, <1>6, <1>7

Iterates(f, D, zero, step) ==
  f \in [Nat -> D] /\ f[0] = zero /\ \A n \in Nat : f[n + 1] = step[f[n]]

LEMMA Iteration ==
  ASSUME NEW D, NEW zero \in D, NEW step \in [D -> D]
  PROVE  \E f : Iterates(f, D, zero, step)
<1>1. PICK f \in [Nat -> D] : f[0] = zero /\ \A n \in Nat : f[n + 1] = step[f[n]]
  BY Recursion
<1>2. QED
  BY <1>1 DEF Iterates

\* A recursion whose step knows how far it is.
Staged(f, S, base, step) ==
  f \in [Nat -> S] /\ f[0] = base /\ \A n \in Nat : f[n + 1] = step[<<n, f[n]>>]

LEMMA Stages ==
  ASSUME NEW S, NEW base \in S, NEW step \in [Nat \X S -> S]
  PROVE  \E f : Staged(f, S, base, step)
<1>1. PICK P : P = Nat \X S
  OBVIOUS
<1>2. PICK zero \in P : zero = <<0, base>>
  BY <1>1
<1>3. \A q \in P : q[1] \in Nat /\ q[2] \in S /\ q = <<q[1], q[2]>> /\ step[q] \in S
  BY <1>1
<1>4. PICK next \in [P -> P] : \A q \in P : next[q] = <<q[1] + 1, step[q]>>
  <2>1. \A q \in P : <<q[1] + 1, step[q]>> \in P
    BY <1>1, <1>3
  <2>2. [q \in P |-> <<q[1] + 1, step[q]>>] \in [P -> P]
    BY <2>1
  <2>3. QED
    BY <2>2
<1>5. PICK h : Iterates(h, P, zero, next)
  BY Iteration
<1>6. h \in [Nat -> P] /\ h[0] = zero /\ \A n \in Nat : h[n + 1] = next[h[n]]
  BY <1>5 DEF Iterates
<1>7. \A n \in Nat : h[n + 1] = <<h[n][1] + 1, step[h[n]]>>
  BY <1>4, <1>6
<1>8. \A n \in Nat : h[n][1] = n
  <2> DEFINE T == {n \in Nat : h[n][1] = n}
  <2>1. 0 \in T
    BY <1>2, <1>6
  <2>2. ASSUME NEW n \in T PROVE n + 1 \in T
    BY <1>7
  <2>3. T \in SUBSET Nat
    OBVIOUS
  <2> HIDE DEF T
  <2>4. T = Nat
    BY <2>1, <2>2, <2>3, Induction
  <2>5. QED
    BY <2>4 DEF T
<1>9. PICK f : f = [n \in Nat |-> h[n][2]]
  OBVIOUS
<1>10. \A n \in Nat : h[n] \in P /\ h[n] = <<n, f[n]>> /\ f[n] \in S
  BY <1>3, <1>6, <1>8, <1>9
<1>11. f[0] = base
  BY <1>2, <1>6, <1>9
<1>12. ASSUME NEW n \in Nat PROVE f[n + 1] = step[<<n, f[n]>>]
  <2>1. n + 1 \in Nat
    OBVIOUS
  <2>2. f[n + 1] = h[n + 1][2]
    BY <1>9, <2>1
  <2>3. h[n + 1] = <<h[n][1] + 1, step[h[n]]>>
    BY <1>7
  <2>4. h[n] = <<n, f[n]>>
    BY <1>10
  <2>5. QED
    BY <2>2, <2>3, <2>4
<1>13. f \in [Nat -> S]
  BY <1>9, <1>10
<1>14. QED
  BY <1>11, <1>12, <1>13 DEF Staged

------------------------------------------------------------------------------
(* Finite sets.                                                               *)

LEMMA OneLess ==
  ASSUME NEW S, IsFiniteSet(S), NEW n \in Nat, Cardinality(S) = n + 1
  PROVE  S # {} /\ \A x \in S : IsFiniteSet(S \ {x}) /\ Cardinality(S \ {x}) = n
<1>1. S # {}
  <2>1. n + 1 # 0
    OBVIOUS
  <2>2. QED
    BY <2>1, FS_EmptySet
<1>2. ASSUME NEW x \in S PROVE IsFiniteSet(S \ {x}) /\ Cardinality(S \ {x}) = n
  <2>1. IsFiniteSet(S \ {x}) /\ Cardinality(S \ {x}) = Cardinality(S) - 1
    BY FS_RemoveElement
  <2>2. (n + 1) - 1 = n
    OBVIOUS
  <2>3. QED
    BY <2>1, <2>2
<1>3. QED
  BY <1>1, <1>2

LEMMA FiniteInduction ==
  ASSUME NEW S, IsFiniteSet(S), NEW F \in SUBSET (SUBSET S), {} \in F,
         \A s \in F : \A x \in S \ s : s \cup {x} \in F
  PROVE  \A s \in SUBSET S : s \in F
<1> DEFINE T == {n \in Nat : \A s \in SUBSET S : Cardinality(s) = n => s \in F}
<1>1. \A s \in SUBSET S : IsFiniteSet(s) /\ Cardinality(s) \in Nat
  BY FS_Subset, FS_CardinalityType
<1>2. 0 \in T
  BY <1>1, FS_EmptySet
<1>3. ASSUME NEW n \in T PROVE n + 1 \in T
  <2>1. n \in Nat /\ \A s \in SUBSET S : Cardinality(s) = n => s \in F
    OBVIOUS
  <2>2. ASSUME NEW s \in SUBSET S, Cardinality(s) = n + 1 PROVE s \in F
    <3>1. PICK x \in s : Cardinality(s \ {x}) = n
      BY <1>1, <2>1, <2>2, OneLess
    <3>2. Cardinality(s \ {x}) = n /\ s \ {x} \in SUBSET S
      BY <3>1
    <3>3. s \ {x} \in F
      BY <2>1, <3>2
    <3>4. s = (s \ {x}) \cup {x} /\ x \in S \ (s \ {x})
      OBVIOUS
    <3>5. QED
      BY <3>3, <3>4
  <2>3. QED
    BY <2>1, <2>2
<1>4. T = Nat
  <2>1. T \in SUBSET Nat
    OBVIOUS
  <2> HIDE DEF T
  <2>2. QED
    BY <1>2, <1>3, <2>1, Induction
<1>5. QED
  BY <1>1, <1>4

LEMMA FiniteImage ==
  ASSUME NEW S, IsFiniteSet(S), NEW f, f = [x \in S |-> f[x]],
         NEW T, T = {f[x] : x \in S}
  PROVE  IsFiniteSet(T)
<1>1. f \in [S -> T]
  OBVIOUS
<1>2. \A y \in T : \E x \in S : f[x] = y
  OBVIOUS
<1>3. f \in Surjection(S, T)
  BY <1>1, <1>2 DEF Surjection
<1>4. QED
  BY <1>3, FS_Surjection

------------------------------------------------------------------------------
(* Sequences, and what flattening one keeps.                                  *)

LEMMA ElementType ==
  ASSUME NEW S, NEW s \in Seq(S), NEW i \in DOMAIN s
  PROVE  s[i] \in S
OBVIOUS

\* s is the first n elements of p.
Begins(s, p, n, S) == s \in Seq(S) /\ Len(s) = n /\ \A i \in 1 .. n : s[i] = p[i]

LEMMA SubSeqBegins ==
  ASSUME NEW S, NEW p \in Seq(S), NEW n \in Nat, n <= Len(p)
  PROVE  Begins(SubSeq(p, 1, n), p, n, S)
<1>1. PICK s : s = SubSeq(p, 1, n)
  OBVIOUS
<1>2. Len(p) \in Nat /\ 1 .. n \subseteq DOMAIN p
  OBVIOUS
<1>3. s \in Seq(S)
  BY <1>1, <1>2
<1>4. Len(s) = n
  BY <1>1, <1>2
<1>5. \A i \in 1 .. n : s[i] = p[i]
  BY <1>1, <1>2
<1>6. QED
  BY <1>1, <1>3, <1>4, <1>5 DEF Begins

LEMMA SetToSeqFun ==
  ASSUME NEW s, IsFiniteSet(s)
  PROVE  SetToSeq(s) \in [1 .. Cardinality(s) -> s] /\ Cardinality(s) \in Nat
<1>1. Cardinality(s) \in Nat
  BY FS_CardinalityType
<1>2. \E f \in [1 .. Cardinality(s) -> s] : IsInjective(f)
  <2>1. ExistsBijection(1 .. Cardinality(s), s)
    BY <1>1, FS_NatBijection, FS_CountingElements
  <2>2. QED
    BY <2>1 DEF ExistsBijection, Bijection, Injection, IsInjective
<1>3. SetToSeq(s) \in [1 .. Cardinality(s) -> s]
  BY <1>2 DEF SetToSeq
<1>4. QED
  BY <1>1, <1>3

LEMMA SetToSeqType ==
  ASSUME NEW S, NEW s, IsFiniteSet(s), s \subseteq S
  PROVE  SetToSeq(s) \in Seq(S)
<1>1. PICK f, n : f = SetToSeq(s) /\ n = Cardinality(s)
  OBVIOUS
<1>2. n \in Nat /\ f \in [1 .. n -> S]
  BY <1>1, SetToSeqFun
<1>3. f \in Seq(S)
  BY <1>2
<1>4. QED
  BY <1>1, <1>3

Joined(q, s, t, S) ==
  /\ q \in Seq(S) /\ Len(q) = Len(s) + Len(t)
  /\ \A n \in 1 .. Len(s) : q[n] = s[n]
  /\ \A n \in 1 .. Len(t) : q[Len(s) + n] = t[n]

LEMMA ConcatType ==
  ASSUME NEW S, NEW s \in Seq(S), NEW t \in Seq(S)
  PROVE  s \o t \in Seq(S)
OBVIOUS

LEMMA ConcatFacts ==
  ASSUME NEW S, NEW s \in Seq(S), NEW t \in Seq(S)
  PROVE  Joined(s \o t, s, t, S)
<1>1. Len(s) \in Nat /\ Len(t) \in Nat /\ s \o t \in Seq(S) /\ Len(s \o t) = Len(s) + Len(t)
  OBVIOUS
<1>2. \A n \in 1 .. Len(s) : (s \o t)[n] = s[n]
  OBVIOUS
<1>3. ASSUME NEW n \in 1 .. Len(t) PROVE (s \o t)[Len(s) + n] = t[n]
  <2>1. PICK m : m = Len(s) + n
    OBVIOUS
  <2>2. m \in 1 .. Len(s) + Len(t) /\ ~(m <= Len(s)) /\ m - Len(s) = n
    BY <1>1, <2>1
  <2>3. (s \o t)[m] = t[m - Len(s)]
    BY <1>1, <2>2
  <2>4. QED
    BY <2>1, <2>2, <2>3
<1>4. QED
  BY <1>1, <1>2, <1>3 DEF Joined

LEMMA RemoveAtType ==
  ASSUME NEW S, NEW s \in Seq(S), NEW i \in DOMAIN s
  PROVE  RemoveAt(s, i) \in Seq(S)
<1>1. i \in Nat /\ i >= 1 /\ i <= Len(s) /\ Len(s) \in Nat
  OBVIOUS
<1>2. SubSeq(s, 1, i - 1) \in Seq(S) /\ SubSeq(s, i + 1, Len(s)) \in Seq(S)
  BY <1>1
<1>3. QED
  BY <1>2, ConcatType DEF RemoveAt

FlattenFun(f, ss) ==
  f = [i \in 1 .. Len(ss) |-> IF i = 1 THEN ss[i] ELSE f[i - 1] \o ss[i]]

LEMMA FlattenFunExists ==
  ASSUME NEW S, NEW ss \in Seq(Seq(S)), Len(ss) # 0
  PROVE  \E f : FlattenFun(f, ss)
<1>1. PICK D : D = Seq(S)
  OBVIOUS
<1>2. PICK N : N = Len(ss)
  OBVIOUS
<1>3. N \in Nat /\ N # 0 /\ \A i \in 1 .. N : ss[i] \in D
  BY <1>1, <1>2
<1>4. PICK more \in [Nat \X D -> D] :
        \A q \in Nat \X D : more[q] = IF q[1] + 2 \in 1 .. N THEN q[2] \o ss[q[1] + 2] ELSE q[2]
  <2>1. ASSUME NEW q \in Nat \X D
        PROVE  (IF q[1] + 2 \in 1 .. N THEN q[2] \o ss[q[1] + 2] ELSE q[2]) \in D
    <3>1. PICK i \in Nat, s \in D : q[1] = i /\ q[2] = s
      OBVIOUS
    <3>2. i + 2 \in 1 .. N => ss[i + 2] \in D
      BY <1>3
    <3>3. i + 2 \in 1 .. N => s \o ss[i + 2] \in D
      BY <1>1, <3>2, ConcatType
    <3>4. QED
      BY <3>1, <3>3
  <2>2. [q \in Nat \X D |-> IF q[1] + 2 \in 1 .. N THEN q[2] \o ss[q[1] + 2] ELSE q[2]]
          \in [Nat \X D -> D]
    BY <2>1
  <2>3. QED
    BY <2>2
<1>5. PICK zero \in D : zero = ss[1]
  BY <1>3
<1>6. PICK g : Staged(g, D, zero, more)
  BY Stages
<1>7. g \in [Nat -> D] /\ g[0] = ss[1] /\ \A n \in Nat : g[n + 1] = more[<<n, g[n]>>]
  BY <1>5, <1>6 DEF Staged
<1>8. ASSUME NEW n \in Nat, n + 2 \in 1 .. N PROVE g[n + 1] = g[n] \o ss[n + 2]
  <2>1. PICK q : q = <<n, g[n]>>
    OBVIOUS
  <2>2. q \in Nat \X D /\ q[1] = n /\ q[2] = g[n]
    BY <1>7, <2>1
  <2>3. more[q] = g[n] \o ss[n + 2]
    BY <1>4, <1>8, <2>2
  <2>4. QED
    BY <1>7, <2>1, <2>3
<1>9. PICK f : f = [i \in 1 .. N |-> g[i - 1]]
  OBVIOUS
<1>10. ASSUME NEW i \in 1 .. N PROVE f[i] = IF i = 1 THEN ss[i] ELSE f[i - 1] \o ss[i]
  <2>1. CASE i = 1
    BY <1>7, <1>9, <2>1
  <2>2. CASE i # 1
    <3>1. /\ i - 2 \in Nat /\ (i - 2) + 2 = i /\ (i - 2) + 1 = i - 1 /\ i - 1 \in 1 .. N
          /\ (i - 1) - 1 = i - 2
      BY <1>3, <2>2
    <3>2. f[i] = g[i - 1] /\ f[i - 1] = g[i - 2]
      BY <1>9, <3>1
    <3>3. g[i - 1] = g[i - 2] \o ss[i]
      BY <1>8, <3>1
    <3>4. QED
      BY <2>2, <3>2, <3>3
  <2>3. QED
    BY <2>1, <2>2
<1>11. f = [i \in 1 .. N |-> f[i]]
  BY <1>9
<1>12. f = [i \in 1 .. N |-> IF i = 1 THEN ss[i] ELSE f[i - 1] \o ss[i]]
  BY <1>10, <1>11
<1>13. FlattenFun(f, ss)
  BY <1>2, <1>12 DEF FlattenFun
<1>14. QED
  BY <1>13

LEMMA FlattenType ==
  ASSUME NEW S, NEW ss \in Seq(Seq(S))
  PROVE  FlattenSeq(ss) \in Seq(S)
<1>1. CASE Len(ss) = 0
  <2>1. FlattenSeq(ss) = ss /\ ss = <<>>
    BY <1>1 DEF FlattenSeq
  <2>2. QED
    BY <2>1
<1>2. CASE Len(ss) # 0
  <2>1. PICK f : f = CHOOSE x : FlattenFun(x, ss)
    OBVIOUS
  <2>2. FlattenFun(f, ss)
    BY <1>2, <2>1, FlattenFunExists
  <2>3. PICK N : N = Len(ss)
    OBVIOUS
  <2>4. N \in Nat /\ N # 0 /\ \A i \in 1 .. N : ss[i] \in Seq(S)
    BY <1>2, <2>3
  <2>5. \A i \in 1 .. N : f[i] = IF i = 1 THEN ss[i] ELSE f[i - 1] \o ss[i]
    BY <2>2, <2>3 DEF FlattenFun
  <2> DEFINE T == {n \in Nat : n + 1 \in 1 .. N => f[n + 1] \in Seq(S)}
  <2>6. 0 \in T
    <3>1. 0 + 1 = 1 /\ 1 \in 1 .. N
      BY <2>4
    <3>2. f[1] = ss[1]
      BY <2>5, <3>1
    <3>3. QED
      BY <2>4, <3>1, <3>2
  <2>7. ASSUME NEW n \in T PROVE n + 1 \in T
    <3>1. CASE (n + 1) + 1 \in 1 .. N
      <4>1. n + 1 \in 1 .. N /\ (n + 1) + 1 # 1 /\ ((n + 1) + 1) - 1 = n + 1
        BY <2>4, <3>1
      <4>2. f[(n + 1) + 1] = f[n + 1] \o ss[(n + 1) + 1]
        BY <2>5, <3>1, <4>1
      <4>3. f[n + 1] \in Seq(S) /\ ss[(n + 1) + 1] \in Seq(S)
        BY <2>4, <3>1, <4>1
      <4>4. f[n + 1] \o ss[(n + 1) + 1] \in Seq(S)
        BY <4>3, ConcatType
      <4>5. f[(n + 1) + 1] \in Seq(S)
        BY <4>2, <4>4
      <4>6. n + 1 \in Nat
        OBVIOUS
      <4>7. QED
        BY <4>5, <4>6
    <3>2. CASE (n + 1) + 1 \notin 1 .. N
      BY <3>2
    <3>3. QED
      BY <3>1, <3>2
  <2>8. T \in SUBSET Nat
    OBVIOUS
  <2> HIDE DEF T
  <2>9. T = Nat
    BY <2>6, <2>7, <2>8, Induction
  <2>10. N - 1 \in T /\ (N - 1) + 1 = N /\ N \in 1 .. N
    BY <2>4, <2>9
  <2>11. f[N] \in Seq(S)
    BY <2>10 DEF T
  <2>12. FlattenSeq(ss) = f[N]
    BY <1>2, <2>1, <2>3 DEF FlattenSeq, FlattenFun
  <2>13. QED
    BY <2>11, <2>12
<1>3. QED
  BY <1>1, <1>2

LEMMA ElementIn ==
  ASSUME NEW S, NEW s \in Seq(S)
  PROVE  /\ ToSet(s) \in SUBSET S
         /\ \A x : x \in ToSet(s) <=> \E n \in 1 .. Len(s) : s[n] = x
<1>1. DOMAIN s = 1 .. Len(s) /\ \A n \in DOMAIN s : s[n] \in S
  BY ElementType
<1>2. QED
  BY <1>1 DEF ToSet

\* What is in either of two sequences is in both together, and nothing else.
LEMMA ConcatHas ==
  ASSUME NEW S, NEW s \in Seq(S), NEW t \in Seq(S)
  PROVE  ToSet(s \o t) = ToSet(s) \cup ToSet(t)
<1>1. PICK q : q = s \o t
  OBVIOUS
<1>2. /\ q \in Seq(S) /\ Len(q) = Len(s) + Len(t) /\ Len(s) \in Nat /\ Len(t) \in Nat
      /\ \A n \in 1 .. Len(s) : q[n] = s[n]
      /\ \A n \in 1 .. Len(t) : q[Len(s) + n] = t[n]
  BY <1>1, ConcatFacts DEF Joined
<1>3. ASSUME NEW x \in ToSet(s) PROVE x \in ToSet(q)
  <2>1. PICK n \in 1 .. Len(s) : s[n] = x
    BY ElementIn
  <2>2. n \in 1 .. Len(q) /\ q[n] = x
    BY <1>2, <2>1
  <2>3. QED
    BY <1>2, <2>2, ElementIn
<1>4. ASSUME NEW x \in ToSet(t) PROVE x \in ToSet(q)
  <2>1. PICK n \in 1 .. Len(t) : t[n] = x
    BY ElementIn
  <2>2. Len(s) + n \in 1 .. Len(q) /\ q[Len(s) + n] = x
    BY <1>2, <2>1
  <2>3. QED
    BY <1>2, <2>2, ElementIn
<1>5. ASSUME NEW x \in ToSet(q) PROVE x \in ToSet(s) \cup ToSet(t)
  <2>1. PICK n \in 1 .. Len(q) : q[n] = x
    BY <1>2, ElementIn
  <2>2. CASE n <= Len(s)
    <3>1. n \in 1 .. Len(s) /\ s[n] = x
      BY <1>2, <2>1, <2>2
    <3>2. QED
      BY <3>1, ElementIn
  <2>3. CASE ~(n <= Len(s))
    <3>1. PICK m : m = n - Len(s)
      OBVIOUS
    <3>2. m \in 1 .. Len(t) /\ Len(s) + m = n
      BY <1>2, <2>1, <2>3, <3>1
    <3>3. t[m] = x
      BY <1>2, <2>1, <3>2
    <3>4. QED
      BY <3>2, <3>3, ElementIn
  <2>4. QED
    BY <2>2, <2>3
<1>6. QED
  BY <1>1, <1>3, <1>4, <1>5

\* Without its i-th element a sequence still has the others.
LEMMA RemoveAtHas ==
  ASSUME NEW S, NEW s \in Seq(S), NEW i \in 1 .. Len(s)
  PROVE  /\ ToSet(RemoveAt(s, i)) \subseteq ToSet(s)
         /\ \A x \in ToSet(s) : x # s[i] => x \in ToSet(RemoveAt(s, i))
<1>1. i \in Nat /\ i >= 1 /\ i <= Len(s) /\ Len(s) \in Nat /\ i - 1 \in Nat
  OBVIOUS
<1>2. PICK l, r : l = SubSeq(s, 1, i - 1) /\ r = SubSeq(s, i + 1, Len(s))
  OBVIOUS
<1>3. l \in Seq(S) /\ Len(l) = i - 1 /\ \A n \in 1 .. i - 1 : l[n] = s[n]
  BY <1>1, <1>2
<1>4. r \in Seq(S)
  BY <1>1, <1>2
<1>5. Len(r) = Len(s) - i
  BY <1>1, <1>2
<1>6. \A n \in 1 .. Len(s) - i : r[n] = s[i + n]
  BY <1>1, <1>2
<1>7. ToSet(RemoveAt(s, i)) = ToSet(l) \cup ToSet(r)
  <2>1. RemoveAt(s, i) = l \o r
    BY <1>2 DEF RemoveAt
  <2>2. ToSet(l \o r) = ToSet(l) \cup ToSet(r)
    BY <1>3, <1>4, ConcatHas
  <2>3. QED
    BY <2>1, <2>2
<1>8. ASSUME NEW x \in ToSet(l) PROVE x \in ToSet(s)
  <2>1. PICK n \in 1 .. i - 1 : s[n] = x
    BY <1>3, ElementIn
  <2>2. n \in 1 .. Len(s)
    BY <1>1
  <2>3. QED
    BY <2>1, <2>2, ElementIn
<1>9. ASSUME NEW x \in ToSet(r) PROVE x \in ToSet(s)
  <2>1. PICK n \in 1 .. Len(s) - i : s[i + n] = x
    BY <1>4, <1>5, <1>6, ElementIn
  <2>2. i + n \in 1 .. Len(s)
    BY <1>1
  <2>3. QED
    BY <2>1, <2>2, ElementIn
<1>10. ASSUME NEW x \in ToSet(s), x # s[i] PROVE x \in ToSet(l) \cup ToSet(r)
  <2>1. PICK n \in 1 .. Len(s) : s[n] = x
    BY ElementIn
  <2>2. CASE n < i
    <3>1. n \in 1 .. i - 1
      BY <1>1, <2>2
    <3>2. QED
      BY <1>3, <2>1, <3>1, ElementIn
  <2>3. CASE n > i
    <3>1. n - i \in 1 .. Len(s) - i /\ i + (n - i) = n
      BY <1>1, <2>3
    <3>2. r[n - i] = x
      BY <1>6, <2>1, <3>1
    <3>3. QED
      BY <1>4, <1>5, <3>1, <3>2, ElementIn
  <2>4. n # i
    BY <1>10, <2>1
  <2>5. QED
    BY <1>1, <2>2, <2>3, <2>4
<1>11. QED
  BY <1>7, <1>8, <1>9, <1>10

LEMMA SetToSeqOne ==
  ASSUME NEW x
  PROVE  SetToSeq({x}) = <<x>>
<1>1. PICK s : s = SetToSeq({x})
  OBVIOUS
<1>2. IsFiniteSet({x}) /\ Cardinality({x}) = 1
  BY FS_Singleton
<1>3. s \in [1 .. 1 -> {x}]
  BY <1>1, <1>2, SetToSeqFun
<1>4. s \in Seq({x})
  <2>1. PICK n \in Nat : n = 1
    OBVIOUS
  <2>2. s \in [1 .. n -> {x}]
    BY <1>3, <2>1
  <2>3. QED
    BY <2>2
<1>5. Len(s) = 1 /\ s[1] = x
  <2>1. DOMAIN s = 1 .. 1 /\ 1 \in 1 .. 1
    BY <1>3
  <2>2. s[1] \in {x}
    BY <1>3, <2>1
  <2>3. QED
    BY <1>4, <2>1, <2>2
<1>6. QED
  BY <1>1, <1>4, <1>5

LEMMA SetToSeqNone == SetToSeq({}) = <<>>
<1>1. PICK s : s = SetToSeq({})
  OBVIOUS
<1>2. IsFiniteSet({}) /\ Cardinality({}) = 0
  BY FS_EmptySet
<1>3. s \in [1 .. 0 -> {}]
  BY <1>1, <1>2, SetToSeqFun
<1>4. s \in Seq({})
  BY <1>3
<1>5. Len(s) = 0
  BY <1>3, <1>4
<1>6. QED
  BY <1>1, <1>4, <1>5

\* What is in one of the sequences is in all of them together.
LEMMA FlattenHas ==
  ASSUME NEW S, NEW ss \in Seq(Seq(S)), NEW m \in 1 .. Len(ss), NEW x \in ToSet(ss[m])
  PROVE  x \in ToSet(FlattenSeq(ss))
<1>1. PICK N : N = Len(ss)
  OBVIOUS
<1>2. N \in Nat /\ N # 0 /\ N >= m /\ m \in Nat /\ m >= 1 /\ \A i \in 1 .. N : ss[i] \in Seq(S)
  BY <1>1
<1>3. PICK f : f = CHOOSE g : FlattenFun(g, ss)
  OBVIOUS
<1>4. FlattenFun(f, ss)
  BY <1>1, <1>2, <1>3, FlattenFunExists
<1>5. \A i \in 1 .. N : f[i] = IF i = 1 THEN ss[i] ELSE f[i - 1] \o ss[i]
  BY <1>1, <1>4 DEF FlattenFun
<1> DEFINE T == {n \in Nat : n + 1 \in 1 .. N =>
                   f[n + 1] \in Seq(S) /\ (n + 1 >= m => x \in ToSet(f[n + 1]))}
<1>6. 0 \in T
  <2>1. 0 + 1 = 1 /\ 1 \in 1 .. N
    BY <1>2
  <2>2. f[1] = ss[1]
    BY <1>5, <2>1
  <2>3. 1 >= m => m = 1
    BY <1>2
  <2>4. QED
    BY <1>2, <2>1, <2>2, <2>3
<1>7. ASSUME NEW n \in T PROVE n + 1 \in T
  <2>1. CASE (n + 1) + 1 \in 1 .. N
    <3>1. PICK i \in Nat : i = n + 1
      OBVIOUS
    <3>2. i \in 1 .. N /\ i + 1 \in 1 .. N /\ i + 1 # 1 /\ (i + 1) - 1 = i
      BY <1>2, <2>1, <3>1
    <3>3. f[i + 1] = f[i] \o ss[i + 1]
      BY <1>5, <3>2
    <3>4. f[i] \in Seq(S) /\ (i >= m => x \in ToSet(f[i])) /\ ss[i + 1] \in Seq(S)
      BY <1>2, <3>1, <3>2
    <3>5. f[i + 1] \in Seq(S) /\ ToSet(f[i + 1]) = ToSet(f[i]) \cup ToSet(ss[i + 1])
      BY <3>3, <3>4, ConcatType, ConcatHas
    <3>6. i + 1 >= m => (i >= m \/ i + 1 = m)
      BY <1>2
    <3>7. i + 1 >= m => x \in ToSet(f[i + 1])
      BY <3>4, <3>5, <3>6
    <3>8. QED
      BY <3>1, <3>5, <3>7
  <2>2. CASE (n + 1) + 1 \notin 1 .. N
    BY <2>2
  <2>3. QED
    BY <2>1, <2>2
<1>8. T \in SUBSET Nat
  OBVIOUS
<1> HIDE DEF T
<1>9. T = Nat
  BY <1>6, <1>7, <1>8, Induction
<1>10. N - 1 \in T /\ (N - 1) + 1 = N /\ N \in 1 .. N
  BY <1>2, <1>9
<1>11. x \in ToSet(f[N])
  BY <1>2, <1>10 DEF T
<1>12. FlattenSeq(ss) = f[N]
  BY <1>1, <1>2, <1>3 DEF FlattenSeq, FlattenFun
<1>13. QED
  BY <1>11, <1>12

\* A sequence that has nothing twice has as many elements as places.
LEMMA OnceCounts ==
  ASSUME NEW S, NEW s \in Seq(S), \A m, n \in 1 .. Len(s) : m < n => s[m] # s[n]
  PROVE  IsFiniteSet(ToSet(s)) /\ Cardinality(ToSet(s)) = Len(s)
<1>1. PICK N \in Nat : N = Len(s) /\ DOMAIN s = 1 .. N
  OBVIOUS
<1>2. PICK I : I = 1 .. N
  OBVIOUS
<1>3. PICK C : C = ToSet(s)
  OBVIOUS
<1>4. C = {s[n] : n \in I}
  BY <1>1, <1>2, <1>3 DEF ToSet
<1>5. s \in [I -> C]
  BY <1>1, <1>2, <1>4
<1>6. ASSUME NEW m \in I, NEW n \in I, s[m] = s[n] PROVE m = n
  <2>1. m \in 1 .. N /\ n \in 1 .. N /\ ~(m < n) /\ ~(n < m)
    BY <1>1, <1>2, <1>6
  <2>2. QED
    BY <2>1
<1>7. s \in Bijection(I, C)
  <2>1. s \in Injection(I, C)
    BY <1>5, <1>6 DEF Injection, IsInjective
  <2>2. s \in Surjection(I, C)
    BY <1>4, <1>5 DEF Surjection
  <2>3. QED
    BY <2>1, <2>2 DEF Bijection
<1>8. ExistsBijection(I, C)
  BY <1>7 DEF ExistsBijection
<1>9. IsFiniteSet(I) /\ Cardinality(I) = N
  BY <1>2, FS_Interval
<1>10. IsFiniteSet(C) /\ Cardinality(C) = N
  BY <1>8, <1>9, FS_Bijection
<1>11. QED
  BY <1>1, <1>3, <1>10

\* Two sequences that have nothing twice: the shorter cannot have more.
LEMMA NoMoreThan ==
  ASSUME NEW S, NEW s \in Seq(S), \A m, n \in 1 .. Len(s) : m < n => s[m] # s[n],
         NEW t \in Seq(S), \A m, n \in 1 .. Len(t) : m < n => t[m] # t[n],
         ToSet(s) \subseteq ToSet(t)
  PROVE  Len(s) <= Len(t) /\ (Len(s) = Len(t) => ToSet(s) = ToSet(t))
<1>1. PICK A : A = ToSet(s)
  OBVIOUS
<1>2. PICK B : B = ToSet(t)
  OBVIOUS
<1>3. IsFiniteSet(A) /\ Cardinality(A) = Len(s)
  BY <1>1, OnceCounts
<1>4. IsFiniteSet(B) /\ Cardinality(B) = Len(t)
  BY <1>2, OnceCounts
<1>5. Cardinality(A) <= Cardinality(B) /\ (Cardinality(A) = Cardinality(B) => A = B)
  BY <1>1, <1>2, <1>4, FS_Subset
<1>6. QED
  BY <1>1, <1>2, <1>3, <1>4, <1>5

==============================================================================
