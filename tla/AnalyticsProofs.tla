--------------------------- MODULE AnalyticsProofs ---------------------------
(***************************************************************************)
(* Proofs about the analytic modules, for every value of their constants.  *)
(***************************************************************************)
EXTENDS Analytics, SequenceFacts

------------------------------------------------------------------------------
(* Sums over finite sets, which the community modules fold.                   *)

(* One of a set, as the fold picks it. *)
Some(s) == CHOOSE x \in s : TRUE

\* The equation of the fold over the subsets of S.
Folded(g, f, S) ==
  g = [s \in SUBSET S |-> IF s = {} THEN 0 ELSE f[Some(s)] + g[s \ {Some(s)}]]

IntsOn(f, S) == \A x \in S : f[x] \in Int

LEMMA SumFolds ==
  ASSUME NEW f, NEW S
  PROVE  SumFunctionOnSet(f, S) = (CHOOSE g : Folded(g, f, S))[S]
BY DEF SumFunctionOnSet, FoldFunctionOnSet, MapThenFoldSet, Folded, Some

LEMMA SomeIn ==
  ASSUME NEW s, s # {}
  PROVE  Some(s) \in s
BY DEF Some

LEMMA FoldExists ==
  ASSUME NEW S, IsFiniteSet(S), NEW f, IntsOn(f, S)
  PROVE  \E g : Folded(g, f, S)
<1> DEFINE D == [SUBSET S -> Int]
           zero == [s \in SUBSET S |-> 0]
           next(h) == [s \in SUBSET S |-> IF s = {} THEN 0 ELSE f[Some(s)] + h[s \ {Some(s)}]]
           step == [h \in D |-> next(h)]
<1>1. zero \in D
  OBVIOUS
<1>2. step \in [D -> D]
  <2>1. ASSUME NEW h \in D PROVE next(h) \in D
    <3>1. ASSUME NEW s \in SUBSET S, s # {} PROVE f[Some(s)] + h[s \ {Some(s)}] \in Int
      <4>1. Some(s) \in S /\ s \ {Some(s)} \in SUBSET S
        BY <3>1, SomeIn
      <4>2. f[Some(s)] \in Int /\ h[s \ {Some(s)}] \in Int
        BY <4>1 DEF IntsOn
      <4>3. QED
        BY <4>2
    <3>2. QED
      BY <3>1
  <2> HIDE DEF D, next
  <2>2. QED
    BY <2>1
<1>3. PICK h \in [Nat -> D] : h[0] = zero /\ \A n \in Nat : h[n + 1] = step[h[n]]
  <2> HIDE DEF D, zero, step
  <2>1. QED
    BY <1>1, <1>2, Recursion
<1> DEFINE g == [s \in SUBSET S |-> h[Cardinality(s)][s]]
<1>4. ASSUME NEW s \in SUBSET S, s # {} PROVE g[s] = f[Some(s)] + g[s \ {Some(s)}]
  <2>1. Some(s) \in s /\ s \ {Some(s)} \in SUBSET S
    BY <1>4, SomeIn
  <2>2. IsFiniteSet(s) /\ Cardinality(s) \in Nat /\ Cardinality(s) # 0
    BY <1>4, FS_Subset, FS_CardinalityType, FS_EmptySet
  <2>3. PICK n \in Nat : Cardinality(s) = n + 1
    <3>1. Cardinality(s) - 1 \in Nat /\ Cardinality(s) = (Cardinality(s) - 1) + 1
      BY <2>2
    <3>2. QED
      BY <3>1
  <2>4. Cardinality(s \ {Some(s)}) = n
    BY <2>1, <2>2, <2>3, OneLess
  <2>5. h[n] \in D /\ h[n + 1] = next(h[n])
    BY <1>3
  <2>6. g[s] = next(h[n])[s]
    BY <2>3, <2>5
  <2>7. g[s \ {Some(s)}] = h[n][s \ {Some(s)}]
    BY <2>1, <2>4
  <2>8. next(h[n])[s] = f[Some(s)] + h[n][s \ {Some(s)}]
    BY <1>4
  <2>9. QED
    BY <2>6, <2>7, <2>8
<1>5. g[{}] = 0
  BY <1>3, FS_EmptySet
<1>6. Folded(g, f, S)
  <2>1. g = [s \in SUBSET S |-> g[s]]
    OBVIOUS
  <2>2. \A s \in SUBSET S : g[s] = IF s = {} THEN 0 ELSE f[Some(s)] + g[s \ {Some(s)}]
    BY <1>4, <1>5
  <2> HIDE DEF g
  <2>3. QED
    BY <2>1, <2>2 DEF Folded
<1>7. QED
  BY <1>6

IntFold(g, f, S) ==
  /\ g[{}] = 0
  /\ \A s \in SUBSET S : s # {} => g[s] = f[Some(s)] + g[s \ {Some(s)}]
  /\ \A s \in SUBSET S : g[s] \in Int

LEMMA FoldType ==
  ASSUME NEW S, IsFiniteSet(S), NEW f, IntsOn(f, S), NEW g, Folded(g, f, S)
  PROVE  IntFold(g, f, S)
<1>1. g[{}] = 0
  BY DEF Folded
<1>2. \A s \in SUBSET S : s # {} => g[s] = f[Some(s)] + g[s \ {Some(s)}]
  BY DEF Folded
<1> DEFINE T == {n \in Nat : \A s \in SUBSET S : Cardinality(s) = n => g[s] \in Int}
<1>3. \A s \in SUBSET S : IsFiniteSet(s) /\ Cardinality(s) \in Nat
  BY FS_Subset, FS_CardinalityType
<1>4. 0 \in T
  BY <1>1, <1>3, FS_EmptySet
<1>5. ASSUME NEW n \in T PROVE n + 1 \in T
  <2>1. n \in Nat /\ \A s \in SUBSET S : Cardinality(s) = n => g[s] \in Int
    OBVIOUS
  <2>2. ASSUME NEW s \in SUBSET S, Cardinality(s) = n + 1 PROVE g[s] \in Int
    <3>1. s # {} /\ \A x \in s : Cardinality(s \ {x}) = n
      BY <1>3, <2>1, <2>2, OneLess
    <3>2. PICK x \in s : x = Some(s)
      BY <3>1, SomeIn
    <3>3. g[s] = f[x] + g[s \ {x}]
      BY <1>2, <3>1, <3>2
    <3>4. s \ {x} \in SUBSET S /\ Cardinality(s \ {x}) = n
      BY <3>1
    <3>5. f[x] \in Int /\ g[s \ {x}] \in Int
      BY <2>1, <3>4 DEF IntsOn
    <3>6. QED
      BY <3>3, <3>5
  <2>3. QED
    BY <2>1, <2>2
<1>6. T = Nat
  <2>1. T \in SUBSET Nat
    OBVIOUS
  <2> HIDE DEF T
  <2>2. QED
    BY <1>4, <1>5, <2>1, Induction
<1>7. \A s \in SUBSET S : g[s] \in Int
  BY <1>3, <1>6
<1>8. QED
  BY <1>1, <1>2, <1>7 DEF IntFold

(* The fold may take any element first. *)
TakesAny(g, f, S) == \A s \in SUBSET S : \A y \in s : g[s] = f[y] + g[s \ {y}]

LEMMA FoldTakesAny ==
  ASSUME NEW S, IsFiniteSet(S), NEW f, IntsOn(f, S), NEW g, Folded(g, f, S)
  PROVE  TakesAny(g, f, S)
<1>1. /\ \A s \in SUBSET S : s # {} => g[s] = f[Some(s)] + g[s \ {Some(s)}]
      /\ \A s \in SUBSET S : g[s] \in Int
  <2>1. IntFold(g, f, S)
    BY FoldType
  <2>2. QED
    BY <2>1 DEF IntFold
<1> DEFINE EachWay(s) == \A y \in s : g[s] = f[y] + g[s \ {y}]
           T == {n \in Nat : \A s \in SUBSET S : Cardinality(s) = n => EachWay(s)}
<1>2. \A s \in SUBSET S : IsFiniteSet(s) /\ Cardinality(s) \in Nat
  BY FS_Subset, FS_CardinalityType
<1>3. 0 \in T
  BY <1>2, FS_EmptySet
<1>4. ASSUME NEW n \in T PROVE n + 1 \in T
  <2>1. n \in Nat /\ \A s \in SUBSET S : Cardinality(s) = n => EachWay(s)
    OBVIOUS
  <2>2. ASSUME NEW s \in SUBSET S, Cardinality(s) = n + 1, NEW y \in s
        PROVE  g[s] = f[y] + g[s \ {y}]
    <3>2. PICK x \in s : x = Some(s)
      BY SomeIn
    <3>3. g[s] = f[x] + g[s \ {x}]
      BY <1>1, <3>2
    <3>4. \A z \in s : s \ {z} \in SUBSET S /\ Cardinality(s \ {z}) = n
      BY <1>2, <2>1, <2>2, OneLess
    <3>5. \A z \in s : EachWay(s \ {z})
      BY <2>1, <3>4
    <3>6. CASE y # x
      <4>1. g[s \ {x}] = f[y] + g[(s \ {x}) \ {y}]
        BY <3>5, <3>6
      <4>2. g[s \ {y}] = f[x] + g[(s \ {y}) \ {x}]
        BY <3>5, <3>6
      <4>3. (s \ {x}) \ {y} = (s \ {y}) \ {x} /\ (s \ {x}) \ {y} \in SUBSET S
        OBVIOUS
      <4>4. f[x] \in Int /\ f[y] \in Int /\ g[(s \ {x}) \ {y}] \in Int
        BY <1>1, <4>3 DEF IntsOn
      <4>7. PICK a \in Int, b \in Int, c \in Int :
              a = f[x] /\ b = f[y] /\ c = g[(s \ {x}) \ {y}]
        BY <4>4
      <4>8. f[x] + g[s \ {x}] = a + (b + c) /\ f[y] + g[s \ {y}] = b + (a + c)
        BY <4>1, <4>2, <4>3, <4>7
      <4>9. a + (b + c) = b + (a + c)
        OBVIOUS
      <4>5. f[x] + g[s \ {x}] = f[y] + g[s \ {y}]
        BY <4>8, <4>9
      <4>6. QED
        BY <3>3, <4>5
    <3>7. QED
      BY <3>3, <3>6
  <2>3. QED
    BY <2>1, <2>2
<1>5. T = Nat
  <2>1. T \in SUBSET Nat
    OBVIOUS
  <2> HIDE DEF T
  <2>2. QED
    BY <1>3, <1>4, <2>1, Induction
<1>6. QED
  BY <1>2, <1>5 DEF TakesAny

(* Two folds agree where both are defined. *)
LEMMA FoldsAgree ==
  ASSUME NEW S, IsFiniteSet(S), NEW R \in SUBSET S, NEW f, IntsOn(f, S),
         NEW g, Folded(g, f, S), NEW h, Folded(h, f, R)
  PROVE  \A s \in SUBSET R : g[s] = h[s]
<1> DEFINE F == {s \in SUBSET R : g[s] = h[s]}
<1>1. /\ IsFiniteSet(R) /\ IntsOn(f, R)
      /\ g[{}] = 0 /\ h[{}] = 0
  <2>1. IsFiniteSet(R) /\ IntsOn(f, R)
    BY FS_Subset DEF IntsOn
  <2>2. IntFold(g, f, S) /\ IntFold(h, f, R)
    BY <2>1, FoldType
  <2>3. QED
    BY <2>1, <2>2 DEF IntFold
<1>2. \A s \in SUBSET S : \A y \in s : g[s] = f[y] + g[s \ {y}]
  <2>1. TakesAny(g, f, S)
    BY FoldTakesAny
  <2>2. QED
    BY <2>1 DEF TakesAny
<1>3. \A s \in SUBSET R : \A y \in s : h[s] = f[y] + h[s \ {y}]
  <2>1. TakesAny(h, f, R)
    BY <1>1, FoldTakesAny
  <2>2. QED
    BY <2>1 DEF TakesAny
<1>4. {} \in F
  BY <1>1
<1>5. ASSUME NEW s \in F, NEW x \in R \ s PROVE s \cup {x} \in F
  <2>1. (s \cup {x}) \ {x} = s /\ s \cup {x} \in SUBSET R /\ x \in s \cup {x}
    OBVIOUS
  <2>2. g[s \cup {x}] = f[x] + g[s] /\ h[s \cup {x}] = f[x] + h[s]
    BY <1>2, <1>3, <2>1
  <2>3. QED
    BY <2>1, <2>2
<1>6. F \in SUBSET (SUBSET R)
  OBVIOUS
<1> HIDE DEF F
<1>7. \A s \in SUBSET R : s \in F
  BY <1>1, <1>4, <1>5, <1>6, FiniteInduction
<1>8. QED
  BY <1>7 DEF F

(* What the sum is: nothing for no index, and each index adds its number. *)
LEMMA SumOf ==
  ASSUME NEW S, IsFiniteSet(S), NEW f, IntsOn(f, S)
  PROVE  /\ SumFunctionOnSet(f, {}) = 0
         /\ \A s \in SUBSET S : SumFunctionOnSet(f, s) \in Int
         /\ \A s \in SUBSET S : \A x \in S \ s :
              SumFunctionOnSet(f, s \cup {x}) = f[x] + SumFunctionOnSet(f, s)
<1> DEFINE fold(s) == CHOOSE g : Folded(g, f, s)
<1>1. ASSUME NEW s \in SUBSET S PROVE Folded(fold(s), f, s)
  <2>1. IsFiniteSet(s) /\ IntsOn(f, s)
    BY FS_Subset DEF IntsOn
  <2>3. \E g : Folded(g, f, s)
    BY <2>1, FoldExists
  <2>2. QED
    BY <2>3
<1>2. \A s : SumFunctionOnSet(f, s) = fold(s)[s]
  BY SumFolds
<1> HIDE DEF fold
<1>3. Folded(fold(S), f, S)
  BY <1>1
<1>4. ASSUME NEW s \in SUBSET S PROVE SumFunctionOnSet(f, s) = fold(S)[s]
  <2>1. Folded(fold(s), f, s)
    BY <1>1
  <2>2. fold(S)[s] = fold(s)[s]
    BY <1>3, <2>1, FoldsAgree
  <2>3. QED
    BY <1>2, <2>2
<1>5. fold(S)[{}] = 0 /\ \A s \in SUBSET S : fold(S)[s] \in Int
  <2>1. IntFold(fold(S), f, S)
    BY <1>3, FoldType
  <2>2. QED
    BY <2>1 DEF IntFold
<1>6. \A s \in SUBSET S : \A y \in s : fold(S)[s] = f[y] + fold(S)[s \ {y}]
  <2>1. TakesAny(fold(S), f, S)
    BY <1>3, FoldTakesAny
  <2>2. QED
    BY <2>1 DEF TakesAny
<1>7. ASSUME NEW s \in SUBSET S, NEW x \in S \ s
      PROVE  SumFunctionOnSet(f, s \cup {x}) = f[x] + SumFunctionOnSet(f, s)
  <2>1. (s \cup {x}) \ {x} = s /\ s \cup {x} \in SUBSET S /\ x \in s \cup {x}
    OBVIOUS
  <2>2. QED
    BY <1>4, <1>6, <2>1
<1>8. QED
  BY <1>4, <1>5, <1>7

SumsUp(f, S) ==
  /\ SumFunctionOnSet(f, {}) = 0
  /\ \A s \in SUBSET S : SumFunctionOnSet(f, s) \in Int
  /\ \A s \in SUBSET S : \A x \in S \ s :
       SumFunctionOnSet(f, s \cup {x}) = f[x] + SumFunctionOnSet(f, s)

LEMMA Sums ==
  ASSUME NEW S, IsFiniteSet(S), NEW f, IntsOn(f, S)
  PROVE  SumsUp(f, S)
BY SumOf DEF SumsUp

(* A sum is an integer, and a natural number when the numbers are. *)
LEMMA SumType ==
  ASSUME NEW S, IsFiniteSet(S), NEW f, IntsOn(f, S)
  PROVE  SumFunctionOnSet(f, S) \in Int
<1>1. SumsUp(f, S)
  BY Sums
<1>2. QED
  BY <1>1 DEF SumsUp

LEMMA SumAtMost ==
  ASSUME NEW S, IsFiniteSet(S), NEW f, IntsOn(f, S), NEW g, IntsOn(g, S),
         \A x \in S : f[x] <= g[x]
  PROVE  SumFunctionOnSet(f, S) <= SumFunctionOnSet(g, S)
<1> DEFINE F == {s \in SUBSET S : SumFunctionOnSet(f, s) <= SumFunctionOnSet(g, s)}
<1>1. SumsUp(f, S) /\ SumsUp(g, S)
  BY Sums
<1>2. {} \in F
  BY <1>1 DEF SumsUp
<1>3. ASSUME NEW s \in F, NEW x \in S \ s PROVE s \cup {x} \in F
  <2>1. /\ SumFunctionOnSet(f, s \cup {x}) = f[x] + SumFunctionOnSet(f, s)
        /\ SumFunctionOnSet(g, s \cup {x}) = g[x] + SumFunctionOnSet(g, s)
        /\ SumFunctionOnSet(f, s) \in Int /\ SumFunctionOnSet(g, s) \in Int
    BY <1>1 DEF SumsUp
  <2>2. f[x] \in Int /\ g[x] \in Int /\ f[x] <= g[x]
        /\ SumFunctionOnSet(f, s) <= SumFunctionOnSet(g, s)
    BY DEF IntsOn
  <2>3. SumFunctionOnSet(f, s \cup {x}) <= SumFunctionOnSet(g, s \cup {x})
    BY <2>1, <2>2
  <2>4. QED
    BY <2>3
<1>4. F \in SUBSET (SUBSET S)
  OBVIOUS
<1> HIDE DEF F
<1>5. \A s \in SUBSET S : s \in F
  BY <1>2, <1>3, <1>4, FiniteInduction
<1>6. QED
  BY <1>5 DEF F

LEMMA SumPlus ==
  ASSUME NEW S, IsFiniteSet(S), NEW f, IntsOn(f, S), NEW g, IntsOn(g, S),
         NEW h, \A x \in S : h[x] = f[x] + g[x]
  PROVE  SumFunctionOnSet(h, S) = SumFunctionOnSet(f, S) + SumFunctionOnSet(g, S)
<1> DEFINE F == {s \in SUBSET S :
              SumFunctionOnSet(h, s) = SumFunctionOnSet(f, s) + SumFunctionOnSet(g, s)}
<1>0. IntsOn(h, S)
  BY DEF IntsOn
<1>1. SumsUp(f, S) /\ SumsUp(g, S) /\ SumsUp(h, S)
  BY <1>0, Sums
<1>2. {} \in F
  BY <1>1 DEF SumsUp
<1>3. ASSUME NEW s \in F, NEW x \in S \ s PROVE s \cup {x} \in F
  <2>1. /\ SumFunctionOnSet(f, s \cup {x}) = f[x] + SumFunctionOnSet(f, s)
        /\ SumFunctionOnSet(g, s \cup {x}) = g[x] + SumFunctionOnSet(g, s)
        /\ SumFunctionOnSet(h, s \cup {x}) = h[x] + SumFunctionOnSet(h, s)
        /\ SumFunctionOnSet(f, s) \in Int /\ SumFunctionOnSet(g, s) \in Int
    BY <1>1 DEF SumsUp
  <2>2. f[x] \in Int /\ g[x] \in Int /\ h[x] = f[x] + g[x]
        /\ SumFunctionOnSet(h, s) = SumFunctionOnSet(f, s) + SumFunctionOnSet(g, s)
    BY DEF IntsOn
  <2>3. SumFunctionOnSet(h, s \cup {x})
          = SumFunctionOnSet(f, s \cup {x}) + SumFunctionOnSet(g, s \cup {x})
    BY <2>1, <2>2
  <2>4. QED
    BY <2>3
<1>4. F \in SUBSET (SUBSET S)
  OBVIOUS
<1> HIDE DEF F
<1>5. \A s \in SUBSET S : s \in F
  BY <1>2, <1>3, <1>4, FiniteInduction
<1>6. QED
  BY <1>5 DEF F

LEMMA SumTimes ==
  ASSUME NEW S, IsFiniteSet(S), NEW f, IntsOn(f, S), NEW c \in Int,
         NEW h, \A x \in S : h[x] = c * f[x]
  PROVE  SumFunctionOnSet(h, S) = c * SumFunctionOnSet(f, S)
<1> DEFINE F == {s \in SUBSET S : SumFunctionOnSet(h, s) = c * SumFunctionOnSet(f, s)}
<1>0. IntsOn(h, S)
  <2>1. \A m \in Int : c * m \in Int
    OBVIOUS
  <2>2. QED
    BY <2>1 DEF IntsOn
<1>1. SumsUp(f, S) /\ SumsUp(h, S)
  BY <1>0, Sums
<1>2. {} \in F
  <2>1. c * 0 = 0
    OBVIOUS
  <2>2. QED
    BY <1>1, <2>1 DEF SumsUp
<1>3. ASSUME NEW s \in F, NEW x \in S \ s PROVE s \cup {x} \in F
  <2>1. /\ SumFunctionOnSet(f, s \cup {x}) = f[x] + SumFunctionOnSet(f, s)
        /\ SumFunctionOnSet(h, s \cup {x}) = h[x] + SumFunctionOnSet(h, s)
        /\ SumFunctionOnSet(f, s) \in Int
    BY <1>1 DEF SumsUp
  <2>2. f[x] \in Int /\ h[x] = c * f[x] /\ SumFunctionOnSet(h, s) = c * SumFunctionOnSet(f, s)
    BY DEF IntsOn
  <2>3. PICK a \in Int, b \in Int : a = f[x] /\ b = SumFunctionOnSet(f, s)
    BY <2>1, <2>2
  <2>4. c * a + c * b = c * (a + b)
    OBVIOUS
  <2>5. SumFunctionOnSet(h, s \cup {x}) = c * SumFunctionOnSet(f, s \cup {x})
    BY <2>1, <2>2, <2>3, <2>4
  <2>6. QED
    BY <2>5
<1>4. F \in SUBSET (SUBSET S)
  OBVIOUS
<1> HIDE DEF F
<1>5. \A s \in SUBSET S : s \in F
  BY <1>2, <1>3, <1>4, FiniteInduction
<1>6. QED
  BY <1>5 DEF F

(* A sum of ones counts. *)
LEMMA SumCounts ==
  ASSUME NEW S, IsFiniteSet(S), NEW A \in SUBSET S, NEW h,
         \A x \in S : h[x] = IF x \in A THEN 1 ELSE 0
  PROVE  SumFunctionOnSet(h, S) = Cardinality(A)
<1> DEFINE F == {s \in SUBSET S : SumFunctionOnSet(h, s) = Cardinality(A \cap s)}
<1>0. IntsOn(h, S)
  BY DEF IntsOn
<1>1. SumsUp(h, S)
  BY <1>0, Sums
<1>2. {} \in F
  <2>1. A \cap {} = {}
    OBVIOUS
  <2>2. QED
    BY <1>1, <2>1, FS_EmptySet DEF SumsUp
<1>3. ASSUME NEW s \in F, NEW x \in S \ s PROVE s \cup {x} \in F
  <2>1. SumFunctionOnSet(h, s \cup {x}) = h[x] + SumFunctionOnSet(h, s)
    BY <1>1 DEF SumsUp
  <2>2. SumFunctionOnSet(h, s) = Cardinality(A \cap s)
    OBVIOUS
  <2>3. IsFiniteSet(A \cap s) /\ Cardinality(A \cap s) \in Nat
    BY FS_Subset, FS_CardinalityType
  <2>4. CASE x \in A
    <3>1. A \cap (s \cup {x}) = (A \cap s) \cup {x} /\ x \notin A \cap s
      BY <2>4
    <3>2. Cardinality(A \cap (s \cup {x})) = Cardinality(A \cap s) + 1
      BY <2>3, <3>1, FS_AddElement
    <3>3. QED
      BY <2>1, <2>2, <2>3, <2>4, <3>2
  <2>5. CASE x \notin A
    <3>1. A \cap (s \cup {x}) = A \cap s
      BY <2>5
    <3>2. h[x] = 0
      BY <2>5
    <3>3. SumFunctionOnSet(h, s \cup {x}) = Cardinality(A \cap s)
      BY <2>1, <2>2, <2>3, <3>2
    <3>4. QED
      BY <3>1, <3>3
  <2>6. QED
    BY <2>4, <2>5
<1>4. F \in SUBSET (SUBSET S)
  OBVIOUS
<1> HIDE DEF F
<1>5. \A s \in SUBSET S : s \in F
  BY <1>2, <1>3, <1>4, FiniteInduction
<1>6. A \cap S = A
  OBVIOUS
<1>7. QED
  BY <1>5, <1>6 DEF F

LEMMA SumNat ==
  ASSUME NEW S, IsFiniteSet(S), NEW f, \A x \in S : f[x] \in Nat
  PROVE  SumFunctionOnSet(f, S) \in Nat /\ \A x \in S : f[x] <= SumFunctionOnSet(f, S)
<1> DEFINE F == {s \in SUBSET S : /\ SumFunctionOnSet(f, s) \in Nat
                                  /\ \A x \in s : f[x] <= SumFunctionOnSet(f, s)}
<1>0. IntsOn(f, S)
  BY DEF IntsOn
<1>1. SumsUp(f, S)
  BY <1>0, Sums
<1>2. {} \in F
  BY <1>1 DEF SumsUp
<1>3. ASSUME NEW s \in F, NEW x \in S \ s PROVE s \cup {x} \in F
  <2>1. SumFunctionOnSet(f, s \cup {x}) = f[x] + SumFunctionOnSet(f, s)
    BY <1>1 DEF SumsUp
  <2>2. f[x] \in Nat /\ SumFunctionOnSet(f, s) \in Nat
    OBVIOUS
  <2>3. \A y \in s : f[y] \in Nat /\ f[y] <= SumFunctionOnSet(f, s)
    OBVIOUS
  <2>4. PICK m \in Nat : m = SumFunctionOnSet(f, s)
    BY <2>2
  <2>5. \A y \in s \cup {x} : f[y] <= f[x] + m
    BY <2>2, <2>3, <2>4
  <2>6. QED
    BY <2>1, <2>2, <2>4, <2>5
<1>4. F \in SUBSET (SUBSET S)
  OBVIOUS
<1> HIDE DEF F
<1>5. \A s \in SUBSET S : s \in F
  BY <1>2, <1>3, <1>4, FiniteInduction
<1>6. QED
  BY <1>5 DEF F

(* The sum looks at its indices alone. *)
LEMMA SumSame ==
  ASSUME NEW S, IsFiniteSet(S), NEW f, IntsOn(f, S), NEW g, \A x \in S : f[x] = g[x]
  PROVE  SumFunctionOnSet(f, S) = SumFunctionOnSet(g, S)
<1>1. PICK zero : zero = [x \in S |-> 0]
  OBVIOUS
<1>2. /\ IntsOn(zero, S) /\ \A x \in S : g[x] = f[x] + zero[x]
      /\ \A x \in S : zero[x] = IF x \in {} THEN 1 ELSE 0
  BY <1>1 DEF IntsOn
<1>3. SumFunctionOnSet(zero, S) = 0
  <2>1. SumFunctionOnSet(zero, S) = Cardinality({})
    BY <1>2, SumCounts
  <2>2. QED
    BY <2>1, FS_EmptySet
<1>4. SumFunctionOnSet(g, S) = SumFunctionOnSet(f, S) + SumFunctionOnSet(zero, S)
  BY <1>2, SumPlus
<1>5. SumFunctionOnSet(f, S) \in Int
  BY SumType
<1>6. QED
  BY <1>3, <1>4, <1>5

------------------------------------------------------------------------------
(* The greedy assignment of M07.                                              *)

LEMMA DispatchConstants ==
  ASSUME NEW u \in Units, NEW i \in Incidents
  PROVE  /\ u \in Nat /\ i \in Nat /\ Eta[<<u, i>>] \in Nat
         /\ Rci[i] \in Nat /\ Bias[i] \in Nat /\ Cascade[i] \in Nat /\ Centrality[i] \in Nat
<1>1. /\ Units \subseteq Nat /\ Incidents \subseteq Nat
      /\ Eta \in [Units \X Incidents -> Nat]
      /\ Rci \in [Incidents -> Nat] /\ Bias \in [Incidents -> Nat]
      /\ Cascade \in [Incidents -> Nat] /\ Centrality \in [Incidents -> Nat]
  BY DispatchAssumption
<1>2. <<u, i>> \in Units \X Incidents
  OBVIOUS
<1>3. QED
  BY <1>1, <1>2

(* A cost is an integer, and the bonus of a tow unit is all it can be below 0. *)
LEMMA CostType ==
  ASSUME NEW u \in Units, NEW i \in Incidents
  PROVE  PairCost(u, i) \in Int /\ PairCost(u, i) + 500 \in Nat
<1>1. /\ Eta[<<u, i>>] \in Nat /\ Rci[i] \in Nat /\ Bias[i] \in Nat
      /\ Cascade[i] \in Nat /\ Centrality[i] \in Nat
  BY DispatchConstants
<1>2. Least(Bias[i], 3) \in Nat
  BY <1>1 DEF Least
<1>3. Rci[i] * Least(Bias[i], 3) \in Nat
  <2>1. \A a, b \in Nat : a * b \in Nat
    OBVIOUS
  <2>2. QED
    BY <1>1, <1>2, <2>1
<1>4. EffectiveRci(i) \in Nat
  BY <1>3 DEF EffectiveRci, Least
<1>5. HeavyTowBonus(u, i) \in {0, 500}
  BY DEF HeavyTowBonus
<1>6. PICK e \in Nat, a \in Nat, b \in Nat, c \in Nat, h \in {0, 500} :
        /\ e = Eta[<<u, i>>] /\ a = EffectiveRci(i) /\ b = Centrality[i] /\ c = Cascade[i]
        /\ h = HeavyTowBonus(u, i)
  BY <1>1, <1>4, <1>5
<1>7. PICK w \in {0, 10000} : w = IF i \in HeavyTow /\ u \notin Tow THEN 10000 ELSE 0
  OBVIOUS
<1>8. PairCost(u, i) = 1000 * e + 40 * a + 25 * b + 35 * c - h + w
  BY <1>6, <1>7 DEF PairCost
<1>9. QED
  BY <1>8

(* Of some pairs one comes first. *)
LEMMA LeastPair ==
  ASSUME NEW pairs \in SUBSET (Units \X Incidents), pairs # {}
  PROVE  \E p \in pairs : \A q \in pairs : Before(p, q)
<1>1. \A p \in pairs : /\ p[1] \in Units /\ p[2] \in Incidents /\ p[1] \in Nat /\ p[2] \in Nat
                       /\ PairCost(p[1], p[2]) \in Int /\ PairCost(p[1], p[2]) + 500 \in Nat
  <2>1. \A p \in pairs : p[1] \in Units /\ p[2] \in Incidents
    OBVIOUS
  <2>2. QED
    BY <2>1, CostType, DispatchConstants
<1>2. PICK p1 \in pairs : \A q \in pairs : PairCost(p1[1], p1[2]) <= PairCost(q[1], q[2])
  <2> DEFINE T == {PairCost(p[1], p[2]) + 500 : p \in pairs}
  <2>1. T \in SUBSET Nat /\ T # {}
    BY <1>1
  <2>2. PICK m \in T : \A n \in T : m <= n
    BY <2>1, LeastNumber
  <2>3. PICK p1 \in pairs : m = PairCost(p1[1], p1[2]) + 500
    OBVIOUS
  <2>4. ASSUME NEW q \in pairs PROVE PairCost(p1[1], p1[2]) <= PairCost(q[1], q[2])
    <3>1. PairCost(q[1], q[2]) + 500 \in T
      OBVIOUS
    <3>2. PairCost(p1[1], p1[2]) + 500 <= PairCost(q[1], q[2]) + 500
      BY <2>2, <2>3, <3>1
    <3>3. QED
      BY <1>1, <3>2
  <2>5. QED
    BY <2>4
<1> DEFINE cheap == {p \in pairs : PairCost(p[1], p[2]) = PairCost(p1[1], p1[2])}
<1>3. PICK p2 \in cheap : \A q \in cheap : p2[1] <= q[1]
  <2> DEFINE T == {p[1] : p \in cheap}
  <2>1. T \in SUBSET Nat /\ T # {}
    BY <1>1
  <2>2. PICK m \in T : \A n \in T : m <= n
    BY <2>1, LeastNumber
  <2>3. QED
    BY <2>2
<1>4. PICK p3 \in cheap : p3[1] = p2[1] /\ \A q \in cheap : q[1] = p2[1] => p3[2] <= q[2]
  <2> DEFINE T == {p[2] : p \in {q \in cheap : q[1] = p2[1]}}
  <2>1. T \in SUBSET Nat /\ T # {}
    BY <1>1
  <2>2. PICK m \in T : \A n \in T : m <= n
    BY <2>1, LeastNumber
  <2>3. QED
    BY <2>2
<1>5. ASSUME NEW q \in pairs PROVE Before(p3, q)
  <2>1. PairCost(p3[1], p3[2]) = PairCost(p1[1], p1[2])
    OBVIOUS
  <2>2. CASE PairCost(q[1], q[2]) # PairCost(p1[1], p1[2])
    BY <1>1, <1>2, <2>1, <2>2 DEF Before
  <2>3. CASE PairCost(q[1], q[2]) = PairCost(p1[1], p1[2])
    <3>1. q \in cheap
      BY <2>3
    <3>2. p3[1] <= q[1] /\ (q[1] = p3[1] => p3[2] <= q[2])
      BY <1>3, <1>4, <3>1
    <3>3. p3[1] < q[1] \/ (p3[1] = q[1] /\ p3[2] <= q[2])
      BY <1>1, <3>2
    <3>4. QED
      BY <2>1, <2>3, <3>3 DEF Before
  <2>4. QED
    BY <2>2, <2>3
<1>6. QED
  BY <1>5

LEMMA FirstIsFirst ==
  ASSUME NEW pairs \in SUBSET (Units \X Incidents), pairs # {}
  PROVE  First(pairs) \in pairs /\ \A q \in pairs : Before(First(pairs), q)
BY LeastPair DEF First

(* What one turn of the loop adds to the assignment. *)
Extended(us, is, taken) ==
  taken \cup (IF FreePairs(us, is, taken) = {} THEN {} ELSE {First(FreePairs(us, is, taken))})

LEMMA ExtendedType ==
  ASSUME NEW us \in SUBSET Units, NEW is \in SUBSET Incidents, NEW taken \in SUBSET (us \X is)
  PROVE  /\ FreePairs(us, is, taken) \in SUBSET (Units \X Incidents)
         /\ FreePairs(us, is, taken) \subseteq us \X is
         /\ Extended(us, is, taken) \in SUBSET (us \X is)
<1>1. FreePairs(us, is, taken) \in SUBSET (Units \X Incidents)
      /\ FreePairs(us, is, taken) \subseteq us \X is
  BY DEF FreePairs
<1>2. QED
  BY <1>1, FirstIsFirst DEF Extended

(* The assignment is what the loop makes of nothing in as many turns as there *)
(* are incidents.                                                             *)
LEMMA GreedyUnfolds ==
  ASSUME NEW us \in SUBSET Units, NEW is \in SUBSET Incidents
  PROVE  \E f \in [Nat -> SUBSET (us \X is)] :
           /\ f[0] = {} /\ \A n \in Nat : f[n + 1] = Extended(us, is, f[n])
           /\ GreedyPass(us, is) = f[Cardinality(is)]
<1> DEFINE S == SUBSET (us \X is)
           step == [t \in S |-> Extended(us, is, t)]
           body(f) == [n \in Nat |-> IF n = 0 THEN {}
             ELSE LET free == FreePairs(us, is, f[n - 1])
                  IN  f[n - 1] \cup (IF free = {} THEN {} ELSE {First(free)})]
           pass == CHOOSE f : f = body(f)
<1>1. step \in [S -> S] /\ {} \in S
  BY ExtendedType
<1>2. PICK g \in [Nat -> S] : g[0] = {} /\ \A n \in Nat : g[n + 1] = step[g[n]]
  <2> HIDE DEF S, step
  <2>1. QED
    BY <1>1, Recursion
<1>3. g = body(g)
  <2>1. \A n \in Nat : body(g)[n] = IF n = 0 THEN {} ELSE Extended(us, is, g[n - 1])
    BY DEF Extended
  <2>2. ASSUME NEW n \in Nat PROVE g[n] = body(g)[n]
    <3>1. CASE n = 0
      BY <1>2, <2>1, <3>1
    <3>2. CASE n # 0
      <4>1. n - 1 \in Nat /\ (n - 1) + 1 = n
        BY <3>2
      <4>2. g[n] = step[g[n - 1]] /\ g[n - 1] \in S
        BY <1>2, <4>1
      <4>3. QED
        BY <2>1, <3>2, <4>2
    <3>3. QED
      BY <3>1, <3>2
  <2>3. QED
    BY <1>2, <2>2
<1>4. pass = body(pass)
  <2> HIDE DEF body
  <2>1. QED
    BY <1>3
<1>5. pass[0] = {}
  BY <1>4
<1>6. ASSUME NEW n \in Nat PROVE pass[n + 1] = Extended(us, is, pass[n])
  <2>1. n + 1 \in Nat /\ n + 1 # 0 /\ (n + 1) - 1 = n
    OBVIOUS
  <2>2. body(pass)[n + 1] = Extended(us, is, pass[n])
    BY <2>1 DEF Extended
  <2> HIDE DEF pass, body
  <2>3. QED
    BY <1>4, <2>2
<1>7. pass \in [Nat -> S]
  <2> DEFINE T == {n \in Nat : pass[n] \in S}
  <2> HIDE DEF pass
  <2>1. 0 \in T
    BY <1>5
  <2>2. ASSUME NEW n \in T PROVE n + 1 \in T
    <3>1. n \in Nat /\ pass[n] \in SUBSET (us \X is)
      OBVIOUS
    <3>2. Extended(us, is, pass[n]) \in SUBSET (us \X is)
      BY <3>1, ExtendedType
    <3>3. pass[n + 1] = Extended(us, is, pass[n])
      BY <1>6, <3>1
    <3>4. QED
      BY <3>1, <3>2, <3>3
  <2>3. T \in SUBSET Nat
    OBVIOUS
  <2> HIDE DEF T
  <2>4. T = Nat
    BY <2>1, <2>2, <2>3, Induction
  <2>5. \E f : pass = [n \in Nat |-> f[n]]
    BY <1>4
  <2>6. QED
    BY <2>4, <2>5 DEF T
<1>8. GreedyPass(us, is) = pass[Cardinality(is)]
  BY DEF GreedyPass
<1> HIDE DEF pass
<1>9. QED
  BY <1>5, <1>6, <1>7, <1>8

(* Each unit and each incident at most once, and a pair that is not free any  *)
(* more was passed over for a cheaper one.                                    *)
Greedily(us, is, taken) ==
  /\ OneToOne(taken)
  /\ \A p \in us \X is : p \notin FreePairs(us, is, taken) =>
       \E q \in taken : (q[1] = p[1] \/ q[2] = p[2]) /\ Before(q, p)

LEMMA ExtendedGreedily ==
  ASSUME NEW us \in SUBSET Units, NEW is \in SUBSET Incidents, NEW taken \in SUBSET (us \X is),
         Greedily(us, is, taken), FreePairs(us, is, taken) # {}
  PROVE  \E p \in us \X is : /\ Extended(us, is, taken) = taken \cup {p} /\ p \notin taken
                             /\ Greedily(us, is, taken \cup {p})
<1> DEFINE free == FreePairs(us, is, taken)
<1>1. PICK p \in free : p = First(free) /\ \A q \in free : Before(p, q)
  BY ExtendedType, FirstIsFirst
<1>2. p \in us \X is /\ \A q \in taken : p[1] # q[1] /\ p[2] # q[2]
  BY DEF FreePairs
<1>3. Extended(us, is, taken) = taken \cup {p}
  BY <1>1 DEF Extended
<1>4. OneToOne(taken \cup {p})
  BY <1>2 DEF Greedily, OneToOne
<1>5. ASSUME NEW q \in us \X is, q \notin FreePairs(us, is, taken \cup {p})
      PROVE  \E r \in taken \cup {p} : (r[1] = q[1] \/ r[2] = q[2]) /\ Before(r, q)
  <2>1. CASE q \in free
    <3>1. q[1] = p[1] \/ q[2] = p[2]
      BY <1>5, <2>1 DEF FreePairs
    <3>2. QED
      BY <1>1, <2>1, <3>1
  <2>2. CASE q \notin free
    BY <2>2 DEF Greedily
  <2>3. QED
    BY <2>1, <2>2
<1>6. QED
  BY <1>2, <1>3, <1>4, <1>5 DEF Greedily

(* As many pairs as there are incidents take every incident. *)
LEMMA AllTaken ==
  ASSUME NEW us \in SUBSET Units, NEW is \in SUBSET Incidents, NEW taken \in SUBSET (us \X is),
         OneToOne(taken), IsFiniteSet(taken), Cardinality(taken) = Cardinality(is)
  PROVE  FreePairs(us, is, taken) = {}
<1> DEFINE f == [p \in taken |-> p[2]]
<1>1. IsFiniteSet(is)
  BY FS_Subset, DispatchAssumption
<1>2. f \in Injection(taken, is)
  <2>1. f \in [taken -> is]
    OBVIOUS
  <2>2. \A p, q \in taken : f[p] = f[q] => p = q
    BY DEF OneToOne
  <2>3. QED
    BY <2>1, <2>2 DEF Injection, IsInjective
<1>3. f \in Surjection(taken, is)
  <2> HIDE DEF f
  <2>1. QED
    BY <1>1, <1>2, FS_Injection
<1>4. \A i \in is : \E p \in taken : p[2] = i
  BY <1>3 DEF Surjection
<1>5. QED
  BY <1>4 DEF FreePairs

LEMMA GreedyPassIsGreedy ==
  ASSUME NEW us \in SUBSET Units, NEW is \in SUBSET Incidents
  PROVE  /\ GreedyPass(us, is) \in SUBSET (us \X is)
         /\ Greedily(us, is, GreedyPass(us, is))
         /\ FreePairs(us, is, GreedyPass(us, is)) = {}
<1>1. PICK f \in [Nat -> SUBSET (us \X is)] :
        /\ f[0] = {} /\ \A n \in Nat : f[n + 1] = Extended(us, is, f[n])
        /\ GreedyPass(us, is) = f[Cardinality(is)]
  BY GreedyUnfolds
<1> DEFINE T == {n \in Nat : /\ Greedily(us, is, f[n])
                             /\ FreePairs(us, is, f[n]) # {} =>
                                  IsFiniteSet(f[n]) /\ Cardinality(f[n]) = n}
<1>2. 0 \in T
  <2>1. Greedily(us, is, {})
    BY DEF Greedily, OneToOne, FreePairs
  <2>2. QED
    BY <1>1, <2>1, FS_EmptySet
<1>3. ASSUME NEW n \in T PROVE n + 1 \in T
  <2>1. n \in Nat /\ f[n + 1] = Extended(us, is, f[n]) /\ f[n] \in SUBSET (us \X is)
    BY <1>1
  <2>2. CASE FreePairs(us, is, f[n]) = {}
    BY <2>1, <2>2 DEF Extended
  <2>3. CASE FreePairs(us, is, f[n]) # {}
    <3>1. Greedily(us, is, f[n]) /\ IsFiniteSet(f[n]) /\ Cardinality(f[n]) = n
      BY <2>3
    <3>2. PICK p \in us \X is : /\ f[n + 1] = f[n] \cup {p} /\ p \notin f[n]
                                /\ Greedily(us, is, f[n] \cup {p})
      BY <2>1, <2>3, <3>1, ExtendedGreedily
    <3>3. IsFiniteSet(f[n + 1]) /\ Cardinality(f[n + 1]) = n + 1
      BY <3>1, <3>2, FS_AddElement
    <3>4. Greedily(us, is, f[n + 1]) /\ n + 1 \in Nat
      BY <2>1, <3>2
    <3>5. QED
      BY <3>3, <3>4
  <2>4. QED
    BY <2>2, <2>3
<1>4. T = Nat
  <2>1. T \in SUBSET Nat
    OBVIOUS
  <2> HIDE DEF T
  <2>2. QED
    BY <1>2, <1>3, <2>1, Induction
<1>5. PICK n \in Nat : n = Cardinality(is)
  BY FS_Subset, FS_CardinalityType, DispatchAssumption
<1>6. f[n] \in SUBSET (us \X is) /\ n \in T
  BY <1>4
<1>7. FreePairs(us, is, f[n]) = {}
  <2> SUFFICES ASSUME FreePairs(us, is, f[n]) # {} PROVE FALSE
    OBVIOUS
  <2>1. IsFiniteSet(f[n]) /\ Cardinality(f[n]) = n /\ OneToOne(f[n])
    BY <1>6 DEF Greedily
  <2>2. QED
    BY <1>5, <1>6, <2>1, AllTaken
<1>8. QED
  BY <1>1, <1>5, <1>6, <1>7

(* An incident that is left gets a unit that is able to take it, if any. *)
LEMMA ReusePassServes ==
  ASSUME NEW us \in SUBSET Units, NEW is \in SUBSET Incidents, NEW taken \in SUBSET (us \X is),
         us # {}
  PROVE  /\ ReusePass(us, is, taken) \in SUBSET (us \X is)
         /\ \A p \in ReusePass(us, is, taken) : \A q \in taken : q[2] # p[2]
         /\ \A p, q \in ReusePass(us, is, taken) : p[2] = q[2] => p = q
         /\ \A i \in is : \/ Served(taken, i) \/ Served(ReusePass(us, is, taken), i)
                          \/ i \in HeavyTow /\ us \cap Tow = {}
<1> DEFINE able(i) == {p \in us \X {i} : Compatible(p[1], i)}
           left == {i \in is : \A q \in taken : q[2] # i}
           reused == {First(able(i)) : i \in {i \in left : able(i) # {}}}
<1>1. ReusePass(us, is, taken) = reused
  BY DEF ReusePass
<1>2. ASSUME NEW i \in is, able(i) # {}
      PROVE  First(able(i)) \in us \X is /\ First(able(i))[2] = i
  <2>1. able(i) \in SUBSET (Units \X Incidents)
    OBVIOUS
  <2>2. First(able(i)) \in able(i)
    BY <1>2, <2>1, FirstIsFirst
  <2>3. QED
    BY <2>2
<1>3. ASSUME NEW i \in is, ~Served(taken, i), able(i) # {} PROVE Served(reused, i)
  <2>1. i \in left
    BY <1>3 DEF Served
  <2>2. First(able(i)) \in reused
    BY <1>3, <2>1
  <2>3. QED
    BY <1>2, <1>3, <2>2 DEF Served
<1>4. ASSUME NEW i \in is, able(i) = {} PROVE i \in HeavyTow /\ us \cap Tow = {}
  <2>1. \A u \in us : ~Compatible(u, i)
    <3>1. \A u \in us : <<u, i>> \in us \X {i} /\ <<u, i>>[1] = u
      OBVIOUS
    <3>2. QED
      BY <1>4, <3>1
  <2>2. QED
    BY <2>1 DEF Compatible
<1> HIDE DEF able
<1>5. ASSUME NEW p \in reused PROVE \E i \in left : p = First(able(i)) /\ p \in us \X is /\ p[2] = i
  BY <1>2
<1>6. reused \in SUBSET (us \X is)
  BY <1>5
<1>7. ASSUME NEW p \in reused, NEW q \in taken PROVE q[2] # p[2]
  BY <1>5
<1>8. ASSUME NEW p \in reused, NEW q \in reused, p[2] = q[2] PROVE p = q
  BY <1>5, <1>8
<1>9. ASSUME NEW i \in is
      PROVE  Served(taken, i) \/ Served(reused, i) \/ (i \in HeavyTow /\ us \cap Tow = {})
  BY <1>3, <1>4
<1> HIDE DEF reused
<1>10. QED
  BY <1>1, <1>6, <1>7, <1>8, <1>9

(* The greedy assignment serves every incident it can, and is stable. *)
LEMMA GreedyServes ==
  ASSUME NEW us \in SUBSET Units, NEW is \in SUBSET Incidents, us # {}, is # {}
  PROVE  LET s == GreedyAssign(us, is)
         IN  /\ s # {} /\ s \in SUBSET (us \X is)
             /\ \A p, q \in s : p[2] = q[2] => p = q
             /\ \A i \in is : Served(s, i) \/ (us \cap Tow = {} /\ i \in HeavyTow)
             /\ Stable(s, us, is)
<1> DEFINE taken == GreedyPass(us, is)
           reused == ReusePass(us, is, taken)
<1>1. taken \in SUBSET (us \X is) /\ Greedily(us, is, taken) /\ FreePairs(us, is, taken) = {}
  BY GreedyPassIsGreedy
<1>2. /\ reused \in SUBSET (us \X is)
      /\ \A p \in reused : \A q \in taken : q[2] # p[2]
      /\ \A p, q \in reused : p[2] = q[2] => p = q
      /\ \A i \in is : Served(taken, i) \/ Served(reused, i) \/ (i \in HeavyTow /\ us \cap Tow = {})
  BY <1>1, ReusePassServes
<1>3. GreedyAssign(us, is) = taken \cup reused
  BY DEF GreedyAssign
<1> HIDE DEF taken, reused
<1>4. taken # {}
  <2>1. PICK u \in us, i \in is : TRUE
    OBVIOUS
  <2>2. <<u, i>> \in us \X is
    OBVIOUS
  <2>3. QED
    BY <1>1, <2>2 DEF FreePairs
<1>5. \A p, q \in taken \cup reused : p[2] = q[2] => p = q
  BY <1>1, <1>2 DEF Greedily, OneToOne
<1>6. Stable(taken \cup reused, us, is)
  BY <1>1 DEF Greedily, Stable
<1>7. \A i \in is : Served(taken \cup reused, i) \/ (us \cap Tow = {} /\ i \in HeavyTow)
  BY <1>2 DEF Served
<1>8. taken \cup reused # {} /\ taken \cup reused \in SUBSET (us \X is)
  BY <1>1, <1>2, <1>4
<1>9. QED
  BY <1>3, <1>5, <1>6, <1>7, <1>8

(* Of the units one is the nearest, the first of them at equal distance. *)
LEMMA NearestPair ==
  ASSUME NEW us \in SUBSET Units, us # {}, NEW i \in Incidents
  PROVE  \E p \in us \X {i} : \A q \in us \X {i} :
           \/ Eta[<<p[1], i>>] < Eta[<<q[1], i>>]
           \/ (Eta[<<p[1], i>>] = Eta[<<q[1], i>>] /\ p[1] <= q[1])
<1>1. \A u \in us : u \in Nat /\ Eta[<<u, i>>] \in Nat
  BY DispatchConstants
<1>2. PICK u1 \in us : \A u \in us : Eta[<<u1, i>>] <= Eta[<<u, i>>]
  <2> DEFINE T == {Eta[<<u, i>>] : u \in us}
  <2>1. T \in SUBSET Nat /\ T # {}
    BY <1>1
  <2>2. PICK m \in T : \A n \in T : m <= n
    BY <2>1, LeastNumber
  <2>3. QED
    BY <2>2
<1> DEFINE near == {u \in us : Eta[<<u, i>>] = Eta[<<u1, i>>]}
<1>3. PICK u2 \in near : \A u \in near : u2 <= u
  <2>1. near \in SUBSET Nat /\ near # {}
    BY <1>1
  <2>2. QED
    BY <2>1, LeastNumber
<1>4. \A u \in us : \/ Eta[<<u2, i>>] < Eta[<<u, i>>]
                    \/ (Eta[<<u2, i>>] = Eta[<<u, i>>] /\ u2 <= u)
  <2> SUFFICES ASSUME NEW u \in us
               PROVE  \/ Eta[<<u2, i>>] < Eta[<<u, i>>]
                      \/ (Eta[<<u2, i>>] = Eta[<<u, i>>] /\ u2 <= u)
    OBVIOUS
  <2>1. CASE u \in near
    BY <1>3, <2>1
  <2>2. CASE u \notin near
    BY <1>1, <1>2, <2>2
  <2>3. QED
    BY <2>1, <2>2
<1>5. <<u2, i>> \in us \X {i} /\ <<u2, i>>[1] = u2
  OBVIOUS
<1>6. QED
  BY <1>4, <1>5

(* The assignment of tier 3 serves every incident with the nearest unit. *)
LEMMA NearestServes ==
  ASSUME NEW us \in SUBSET Units, NEW is \in SUBSET Incidents, us # {}, is # {}
  PROVE  LET s == Tier3Assign(us, is)
         IN  /\ s # {} /\ s \in SUBSET (us \X is)
             /\ \A p, q \in s : p[2] = q[2] => p = q
             /\ \A i \in is : Served(s, i)
             /\ \A p \in s, u \in us : Eta[<<p[1], p[2]>>] <= Eta[<<u, p[2]>>]
<1> DEFINE nearest(i) == CHOOSE p \in us \X {i} : \A q \in us \X {i} :
             \/ Eta[<<p[1], i>>] < Eta[<<q[1], i>>]
             \/ (Eta[<<p[1], i>>] = Eta[<<q[1], i>>] /\ p[1] <= q[1])
           s == {nearest(i) : i \in is}
<1>1. ASSUME NEW i \in is
      PROVE  /\ nearest(i) \in us \X is /\ nearest(i)[2] = i
             /\ \A u \in us : Eta[<<nearest(i)[1], i>>] <= Eta[<<u, i>>]
  <2>1. /\ nearest(i) \in us \X {i}
        /\ \A q \in us \X {i} : \/ Eta[<<nearest(i)[1], i>>] < Eta[<<q[1], i>>]
                                \/ (Eta[<<nearest(i)[1], i>>] = Eta[<<q[1], i>>]
                                      /\ nearest(i)[1] <= q[1])
    <3>1. i \in Incidents
      OBVIOUS
    <3>2. \E p \in us \X {i} : \A q \in us \X {i} :
            \/ Eta[<<p[1], i>>] < Eta[<<q[1], i>>]
            \/ (Eta[<<p[1], i>>] = Eta[<<q[1], i>>] /\ p[1] <= q[1])
      BY <3>1, NearestPair
    <3>3. QED
      BY <3>2, Zenon
  <2> HIDE DEF nearest
  <2>2. nearest(i) \in us \X is /\ nearest(i)[2] = i /\ nearest(i)[1] \in us
    BY <2>1
  <2>3. ASSUME NEW u \in us PROVE Eta[<<nearest(i)[1], i>>] <= Eta[<<u, i>>]
    <3>1. <<u, i>> \in us \X {i} /\ <<u, i>>[1] = u
      OBVIOUS
    <3>2. \/ Eta[<<nearest(i)[1], i>>] < Eta[<<u, i>>]
          \/ Eta[<<nearest(i)[1], i>>] = Eta[<<u, i>>]
      BY <2>1, <3>1
    <3>3. Eta[<<nearest(i)[1], i>>] \in Nat /\ Eta[<<u, i>>] \in Nat
      BY <2>2, DispatchConstants
    <3>4. QED
      BY <3>2, <3>3
  <2>4. QED
    BY <2>2, <2>3
<1>2. Tier3Assign(us, is) = s
  BY DEF Tier3Assign
<1> HIDE DEF nearest
<1>3. \A p \in s : \E i \in is : /\ p = nearest(i) /\ p \in us \X is /\ p[2] = i
                                 /\ \A u \in us : Eta[<<p[1], i>>] <= Eta[<<u, i>>]
  BY <1>1
<1>6. \A i \in is : Served(s, i)
  BY <1>1 DEF Served
<1>9. s # {}
  OBVIOUS
<1> HIDE DEF s
<1>4. s # {} /\ s \in SUBSET (us \X is)
  BY <1>3, <1>9
<1>5. ASSUME NEW p \in s, NEW q \in s, p[2] = q[2] PROVE p = q
  BY <1>3, <1>5
<1>7. \A p \in s, u \in us : Eta[<<p[1], p[2]>>] <= Eta[<<u, p[2]>>]
  BY <1>3
<1>8. QED
  BY <1>2, <1>4, <1>5, <1>6, <1>7

(* A solution of the solver serves every incident with a unit of its own. *)
LEMMA SolutionServes ==
  ASSUME NEW us \in SUBSET Units, NEW is \in SUBSET Incidents, is # {},
         NEW s \in MilpSolutions(us, is)
  PROVE  /\ s # {} /\ s \in SUBSET (us \X is)
         /\ \A p, q \in s : p[2] = q[2] => p = q
         /\ \A i \in is : Served(s, i)
         /\ OneToOne(s) /\ \A p \in s : Compatible(p[1], p[2])
<1>1. PICK f \in [is -> us] : /\ s = {<<f[i], i>> : i \in is}
                              /\ \A i, j \in is : f[i] = f[j] => i = j
                              /\ \A i \in is : Compatible(f[i], i)
  BY DEF MilpSolutions
<1>2. \A p \in s : \E i \in is : p = <<f[i], i>> /\ p[1] = f[i] /\ p[2] = i
  BY <1>1
<1>3. \A i \in is : <<f[i], i>> \in s /\ <<f[i], i>>[2] = i /\ <<f[i], i>> \in us \X is
  BY <1>1
<1>4. \A i \in is : Served(s, i)
  BY <1>3 DEF Served
<1>5. OneToOne(s)
  BY <1>1, <1>2 DEF OneToOne
<1>6. \A p \in s : Compatible(p[1], p[2])
  BY <1>1, <1>2
<1>7. s # {} /\ s \in SUBSET (us \X is)
  BY <1>2, <1>3
<1>8. ASSUME NEW p \in s, NEW q \in s, p[2] = q[2] PROVE p = q
  BY <1>2, <1>8
<1>9. QED
  BY <1>4, <1>5, <1>6, <1>7, <1>8

------------------------------------------------------------------------------
(* The dispatch optimizer (M07).                                              *)

QueryPhases == {"none", "refused", "solving", "unsolved", "solved", "saving", "saved", "answered"}
QueryType == [phase : QueryPhases, incidents : SUBSET Incidents, units : SUBSET Units,
              tier : {"", "1", "2", "3"}, source : {"", "milp", "greedy_fallback"},
              answer : SUBSET (Units \X Incidents), late : BOOLEAN]
StatusType == [source : {"none", "milp", "greedy_fallback"}, late : BOOLEAN]
JobType == [rec : Recs, kind : {"milp", "late", "correct", "fallback"}]
QueuedType == [rec : Recs, kind : {"milp", "late", "fallback"}]

Elements(s) == {s[n] : n \in 1 .. Len(s)}

Jobs == busy \cup Elements(queue)

\* A request the pool works for has incidents and units.
Loaded(q) == q.incidents # {} /\ q.units # {}

QueryInv(q) ==
  /\ q.phase = "none" => q.source = ""
  /\ q.phase \in {"solved", "saving", "saved"} => q.source # ""
  /\ q.phase = "unsolved" => Loaded(q) /\ q.tier = "1"

QueriesInv == \A r \in Recs : QueryInv(request[r])

JobInv(j, q) == q.phase # "none" /\ Loaded(q) /\ (j.kind = "milp" => q.tier = "1")

JobsInv == \A j \in Jobs : JobInv(j, request[j.rec])

\* A status is cached while a late solve goes on for an answer, and after it.
ReportInv ==
  \A r \in Recs : At(r, "answered") /\ (r \in lateLog \/ Job(r, "late") \in Jobs)
                    => statusCache[r] # None

\* The answer to a query, as AnswersServeIncidents has it.
Serves(q) ==
  LET s == q.answer
  IN  /\ s # {} /\ s \subseteq q.units \X q.incidents
      /\ \A p1, p2 \in s : p1[2] = p2[2] => p1 = p2
      /\ q.source = "milp" =>
             /\ \A i \in q.incidents : Served(s, i)
             /\ OneToOne(s) /\ \A p \in s : Compatible(p[1], p[2])
      /\ q.source = "greedy_fallback" =>
             \A i \in q.incidents : Served(s, i) \/ (q.tier # "3" /\ q.units \cap Tow = {}
                                                  /\ i \in HeavyTow)
      /\ q.source = "greedy_fallback" /\ q.tier # "3" => Stable(s, q.units, q.incidents)
      /\ q.tier = "3" => \A p \in s, u \in q.units : Eta[<<p[1], p[2]>>] <= Eta[<<u, p[2]>>]

DispatchTypes ==
  /\ request \in [Recs -> QueryType]
  /\ queue \in Seq(QueuedType)
  /\ busy \in SUBSET JobType /\ IsFiniteSet(busy) /\ Cardinality(busy) <= Threads
  /\ lateLog \in SUBSET Recs
  /\ statusCache \in [Recs -> StatusType] /\ rows \in [Recs -> StatusType]
  /\ dispatchRestarts \in 0 .. MaxDispatchRestarts

DispatchInv ==
  /\ DispatchTypes
  /\ QueriesInv /\ JobsInv /\ ReportInv /\ AnswersServeIncidents

(* These types are those of DispatchTypeOK. *)
LEMMA TypesAsInModel == DispatchTypes => DispatchTypeOK
BY DEF DispatchTypes, DispatchTypeOK, QueryType, QueryPhases, StatusType, JobType, QueuedType

LEMMA ElementsAppend ==
  ASSUME NEW S, NEW s \in Seq(S), NEW e \in S
  PROVE  Append(s, e) \in Seq(S) /\ Elements(Append(s, e)) \subseteq Elements(s) \cup {e}
<1>1. /\ Append(s, e) \in Seq(S) /\ Len(Append(s, e)) = Len(s) + 1 /\ Len(s) \in Nat
      /\ \A n \in 1 .. Len(s) + 1 : Append(s, e)[n] = IF n = Len(s) + 1 THEN e ELSE s[n]
  OBVIOUS
<1>2. ASSUME NEW n \in 1 .. Len(s) + 1 PROVE Append(s, e)[n] \in Elements(s) \cup {e}
  BY <1>1 DEF Elements
<1>3. QED
  BY <1>1, <1>2 DEF Elements

LEMMA ElementsTail ==
  ASSUME NEW S, NEW s \in Seq(S), s # <<>>
  PROVE  /\ Tail(s) \in Seq(S) /\ Elements(Tail(s)) \subseteq Elements(s)
         /\ Head(s) \in S /\ Head(s) \in Elements(s)
<1>1. /\ Tail(s) \in Seq(S) /\ Len(Tail(s)) = Len(s) - 1 /\ Len(s) \in Nat \ {0}
      /\ \A n \in 1 .. Len(s) - 1 : Tail(s)[n] = s[n + 1]
      /\ Head(s) = s[1] /\ Head(s) \in S
  OBVIOUS
<1>2. QED
  BY <1>1 DEF Elements

(* One query changes, and the new one is right. *)
LEMMA QueryKept ==
  ASSUME request \in [Recs -> QueryType], QueriesInv, AnswersServeIncidents,
         NEW r \in Recs, NEW q \in QueryType, request' = [request EXCEPT ![r] = q],
         QueryInv(q), q.source # "" => Serves(q)
  PROVE  request' \in [Recs -> QueryType] /\ QueriesInv' /\ AnswersServeIncidents'
<1>1. request' \in [Recs -> QueryType]
      /\ \A o \in Recs : request'[o] = IF o = r THEN q ELSE request[o]
  OBVIOUS
<1>2. QueriesInv'
  BY <1>1 DEF QueriesInv
<1>3. \A o \in Recs : request[o].source # "" => Serves(request[o])
  BY DEF AnswersServeIncidents, Serves
<1>4. \A o \in Recs : request'[o].source # "" => Serves(request'[o])
  BY <1>1, <1>3
<1>5. AnswersServeIncidents'
  BY <1>4 DEF AnswersServeIncidents, Serves
<1>6. QED
  BY <1>1, <1>2, <1>5

(* The query of an answer that is only passed on. *)
LEMMA PassedOn ==
  ASSUME NEW q, NEW w, Serves(q), w.incidents = q.incidents, w.units = q.units,
         w.tier = q.tier, w.source = q.source, w.answer = q.answer
  PROVE  Serves(w)
BY DEF Serves

(* The jobs there were, but for those of r, and right ones for r. *)
LEMMA JobsKept ==
  ASSUME DispatchTypes, JobsInv,
         NEW r \in Recs, NEW q \in QueryType, request' = [request EXCEPT ![r] = q],
         Jobs' \subseteq JobType,
         \A j \in Jobs' : (j \in Jobs /\ (j.rec = r => JobInv(j, q))) \/ (j.rec = r /\ JobInv(j, q))
  PROVE  JobsInv'
<1>1. \A o \in Recs : request'[o] = IF o = r THEN q ELSE request[o]
  BY DEF DispatchTypes
<1>2. \A j \in Jobs' : j.rec \in Recs
  BY DEF JobType
<1>3. ASSUME NEW j \in Jobs' PROVE JobInv(j, request'[j.rec])
  BY <1>1, <1>2 DEF JobsInv
<1>4. QED
  BY <1>3 DEF JobsInv

LEMMA JobsType ==
  ASSUME DispatchTypes
  PROVE  Jobs \subseteq JobType
<1>1. queue \in Seq(QueuedType) /\ busy \subseteq JobType
  BY DEF DispatchTypes
<1>2. QueuedType \subseteq JobType
  BY DEF JobType, QueuedType
<1>3. \A n \in 1 .. Len(queue) : queue[n] \in QueuedType
  BY <1>1
<1>4. QED
  BY <1>1, <1>2, <1>3 DEF Jobs, Elements

LEMMA JobsTypeNext ==
  ASSUME DispatchTypes, busy' \subseteq busy, queue' \in Seq(QueuedType)
  PROVE  Jobs' \subseteq JobType
<1>1. QueuedType \subseteq JobType
  BY DEF JobType, QueuedType
<1>2. \A n \in 1 .. Len(queue') : queue'[n] \in QueuedType
  OBVIOUS
<1>3. busy' \subseteq JobType
  BY DEF DispatchTypes
<1>4. QED
  BY <1>1, <1>2, <1>3 DEF Jobs, Elements

LEMMA FewerBusy ==
  ASSUME DispatchTypes, busy' \subseteq busy
  PROVE  IsFiniteSet(busy') /\ Cardinality(busy') <= Threads
<1>1. IsFiniteSet(busy) /\ Cardinality(busy) <= Threads /\ Threads \in Nat
  BY DispatchAssumption DEF DispatchTypes
<1>2. IsFiniteSet(busy') /\ Cardinality(busy') <= Cardinality(busy)
  BY <1>1, FS_Subset
<1>3. Cardinality(busy) \in Nat /\ Cardinality(busy') \in Nat
  BY <1>1, <1>2, FS_CardinalityType
<1>4. QED
  BY <1>1, <1>2, <1>3

(* One query changes, which is not answered then, and the jobs as above. *)
LEMMA StepKept ==
  ASSUME DispatchInv, NEW r \in Recs, NEW q \in QueryType, request' = [request EXCEPT ![r] = q],
         QueryInv(q), q.source # "" => Serves(q), q.phase # "answered",
         queue' \in Seq(QueuedType), busy' \subseteq busy,
         \A j \in Jobs' : (j \in Jobs /\ (j.rec = r => JobInv(j, q))) \/ (j.rec = r /\ JobInv(j, q)),
         lateLog' = lateLog, statusCache' = statusCache, rows' \in [Recs -> StatusType],
         dispatchRestarts' = dispatchRestarts
  PROVE  DispatchInv'
<1>1. DispatchTypes /\ QueriesInv /\ JobsInv /\ ReportInv /\ AnswersServeIncidents
  BY DEF DispatchInv
<1>2. request \in [Recs -> QueryType]
  BY <1>1 DEF DispatchTypes
<1>3. request' \in [Recs -> QueryType] /\ QueriesInv' /\ AnswersServeIncidents'
  BY <1>1, <1>2, QueryKept
<1>4. IsFiniteSet(busy') /\ Cardinality(busy') <= Threads
  BY <1>1, FewerBusy
<1>5. DispatchTypes'
  BY <1>1, <1>3, <1>4 DEF DispatchTypes
<1>6. Jobs' \subseteq JobType
  BY <1>1, JobsTypeNext
<1>7. JobsInv'
  BY <1>1, <1>6, JobsKept
<1>8. ReportInv'
  <2>1. ASSUME NEW o \in Recs, request'[o].phase = "answered",
               o \in lateLog' \/ Job(o, "late") \in Jobs'
        PROVE  statusCache'[o] # None
    <3>1. o # r /\ request'[o] = request[o]
      BY <1>2, <2>1
    <3>2. Job(o, "late") \in Jobs' => Job(o, "late") \in Jobs
      BY <3>1 DEF Job
    <3>3. QED
      BY <1>1, <2>1, <3>1, <3>2 DEF ReportInv, At
  <2>2. QED
    BY <2>1 DEF ReportInv, At
<1>9. QED
  BY <1>3, <1>5, <1>7, <1>8 DEF DispatchInv

(* The facts about a query the steps use. *)
LEMMA QueryFacts ==
  ASSUME DispatchInv, NEW r \in Recs
  PROVE  /\ request[r] \in QueryType /\ QueryInv(request[r])
         /\ request[r].source # "" => Serves(request[r])
         /\ \A j \in Jobs : j.rec = r => JobInv(j, request[r])
         /\ queue \in Seq(QueuedType) /\ rows \in [Recs -> StatusType]
         /\ statusCache \in [Recs -> StatusType]
<1>1. DispatchTypes /\ QueriesInv /\ JobsInv /\ AnswersServeIncidents
  BY DEF DispatchInv
<1>2. request[r] \in QueryType /\ queue \in Seq(QueuedType) /\ rows \in [Recs -> StatusType]
      /\ statusCache \in [Recs -> StatusType]
  BY <1>1 DEF DispatchTypes
<1>3. QueryInv(request[r]) /\ \A j \in Jobs : j.rec = r => JobInv(j, request[r])
  BY <1>1 DEF QueriesInv, JobsInv
<1>4. request[r].source # "" => Serves(request[r])
  BY <1>1 DEF AnswersServeIncidents, Serves
<1>5. QED
  BY <1>2, <1>3, <1>4

LEMMA RecommendKept ==
  ASSUME DispatchInv, NEW r \in Recs, Recommend(r)
  PROVE  DispatchInv'
<1>1. PICK is \in Materialized, us \in Offered, tier \in {"1", "2", "3"}, force \in BOOLEAN :
        IF is = {}
        THEN /\ request' = [request EXCEPT ![r].phase = "refused"]
             /\ UNCHANGED queue
        ELSE /\ request' = [request EXCEPT ![r] =
                    [@ EXCEPT !.phase = "solving", !.incidents = is, !.units = us,
                              !.tier = tier]]
             /\ queue' = Append(queue, Job(r,
                    IF tier = "1" /\ ~force THEN "milp" ELSE "fallback"))
  BY DEF Recommend
<1>2. /\ request[r].phase = "none" /\ busy' = busy /\ lateLog' = lateLog
      /\ statusCache' = statusCache /\ rows' = rows /\ dispatchRestarts' = dispatchRestarts
  BY DEF Recommend, At
<1>3. /\ request[r] \in QueryType /\ request[r].source = ""
      /\ queue \in Seq(QueuedType) /\ rows \in [Recs -> StatusType]
      /\ \A j \in Jobs : j.rec # r
  BY <1>2, QueryFacts DEF QueryInv, JobInv
<1>4. CASE is = {}
  <2> DEFINE q == [request[r] EXCEPT !.phase = "refused"]
  <2>1. request' = [request EXCEPT ![r] = q] /\ queue' = queue
    BY <1>1, <1>4
  <2>2. q \in QueryType /\ q.phase = "refused" /\ q.source = ""
    BY <1>3 DEF QueryType, QueryPhases
  <2> HIDE DEF q
  <2>3. QueryInv(q) /\ q.phase # "answered"
    BY <2>2 DEF QueryInv
  <2>4. Jobs' = Jobs
    BY <1>2, <2>1 DEF Jobs
  <2>5. QED
    BY <1>2, <1>3, <2>1, <2>2, <2>3, <2>4, StepKept
<1>5. CASE is # {}
  <2> DEFINE q == [request[r] EXCEPT !.phase = "solving", !.incidents = is, !.units = us,
                                     !.tier = tier]
  <2>1. PICK j \in QueuedType : /\ j.rec = r /\ (j.kind = "milp" => tier = "1")
                                /\ request' = [request EXCEPT ![r] = q] /\ queue' = Append(queue, j)
    BY <1>1, <1>5 DEF Job, QueuedType
  <2>6. is \in SUBSET Incidents /\ us \in SUBSET Units /\ us # {} /\ tier \in {"", "1", "2", "3"}
    BY DEF Materialized, Offered
  <2>7. /\ q.phase = "solving" /\ q.source = "" /\ q.tier = tier
        /\ q.units = us /\ q.incidents = is
    BY <1>3 DEF QueryType
  <2>8. q \in QueryType
    BY <1>3, <2>6 DEF QueryType, QueryPhases
  <2>2. /\ q \in QueryType /\ q.phase = "solving" /\ q.source = "" /\ q.tier = tier
        /\ Loaded(q)
    BY <1>5, <2>6, <2>7, <2>8 DEF Loaded
  <2> HIDE DEF q
  <2>3. QueryInv(q) /\ q.phase # "answered" /\ JobInv(j, q)
    BY <2>1, <2>2 DEF QueryInv, JobInv
  <2>4. queue' \in Seq(QueuedType) /\ Jobs' \subseteq Jobs \cup {j}
    BY <1>2, <1>3, <2>1, ElementsAppend DEF Jobs
  <2>5. QED
    BY <1>2, <1>3, <2>1, <2>2, <2>3, <2>4, StepKept
<1>6. QED
  BY <1>4, <1>5

LEMMA SolveMilpKept ==
  ASSUME DispatchInv, NEW r \in Recs, SolveMilp(r)
  PROVE  DispatchInv'
<1>1. /\ Job(r, "milp") \in Jobs /\ busy' = busy \ {Job(r, "milp")} /\ queue' = queue
      /\ lateLog' = lateLog /\ statusCache' = statusCache /\ rows' = rows
      /\ dispatchRestarts' = dispatchRestarts
  BY DEF SolveMilp, Jobs
<1>2. Job(r, "milp").rec = r /\ Job(r, "milp").kind = "milp"
  BY DEF Job
<1>3. /\ request[r] \in QueryType /\ QueryInv(request[r])
      /\ request[r].source # "" => Serves(request[r])
      /\ \A j \in Jobs : j.rec = r => JobInv(j, request[r])
      /\ queue \in Seq(QueuedType) /\ rows \in [Recs -> StatusType]
  BY QueryFacts
<1>4. request[r].tier = "1" /\ Loaded(request[r])
  BY <1>1, <1>2, <1>3 DEF JobInv
<1>5. Jobs' \subseteq Jobs /\ busy' \subseteq busy
  BY <1>1 DEF Jobs
<1>6. ASSUME NEW s \in MilpSolutions(request[r].units, request[r].incidents),
             request' = [request EXCEPT ![r] =
                [@ EXCEPT !.phase = "solved", !.answer = s, !.source = "milp"]]
      PROVE  DispatchInv'
  <2> DEFINE q == [request[r] EXCEPT !.phase = "solved", !.answer = s, !.source = "milp"]
  <2>1. request' = [request EXCEPT ![r] = q]
    BY <1>6
  <2>2. PICK us \in SUBSET Units, is \in SUBSET Incidents :
          us = request[r].units /\ is = request[r].incidents
    BY <1>3 DEF QueryType
  <2>3. /\ s # {} /\ s \in SUBSET (us \X is)
        /\ \A p1, p2 \in s : p1[2] = p2[2] => p1 = p2
        /\ \A i \in is : Served(s, i)
        /\ OneToOne(s) /\ \A p \in s : Compatible(p[1], p[2])
    <3>1. is # {} /\ s \in MilpSolutions(us, is)
      BY <1>4, <2>2 DEF Loaded
    <3>2. QED
      BY <3>1, SolutionServes
  <2>4. s \in SUBSET (Units \X Incidents)
    BY <2>3
  <2>5. /\ q \in QueryType /\ q.phase = "solved" /\ q.source = "milp" /\ q.tier = "1"
        /\ q.answer = s /\ q.units = us /\ q.incidents = is
    BY <1>3, <1>4, <2>2, <2>4 DEF QueryType, QueryPhases
  <2> HIDE DEF q
  <2>6. Serves(q)
    BY <2>3, <2>5 DEF Serves
  <2>7. QueryInv(q) /\ q.phase # "answered"
    BY <2>5 DEF QueryInv
  <2>8. \A j \in Jobs : j.rec = r => JobInv(j, q)
    BY <1>3, <1>4, <2>2, <2>5 DEF JobInv, Loaded
  <2>9. QED
    BY <1>1, <1>3, <1>5, <2>1, <2>5, <2>6, <2>7, <2>8, StepKept
<1>7. ASSUME request' = [request EXCEPT ![r].phase = "unsolved"]
      PROVE  DispatchInv'
  <2> DEFINE q == [request[r] EXCEPT !.phase = "unsolved"]
  <2>1. request' = [request EXCEPT ![r] = q]
    BY <1>7
  <2>2. /\ q \in QueryType /\ q.phase = "unsolved" /\ q.source = request[r].source
        /\ q.tier = request[r].tier /\ q.answer = request[r].answer
        /\ q.units = request[r].units /\ q.incidents = request[r].incidents
    BY <1>3 DEF QueryType, QueryPhases
  <2> HIDE DEF q
  <2>3. q.source # "" => Serves(q)
    BY <1>3, <2>2, PassedOn
  <2>4. QueryInv(q) /\ q.phase # "answered"
    BY <1>4, <2>2 DEF QueryInv, Loaded
  <2>5. \A j \in Jobs : j.rec = r => JobInv(j, q)
    BY <1>3, <2>2 DEF JobInv, Loaded
  <2>6. QED
    BY <1>1, <1>3, <1>5, <2>1, <2>2, <2>3, <2>4, <2>5, StepKept
<1>8. QED
  BY <1>6, <1>7 DEF SolveMilp

LEMMA ElementsTwo ==
  ASSUME NEW S, NEW s \in Seq(S), NEW a \in S, NEW b \in S
  PROVE  s \o <<a, b>> \in Seq(S) /\ Elements(s \o <<a, b>>) \subseteq Elements(s) \cup {a, b}
<1>1. <<a, b>> \in Seq(S) /\ Len(<<a, b>>) = 2
  OBVIOUS
<1>2. s \o <<a, b>> \in Seq(S) /\ Len(s \o <<a, b>>) = Len(s) + 2 /\ Len(s) \in Nat
  BY <1>1
<1>3. ASSUME NEW n \in 1 .. Len(s) + 2 PROVE (s \o <<a, b>>)[n] \in Elements(s) \cup {a, b}
  <2>1. CASE n <= Len(s)
    <3>1. (s \o <<a, b>>)[n] = s[n] /\ n \in 1 .. Len(s)
      BY <1>1, <1>2, <2>1
    <3>2. QED
      BY <3>1 DEF Elements
  <2>2. CASE n > Len(s)
    <3>1. n = Len(s) + 1 \/ n = Len(s) + 2
      BY <1>2, <2>2
    <3>2. QED
      BY <1>1, <1>2, <3>1
  <2>3. QED
    BY <1>2, <2>1, <2>2
<1>4. QED
  BY <1>2, <1>3 DEF Elements

LEMMA FallBackKept ==
  ASSUME DispatchInv, NEW r \in Recs, FallBack(r)
  PROVE  DispatchInv'
<1> DEFINE q == [request[r] EXCEPT !.phase = "solving"]
           j == Job(r, "late")
           k == Job(r, "fallback")
<1>1. /\ request[r].phase = "unsolved" /\ request' = [request EXCEPT ![r] = q]
      /\ queue' = queue \o <<j, k>>
      /\ busy' = busy /\ lateLog' = lateLog /\ statusCache' = statusCache /\ rows' = rows
      /\ dispatchRestarts' = dispatchRestarts
  BY DEF FallBack, At
<1>2. /\ request[r] \in QueryType /\ QueryInv(request[r])
      /\ request[r].source # "" => Serves(request[r])
      /\ \A o \in Jobs : o.rec = r => JobInv(o, request[r])
      /\ queue \in Seq(QueuedType) /\ rows \in [Recs -> StatusType]
  BY QueryFacts
<1>3. /\ q \in QueryType /\ q.phase = "solving" /\ q.source = request[r].source
      /\ q.tier = request[r].tier /\ q.answer = request[r].answer
      /\ q.units = request[r].units /\ q.incidents = request[r].incidents
  BY <1>2 DEF QueryType, QueryPhases
<1>4. /\ j \in QueuedType /\ j.rec = r /\ j.kind # "milp"
      /\ k \in QueuedType /\ k.rec = r /\ k.kind # "milp"
  BY DEF Job, QueuedType
<1> HIDE DEF q, j, k
<1>5. queue' \in Seq(QueuedType) /\ Jobs' \subseteq Jobs \cup {j, k}
  <2>1. /\ queue \o <<j, k>> \in Seq(QueuedType)
        /\ Elements(queue \o <<j, k>>) \subseteq Elements(queue) \cup {j, k}
    BY <1>2, <1>4, ElementsTwo
  <2>2. QED
    BY <1>1, <2>1 DEF Jobs
<1>6. q.source # "" => Serves(q)
  BY <1>2, <1>3, PassedOn
<1>7. QueryInv(q) /\ q.phase # "answered" /\ JobInv(j, q) /\ JobInv(k, q)
  BY <1>1, <1>2, <1>3, <1>4 DEF QueryInv, JobInv, Loaded
<1>8. \A o \in Jobs : o.rec = r => JobInv(o, q)
  BY <1>2, <1>3 DEF JobInv, Loaded
<1>9. busy' \subseteq busy
  BY <1>1
<1>10. \A o \in Jobs' : (o \in Jobs /\ (o.rec = r => JobInv(o, q))) \/ (o.rec = r /\ JobInv(o, q))
  BY <1>4, <1>5, <1>7, <1>8
<1>11. QED
  BY <1>1, <1>2, <1>3, <1>5, <1>6, <1>7, <1>9, <1>10, StepKept

LEMMA SolveFallbackKept ==
  ASSUME DispatchInv, NEW r \in Recs, SolveFallback(r)
  PROVE  DispatchInv'
<1>1. /\ Job(r, "fallback") \in Jobs /\ busy' = busy \ {Job(r, "fallback")} /\ queue' = queue
      /\ lateLog' = lateLog /\ statusCache' = statusCache /\ rows' = rows
      /\ dispatchRestarts' = dispatchRestarts
  BY DEF SolveFallback, Jobs
<1>2. Job(r, "fallback").rec = r
  BY DEF Job
<1>3. /\ request[r] \in QueryType /\ \A j \in Jobs : j.rec = r => JobInv(j, request[r])
      /\ queue \in Seq(QueuedType) /\ rows \in [Recs -> StatusType]
  BY QueryFacts
<1>4. Loaded(request[r])
  BY <1>1, <1>2, <1>3 DEF JobInv
<1>5. PICK us \in SUBSET Units, is \in SUBSET Incidents, tier \in {"", "1", "2", "3"} :
        us = request[r].units /\ is = request[r].incidents /\ tier = request[r].tier
  BY <1>3 DEF QueryType
<1>6. us # {} /\ is # {}
  BY <1>4, <1>5 DEF Loaded
<1>7. PICK s : /\ s = IF tier = "3" THEN Tier3Assign(us, is) ELSE GreedyAssign(us, is)
               /\ request' = [request EXCEPT ![r] =
                    [request[r] EXCEPT !.phase = "solved", !.answer = s,
                                       !.source = "greedy_fallback"]]
  BY <1>5 DEF SolveFallback
<1>8. /\ s # {} /\ s \in SUBSET (us \X is)
      /\ \A p1, p2 \in s : p1[2] = p2[2] => p1 = p2
      /\ \A i \in is : Served(s, i) \/ (tier # "3" /\ us \cap Tow = {} /\ i \in HeavyTow)
      /\ tier # "3" => Stable(s, us, is)
      /\ tier = "3" => \A p \in s, u \in us : Eta[<<p[1], p[2]>>] <= Eta[<<u, p[2]>>]
  <2>1. CASE tier = "3"
    <3>1. s = Tier3Assign(us, is)
      BY <1>7, <2>1
    <3>2. QED
      BY <1>6, <2>1, <3>1, NearestServes
  <2>2. CASE tier # "3"
    <3>1. s = GreedyAssign(us, is)
      BY <1>7, <2>2
    <3>2. QED
      BY <1>6, <2>2, <3>1, GreedyServes
  <2>3. QED
    BY <2>1, <2>2
<1> DEFINE q == [request[r] EXCEPT !.phase = "solved", !.answer = s, !.source = "greedy_fallback"]
<1>9. request' = [request EXCEPT ![r] = q]
  BY <1>7
<1>10. s \in SUBSET (Units \X Incidents)
  BY <1>8
<1>11. /\ q \in QueryType /\ q.phase = "solved" /\ q.source = "greedy_fallback" /\ q.tier = tier
       /\ q.answer = s /\ q.units = us /\ q.incidents = is
  BY <1>3, <1>5, <1>10 DEF QueryType, QueryPhases
<1> HIDE DEF q
<1>12. Serves(q)
  BY <1>8, <1>11 DEF Serves
<1>13. QueryInv(q) /\ q.phase # "answered"
  BY <1>11 DEF QueryInv
<1>14. \A j \in Jobs : j.rec = r => JobInv(j, q)
  BY <1>3, <1>5, <1>11 DEF JobInv, Loaded
<1>15. Jobs' \subseteq Jobs /\ busy' \subseteq busy
  BY <1>1 DEF Jobs
<1>16. QED
  BY <1>1, <1>3, <1>9, <1>11, <1>12, <1>13, <1>14, <1>15, StepKept

(* A query whose answer is as it was moves on. *)
LEMMA MovedOn ==
  ASSUME DispatchInv, NEW r \in Recs, NEW q \in QueryType, QueryInv(q), q.phase # "none",
         q.source = request[r].source, q.tier = request[r].tier, q.answer = request[r].answer,
         q.units = request[r].units, q.incidents = request[r].incidents
  PROVE  /\ q.source # "" => Serves(q)
         /\ \A j \in Jobs : j.rec = r => JobInv(j, q)
<1>1. /\ request[r].source # "" => Serves(request[r])
      /\ \A j \in Jobs : j.rec = r => JobInv(j, request[r])
  BY QueryFacts
<1>2. q.source # "" => Serves(q)
  BY <1>1, PassedOn
<1>3. \A j \in Jobs : j.rec = r => JobInv(j, q)
  BY <1>1 DEF JobInv, Loaded
<1>4. QED
  BY <1>2, <1>3

LEMMA AssembleKept ==
  ASSUME DispatchInv, NEW r \in Recs, Assemble(r)
  PROVE  DispatchInv'
<1> DEFINE q == [request[r] EXCEPT !.phase = "saving", !.late = r \in lateLog]
<1>1. /\ request[r].phase = "solved" /\ request' = [request EXCEPT ![r] = q]
      /\ queue' = queue /\ busy' = busy /\ lateLog' = lateLog /\ statusCache' = statusCache
      /\ rows' = rows /\ dispatchRestarts' = dispatchRestarts
  BY DEF Assemble, At
<1>2. /\ request[r] \in QueryType /\ QueryInv(request[r])
      /\ queue \in Seq(QueuedType) /\ rows \in [Recs -> StatusType]
  BY QueryFacts
<1>3. /\ q \in QueryType /\ q.phase = "saving" /\ q.source = request[r].source
      /\ q.tier = request[r].tier /\ q.answer = request[r].answer
      /\ q.units = request[r].units /\ q.incidents = request[r].incidents
  <2>1. (r \in lateLog) \in BOOLEAN
    OBVIOUS
  <2>2. QED
    BY <1>2, <2>1 DEF QueryType, QueryPhases
<1> HIDE DEF q
<1>4. QueryInv(q) /\ q.phase \notin {"answered", "none"}
  BY <1>1, <1>2, <1>3 DEF QueryInv
<1>5. /\ q.source # "" => Serves(q)
      /\ \A j \in Jobs : j.rec = r => JobInv(j, q)
  BY <1>3, <1>4, MovedOn
<1>6. Jobs' = Jobs /\ busy' \subseteq busy
  BY <1>1 DEF Jobs
<1>7. QED
  BY <1>1, <1>2, <1>3, <1>4, <1>5, <1>6, StepKept

(* What is written of a query with an answer is not None. *)
LEMMA StatusWritten ==
  ASSUME DispatchInv, NEW r \in Recs, request[r].phase \in {"saving", "saved"}
  PROVE  Status(r) \in StatusType /\ Status(r) # None
<1>1. request[r] \in QueryType /\ QueryInv(request[r])
  BY QueryFacts
<1>2. request[r].source \in {"milp", "greedy_fallback"} /\ request[r].late \in BOOLEAN
  BY <1>1 DEF QueryType, QueryInv
<1>3. Status(r) \in StatusType
  BY <1>2 DEF Status, StatusType
<1>4. Status(r).source # None.source
  BY <1>2 DEF Status, None
<1>5. QED
  BY <1>3, <1>4

LEMMA SaveKept ==
  ASSUME DispatchInv, NEW r \in Recs, Save(r)
  PROVE  DispatchInv'
<1> DEFINE q == [request[r] EXCEPT !.phase = "saved"]
<1>1. /\ request[r].phase = "saving" /\ request' = [request EXCEPT ![r] = q]
      /\ queue' = queue /\ busy' = busy /\ lateLog' = lateLog /\ statusCache' = statusCache
      /\ rows' = [rows EXCEPT ![r] = Status(r)] /\ dispatchRestarts' = dispatchRestarts
  BY DEF Save, At
<1>2. /\ request[r] \in QueryType /\ QueryInv(request[r])
      /\ queue \in Seq(QueuedType) /\ rows \in [Recs -> StatusType]
  BY QueryFacts
<1>3. /\ q \in QueryType /\ q.phase = "saved" /\ q.source = request[r].source
      /\ q.tier = request[r].tier /\ q.answer = request[r].answer
      /\ q.units = request[r].units /\ q.incidents = request[r].incidents
  BY <1>2 DEF QueryType, QueryPhases
<1> HIDE DEF q
<1>4. QueryInv(q) /\ q.phase \notin {"answered", "none"}
  BY <1>1, <1>2, <1>3 DEF QueryInv
<1>5. /\ q.source # "" => Serves(q)
      /\ \A j \in Jobs : j.rec = r => JobInv(j, q)
  BY <1>3, <1>4, MovedOn
<1>6. Jobs' = Jobs /\ busy' \subseteq busy
  BY <1>1 DEF Jobs
<1>7. rows' \in [Recs -> StatusType]
  <2>1. Status(r) \in StatusType
    BY <1>1, StatusWritten
  <2>2. QED
    BY <1>1, <1>2, <2>1
<1>8. QED
  BY <1>1, <1>2, <1>3, <1>4, <1>5, <1>6, <1>7, StepKept

(* The pool's own steps: no query changes. *)
LEMMA PoolKept ==
  ASSUME DispatchInv, request' = request, queue' \in Seq(QueuedType), busy' \in SUBSET JobType,
         IsFiniteSet(busy'), Cardinality(busy') <= Threads,
         \A j \in Jobs' : j \in Jobs \/ (j.kind # "milp" /\ \E k \in Jobs : k.rec = j.rec),
         lateLog' \in SUBSET Recs, statusCache' \in [Recs -> StatusType], rows' = rows,
         dispatchRestarts' = dispatchRestarts
  PROVE  DispatchTypes' /\ QueriesInv' /\ JobsInv' /\ AnswersServeIncidents'
<1>1. DispatchTypes /\ QueriesInv /\ JobsInv /\ AnswersServeIncidents
  BY DEF DispatchInv
<1>2. DispatchTypes'
  BY <1>1 DEF DispatchTypes
<1>3. QueriesInv' /\ AnswersServeIncidents'
  BY <1>1 DEF QueriesInv, AnswersServeIncidents
<1>4. ASSUME NEW j \in Jobs' PROVE JobInv(j, request'[j.rec])
  BY <1>1 DEF JobsInv, JobInv
<1>5. QED
  BY <1>2, <1>3, <1>4 DEF JobsInv

LEMMA TakeKept ==
  ASSUME DispatchInv, Take
  PROVE  DispatchInv'
<1>1. /\ queue # <<>> /\ Cardinality(busy) < Threads
      /\ busy' = busy \cup {Head(queue)} /\ queue' = Tail(queue)
      /\ request' = request /\ lateLog' = lateLog /\ statusCache' = statusCache /\ rows' = rows
      /\ dispatchRestarts' = dispatchRestarts
  BY DEF Take
<1>2. DispatchTypes /\ ReportInv
  BY DEF DispatchInv
<1>3. /\ queue \in Seq(QueuedType) /\ busy \in SUBSET JobType /\ IsFiniteSet(busy)
      /\ lateLog \in SUBSET Recs /\ statusCache \in [Recs -> StatusType]
  BY <1>2 DEF DispatchTypes
<1>4. /\ queue' \in Seq(QueuedType) /\ Elements(queue') \subseteq Elements(queue)
      /\ Head(queue) \in QueuedType /\ Head(queue) \in Elements(queue)
  BY <1>1, <1>3, ElementsTail
<1>5. busy' \in SUBSET JobType
  BY <1>1, <1>3, <1>4 DEF QueuedType, JobType
<1>6. IsFiniteSet(busy') /\ Cardinality(busy') <= Threads
  <2>1. /\ IsFiniteSet(busy')
        /\ Cardinality(busy') = Cardinality(busy) \/ Cardinality(busy') = Cardinality(busy) + 1
    BY <1>1, <1>3, FS_AddElement
  <2>2. Cardinality(busy) \in Nat /\ Threads \in Nat
    BY <1>3, FS_CardinalityType, DispatchAssumption
  <2>3. QED
    BY <1>1, <2>1, <2>2
<1>7. Jobs' \subseteq Jobs
  BY <1>1, <1>4 DEF Jobs
<1>8. DispatchTypes' /\ QueriesInv' /\ JobsInv' /\ AnswersServeIncidents'
  BY <1>1, <1>3, <1>4, <1>5, <1>6, <1>7, PoolKept
<1>9. ReportInv'
  BY <1>1, <1>2, <1>7 DEF ReportInv, At
<1>10. QED
  BY <1>8, <1>9 DEF DispatchInv

LEMMA SolveLateKept ==
  ASSUME DispatchInv, NEW r \in Recs, SolveLate(r)
  PROVE  DispatchInv'
<1> DEFINE j == Job(r, "late")
           k == Job(r, "correct")
<1>1. /\ j \in busy /\ busy' \subseteq (busy \ {j}) \cup {k}
      /\ lateLog' \subseteq lateLog \cup {r}
      /\ request' = request /\ queue' = queue /\ statusCache' = statusCache /\ rows' = rows
      /\ dispatchRestarts' = dispatchRestarts
  BY DEF SolveLate
<1>2. DispatchTypes /\ ReportInv
  BY DEF DispatchInv
<1>3. /\ queue \in Seq(QueuedType) /\ busy \in SUBSET JobType /\ IsFiniteSet(busy)
      /\ Cardinality(busy) <= Threads
      /\ lateLog \in SUBSET Recs /\ statusCache \in [Recs -> StatusType]
  BY <1>2 DEF DispatchTypes
<1>4. j.rec = r /\ k \in JobType /\ k.rec = r /\ k.kind = "correct" /\ j.kind = "late"
  BY DEF Job, JobType
<1>5. \A o \in Recs : Job(o, "late") # k
  BY DEF Job
<1>6. busy' \in SUBSET JobType /\ lateLog' \in SUBSET Recs
  BY <1>1, <1>3, <1>4
<1> HIDE DEF j, k
<1>7. IsFiniteSet(busy') /\ Cardinality(busy') <= Threads
  <2>1. IsFiniteSet(busy \ {j}) /\ Cardinality(busy \ {j}) = Cardinality(busy) - 1
    BY <1>1, <1>3, FS_RemoveElement
  <2>2. /\ IsFiniteSet((busy \ {j}) \cup {k})
        /\ Cardinality((busy \ {j}) \cup {k}) <= Cardinality(busy \ {j}) + 1
    <3>1. /\ IsFiniteSet((busy \ {j}) \cup {k})
          /\ \/ Cardinality((busy \ {j}) \cup {k}) = Cardinality(busy \ {j})
             \/ Cardinality((busy \ {j}) \cup {k}) = Cardinality(busy \ {j}) + 1
      BY <2>1, FS_AddElement
    <3>2. Cardinality(busy \ {j}) \in Nat
      BY <2>1, FS_CardinalityType
    <3>3. QED
      BY <3>1, <3>2
  <2>3. IsFiniteSet(busy') /\ Cardinality(busy') <= Cardinality((busy \ {j}) \cup {k})
    BY <1>1, <2>2, FS_Subset
  <2>4. PICK a \in Nat, b \in Nat, c \in Nat, d \in Nat :
          /\ a = Cardinality(busy) /\ b = Cardinality(busy \ {j})
          /\ c = Cardinality((busy \ {j}) \cup {k}) /\ d = Cardinality(busy')
    BY <1>3, <2>1, <2>2, <2>3, FS_CardinalityType
  <2>5. b = a - 1 /\ c <= b + 1 /\ d <= c /\ a <= Threads /\ Threads \in Nat
    BY <1>3, <2>1, <2>2, <2>3, <2>4, DispatchAssumption
  <2>6. d <= Threads
    BY <2>4, <2>5
  <2>7. QED
    BY <2>3, <2>4, <2>6
<1>8. Jobs' \subseteq Jobs \cup {k} /\ j \in Jobs
  BY <1>1 DEF Jobs
<1>9. DispatchTypes' /\ QueriesInv' /\ JobsInv' /\ AnswersServeIncidents'
  <2>1. \A o \in Jobs' : o \in Jobs \/ (o.kind # "milp" /\ \E i \in Jobs : i.rec = o.rec)
    BY <1>4, <1>8
  <2>2. QED
    BY <1>1, <1>3, <1>6, <1>7, <2>1, PoolKept
<1>10. ReportInv'
  <2>1. ASSUME NEW o \in Recs, request'[o].phase = "answered",
               o \in lateLog' \/ Job(o, "late") \in Jobs'
        PROVE  statusCache'[o] # None
    <3>1. Job(o, "late") \in Jobs' => Job(o, "late") \in Jobs
      BY <1>5, <1>8
    <3>2. o \in lateLog' => o \in lateLog \/ Job(o, "late") \in Jobs
      BY <1>1, <1>8 DEF j
    <3>3. QED
      BY <1>1, <1>2, <2>1, <3>1, <3>2 DEF ReportInv, At
  <2>2. QED
    BY <2>1 DEF ReportInv, At
<1>11. QED
  BY <1>9, <1>10 DEF DispatchInv

LEMMA CorrectStatusKept ==
  ASSUME DispatchInv, NEW r \in Recs, CorrectStatus(r)
  PROVE  DispatchInv'
<1>1. /\ statusCache' = IF statusCache[r] = None THEN statusCache
                        ELSE [statusCache EXCEPT ![r].late = TRUE]
      /\ busy' \subseteq busy
      /\ request' = request /\ queue' = queue /\ lateLog' = lateLog /\ rows' = rows
      /\ dispatchRestarts' = dispatchRestarts
  BY DEF CorrectStatus
<1>2. DispatchTypes /\ ReportInv
  BY DEF DispatchInv
<1>3. /\ queue \in Seq(QueuedType) /\ busy \in SUBSET JobType
      /\ lateLog \in SUBSET Recs /\ statusCache \in [Recs -> StatusType]
  BY <1>2 DEF DispatchTypes
<1>4. /\ statusCache' \in [Recs -> StatusType]
      /\ \A o \in Recs : statusCache[o] # None => statusCache'[o] # None
  <2>1. CASE statusCache[r] = None
    BY <1>1, <1>3, <2>1
  <2>2. CASE statusCache[r] # None
    <3>1. statusCache' = [statusCache EXCEPT ![r] = [statusCache[r] EXCEPT !.late = TRUE]]
      BY <1>1, <2>2
    <3>2. PICK w : w = [statusCache[r] EXCEPT !.late = TRUE]
      OBVIOUS
    <3>3. w \in StatusType /\ w.late = TRUE
      BY <1>3, <3>2 DEF StatusType
    <3>4. w # None
      BY <3>3 DEF None
    <3>5. statusCache' = [statusCache EXCEPT ![r] = w]
      BY <3>1, <3>2
    <3>6. QED
      BY <1>3, <3>3, <3>4, <3>5
  <2>3. QED
    BY <2>1, <2>2
<1>5. Jobs' \subseteq Jobs
  BY <1>1 DEF Jobs
<1>6. IsFiniteSet(busy') /\ Cardinality(busy') <= Threads
  BY <1>1, <1>2, FewerBusy
<1>7. DispatchTypes' /\ QueriesInv' /\ JobsInv' /\ AnswersServeIncidents'
  BY <1>1, <1>3, <1>4, <1>5, <1>6, PoolKept
<1>8. ReportInv'
  BY <1>1, <1>2, <1>4, <1>5 DEF ReportInv, At
<1>9. QED
  BY <1>7, <1>8 DEF DispatchInv

LEMMA AnswerKept ==
  ASSUME DispatchInv, NEW r \in Recs, Answer(r)
  PROVE  DispatchInv'
<1> DEFINE q == [request[r] EXCEPT !.phase = "answered"]
<1>1. /\ request[r].phase = "saved" /\ request' = [request EXCEPT ![r] = q]
      /\ statusCache' = [statusCache EXCEPT ![r] = Status(r)]
      /\ queue' = queue /\ busy' = busy /\ lateLog' = lateLog
      /\ rows' = rows /\ dispatchRestarts' = dispatchRestarts
  BY DEF Answer, At
<1>2. request[r] \in QueryType /\ statusCache \in [Recs -> StatusType]
  BY QueryFacts
<1>3. /\ q \in QueryType /\ q.phase = "answered" /\ q.source = request[r].source
      /\ q.tier = request[r].tier /\ q.answer = request[r].answer
      /\ q.units = request[r].units /\ q.incidents = request[r].incidents
  BY <1>2 DEF QueryType, QueryPhases
<1> HIDE DEF q
<1>4. QueryInv(q) /\ q.phase # "none"
  BY <1>3 DEF QueryInv
<1>5. /\ q.source # "" => Serves(q)
      /\ \A j \in Jobs : j.rec = r => JobInv(j, q)
  BY <1>3, <1>4, MovedOn
<1>6. DispatchTypes /\ QueriesInv /\ JobsInv /\ ReportInv /\ AnswersServeIncidents
  BY DEF DispatchInv
<1>7. request \in [Recs -> QueryType]
  BY <1>6 DEF DispatchTypes
<1>8. request' \in [Recs -> QueryType] /\ QueriesInv' /\ AnswersServeIncidents'
  BY <1>1, <1>3, <1>4, <1>5, <1>6, <1>7, QueryKept
<1>9. Status(r) \in StatusType /\ Status(r) # None
  BY <1>1, StatusWritten
<1>10. /\ statusCache' \in [Recs -> StatusType]
       /\ \A o \in Recs : statusCache'[o] = IF o = r THEN Status(r) ELSE statusCache[o]
  BY <1>1, <1>2, <1>9
<1>11. DispatchTypes'
  BY <1>1, <1>6, <1>8, <1>10 DEF DispatchTypes
<1>12. Jobs' = Jobs
  BY <1>1 DEF Jobs
<1>13. JobsInv'
  <2>1. Jobs' \subseteq JobType
    BY <1>6, <1>12, JobsType
  <2>2. QED
    BY <1>1, <1>3, <1>5, <1>6, <1>12, <2>1, JobsKept
<1>14. ReportInv'
  <2>1. ASSUME NEW o \in Recs, request'[o].phase = "answered",
               o \in lateLog' \/ Job(o, "late") \in Jobs'
        PROVE  statusCache'[o] # None
    <3>1. CASE o = r
      BY <1>9, <1>10, <3>1
    <3>2. CASE o # r
      <4>1. request'[o] = request[o] /\ statusCache'[o] = statusCache[o]
        BY <1>1, <1>7, <1>10, <3>2
      <4>2. QED
        BY <1>1, <1>6, <1>12, <2>1, <4>1 DEF ReportInv, At
    <3>3. QED
      BY <3>1, <3>2
  <2>2. QED
    BY <2>1 DEF ReportInv, At
<1>15. QED
  BY <1>8, <1>11, <1>13, <1>14 DEF DispatchInv

LEMMA RestartKept ==
  ASSUME DispatchInv, DispatchRestart
  PROVE  DispatchInv'
<1> DEFINE idle(p) == [Idle EXCEPT !.phase = IF p \in {"none", "answered"} THEN p ELSE "refused"]
<1>1. /\ dispatchRestarts < MaxDispatchRestarts /\ dispatchRestarts' = dispatchRestarts + 1
      /\ request' = [r \in Recs |-> idle(request[r].phase)]
      /\ queue' = <<>> /\ busy' = {} /\ lateLog' = {} /\ statusCache' = [r \in Recs |-> None]
      /\ rows' = rows
  BY DEF DispatchRestart
<1>2. DispatchTypes
  BY DEF DispatchInv
<1>3. ASSUME NEW p
      PROVE  /\ idle(p) \in QueryType /\ idle(p).source = ""
             /\ idle(p).phase \in {"none", "answered", "refused"}
  BY DEF Idle, QueryType, QueryPhases
<1> HIDE DEF idle
<1>4. request' \in [Recs -> QueryType] /\ \A r \in Recs : request'[r] = idle(request[r].phase)
  BY <1>1, <1>3
<1>5. QueriesInv'
  BY <1>3, <1>4 DEF QueriesInv, QueryInv
<1>6. AnswersServeIncidents'
  BY <1>3, <1>4 DEF AnswersServeIncidents
<1>7. Jobs' = {}
  BY <1>1 DEF Jobs, Elements
<1>8. JobsInv' /\ ReportInv'
  BY <1>1, <1>7 DEF JobsInv, ReportInv
<1>9. DispatchTypes'
  <2>1. IsFiniteSet(busy') /\ Cardinality(busy') <= Threads
    BY <1>1, FS_EmptySet, DispatchAssumption
  <2>2. dispatchRestarts' \in 0 .. MaxDispatchRestarts
    BY <1>1, <1>2, DispatchAssumption DEF DispatchTypes
  <2>3. None \in StatusType
    BY DEF None, StatusType
  <2>4. queue' \in Seq(QueuedType)
    BY <1>1
  <2>5. QED
    BY <1>1, <1>2, <1>4, <2>1, <2>2, <2>3, <2>4 DEF DispatchTypes
<1>10. QED
  BY <1>5, <1>6, <1>8, <1>9 DEF DispatchInv

LEMMA DispatchInitially == DispatchInit => DispatchInv
<1> SUFFICES ASSUME DispatchInit PROVE DispatchInv
  OBVIOUS
<1>1. Idle \in QueryType /\ Idle.source = "" /\ Idle.phase = "none"
  BY DEF Idle, QueryType, QueryPhases
<1>2. None \in StatusType
  BY DEF None, StatusType
<1>3. /\ \A r \in Recs : request[r] = Idle
      /\ request = [r \in Recs |-> Idle] /\ queue = <<>> /\ busy = {} /\ lateLog = {}
      /\ statusCache = [r \in Recs |-> None] /\ rows = [r \in Recs |-> None]
      /\ dispatchRestarts = 0
  BY DEF DispatchInit
<1>4. IsFiniteSet(busy) /\ Cardinality(busy) <= Threads
  BY <1>3, FS_EmptySet, DispatchAssumption
<1>5. 0 \in 0 .. MaxDispatchRestarts
  BY DispatchAssumption
<1>6. request \in [Recs -> QueryType]
  BY <1>1, <1>3
<1>7. DispatchTypes
  BY <1>2, <1>3, <1>4, <1>5, <1>6 DEF DispatchTypes
<1>8. Jobs = {}
  BY <1>3 DEF Jobs, Elements
<1>9. QueriesInv /\ JobsInv /\ ReportInv /\ AnswersServeIncidents
  BY <1>1, <1>3, <1>8 DEF QueriesInv, QueryInv, JobsInv, ReportInv, AnswersServeIncidents
<1>10. QED
  BY <1>7, <1>9 DEF DispatchInv

LEMMA DispatchStep ==
  ASSUME DispatchInv, [DispatchNext]_dispatchVars
  PROVE  DispatchInv'
<1>1. CASE UNCHANGED dispatchVars
  BY <1>1 DEF dispatchVars, DispatchInv, DispatchTypes, QueriesInv, JobsInv, Jobs, ReportInv, At,
              AnswersServeIncidents
<1>2. ASSUME NEW r \in Recs,
             \/ Recommend(r) \/ SolveMilp(r) \/ FallBack(r) \/ SolveFallback(r)
             \/ SolveLate(r) \/ CorrectStatus(r) \/ Assemble(r) \/ Save(r) \/ Answer(r)
      PROVE  DispatchInv'
  BY <1>2, RecommendKept, SolveMilpKept, FallBackKept, SolveFallbackKept, SolveLateKept,
     CorrectStatusKept, AssembleKept, SaveKept, AnswerKept
<1>3. QED
  BY <1>1, <1>2, TakeKept, RestartKept DEF DispatchNext

LEMMA DispatchAlways == DispatchSpec => []DispatchInv
<1>1. DispatchInv /\ [DispatchNext]_dispatchVars => DispatchInv'
  BY DispatchStep
<1>2. QED
  BY <1>1, DispatchInitially, PTL DEF DispatchSpec

------------------------------------------------------------------------------
(* The planned packages (M06).                                                *)

LEMMA SeedsDomain == DOMAIN Seeds = 1 .. 6 /\ \A n \in 1 .. 6 : Seeds[n].barricades \in Nat
<1>1. DOMAIN Seeds = 1 .. 6
  BY DEF Seeds
<1>2. /\ Seeds[1].barricades \in Nat /\ Seeds[2].barricades \in Nat
      /\ Seeds[3].barricades \in Nat /\ Seeds[4].barricades \in Nat
      /\ Seeds[5].barricades \in Nat /\ Seeds[6].barricades \in Nat
  BY DEF Seeds, Seed
<1>3. \A n \in 1 .. 6 : n = 1 \/ n = 2 \/ n = 3 \/ n = 4 \/ n = 5 \/ n = 6
  OBVIOUS
<1>4. QED
  BY <1>1, <1>2, <1>3

LEMMA TemplateExists ==
  ASSUME NEW a
  PROVE  MatchTemplate(a) \in 1 .. 6
<1> DEFINE best == {n \in DOMAIN Seeds : Points(Seeds[n], a) > -1 /\
                     \A m \in DOMAIN Seeds : Points(Seeds[m], a) <= Points(Seeds[n], a)}
<1>1. best \in SUBSET Nat /\ best \subseteq 1 .. 6
  BY SeedsDomain
<1>2. MatchTemplate(a) = IF best = {} THEN 2 ELSE CHOOSE n \in best : \A m \in best : n <= m
  BY DEF MatchTemplate
<1> HIDE DEF best
<1>3. CASE best = {}
  BY <1>2, <1>3
<1>4. CASE best # {}
  <2>1. \E n \in best : \A m \in best : n <= m
    BY <1>1, <1>4, LeastNumber
  <2>2. (CHOOSE n \in best : \A m \in best : n <= m) \in best
    BY <2>1
  <2>3. QED
    BY <1>1, <1>2, <1>4, <2>2
<1>5. QED
  BY <1>3, <1>4

(* The shapes of the records: what is in them is of no matter here. *)
Shape(S) == [phase : S, event : S, loaded : S, overlay : S, package : S]
IsPlanner(q) == \E S : q \in Shape(S)

LEMMA Wider ==
  ASSUME NEW w, IsPlanner(w), NEW a, NEW b
  PROVE  \E T : w \in Shape(T) /\ a \in T /\ b \in T /\ NoRow \in T
<1>1. PICK S : w \in Shape(S)
  BY DEF IsPlanner
<1>2. PICK T : T = S \cup {a, b, NoRow}
  OBVIOUS
<1>3. w \in Shape(T) /\ a \in T /\ b \in T /\ NoRow \in T
  BY <1>1, <1>2 DEF Shape
<1>4. QED
  BY <1>3

LEMMA AsleepShape == IsPlanner(Asleep) /\ Asleep.phase = "none"
<1>1. PICK S : S = {"none", NoAttributes, NoRow, NoOverlay, NoPackage}
  OBVIOUS
<1>2. Asleep \in Shape(S) /\ Asleep.phase = "none"
  BY <1>1 DEF Asleep, Shape
<1>3. QED
  BY <1>2 DEF IsPlanner

PlannersInv ==
  /\ planner = [p \in Planners |-> planner[p]]
  /\ \A p \in Planners : IsPlanner(planner[p])

\* The package is the one these attributes give, with whatever overlay it has.
Fits(package, a) == package = Package(a, package.overlay)

\* While no two requests have been saving at once.
AloneSaving ==
  /\ packageRow # NoRow => Fits(packageRow.package, packageRow.hash)
  /\ \A p \in Planners : Waits(p, "save") => planner[p].loaded = packageRow
  /\ \A p \in Planners : Waits(p, "answered") => Fits(planner[p].package, planner[p].event)

PackagesInv == PlannersInv /\ overlapped \in BOOLEAN /\ (~overlapped => AloneSaving)

LEMMA PackageFits ==
  ASSUME NEW a, NEW overlay
  PROVE  Fits(Package(a, overlay), a)
BY DEF Fits, Package

(* One request goes on to a phase that is neither of the two. *)
LEMMA PlannerMoves ==
  ASSUME PackagesInv, NEW p \in Planners, NEW q, IsPlanner(q),
         planner' = [planner EXCEPT ![p] = q], UNCHANGED <<packageRow, overlapped>>,
         q.phase = "save" => q.loaded = packageRow,
         q.phase = "answered" => (~overlapped => Fits(q.package, q.event))
  PROVE  PackagesInv'
<1>1. /\ planner' = [o \in Planners |-> planner'[o]]
      /\ \A o \in Planners : planner'[o] = IF o = p THEN q ELSE planner[o]
  BY DEF PackagesInv, PlannersInv
<1>2. PlannersInv'
  BY <1>1 DEF PackagesInv, PlannersInv
<1>3. ~overlapped => AloneSaving'
  <2> SUFFICES ASSUME ~overlapped PROVE AloneSaving'
    OBVIOUS
  <2>1. AloneSaving
    BY DEF PackagesInv
  <2>2. packageRow' # NoRow => Fits(packageRow'.package, packageRow'.hash)
    BY <2>1 DEF AloneSaving
  <2>3. \A o \in Planners : planner'[o].phase = "save" => planner'[o].loaded = packageRow'
    BY <1>1, <2>1 DEF AloneSaving, Waits
  <2>4. \A o \in Planners : planner'[o].phase = "answered" =>
                              Fits(planner'[o].package, planner'[o].event)
    BY <1>1, <2>1 DEF AloneSaving, Waits
  <2>5. QED
    BY <2>2, <2>3, <2>4 DEF AloneSaving, Waits
<1>4. QED
  BY <1>2, <1>3 DEF PackagesInv

LEMMA AskKept ==
  ASSUME PackagesInv, NEW p \in Planners, Ask(p)
  PROVE  PackagesInv'
<1>1. PICK phase \in {"cache", "features", "refused"} :
        planner' = [planner EXCEPT ![p] = [Asleep EXCEPT !.phase = phase, !.event = plan.event]]
  BY DEF Ask
<1> DEFINE q == [Asleep EXCEPT !.phase = phase, !.event = plan.event]
<1>2. IsPlanner(q) /\ q.phase = phase
  <2>1. PICK T : Asleep \in Shape(T) /\ phase \in T /\ plan.event \in T
    BY AsleepShape, Wider
  <2>2. q \in Shape(T) /\ q.phase = phase
    BY <2>1 DEF Shape
  <2>3. QED
    BY <2>2 DEF IsPlanner
<1>3. UNCHANGED <<packageRow, overlapped>>
  BY DEF Ask
<1>4. QED
  BY <1>1, <1>2, <1>3, PlannerMoves

LEMMA LookUpKept ==
  ASSUME PackagesInv, NEW p \in Planners, LookUp(p)
  PROVE  PackagesInv'
<1>1. UNCHANGED <<packageRow, overlapped>> /\ IsPlanner(planner[p])
  BY DEF LookUp, PackagesInv, PlannersInv
<1>2. CASE packageRow # NoRow /\ packageRow.hash = AttributesHash(planner[p].event)
  <2> DEFINE q == [planner[p] EXCEPT !.phase = "answered", !.package = packageRow.package]
  <2>1. planner' = [planner EXCEPT ![p] = q]
    BY <1>2 DEF LookUp
  <2>2. IsPlanner(q) /\ q.phase = "answered" /\ q.package = packageRow.package
        /\ q.event = planner[p].event
    <3>1. PICK T : planner[p] \in Shape(T) /\ "answered" \in T /\ packageRow.package \in T
      BY <1>1, Wider
    <3>2. q \in Shape(T) /\ q.phase = "answered" /\ q.package = packageRow.package
          /\ q.event = planner[p].event
      BY <3>1 DEF Shape
    <3>3. QED
      BY <3>2 DEF IsPlanner
  <2>3. ~overlapped => Fits(packageRow.package, planner[p].event)
    BY <1>2 DEF PackagesInv, AloneSaving, AttributesHash
  <2> HIDE DEF q
  <2>4. QED
    BY <1>1, <2>1, <2>2, <2>3, PlannerMoves
<1>3. CASE ~(packageRow # NoRow /\ packageRow.hash = AttributesHash(planner[p].event))
  <2> DEFINE q == [planner[p] EXCEPT !.phase = "overlay"]
  <2>1. planner' = [planner EXCEPT ![p] = q]
    BY <1>3 DEF LookUp
  <2>2. IsPlanner(q) /\ q.phase = "overlay"
    <3>1. PICK T : planner[p] \in Shape(T) /\ "overlay" \in T /\ "overlay" \in T
      BY <1>1, Wider
    <3>2. q \in Shape(T) /\ q.phase = "overlay"
      BY <3>1 DEF Shape
    <3>3. QED
      BY <3>2 DEF IsPlanner
  <2> HIDE DEF q
  <2>3. QED
    BY <1>1, <2>1, <2>2, PlannerMoves
<1>4. QED
  BY <1>2, <1>3

LEMMA OverlayKept ==
  ASSUME PackagesInv, NEW p \in Planners, ReuseOverlay(p) \/ ScoreOverlay(p)
  PROVE  PackagesInv'
<1>1. UNCHANGED <<packageRow, overlapped>> /\ IsPlanner(planner[p])
  BY DEF ReuseOverlay, ScoreOverlay, PackagesInv, PlannersInv
<1>2. ASSUME NEW phase \in {"features", "features again"},
             planner' = [planner EXCEPT ![p] = [planner[p] EXCEPT !.phase = phase]]
      PROVE  PackagesInv'
  <2> DEFINE q == [planner[p] EXCEPT !.phase = phase]
  <2>1. IsPlanner(q) /\ q.phase = phase
    <3>1. PICK T : planner[p] \in Shape(T) /\ phase \in T /\ phase \in T
      BY <1>1, Wider
    <3>2. q \in Shape(T) /\ q.phase = phase
      BY <3>1 DEF Shape
    <3>3. QED
      BY <3>2 DEF IsPlanner
  <2> HIDE DEF q
  <2>2. QED
    BY <1>1, <1>2, <2>1, PlannerMoves DEF q
<1>3. ASSUME NEW overlay,
             planner' = [planner EXCEPT ![p] =
                           [planner[p] EXCEPT !.phase = "load", !.overlay = overlay]]
      PROVE  PackagesInv'
  <2> DEFINE q == [planner[p] EXCEPT !.phase = "load", !.overlay = overlay]
  <2>1. IsPlanner(q) /\ q.phase = "load"
    <3>1. PICK T : planner[p] \in Shape(T) /\ "load" \in T /\ overlay \in T
      BY <1>1, Wider
    <3>2. q \in Shape(T) /\ q.phase = "load"
      BY <3>1 DEF Shape
    <3>3. QED
      BY <3>2 DEF IsPlanner
  <2> HIDE DEF q
  <2>2. QED
    BY <1>1, <1>3, <2>1, PlannerMoves DEF q
<1>4. CASE ReuseOverlay(p)
  <2>1. CASE packageRow = NoRow
    BY <1>2, <1>4, <2>1 DEF ReuseOverlay
  <2>2. CASE packageRow # NoRow
    BY <1>3, <1>4, <2>2 DEF ReuseOverlay
  <2>3. QED
    BY <2>1, <2>2
<1>5. CASE ScoreOverlay(p)
  <2>1. CASE featuresOf # NoAttributes
    BY <1>3, <1>5, <2>1 DEF ScoreOverlay
  <2>2. CASE featuresOf = NoAttributes /\ Waits(p, "features")
    BY <1>2, <1>5, <2>2 DEF ScoreOverlay
  <2>3. CASE featuresOf = NoAttributes /\ ~Waits(p, "features")
    BY <1>3, <1>5, <2>3 DEF ScoreOverlay
  <2>4. QED
    BY <2>1, <2>2, <2>3
<1>6. QED
  BY <1>4, <1>5

LEMMA LoadKept ==
  ASSUME PackagesInv, NEW p \in Planners, LoadPackage(p)
  PROVE  PackagesInv'
<1> DEFINE q == [planner[p] EXCEPT !.phase = "save", !.loaded = packageRow]
<1>1. UNCHANGED <<packageRow, overlapped>> /\ IsPlanner(planner[p])
      /\ planner' = [planner EXCEPT ![p] = q]
  BY DEF LoadPackage, PackagesInv, PlannersInv
<1>2. IsPlanner(q) /\ q.phase = "save" /\ q.loaded = packageRow
  <2>1. PICK T : planner[p] \in Shape(T) /\ "save" \in T /\ packageRow \in T
    BY <1>1, Wider
  <2>2. q \in Shape(T) /\ q.phase = "save" /\ q.loaded = packageRow
    BY <2>1 DEF Shape
  <2>3. QED
    BY <2>2 DEF IsPlanner
<1> HIDE DEF q
<1>3. QED
  BY <1>1, <1>2, PlannerMoves

(* A request that saves alone has loaded the row as it still is. *)
LEMMA SaveAlone ==
  ASSUME PackagesInv, NEW p \in Planners, SavePackage(p)
  PROVE  PackagesInv'
<1> DEFINE w == planner[p]
           new == Package(w.event, w.overlay)
           hash == AttributesHash(w.event)
           fails == w.loaded = NoRow /\ packageRow # NoRow
           kept == w.loaded # NoRow /\ w.loaded.hash = hash
<1>1. /\ w.phase = "save"
      /\ packageRow' = IF fails THEN packageRow
                       ELSE [hash |-> IF kept THEN packageRow.hash ELSE hash, package |-> new]
      /\ planner' = [planner EXCEPT ![p] =
              IF fails THEN [Asleep EXCEPT !.phase = "refused"]
              ELSE [w EXCEPT !.phase = "answered", !.package = new, !.loaded = NoRow]]
      /\ overlapped' = (overlapped \/ \E o \in Planners \ {p} : Waits(o, "save"))
  BY DEF SavePackage, Waits
<1>2. PICK q : /\ q = IF fails THEN [Asleep EXCEPT !.phase = "refused"]
                      ELSE [w EXCEPT !.phase = "answered", !.package = new, !.loaded = NoRow]
               /\ planner' = [planner EXCEPT ![p] = q]
  BY <1>1
<1>3. /\ IsPlanner(q) /\ q.phase # "save"
      /\ fails => q.phase = "refused"
      /\ ~fails => q.event = w.event /\ q.package = new
  <2>1. IsPlanner(w)
    BY DEF PackagesInv, PlannersInv
  <2>2. CASE fails
    <3>1. PICK T : Asleep \in Shape(T) /\ "refused" \in T
      BY AsleepShape, Wider
    <3>2. q \in Shape(T) /\ q.phase = "refused"
      BY <1>2, <2>2, <3>1 DEF Shape
    <3>3. QED
      BY <2>2, <3>2 DEF IsPlanner
  <2>3. CASE ~fails
    <3>1. PICK T : w \in Shape(T) /\ "answered" \in T /\ new \in T /\ NoRow \in T
      BY <2>1, Wider
    <3>2. q \in Shape(T) /\ q.phase = "answered" /\ q.package = new /\ q.event = w.event
      <4> HIDE DEF w, new, fails, kept
      <4>1. q = [w EXCEPT !.phase = "answered", !.package = new, !.loaded = NoRow]
        BY <1>2, <2>3
      <4>2. QED
        BY <3>1, <4>1 DEF Shape
    <3>3. QED
      BY <2>3, <3>2 DEF IsPlanner
  <2>4. QED
    BY <2>2, <2>3
<1>4. /\ planner' = [o \in Planners |-> planner'[o]]
      /\ \A o \in Planners : planner'[o] = IF o = p THEN q ELSE planner[o]
  BY <1>2 DEF PackagesInv, PlannersInv
<1>5. PlannersInv'
  BY <1>3, <1>4 DEF PackagesInv, PlannersInv
<1>6. ASSUME ~overlapped' PROVE AloneSaving'
  <2>1. ~overlapped /\ \A o \in Planners : o # p => planner[o].phase # "save"
    BY <1>1, <1>6 DEF Waits
  <2>2. AloneSaving
    BY <2>1 DEF PackagesInv
  <2>3. w.loaded = packageRow
    BY <1>1, <2>2 DEF AloneSaving, Waits
  <2>4. ~fails /\ packageRow' = [hash |-> w.event, package |-> new]
    BY <1>1, <2>3 DEF AttributesHash
  <2>5. Fits(new, w.event)
    BY PackageFits
  <2> HIDE DEF w, new, hash, fails, kept
  <2>6. Fits(packageRow'.package, packageRow'.hash)
    BY <2>4, <2>5
  <2>7. \A o \in Planners : planner'[o].phase # "save"
    BY <1>3, <1>4, <2>1
  <2>8. \A o \in Planners : planner'[o].phase = "answered" =>
                              Fits(planner'[o].package, planner'[o].event)
    BY <1>3, <1>4, <2>2, <2>4, <2>5 DEF AloneSaving, Waits
  <2>9. QED
    BY <2>6, <2>7, <2>8 DEF AloneSaving, Waits
<1>7. overlapped' \in BOOLEAN
  BY <1>1 DEF PackagesInv
<1>8. QED
  BY <1>5, <1>6, <1>7 DEF PackagesInv

LEMMA PackagesInitially == PackagesInit => PackagesInv
<1> SUFFICES ASSUME PackagesInit PROVE PackagesInv
  OBVIOUS
<1>1. IsPlanner(Asleep) /\ Asleep.phase = "none"
  BY AsleepShape
<1>2. packageRow = NoRow /\ overlapped = FALSE /\ planner = [p \in Planners |-> Asleep]
  BY DEF PackagesInit
<1>3. QED
  BY <1>1, <1>2 DEF PackagesInv, PlannersInv, AloneSaving, Waits

LEMMA PackagesStep ==
  ASSUME PackagesInv, [PackagesNext]_packageVars
  PROVE  PackagesInv'
<1>1. ASSUME UNCHANGED <<packageRow, planner, overlapped>> PROVE PackagesInv'
  BY <1>1 DEF PackagesInv, PlannersInv, AloneSaving, Waits
<1>2. CASE UNCHANGED packageVars \/ UpdatePlan \/ MaterialisePlan
  BY <1>1, <1>2 DEF packageVars, UpdatePlan, MaterialisePlan
<1>3. ASSUME NEW p \in Planners,
             \/ Ask(p) \/ LookUp(p) \/ ReuseOverlay(p) \/ ScoreOverlay(p)
             \/ LoadPackage(p) \/ SavePackage(p)
      PROVE  PackagesInv'
  BY <1>3, AskKept, LookUpKept, OverlayKept, LoadKept, SaveAlone
<1>4. QED
  BY <1>2, <1>3 DEF PackagesNext

LEMMA PackagesAlways == PackagesSpec => []PackagesInv
<1>1. PackagesInv /\ [PackagesNext]_packageVars => PackagesInv'
  BY PackagesStep
<1>2. QED
  BY <1>1, PackagesInitially, PTL DEF PackagesSpec

LEMMA InvFitsEvent == PackagesInv => PackageFitsEvent
<1> SUFFICES ASSUME PackagesInv, ~overlapped, NEW p \in Planners, Waits(p, "answered"),
                    NEW a, a = planner[p].event, NEW package, package = planner[p].package
             PROVE  /\ package.template = MatchTemplate(a) /\ package.corridor = a.corridor
                    /\ Vip(a) => package.barricades >= 12 /\ package.staging
                    /\ package.overlay.closure >= 35 => package.staging
                    /\ ~Vip(a) => package.barricades = Seeds[package.template].barricades
  BY DEF PackageFitsEvent
<1>1. PICK overlay : overlay = package.overlay /\ package = Package(a, overlay)
  BY DEF PackagesInv, AloneSaving, Fits
<1>2. /\ package.template = MatchTemplate(a) /\ package.corridor = a.corridor
      /\ package.barricades = Barricades(a) /\ package.staging = Staging(a, overlay)
  BY <1>1 DEF Package
<1>3. Seeds[MatchTemplate(a)].barricades \in Nat
  BY TemplateExists, SeedsDomain
<1>4. Vip(a) => Barricades(a) >= 12
  BY <1>3 DEF Barricades
<1>5. ~Vip(a) => Barricades(a) = Seeds[MatchTemplate(a)].barricades
  BY DEF Barricades
<1>6. (Vip(a) \/ overlay.closure >= 35) => Staging(a, overlay)
  BY DEF Staging
<1>7. QED
  BY <1>1, <1>2, <1>4, <1>5, <1>6

------------------------------------------------------------------------------
(* The replay buffer (M13).                                                   *)

LEMMA Division ==
  ASSUME NEW p \in Nat, NEW a \in Nat \ {0}
  PROVE  p \div a \in Nat /\ (p \div a) * a <= p /\ p < (p \div a) * a + a
OBVIOUS

LEMMA TimesMonotone ==
  ASSUME NEW m \in Nat, NEW n \in Nat, m <= n, NEW a \in Nat
  PROVE  m * a <= n * a /\ m * a \in Nat /\ n * a \in Nat
<1>1. PICK d \in Nat : n = m + d
  BY n - m \in Nat /\ n = m + (n - m)
<1>2. m * a \in Nat /\ d * a \in Nat /\ n * a \in Nat /\ (m + d) * a = m * a + d * a
  OBVIOUS
<1>3. QED
  BY <1>1, <1>2

LEMMA TimesCancels ==
  ASSUME NEW m \in Nat, NEW n \in Nat, NEW a \in Nat \ {0}, m * a < n * a
  PROVE  m < n
<1> SUFFICES ASSUME n <= m PROVE FALSE
  OBVIOUS
<1>1. n * a <= m * a /\ m * a \in Nat /\ n * a \in Nat
  BY TimesMonotone
<1>2. QED
  BY <1>1

(* A share that is less than the whole never fills a stratum that has a row. *)
LEMMA ShareOfAll ==
  ASSUME NEW n \in Nat, NEW t \in Nat, NEW a \in Nat, t < a
  PROVE  LET q == (n * t) \div a
         IN  /\ q \in Nat /\ q <= n /\ (n # 0 => q < n)
             /\ n * t - q * a \in 0 .. (a - 1)
<1>1. PICK p \in Nat : p = n * t
  OBVIOUS
<1>2. a \in Nat \ {0}
  OBVIOUS
<1>3. PICK q \in Nat : q = p \div a /\ q * a <= p /\ p < q * a + a
  BY <1>2, Division
<1>4. q * a \in Nat
  OBVIOUS
<1>5. n * t - q * a \in 0 .. (a - 1)
  <2>1. PICK r \in Nat : r = q * a
    BY <1>4
  <2>2. p - r \in 0 .. (a - 1)
    BY <1>3, <2>1
  <2>3. QED
    BY <1>1, <2>1, <2>2
<1>6. CASE n = 0
  <2>1. p = 0
    BY <1>1, <1>6
  <2>2. q * a <= 0 * a
    BY <1>3, <2>1
  <2>3. q = 0
    <3> SUFFICES ASSUME q # 0 PROVE FALSE
      OBVIOUS
    <3>1. 1 <= q /\ 1 * a <= q * a
      BY TimesMonotone
    <3>2. 1 * a = a /\ 0 * a = 0
      OBVIOUS
    <3>3. QED
      BY <1>2, <1>4, <2>2, <3>1, <3>2
  <2>4. QED
    BY <1>1, <1>3, <1>5, <1>6, <2>3
<1>7. CASE n # 0
  <2>1. n * t < n * a
    <3>1. PICK d \in Nat \ {0} : a = t + d
      BY a - t \in Nat \ {0} /\ a = t + (a - t)
    <3>2. n * (t + d) = n * t + n * d /\ n * t \in Nat
      OBVIOUS
    <3>3. n * d \in Nat \ {0}
      <4>1. 1 * d <= n * d /\ n * d \in Nat
        BY <1>7, TimesMonotone
      <4>2. 1 * d = d
        OBVIOUS
      <4>3. QED
        BY <4>1, <4>2
    <3>4. QED
      BY <3>1, <3>2, <3>3
  <2>2. q * a < n * a
    <3>1. PICK r \in Nat, m \in Nat : r = q * a /\ m = n * a
      OBVIOUS
    <3>2. r < m
      BY <1>1, <1>3, <2>1, <3>1
    <3>3. QED
      BY <3>1, <3>2
  <2>3. q < n
    BY <1>2, <2>2, TimesCancels
  <2>4. QED
    BY <1>1, <1>3, <1>5, <2>3
<1>8. QED
  BY <1>6, <1>7

LEMMA MaxOfTwo ==
  ASSUME NEW a \in Nat, NEW b \in Nat
  PROVE  Max({a, b}) \in Nat /\ Max({a, b}) >= a /\ Max({a, b}) >= b
<1>1. \E x \in {a, b} : \A y \in {a, b} : x >= y
  <2>1. CASE a >= b
    BY <2>1
  <2>2. CASE b >= a
    BY <2>2
  <2>3. QED
    BY <2>1, <2>2
<1>2. Max({a, b}) \in {a, b} /\ \A y \in {a, b} : Max({a, b}) >= y
  BY <1>1 DEF Max
<1>3. QED
  BY <1>2

LEMMA TotalType ==
  ASSUME NEW f, \A s \in Strata : f[s] \in Nat
  PROVE  Total(f) \in Nat
BY SumNat, BufferAssumption DEF Total

(* What holds of the quotas and their remainders, when not all rows are taken. *)
Quotas(n, t, a, q, r) ==
  /\ a = Total(n) /\ t < a
  /\ \A s \in Strata : /\ q[s] \in Nat /\ q[s] <= n[s] /\ (n[s] # 0 => q[s] < n[s])
                       /\ r[s] = n[s] * t - q[s] * a /\ r[s] \in 0 .. (a - 1)

LEMMA QuotasAre ==
  ASSUME NEW n \in [Strata -> Nat], NEW t \in Nat, t < Total(n)
  PROVE  Quotas(n, t, Total(n), [s \in Strata |-> Quota(n, t, s)],
                                [s \in Strata |-> Remainder(n, t, s)])
<1>1. Total(n) \in Nat
  BY TotalType
<1>2. ASSUME NEW s \in Strata
      PROVE  /\ Quota(n, t, s) \in Nat /\ Quota(n, t, s) <= n[s]
             /\ n[s] # 0 => Quota(n, t, s) < n[s]
             /\ Remainder(n, t, s) = n[s] * t - Quota(n, t, s) * Total(n)
             /\ Remainder(n, t, s) \in 0 .. (Total(n) - 1)
  <2>1. PICK m, q : m \in Nat /\ m = n[s] /\ q = (m * t) \div Total(n)
    OBVIOUS
  <2>2. /\ q \in Nat /\ q <= m /\ (m # 0 => q < m)
        /\ m * t - q * Total(n) \in 0 .. (Total(n) - 1)
    BY <1>1, <2>1, ShareOfAll
  <2>3. Quota(n, t, s) = q
    BY <2>1, <2>2 DEF Quota
  <2>4. Remainder(n, t, s) = m * t - q * Total(n)
    BY <2>1, <2>3 DEF Remainder
  <2>5. QED
    BY <2>1, <2>2, <2>3, <2>4
<1>3. QED
  BY <1>2 DEF Quotas

(* What the quotas leave over is less than a row for each stratum with a      *)
(* remainder.                                                                 *)
LEMMA ShortBound ==
  ASSUME NEW a \in Nat \ {0}, NEW short \in Int, NEW p \in Nat, NEW sum \in Nat,
         a * short = sum, sum <= (a - 1) * p
  PROVE  short \in Nat /\ short <= p /\ (p # 0 => short < p)
<1>1. short \in Nat
  <2> SUFFICES ASSUME short < 0 PROVE FALSE
    OBVIOUS
  <2>1. PICK d \in Nat \ {0} : short = -d
    BY -short \in Nat \ {0} /\ short = -(-short)
  <2>2. a * (-d) = -(a * d) /\ a * d = d * a
    OBVIOUS
  <2>3. 1 * a <= d * a
    BY <2>1, TimesMonotone
  <2>4. PICK m \in Int : m = d * a
    OBVIOUS
  <2>5. 1 * a = a
    OBVIOUS
  <2>6. m >= a /\ sum = -m
    BY <2>1, <2>2, <2>3, <2>4, <2>5
  <2>7. QED
    BY <2>4, <2>6
<1>2. (a - 1) * p = p * a - p /\ p * a \in Nat
  OBVIOUS
<1>3. a * short = short * a
  BY <1>1
<1>4. PICK m \in Nat, k \in Nat : m = p * a /\ k = short * a
  BY <1>1, <1>2
<1>5. k <= m - p
  BY <1>2, <1>3, <1>4
<1>6. p # 0 => short < p
  <2>1. p # 0 => k < m
    BY <1>4, <1>5
  <2>2. QED
    BY <1>1, <1>4, <2>1, TimesCancels
<1>7. p = 0 => short = 0
  <2> SUFFICES ASSUME p = 0, short # 0 PROVE FALSE
    BY <1>1
  <2>1. 1 * a <= short * a
    BY <1>1, TimesMonotone
  <2>2. 1 * a = a /\ 0 * a = 0
    OBVIOUS
  <2>3. m = 0 /\ k >= a
    BY <1>4, <2>1, <2>2
  <2>4. QED
    BY <1>5, <2>3
<1>8. QED
  BY <1>1, <1>6, <1>7

Leftover(r) == {s \in Strata : r[s] # 0}

LEMMA RemaindersAddUp ==
  ASSUME NEW n \in [Strata -> Nat], NEW t \in Nat, NEW a, NEW q, NEW r, Quotas(n, t, a, q, r)
  PROVE  /\ a \in Nat \ {0} /\ Total(q) \in Nat /\ Total(r) \in Nat
         /\ a * (t - Total(q)) = Total(r)
<1>1. /\ a = Total(n) /\ a \in Nat \ {0}
      /\ \A s \in Strata : q[s] \in Nat /\ r[s] \in Nat /\ r[s] = n[s] * t - q[s] * a
  <2>1. Total(n) \in Nat
    BY TotalType
  <2>2. QED
    BY <2>1 DEF Quotas
<1>2. Total(q) \in Nat /\ Total(r) \in Nat
  BY <1>1, TotalType
<1>3. IsFiniteSet(Strata) /\ IntsOn(n, Strata) /\ IntsOn(q, Strata) /\ IntsOn(r, Strata)
  BY <1>1, BufferAssumption DEF IntsOn
<1>4. PICK f, g : /\ f = [s \in Strata |-> t * n[s]] /\ g = [s \in Strata |-> a * q[s]]
  OBVIOUS
<1>5. SumFunctionOnSet(f, Strata) = t * SumFunctionOnSet(n, Strata)
  <2>1. \A s \in Strata : f[s] = t * n[s]
    BY <1>4
  <2>2. t \in Int
    OBVIOUS
  <2>3. QED
    BY <1>3, <2>1, <2>2, SumTimes
<1>6. SumFunctionOnSet(g, Strata) = a * SumFunctionOnSet(q, Strata)
  <2>1. \A s \in Strata : g[s] = a * q[s]
    BY <1>4
  <2>2. a \in Int
    BY <1>1
  <2>3. QED
    BY <1>3, <2>1, <2>2, SumTimes
<1>7. SumFunctionOnSet(f, Strata) = SumFunctionOnSet(g, Strata) + SumFunctionOnSet(r, Strata)
  <2>1. IntsOn(g, Strata)
    <3>1. \A m \in Nat : a * m \in Int
      BY <1>1
    <3>2. QED
      BY <1>1, <1>4, <3>1 DEF IntsOn
  <2>2. ASSUME NEW s \in Strata PROVE f[s] = g[s] + r[s]
    <3>1. PICK m \in Nat, k \in Nat : m = n[s] /\ k = q[s]
      BY <1>1
    <3>2. r[s] = m * t - k * a /\ f[s] = t * m /\ g[s] = a * k
      BY <1>1, <1>4, <3>1
    <3>3. t * m = m * t /\ a * k = k * a /\ m * t \in Int /\ k * a \in Int
      BY <1>1
    <3>4. PICK u \in Int, v \in Int : u = m * t /\ v = k * a
      BY <3>3
    <3>5. u = v + (u - v)
      OBVIOUS
    <3>6. QED
      BY <3>2, <3>3, <3>4, <3>5
  <2>3. QED
    BY <1>3, <2>1, <2>2, SumPlus
<1>8. t * a = a * Total(q) + Total(r)
  BY <1>1, <1>5, <1>6, <1>7 DEF Total
<1>9. PICK x \in Nat, y \in Nat, b \in Nat : x = Total(q) /\ y = Total(r) /\ b = a
  BY <1>1, <1>2
<1>10. b * (t - x) = t * b - b * x /\ t * b \in Nat /\ b * x \in Nat
  OBVIOUS
<1>11. b * (t - x) = y
  <2>1. t * b = b * x + y
    BY <1>8, <1>9
  <2>2. QED
    BY <1>10, <2>1
<1>12. QED
  BY <1>1, <1>2, <1>9, <1>11

LEMMA RemaindersBounded ==
  ASSUME NEW n \in [Strata -> Nat], NEW t \in Nat, NEW a, NEW q, NEW r, Quotas(n, t, a, q, r)
  PROVE  /\ IsFiniteSet(Leftover(r)) /\ Cardinality(Leftover(r)) \in Nat
         /\ Total(r) <= (a - 1) * Cardinality(Leftover(r))
<1>1. /\ a \in Nat \ {0} /\ \A s \in Strata : r[s] \in 0 .. (a - 1)
  BY RemaindersAddUp DEF Quotas
<1>2. IsFiniteSet(Strata) /\ IntsOn(r, Strata)
  BY <1>1, BufferAssumption DEF IntsOn
<1>3. /\ Leftover(r) \in SUBSET Strata
      /\ IsFiniteSet(Leftover(r)) /\ Cardinality(Leftover(r)) \in Nat
  <2>1. Leftover(r) \in SUBSET Strata
    BY DEF Leftover
  <2>2. QED
    BY <1>2, <2>1, FS_Subset, FS_CardinalityType
<1>4. PICK one, most : /\ one = [s \in Strata |-> IF s \in Leftover(r) THEN 1 ELSE 0]
                       /\ most = [s \in Strata |-> (a - 1) * one[s]]
  OBVIOUS
<1>5. PICK b \in Nat : b = a - 1
  BY <1>1
<1>6. /\ \A s \in Strata : one[s] = IF s \in Leftover(r) THEN 1 ELSE 0
      /\ \A s \in Strata : most[s] = b * one[s]
  BY <1>4, <1>5
<1>7. SumFunctionOnSet(one, Strata) = Cardinality(Leftover(r))
  BY <1>2, <1>3, <1>6, SumCounts
<1>8. IntsOn(one, Strata)
  BY <1>6 DEF IntsOn
<1>9. SumFunctionOnSet(most, Strata) = b * SumFunctionOnSet(one, Strata)
  BY <1>2, <1>6, <1>8, SumTimes
<1>10. ASSUME NEW s \in Strata PROVE most[s] \in Int /\ r[s] <= most[s]
  <2>1. b * 1 = b /\ b * 0 = 0
    OBVIOUS
  <2>2. r[s] <= b /\ r[s] >= 0 /\ (s \notin Leftover(r) => r[s] = 0)
    BY <1>1, <1>5 DEF Leftover
  <2>3. CASE s \in Leftover(r)
    BY <1>6, <2>1, <2>2, <2>3
  <2>4. CASE s \notin Leftover(r)
    BY <1>6, <2>1, <2>2, <2>4
  <2>5. QED
    BY <2>3, <2>4
<1>11. IntsOn(most, Strata)
  BY <1>10 DEF IntsOn
<1>12. SumFunctionOnSet(r, Strata) <= SumFunctionOnSet(most, Strata)
  BY <1>2, <1>10, <1>11, SumAtMost
<1>13. QED
  BY <1>3, <1>5, <1>7, <1>9, <1>12 DEF Total

(* A stratum has a row more only if its share was cut off, and a larger one   *)
(* has not fewer.                                                             *)
Extras(n, q, r, extra, short) ==
  /\ extra \in SUBSET {s \in Strata : q[s] < n[s]}
  /\ Cardinality(extra) = short
  /\ \A s \in extra, u \in {s \in Strata : q[s] < n[s]} \ extra : r[s] >= r[u]
  /\ \A s \in extra : r[s] # 0

\* How _stratified_anchor_sample chooses the extra rows.
TopRemainders(n, q, r, extra, short) ==
  LET open == {s \in Strata : q[s] < n[s]}
  IN  /\ extra \in SUBSET open
      /\ \/ Cardinality(extra) = short
         \/ short < 0 /\ extra = {}
         \/ short > Cardinality(open) /\ extra = open
      /\ \A s \in extra, u \in open \ extra : r[s] >= r[u]

LEMMA LeftoverOpen ==
  ASSUME NEW n \in [Strata -> Nat], NEW t \in Nat, NEW a, NEW q, NEW r, Quotas(n, t, a, q, r)
  PROVE  Leftover(r) \subseteq {s \in Strata : q[s] < n[s]}
<1> SUFFICES ASSUME NEW s \in Strata, r[s] # 0 PROVE q[s] < n[s]
  BY DEF Leftover
<1>1. /\ n[s] \in Nat /\ q[s] \in Nat /\ q[s] <= n[s] /\ (n[s] # 0 => q[s] < n[s])
      /\ r[s] = n[s] * t - q[s] * a /\ a \in Nat
  BY RemaindersAddUp DEF Quotas
<1>2. CASE n[s] = 0
  <2>1. q[s] = 0
    BY <1>1, <1>2
  <2>2. 0 * t = 0 /\ 0 * a = 0
    BY <1>1
  <2>3. r[s] = 0 * t - 0 * a
    BY <1>1, <1>2, <2>1
  <2>4. QED
    BY <2>2, <2>3
<1>3. QED
  BY <1>1, <1>2

LEMMA ExtrasExist ==
  ASSUME NEW n \in [Strata -> Nat], NEW t \in Nat, NEW a, NEW q, NEW r, Quotas(n, t, a, q, r),
         NEW extra, NEW short, short = t - Total(q), TopRemainders(n, q, r, extra, short)
  PROVE  Extras(n, q, r, extra, short)
<1> DEFINE open == {s \in Strata : q[s] < n[s]}
<1>0. /\ extra \in SUBSET open
      /\ \/ Cardinality(extra) = short
         \/ short < 0 /\ extra = {}
         \/ short > Cardinality(open) /\ extra = open
      /\ \A s \in extra, u \in open \ extra : r[s] >= r[u]
  BY DEF TopRemainders
<1>1. /\ a \in Nat \ {0} /\ Total(q) \in Nat /\ Total(r) \in Nat
      /\ a * (t - Total(q)) = Total(r)
  BY RemaindersAddUp
<1>2. /\ IsFiniteSet(Leftover(r)) /\ Cardinality(Leftover(r)) \in Nat
      /\ Total(r) <= (a - 1) * Cardinality(Leftover(r))
  BY RemaindersBounded
<1>3. PICK p \in Nat : p = Cardinality(Leftover(r))
  BY <1>2
<1>4. short \in Nat /\ short <= p /\ (p # 0 => short < p)
  <2>1. short \in Int
    BY <1>1
  <2>2. PICK sum \in Nat : sum = Total(r)
    BY <1>1
  <2>3. a * short = sum /\ sum <= (a - 1) * p
    BY <1>1, <1>2, <1>3, <2>2
  <2>4. QED
    BY <1>1, <2>1, <2>3, ShortBound
<1>5. Leftover(r) \subseteq open
  BY LeftoverOpen
<1>6. IsFiniteSet(open) /\ Cardinality(open) \in Nat /\ p <= Cardinality(open)
  <2>1. IsFiniteSet(open)
    BY BufferAssumption, FS_Subset
  <2>2. Cardinality(open) \in Nat /\ Cardinality(Leftover(r)) <= Cardinality(open)
    BY <1>5, <2>1, FS_CardinalityType, FS_Subset
  <2>3. QED
    BY <1>3, <2>1, <2>2
<1>7. Cardinality(extra) = short
  BY <1>0, <1>4, <1>6
<1>8. ASSUME NEW s \in extra PROVE r[s] # 0
  <2> SUFFICES ASSUME r[s] = 0 PROVE FALSE
    OBVIOUS
  <2>1. \A u \in open \ extra : r[u] \in Nat /\ 0 >= r[u]
    BY <1>0 DEF Quotas
  <2>2. \A u \in Leftover(r) : r[u] # 0
    BY DEF Leftover
  <2>3. Leftover(r) \subseteq extra \ {s}
    <3>1. \A u \in open \ extra : r[u] = 0
      BY <2>1
    <3>2. QED
      BY <1>5, <2>2, <3>1
  <2>4. IsFiniteSet(extra)
    BY <1>0, <1>6, FS_Subset
  <2>5. IsFiniteSet(extra \ {s}) /\ Cardinality(extra \ {s}) = Cardinality(extra) - 1
    BY <2>4, FS_RemoveElement
  <2>6. p <= Cardinality(extra \ {s})
    BY <1>3, <2>3, <2>5, FS_Subset
  <2>7. p <= short - 1
    BY <1>7, <2>5, <2>6
  <2>8. QED
    BY <1>4, <2>7
<1>9. QED
  BY <1>0, <1>7, <1>8 DEF Extras

Sampled(n, t, got) ==
  LET all == Total(n)
      target == IF t < all THEN t ELSE all
  IN  /\ all \in Nat /\ Total(got) = target /\ got \in [Strata -> Nat]
      /\ \A s \in Strata :
          /\ got[s] <= n[s]
          /\ all = 0 \/ got[s] * all - n[s] * target \in (-all + 1) .. (all - 1)
          /\ \A u \in Strata : n[s] < n[u] => got[s] <= got[u]

\* A stratum's rows: its quota, and one of the extra rows.
WithExtra(q, extra) == [s \in Strata |-> q[s] + (IF s \in extra THEN 1 ELSE 0)]

LEMMA ExtraAddsUp ==
  ASSUME NEW q, \A s \in Strata : q[s] \in Nat, NEW extra \in SUBSET Strata
  PROVE  /\ WithExtra(q, extra) \in [Strata -> Nat]
         /\ Total(WithExtra(q, extra)) = Total(q) + Cardinality(extra)
<1>1. PICK one : one = [s \in Strata |-> IF s \in extra THEN 1 ELSE 0]
  OBVIOUS
<1>2. IsFiniteSet(Strata)
  BY BufferAssumption
<1>3. /\ IntsOn(one, Strata) /\ IntsOn(q, Strata)
      /\ \A s \in Strata : one[s] = IF s \in extra THEN 1 ELSE 0
  BY <1>1 DEF IntsOn
<1>4. \A s \in Strata : WithExtra(q, extra)[s] = q[s] + one[s]
  BY <1>1 DEF WithExtra
<1>5. SumFunctionOnSet(one, Strata) = Cardinality(extra)
  BY <1>2, <1>3, SumCounts
<1>6. SumFunctionOnSet(WithExtra(q, extra), Strata)
        = SumFunctionOnSet(q, Strata) + SumFunctionOnSet(one, Strata)
  BY <1>2, <1>3, <1>4, SumPlus
<1>7. WithExtra(q, extra) \in [Strata -> Nat]
  BY DEF WithExtra
<1>8. QED
  BY <1>5, <1>6, <1>7 DEF Total

LEMMA LargerShares ==
  ASSUME NEW a \in Nat \ {0}, NEW t \in Nat, NEW m \in Nat, NEW k \in Nat, m < k,
         NEW x \in Nat, NEW y \in Nat,
         m * t - x * a \in 0 .. (a - 1), k * t - y * a \in 0 .. (a - 1)
  PROVE  x <= y /\ (x = y => m * t - x * a <= k * t - y * a)
         /\ (x = y /\ m * t - x * a = k * t - y * a => m * t - x * a = 0)
<1>1. PICK d \in Nat \ {0} : k = m + d
  BY k - m \in Nat \ {0} /\ k = m + (k - m)
<1>2. (m + d) * t = m * t + d * t /\ m * t \in Nat /\ d * t \in Nat
  OBVIOUS
<1>3. PICK mt \in Nat, dt \in Nat : mt = m * t /\ dt = d * t
  BY <1>2
<1>4. k * t = mt + dt
  BY <1>1, <1>2, <1>3
<1>5. PICK xa \in Nat, ya \in Nat : xa = x * a /\ ya = y * a
  OBVIOUS
<1>6. xa <= mt /\ mt + dt < ya + a /\ mt - xa \in 0 .. (a - 1)
  BY <1>3, <1>4, <1>5
<1>7. x <= y
  <2>1. (y + 1) * a = ya + a
    BY <1>5
  <2>2. x * a < (y + 1) * a
    BY <1>5, <1>6, <2>1
  <2>3. x < y + 1
    BY <2>2, TimesCancels
  <2>4. QED
    BY <2>3
<1>8. x = y => mt - xa <= mt + dt - ya
  BY <1>5
<1>9. ASSUME x = y, mt - xa = mt + dt - ya PROVE mt - xa = 0
  <2>1. dt = 0
    BY <1>5, <1>9
  <2>2. t = 0
    <3> SUFFICES ASSUME t # 0 PROVE FALSE
      OBVIOUS
    <3>1. 1 * t <= d * t
      BY TimesMonotone
    <3>2. 1 * t = t
      OBVIOUS
    <3>3. QED
      BY <1>3, <2>1, <3>1, <3>2
  <2>3. m * 0 = 0
    OBVIOUS
  <2>4. mt = 0
    BY <1>3, <2>2, <2>3
  <2>5. QED
    BY <1>6, <2>4
<1>10. QED
  BY <1>3, <1>4, <1>5, <1>7, <1>8, <1>9

LEMMA ExtrasAreProportional ==
  ASSUME NEW n \in [Strata -> Nat], NEW t \in Nat, NEW a, NEW q, NEW r, Quotas(n, t, a, q, r),
         NEW extra, Extras(n, q, r, extra, t - Total(q))
  PROVE  Sampled(n, t, WithExtra(q, extra))
<1> DEFINE got == WithExtra(q, extra)
<1>1. /\ a = Total(n) /\ a \in Nat \ {0} /\ t < a
      /\ \A s \in Strata : /\ n[s] \in Nat /\ q[s] \in Nat /\ q[s] <= n[s]
                           /\ r[s] = n[s] * t - q[s] * a /\ r[s] \in 0 .. (a - 1)
  BY RemaindersAddUp DEF Quotas
<1>2. /\ extra \in SUBSET Strata /\ Cardinality(extra) = t - Total(q)
      /\ \A s \in extra : q[s] < n[s] /\ r[s] # 0
      /\ \A s \in extra, u \in Strata : q[u] < n[u] /\ u \notin extra => r[s] >= r[u]
  BY DEF Extras
<1>3. got \in [Strata -> Nat] /\ Total(got) = t
  <2>1. got \in [Strata -> Nat] /\ Total(got) = Total(q) + Cardinality(extra)
    BY <1>1, <1>2, ExtraAddsUp
  <2>2. Total(q) \in Nat
    BY RemaindersAddUp
  <2>3. QED
    BY <1>2, <2>1, <2>2
<1>4. \A s \in Strata : got[s] = q[s] + (IF s \in extra THEN 1 ELSE 0)
  BY DEF WithExtra
<1> HIDE DEF got
<1>5. ASSUME NEW s \in Strata PROVE got[s] <= n[s]
  BY <1>1, <1>2, <1>4
<1>6. ASSUME NEW s \in Strata PROVE got[s] * a - n[s] * t \in (-a + 1) .. (a - 1)
  <2>1. PICK k \in Nat, m \in Nat : k = q[s] /\ m = n[s]
    BY <1>1
  <2>2. PICK ka \in Nat, mt \in Nat : ka = k * a /\ mt = m * t
    BY <1>1
  <2>3. r[s] = mt - ka /\ r[s] \in 0 .. (a - 1)
    BY <1>1, <2>1, <2>2
  <2>4. CASE s \in extra
    <3>1. got[s] = k + 1 /\ (k + 1) * a = ka + a
      BY <1>1, <1>4, <2>1, <2>2, <2>4
    <3>2. r[s] # 0
      BY <1>2, <2>4
    <3>3. ka + a - mt \in (-a + 1) .. (a - 1)
      BY <1>1, <2>3, <3>2
    <3>4. got[s] * a = ka + a /\ n[s] * t = mt
      BY <2>1, <2>2, <3>1
    <3>5. got[s] * a - n[s] * t = ka + a - mt
      <4>1. PICK b, x, y : b \in Nat /\ b = a /\ x = got[s] * a /\ y = n[s] * t
        BY <1>1
      <4>2. x - y = ka + b - mt
        BY <3>4, <4>1
      <4>3. QED
        BY <4>1, <4>2
    <3>6. QED
      BY <3>3, <3>5
  <2>5. CASE s \notin extra
    <3>1. got[s] = k
      BY <1>4, <2>1, <2>5
    <3>2. ka - mt \in (-a + 1) .. (a - 1)
      BY <1>1, <2>3
    <3>3. got[s] * a = ka /\ n[s] * t = mt
      BY <2>1, <2>2, <3>1
    <3>4. got[s] * a - n[s] * t = ka - mt
      BY <3>3
    <3>5. QED
      BY <3>2, <3>4
  <2>6. QED
    BY <2>4, <2>5
<1>7. ASSUME NEW s \in Strata, NEW u \in Strata, n[s] < n[u] PROVE got[s] <= got[u]
  <2>1. PICK m \in Nat, k \in Nat, x \in Nat, y \in Nat :
          m = n[s] /\ k = n[u] /\ x = q[s] /\ y = q[u]
    BY <1>1
  <2>2. /\ r[s] = m * t - x * a /\ r[s] \in 0 .. (a - 1)
        /\ r[u] = k * t - y * a /\ r[u] \in 0 .. (a - 1)
    BY <1>1, <2>1
  <2>3. m < k
    BY <1>7, <2>1
  <2>4. x <= y /\ (x = y => r[s] <= r[u]) /\ (x = y /\ r[s] = r[u] => r[s] = 0)
    <3>1. m * t - x * a \in 0 .. (a - 1) /\ k * t - y * a \in 0 .. (a - 1)
      BY <2>2
    <3>2. /\ x <= y /\ (x = y => m * t - x * a <= k * t - y * a)
          /\ (x = y /\ m * t - x * a = k * t - y * a => m * t - x * a = 0)
      BY <1>1, <2>3, <3>1, LargerShares
    <3>3. QED
      BY <2>2, <3>2
  <2>5. ASSUME x = y, s \in extra PROVE u \in extra
    <3> SUFFICES ASSUME u \notin extra PROVE FALSE
      OBVIOUS
    <3>1. q[s] < n[s]
      BY <1>2, <2>5
    <3>2. q[u] < n[u]
      BY <2>1, <2>3, <2>5, <3>1
    <3>3. r[s] >= r[u]
      BY <1>2, <2>5, <3>2
    <3>4. r[s] = 0
      BY <1>1, <2>4, <2>5, <3>3
    <3>5. QED
      BY <1>2, <2>5, <3>4
  <2>6. got[s] = x + (IF s \in extra THEN 1 ELSE 0) /\ got[u] = y + (IF u \in extra THEN 1 ELSE 0)
    BY <1>4, <2>1
  <2>7. QED
    BY <2>4, <2>5, <2>6
<1>8. Sampled(n, t, got)
  <2>1. (IF t < Total(n) THEN t ELSE Total(n)) = t
    BY <1>1
  <2>2. /\ Total(n) \in Nat /\ Total(got) = t /\ got \in [Strata -> Nat]
        /\ \A s \in Strata :
            /\ got[s] <= n[s]
            /\ got[s] * Total(n) - n[s] * t \in (-Total(n) + 1) .. (Total(n) - 1)
            /\ \A u \in Strata : n[s] < n[u] => got[s] <= got[u]
    BY <1>1, <1>3, <1>5, <1>6, <1>7
  <2>3. QED
    BY <2>1, <2>2 DEF Sampled
<1>9. QED
  BY <1>8 DEF got

LEMMA SamplesProportional ==
  ASSUME NEW n \in [Strata -> Nat], NEW t \in Nat, NEW got \in StratifiedSamples(n, t)
  PROVE  Sampled(n, t, got)
<1>1. Total(n) \in Nat
  BY TotalType
<1>2. CASE t >= Total(n)
  <2>1. got = n
    BY <1>2 DEF StratifiedSamples
  <2>2. (IF t < Total(n) THEN t ELSE Total(n)) = Total(n)
    BY <1>1, <1>2
  <2>3. ASSUME NEW s \in Strata
        PROVE  /\ n[s] <= n[s]
               /\ Total(n) = 0 \/ n[s] * Total(n) - n[s] * Total(n)
                                    \in (-Total(n) + 1) .. (Total(n) - 1)
               /\ \A u \in Strata : n[s] < n[u] => n[s] <= n[u]
    <3>1. PICK a \in Nat, m \in Nat : a = Total(n) /\ m = n[s]
      BY <1>1
    <3>2. m * a \in Nat
      OBVIOUS
    <3>3. m * a - m * a = 0
      BY <3>2
    <3>4. a = 0 \/ 0 \in (-a + 1) .. (a - 1)
      OBVIOUS
    <3>5. a = 0 \/ m * a - m * a \in (-a + 1) .. (a - 1)
      BY <3>3, <3>4
    <3>6. QED
      BY <3>1, <3>5
  <2>4. QED
    BY <1>1, <2>1, <2>2, <2>3 DEF Sampled
<1>3. CASE t < Total(n)
  <2>1. PICK q, r : /\ q = [s \in Strata |-> Quota(n, t, s)]
                    /\ r = [s \in Strata |-> Remainder(n, t, s)]
    OBVIOUS
  <2>2. Quotas(n, t, Total(n), q, r)
    BY <1>3, <2>1, QuotasAre
  <2>3. PICK short, open : short = t - Total(q) /\ open = {s \in Strata : q[s] < n[s]}
    OBVIOUS
  <2>4. PICK extra \in SUBSET open :
          /\ \/ Cardinality(extra) = short
             \/ short < 0 /\ extra = {}
             \/ short > Cardinality(open) /\ extra = open
          /\ \A s \in extra, u \in open \ extra : Remainder(n, t, s) >= Remainder(n, t, u)
          /\ got = [s \in Strata |-> q[s] + (IF s \in extra THEN 1 ELSE 0)]
    <3>1. ~(t >= Total(n))
      BY <1>1, <1>3
    <3>2. QED
      BY <2>1, <2>3, <3>1 DEF StratifiedSamples
  <2>5. \A s \in extra, u \in open \ extra : r[s] >= r[u]
    BY <2>1, <2>3, <2>4
  <2>6. Extras(n, q, r, extra, short)
    <3>1. TopRemainders(n, q, r, extra, short)
      BY <2>3, <2>4, <2>5 DEF TopRemainders
    <3>2. QED
      BY <2>2, <2>3, <3>1, ExtrasExist
  <2>7. Sampled(n, t, WithExtra(q, extra))
    BY <2>2, <2>3, <2>6, ExtrasAreProportional
  <2>8. QED
    BY <2>4, <2>7 DEF WithExtra
<1>4. QED
  BY <1>1, <1>2, <1>3

(* The events of the window, counted by stratum, are all of them. *)
Of(closed) == [s \in Strata |-> Cardinality({e \in closed : StratumOf[e] = s})]

LEMMA StrataPartition ==
  ASSUME NEW closed \in SUBSET Closing
  PROVE  /\ \A s \in Strata : Of(closed)[s] \in Nat
         /\ Total(Of(closed)) = Cardinality(closed)
<1> DEFINE F == {some \in SUBSET Closing : Total(Of(some)) = Cardinality(some)}
<1>1. ASSUME NEW some \in SUBSET Closing
      PROVE  /\ IsFiniteSet(some) /\ Cardinality(some) \in Nat
             /\ \A s \in Strata : /\ IsFiniteSet({e \in some : StratumOf[e] = s})
                                  /\ Of(some)[s] \in Nat
  <2>1. \A a \in SUBSET Closing : IsFiniteSet(a) /\ Cardinality(a) \in Nat
    BY BufferAssumption, FS_Subset, FS_CardinalityType
  <2>2. \A s \in Strata : {e \in some : StratumOf[e] = s} \in SUBSET Closing
    OBVIOUS
  <2>3. \A s \in Strata : Of(some)[s] = Cardinality({e \in some : StratumOf[e] = s})
    BY DEF Of
  <2>4. QED
    BY <2>1, <2>2, <2>3
<1>2. {} \in F
  <2>1. PICK none : none = Of({})
    OBVIOUS
  <2>2. \A s \in Strata : none[s] = IF s \in {} THEN 1 ELSE 0
    <3>1. \A s \in Strata : {e \in {} : StratumOf[e] = s} = {}
      OBVIOUS
    <3>2. \A s \in Strata : none[s] = Cardinality({e \in {} : StratumOf[e] = s})
      BY <2>1 DEF Of
    <3>3. QED
      BY <3>1, <3>2, FS_EmptySet
  <2>3. SumFunctionOnSet(none, Strata) = Cardinality({})
    BY <2>2, BufferAssumption, SumCounts
  <2>4. QED
    BY <2>1, <2>3 DEF Total
<1>3. ASSUME NEW some \in F, NEW x \in Closing \ some PROVE some \cup {x} \in F
  <2>1. some \in SUBSET Closing /\ Total(Of(some)) = Cardinality(some) /\ StratumOf[x] \in Strata
    BY BufferAssumption
  <2>2. Of(some \cup {x}) = WithExtra(Of(some), {StratumOf[x]})
    <3>1. ASSUME NEW s \in Strata
          PROVE  Of(some \cup {x})[s] = Of(some)[s] + (IF s \in {StratumOf[x]} THEN 1 ELSE 0)
      <4>1. PICK a : a = {e \in some : StratumOf[e] = s}
        OBVIOUS
      <4>2. PICK b : b = {e \in some \cup {x} : StratumOf[e] = s}
        OBVIOUS
      <4>3. /\ IsFiniteSet(a) /\ Of(some)[s] = Cardinality(a) /\ Of(some)[s] \in Nat
            /\ Of(some \cup {x})[s] = Cardinality(b) /\ x \notin a
        BY <1>1, <2>1, <4>1, <4>2 DEF Of
      <4>4. CASE StratumOf[x] = s
        <5>1. b = a \cup {x}
          BY <4>1, <4>2, <4>4
        <5>2. Cardinality(b) = Cardinality(a) + 1
          BY <4>3, <5>1, FS_AddElement
        <5>3. QED
          BY <4>3, <4>4, <5>2
      <4>5. CASE StratumOf[x] # s
        <5>1. b = a
          BY <4>1, <4>2, <4>5
        <5>2. QED
          BY <4>3, <4>5, <5>1
      <4>6. QED
        BY <4>4, <4>5
    <3>2. Of(some \cup {x}) = [s \in Strata |-> Of(some \cup {x})[s]]
      BY DEF Of
    <3>3. QED
      BY <3>1, <3>2 DEF WithExtra
  <2>3. Total(Of(some \cup {x})) = Cardinality(some) + 1
    <3>1. \A s \in Strata : Of(some)[s] \in Nat
      BY <1>1, <2>1
    <3>2. Total(WithExtra(Of(some), {StratumOf[x]}))
            = Total(Of(some)) + Cardinality({StratumOf[x]})
      BY <2>1, <3>1, ExtraAddsUp
    <3>3. Cardinality({StratumOf[x]}) = 1
      BY FS_Singleton
    <3>4. QED
      BY <2>1, <2>2, <3>2, <3>3
  <2>4. Cardinality(some \cup {x}) = Cardinality(some) + 1
    BY <1>1, <2>1, FS_AddElement
  <2>5. QED
    BY <2>1, <2>3, <2>4
<1>4. F \in SUBSET (SUBSET Closing)
  OBVIOUS
<1> HIDE DEF F
<1>5. \A some \in SUBSET Closing : some \in F
  BY <1>2, <1>3, <1>4, BufferAssumption, FiniteInduction
<1>6. QED
  BY <1>1, <1>5 DEF F

LEMMA StrataAddUp ==
  ASSUME NEW got \in [Strata -> Nat], NEW closed \in SUBSET Closing,
         NEW both, \A s \in Strata :
            both[s] = got[s] + Cardinality({e \in closed : StratumOf[e] = s})
  PROVE  Total(both) = Total(got) + Cardinality(closed)
<1>1. PICK of : of = Of(closed)
  OBVIOUS
<1>2. (\A s \in Strata : of[s] \in Nat) /\ Total(of) = Cardinality(closed)
  BY <1>1, StrataPartition
<1>3. \A s \in Strata : both[s] = got[s] + of[s]
  BY <1>1 DEF Of
<1>4. IsFiniteSet(Strata) /\ IntsOn(of, Strata) /\ IntsOn(got, Strata)
  BY <1>2, BufferAssumption DEF IntsOn
<1>5. SumFunctionOnSet(both, Strata)
        = SumFunctionOnSet(got, Strata) + SumFunctionOnSet(of, Strata)
  BY <1>3, <1>4, SumPlus
<1>6. QED
  BY <1>2, <1>5 DEF Total

LEMMA QuarterType ==
  ASSUME NEW n \in Nat
  PROVE  Quarter(n) \in Nat
<1>1. n \div 4 \in Nat /\ (n \div 4) % 2 \in Nat
  OBVIOUS
<1>2. (CASE n % 4 = 3 -> 1 [] n % 4 = 2 -> (n \div 4) % 2 [] OTHER -> 0) \in Nat
  <2>1. CASE n % 4 = 3
    BY <2>1
  <2>2. CASE n % 4 = 2
    BY <1>1, <2>2
  <2>3. CASE n % 4 # 3 /\ n % 4 # 2
    BY <2>3
  <2>4. QED
    BY <2>1, <2>2, <2>3
<1>3. QED
  BY <1>1, <1>2 DEF Quarter

LEMMA BuildProportional ==
  ASSUME BuildBuffer
  PROVE  SampleIsProportional'
<1>1. RecentPool \in SUBSET Closing /\ Cardinality(RecentPool) \in Nat
  <2>1. RecentPool \in SUBSET Closing
    BY DEF RecentPool
  <2>2. QED
    BY <2>1, BufferAssumption, FS_Subset, FS_CardinalityType
<1>2. PICK recent \in Nat, closed \in SUBSET Closing :
        closed = RecentPool /\ recent = Cardinality(closed)
  BY <1>1
<1>3. PICK n, floor, t, got :
        /\ n \in CorpusSizes /\ floor \in Floors
        /\ t = IF recent = 0 THEN Max({floor, Total(n)}) ELSE Max({floor, Quarter(recent)})
        /\ got \in StratifiedSamples(n, t)
        /\ buffer' = [status |-> IF recent = 0 THEN "anchor_only" ELSE "ready",
                      corpus |-> n, target |-> t, recent |-> closed, anchor |-> got,
                      anchorCount |-> IF recent = 0 THEN t ELSE Total(got),
                      strata |-> [s \in Strata |->
                        got[s] + Cardinality({e \in closed : StratumOf[e] = s})]]
  BY <1>2 DEF BuildBuffer
<1>4. n \in [Strata -> Nat] /\ floor \in Nat
  BY <1>3, BufferAssumption
<1>5. t \in Nat /\ (recent = 0 => t >= Total(n)) /\ Total(n) \in Nat
  <2>1. Total(n) \in Nat /\ Quarter(recent) \in Nat
    BY <1>4, TotalType, QuarterType
  <2>2. CASE recent = 0
    <3>1. Max({floor, Total(n)}) \in Nat /\ Max({floor, Total(n)}) >= Total(n)
      BY <1>4, <2>1, MaxOfTwo
    <3>2. QED
      BY <1>3, <2>1, <2>2, <3>1
  <2>3. CASE recent # 0
    <3>1. Max({floor, Quarter(recent)}) \in Nat
      BY <1>4, <2>1, MaxOfTwo
    <3>2. QED
      BY <1>3, <2>1, <2>3, <3>1
  <2>4. QED
    BY <2>2, <2>3
<1>6. Sampled(n, t, got)
  BY <1>3, <1>4, <1>5, SamplesProportional
<1>7. PICK all, target :
        /\ all \in Nat
        /\ all = Total(n) /\ target = (IF t < all THEN t ELSE all)
        /\ Total(got) = target /\ got \in [Strata -> Nat]
        /\ \A s \in Strata :
            /\ got[s] <= n[s]
            /\ all = 0 \/ got[s] * all - n[s] * target \in (-all + 1) .. (all - 1)
            /\ \A u \in Strata : n[s] < n[u] => got[s] <= got[u]
  BY <1>5, <1>6 DEF Sampled
<1>8. PICK strata : strata = [s \in Strata |->
                        got[s] + Cardinality({e \in closed : StratumOf[e] = s})]
  OBVIOUS
<1>9. Total(strata) = Total(got) + Cardinality(closed)
  <2>1. \A s \in Strata : strata[s] = got[s] + Cardinality({e \in closed : StratumOf[e] = s})
    BY <1>8
  <2>2. got \in [Strata -> Nat]
    BY <1>7
  <2>3. QED
    BY <2>1, <2>2, StrataAddUp
<1>10. PICK count : count = (IF recent = 0 THEN t ELSE Total(got))
  OBVIOUS
<1>11. t <= all => count = Total(got)
  <2>1. CASE recent = 0
    <3>1. t >= all /\ count = t
      BY <1>5, <1>7, <1>10, <2>1
    <3>2. QED
      BY <1>5, <1>7, <3>1
  <2>2. CASE recent # 0
    BY <1>10, <2>2
  <2>3. QED
    BY <2>1, <2>2
<1>12. /\ buffer'.corpus = n /\ buffer'.anchor = got /\ buffer'.target = t
       /\ buffer'.strata = strata /\ buffer'.recent = closed /\ buffer'.anchorCount = count
  BY <1>3, <1>8, <1>10
<1>13. QED
  BY <1>7, <1>9, <1>11, <1>12 DEF SampleIsProportional, Total

LEMMA BufferStep ==
  ASSUME SampleIsProportional, [BufferNext]_bufferVars
  PROVE  SampleIsProportional'
<1>1. CASE BuildBuffer
  BY <1>1, BuildProportional
<1>2. CASE UNCHANGED buffer
  BY <1>2 DEF SampleIsProportional, NoBuffer, Total
<1>3. QED
  BY <1>1, <1>2 DEF BufferNext, bufferVars, CloseEvent, LeaveWindow

LEMMA BufferAlways == BufferSpec => []SampleIsProportional
<1>1. BufferInit => SampleIsProportional
  BY DEF BufferInit, SampleIsProportional
<1>2. SampleIsProportional /\ [BufferNext]_bufferVars => SampleIsProportional'
  BY BufferStep
<1>3. QED
  BY <1>1, <1>2, PTL DEF BufferSpec

------------------------------------------------------------------------------
(* The alarm of the hotspot monitor (M05).                                    *)

Sample == [corridor : {CorridorOf[c] : c \in Cells}, at : Int]

LEMMA BaselineType ==
  ASSUME NEW corridor
  PROVE  Baseline(corridor) \in Nat
<1>1. PICK S : S = {c \in DOMAIN History : CorridorOf[c] = corridor}
  OBVIOUS
<1>2. IsFiniteSet(S) /\ \A c \in S : History[c] \in Nat
  <2>1. IsFiniteSet(Cells) /\ S \in SUBSET Cells /\ \A c \in S : History[c] \in Nat
    BY <1>1, HotspotAssumption
  <2>2. QED
    BY <2>1, FS_Subset
<1>3. SumFunctionOnSet(History, S) \in Nat
  BY <1>2, SumNat
<1>4. PICK total \in Nat, days \in Nat \ {0} :
        total = SumFunctionOnSet(History, S) /\ days = HistoryDays
  BY <1>3, HotspotAssumption
<1>5. 100 * total \in Nat /\ 24 * days \in Nat \ {0}
  OBVIOUS
<1>6. (100 * total) \div (24 * days) \in Nat
  BY <1>5, Division
<1>7. QED
  BY <1>1, <1>4, <1>6 DEF Baseline

LEMMA SigmaType ==
  ASSUME NEW corridor
  PROVE  Sigma(corridor) \in Nat
<1>1. PICK b \in Nat : b = Baseline(corridor)
  BY BaselineType
<1>2. b \div 2 \in Nat
  OBVIOUS
<1>3. Max({b \div 2, 5}) \in Nat
  BY <1>2, MaxOfTwo
<1>4. QED
  BY <1>1, <1>3 DEF Sigma

LEMMA MoreIsUnusual ==
  ASSUME NEW corridor, NEW m \in Nat, NEW n \in Nat, m <= n, Unusual(corridor, m)
  PROVE  Unusual(corridor, n)
<1>1. PICK b \in Nat, d \in Nat : b = Baseline(corridor) /\ d = Sigma(corridor)
  BY BaselineType, SigmaType
<1>2. corridor \in Baselined /\ 200 * m - b >= 3 * d
  BY <1>1 DEF Unusual
<1>3. 200 * n - b >= 3 * d
  BY <1>2
<1>4. QED
  BY <1>1, <1>2, <1>3 DEF Unusual

\* The samples of its corridor that came within half an hour of a sample.
Burst(ss, n) == {m \in DOMAIN ss : ss[m].corridor = ss[n].corridor
                                   /\ ss[m].at \in ss[n].at .. ss[n].at + Window}

Noticed(ss, raised) ==
  \A n \in DOMAIN ss : Unusual(ss[n].corridor, Cardinality(Burst(ss, n))) =>
      \E a \in raised : a.corridor = ss[n].corridor

LEMMA BurstNoticed ==
  BurstIsNoticed <=> Noticed(samples, alarms)
BY DEF BurstIsNoticed, Noticed, Burst

AlarmInv == samples \in Seq(Sample) /\ Noticed(samples, alarms)

\* The deque after an event: the samples it still has, moved up by d, and the new one.
Moved(ss, old, d, new) ==
  /\ ss \in Seq(Sample) /\ Len(ss) \in Nat \ {0} /\ ss[Len(ss)] = new
  /\ \A m \in 1 .. Len(ss) - 1 : m + d \in DOMAIN old /\ ss[m] = old[m + d]

LEMMA RecordedMoves ==
  ASSUME samples \in Seq(Sample), NEW new \in Sample
  PROVE  \E d \in {0, 1} : Moved(Recorded(new.corridor, new.at), samples, d, new)
<1>1. PICK k \in Nat : k = Len(samples)
  OBVIOUS
<1>2. PICK all : all = Append(samples, [corridor |-> new.corridor, at |-> new.at])
  OBVIOUS
<1>3. new = [corridor |-> new.corridor, at |-> new.at]
  BY DEF Sample
<1>4. /\ all \in Seq(Sample) /\ Len(all) = k + 1 /\ all[k + 1] = new
      /\ \A m \in 1 .. k : m \in DOMAIN samples /\ all[m] = samples[m]
  BY <1>1, <1>2, <1>3
<1>5. PICK ss : ss = Recorded(new.corridor, new.at)
  OBVIOUS
<1>6. ss = IF Len(all) > SampleCap THEN Tail(all) ELSE all
  BY <1>2, <1>5 DEF Recorded
<1>7. CASE ~(Len(all) > SampleCap)
  <2>1. Moved(all, samples, 0, new)
    BY <1>4 DEF Moved
  <2>2. QED
    BY <1>5, <1>6, <1>7, <2>1
<1>8. CASE Len(all) > SampleCap
  <2>1. SampleCap \in Nat \ {0}
    BY HotspotAssumption
  <2>2. k \in Nat \ {0}
    BY <1>4, <1>8, <2>1
  <2>3. PICK tail : tail = Tail(all)
    OBVIOUS
  <2>4. /\ tail \in Seq(Sample) /\ Len(tail) = k
        /\ \A m \in 1 .. k : tail[m] = all[m + 1]
    BY <1>4, <2>2, <2>3
  <2>5. tail[k] = new
    BY <1>4, <2>2, <2>4
  <2>6. ASSUME NEW m \in 1 .. k - 1 PROVE m + 1 \in DOMAIN samples /\ tail[m] = samples[m + 1]
    <3>1. m \in 1 .. k /\ m + 1 \in 1 .. k
      OBVIOUS
    <3>2. QED
      BY <1>4, <2>4, <3>1
  <2>7. Moved(tail, samples, 1, new)
    BY <2>2, <2>4, <2>5, <2>6 DEF Moved
  <2>8. QED
    BY <1>5, <1>6, <1>8, <2>3, <2>7
<1>9. QED
  BY <1>7, <1>8

LEMMA BurstFinite ==
  ASSUME NEW ss \in Seq(Sample), NEW n
  PROVE  IsFiniteSet(Burst(ss, n)) /\ Cardinality(Burst(ss, n)) \in Nat
<1>1. DOMAIN ss = 1 .. Len(ss) /\ Len(ss) \in Nat
  OBVIOUS
<1>2. IsFiniteSet(1 .. Len(ss))
  BY <1>1, FS_Interval
<1>3. Burst(ss, n) \in SUBSET (1 .. Len(ss))
  BY <1>1 DEF Burst
<1>4. QED
  BY <1>2, <1>3, FS_Subset, FS_CardinalityType

(* A burst without the new sample was one before. *)
LEMMA OldBurst ==
  ASSUME NEW old \in Seq(Sample), NEW ss, NEW new, NEW d \in {0, 1}, Moved(ss, old, d, new),
         NEW n \in DOMAIN ss, Len(ss) \notin Burst(ss, n), n # Len(ss)
  PROVE  /\ n + d \in DOMAIN old /\ old[n + d] = ss[n]
         /\ Cardinality(Burst(ss, n)) <= Cardinality(Burst(old, n + d))
<1>1. PICK k \in Nat \ {0} : k = Len(ss)
  BY DEF Moved
<1>2. DOMAIN ss = 1 .. k /\ \A m \in 1 .. k - 1 : m + d \in DOMAIN old /\ ss[m] = old[m + d]
  BY <1>1 DEF Moved
<1>3. n \in 1 .. k - 1
  BY <1>1, <1>2
<1>4. Burst(ss, n) \subseteq 1 .. k - 1
  <2>1. \A m \in Burst(ss, n) : m \in 1 .. k /\ m # k
    BY <1>1, <1>2 DEF Burst
  <2>2. QED
    BY <2>1
<1>5. \A m \in Burst(ss, n) : m + d \in Burst(old, n + d)
  BY <1>2, <1>3, <1>4 DEF Burst
<1>6. PICK f : f = [m \in Burst(ss, n) |-> m + d]
  OBVIOUS
<1>7. f \in Injection(Burst(ss, n), Burst(old, n + d))
  <2>1. f \in [Burst(ss, n) -> Burst(old, n + d)]
    BY <1>5, <1>6
  <2>2. \A x, y \in Burst(ss, n) : f[x] = f[y] => x = y
    BY <1>4, <1>6
  <2>3. QED
    BY <2>1, <2>2 DEF Injection, IsInjective
<1>8. IsFiniteSet(Burst(old, n + d))
  BY BurstFinite
<1>9. QED
  BY <1>2, <1>3, <1>7, <1>8, FS_Injection

(* A burst the new sample belongs to is in the window when it is evaluated. *)
LEMMA NewBurst ==
  ASSUME NEW ss \in Seq(Sample), NEW k \in DOMAIN ss, NEW n \in DOMAIN ss, k \in Burst(ss, n)
  PROVE  /\ ss[n].corridor = ss[k].corridor
         /\ Cardinality(Burst(ss, n)) <= RecentCount(ss, ss[k].corridor, ss[k].at)
         /\ RecentCount(ss, ss[k].corridor, ss[k].at) \in Nat
<1>1. ss[n].corridor = ss[k].corridor /\ ss[k].at \in ss[n].at .. ss[n].at + Window
  BY DEF Burst
<1>2. PICK S : S = {m \in DOMAIN ss : InWindow(ss[m], ss[k].corridor, ss[k].at)}
  OBVIOUS
<1>3. IsFiniteSet(S) /\ Cardinality(S) \in Nat
  <2>1. DOMAIN ss = 1 .. Len(ss) /\ Len(ss) \in Nat
    OBVIOUS
  <2>2. IsFiniteSet(1 .. Len(ss)) /\ S \in SUBSET (1 .. Len(ss))
    BY <1>2, <2>1, FS_Interval
  <2>3. QED
    BY <2>2, FS_Subset, FS_CardinalityType
<1>4. Burst(ss, n) \subseteq S
  <2>1. ASSUME NEW m \in Burst(ss, n) PROVE m \in S
    <3>1. /\ m \in DOMAIN ss /\ ss[m].corridor = ss[n].corridor
          /\ ss[m].at \in ss[n].at .. ss[n].at + Window
      BY DEF Burst
    <3>2. ss[m].at \in Int /\ ss[n].at \in Int /\ ss[k].at \in Int /\ Window \in Nat
      <4>1. ss[m] \in Sample /\ ss[n] \in Sample /\ ss[k] \in Sample
        BY <3>1
      <4>2. \A x \in Sample : x.at \in Int
        BY DEF Sample
      <4>3. QED
        BY <4>1, <4>2, HotspotAssumption
    <3>3. PICK x \in Int, y \in Int, z \in Int :
            x = ss[m].at /\ y = ss[n].at /\ z = ss[k].at
      BY <3>2
    <3>4. x >= y /\ z <= y + Window
      BY <1>1, <3>1, <3>2, <3>3
    <3>5. x >= z - Window
      BY <3>2, <3>4
    <3>6. QED
      BY <1>1, <1>2, <3>1, <3>3, <3>5 DEF InWindow
  <2>2. QED
    BY <2>1
<1>5. Cardinality(Burst(ss, n)) <= Cardinality(S)
  BY <1>3, <1>4, FS_Subset
<1>6. QED
  BY <1>1, <1>2, <1>3, <1>5 DEF RecentCount

LEMMA IngestNoticed ==
  ASSUME AlarmInv, NEW cell \in Cells, NEW at \in EventTimes, Ingest(cell, at)
  PROVE  AlarmInv'
<1>1. PICK new \in Sample : new = [corridor |-> CorridorOf[cell], at |-> at]
  <2>1. at \in Int
    <3>1. EventTimes \subseteq Int
      BY HotspotAssumption
    <3>2. QED
      BY <3>1
  <2>2. [corridor |-> CorridorOf[cell], at |-> at] \in Sample
    BY <2>1 DEF Sample
  <2>3. QED
    BY <2>2
<1>2. new.corridor = CorridorOf[cell] /\ new.at = at
  BY <1>1
<1>3. PICK ss : ss = Recorded(new.corridor, new.at)
  OBVIOUS
<1>4. /\ samples' = ss
      /\ alarms' = IF Unusual(new.corridor, RecentCount(ss, new.corridor, new.at))
                   THEN alarms \cup {[corridor |-> new.corridor, at |-> at]} ELSE alarms
  BY <1>2, <1>3 DEF Ingest
<1>5. samples \in Seq(Sample) /\ Noticed(samples, alarms)
  BY DEF AlarmInv
<1>6. PICK d \in {0, 1} : Moved(ss, samples, d, new)
  BY <1>3, <1>5, RecordedMoves
<1>7. PICK k \in Nat \ {0} : k = Len(ss)
  BY <1>6 DEF Moved
<1>8. ss \in Seq(Sample) /\ ss[k] = new /\ k \in DOMAIN ss
  BY <1>6, <1>7 DEF Moved
<1>9. ASSUME NEW n \in DOMAIN ss, Unusual(ss[n].corridor, Cardinality(Burst(ss, n)))
      PROVE  \E a \in alarms' : a.corridor = ss[n].corridor
  <2>1. Cardinality(Burst(ss, n)) \in Nat
    BY <1>8, BurstFinite
  <2>2. k \in Burst(ss, k)
    <3>1. ss[k].at \in Int /\ Window \in Nat
      BY <1>8, HotspotAssumption DEF Sample
    <3>2. ss[k].at \in ss[k].at .. ss[k].at + Window
      BY <3>1
    <3>3. QED
      BY <1>8, <3>2 DEF Burst
  <2>3. CASE k \in Burst(ss, n)
    <3>1. /\ ss[n].corridor = new.corridor
          /\ Cardinality(Burst(ss, n)) <= RecentCount(ss, new.corridor, new.at)
          /\ RecentCount(ss, new.corridor, new.at) \in Nat
      BY <1>8, <2>3, NewBurst
    <3>2. Unusual(new.corridor, RecentCount(ss, new.corridor, new.at))
      BY <1>9, <2>1, <3>1, MoreIsUnusual
    <3>3. [corridor |-> new.corridor, at |-> at] \in alarms'
      BY <1>4, <3>2
    <3>4. QED
      BY <3>1, <3>3
  <2>4. CASE k \notin Burst(ss, n)
    <3>1. n # k
      BY <2>2, <2>4
    <3>2. /\ n + d \in DOMAIN samples /\ samples[n + d] = ss[n]
          /\ Cardinality(Burst(ss, n)) <= Cardinality(Burst(samples, n + d))
      BY <1>5, <1>6, <1>7, <2>4, <3>1, OldBurst
    <3>3. Cardinality(Burst(samples, n + d)) \in Nat
      BY <1>5, BurstFinite
    <3>4. Unusual(ss[n].corridor, Cardinality(Burst(samples, n + d)))
      BY <1>9, <2>1, <3>2, <3>3, MoreIsUnusual
    <3>5. \E a \in alarms : a.corridor = ss[n].corridor
      BY <1>5, <3>2, <3>4 DEF Noticed
    <3>6. alarms \subseteq alarms'
      BY <1>4
    <3>7. QED
      BY <3>5, <3>6
  <2>5. QED
    BY <2>3, <2>4
<1>10. Noticed(ss, alarms')
  BY <1>9 DEF Noticed
<1>11. QED
  BY <1>4, <1>8, <1>10 DEF AlarmInv

LEMMA AlarmStep ==
  ASSUME AlarmInv, [HotspotNext]_hotspotVars
  PROVE  AlarmInv'
<1>1. ASSUME NEW cell \in Cells, NEW at \in EventTimes, Ingest(cell, at) PROVE AlarmInv'
  BY <1>1, IngestNoticed
<1>2. CASE UNCHANGED <<samples, alarms>>
  BY <1>2 DEF AlarmInv
<1>3. CASE HotspotCrash
  <2>1. samples' = <<>>
    BY <1>3 DEF HotspotCrash
  <2>2. <<>> \in Seq(Sample) /\ Noticed(<<>>, alarms')
    BY DEF Noticed
  <2>3. QED
    BY <2>1, <2>2 DEF AlarmInv
<1>4. QED
  BY <1>1, <1>2, <1>3 DEF HotspotNext, hotspotVars, CloseRow, HotspotTick, Get

LEMMA AlarmAlways == HotspotSpec => []BurstIsNoticed
<1>1. HotspotInit => AlarmInv
  <2>1. <<>> \in Seq(Sample) /\ Noticed(<<>>, alarms)
    BY DEF Noticed
  <2>2. QED
    BY <2>1 DEF HotspotInit, AlarmInv
<1>2. AlarmInv /\ [HotspotNext]_hotspotVars => AlarmInv'
  BY AlarmStep
<1>3. AlarmInv => BurstIsNoticed
  BY BurstNoticed DEF AlarmInv
<1>4. QED
  BY <1>1, <1>2, <1>3, PTL DEF HotspotSpec

------------------------------------------------------------------------------
(* The ripple (M04).                                                          *)

LEMMA TimesGrows ==
  ASSUME NEW a \in Nat, NEW b \in Nat, a <= b, NEW c \in Nat
  PROVE  Times(a, c) \in Nat /\ Times(b, c) \in Nat /\ Times(a, c) <= Times(b, c)
<1>1. a * c <= b * c /\ a * c \in Nat /\ b * c \in Nat
  BY TimesMonotone
<1>2. \A x, y \in Nat : x <= y => x \div 1000 \in Nat /\ x \div 1000 <= y \div 1000
  OBVIOUS
<1>3. /\ (a * c) \div 1000 \in Nat /\ (b * c) \div 1000 \in Nat
      /\ (a * c) \div 1000 <= (b * c) \div 1000
  BY <1>1, <1>2
<1>4. QED
  BY <1>3 DEF Times

LEMMA Factors ==
  ASSUME NEW u \in Corridors, NEW v \in Corridors, NEW hop \in DOMAIN Decay
  PROVE  Weight(u, v) \in Nat /\ Amplification(v) \in Nat /\ Decay[hop] \in Nat
<1>1. ASSUME NEW c PROVE Centr(c) \in Nat
  <2>1. c \in DOMAIN CentralityOf => CentralityOf[c] \in Nat
    <3>1. \A x \in DOMAIN CentralityOf : CentralityOf[x] \in 0 .. 100
      BY CorridorAssumption
    <3>2. QED
      BY <3>1
  <2>2. QED
    BY <2>1 DEF Centr
<1>2. PICK a \in Nat, b \in Nat : a = Centr(u) /\ b = Centr(v)
  BY <1>1
<1>3. ((a + b) * 5) \div 2 \in Nat /\ (15 * b) \div 10 \in Nat
  OBVIOUS
<1>4. Decay[hop] \in Nat
  <2>1. PICK S : S = 0 .. 1000
    OBVIOUS
  <2>2. Decay \in Seq(S)
    BY <2>1, RippleAssumption
  <2>3. Decay[hop] \in S
    BY <2>2, ElementType
  <2>4. QED
    BY <2>1, <2>3
<1>5. QED
  BY <1>2, <1>3, <1>4 DEF Weight, Amplification

LEMMA DeltaGrows ==
  ASSUME NEW a \in Nat, NEW b \in Nat, a <= b,
         NEW u \in Corridors, NEW v \in Corridors, NEW hop \in DOMAIN Decay
  PROVE  /\ Delta(a, u, v, hop) \in Nat /\ Delta(b, u, v, hop) \in Nat
         /\ Delta(a, u, v, hop) <= Delta(b, u, v, hop)
<1>1. PICK w \in Nat, d \in Nat, k \in Nat :
        w = Weight(u, v) /\ d = Decay[hop] /\ k = Amplification(v)
  BY Factors
<1>2. PICK a1 \in Nat, b1 \in Nat : a1 = Times(a, w) /\ b1 = Times(b, w) /\ a1 <= b1
  BY TimesGrows
<1>3. PICK a2 \in Nat, b2 \in Nat : a2 = Times(a1, d) /\ b2 = Times(b1, d) /\ a2 <= b2
  <2>1. a1 <= b1
    BY <1>2
  <2>2. Times(a1, d) \in Nat /\ Times(b1, d) \in Nat /\ Times(a1, d) <= Times(b1, d)
    BY <2>1, TimesGrows
  <2>3. QED
    BY <2>2
<1>4. Times(a2, k) \in Nat /\ Times(b2, k) \in Nat /\ Times(a2, k) <= Times(b2, k)
  <2>1. a2 <= b2
    BY <1>3
  <2>2. QED
    BY <2>1, TimesGrows
<1>5. QED
  BY <1>1, <1>2, <1>3, <1>4 DEF Delta

(* Of a finite set with numbers, some element has the largest one. *)
LEMMA Largest ==
  ASSUME NEW S, IsFiniteSet(S), S # {}, NEW f, \A x \in S : f[x] \in Nat
  PROVE  \E x \in S : \A y \in S : f[y] <= f[x]
<1> DEFINE F == {s \in SUBSET S : s = {} \/ \E x \in s : \A y \in s : f[y] <= f[x]}
<1>1. {} \in F
  OBVIOUS
<1>2. ASSUME NEW s \in F, NEW z \in S \ s PROVE s \cup {z} \in F
  <2>1. CASE s = {}
    <3>1. \A y \in {z} : f[y] <= f[z]
      OBVIOUS
    <3>2. QED
      BY <2>1, <3>1
  <2>2. CASE \E x \in s : \A y \in s : f[y] <= f[x]
    <3>1. PICK x \in s : \A y \in s : f[y] <= f[x]
      BY <2>2
    <3>2. x \in S /\ \A y \in S : f[y] \in Nat
      OBVIOUS
    <3>3. CASE f[z] <= f[x]
      <4>1. \A y \in s \cup {z} : f[y] <= f[x]
        BY <3>1, <3>3
      <4>2. QED
        BY <4>1
    <3>4. CASE f[x] <= f[z]
      <4>1. \A y \in s : f[y] <= f[z]
        BY <3>1, <3>2, <3>4
      <4>2. \A y \in s \cup {z} : f[y] <= f[z]
        BY <3>2, <4>1
      <4>3. QED
        BY <4>2
    <3>5. QED
      BY <3>2, <3>3, <3>4
  <2>3. QED
    BY <2>1, <2>2
<1>3. F \in SUBSET (SUBSET S)
  OBVIOUS
<1> HIDE DEF F
<1>4. \A s \in SUBSET S : s \in F
  BY <1>1, <1>2, <1>3, FiniteInduction
<1>5. S \in F
  BY <1>4
<1>6. QED
  BY <1>5 DEF F

(* A sum grows with its numbers and with its indices. *)
LEMMA SumGrows ==
  ASSUME NEW B, IsFiniteSet(B), NEW A \in SUBSET B,
         NEW f, \A x \in A : f[x] \in Nat, NEW g, \A x \in B : g[x] \in Nat,
         \A x \in A : f[x] <= g[x]
  PROVE  SumFunctionOnSet(f, A) <= SumFunctionOnSet(g, B)
<1>1. PICK h : h = [x \in B |-> IF x \in A THEN f[x] ELSE 0]
  OBVIOUS
<1>2. /\ IntsOn(h, B) /\ IntsOn(g, B) /\ IntsOn(h, A) /\ \A x \in B : h[x] <= g[x]
  BY <1>1 DEF IntsOn
<1>3. SumFunctionOnSet(h, B) <= SumFunctionOnSet(g, B)
  BY <1>2, SumAtMost
<1>4. IsFiniteSet(A) /\ IntsOn(f, A) /\ \A x \in A : f[x] = h[x]
  BY <1>1, FS_Subset DEF IntsOn
<1>5. SumFunctionOnSet(f, A) = SumFunctionOnSet(h, A)
  BY <1>4, SumSame
<1>6. SumsUp(h, B)
  BY <1>2, Sums
<1>7. PICK C : C = B \ A
  OBVIOUS
<1> DEFINE F == {s \in SUBSET C : SumFunctionOnSet(h, A \cup s) = SumFunctionOnSet(h, A)}
<1>8. {} \in F
  <2>1. A \cup {} = A
    OBVIOUS
  <2>2. QED
    BY <2>1
<1>9. ASSUME NEW s \in F, NEW x \in C \ s PROVE s \cup {x} \in F
  <2>1. A \cup s \in SUBSET B /\ x \in B \ (A \cup s) /\ (A \cup s) \cup {x} = A \cup (s \cup {x})
    BY <1>7
  <2>2. SumFunctionOnSet(h, (A \cup s) \cup {x}) = h[x] + SumFunctionOnSet(h, A \cup s)
        /\ SumFunctionOnSet(h, A \cup s) \in Int
    BY <1>6, <2>1 DEF SumsUp
  <2>3. h[x] = 0 /\ SumFunctionOnSet(h, A \cup s) = SumFunctionOnSet(h, A)
    BY <1>1, <1>7
  <2>4. PICK m \in Int : m = SumFunctionOnSet(h, A \cup s)
    BY <2>2
  <2>5. SumFunctionOnSet(h, A \cup (s \cup {x})) = 0 + m
    BY <2>1, <2>2, <2>3, <2>4
  <2>6. SumFunctionOnSet(h, A \cup (s \cup {x})) = SumFunctionOnSet(h, A)
    BY <2>3, <2>4, <2>5
  <2>7. QED
    BY <1>7, <2>6
<1>10. F \in SUBSET (SUBSET C) /\ IsFiniteSet(C)
  BY <1>7, FS_Subset
<1> HIDE DEF F
<1>11. \A s \in SUBSET C : s \in F
  BY <1>8, <1>9, <1>10, FiniteInduction
<1>12. SumFunctionOnSet(h, A \cup C) = SumFunctionOnSet(h, A)
  BY <1>11 DEF F
<1>13. A \cup C = B
  BY <1>7
<1>14. QED
  BY <1>3, <1>5, <1>12, <1>13

(* The wave of a ripple: the map after each hop. *)
Start(seed, rci) ==
  [risk |-> [v \in Corridors |-> IF v = seed THEN rci ELSE 0], current |-> {seed},
   parent |-> [v \in Corridors |-> ""], delta |-> [v \in Corridors |-> 0],
   nodes |-> {[node |-> seed, hop |-> 0, risk |-> rci, parent |-> ""]}]

Wave(w, start, epsilon) ==
  w = [h \in Nat |-> IF h = 0 THEN start ELSE Hop(w[h - 1], h, epsilon)]

WaveUpTo(w, n, start, epsilon) ==
  w = [h \in 0 .. n |-> IF h = 0 THEN start ELSE Hop(w[h - 1], h, epsilon)]

LEMMA WaveBegins ==
  ASSUME NEW start, NEW epsilon, NEW n \in Nat
  PROVE  \E w : WaveUpTo(w, n, start, epsilon)
<1> DEFINE T == {k \in Nat : \E w : WaveUpTo(w, k, start, epsilon)}
<1>1. 0 \in T
  <2>1. PICK w : w = [h \in 0 .. 0 |-> start]
    OBVIOUS
  <2>2. w = [h \in 0 .. 0 |-> IF h = 0 THEN start ELSE Hop(w[h - 1], h, epsilon)]
    BY <2>1
  <2>3. QED
    BY <2>2 DEF WaveUpTo
<1>2. ASSUME NEW k \in T PROVE k + 1 \in T
  <2>1. PICK w : WaveUpTo(w, k, start, epsilon)
    OBVIOUS
  <2>2. k \in Nat /\ \A h \in 0 .. k : w[h] = IF h = 0 THEN start ELSE Hop(w[h - 1], h, epsilon)
    BY <2>1 DEF WaveUpTo
  <2>3. PICK next : next = Hop(w[k], k + 1, epsilon)
    OBVIOUS
  <2>4. PICK x : x = [h \in 0 .. k + 1 |-> IF h = k + 1 THEN next ELSE w[h]]
    OBVIOUS
  <2>5. ASSUME NEW h \in 0 .. k + 1
        PROVE  x[h] = IF h = 0 THEN start ELSE Hop(x[h - 1], h, epsilon)
    <3>1. CASE h = k + 1
      <4>1. h # 0 /\ h - 1 = k /\ k \in 0 .. k + 1 /\ k # k + 1
        BY <2>2, <3>1
      <4>2. x[h] = next /\ x[k] = w[k]
        BY <2>4, <3>1, <4>1
      <4>3. QED
        BY <2>3, <3>1, <4>1, <4>2
    <3>2. CASE h # k + 1
      <4>1. h \in 0 .. k /\ (h # 0 => h - 1 \in 0 .. k + 1 /\ h - 1 # k + 1)
        BY <2>2, <3>2
      <4>2. x[h] = w[h] /\ (h # 0 => x[h - 1] = w[h - 1])
        BY <2>4, <3>2, <4>1
      <4>3. QED
        BY <2>2, <4>1, <4>2
    <3>3. QED
      BY <3>1, <3>2
  <2>6. x = [h \in 0 .. k + 1 |-> IF h = 0 THEN start ELSE Hop(x[h - 1], h, epsilon)]
    BY <2>4, <2>5
  <2>7. QED
    BY <2>2, <2>6 DEF WaveUpTo
<1>3. T \in SUBSET Nat
  OBVIOUS
<1> HIDE DEF T
<1>4. T = Nat
  BY <1>1, <1>2, <1>3, Induction
<1>5. QED
  BY <1>4 DEF T

LEMMA WavesAgree ==
  ASSUME NEW start, NEW epsilon, NEW n \in Nat, NEW m \in Nat,
         NEW w, WaveUpTo(w, n, start, epsilon), NEW x, WaveUpTo(x, m, start, epsilon),
         NEW k \in Nat, k <= n, k <= m
  PROVE  w[k] = x[k]
<1> DEFINE T == {h \in Nat : h <= n /\ h <= m => w[h] = x[h]}
<1>1. /\ \A h \in 0 .. n : w[h] = IF h = 0 THEN start ELSE Hop(w[h - 1], h, epsilon)
      /\ \A h \in 0 .. m : x[h] = IF h = 0 THEN start ELSE Hop(x[h - 1], h, epsilon)
  BY DEF WaveUpTo
<1>2. 0 \in T
  BY <1>1
<1>3. ASSUME NEW h \in T PROVE h + 1 \in T
  <2> SUFFICES ASSUME h + 1 <= n, h + 1 <= m PROVE w[h + 1] = x[h + 1]
    OBVIOUS
  <2>1. h <= n /\ h <= m /\ (h + 1) - 1 = h /\ h + 1 # 0 /\ h + 1 \in 0 .. n /\ h + 1 \in 0 .. m
    OBVIOUS
  <2>2. w[h] = x[h]
    BY <2>1
  <2>3. w[h + 1] = Hop(w[h], h + 1, epsilon) /\ x[h + 1] = Hop(x[h], h + 1, epsilon)
    BY <1>1, <2>1
  <2>4. QED
    BY <2>2, <2>3
<1>4. T \in SUBSET Nat
  OBVIOUS
<1> HIDE DEF T
<1>5. T = Nat
  BY <1>2, <1>3, <1>4, Induction
<1>6. QED
  BY <1>5 DEF T

LEMMA WaveExists ==
  ASSUME NEW start, NEW epsilon
  PROVE  \E w : Wave(w, start, epsilon)
<1> DEFINE part(n) == CHOOSE w : WaveUpTo(w, n, start, epsilon)
<1>1. ASSUME NEW n \in Nat PROVE WaveUpTo(part(n), n, start, epsilon)
  BY WaveBegins
<1> HIDE DEF part
<1>2. PICK w : w = [h \in Nat |-> part(h)[h]]
  OBVIOUS
<1>3. ASSUME NEW h \in Nat
      PROVE  w[h] = IF h = 0 THEN start ELSE Hop(w[h - 1], h, epsilon)
  <2>1. part(h)[h] = IF h = 0 THEN start ELSE Hop(part(h)[h - 1], h, epsilon)
    BY <1>1 DEF WaveUpTo
  <2>2. CASE h # 0
    <3>1. h - 1 \in Nat /\ h - 1 <= h /\ h - 1 <= h - 1
      BY <2>2
    <3>2. WaveUpTo(part(h), h, start, epsilon) /\ WaveUpTo(part(h - 1), h - 1, start, epsilon)
      BY <1>1, <3>1
    <3>3. part(h)[h - 1] = part(h - 1)[h - 1]
      BY <3>1, <3>2, WavesAgree
    <3>4. QED
      BY <1>2, <2>1, <2>2, <3>1, <3>3
  <2>3. QED
    BY <1>2, <2>1, <2>2
<1>4. w = [h \in Nat |-> IF h = 0 THEN start ELSE Hop(w[h - 1], h, epsilon)]
  BY <1>2, <1>3
<1>5. QED
  BY <1>4 DEF Wave

Runs(w, seed, rci, epsilon) ==
  /\ w[0] = Start(seed, rci)
  /\ \A h \in Nat : w[h + 1] = Hop(w[h], h + 1, epsilon)
  /\ \A hops \in Nat : RunGcdh(seed, rci, hops, epsilon) = w[hops].nodes

LEMMA RunIsWave ==
  ASSUME NEW seed, NEW rci, NEW epsilon
  PROVE  \E w : Runs(w, seed, rci, epsilon)
<1>1. PICK w : w = CHOOSE x : Wave(x, Start(seed, rci), epsilon)
  OBVIOUS
<1>2. Wave(w, Start(seed, rci), epsilon)
  BY <1>1, WaveExists
<1>3. ASSUME NEW hops \in Nat PROVE RunGcdh(seed, rci, hops, epsilon) = w[hops].nodes
  BY <1>1 DEF RunGcdh, Wave, Start
<1>4. \A h \in Nat : w[h] = IF h = 0 THEN Start(seed, rci) ELSE Hop(w[h - 1], h, epsilon)
  BY <1>2 DEF Wave
<1>5. ASSUME NEW h \in Nat PROVE w[h + 1] = Hop(w[h], h + 1, epsilon)
  <2>1. h + 1 \in Nat /\ h + 1 # 0 /\ (h + 1) - 1 = h
    OBVIOUS
  <2>2. QED
    BY <1>4, <2>1
<1>6. QED
  BY <1>3, <1>4, <1>5 DEF Runs

(* A hop, by what it makes of each corridor. *)
Gain(m, u, v, h) == Delta(m.risk[u], u, v, h)

Into(m, v, h, e) == {u \in m.current : Carries(m, u, v, h, e)}

Best(m, v, h, e) ==
  CHOOSE u \in Into(m, v, h, e) : \A w \in Into(m, v, h, e) : Gain(m, w, v, h) <= Gain(m, u, v, h)

Better(m, v, h, e) ==
  Into(m, v, h, e) # {} /\ Gain(m, Best(m, v, h, e), v, h) > m.delta[v]

SumInto(m, v, h, e) ==
  SumFunctionOnSet([u \in Into(m, v, h, e) |-> Gain(m, u, v, h)], Into(m, v, h, e))

NodeOf(n, v, h) == [node |-> v, hop |-> h, risk |-> n.risk[v], parent |-> n.parent[v]]

Hopped(m, h, e, n) ==
  /\ n.current = {v \in Corridors : Into(m, v, h, e) # {}}
  /\ n.risk = [v \in Corridors |-> IF Into(m, v, h, e) # {}
                                   THEN m.risk[v] + SumInto(m, v, h, e) ELSE m.risk[v]]
  /\ n.parent = [v \in Corridors |-> IF Better(m, v, h, e) THEN Best(m, v, h, e)
                                     ELSE m.parent[v]]
  /\ n.delta = [v \in Corridors |-> IF Better(m, v, h, e) THEN Gain(m, Best(m, v, h, e), v, h)
                                    ELSE m.delta[v]]
  /\ n.nodes = m.nodes \cup {NodeOf(n, v, h) : v \in n.current}

LEMMA HopHops ==
  ASSUME NEW m, NEW h, NEW e
  PROVE  Hopped(m, h, e, Hop(m, h, e))
<1>1. PICK n : n = Hop(m, h, e)
  OBVIOUS
<1>2. n.current = {v \in Corridors : Into(m, v, h, e) # {}}
  BY <1>1 DEF Hop, Into
<1>3. n.risk = [v \in Corridors |-> IF Into(m, v, h, e) # {}
                                    THEN m.risk[v] + SumInto(m, v, h, e) ELSE m.risk[v]]
  BY <1>1 DEF Hop, Into, SumInto, Gain, Raised
<1>4. n.parent = [v \in Corridors |-> IF Better(m, v, h, e) THEN Best(m, v, h, e)
                                      ELSE m.parent[v]]
  BY <1>1 DEF Hop, Into, Best, Better, Gain
<1>5. n.delta = [v \in Corridors |-> IF Better(m, v, h, e)
                                     THEN Gain(m, Best(m, v, h, e), v, h) ELSE m.delta[v]]
  BY <1>1 DEF Hop, Into, Best, Better, Gain
<1>6. n.nodes = m.nodes \cup {NodeOf(n, v, h) : v \in n.current}
  BY <1>1 DEF Hop, NodeOf
<1>7. QED
  BY <1>1, <1>2, <1>3, <1>4, <1>5, <1>6 DEF Hopped

MapTypes(m) ==
  /\ m.risk \in [Corridors -> Nat] /\ m.delta \in [Corridors -> Nat]
  /\ m.current \in SUBSET Corridors

LEMMA GainType ==
  ASSUME NEW m, MapTypes(m), NEW u \in Corridors, NEW v \in Corridors, NEW h \in DOMAIN Decay
  PROVE  Gain(m, u, v, h) \in Nat
<1>1. PICK r \in Nat : r = m.risk[u]
  BY DEF MapTypes
<1>2. Delta(r, u, v, h) \in Nat
  <2>1. r <= r
    OBVIOUS
  <2>2. QED
    BY <2>1, DeltaGrows
<1>3. QED
  BY <1>1, <1>2 DEF Gain

LEMMA IntoFacts ==
  ASSUME NEW m, MapTypes(m), NEW v \in Corridors, NEW h \in DOMAIN Decay, NEW e
  PROVE  /\ Into(m, v, h, e) \in SUBSET Corridors /\ IsFiniteSet(Into(m, v, h, e))
         /\ \A u \in Into(m, v, h, e) : /\ u \in m.current /\ v \in ToSet(Listed(u))
                                        /\ Gain(m, u, v, h) \in Nat /\ Gain(m, u, v, h) >= e
<1>1. Into(m, v, h, e) \in SUBSET Corridors
  BY DEF Into, MapTypes
<1>2. IsFiniteSet(Into(m, v, h, e))
  BY <1>1, CorridorAssumption, FS_Subset
<1>3. ASSUME NEW u \in Into(m, v, h, e)
      PROVE  /\ u \in m.current /\ v \in ToSet(Listed(u))
             /\ Gain(m, u, v, h) \in Nat /\ Gain(m, u, v, h) >= e
  <2>1. u \in Corridors
    BY <1>1
  <2>2. Gain(m, u, v, h) \in Nat
    BY <2>1, GainType
  <2>3. u \in m.current /\ Carries(m, u, v, h, e)
    BY DEF Into
  <2>4. QED
    BY <2>2, <2>3 DEF Carries, Gain
<1>4. QED
  BY <1>1, <1>2, <1>3

LEMMA BestIsBest ==
  ASSUME NEW m, MapTypes(m), NEW v \in Corridors, NEW h \in DOMAIN Decay, NEW e,
         Into(m, v, h, e) # {}
  PROVE  Best(m, v, h, e) \in Into(m, v, h, e)
<1>1. PICK S : S = Into(m, v, h, e)
  OBVIOUS
<1>2. PICK f : f = [u \in S |-> Gain(m, u, v, h)]
  OBVIOUS
<1>3. IsFiniteSet(S) /\ S # {} /\ \A u \in S : f[u] \in Nat
  BY <1>1, <1>2, IntoFacts
<1>4. \E u \in S : \A w \in S : f[w] <= f[u]
  BY <1>3, Largest
<1>5. \E u \in S : \A w \in S : Gain(m, w, v, h) <= Gain(m, u, v, h)
  BY <1>2, <1>4
<1>6. QED
  BY <1>1, <1>5 DEF Best

(* What a hop does to one corridor. *)
LEMMA HopRaises ==
  ASSUME NEW m, MapTypes(m), NEW h \in DOMAIN Decay, NEW e \in Nat \ {0},
         NEW n, Hopped(m, h, e, n), NEW v \in Corridors
  PROVE  /\ n.risk[v] \in Nat /\ m.risk[v] <= n.risk[v]
         /\ v \in n.current => m.risk[v] < n.risk[v]
         /\ n.delta[v] \in Nat /\ (v \in n.current => n.delta[v] > 0)
         /\ \/ n.delta[v] = m.delta[v] /\ n.parent[v] = m.parent[v]
            \/ n.parent[v] \in m.current /\ v \in ToSet(Listed(n.parent[v]))
<1>1. m.risk[v] \in Nat /\ m.delta[v] \in Nat
  BY DEF MapTypes
<1>2. PICK S : S = Into(m, v, h, e)
  OBVIOUS
<1>3. /\ S \in SUBSET Corridors /\ IsFiniteSet(S)
      /\ \A u \in S : /\ u \in m.current /\ v \in ToSet(Listed(u))
                      /\ Gain(m, u, v, h) \in Nat /\ Gain(m, u, v, h) >= e
  BY <1>2, IntoFacts
<1>4. PICK f : f = [u \in S |-> Gain(m, u, v, h)]
  OBVIOUS
<1>5. SumFunctionOnSet(f, S) \in Nat /\ \A u \in S : f[u] <= SumFunctionOnSet(f, S)
  <2>1. \A u \in S : f[u] \in Nat
    BY <1>3, <1>4
  <2>2. QED
    BY <1>3, <2>1, SumNat
<1>6. SumInto(m, v, h, e) = SumFunctionOnSet(f, S)
  BY <1>2, <1>4 DEF SumInto
<1>7. CASE S = {}
  <2>1. n.risk[v] = m.risk[v] /\ v \notin n.current
    BY <1>2, <1>7 DEF Hopped
  <2>2. n.delta[v] = m.delta[v] /\ n.parent[v] = m.parent[v]
    BY <1>2, <1>7 DEF Hopped, Better
  <2>3. QED
    BY <1>1, <2>1, <2>2
<1>8. CASE S # {}
  <2>1. PICK sum \in Nat : sum = SumFunctionOnSet(f, S)
    BY <1>5
  <2>2. n.risk[v] = m.risk[v] + sum
    BY <1>2, <1>6, <1>8, <2>1 DEF Hopped
  <2>3. PICK b \in S : b = Best(m, v, h, e)
    BY <1>2, <1>8, BestIsBest
  <2>4. PICK g \in Nat : g = Gain(m, b, v, h) /\ g >= e
    BY <1>3
  <2>5. g <= sum
    BY <1>4, <1>5, <2>1, <2>4
  <2>6. m.risk[v] < n.risk[v] /\ n.risk[v] \in Nat
    BY <1>1, <2>2, <2>4, <2>5
  <2>7. CASE Better(m, v, h, e)
    <3>1. n.delta[v] = g /\ n.parent[v] = b
      BY <2>3, <2>4, <2>7 DEF Hopped
    <3>2. b \in m.current /\ v \in ToSet(Listed(b))
      BY <1>3
    <3>3. n.delta[v] \in Nat /\ n.delta[v] > 0
      BY <2>4, <3>1
    <3>4. QED
      BY <1>1, <2>6, <3>1, <3>2, <3>3
  <2>8. CASE ~Better(m, v, h, e)
    <3>1. n.delta[v] = m.delta[v] /\ n.parent[v] = m.parent[v]
      BY <2>8 DEF Hopped
    <3>2. ~(g > m.delta[v])
      BY <1>2, <1>8, <2>3, <2>4, <2>8 DEF Better
    <3>3. n.delta[v] \in Nat /\ n.delta[v] > 0
      BY <1>1, <2>4, <3>1, <3>2
    <3>4. QED
      BY <1>1, <2>6, <3>1, <3>3
  <2>9. QED
    BY <2>7, <2>8
<1>9. QED
  BY <1>7, <1>8

LEMMA HopTypes ==
  ASSUME NEW m, MapTypes(m), NEW h \in DOMAIN Decay, NEW e \in Nat \ {0},
         NEW n, Hopped(m, h, e, n)
  PROVE  MapTypes(n)
<1>1. \A v \in Corridors : n.risk[v] \in Nat /\ n.delta[v] \in Nat
  BY HopRaises
<1>2. n.current \in SUBSET Corridors
  BY DEF Hopped
<1>3. n.risk = [v \in Corridors |-> n.risk[v]] /\ n.delta = [v \in Corridors |-> n.delta[v]]
  BY DEF Hopped
<1>4. QED
  BY <1>1, <1>2, <1>3 DEF MapTypes

(* What holds of the map after h hops. *)
Shown(m, h) ==
  /\ IsFiniteSet(m.nodes)
  /\ \A n \in m.nodes : /\ n.node \in Corridors /\ n.hop \in 0 .. h /\ n.risk \in Nat
                        /\ n.risk <= m.risk[n.node]
  /\ \A v \in m.current : \E n \in m.nodes : n.node = v /\ n.hop = h

Explained(m, h) ==
  /\ \A v \in Corridors : m.delta[v] > 0 =>
        /\ v \in ToSet(Listed(m.parent[v]))
        /\ \E k \in m.nodes : k.node = m.parent[v] /\ k.hop < h
  /\ \A n \in m.nodes : n.hop > 0 => ParentWasReached(n, m.nodes)

Growing(m) ==
  \A k, n \in m.nodes : k.node = n.node =>
      (k.hop < n.hop => k.risk < n.risk) /\ (k.hop = n.hop => k = n)

LEMMA NewNodes ==
  ASSUME NEW m, NEW h \in Nat, NEW e, NEW n, Hopped(m, h, e, n), Shown(m, h - 1), h # 0
  PROVE  /\ m.nodes \subseteq n.nodes
         /\ \A k \in m.nodes : k.hop < h
         /\ \A k \in n.nodes \ m.nodes : k.node \in n.current /\ k = NodeOf(n, k.node, h)
         /\ \A v \in n.current : NodeOf(n, v, h) \in n.nodes
<1>1. n.nodes = m.nodes \cup {NodeOf(n, v, h) : v \in n.current}
  BY DEF Hopped
<1>2. \A v : NodeOf(n, v, h).node = v
  BY DEF NodeOf
<1>3. \A k \in m.nodes : k.hop \in 0 .. h - 1
  BY DEF Shown
<1>4. \A k \in m.nodes : k.hop < h
  BY <1>3
<1>5. \A k \in n.nodes \ m.nodes : k.node \in n.current /\ k = NodeOf(n, k.node, h)
  BY <1>1, <1>2
<1>6. QED
  BY <1>1, <1>4, <1>5

LEMMA NodeFields ==
  ASSUME NEW n, NEW v, NEW h
  PROVE  /\ NodeOf(n, v, h).node = v /\ NodeOf(n, v, h).hop = h
         /\ NodeOf(n, v, h).risk = n.risk[v] /\ NodeOf(n, v, h).parent = n.parent[v]
BY DEF NodeOf

LEMMA HopShown ==
  ASSUME NEW m, MapTypes(m), NEW h \in Nat \ {0}, h \in DOMAIN Decay, NEW e \in Nat \ {0},
         NEW n, Hopped(m, h, e, n), Shown(m, h - 1)
  PROVE  Shown(n, h)
<1>1. /\ m.nodes \subseteq n.nodes
      /\ \A k \in n.nodes \ m.nodes : k.node \in n.current /\ k = NodeOf(n, k.node, h)
      /\ \A v \in n.current : NodeOf(n, v, h) \in n.nodes
  BY NewNodes
<1>2. n.current \in SUBSET Corridors /\ IsFiniteSet(n.current)
  <2>1. n.current \in SUBSET Corridors
    BY DEF Hopped
  <2>2. QED
    BY <2>1, CorridorAssumption, FS_Subset
<1>3. IsFiniteSet(n.nodes)
  <2>1. IsFiniteSet(m.nodes)
    BY DEF Shown
  <2>2. PICK f : f = [v \in n.current |-> NodeOf(n, v, h)]
    OBVIOUS
  <2>3. PICK N : N = {NodeOf(n, v, h) : v \in n.current}
    OBVIOUS
  <2>4. f \in Surjection(n.current, N)
    <3>1. f \in [n.current -> N]
      BY <2>2, <2>3
    <3>2. \A k \in N : \E v \in n.current : f[v] = k
      BY <2>2, <2>3
    <3>3. QED
      BY <3>1, <3>2 DEF Surjection
  <2>5. IsFiniteSet(N)
    BY <1>2, <2>4, FS_Surjection
  <2>6. IsFiniteSet(m.nodes \cup N)
    BY <2>1, <2>5, FS_Union
  <2>7. n.nodes = m.nodes \cup N
    BY <2>3 DEF Hopped
  <2>8. QED
    BY <2>6, <2>7
<1>4. ASSUME NEW k \in n.nodes
      PROVE  k.node \in Corridors /\ k.hop \in 0 .. h /\ k.risk \in Nat /\ k.risk <= n.risk[k.node]
  <2>1. CASE k \in m.nodes
    <3>1. /\ k.node \in Corridors /\ k.hop \in 0 .. h - 1 /\ k.risk \in Nat
          /\ k.risk <= m.risk[k.node]
      BY <2>1 DEF Shown
    <3>2. /\ n.risk[k.node] \in Nat /\ m.risk[k.node] <= n.risk[k.node]
      BY <3>1, HopRaises
    <3>3. m.risk[k.node] \in Nat
      BY <3>1 DEF MapTypes
    <3>4. k.risk <= n.risk[k.node]
      BY <3>1, <3>2, <3>3
    <3>5. QED
      BY <3>1, <3>4
  <2>2. CASE k \notin m.nodes
    <3>1. k.node \in Corridors /\ k = NodeOf(n, k.node, h)
      BY <1>1, <1>2, <2>2
    <3>2. k.hop = h /\ k.risk = n.risk[k.node]
      BY <3>1, NodeFields
    <3>3. n.risk[k.node] \in Nat
      BY <3>1, HopRaises
    <3>4. k.risk <= n.risk[k.node] /\ k.hop \in 0 .. h
      BY <3>2, <3>3
    <3>5. QED
      BY <3>1, <3>2, <3>3, <3>4
  <2>3. QED
    BY <2>1, <2>2
<1>5. \A v \in n.current : \E k \in n.nodes : k.node = v /\ k.hop = h
  BY <1>1, NodeFields
<1>6. QED
  BY <1>3, <1>4, <1>5 DEF Shown

LEMMA HopExplained ==
  ASSUME NEW m, MapTypes(m), NEW h \in Nat \ {0}, h \in DOMAIN Decay, NEW e \in Nat \ {0},
         NEW n, Hopped(m, h, e, n), Shown(m, h - 1), Explained(m, h - 1)
  PROVE  Explained(n, h)
<1>1. /\ m.nodes \subseteq n.nodes
      /\ \A k \in m.nodes : k.hop < h
      /\ \A k \in n.nodes \ m.nodes : k.node \in n.current /\ k = NodeOf(n, k.node, h)
  BY NewNodes
<1>2. ASSUME NEW v \in Corridors, n.delta[v] > 0
      PROVE  /\ v \in ToSet(Listed(n.parent[v]))
             /\ \E k \in m.nodes : k.node = n.parent[v] /\ k.hop < h
  <2>1. \/ n.delta[v] = m.delta[v] /\ n.parent[v] = m.parent[v]
        \/ n.parent[v] \in m.current /\ v \in ToSet(Listed(n.parent[v]))
    BY HopRaises
  <2>2. CASE n.delta[v] = m.delta[v] /\ n.parent[v] = m.parent[v]
    <3>1. /\ v \in ToSet(Listed(m.parent[v]))
          /\ \E k \in m.nodes : k.node = m.parent[v] /\ k.hop < h - 1
      BY <1>2, <2>2 DEF Explained
    <3>2. QED
      BY <1>1, <2>2, <3>1
  <2>3. CASE n.parent[v] \in m.current /\ v \in ToSet(Listed(n.parent[v]))
    <3>1. \E k \in m.nodes : k.node = n.parent[v] /\ k.hop = h - 1
      BY <2>3 DEF Shown
    <3>2. QED
      BY <1>1, <2>3, <3>1
  <2>4. QED
    BY <2>1, <2>2, <2>3
<1>3. ASSUME NEW k \in n.nodes, k.hop > 0 PROVE ParentWasReached(k, n.nodes)
  <2>1. CASE k \in m.nodes
    <3>1. ParentWasReached(k, m.nodes)
      BY <1>3, <2>1 DEF Explained
    <3>2. QED
      BY <1>1, <3>1 DEF ParentWasReached
  <2>2. CASE k \notin m.nodes
    <3>1. k.node \in n.current /\ k = NodeOf(n, k.node, h)
      BY <1>1, <2>2
    <3>2. k.node \in Corridors
      BY <3>1 DEF Hopped
    <3>3. n.delta[k.node] > 0
      BY <3>1, <3>2, HopRaises
    <3>4. /\ k.node \in ToSet(Listed(n.parent[k.node]))
          /\ \E j \in m.nodes : j.node = n.parent[k.node] /\ j.hop < h
      BY <1>2, <3>2, <3>3
    <3>5. k.parent = n.parent[k.node] /\ k.hop = h
      BY <3>1, NodeFields
    <3>6. QED
      BY <1>1, <3>4, <3>5 DEF ParentWasReached
  <2>3. QED
    BY <2>1, <2>2
<1>4. QED
  BY <1>1, <1>2, <1>3 DEF Explained

LEMMA HopGrowing ==
  ASSUME NEW m, MapTypes(m), NEW h \in Nat \ {0}, h \in DOMAIN Decay, NEW e \in Nat \ {0},
         NEW n, Hopped(m, h, e, n), Shown(m, h - 1), Growing(m)
  PROVE  Growing(n)
<1>1. /\ \A k \in m.nodes : k.hop < h
      /\ \A k \in n.nodes \ m.nodes : k.node \in n.current /\ k = NodeOf(n, k.node, h)
  BY NewNodes
<1>2. ASSUME NEW k \in m.nodes, NEW j \in n.nodes \ m.nodes, k.node = j.node
      PROVE  k.hop < j.hop /\ k.risk < j.risk
  <2>1. j.node \in n.current /\ j.hop = h /\ j.risk = n.risk[j.node]
    BY <1>1, NodeFields
  <2>2. k.node \in Corridors /\ k.risk \in Nat /\ k.risk <= m.risk[k.node]
    BY DEF Shown
  <2>3. m.risk[k.node] < n.risk[k.node] /\ n.risk[k.node] \in Nat
    BY <1>2, <2>1, <2>2, HopRaises
  <2>4. m.risk[k.node] \in Nat
    BY <2>2 DEF MapTypes
  <2>5. k.risk < n.risk[k.node]
    BY <2>2, <2>3, <2>4
  <2>6. QED
    BY <1>1, <1>2, <2>1, <2>5
<1>3. ASSUME NEW k \in n.nodes \ m.nodes, NEW j \in n.nodes \ m.nodes, k.node = j.node
      PROVE  k = j
  BY <1>1, <1>3
<1>4. \A k \in n.nodes \ m.nodes : k.hop = h
  BY <1>1, NodeFields
<1>5. \A k, j \in m.nodes : k.hop \in Nat /\ j.hop \in Nat
  BY DEF Shown
<1>6. ASSUME NEW k \in n.nodes, NEW j \in n.nodes, k.node = j.node
      PROVE  (k.hop < j.hop => k.risk < j.risk) /\ (k.hop = j.hop => k = j)
  <2>1. CASE k \in m.nodes /\ j \in m.nodes
    BY <1>6, <2>1 DEF Growing
  <2>2. CASE k \in m.nodes /\ j \notin m.nodes
    <3>1. k.hop < j.hop /\ k.risk < j.risk
      BY <1>2, <1>6, <2>2
    <3>2. k.hop \in Nat /\ j.hop \in Nat
      BY <1>4, <1>5, <2>2
    <3>3. QED
      BY <3>1, <3>2
  <2>3. CASE k \notin m.nodes /\ j \in m.nodes
    <3>1. j.hop < k.hop
      BY <1>2, <1>6, <2>3
    <3>2. k.hop \in Nat /\ j.hop \in Nat
      BY <1>4, <1>5, <2>3
    <3>3. QED
      BY <3>1, <3>2
  <2>4. CASE k \notin m.nodes /\ j \notin m.nodes
    <3>1. k = j /\ k.hop \in Nat
      BY <1>3, <1>4, <1>6, <2>4
    <3>2. ~(k.hop < j.hop)
      BY <3>1
    <3>3. QED
      BY <3>1, <3>2
  <2>5. QED
    BY <2>1, <2>2, <2>3, <2>4
<1>7. QED
  BY <1>6 DEF Growing

FromSeed(m, rci) == \E n \in m.nodes : n.hop = 0 /\ n.risk = rci

MapInv(m, h, rci) ==
  MapTypes(m) /\ Shown(m, h) /\ Explained(m, h) /\ Growing(m) /\ FromSeed(m, rci)

LEMMA StartsWell ==
  ASSUME NEW seed \in Corridors, NEW rci \in Nat
  PROVE  MapInv(Start(seed, rci), 0, rci)
<1>1. PICK m : m = Start(seed, rci)
  OBVIOUS
<1>2. PICK n : n = [node |-> seed, hop |-> 0, risk |-> rci, parent |-> ""]
  OBVIOUS
<1>3. n.node = seed /\ n.hop = 0 /\ n.risk = rci
  BY <1>2
<1>4. /\ m.nodes = {n} /\ m.current = {seed}
      /\ m.risk = [v \in Corridors |-> IF v = seed THEN rci ELSE 0]
      /\ m.delta = [v \in Corridors |-> 0]
  BY <1>1, <1>2 DEF Start
<1>5. MapTypes(m)
  BY <1>4 DEF MapTypes
<1>6. Shown(m, 0)
  <2>1. IsFiniteSet(m.nodes)
    BY <1>4, FS_Singleton
  <2>2. m.risk[seed] = rci
    BY <1>4
  <2>3. QED
    BY <1>3, <1>4, <2>1, <2>2 DEF Shown
<1>7. Explained(m, 0) /\ Growing(m) /\ FromSeed(m, rci)
  BY <1>3, <1>4 DEF Explained, Growing, FromSeed
<1>8. QED
  BY <1>1, <1>5, <1>6, <1>7 DEF MapInv

LEMMA HopKeeps ==
  ASSUME NEW m, NEW rci, NEW h \in Nat \ {0}, h \in DOMAIN Decay, NEW e \in Nat \ {0},
         NEW n, Hopped(m, h, e, n), MapInv(m, h - 1, rci)
  PROVE  MapInv(n, h, rci)
<1>1. /\ MapTypes(m) /\ Shown(m, h - 1) /\ Explained(m, h - 1) /\ Growing(m)
      /\ FromSeed(m, rci)
  BY DEF MapInv
<1>2. MapTypes(n) /\ Shown(n, h) /\ Explained(n, h) /\ Growing(n)
  BY <1>1, HopTypes, HopShown, HopExplained, HopGrowing
<1>3. m.nodes \subseteq n.nodes
  BY DEF Hopped
<1>4. FromSeed(n, rci)
  BY <1>1, <1>3 DEF FromSeed
<1>5. QED
  BY <1>2, <1>4 DEF MapInv

WaveInv(w, rci) == \A h \in 0 .. Len(Decay) : MapInv(w[h], h, rci)

LEMMA Hops ==
  /\ Len(Decay) \in Nat
  /\ \A h \in Nat : h + 1 <= Len(Decay) => h + 1 \in DOMAIN Decay /\ (h + 1) - 1 = h
<1>1. PICK S : S = 0 .. 1000
  OBVIOUS
<1>2. Decay \in Seq(S)
  BY <1>1, RippleAssumption
<1>3. Len(Decay) \in Nat /\ DOMAIN Decay = 1 .. Len(Decay)
  BY <1>2
<1>4. QED
  BY <1>3

LEMMA WaveHolds ==
  ASSUME NEW seed \in Corridors, NEW rci \in Nat, NEW e \in Nat \ {0},
         NEW w, Runs(w, seed, rci, e)
  PROVE  WaveInv(w, rci)
<1> DEFINE T == {h \in Nat : h <= Len(Decay) => MapInv(w[h], h, rci)}
<1>1. Len(Decay) \in Nat
  BY Hops
<1>2. 0 \in T
  BY StartsWell DEF Runs
<1>3. ASSUME NEW h \in T PROVE h + 1 \in T
  <2> SUFFICES ASSUME h + 1 <= Len(Decay) PROVE MapInv(w[h + 1], h + 1, rci)
    OBVIOUS
  <2>1. MapInv(w[h], h, rci)
    BY <1>1
  <2>2. Hopped(w[h], h + 1, e, w[h + 1])
    <3>1. w[h + 1] = Hop(w[h], h + 1, e)
      BY DEF Runs
    <3>2. QED
      BY <3>1, HopHops
  <2>3. PICK k \in Nat \ {0} : k = h + 1
    OBVIOUS
  <2>4. k \in DOMAIN Decay /\ k - 1 = h
    BY <2>3, Hops
  <2>5. Hopped(w[h], k, e, w[k]) /\ MapInv(w[h], k - 1, rci)
    BY <2>1, <2>2, <2>3, <2>4
  <2>6. MapInv(w[k], k, rci)
    BY <2>4, <2>5, HopKeeps
  <2>7. QED
    BY <2>3, <2>6
<1>4. T \in SUBSET Nat
  OBVIOUS
<1> HIDE DEF T
<1>5. T = Nat
  BY <1>2, <1>3, <1>4, Induction
<1>6. \A h \in 0 .. Len(Decay) : h \in T /\ h <= Len(Decay)
  BY <1>1, <1>5
<1>7. QED
  BY <1>6 DEF T, WaveInv

(* A hop only adds nodes of its own number. *)
LEMMA WaveNodes ==
  ASSUME NEW seed \in Corridors, NEW rci \in Nat, NEW e \in Nat \ {0},
         NEW w, Runs(w, seed, rci, e), NEW h \in Nat, h + 1 <= Len(Decay)
  PROVE  /\ w[h].nodes \subseteq w[h + 1].nodes
         /\ \A n \in w[h].nodes : n.hop \in 0 .. h
         /\ \A n \in w[h + 1].nodes \ w[h].nodes : n.hop = h + 1
<1>1. PICK k \in Nat : k = h + 1 /\ k # 0
  OBVIOUS
<1>2. k - 1 = h /\ h \in 0 .. Len(Decay)
  BY <1>1, Hops
<1>3. Hopped(w[h], k, e, w[k])
  BY <1>1, HopHops DEF Runs
<1>4. MapInv(w[h], h, rci)
  BY <1>2, WaveHolds DEF WaveInv
<1>5. Shown(w[h], k - 1)
  BY <1>2, <1>4 DEF MapInv
<1>6. /\ w[h].nodes \subseteq w[k].nodes
      /\ \A n \in w[k].nodes \ w[h].nodes : n = NodeOf(w[k], n.node, k)
  BY <1>1, <1>3, <1>5, NewNodes
<1>7. \A n \in w[h].nodes : n.hop \in 0 .. h
  BY <1>2, <1>5 DEF Shown
<1>8. QED
  BY <1>1, <1>6, <1>7, NodeFields

Prefix(w, k) == \A h \in 0 .. k : w[h].nodes = {n \in w[k].nodes : n.hop <= h}

LEMMA WavePrefix ==
  ASSUME NEW seed \in Corridors, NEW rci \in Nat, NEW e \in Nat \ {0},
         NEW w, Runs(w, seed, rci, e), NEW k \in 0 .. Len(Decay)
  PROVE  Prefix(w, k)
<1> DEFINE T == {h \in Nat : h <= Len(Decay) => Prefix(w, h)}
<1>1. Len(Decay) \in Nat /\ WaveInv(w, rci)
  BY Hops, WaveHolds
<1>2. 0 \in T
  <2>1. MapInv(w[0], 0, rci)
    BY <1>1 DEF WaveInv
  <2>2. \A n \in w[0].nodes : n.hop \in 0 .. 0
    BY <2>1 DEF MapInv, Shown
  <2>3. QED
    BY <2>2 DEF Prefix
<1>3. ASSUME NEW j \in T PROVE j + 1 \in T
  <2> SUFFICES ASSUME j + 1 <= Len(Decay) PROVE Prefix(w, j + 1)
    OBVIOUS
  <2>1. Prefix(w, j)
    BY <1>1
  <2>2. /\ w[j].nodes \subseteq w[j + 1].nodes
        /\ \A n \in w[j].nodes : n.hop \in 0 .. j
        /\ \A n \in w[j + 1].nodes \ w[j].nodes : n.hop = j + 1
    BY WaveNodes
  <2>3. ASSUME NEW h \in 0 .. j + 1
        PROVE  w[h].nodes = {n \in w[j + 1].nodes : n.hop <= h}
    <3>1. CASE h = j + 1
      <4>1. \A n \in w[j + 1].nodes : n.hop <= j + 1
        BY <2>2
      <4>2. QED
        BY <3>1, <4>1
    <3>2. CASE h # j + 1
      <4>1. h \in 0 .. j
        BY <3>2
      <4>2. w[h].nodes = {n \in w[j].nodes : n.hop <= h}
        BY <2>1, <4>1 DEF Prefix
      <4>3. \A n \in w[j + 1].nodes \ w[j].nodes : ~(n.hop <= h)
        BY <2>2, <4>1
      <4>4. QED
        BY <2>2, <4>2, <4>3
    <3>3. QED
      BY <3>1, <3>2
  <2>4. QED
    BY <2>3 DEF Prefix
<1>4. T \in SUBSET Nat
  OBVIOUS
<1> HIDE DEF T
<1>5. T = Nat
  BY <1>2, <1>3, <1>4, Induction
<1>6. k \in T /\ k <= Len(Decay)
  BY <1>1, <1>5
<1>7. QED
  BY <1>6 DEF T

(* A larger threshold takes corridors and risk off the map. *)
Below(m, n) ==
  /\ m.current \subseteq n.current
  /\ \A v \in Corridors : m.risk[v] <= n.risk[v]
  /\ \A k \in m.nodes : \E j \in n.nodes : j.node = k.node /\ j.hop = k.hop /\ k.risk <= j.risk

LEMMA HopBelow ==
  ASSUME NEW m, MapTypes(m), NEW n, MapTypes(n), Below(m, n),
         NEW h \in DOMAIN Decay, NEW e \in Nat \ {0}, NEW d \in Nat \ {0}, d <= e,
         NEW m1, Hopped(m, h, e, m1), NEW n1, Hopped(n, h, d, n1)
  PROVE  Below(m1, n1)
<1>1. ASSUME NEW v \in Corridors, NEW u \in Into(m, v, h, e)
      PROVE  /\ u \in Into(n, v, h, d)
             /\ Gain(m, u, v, h) \in Nat /\ Gain(m, u, v, h) <= Gain(n, u, v, h)
  <2>1. u \in m.current /\ v \in ToSet(Listed(u)) /\ Gain(m, u, v, h) >= e /\ u \in Corridors
    BY IntoFacts
  <2>2. PICK a \in Nat, b \in Nat : a = m.risk[u] /\ b = n.risk[u] /\ a <= b
    BY <2>1 DEF MapTypes, Below
  <2>3. /\ Delta(a, u, v, h) \in Nat /\ Delta(b, u, v, h) \in Nat
        /\ Delta(a, u, v, h) <= Delta(b, u, v, h)
    <3>1. a <= b
      BY <2>2
    <3>2. QED
      BY <2>1, <3>1, DeltaGrows
  <2>4. PICK x \in Nat, y \in Nat : x = Gain(m, u, v, h) /\ y = Gain(n, u, v, h) /\ x <= y
    BY <2>2, <2>3 DEF Gain
  <2>5. y >= d
    BY <2>1, <2>4
  <2>6. u \in n.current
    BY <2>1 DEF Below
  <2>7. Carries(n, u, v, h, d)
    BY <2>1, <2>4, <2>5 DEF Carries, Gain
  <2>8. QED
    BY <2>4, <2>6, <2>7 DEF Into
<1>2. m1.current \subseteq n1.current
  BY <1>1 DEF Hopped
<1>3. ASSUME NEW v \in Corridors PROVE m1.risk[v] <= n1.risk[v]
  <2>1. PICK a \in Nat, b \in Nat : a = m.risk[v] /\ b = n.risk[v] /\ a <= b
    BY DEF MapTypes, Below
  <2>2. PICK A, B : A = Into(m, v, h, e) /\ B = Into(n, v, h, d)
    OBVIOUS
  <2>3. PICK f, g : /\ f = [u \in A |-> Gain(m, u, v, h)]
                    /\ g = [u \in B |-> Gain(n, u, v, h)]
    OBVIOUS
  <2>4. /\ A \in SUBSET B /\ IsFiniteSet(B) /\ IsFiniteSet(A)
        /\ \A u \in A : f[u] \in Nat /\ f[u] <= g[u]
        /\ \A u \in B : g[u] \in Nat
    <3>1. A \in SUBSET B /\ \A u \in A : f[u] \in Nat /\ f[u] <= g[u]
      BY <1>1, <2>2, <2>3
    <3>2. IsFiniteSet(B) /\ \A u \in B : g[u] \in Nat
      BY <2>2, <2>3, IntoFacts
    <3>3. QED
      BY <3>1, <3>2, FS_Subset
  <2>5. /\ SumFunctionOnSet(f, A) \in Nat /\ SumFunctionOnSet(g, B) \in Nat
        /\ SumFunctionOnSet(f, A) <= SumFunctionOnSet(g, B)
    BY <2>4, SumNat, SumGrows
  <2>6. PICK x \in Nat, y \in Nat :
          x = SumInto(m, v, h, e) /\ y = SumInto(n, v, h, d) /\ x <= y
    BY <2>2, <2>3, <2>5 DEF SumInto
  <2>7. m1.risk[v] = IF A # {} THEN a + x ELSE a
    BY <2>1, <2>2, <2>6 DEF Hopped
  <2>8. n1.risk[v] = IF B # {} THEN b + y ELSE b
    BY <2>1, <2>2, <2>6 DEF Hopped
  <2>9. A # {} => B # {}
    BY <2>4
  <2>10. QED
    BY <2>1, <2>6, <2>7, <2>8, <2>9
<1>4. ASSUME NEW k \in m1.nodes
      PROVE  \E j \in n1.nodes : j.node = k.node /\ j.hop = k.hop /\ k.risk <= j.risk
  <2>1. CASE k \in m.nodes
    <3>1. n.nodes \subseteq n1.nodes
      BY DEF Hopped
    <3>2. QED
      BY <2>1, <3>1 DEF Below
  <2>2. CASE \E v \in m1.current : k = NodeOf(m1, v, h)
    <3>1. PICK v \in m1.current : k = NodeOf(m1, v, h)
      BY <2>2
    <3>2. v \in n1.current /\ v \in Corridors
      BY <1>2 DEF Hopped
    <3>3. NodeOf(n1, v, h) \in n1.nodes
      BY <3>2 DEF Hopped
    <3>4. m1.risk[v] <= n1.risk[v]
      BY <1>3, <3>2
    <3>5. QED
      BY <3>1, <3>3, <3>4, NodeFields
  <2>3. QED
    BY <2>1, <2>2 DEF Hopped
<1>5. QED
  BY <1>2, <1>3, <1>4 DEF Below

LEMMA WavesBelow ==
  ASSUME NEW seed \in Corridors, NEW rci \in Nat,
         NEW e \in Nat \ {0}, NEW d \in Nat \ {0}, d <= e,
         NEW w, Runs(w, seed, rci, e), NEW x, Runs(x, seed, rci, d),
         NEW k \in 0 .. Len(Decay)
  PROVE  Below(w[k], x[k])
<1> DEFINE T == {h \in Nat : h <= Len(Decay) => Below(w[h], x[h])}
<1>1. Len(Decay) \in Nat /\ WaveInv(w, rci) /\ WaveInv(x, rci)
  BY Hops, WaveHolds
<1>2. \A h \in 0 .. Len(Decay) : MapTypes(w[h]) /\ MapTypes(x[h])
  BY <1>1 DEF WaveInv, MapInv
<1>3. 0 \in T
  <2>1. w[0] = x[0]
    BY DEF Runs
  <2>2. MapInv(w[0], 0, rci)
    BY <1>1 DEF WaveInv
  <2>3. /\ \A v \in Corridors : w[0].risk[v] \in Nat
        /\ \A n \in w[0].nodes : n.risk \in Nat
    BY <2>2 DEF MapInv, MapTypes, Shown
  <2>4. Below(w[0], x[0])
    BY <2>1, <2>3 DEF Below
  <2>5. QED
    BY <2>4
<1>4. ASSUME NEW h \in T PROVE h + 1 \in T
  <2> SUFFICES ASSUME h + 1 <= Len(Decay) PROVE Below(w[h + 1], x[h + 1])
    OBVIOUS
  <2>1. Below(w[h], x[h]) /\ MapTypes(w[h]) /\ MapTypes(x[h])
    BY <1>1, <1>2
  <2>2. PICK j \in DOMAIN Decay : j = h + 1
    BY Hops
  <2>3. Hopped(w[h], j, e, w[j]) /\ Hopped(x[h], j, d, x[j])
    <3>1. w[j] = Hop(w[h], j, e) /\ x[j] = Hop(x[h], j, d)
      BY <2>2 DEF Runs
    <3>2. QED
      BY <3>1, HopHops
  <2>4. Below(w[j], x[j])
    BY <2>1, <2>3, HopBelow
  <2>5. QED
    BY <2>2, <2>4
<1>5. T \in SUBSET Nat
  OBVIOUS
<1> HIDE DEF T
<1>6. T = Nat
  BY <1>3, <1>4, <1>5, Induction
<1>7. k \in T /\ k <= Len(Decay)
  BY <1>1, <1>6
<1>8. QED
  BY <1>7 DEF T

(* What the lists reach in so many hops, which M02 answers. *)
Reach(g, c) ==
  /\ g[0] = {c}
  /\ \A h \in Nat : /\ g[h] \in SUBSET Corridors
                    /\ g[h + 1] = g[h] \cup UNION {ToSet(Listed(d)) : d \in g[h]}
  /\ \A hops \in 1 .. 5 : WithinHops(c, hops) = g[hops] \ {c}

LEMMA ListsStay ==
  ASSUME NEW c
  PROVE  ToSet(Listed(c)) \subseteq Corridors
<1>1. CASE c \in DOMAIN NeighborList
  <2>1. NeighborList[c] \in Seq(Corridors)
    BY <1>1, CorridorAssumption
  <2>2. PICK s \in Seq(Corridors) : s = Listed(c)
    BY <1>1, <2>1 DEF Listed
  <2>3. \A i \in DOMAIN s : s[i] \in Corridors
    BY ElementType
  <2>4. QED
    BY <2>2, <2>3 DEF ToSet
<1>2. CASE c \notin DOMAIN NeighborList
  <2>1. Listed(c) = <<>>
    BY <1>2 DEF Listed
  <2>2. QED
    BY <2>1 DEF ToSet
<1>3. QED
  BY <1>1, <1>2

ReachFun(f, c) ==
  f = [h \in Nat |-> IF h = 0 THEN {c}
                     ELSE f[h - 1] \cup UNION {ToSet(Listed(d)) : d \in f[h - 1]}]

LEMMA ReachExists ==
  ASSUME NEW c \in Corridors
  PROVE  \E g : Reach(g, c)
<1> DEFINE next(s) == s \cup UNION {ToSet(Listed(d)) : d \in s}
<1>1. PICK D : D = SUBSET Corridors
  OBVIOUS
<1>2. ASSUME NEW s \in D PROVE next(s) \in D
  BY <1>1, ListsStay
<1>3. PICK f \in [Nat -> D] : f[0] = {c} /\ \A n \in Nat : f[n + 1] = next(f[n])
  <2>1. PICK zero \in D : zero = {c}
    BY <1>1
  <2> HIDE DEF next
  <2>2. PICK step \in [D -> D] : \A s \in D : step[s] = next(s)
    <3>1. [s \in D |-> next(s)] \in [D -> D]
      BY <1>2
    <3>2. QED
      BY <3>1
  <2>3. PICK g : Iterates(g, D, zero, step)
    BY Iteration
  <2>4. g \in [Nat -> D] /\ g[0] = zero /\ \A n \in Nat : g[n + 1] = next(g[n])
    BY <2>2, <2>3 DEF Iterates
  <2>5. QED
    BY <2>1, <2>4
<1>4. ASSUME NEW h \in Nat
      PROVE  f[h] = IF h = 0 THEN {c}
                    ELSE f[h - 1] \cup UNION {ToSet(Listed(d)) : d \in f[h - 1]}
  <2>1. CASE h # 0
    <3>1. h - 1 \in Nat /\ (h - 1) + 1 = h
      BY <2>1
    <3>2. f[h] = next(f[h - 1])
      BY <1>3, <3>1
    <3>3. QED
      BY <2>1, <3>2
  <2>2. QED
    BY <1>3, <2>1
<1>5. ReachFun(f, c)
  <2>1. f = [h \in Nat |-> f[h]]
    BY <1>3
  <2>2. QED
    BY <1>4, <2>1 DEF ReachFun
<1>6. PICK g : g = CHOOSE x : ReachFun(x, c)
  OBVIOUS
<1>7. ReachFun(g, c)
  BY <1>5, <1>6
<1>8. \A h \in Nat : g[h] = IF h = 0 THEN {c}
                            ELSE g[h - 1] \cup UNION {ToSet(Listed(d)) : d \in g[h - 1]}
  BY <1>7 DEF ReachFun
<1>9. ASSUME NEW h \in Nat PROVE g[h + 1] = g[h] \cup UNION {ToSet(Listed(d)) : d \in g[h]}
  <2>1. h + 1 \in Nat /\ h + 1 # 0 /\ (h + 1) - 1 = h
    OBVIOUS
  <2>2. QED
    BY <1>8, <2>1
<1>10. g[0] = {c}
  BY <1>8
<1>11. \A h \in Nat : g[h] \in SUBSET Corridors
  <2> DEFINE T == {h \in Nat : g[h] \in SUBSET Corridors}
  <2>1. 0 \in T
    BY <1>10
  <2>2. ASSUME NEW h \in T PROVE h + 1 \in T
    BY <1>9, ListsStay
  <2>3. T \in SUBSET Nat
    OBVIOUS
  <2> HIDE DEF T
  <2>4. T = Nat
    BY <2>1, <2>2, <2>3, Induction
  <2>5. QED
    BY <2>4 DEF T
<1>12. ASSUME NEW hops \in 1 .. 5 PROVE WithinHops(c, hops) = g[hops] \ {c}
  <2>1. (IF hops < 1 THEN 1 ELSE IF hops > 5 THEN 5 ELSE hops) = hops
    OBVIOUS
  <2>2. WithinHops(c, hops)
          = g[IF hops < 1 THEN 1 ELSE IF hops > 5 THEN 5 ELSE hops] \ {c}
    BY <1>6 DEF WithinHops, ReachFun
  <2>3. QED
    BY <2>1, <2>2
<1>13. QED
  BY <1>9, <1>10, <1>11, <1>12 DEF Reach

LEMMA ReachGrows ==
  ASSUME NEW c, NEW g, Reach(g, c), NEW k \in Nat, NEW h \in 0 .. k
  PROVE  g[h] \subseteq g[k]
<1> DEFINE T == {n \in Nat : \A j \in 0 .. n : g[j] \subseteq g[n]}
<1>1. 0 \in T
  OBVIOUS
<1>2. ASSUME NEW n \in T PROVE n + 1 \in T
  <2>1. g[n] \subseteq g[n + 1]
    BY DEF Reach
  <2>2. \A j \in 0 .. n + 1 : j = n + 1 \/ j \in 0 .. n
    OBVIOUS
  <2>3. QED
    BY <2>1, <2>2
<1>3. T \in SUBSET Nat
  OBVIOUS
<1> HIDE DEF T
<1>4. T = Nat
  BY <1>1, <1>2, <1>3, Induction
<1>5. QED
  BY <1>4 DEF T

Within(m, h, g) == m.current \subseteq g[h] /\ \A n \in m.nodes : n.node \in g[n.hop]

LEMMA WaveWithin ==
  ASSUME NEW seed \in Corridors, NEW rci \in Nat, NEW e \in Nat \ {0},
         NEW w, Runs(w, seed, rci, e), NEW g, Reach(g, seed), NEW k \in 0 .. Len(Decay)
  PROVE  Within(w[k], k, g)
<1> DEFINE T == {h \in Nat : h <= Len(Decay) => Within(w[h], h, g)}
<1>1. Len(Decay) \in Nat /\ WaveInv(w, rci)
  BY Hops, WaveHolds
<1>2. 0 \in T
  <2>1. w[0] = Start(seed, rci) /\ g[0] = {seed}
    BY DEF Runs, Reach
  <2>2. PICK m, n : /\ m = Start(seed, rci)
                    /\ n = [node |-> seed, hop |-> 0, risk |-> rci, parent |-> ""]
    OBVIOUS
  <2>3. m.current = {seed} /\ m.nodes = {n} /\ n.node = seed /\ n.hop = 0
    BY <2>2 DEF Start
  <2>4. Within(m, 0, g)
    BY <2>1, <2>3 DEF Within
  <2>5. QED
    BY <2>1, <2>2, <2>4
<1>3. ASSUME NEW h \in T PROVE h + 1 \in T
  <2> SUFFICES ASSUME h + 1 <= Len(Decay) PROVE Within(w[h + 1], h + 1, g)
    OBVIOUS
  <2>1. Within(w[h], h, g)
    BY <1>1
  <2>2. PICK j \in DOMAIN Decay : j = h + 1
    BY Hops
  <2>3. Hopped(w[h], j, e, w[j])
    <3>1. w[j] = Hop(w[h], j, e)
      BY <2>2 DEF Runs
    <3>2. QED
      BY <3>1, HopHops
  <2>4. MapTypes(w[h])
    <3>1. h \in 0 .. Len(Decay)
      BY <1>1
    <3>2. QED
      BY <1>1, <3>1 DEF WaveInv, MapInv
  <2>5. ASSUME NEW v \in w[j].current PROVE v \in g[j]
    <3>1. v \in Corridors /\ Into(w[h], v, j, e) # {}
      BY <2>3 DEF Hopped
    <3>2. PICK u : u \in w[h].current /\ v \in ToSet(Listed(u))
      BY <2>4, <3>1, IntoFacts
    <3>3. u \in g[h]
      BY <2>1, <3>2 DEF Within
    <3>4. g[j] = g[h] \cup UNION {ToSet(Listed(d)) : d \in g[h]}
      BY <2>2 DEF Reach
    <3>5. QED
      BY <3>2, <3>3, <3>4
  <2>6. ASSUME NEW n \in w[j].nodes PROVE n.node \in g[n.hop]
    <3>1. CASE n \in w[h].nodes
      BY <2>1, <3>1 DEF Within
    <3>2. CASE \E v \in w[j].current : n = NodeOf(w[j], v, j)
      BY <2>5, <3>2, NodeFields
    <3>3. QED
      BY <2>3, <3>1, <3>2 DEF Hopped
  <2>7. QED
    BY <2>2, <2>5, <2>6 DEF Within
<1>4. T \in SUBSET Nat
  OBVIOUS
<1> HIDE DEF T
<1>5. T = Nat
  BY <1>2, <1>3, <1>4, Induction
<1>6. k \in T /\ k <= Len(Decay)
  BY <1>1, <1>5
<1>7. QED
  BY <1>6 DEF T

LEMMA MaxOfSet ==
  ASSUME NEW S, IsFiniteSet(S), S \subseteq Nat, NEW x \in S
  PROVE  Max(S) \in Nat /\ x <= Max(S)
<1>1. PICK f : f = [y \in S |-> y]
  OBVIOUS
<1>2. S # {} /\ \A y \in S : f[y] \in Nat
  BY <1>1
<1>3. \E y \in S : \A z \in S : f[z] <= f[y]
  BY <1>2, Largest
<1>4. \E y \in S : \A z \in S : y >= z
  BY <1>1, <1>3
<1>5. Max(S) \in S /\ \A z \in S : Max(S) >= z
  BY <1>4 DEF Max
<1>6. QED
  BY <1>5

LEMMA CascadeAtLeast ==
  ASSUME NEW m, NEW h, Shown(m, h), NEW n \in m.nodes, n.hop <= 2
  PROVE  n.risk <= CascadeRisk(m.nodes)
<1>1. PICK N : N = {k \in m.nodes : k.hop <= 2}
  OBVIOUS
<1>2. PICK R : R = {k.risk : k \in N}
  OBVIOUS
<1>3. N \subseteq m.nodes /\ IsFiniteSet(N) /\ n \in N
  BY <1>1, FS_Subset DEF Shown
<1>4. R \subseteq Nat
  BY <1>2, <1>3 DEF Shown
<1>5. IsFiniteSet(R)
  <2>1. PICK f : f = [k \in N |-> k.risk]
    OBVIOUS
  <2>2. f \in Surjection(N, R)
    <3>1. f \in [N -> R]
      BY <1>2, <2>1
    <3>2. \A y \in R : \E k \in N : f[k] = y
      BY <1>2, <2>1
    <3>3. QED
      BY <3>1, <3>2 DEF Surjection
  <2>3. QED
    BY <1>3, <2>2, FS_Surjection
<1>6. n.risk \in R
  BY <1>2, <1>3
<1>7. n.risk <= Max(R)
  BY <1>4, <1>5, <1>6, MaxOfSet
<1>8. CascadeRisk(m.nodes) = Max(R)
  BY <1>1, <1>2 DEF CascadeRisk
<1>9. QED
  BY <1>7, <1>8

ExplainsRun(nodes, seed, rci, epsilon, hops) ==
  /\ \A n \in nodes : n.hop > 0 => ParentWasReached(n, nodes)
  /\ \A n \in nodes : n.node \in WithinHops(seed, hops) \cup {seed}
  /\ \A m, n \in nodes : m.node = n.node /\ m.hop = n.hop => m = n
  /\ \A h \in 1 .. hops - 1 : RunGcdh(seed, rci, h, epsilon) = {n \in nodes : n.hop <= h}
  /\ \A e \in Epsilons : e < epsilon =>
        \A n \in nodes : \E m \in RunGcdh(seed, rci, hops, e) :
            m.node = n.node /\ m.hop = n.hop /\ n.risk <= m.risk
  /\ rci <= CascadeRisk(nodes)

LEMMA RunIsExplained ==
  ASSUME NEW seed \in Corridors, NEW rci \in SeedRcis, NEW epsilon \in Epsilons,
         NEW hops \in DOMAIN Decay
  PROVE  ExplainsRun(RunGcdh(seed, rci, hops, epsilon), seed, rci, epsilon, hops)
<1>1. rci \in Nat /\ \A e \in Epsilons : e \in Nat \ {0}
  <2>1. SeedRcis \subseteq 0 .. 1000 /\ Epsilons \subseteq 1 .. 1000
    BY RippleAssumption
  <2>2. QED
    BY <2>1
<1>2. hops \in 1 .. Len(Decay) /\ Len(Decay) \in Nat /\ Len(Decay) <= 5
  <2>1. PICK S : S = 0 .. 1000
    OBVIOUS
  <2>2. Decay \in Seq(S) /\ Len(Decay) <= 5
    BY <2>1, RippleAssumption
  <2>3. QED
    BY <2>2
<1>3. hops \in 0 .. Len(Decay) /\ hops \in Nat /\ hops \in 1 .. 5 /\ hops \in 0 .. hops
  BY <1>2
<1>4. PICK w : Runs(w, seed, rci, epsilon)
  BY RunIsWave
<1>5. PICK m : m = w[hops]
  OBVIOUS
<1>6. RunGcdh(seed, rci, hops, epsilon) = m.nodes
  BY <1>3, <1>4, <1>5 DEF Runs
<1>7. MapInv(m, hops, rci)
  <2>1. WaveInv(w, rci)
    BY <1>1, <1>4, WaveHolds
  <2>2. QED
    BY <1>3, <1>5, <2>1 DEF WaveInv
<1>8. \A n \in m.nodes : n.hop > 0 => ParentWasReached(n, m.nodes)
  BY <1>7 DEF MapInv, Explained
<1>9. \A k, n \in m.nodes : k.node = n.node /\ k.hop = n.hop => k = n
  BY <1>7 DEF MapInv, Growing
<1>10. ASSUME NEW n \in m.nodes PROVE n.node \in WithinHops(seed, hops) \cup {seed}
  <2>1. PICK g : Reach(g, seed)
    BY ReachExists
  <2>2. Within(m, hops, g)
    BY <1>1, <1>3, <1>4, <1>5, <2>1, WaveWithin
  <2>3. n.node \in g[n.hop]
    BY <2>2 DEF Within
  <2>4. n.hop \in 0 .. hops
    BY <1>7 DEF MapInv, Shown
  <2>5. g[n.hop] \subseteq g[hops]
    BY <1>3, <2>1, <2>4, ReachGrows
  <2>6. WithinHops(seed, hops) = g[hops] \ {seed}
    BY <1>3, <2>1 DEF Reach
  <2>7. QED
    BY <2>3, <2>5, <2>6
<1>11. ASSUME NEW h \in 1 .. hops - 1
       PROVE  RunGcdh(seed, rci, h, epsilon) = {n \in m.nodes : n.hop <= h}
  <2>1. h \in Nat /\ h \in 0 .. hops
    BY <1>3
  <2>2. Prefix(w, hops)
    BY <1>1, <1>3, <1>4, WavePrefix
  <2>3. RunGcdh(seed, rci, h, epsilon) = w[h].nodes
    BY <1>4, <2>1 DEF Runs
  <2>4. w[h].nodes = {n \in w[hops].nodes : n.hop <= h}
    BY <2>1, <2>2 DEF Prefix
  <2>5. QED
    BY <1>5, <2>3, <2>4
<1>12. ASSUME NEW e \in Epsilons, e < epsilon, NEW n \in m.nodes
       PROVE  \E k \in RunGcdh(seed, rci, hops, e) :
                k.node = n.node /\ k.hop = n.hop /\ n.risk <= k.risk
  <2>1. PICK x : Runs(x, seed, rci, e)
    BY RunIsWave
  <2>2. e \in Nat \ {0} /\ epsilon \in Nat \ {0} /\ e <= epsilon
    BY <1>1, <1>12
  <2>3. Below(w[hops], x[hops])
    BY <1>1, <1>3, <1>4, <2>1, <2>2, WavesBelow
  <2>4. RunGcdh(seed, rci, hops, e) = x[hops].nodes
    BY <1>3, <2>1 DEF Runs
  <2>5. QED
    BY <1>5, <2>3, <2>4 DEF Below
<1>13. rci <= CascadeRisk(m.nodes)
  <2>1. PICK n \in m.nodes : n.hop = 0 /\ n.risk = rci
    BY <1>7 DEF MapInv, FromSeed
  <2>2. Shown(m, hops) /\ n.hop <= 2
    BY <1>7, <2>1 DEF MapInv
  <2>3. QED
    BY <2>1, <2>2, CascadeAtLeast
<1>14. QED
  BY <1>6, <1>8, <1>9, <1>10, <1>11, <1>12, <1>13 DEF ExplainsRun

LEMMA RippleStep ==
  ASSUME RippleIsExplained, [RippleNext]_ripple
  PROVE  RippleIsExplained'
<1>1. CASE UNCHANGED ripple
  BY <1>1 DEF RippleIsExplained
<1>2. CASE RippleNext
  <2>1. PICK seed, rci, epsilon, hops, nodes :
          /\ seed \in Corridors /\ rci \in SeedRcis /\ epsilon \in Epsilons
          /\ hops \in DOMAIN Decay
          /\ nodes = RunGcdh(seed, rci, hops, epsilon)
          /\ ripple' = [seed |-> seed, rci |-> rci, epsilon |-> epsilon, hops |-> hops,
                        nodes |-> nodes, cascade |-> CascadeRisk(nodes)]
    BY <1>2 DEF RippleNext
  <2>2. /\ ripple'.seed = seed /\ ripple'.rci = rci /\ ripple'.epsilon = epsilon
        /\ ripple'.hops = hops /\ ripple'.nodes = nodes /\ ripple'.cascade = CascadeRisk(nodes)
    BY <2>1
  <2>3. ExplainsRun(nodes, seed, rci, epsilon, hops)
    BY <2>1, RunIsExplained
  <2>4. QED
    BY <2>2, <2>3 DEF ExplainsRun, RippleIsExplained
<1>3. QED
  BY <1>1, <1>2

LEMMA RippleAlways == RippleSpec => []RippleIsExplained
<1>1. RippleInit => RippleIsExplained
  BY DEF RippleInit, RippleIsExplained
<1>2. RippleIsExplained /\ [RippleNext]_ripple => RippleIsExplained'
  BY RippleStep
<1>3. QED
  BY <1>1, <1>2, PTL DEF RippleSpec

------------------------------------------------------------------------------
(* The clusters of the hotspot monitor (M05).                                 *)

(* A sum over disjoint sets. *)
LEMMA SumDisjoint ==
  ASSUME NEW S, IsFiniteSet(S), NEW f, IntsOn(f, S),
         NEW A \in SUBSET S, NEW B \in SUBSET S, A \cap B = {}
  PROVE  SumFunctionOnSet(f, A \cup B) = SumFunctionOnSet(f, A) + SumFunctionOnSet(f, B)
<1> DEFINE F == {s \in SUBSET B : SumFunctionOnSet(f, A \cup s)
                                    = SumFunctionOnSet(f, A) + SumFunctionOnSet(f, s)}
<1>1. SumsUp(f, S)
  BY Sums
<1>2. {} \in F
  <2>1. A \cup {} = A
    OBVIOUS
  <2>2. SumFunctionOnSet(f, {}) = 0 /\ SumFunctionOnSet(f, A) \in Int
    BY <1>1 DEF SumsUp
  <2>3. QED
    BY <2>1, <2>2
<1>3. ASSUME NEW s \in F, NEW x \in B \ s PROVE s \cup {x} \in F
  <2>1. /\ A \cup s \in SUBSET S /\ x \in S \ (A \cup s) /\ s \in SUBSET S /\ x \in S \ s
        /\ (A \cup s) \cup {x} = A \cup (s \cup {x})
    OBVIOUS
  <2>2. /\ SumFunctionOnSet(f, (A \cup s) \cup {x}) = f[x] + SumFunctionOnSet(f, A \cup s)
        /\ SumFunctionOnSet(f, s \cup {x}) = f[x] + SumFunctionOnSet(f, s)
        /\ SumFunctionOnSet(f, A) \in Int /\ SumFunctionOnSet(f, s) \in Int
    BY <1>1, <2>1 DEF SumsUp
  <2>3. PICK a \in Int, b \in Int, c \in Int :
          a = SumFunctionOnSet(f, A) /\ b = SumFunctionOnSet(f, s) /\ c = f[x]
    BY <2>1, <2>2 DEF IntsOn
  <2>4. SumFunctionOnSet(f, A \cup s) = a + b
    BY <2>3
  <2>5. SumFunctionOnSet(f, A \cup (s \cup {x})) = c + (a + b)
    BY <2>1, <2>2, <2>3, <2>4
  <2>6. c + (a + b) = a + (c + b)
    OBVIOUS
  <2>7. SumFunctionOnSet(f, A \cup (s \cup {x}))
          = SumFunctionOnSet(f, A) + SumFunctionOnSet(f, s \cup {x})
    BY <2>2, <2>3, <2>5, <2>6
  <2>8. QED
    BY <2>7
<1>4. F \in SUBSET (SUBSET B) /\ IsFiniteSet(B)
  BY FS_Subset
<1> HIDE DEF F
<1>5. \A s \in SUBSET B : s \in F
  BY <1>2, <1>3, <1>4, FiniteInduction
<1>6. B \in F
  BY <1>5
<1>7. QED
  BY <1>6 DEF F

LEMMA SumOfZeros ==
  ASSUME NEW S, IsFiniteSet(S), NEW f, \A x \in S : f[x] = 0
  PROVE  SumFunctionOnSet(f, S) = 0
<1>1. \A x \in S : f[x] = IF x \in {} THEN 1 ELSE 0
  OBVIOUS
<1>2. SumFunctionOnSet(f, S) = Cardinality({})
  BY <1>1, SumCounts
<1>3. QED
  BY <1>2, FS_EmptySet

\* A set of clusters of the cells that are counted: its densities are sums, no cell is
\* in two of them.
Apart(clusters) == \A c, d \in clusters : c = d \/ c.cells \cap d.cells = {}

Summing(clusters, counts) ==
  \A c \in clusters : c.cells \in SUBSET Cells /\ c.density = SumFunctionOnSet(counts, c.cells)

Covering(clusters, counts) ==
  \A x \in Cells : counts[x] > 0 => \E c \in clusters : x \in c.cells

Records(clusters) == \A c \in clusters : c = [cells |-> c.cells, density |-> c.density]

LEMMA ClustersFinite ==
  ASSUME NEW counts \in [Cells -> Nat], NEW clusters,
         Summing(clusters, counts), Records(clusters)
  PROVE  IsFiniteSet(clusters)
<1>1. PICK f : f = [s \in SUBSET Cells |->
                      [cells |-> s, density |-> SumFunctionOnSet(counts, s)]]
  OBVIOUS
<1>2. PICK R : R = {f[s] : s \in SUBSET Cells}
  OBVIOUS
<1>3. f \in Surjection(SUBSET Cells, R)
  <2>1. f \in [SUBSET Cells -> R]
    BY <1>1, <1>2
  <2>2. \A y \in R : \E s \in SUBSET Cells : f[s] = y
    BY <1>2
  <2>3. QED
    BY <2>1, <2>2 DEF Surjection
<1>4. IsFiniteSet(SUBSET Cells)
  BY HotspotAssumption, FS_SUBSET
<1>5. IsFiniteSet(R)
  BY <1>3, <1>4, FS_Surjection
<1>6. clusters \subseteq R
  <2>1. ASSUME NEW c \in clusters PROVE c \in R
    <3>1. c.cells \in SUBSET Cells /\ c.density = SumFunctionOnSet(counts, c.cells)
      BY DEF Summing
    <3>2. c = [cells |-> c.cells, density |-> c.density]
      BY DEF Records
    <3>3. c = f[c.cells]
      BY <1>1, <3>1, <3>2
    <3>4. QED
      BY <1>2, <3>1, <3>3
  <2>2. QED
    BY <2>1
<1>7. QED
  BY <1>5, <1>6, FS_Subset

(* Clusters that are apart and cover the cells add up to the points. *)
LEMMA DensitiesAddUp ==
  ASSUME NEW counts \in [Cells -> Nat], NEW clusters, IsFiniteSet(clusters),
         Apart(clusters), Summing(clusters, counts), Covering(clusters, counts)
  PROVE  SumFunctionOnSet([c \in clusters |-> c.density], clusters) = PointCount(counts)
<1> DEFINE U(p) == UNION {c.cells : c \in p}
           g == [c \in clusters |-> c.density]
           F == {p \in SUBSET clusters :
                  SumFunctionOnSet(g, p) = SumFunctionOnSet(counts, U(p))}
<1>1. IsFiniteSet(Cells) /\ IntsOn(counts, Cells)
  BY HotspotAssumption DEF IntsOn
<1>2. SumsUp(counts, Cells)
  BY <1>1, Sums
<1>3. \A c \in clusters : g[c] = c.density /\ g[c] \in Int
  BY <1>2 DEF Summing, SumsUp
<1>4. SumsUp(g, clusters)
  <2>1. IntsOn(g, clusters)
    BY <1>3 DEF IntsOn
  <2> HIDE DEF g
  <2>2. QED
    BY <2>1, Sums
<1>5. {} \in F
  <2>1. U({}) = {}
    OBVIOUS
  <2>2. SumFunctionOnSet(g, {}) = 0 /\ SumFunctionOnSet(counts, {}) = 0
    BY <1>2, <1>4 DEF SumsUp
  <2> HIDE DEF U, g
  <2>3. QED
    BY <2>1, <2>2
<1>6. ASSUME NEW p \in F, NEW c \in clusters \ p PROVE p \cup {c} \in F
  <2>1. /\ U(p \cup {c}) = U(p) \cup c.cells
        /\ U(p) \in SUBSET Cells /\ c.cells \in SUBSET Cells
    BY DEF Summing
  <2>2. U(p) \cap c.cells = {}
    BY DEF Apart
  <2>3. p \in SUBSET clusters /\ SumFunctionOnSet(g, p) = SumFunctionOnSet(counts, U(p))
    OBVIOUS
  <2>4. c.density = SumFunctionOnSet(counts, c.cells)
    BY DEF Summing
  <2> HIDE DEF U, F
  <2>5. SumFunctionOnSet(counts, U(p) \cup c.cells)
          = SumFunctionOnSet(counts, U(p)) + SumFunctionOnSet(counts, c.cells)
    BY <1>1, <2>1, <2>2, SumDisjoint
  <2>6. SumFunctionOnSet(counts, U(p)) \in Int /\ SumFunctionOnSet(counts, c.cells) \in Int
    BY <1>2, <2>1 DEF SumsUp
  <2>7. g[c] = c.density
    BY <1>3
  <2> HIDE DEF g
  <2>8. SumFunctionOnSet(g, p \cup {c}) = g[c] + SumFunctionOnSet(g, p)
    BY <1>4, <2>3 DEF SumsUp
  <2>9. PICK a \in Int, b \in Int :
          a = SumFunctionOnSet(counts, U(p)) /\ b = SumFunctionOnSet(counts, c.cells)
    BY <2>6
  <2>10. SumFunctionOnSet(g, p \cup {c}) = b + a
    BY <2>3, <2>4, <2>7, <2>8, <2>9
  <2>11. SumFunctionOnSet(counts, U(p \cup {c})) = a + b
    BY <2>1, <2>5, <2>9
  <2>12. SumFunctionOnSet(g, p \cup {c}) = SumFunctionOnSet(counts, U(p \cup {c}))
    BY <2>10, <2>11
  <2>13. QED
    BY <2>3, <2>12 DEF F
<1>7. F \in SUBSET (SUBSET clusters)
  OBVIOUS
<1> HIDE DEF F
<1>8. \A p \in SUBSET clusters : p \in F
  BY <1>5, <1>6, <1>7, FiniteInduction
<1>9. SumFunctionOnSet(g, clusters) = SumFunctionOnSet(counts, U(clusters))
  BY <1>8 DEF F
<1>10. SumFunctionOnSet(counts, U(clusters)) = PointCount(counts)
  <2>1. PICK A, B : A = U(clusters) /\ B = Cells \ A
    OBVIOUS
  <2>2. A \in SUBSET Cells /\ B \in SUBSET Cells /\ A \cap B = {} /\ A \cup B = Cells
    BY <2>1 DEF Summing
  <2>3. \A x \in B : counts[x] = 0
    <3>1. \A x \in B : ~(counts[x] > 0) /\ counts[x] \in Nat
      BY <2>1 DEF Covering
    <3>2. QED
      BY <3>1
  <2>4. SumFunctionOnSet(counts, B) = 0
    <3>1. IsFiniteSet(B)
      BY <1>1, <2>2, FS_Subset
    <3>2. QED
      BY <2>3, <3>1, SumOfZeros
  <2>5. SumFunctionOnSet(counts, A \cup B)
          = SumFunctionOnSet(counts, A) + SumFunctionOnSet(counts, B)
    BY <1>1, <2>2, SumDisjoint
  <2>6. SumFunctionOnSet(counts, A) \in Int
    BY <1>2, <2>2 DEF SumsUp
  <2>7. SumFunctionOnSet(counts, Cells) = SumFunctionOnSet(counts, A)
    <3>1. PICK a \in Int : a = SumFunctionOnSet(counts, A)
      BY <2>6
    <3>2. SumFunctionOnSet(counts, A \cup B) = a + 0
      BY <2>4, <2>5, <3>1
    <3>3. SumFunctionOnSet(counts, A \cup B) = a
      BY <3>2
    <3>4. QED
      BY <2>2, <3>1, <3>3
  <2>8. QED
    BY <2>1, <2>7 DEF PointCount
<1>11. QED
  BY <1>9, <1>10

(* The densest clusters exist. *)
LEMMA TopExists ==
  ASSUME NEW S, IsFiniteSet(S), NEW f, \A x \in S : f[x] \in Nat,
         NEW k \in Nat, k <= Cardinality(S)
  PROVE  \E T \in SUBSET S : /\ Cardinality(T) = k
                             /\ \A x \in T, y \in S \ T : f[x] >= f[y]
<1> DEFINE Good(T, n) == T \in SUBSET S /\ Cardinality(T) = n
                         /\ \A x \in T, y \in S \ T : f[x] >= f[y]
           N == {n \in Nat : n <= Cardinality(S) => \E T : Good(T, n)}
<1>1. Cardinality(S) \in Nat /\ \A T \in SUBSET S : IsFiniteSet(T) /\ Cardinality(T) \in Nat
  BY FS_CardinalityType, FS_Subset
<1>2. 0 \in N
  <2>1. Good({}, 0)
    BY FS_EmptySet
  <2>2. QED
    BY <2>1
<1>3. ASSUME NEW n \in N PROVE n + 1 \in N
  <2> SUFFICES ASSUME n + 1 <= Cardinality(S) PROVE \E T : Good(T, n + 1)
    OBVIOUS
  <2>1. PICK T : Good(T, n)
    BY <1>1
  <2>2. S \ T # {} /\ IsFiniteSet(S \ T)
    <3>1. S # T
      BY <1>1, <2>1
    <3>2. QED
      BY <2>1, <3>1, FS_Subset
  <2>3. PICK z \in S \ T : \A y \in S \ T : f[y] <= f[z]
    <3>1. PICK R : R = S \ T
      OBVIOUS
    <3>2. IsFiniteSet(R) /\ R # {} /\ \A x \in R : f[x] \in Nat
      BY <2>2, <3>1
    <3>3. \E z \in R : \A y \in R : f[y] <= f[z]
      BY <3>2, Largest
    <3>4. QED
      BY <3>1, <3>3
  <2>4. Cardinality(T \cup {z}) = n + 1
    BY <1>1, <2>1, <2>3, FS_AddElement
  <2>5. \A x \in T \cup {z}, y \in S \ (T \cup {z}) : f[x] >= f[y]
    <3>1. ASSUME NEW x \in T \cup {z}, NEW y \in S \ (T \cup {z}) PROVE f[x] >= f[y]
      <4>1. y \in S \ T /\ f[y] \in Nat /\ f[z] \in Nat
        OBVIOUS
      <4>2. CASE x \in T
        BY <2>1, <4>1, <4>2
      <4>3. CASE x = z
        BY <2>3, <4>1, <4>3
      <4>4. QED
        BY <4>2, <4>3
    <3>2. QED
      BY <3>1
  <2>6. Good(T \cup {z}, n + 1)
    BY <2>1, <2>4, <2>5
  <2>7. QED
    BY <2>6
<1>4. N \in SUBSET Nat
  OBVIOUS
<1> HIDE DEF N, Good
<1>5. N = Nat
  BY <1>2, <1>3, <1>4, Induction
<1>6. \E T : Good(T, k)
  BY <1>5 DEF N
<1>7. QED
  BY <1>6 DEF Good

LEMMA TopTakes ==
  ASSUME NEW clusters, IsFiniteSet(clusters), \A c \in clusters : c.density \in Nat
  PROVE  /\ Top(clusters) \subseteq clusters
         /\ Cardinality(Top(clusters)) < TopN => Top(clusters) = clusters
<1>1. TopN \in Nat /\ Cardinality(clusters) \in Nat
  BY HotspotAssumption, FS_CardinalityType
<1>2. CASE Cardinality(clusters) <= TopN
  BY <1>2 DEF Top
<1>3. CASE ~(Cardinality(clusters) <= TopN)
  <2>1. PICK f : f = [c \in clusters |-> c.density]
    OBVIOUS
  <2>2. (\A c \in clusters : f[c] \in Nat) /\ TopN <= Cardinality(clusters)
    BY <1>1, <1>3, <2>1
  <2>3. \E T \in SUBSET clusters : /\ Cardinality(T) = TopN
                                   /\ \A x \in T, y \in clusters \ T : f[x] >= f[y]
    BY <1>1, <2>2, TopExists
  <2>4. \E T \in kSubset(TopN, clusters) :
            \A c \in T, d \in clusters \ T : c.density >= d.density
    BY <2>1, <2>3 DEF kSubset
  <2>5. Top(clusters) \in kSubset(TopN, clusters)
    BY <1>3, <2>4 DEF Top
  <2>6. Top(clusters) \subseteq clusters /\ Cardinality(Top(clusters)) = TopN
    BY <2>5 DEF kSubset
  <2>7. QED
    BY <1>1, <2>6
<1>4. QED
  BY <1>2, <1>3

(* The cores that are linked to a core. *)
LinkFun(f, c, core) ==
  f = [n \in Nat |-> IF n = 0 THEN {c}
                     ELSE f[n - 1] \cup UNION {Neighborhood(d) \cap core : d \in f[n - 1]}]

Linked(c, core) == (CHOOSE f : LinkFun(f, c, core))[Cardinality(Cells)]

Closed(s, core) == \A d \in s : Neighborhood(d) \cap core \subseteq s

Links(g, c, core) ==
  /\ g[0] = {c}
  /\ \A n \in Nat : /\ g[n] \in SUBSET core
                    /\ g[n + 1] = g[n] \cup UNION {Neighborhood(d) \cap core : d \in g[n]}
  /\ Linked(c, core) = g[Cardinality(Cells)]

LEMMA LinksExist ==
  ASSUME NEW core \in SUBSET Cells, NEW c \in core
  PROVE  \E g : Links(g, c, core)
<1> DEFINE next(s) == s \cup UNION {Neighborhood(d) \cap core : d \in s}
<1>1. PICK D : D = SUBSET core
  OBVIOUS
<1>2. ASSUME NEW s \in D PROVE next(s) \in D
  BY <1>1
<1>3. PICK f : /\ f \in [Nat -> D] /\ f[0] = {c} /\ \A n \in Nat : f[n + 1] = next(f[n])
  <2>1. PICK zero \in D : zero = {c}
    BY <1>1
  <2> HIDE DEF next
  <2>2. PICK step \in [D -> D] : \A s \in D : step[s] = next(s)
    <3>1. [s \in D |-> next(s)] \in [D -> D]
      BY <1>2
    <3>2. QED
      BY <3>1
  <2>3. PICK g : Iterates(g, D, zero, step)
    BY Iteration
  <2>4. g \in [Nat -> D] /\ g[0] = zero /\ \A n \in Nat : g[n + 1] = next(g[n])
    BY <2>2, <2>3 DEF Iterates
  <2>5. QED
    BY <2>1, <2>4
<1>4. ASSUME NEW h \in Nat PROVE f[h] = IF h = 0 THEN {c} ELSE next(f[h - 1])
  <2>1. CASE h # 0
    <3>1. h - 1 \in Nat /\ (h - 1) + 1 = h
      BY <2>1
    <3>2. f[h] = next(f[h - 1])
      BY <1>3, <3>1
    <3>3. QED
      BY <2>1, <3>2
  <2>2. QED
    BY <1>3, <2>1
<1>5. LinkFun(f, c, core)
  <2>1. f = [h \in Nat |-> f[h]]
    BY <1>3
  <2>2. QED
    BY <1>4, <2>1 DEF LinkFun
<1>6. PICK g : g = CHOOSE x : LinkFun(x, c, core)
  OBVIOUS
<1>7. LinkFun(g, c, core)
  BY <1>5, <1>6
<1>8. \A h \in Nat : g[h] = IF h = 0 THEN {c} ELSE next(g[h - 1])
  BY <1>7 DEF LinkFun
<1>9. ASSUME NEW h \in Nat PROVE g[h + 1] = next(g[h])
  <2>1. h + 1 \in Nat /\ h + 1 # 0 /\ (h + 1) - 1 = h
    OBVIOUS
  <2> HIDE DEF next
  <2>2. QED
    BY <1>8, <2>1
<1>10. g[0] = {c}
  BY <1>8
<1>11. \A h \in Nat : g[h] \in SUBSET core
  <2> DEFINE T == {h \in Nat : g[h] \in SUBSET core}
  <2>1. 0 \in T
    BY <1>10
  <2>2. ASSUME NEW h \in T PROVE h + 1 \in T
    BY <1>9
  <2>3. T \in SUBSET Nat
    OBVIOUS
  <2> HIDE DEF T
  <2>4. T = Nat
    BY <2>1, <2>2, <2>3, Induction
  <2>5. QED
    BY <2>4 DEF T
<1>12. QED
  BY <1>6, <1>9, <1>10, <1>11 DEF Links, Linked

(* So many steps as there are cells reach everything that can be reached. *)
LEMMA LinkedClosed ==
  ASSUME NEW core \in SUBSET Cells, NEW c \in core
  PROVE  c \in Linked(c, core) /\ Linked(c, core) \in SUBSET core /\ Closed(Linked(c, core), core)
<1>1. PICK g : Links(g, c, core)
  BY LinksExist
<1>2. /\ g[0] = {c} /\ Linked(c, core) = g[Cardinality(Cells)]
      /\ \A n \in Nat : /\ g[n] \in SUBSET core
                        /\ g[n + 1] = g[n] \cup UNION {Neighborhood(d) \cap core : d \in g[n]}
  BY <1>1 DEF Links
<1>3. IsFiniteSet(Cells) /\ Cardinality(Cells) \in Nat
  BY HotspotAssumption, FS_CardinalityType
<1>4. ASSUME NEW n \in Nat
      PROVE  /\ IsFiniteSet(g[n]) /\ Cardinality(g[n]) \in Nat
             /\ Cardinality(g[n]) <= Cardinality(Cells)
  <2>1. g[n] \in SUBSET Cells
    BY <1>2
  <2>2. QED
    BY <1>3, <2>1, FS_Subset, FS_CardinalityType
<1> DEFINE T == {n \in Nat : c \in g[n] /\ (g[n + 1] = g[n] \/ Cardinality(g[n]) >= n + 1)}
<1>5. 0 \in T
  <2>1. Cardinality({c}) = 1
    BY FS_Singleton
  <2>2. c \in g[0] /\ Cardinality(g[0]) = 1
    BY <1>2, <2>1
  <2>3. Cardinality(g[0]) >= 0 + 1
    BY <2>2
  <2>4. QED
    BY <2>2, <2>3
<1>6. ASSUME NEW n \in T PROVE n + 1 \in T
  <2>1. n \in Nat /\ n + 1 \in Nat /\ c \in g[n] /\ (g[n + 1] = g[n] \/ Cardinality(g[n]) >= n + 1)
    OBVIOUS
  <2>2. g[n] \subseteq g[n + 1]
    BY <1>2, <2>1
  <2>3. CASE g[n + 1] = g[n]
    <3>1. g[(n + 1) + 1] = g[n + 1]
      BY <1>2, <2>1, <2>3
    <3>2. QED
      BY <2>1, <2>3, <3>1
  <2>4. CASE g[n + 1] # g[n]
    <3>1. /\ IsFiniteSet(g[n + 1]) /\ Cardinality(g[n + 1]) \in Nat
          /\ Cardinality(g[n]) \in Nat
      BY <1>4, <2>1
    <3>2. Cardinality(g[n]) <= Cardinality(g[n + 1]) /\ Cardinality(g[n + 1]) # Cardinality(g[n])
      BY <2>2, <2>4, <3>1, FS_Subset
    <3>3. Cardinality(g[n + 1]) >= (n + 1) + 1
      BY <2>1, <2>4, <3>1, <3>2
    <3>4. QED
      BY <2>1, <2>2, <3>3
  <2>5. QED
    BY <2>3, <2>4
<1>7. T \in SUBSET Nat
  OBVIOUS
<1> HIDE DEF T
<1>8. T = Nat
  BY <1>5, <1>6, <1>7, Induction
<1>9. PICK k \in Nat : k = Cardinality(Cells)
  BY <1>3
<1>10. c \in g[k] /\ (g[k + 1] = g[k] \/ Cardinality(g[k]) >= k + 1)
  BY <1>8 DEF T
<1>11. g[k + 1] = g[k]
  <2>1. Cardinality(g[k]) \in Nat /\ Cardinality(g[k]) <= k
    BY <1>4, <1>9
  <2>2. QED
    BY <1>10, <2>1
<1>12. Closed(g[k], core)
  BY <1>2, <1>11 DEF Closed
<1>13. QED
  BY <1>2, <1>9, <1>10, <1>12

LEMMA LinkedLeast ==
  ASSUME NEW core \in SUBSET Cells, NEW c \in core, NEW s, c \in s, Closed(s, core)
  PROVE  Linked(c, core) \subseteq s
<1>1. PICK g : Links(g, c, core)
  BY LinksExist
<1>2. /\ g[0] = {c} /\ Linked(c, core) = g[Cardinality(Cells)]
      /\ \A n \in Nat : g[n + 1] = g[n] \cup UNION {Neighborhood(d) \cap core : d \in g[n]}
  BY <1>1 DEF Links
<1> DEFINE T == {n \in Nat : g[n] \subseteq s}
<1>3. 0 \in T
  BY <1>2
<1>4. ASSUME NEW n \in T PROVE n + 1 \in T
  BY <1>2 DEF Closed
<1>5. T \in SUBSET Nat
  OBVIOUS
<1> HIDE DEF T
<1>6. T = Nat
  BY <1>3, <1>4, <1>5, Induction
<1>7. Cardinality(Cells) \in Nat
  BY HotspotAssumption, FS_CardinalityType
<1>8. QED
  BY <1>2, <1>6, <1>7 DEF T

LEMMA NeighborsBoth ==
  ASSUME NEW c \in Cells, NEW d \in Cells, d \in Neighborhood(c)
  PROVE  c \in Neighborhood(d)
<1>1. {c, d} = {d, c}
  OBVIOUS
<1>2. QED
  BY <1>1 DEF Neighborhood

(* Linked to the same or to nothing in common. *)
LEMMA LinkedApart ==
  ASSUME NEW core \in SUBSET Cells, NEW c \in core, NEW d \in core,
         NEW x \in Linked(c, core) \cap Linked(d, core)
  PROVE  Linked(c, core) = Linked(d, core)
<1>1. ASSUME NEW a \in core, NEW b \in Linked(a, core)
      PROVE  b \in core /\ Linked(b, core) = Linked(a, core)
  <2>1. /\ a \in Linked(a, core) /\ Linked(a, core) \in SUBSET core
        /\ Closed(Linked(a, core), core)
    BY LinkedClosed
  <2>2. b \in core
    BY <2>1
  <2>3. Linked(b, core) \subseteq Linked(a, core)
    BY <2>1, <2>2, LinkedLeast
  <2>4. /\ b \in Linked(b, core) /\ Linked(b, core) \in SUBSET core
        /\ Closed(Linked(b, core), core)
    BY <2>2, LinkedClosed
  <2>5. a \in Linked(b, core)
    <3> SUFFICES ASSUME a \notin Linked(b, core) PROVE FALSE
      OBVIOUS
    <3>1. PICK s : s = core \ Linked(b, core)
      OBVIOUS
    <3>2. Closed(s, core)
      <4>1. ASSUME NEW y \in s, NEW z \in Neighborhood(y) \cap core PROVE z \in s
        <5> SUFFICES ASSUME z \in Linked(b, core) PROVE FALSE
          BY <3>1
        <5>1. y \in Neighborhood(z) /\ y \in core
          BY <3>1, NeighborsBoth
        <5>2. y \in Linked(b, core)
          BY <2>4, <5>1 DEF Closed
        <5>3. QED
          BY <3>1, <5>2
      <4>2. QED
        BY <4>1 DEF Closed
    <3>3. Linked(a, core) \subseteq s
      BY <3>1, <3>2, LinkedLeast
    <3>4. QED
      BY <2>4, <3>1, <3>3
  <2>6. Linked(a, core) \subseteq Linked(b, core)
    BY <2>4, <2>5, LinkedLeast
  <2>7. QED
    BY <2>2, <2>3, <2>6
<1>2. Linked(x, core) = Linked(c, core) /\ Linked(x, core) = Linked(d, core)
  BY <1>1
<1>3. QED
  BY <1>2

\* The parts of DBSCAN.
Core(counts) ==
  {c \in Cells : counts[c] > 0 /\ SumFunctionOnSet(counts, Neighborhood(c)) >= MinSamples}

Edge(counts, core) ==
  {c \in Cells \ core : counts[c] > 0 /\ Neighborhood(c) \cap core # {}}

Home(e, core) == CHOOSE d \in core : d \in Neighborhood(e)

Group(c, core, edge) ==
  Linked(c, core) \cup {e \in edge : Home(e, core) \in Linked(c, core)}

ClusterOf(counts, cells) == [cells |-> cells, density |-> SumFunctionOnSet(counts, cells)]

LEMMA DbscanGroups ==
  ASSUME NEW counts, NEW core, core = Core(counts), NEW edge, edge = Edge(counts, core)
  PROVE  Dbscan(counts) = {ClusterOf(counts, Group(c, core, edge)) : c \in core}
BY DEF Dbscan, Linked, LinkFun, Core, Edge, Home, Group, ClusterOf

(* A cell is of one group. *)
LEMMA GroupsApart ==
  ASSUME NEW core \in SUBSET Cells, NEW edge \in SUBSET (Cells \ core),
         NEW c \in core, NEW d \in core,
         NEW x \in Group(c, core, edge) \cap Group(d, core, edge)
  PROVE  Group(c, core, edge) = Group(d, core, edge)
<1>1. Linked(c, core) \in SUBSET core /\ Linked(d, core) \in SUBSET core
  BY LinkedClosed
<1>2. CASE x \in core
  <2>1. x \in Linked(c, core) \cap Linked(d, core)
    BY <1>2 DEF Group
  <2>2. Linked(c, core) = Linked(d, core)
    BY <2>1, LinkedApart
  <2>3. QED
    BY <2>2 DEF Group
<1>3. CASE x \notin core
  <2>1. Home(x, core) \in Linked(c, core) \cap Linked(d, core)
    BY <1>1, <1>3 DEF Group
  <2>2. Linked(c, core) = Linked(d, core)
    BY <2>1, LinkedApart
  <2>3. QED
    BY <2>2 DEF Group
<1>4. QED
  BY <1>2, <1>3

LEMMA DbscanGood ==
  ASSUME NEW counts \in [Cells -> Nat]
  PROVE  /\ Apart(Dbscan(counts)) /\ Summing(Dbscan(counts), counts)
         /\ Records(Dbscan(counts))
<1>1. PICK core : core = Core(counts)
  OBVIOUS
<1>2. PICK edge : edge = Edge(counts, core)
  OBVIOUS
<1>3. core \in SUBSET Cells /\ edge \in SUBSET (Cells \ core)
  BY <1>1, <1>2 DEF Core, Edge
<1>4. PICK found : found = Dbscan(counts)
  OBVIOUS
<1>5. found = {ClusterOf(counts, Group(c, core, edge)) : c \in core}
  BY <1>1, <1>2, <1>4, DbscanGroups
<1>6. \A c \in core : Group(c, core, edge) \in SUBSET Cells
  <2>1. \A c \in core : Linked(c, core) \in SUBSET core
    BY <1>3, LinkedClosed
  <2>2. QED
    BY <1>3, <2>1 DEF Group
<1>7. ASSUME NEW k \in found
      PROVE  /\ \E c \in core : k.cells = Group(c, core, edge)
             /\ k.density = SumFunctionOnSet(counts, k.cells)
             /\ k = ClusterOf(counts, k.cells)
  <2>1. PICK c \in core : k = ClusterOf(counts, Group(c, core, edge))
    BY <1>5
  <2>2. /\ k.cells = Group(c, core, edge)
        /\ k.density = SumFunctionOnSet(counts, Group(c, core, edge))
    BY <2>1 DEF ClusterOf
  <2>3. QED
    BY <2>1, <2>2
<1>8. Summing(found, counts)
  BY <1>6, <1>7 DEF Summing
<1>9. Records(found)
  BY <1>7 DEF Records, ClusterOf
<1>10. Apart(found)
  <2>1. ASSUME NEW k \in found, NEW l \in found, k.cells \cap l.cells # {} PROVE k = l
    <3>1. PICK c \in core : k.cells = Group(c, core, edge)
      BY <1>7
    <3>2. PICK d \in core : l.cells = Group(d, core, edge)
      BY <1>7
    <3>3. PICK x : x \in Group(c, core, edge) \cap Group(d, core, edge)
      BY <2>1, <3>1, <3>2
    <3>4. Group(c, core, edge) = Group(d, core, edge)
      BY <1>3, <3>3, GroupsApart
    <3>5. QED
      BY <1>7, <3>1, <3>2, <3>4
  <2>2. QED
    BY <2>1 DEF Apart
<1>11. QED
  BY <1>4, <1>8, <1>9, <1>10

(* With a cluster of its own for each cell that is left, every point is in one. *)
LEMMA WithTheRest ==
  ASSUME NEW counts \in [Cells -> Nat], NEW found,
         Apart(found), Summing(found, counts), Records(found),
         NEW rest, rest = Cells \ UNION {c.cells : c \in found},
         NEW clusters, clusters = found \cup Singletons(counts, rest)
  PROVE  /\ Apart(clusters) /\ Summing(clusters, counts) /\ Records(clusters)
         /\ Covering(clusters, counts)
<1>1. ASSUME NEW c \in Cells PROVE SumFunctionOnSet(counts, {c}) = counts[c]
  <2>1. IsFiniteSet(Cells) /\ IntsOn(counts, Cells)
    BY HotspotAssumption DEF IntsOn
  <2>2. SumsUp(counts, Cells)
    BY <2>1, Sums
  <2>3. {} \in SUBSET Cells /\ c \in Cells \ {} /\ {} \cup {c} = {c}
    OBVIOUS
  <2>4. /\ SumFunctionOnSet(counts, {}) = 0
        /\ SumFunctionOnSet(counts, {} \cup {c}) = counts[c] + SumFunctionOnSet(counts, {})
    BY <2>2, <2>3 DEF SumsUp
  <2>5. PICK n \in Nat : n = counts[c]
    OBVIOUS
  <2>6. n + 0 = n
    OBVIOUS
  <2>7. QED
    BY <2>3, <2>4, <2>5, <2>6
<1>2. ASSUME NEW k \in Singletons(counts, rest)
      PROVE  \E c \in rest : k = [cells |-> {c}, density |-> counts[c]]
  BY DEF Singletons
<1>3. ASSUME NEW k \in Singletons(counts, rest)
      PROVE  /\ \E c \in rest : k.cells = {c}
             /\ k.cells \in SUBSET Cells
             /\ k.density = SumFunctionOnSet(counts, k.cells)
             /\ k = [cells |-> k.cells, density |-> k.density]
  <2>1. PICK c \in rest : k = [cells |-> {c}, density |-> counts[c]]
    BY <1>2
  <2>2. k.cells = {c} /\ k.density = counts[c] /\ c \in Cells
    BY <2>1
  <2>3. k = [cells |-> k.cells, density |-> k.density]
    BY <2>1, <2>2
  <2>4. QED
    BY <1>1, <2>2, <2>3
<1>4. Summing(clusters, counts)
  BY <1>3 DEF Summing
<1>5. Records(clusters)
  BY <1>3 DEF Records
<1>6. Apart(clusters)
  <2>1. ASSUME NEW k \in clusters, NEW l \in clusters PROVE k = l \/ k.cells \cap l.cells = {}
    <3>1. CASE k \in found /\ l \in found
      BY <3>1 DEF Apart
    <3>2. CASE k \in found /\ l \in Singletons(counts, rest)
      BY <1>3, <3>2
    <3>3. CASE k \in Singletons(counts, rest) /\ l \in found
      BY <1>3, <3>3
    <3>4. CASE k \in Singletons(counts, rest) /\ l \in Singletons(counts, rest)
      <4>1. PICK c \in rest : k = [cells |-> {c}, density |-> counts[c]]
        BY <1>2, <3>4
      <4>2. PICK d \in rest : l = [cells |-> {d}, density |-> counts[d]]
        BY <1>2, <3>4
      <4>3. CASE c = d
        BY <4>1, <4>2, <4>3
      <4>4. CASE c # d
        <5>1. k.cells = {c} /\ l.cells = {d}
          BY <4>1, <4>2
        <5>2. QED
          BY <4>4, <5>1
      <4>5. QED
        BY <4>3, <4>4
    <3>5. QED
      BY <3>1, <3>2, <3>3, <3>4
  <2>2. QED
    BY <2>1 DEF Apart
<1>7. Covering(clusters, counts)
  <2>1. ASSUME NEW x \in Cells, counts[x] > 0 PROVE \E k \in clusters : x \in k.cells
    <3>1. CASE x \in rest
      <4>1. PICK k : k = [cells |-> {x}, density |-> counts[x]]
        OBVIOUS
      <4>2. k \in Singletons(counts, rest) /\ k.cells = {x}
        BY <2>1, <3>1, <4>1 DEF Singletons
      <4>3. QED
        BY <4>2
    <3>2. CASE x \notin rest
      BY <3>2
    <3>3. QED
      BY <3>1, <3>2
  <2>2. QED
    BY <2>1 DEF Covering
<1>8. QED
  BY <1>4, <1>5, <1>6, <1>7

\* What an answer promises of its clusters.
Counted(clusters, points) ==
  /\ \A c, d \in clusters : c = d \/ c.cells \cap d.cells = {}
  /\ Cardinality(clusters) < TopN =>
        SumFunctionOnSet([c \in clusters |-> c.density], clusters) = points

LEMMA GoodIsCounted ==
  ASSUME NEW counts \in [Cells -> Nat], NEW clusters,
         Apart(clusters), Summing(clusters, counts), Records(clusters),
         Covering(clusters, counts)
  PROVE  /\ Counted(clusters, PointCount(counts))
         /\ Counted(Top(clusters), PointCount(counts))
<1>1. IsFiniteSet(clusters)
  BY ClustersFinite
<1>2. SumFunctionOnSet([c \in clusters |-> c.density], clusters) = PointCount(counts)
  BY <1>1, DensitiesAddUp
<1>3. ASSUME NEW c \in clusters PROVE c.density \in Nat
  <2>1. c.cells \in SUBSET Cells /\ c.density = SumFunctionOnSet(counts, c.cells)
    BY DEF Summing
  <2>2. IsFiniteSet(c.cells) /\ \A x \in c.cells : counts[x] \in Nat
    BY <2>1, HotspotAssumption, FS_Subset
  <2>3. SumFunctionOnSet(counts, c.cells) \in Nat
    BY <2>2, SumNat
  <2>4. QED
    BY <2>1, <2>3
<1>4. PICK top : top = Top(clusters)
  OBVIOUS
<1>5. /\ top \subseteq clusters
      /\ Cardinality(top) < TopN => top = clusters
  BY <1>1, <1>3, <1>4, TopTakes
<1>6. Counted(clusters, PointCount(counts))
  BY <1>2 DEF Counted, Apart
<1>7. Counted(top, PointCount(counts))
  BY <1>2, <1>5 DEF Counted, Apart
<1>8. QED
  BY <1>4, <1>6, <1>7

(* The clusters of any events count each of them once. *)
LEMMA ClusterCounts ==
  ASSUME NEW counts \in [Cells -> Nat]
  PROVE  Counted(Cluster(counts), PointCount(counts))
<1>1. CASE PointCount(counts) < MinSamples
  <2>1. Apart({}) /\ Summing({}, counts) /\ Records({})
    BY DEF Apart, Summing, Records
  <2>2. PICK rest : rest = Cells \ UNION {c.cells : c \in {}}
    OBVIOUS
  <2>3. PICK clusters : clusters = {} \cup Singletons(counts, rest)
    OBVIOUS
  <2>4. /\ Apart(clusters) /\ Summing(clusters, counts) /\ Records(clusters)
        /\ Covering(clusters, counts)
    BY <2>1, <2>2, <2>3, WithTheRest
  <2>5. Counted(clusters, PointCount(counts))
    BY <2>4, GoodIsCounted
  <2>6. rest = Cells
    BY <2>2
  <2>7. Cluster(counts) = clusters
    BY <1>1, <2>3, <2>6 DEF Cluster
  <2>8. QED
    BY <2>5, <2>7
<1>2. CASE ~(PointCount(counts) < MinSamples)
  <2>1. PICK found : found = Dbscan(counts)
    OBVIOUS
  <2>2. Apart(found) /\ Summing(found, counts) /\ Records(found)
    BY <2>1, DbscanGood
  <2>3. PICK rest : rest = Cells \ UNION {c.cells : c \in found}
    OBVIOUS
  <2>4. PICK clusters : clusters = found \cup Singletons(counts, rest)
    OBVIOUS
  <2>5. /\ Apart(clusters) /\ Summing(clusters, counts) /\ Records(clusters)
        /\ Covering(clusters, counts)
    BY <2>2, <2>3, <2>4, WithTheRest
  <2>6. Counted(Top(clusters), PointCount(counts))
    BY <2>5, GoodIsCounted
  <2>7. Cluster(counts) = Top(clusters)
    BY <1>2, <2>1, <2>3, <2>4 DEF Cluster
  <2>8. QED
    BY <2>6, <2>7
<1>3. QED
  BY <1>1, <1>2

\* What the monitor says of the events it has.
Tells(x) ==
  /\ x.source # "poisson_glm" => x.clusters # {}
  /\ x.source = "live_dbscan" => Counted(x.clusters, x.points)

Row == [cell : Cells, at : EventTimes, active : BOOLEAN]

LEMMA ComputedTells ==
  ASSUME events \in Seq(Row)
  PROVE  Tells(Computed)
<1>1. ObservableCounts \in [Cells -> Nat]
  <2>1. ASSUME NEW c \in Cells
        PROVE  Cardinality({n \in DOMAIN events : events[n].cell = c /\
                              (events[n].active \/ events[n].at >= now - Day)}) \in Nat
    <3>1. PICK S : S = {n \in DOMAIN events : events[n].cell = c /\
                              (events[n].active \/ events[n].at >= now - Day)}
      OBVIOUS
    <3>2. DOMAIN events = 1 .. Len(events) /\ Len(events) \in Nat
      OBVIOUS
    <3>3. IsFiniteSet(1 .. Len(events))
      BY <3>2, FS_Interval
    <3>4. IsFiniteSet(S)
      BY <3>1, <3>2, <3>3, FS_Subset
    <3>5. QED
      BY <3>1, <3>4, FS_CardinalityType
  <2>2. QED
    BY <2>1 DEF ObservableCounts
<1>2. PICK live : live = Cluster(ObservableCounts)
  OBVIOUS
<1>3. PICK past : past = Cluster(HistoricalCounts)
  OBVIOUS
<1>4. PICK points : points = PointCount(ObservableCounts)
  OBVIOUS
<1>5. Counted(live, points)
  BY <1>1, <1>2, <1>4, ClusterCounts
<1>6. Computed = IF live # {} THEN [source |-> "live_dbscan", clusters |-> live, points |-> points]
                 ELSE IF past # {}
                 THEN [source |-> "historical_fallback", clusters |-> past, points |-> points]
                 ELSE [source |-> "static_tier3", clusters |-> Blackspots, points |-> points]
  BY <1>2, <1>3, <1>4 DEF Computed
<1>7. Blackspots # {}
  BY DEF Blackspots
<1>8. CASE live # {}
  <2>1. Computed = [source |-> "live_dbscan", clusters |-> live, points |-> points]
    BY <1>6, <1>8
  <2>2. QED
    BY <1>5, <1>8, <2>1 DEF Tells
<1>9. CASE live = {} /\ past # {}
  <2>1. Computed = [source |-> "historical_fallback", clusters |-> past, points |-> points]
    BY <1>6, <1>9
  <2>2. QED
    BY <1>9, <2>1 DEF Tells
<1>10. CASE live = {} /\ past = {}
  <2>1. Computed = [source |-> "static_tier3", clusters |-> Blackspots, points |-> points]
    BY <1>6, <1>10
  <2>2. QED
    BY <1>7, <2>1 DEF Tells
<1>11. QED
  BY <1>8, <1>9, <1>10

\* An entry of a cache was made before now and ends its period after it was made.
EntryOf(k, e) ==
  e # NoEntry => /\ e.made \in Nat /\ e.made <= now
                 /\ e.expires = e.made + Ttl(k)
                 /\ Tells(e)

CacheInv ==
  /\ now \in Nat
  /\ events \in Seq(Row)
  /\ DOMAIN memory = Keys /\ DOMAIN redis = Keys
  /\ \A k \in Keys : EntryOf(k, memory[k]) /\ EntryOf(k, redis[k])

FreshAnswer(answer) ==
  answer # NoAnswer =>
    /\ answer.entry.made = answer.at \/ (answer.entry.made < answer.at
                                         /\ answer.at - answer.entry.made < answer.ttl)
    /\ Tells(answer.entry)

LEMMA FreshMeans == FreshAnswer(served) <=> ObservedIsFresh
BY DEF FreshAnswer, ObservedIsFresh, Tells, Counted

LEMMA CacheInit == HotspotInit => CacheInv /\ FreshAnswer(served)
<1> SUFFICES ASSUME HotspotInit PROVE CacheInv /\ FreshAnswer(served)
  OBVIOUS
<1>1. now \in Nat /\ events \in Seq(Row)
  BY DEF HotspotInit
<1>2. \A k \in Keys : EntryOf(k, memory[k]) /\ EntryOf(k, redis[k])
  BY DEF HotspotInit, EntryOf
<1>3. QED
  BY <1>1, <1>2 DEF HotspotInit, CacheInv, FreshAnswer

LEMMA IngestKeepsCache ==
  ASSUME CacheInv, NEW cell \in Cells, NEW at \in EventTimes, Ingest(cell, at)
  PROVE  CacheInv'
<1>1. [cell |-> cell, at |-> at, active |-> TRUE] \in Row
  BY DEF Row
<1>2. events' = Append(events, [cell |-> cell, at |-> at, active |-> TRUE])
  BY DEF Ingest
<1>3. events' \in Seq(Row)
  BY <1>1, <1>2 DEF CacheInv
<1>4. UNCHANGED <<now, memory, redis>>
  BY DEF Ingest
<1>5. QED
  BY <1>3, <1>4 DEF CacheInv, EntryOf

LEMMA CloseRowKeepsCache ==
  ASSUME CacheInv, NEW n \in DOMAIN events, CloseRow(n)
  PROVE  CacheInv'
<1>1. events \in Seq(Row) /\ events[n] \in Row
  BY DEF CacheInv
<1>2. PICK row : row = [events[n] EXCEPT !.active = FALSE]
  OBVIOUS
<1>3. row \in Row
  BY <1>1, <1>2 DEF Row
<1>4. events' = [events EXCEPT ![n] = row]
  BY <1>2 DEF CloseRow
<1>5. events' \in Seq(Row)
  BY <1>1, <1>3, <1>4
<1>6. UNCHANGED <<now, memory, redis>>
  BY DEF CloseRow
<1>7. QED
  BY <1>5, <1>6 DEF CacheInv, EntryOf

LEMMA TickKeepsCache ==
  ASSUME CacheInv, HotspotTick
  PROVE  CacheInv'
<1>1. now \in Nat /\ now' = now + 1 /\ UNCHANGED <<events, memory, redis>>
  BY DEF CacheInv, HotspotTick
<1>2. now' \in Nat /\ \A m \in Nat : m <= now => m <= now'
  BY <1>1
<1>3. QED
  BY <1>1, <1>2 DEF CacheInv, EntryOf

LEMMA CrashKeepsCache ==
  ASSUME CacheInv, HotspotCrash
  PROVE  CacheInv'
BY DEF CacheInv, HotspotCrash, EntryOf

LEMMA TtlType == \A k : Ttl(k) \in Nat
BY HotspotAssumption DEF Ttl

(* A request answers with what is fresh and leaves nothing else in the caches. *)
LEMMA GetAnswers ==
  ASSUME CacheInv, NEW k \in Keys, Get(k)
  PROVE  CacheInv' /\ FreshAnswer(served)'
<1>1. PICK up \in BOOLEAN :
        /\ memory' = [memory EXCEPT ![k] =
                        IF Found(k, up) # NoEntry THEN Kept(k, up)
                        ELSE Made(k, IF k = "observed" THEN Computed ELSE Forecast)]
        /\ redis' = IF Found(k, up) = NoEntry /\ up
                    THEN [redis EXCEPT ![k] =
                            Made(k, IF k = "observed" THEN Computed ELSE Forecast)]
                    ELSE redis
        /\ served' = [at |-> now, ttl |-> Ttl(k),
                      entry |-> IF Found(k, up) # NoEntry THEN Found(k, up)
                                ELSE Made(k, IF k = "observed" THEN Computed ELSE Forecast)]
        /\ UNCHANGED <<now, events>>
  BY DEF Get
<1>2. PICK computed : computed = IF k = "observed" THEN Computed ELSE Forecast
  OBVIOUS
<1>3. PICK made : made = Made(k, computed)
  OBVIOUS
<1>4. PICK found : found = Found(k, up)
  OBVIOUS
<1>5. PICK kept : kept = Kept(k, up)
  OBVIOUS
<1>6. /\ memory' = [memory EXCEPT ![k] = IF found # NoEntry THEN kept ELSE made]
      /\ redis' = IF found = NoEntry /\ up THEN [redis EXCEPT ![k] = made] ELSE redis
      /\ served' = [at |-> now, ttl |-> Ttl(k),
                    entry |-> IF found # NoEntry THEN found ELSE made]
      /\ now' = now /\ events' = events
  BY <1>1, <1>2, <1>3, <1>4, <1>5
<1>7. /\ now \in Nat /\ events \in Seq(Row)
      /\ DOMAIN memory = Keys /\ DOMAIN redis = Keys
      /\ \A l \in Keys : EntryOf(l, memory[l]) /\ EntryOf(l, redis[l])
  BY DEF CacheInv
<1>8. Tells(computed)
  <2>1. Tells(Computed)
    BY <1>7, ComputedTells
  <2>2. Tells(Forecast)
    BY DEF Tells, Forecast
  <2>3. QED
    BY <1>2, <2>1, <2>2
<1>9. made.made = now /\ made.expires = now + Ttl(k) /\ Tells(made)
  <2>1. /\ made.source = computed.source /\ made.clusters = computed.clusters
        /\ made.points = computed.points
        /\ made.made = now /\ made.expires = now + Ttl(k)
    BY <1>3 DEF Made
  <2>2. QED
    BY <1>8, <2>1 DEF Tells
<1>10. EntryOf(k, made)
  BY <1>7, <1>9 DEF EntryOf
<1>11. EntryOf(k, kept)
  <2>1. kept = memory[k] \/ kept = NoEntry
    BY <1>5 DEF Kept
  <2>2. QED
    BY <1>7, <2>1 DEF EntryOf
<1>12. EntryOf(k, found) /\ (found # NoEntry => now < found.expires)
  <2>1. found = NoEntry \/ (found = memory[k] /\ Valid(found))
                        \/ (found = redis[k] /\ Valid(found))
    BY <1>4 DEF Found
  <2>2. QED
    BY <1>7, <2>1 DEF EntryOf, Valid
<1>13. CacheInv'
  <2>1. PICK put : put = IF found # NoEntry THEN kept ELSE made
    OBVIOUS
  <2>2. EntryOf(k, put)
    BY <1>10, <1>11, <2>1
  <2>3. memory' = [memory EXCEPT ![k] = put]
    BY <1>6, <2>1
  <2>4. DOMAIN memory' = Keys /\ \A l \in Keys : EntryOf(l, memory'[l])
    BY <1>7, <2>2, <2>3
  <2>5. DOMAIN redis' = Keys /\ \A l \in Keys : EntryOf(l, redis'[l])
    <3>1. CASE found = NoEntry /\ up
      <4>1. redis' = [redis EXCEPT ![k] = made]
        BY <1>6, <3>1
      <4>2. QED
        BY <1>7, <1>10, <4>1
    <3>2. CASE ~(found = NoEntry /\ up)
      <4>1. redis' = redis
        BY <1>6, <3>2
      <4>2. QED
        BY <1>7, <4>1
    <3>3. QED
      BY <3>1, <3>2
  <2>6. QED
    BY <1>6, <1>7, <2>4, <2>5 DEF CacheInv, EntryOf
<1>14. FreshAnswer(served)'
  <2>1. PICK entry : entry = IF found # NoEntry THEN found ELSE made
    OBVIOUS
  <2>2. served' = [at |-> now, ttl |-> Ttl(k), entry |-> entry]
    BY <1>6, <2>1
  <2>3. /\ entry.made = now \/ (entry.made < now /\ now - entry.made < Ttl(k))
        /\ Tells(entry)
    <3>1. CASE found # NoEntry
      <4>1. /\ found.made \in Nat /\ found.made <= now /\ found.expires = found.made + Ttl(k)
            /\ Tells(found) /\ now < found.expires
        BY <1>12, <3>1 DEF EntryOf
      <4>2. PICK m \in Nat, t \in Nat, n \in Nat : m = found.made /\ t = Ttl(k) /\ n = now
        BY <1>7, <4>1, TtlType
      <4>3. m <= n /\ n < m + t
        BY <4>1, <4>2
      <4>4. m = n \/ (m < n /\ n - m < t)
        BY <4>3
      <4>5. QED
        BY <2>1, <3>1, <4>1, <4>2, <4>4
    <3>2. CASE found = NoEntry
      BY <1>9, <2>1, <3>2
    <3>3. QED
      BY <3>1, <3>2
  <2>4. QED
    BY <2>2, <2>3 DEF FreshAnswer
<1>15. QED
  BY <1>13, <1>14

LEMMA FreshAlways == HotspotSpec => []ObservedIsFresh
<1>1. CacheInv /\ FreshAnswer(served) /\ [HotspotNext]_hotspotVars
        => CacheInv' /\ FreshAnswer(served)'
  <2> SUFFICES ASSUME CacheInv, FreshAnswer(served), [HotspotNext]_hotspotVars
               PROVE  CacheInv' /\ FreshAnswer(served)'
    OBVIOUS
  <2>1. ASSUME NEW cell \in Cells, NEW at \in EventTimes, Ingest(cell, at)
        PROVE  CacheInv' /\ FreshAnswer(served)'
    BY <2>1, IngestKeepsCache DEF Ingest, FreshAnswer
  <2>2. ASSUME NEW n \in DOMAIN events, CloseRow(n) PROVE CacheInv' /\ FreshAnswer(served)'
    BY <2>2, CloseRowKeepsCache DEF CloseRow, FreshAnswer
  <2>3. ASSUME NEW k \in Keys, Get(k) PROVE CacheInv' /\ FreshAnswer(served)'
    BY <2>3, GetAnswers
  <2>4. CASE HotspotTick
    BY <2>4, TickKeepsCache DEF HotspotTick, FreshAnswer
  <2>5. CASE HotspotCrash
    BY <2>5, CrashKeepsCache DEF HotspotCrash, FreshAnswer
  <2>6. CASE UNCHANGED hotspotVars
    BY <2>6 DEF hotspotVars, CacheInv, EntryOf, FreshAnswer
  <2>7. QED
    BY <2>1, <2>2, <2>3, <2>4, <2>5, <2>6 DEF HotspotNext
<1>2. QED
  BY <1>1, CacheInit, FreshMeans, PTL DEF HotspotSpec

------------------------------------------------------------------------------
(* The routes of M08: what a path costs.                                      *)

Ways == [path : Seq(Corridors), cost : Nat]

LEMMA WeightType ==
  ASSUME NEW a, NEW b
  PROVE  EdgeWeight(a, b) \in Nat
<1>1. ASSUME NEW c PROVE Centr(c) \in Nat
  <2>1. \A x \in DOMAIN CentralityOf : CentralityOf[x] \in 0 .. 100
    BY CorridorAssumption
  <2>2. c \in DOMAIN CentralityOf => CentralityOf[c] \in Nat
    BY <2>1
  <2>3. QED
    BY <2>2 DEF Centr
<1>2. PICK sum \in Nat : sum = Centr(a) + Centr(b)
  BY <1>1
<1>3. PICK d \in Nat : d = IF sum < 20 THEN 20 ELSE sum
  BY <1>2
<1>4. d >= 20
  BY <1>2, <1>3
<1>5. 1600000 \div d \in Nat
  BY <1>4, Division
<1>6. EdgeWeight(a, b) = 1600000 \div d
  BY <1>2, <1>3 DEF EdgeWeight
<1>7. QED
  BY <1>5, <1>6

\* What the first n corridors of a path cost.
CostTo(p, n) ==
  SumFunctionOnSet([m \in 2 .. Len(p) |-> EdgeWeight(p[m - 1], p[m])], 2 .. n)

Legs(p) ==
  /\ CostTo(p, 1) = 0
  /\ \A n \in 1 .. Len(p) - 1 : CostTo(p, n + 1) = CostTo(p, n) + EdgeWeight(p[n], p[n + 1])
  /\ \A n \in 1 .. Len(p) : CostTo(p, n) \in Nat

LEMMA LegsAddUp ==
  ASSUME NEW p \in Seq(Corridors)
  PROVE  Legs(p)
<1>1. PICK f : f = [m \in 2 .. Len(p) |-> EdgeWeight(p[m - 1], p[m])]
  OBVIOUS
<1>2. PICK S : S = 2 .. Len(p)
  OBVIOUS
<1>3. IsFiniteSet(S) /\ Len(p) \in Nat
  BY <1>2, FS_Interval
<1>4. \A m \in S : f[m] = EdgeWeight(p[m - 1], p[m]) /\ f[m] \in Nat
  BY <1>1, <1>2, WeightType
<1>5. SumsUp(f, S)
  <2>1. IntsOn(f, S)
    BY <1>4 DEF IntsOn
  <2>2. QED
    BY <1>3, <2>1, Sums
<1>6. \A n : CostTo(p, n) = SumFunctionOnSet(f, 2 .. n)
  BY <1>1 DEF CostTo
<1>7. CostTo(p, 1) = 0
  <2>1. 2 .. 1 = {}
    OBVIOUS
  <2>2. QED
    BY <1>5, <1>6, <2>1 DEF SumsUp
<1>8. ASSUME NEW n \in 1 .. Len(p) - 1
      PROVE  CostTo(p, n + 1) = CostTo(p, n) + EdgeWeight(p[n], p[n + 1])
  <2>1. /\ 2 .. n \in SUBSET S /\ n + 1 \in S \ (2 .. n)
        /\ 2 .. n + 1 = (2 .. n) \cup {n + 1} /\ (n + 1) - 1 = n
    BY <1>2, <1>3
  <2>2. SumFunctionOnSet(f, (2 .. n) \cup {n + 1}) = f[n + 1] + SumFunctionOnSet(f, 2 .. n)
    BY <1>5, <2>1 DEF SumsUp
  <2>3. SumFunctionOnSet(f, 2 .. n) \in Int
    BY <1>5, <2>1 DEF SumsUp
  <2>4. f[n + 1] = EdgeWeight(p[n], p[n + 1]) /\ f[n + 1] \in Nat
    BY <1>4, <2>1
  <2>5. PICK a \in Int, b \in Int : a = f[n + 1] /\ b = SumFunctionOnSet(f, 2 .. n)
    BY <2>3, <2>4
  <2>6. CostTo(p, n + 1) = a + b /\ CostTo(p, n) = b /\ EdgeWeight(p[n], p[n + 1]) = a
    BY <1>6, <2>1, <2>2, <2>4, <2>5
  <2>7. a + b = b + a
    OBVIOUS
  <2>8. QED
    BY <2>6, <2>7
<1>9. ASSUME NEW n \in 1 .. Len(p) PROVE CostTo(p, n) \in Nat
  <2> DEFINE T == {m \in Nat : m + 1 <= Len(p) => CostTo(p, m + 1) \in Nat}
  <2>1. 0 \in T
    <3>1. 0 + 1 = 1
      OBVIOUS
    <3>2. QED
      BY <1>7, <3>1
  <2>2. ASSUME NEW m \in T PROVE m + 1 \in T
    <3>1. CASE (m + 1) + 1 <= Len(p)
      <4>1. m + 1 \in 1 .. Len(p) - 1 /\ m + 1 <= Len(p)
        BY <1>3, <3>1
      <4>2. CostTo(p, (m + 1) + 1) = CostTo(p, m + 1) + EdgeWeight(p[m + 1], p[(m + 1) + 1])
        BY <1>8, <4>1
      <4>3. CostTo(p, m + 1) \in Nat /\ EdgeWeight(p[m + 1], p[(m + 1) + 1]) \in Nat
        BY <4>1, WeightType
      <4>4. QED
        BY <4>2, <4>3
    <3>2. CASE ~((m + 1) + 1 <= Len(p))
      BY <3>2
    <3>3. QED
      BY <3>1, <3>2
  <2>3. T \in SUBSET Nat
    OBVIOUS
  <2> HIDE DEF T
  <2>4. T = Nat
    BY <2>1, <2>2, <2>3, Induction
  <2>5. n - 1 \in Nat /\ (n - 1) + 1 = n /\ n <= Len(p)
    BY <1>3
  <2>6. n - 1 \in T
    BY <2>4, <2>5
  <2>7. QED
    BY <2>5, <2>6 DEF T
<1>10. QED
  BY <1>7, <1>8, <1>9 DEF Legs

LEMMA CostToAll ==
  ASSUME NEW p
  PROVE  PathCost(p) = CostTo(p, Len(p))
BY DEF PathCost, CostTo

\* Two paths that begin alike cost the same so far.
LEMMA SameBegin ==
  ASSUME NEW p \in Seq(Corridors), NEW q \in Seq(Corridors), NEW i \in Nat,
         i >= 1, i <= Len(p), i <= Len(q), \A n \in 1 .. i : p[n] = q[n]
  PROVE  CostTo(p, i) = CostTo(q, i)
<1> DEFINE T == {m \in Nat : m + 1 <= i => CostTo(p, m + 1) = CostTo(q, m + 1)}
<1>1. Legs(p) /\ Legs(q)
  BY LegsAddUp
<1>2. 0 \in T
  <2>1. 0 + 1 = 1
    OBVIOUS
  <2>2. QED
    BY <1>1, <2>1 DEF Legs
<1>3. ASSUME NEW m \in T PROVE m + 1 \in T
  <2>1. CASE (m + 1) + 1 <= i
    <3>1. /\ m + 1 \in 1 .. Len(p) - 1 /\ m + 1 \in 1 .. Len(q) - 1 /\ m + 1 <= i
          /\ m + 1 \in 1 .. i /\ (m + 1) + 1 \in 1 .. i
      BY <2>1
    <3>2. p[m + 1] = q[m + 1] /\ p[(m + 1) + 1] = q[(m + 1) + 1]
          /\ CostTo(p, m + 1) = CostTo(q, m + 1)
      BY <3>1
    <3>3. /\ CostTo(p, (m + 1) + 1) = CostTo(p, m + 1) + EdgeWeight(p[m + 1], p[(m + 1) + 1])
          /\ CostTo(q, (m + 1) + 1) = CostTo(q, m + 1) + EdgeWeight(q[m + 1], q[(m + 1) + 1])
      BY <1>1, <3>1 DEF Legs
    <3>4. QED
      BY <3>2, <3>3
  <2>2. CASE ~((m + 1) + 1 <= i)
    BY <2>2
  <2>3. QED
    BY <2>1, <2>2
<1>4. T \in SUBSET Nat
  OBVIOUS
<1> HIDE DEF T
<1>5. T = Nat
  BY <1>2, <1>3, <1>4, Induction
<1>6. i - 1 \in T /\ (i - 1) + 1 = i
  BY <1>5
<1>7. QED
  BY <1>6 DEF T

\* A path that goes on from where another one is costs as much as both.
LEMMA JoinCost ==
  ASSUME NEW p \in Seq(Corridors), NEW s \in Seq(Corridors), NEW q \in Seq(Corridors),
         NEW i \in Nat, i >= 1, i <= Len(p), Len(s) >= 1, Len(q) = (i - 1) + Len(s),
         \A n \in 1 .. i : q[n] = p[n],
         \A n \in 1 .. Len(s) : q[(i - 1) + n] = s[n]
  PROVE  PathCost(q) = CostTo(p, i) + PathCost(s)
<1> DEFINE T == {m \in Nat : m + 1 <= Len(s) =>
                   CostTo(q, i + m) = CostTo(p, i) + CostTo(s, m + 1)}
<1>1. Legs(p) /\ Legs(q) /\ Legs(s) /\ Len(s) \in Nat /\ Len(q) \in Nat /\ Len(p) \in Nat
  BY LegsAddUp
<1>2. 0 \in T
  <2>1. 0 + 1 = 1 /\ i + 0 = i /\ i <= Len(q) /\ i \in 1 .. Len(p)
    BY <1>1
  <2>2. CostTo(s, 1) = 0 /\ CostTo(p, i) \in Nat
    BY <1>1, <2>1 DEF Legs
  <2>3. CostTo(q, i) = CostTo(p, i)
    BY <2>1, SameBegin
  <2>4. QED
    BY <2>1, <2>2, <2>3
<1>3. ASSUME NEW m \in T PROVE m + 1 \in T
  <2>1. CASE (m + 1) + 1 <= Len(s)
    <3>1. /\ m + 1 \in 1 .. Len(s) - 1 /\ i + m \in 1 .. Len(q) - 1 /\ m + 1 <= Len(s)
          /\ m + 1 \in 1 .. Len(s) /\ (m + 1) + 1 \in 1 .. Len(s) /\ i \in 1 .. Len(p)
          /\ i + (m + 1) = (i + m) + 1
      BY <1>1, <2>1
    <3>2. /\ (i - 1) + (m + 1) = i + m /\ (i - 1) + ((m + 1) + 1) = (i + m) + 1
      OBVIOUS
    <3>3. q[i + m] = s[m + 1] /\ q[(i + m) + 1] = s[(m + 1) + 1]
      BY <3>1, <3>2
    <3>4. /\ CostTo(q, (i + m) + 1) = CostTo(q, i + m) + EdgeWeight(q[i + m], q[(i + m) + 1])
          /\ CostTo(s, (m + 1) + 1) = CostTo(s, m + 1) + EdgeWeight(s[m + 1], s[(m + 1) + 1])
          /\ CostTo(p, i) \in Nat /\ CostTo(s, m + 1) \in Nat
      BY <1>1, <3>1 DEF Legs
    <3>5. CostTo(q, i + m) = CostTo(p, i) + CostTo(s, m + 1)
      BY <3>1
    <3>6. PICK a \in Nat, b \in Nat, c \in Nat :
            /\ a = CostTo(p, i) /\ b = CostTo(s, m + 1)
            /\ c = EdgeWeight(s[m + 1], s[(m + 1) + 1])
      BY <3>4, WeightType
    <3>7. CostTo(q, (i + m) + 1) = (a + b) + c /\ CostTo(s, (m + 1) + 1) = b + c
      BY <3>3, <3>4, <3>5, <3>6
    <3>8. (a + b) + c = a + (b + c)
      OBVIOUS
    <3>9. QED
      BY <3>1, <3>6, <3>7, <3>8
  <2>2. CASE ~((m + 1) + 1 <= Len(s))
    BY <2>2
  <2>3. QED
    BY <2>1, <2>2
<1>4. T \in SUBSET Nat
  OBVIOUS
<1> HIDE DEF T
<1>5. T = Nat
  BY <1>2, <1>3, <1>4, Induction
<1>6. Len(s) - 1 \in T /\ (Len(s) - 1) + 1 = Len(s) /\ i + (Len(s) - 1) = Len(q)
  BY <1>1, <1>5
<1>7. CostTo(q, Len(q)) = CostTo(p, i) + CostTo(s, Len(s))
  BY <1>1, <1>6 DEF T
<1>8. QED
  BY <1>7, CostToAll

LEMMA CostOfOne ==
  ASSUME NEW c \in Corridors
  PROVE  PathCost(<<c>>) = 0
<1>1. <<c>> \in Seq(Corridors) /\ Len(<<c>>) = 1
  OBVIOUS
<1>2. QED
  BY <1>1, LegsAddUp, CostToAll DEF Legs

LEMMA CostOfNext ==
  ASSUME NEW p \in Seq(Corridors), Len(p) >= 1, NEW v \in Corridors
  PROVE  PathCost(Append(p, v)) = PathCost(p) + EdgeWeight(p[Len(p)], v)
<1>1. PICK q : q = Append(p, v)
  OBVIOUS
<1>2. q \in Seq(Corridors) /\ Len(q) = Len(p) + 1 /\ q[Len(p) + 1] = v
      /\ \A n \in 1 .. Len(p) : q[n] = p[n]
  BY <1>1
<1>3. Legs(q) /\ Len(p) \in Nat
  BY <1>2, LegsAddUp
<1>4. Len(p) \in 1 .. Len(q) - 1 /\ Len(p) <= Len(q) /\ Len(p) \in 1 .. Len(p)
  BY <1>2, <1>3
<1>5. CostTo(q, Len(p) + 1) = CostTo(q, Len(p)) + EdgeWeight(q[Len(p)], q[Len(p) + 1])
  BY <1>3, <1>4 DEF Legs
<1>6. CostTo(q, Len(p)) = CostTo(p, Len(p))
  BY <1>2, <1>3, <1>4, SameBegin
<1>7. QED
  BY <1>1, <1>2, <1>4, <1>5, <1>6, CostToAll

------------------------------------------------------------------------------
(* The search of M08: a settled way follows edges and enters nothing twice.   *)

Drives(w, start, shut) ==
  /\ w \in Ways /\ Len(w.path) >= 1 /\ w.path[1] = start
  /\ \A n \in 2 .. Len(w.path) : w.path[n] \in Adjacency[w.path[n - 1]]
  /\ \A m, n \in 1 .. Len(w.path) : w.path[m] = w.path[n] => m = n
  /\ \A n \in 1 .. Len(w.path) : w.path[n] \notin shut
  /\ w.cost = PathCost(w.path)

Ends(done) == {End(w) : w \in done}

SettledWays(done, start, shut) ==
  /\ done \in SUBSET Ways /\ IsFiniteSet(done)
  /\ \A w \in done : /\ Drives(w, start, shut)
                     /\ \A n \in 1 .. Len(w.path) : w.path[n] \in Ends(done)

LEMMA NoWayYet ==
  ASSUME NEW start \in Corridors, NEW shut, start \notin shut
  PROVE  SettledWays({Way(<<start>>, 0)}, start, shut)
<1>1. PICK w : w = Way(<<start>>, 0)
  OBVIOUS
<1>2. w.path = <<start>> /\ w.cost = 0 /\ w \in Ways
  BY <1>1 DEF Way, Ways
<1>3. Len(w.path) = 1 /\ w.path[1] = start /\ 1 .. 1 = {1} /\ 2 .. 1 = {}
  BY <1>2
<1>4. PathCost(w.path) = 0
  BY <1>2, CostOfOne
<1>5. Drives(w, start, shut)
  BY <1>2, <1>3, <1>4 DEF Drives
<1>6. End(w) = start
  BY <1>3 DEF End
<1>7. IsFiniteSet({w})
  BY FS_Singleton
<1>8. \A n \in 1 .. Len(w.path) : w.path[n] \in Ends({w})
  BY <1>3, <1>6 DEF Ends
<1>9. QED
  BY <1>1, <1>2, <1>5, <1>7, <1>8 DEF SettledWays

LEMMA EndType ==
  ASSUME NEW w \in Ways, Len(w.path) >= 1
  PROVE  /\ w.path \in Seq(Corridors) /\ w.cost \in Nat /\ Len(w.path) \in Nat
         /\ End(w) = w.path[Len(w.path)] /\ End(w) \in Corridors
<1>1. w.path \in Seq(Corridors) /\ w.cost \in Nat
  BY DEF Ways
<1>2. Len(w.path) \in Nat /\ Len(w.path) \in DOMAIN w.path
  BY <1>1
<1>3. w.path[Len(w.path)] \in Corridors
  BY <1>1, <1>2, ElementType
<1>4. QED
  BY <1>1, <1>2, <1>3 DEF End

(* A step along an edge to a corridor the way has not entered. *)
LEMMA DrivesOn ==
  ASSUME NEW start, NEW shut, NEW w, Drives(w, start, shut),
         NEW v \in Adjacency[End(w)], v \notin shut,
         \A n \in 1 .. Len(w.path) : w.path[n] # v,
         NEW x, x = Way(Append(w.path, v), w.cost + EdgeWeight(End(w), v))
  PROVE  /\ Drives(x, start, shut) /\ End(x) = v
         /\ \A n \in 1 .. Len(x.path) : x.path[n] = v \/ \E m \in 1 .. Len(w.path) : x.path[n] = w.path[m]
<1>1. /\ w \in Ways /\ Len(w.path) >= 1 /\ w.path[1] = start /\ w.cost = PathCost(w.path)
      /\ \A n \in 2 .. Len(w.path) : w.path[n] \in Adjacency[w.path[n - 1]]
      /\ \A m, n \in 1 .. Len(w.path) : w.path[m] = w.path[n] => m = n
      /\ \A n \in 1 .. Len(w.path) : w.path[n] \notin shut
  BY DEF Drives
<1>2. PICK p : p = w.path
  OBVIOUS
<1>3. p \in Seq(Corridors) /\ End(w) = p[Len(p)] /\ End(w) \in Corridors /\ w.cost \in Nat
      /\ Len(p) \in Nat /\ Len(p) >= 1
  BY <1>1, <1>2, EndType
<1>4. v \in Corridors
  BY <1>3 DEF Adjacency
<1>5. PICK q : q = Append(p, v)
  OBVIOUS
<1>6. q \in Seq(Corridors) /\ Len(q) = Len(p) + 1 /\ q[Len(p) + 1] = v
      /\ \A n \in 1 .. Len(p) : q[n] = p[n]
  BY <1>3, <1>4, <1>5
<1>7. x = [path |-> q, cost |-> w.cost + EdgeWeight(End(w), v)]
  BY <1>2, <1>5 DEF Way
<1>8. x.path = q /\ x.cost = w.cost + EdgeWeight(End(w), v) /\ x.cost \in Nat
  BY <1>3, <1>7, WeightType
<1>9. x \in Ways
  BY <1>6, <1>7, <1>8 DEF Ways
<1>10. x.cost = PathCost(q)
  BY <1>1, <1>2, <1>3, <1>4, <1>5, <1>8, CostOfNext
<1>11. ASSUME NEW n \in 2 .. Len(q) PROVE q[n] \in Adjacency[q[n - 1]]
  <2>1. CASE n <= Len(p)
    <3>1. n \in 2 .. Len(p) /\ n \in 1 .. Len(p) /\ n - 1 \in 1 .. Len(p)
      BY <1>3, <2>1
    <3>2. QED
      BY <1>1, <1>2, <1>6, <3>1
  <2>2. CASE ~(n <= Len(p))
    <3>1. n = Len(p) + 1 /\ n - 1 = Len(p) /\ n - 1 \in 1 .. Len(p)
      BY <1>3, <1>6, <2>2
    <3>2. q[n] = v /\ q[n - 1] = End(w)
      BY <1>3, <1>6, <3>1
    <3>3. QED
      BY <3>2
  <2>3. QED
    BY <2>1, <2>2
<1>12. \A n \in 1 .. Len(q) : n \in 1 .. Len(p) \/ n = Len(p) + 1
  BY <1>3, <1>6
<1>13. \A n \in 1 .. Len(q) : q[n] \notin shut
  BY <1>1, <1>2, <1>6, <1>12
<1>14. ASSUME NEW m \in 1 .. Len(q), NEW n \in 1 .. Len(q), q[m] = q[n] PROVE m = n
  <2>1. CASE m \in 1 .. Len(p) /\ n \in 1 .. Len(p)
    BY <1>1, <1>2, <1>6, <1>14, <2>1
  <2>2. CASE m \in 1 .. Len(p) /\ n = Len(p) + 1
    BY <1>2, <1>6, <1>14, <2>2
  <2>3. CASE m = Len(p) + 1 /\ n \in 1 .. Len(p)
    BY <1>2, <1>6, <1>14, <2>3
  <2>4. QED
    BY <1>12, <2>1, <2>2, <2>3
<1>15. q[1] = start /\ Len(q) >= 1
  BY <1>1, <1>2, <1>3, <1>6
<1>16. Drives(x, start, shut)
  BY <1>8, <1>9, <1>10, <1>11, <1>13, <1>14, <1>15 DEF Drives
<1>17. End(x) = v
  BY <1>6, <1>8 DEF End
<1>18. QED
  BY <1>2, <1>6, <1>8, <1>12, <1>16, <1>17

LEMMA CheapestExists ==
  ASSUME NEW S \in SUBSET Ways, S # {}
  PROVE  \E w \in S : \A x \in S : ~Cheaper(x, w)
<1>1. PICK T : T = {w.cost : w \in S}
  OBVIOUS
<1>2. T \in SUBSET Nat /\ T # {}
  BY <1>1 DEF Ways
<1>3. PICK m \in T : \A n \in T : m <= n
  BY <1>2, LeastNumber
<1>4. PICK w \in S : w.cost = m
  BY <1>1
<1>5. \A x \in S : w.cost <= x.cost /\ x.cost \in Nat /\ w.cost \in Nat
  BY <1>1, <1>3, <1>4 DEF Ways
<1>6. \A x \in S : ~Cheaper(x, w)
  BY <1>5 DEF Cheaper
<1>7. QED
  BY <1>6

LEMMA SomeCheapestIn ==
  ASSUME NEW S \in SUBSET Ways
  PROVE  SomeCheapest(S) = {} \/ \E w \in S : SomeCheapest(S) = {w}
<1>1. CASE S = {}
  BY <1>1 DEF SomeCheapest
<1>2. CASE S # {}
  <2>1. \E w \in S : \A x \in S : ~Cheaper(x, w)
    BY <1>2, CheapestExists
  <2>2. PICK w : w = CHOOSE y \in S : \A x \in S : ~Cheaper(x, y)
    OBVIOUS
  <2>3. w \in S
    BY <2>1, <2>2
  <2>4. SomeCheapest(S) = {w}
    BY <1>2, <2>2 DEF SomeCheapest
  <2>5. QED
    BY <2>3, <2>4
<1>3. QED
  BY <1>1, <1>2

\* The ways the search may settle next.
Onward(w, done, shut, cut) ==
  {Way(Append(w.path, v), w.cost + EdgeWeight(End(w), v)) :
     v \in {v \in Adjacency[End(w)] \ (shut \cup Ends(done)) : {End(w), v} \notin cut}}

Frontier(done, shut, cut) == UNION {Onward(w, done, shut, cut) : w \in done}

Settle(done, goal, shut, cut) ==
  IF goal \in Ends(done) THEN done ELSE done \cup SomeCheapest(Frontier(done, shut, cut))

LEMMA FrontierDrives ==
  ASSUME NEW start, NEW shut, NEW cut, NEW done, SettledWays(done, start, shut),
         NEW x \in Frontier(done, shut, cut)
  PROVE  /\ x \in Ways /\ Drives(x, start, shut)
         /\ \A n \in 1 .. Len(x.path) : x.path[n] \in Ends(done) \/ x.path[n] = End(x)
<1>1. PICK w \in done : \E v \in Adjacency[End(w)] \ (shut \cup Ends(done)) :
        x = Way(Append(w.path, v), w.cost + EdgeWeight(End(w), v))
  <2>1. PICK w \in done : x \in Onward(w, done, shut, cut)
    BY DEF Frontier
  <2>2. QED
    BY <2>1 DEF Onward
<1>2. PICK v \in Adjacency[End(w)] \ (shut \cup Ends(done)) :
        x = Way(Append(w.path, v), w.cost + EdgeWeight(End(w), v))
  BY <1>1
<1>3. Drives(w, start, shut) /\ \A n \in 1 .. Len(w.path) : w.path[n] \in Ends(done)
  BY DEF SettledWays
<1>4. \A n \in 1 .. Len(w.path) : w.path[n] # v
  BY <1>2, <1>3
<1>5. /\ v \in Adjacency[End(w)] /\ v \notin shut
  BY <1>2
<1>6. /\ Drives(x, start, shut) /\ End(x) = v
      /\ \A n \in 1 .. Len(x.path) : x.path[n] = v \/ \E m \in 1 .. Len(w.path) : x.path[n] = w.path[m]
  BY <1>2, <1>3, <1>4, <1>5, DrivesOn
<1>7. x \in Ways
  BY <1>6 DEF Drives
<1>8. QED
  BY <1>3, <1>6, <1>7

LEMMA SettleKeeps ==
  ASSUME NEW start, NEW goal, NEW shut, NEW cut, NEW done, SettledWays(done, start, shut)
  PROVE  SettledWays(Settle(done, goal, shut, cut), start, shut)
<1>1. CASE goal \in Ends(done)
  BY <1>1 DEF Settle
<1>2. CASE goal \notin Ends(done)
  <2>1. PICK F : F = Frontier(done, shut, cut)
    OBVIOUS
  <2>2. F \in SUBSET Ways
    BY <2>1, FrontierDrives
  <2>3. Settle(done, goal, shut, cut) = done \cup SomeCheapest(F)
    BY <1>2, <2>1 DEF Settle
  <2>4. CASE SomeCheapest(F) = {}
    BY <2>3, <2>4
  <2>5. ASSUME NEW x \in F, SomeCheapest(F) = {x}
        PROVE  SettledWays(done \cup {x}, start, shut)
    <3>1. /\ x \in Ways /\ Drives(x, start, shut)
          /\ \A n \in 1 .. Len(x.path) : x.path[n] \in Ends(done) \/ x.path[n] = End(x)
      BY <2>1, FrontierDrives
    <3>2. /\ done \in SUBSET Ways /\ IsFiniteSet(done)
          /\ \A w \in done : /\ Drives(w, start, shut)
                             /\ \A n \in 1 .. Len(w.path) : w.path[n] \in Ends(done)
      BY DEF SettledWays
    <3>3. IsFiniteSet(done \cup {x})
      BY <3>2, FS_AddElement
    <3>4. Ends(done \cup {x}) = Ends(done) \cup {End(x)}
      BY DEF Ends
    <3>5. QED
      BY <3>1, <3>2, <3>3, <3>4 DEF SettledWays
  <2>6. QED
    BY <2>2, <2>3, <2>4, <2>5, SomeCheapestIn
<1>3. QED
  BY <1>1, <1>2

\* The equation of dijkstra's recursion.
SettleFun(f, start, goal, shut, cut) ==
  f = [n \in Nat |-> IF n = 0 THEN {Way(<<start>>, 0)} ELSE Settle(f[n - 1], goal, shut, cut)]

LEMMA DijkstraSettles ==
  ASSUME NEW start, NEW goal, NEW shut, NEW cut, {start, goal} \cap shut = {}
  PROVE  Dijkstra(start, goal, shut, cut)
           = {w \in (CHOOSE f : SettleFun(f, start, goal, shut, cut))[Cardinality(Corridors)] :
                End(w) = goal}
BY DEF Dijkstra, SettleFun, Settle, Frontier, Onward, Ends

LEMMA SettleFunExists ==
  ASSUME NEW start \in Corridors, NEW goal, NEW shut, NEW cut, start \notin shut
  PROVE  \E f : SettleFun(f, start, goal, shut, cut)
<1> DEFINE next(s) == Settle(s, goal, shut, cut)
<1>1. PICK D : D = {s \in SUBSET Ways : SettledWays(s, start, shut)}
  OBVIOUS
<1>2. PICK zero \in D : zero = {Way(<<start>>, 0)}
  <2>1. SettledWays({Way(<<start>>, 0)}, start, shut)
    BY NoWayYet
  <2>2. {Way(<<start>>, 0)} \in SUBSET Ways
    BY <2>1 DEF SettledWays
  <2>3. QED
    BY <1>1, <2>1, <2>2
<1>3. ASSUME NEW s \in D PROVE next(s) \in D
  <2>1. SettledWays(next(s), start, shut)
    BY <1>1, SettleKeeps
  <2>2. next(s) \in SUBSET Ways
    BY <2>1 DEF SettledWays
  <2>3. QED
    BY <1>1, <2>1, <2>2
<1> HIDE DEF next
<1>4. PICK step \in [D -> D] : \A s \in D : step[s] = next(s)
  <2>1. [s \in D |-> next(s)] \in [D -> D]
    BY <1>3
  <2>2. QED
    BY <2>1
<1>5. PICK f : Iterates(f, D, zero, step)
  BY Iteration
<1>6. f \in [Nat -> D] /\ f[0] = zero /\ \A n \in Nat : f[n + 1] = next(f[n])
  BY <1>4, <1>5 DEF Iterates
<1>7. ASSUME NEW n \in Nat PROVE f[n] = IF n = 0 THEN {Way(<<start>>, 0)} ELSE next(f[n - 1])
  <2>1. CASE n # 0
    <3>1. n - 1 \in Nat /\ (n - 1) + 1 = n
      BY <2>1
    <3>2. QED
      BY <1>6, <2>1, <3>1
  <2>2. QED
    BY <1>2, <1>6, <2>1
<1>8. f = [n \in Nat |-> f[n]]
  BY <1>6
<1>9. f = [n \in Nat |-> IF n = 0 THEN {Way(<<start>>, 0)} ELSE next(f[n - 1])]
  BY <1>7, <1>8
<1>10. SettleFun(f, start, goal, shut, cut)
  BY <1>9 DEF SettleFun, next
<1>11. QED
  BY <1>10

\* The ways settled round by round, and dijkstra's answer.
Settling(g, start, goal, shut, cut) ==
  /\ g[0] = {Way(<<start>>, 0)}
  /\ \A n \in Nat : g[n + 1] = Settle(g[n], goal, shut, cut)
  /\ Dijkstra(start, goal, shut, cut) = {w \in g[Cardinality(Corridors)] : End(w) = goal}

LEMMA DijkstraSettling ==
  ASSUME NEW start \in Corridors, NEW goal, NEW shut, NEW cut, {start, goal} \cap shut = {}
  PROVE  \E g : Settling(g, start, goal, shut, cut)
<1>1. PICK g : g = CHOOSE f : SettleFun(f, start, goal, shut, cut)
  OBVIOUS
<1>2. SettleFun(g, start, goal, shut, cut)
  BY <1>1, SettleFunExists
<1>3. \A n \in Nat : g[n] = IF n = 0 THEN {Way(<<start>>, 0)}
                           ELSE Settle(g[n - 1], goal, shut, cut)
  BY <1>2 DEF SettleFun
<1>4. ASSUME NEW n \in Nat PROVE g[n + 1] = Settle(g[n], goal, shut, cut)
  <2>1. n + 1 \in Nat /\ n + 1 # 0 /\ (n + 1) - 1 = n
    OBVIOUS
  <2>2. QED
    BY <1>3, <2>1
<1>5. g[0] = {Way(<<start>>, 0)}
  BY <1>3
<1>6. Dijkstra(start, goal, shut, cut) = {w \in g[Cardinality(Corridors)] : End(w) = goal}
  BY <1>1, DijkstraSettles
<1>7. Settling(g, start, goal, shut, cut)
  BY <1>4, <1>5, <1>6 DEF Settling
<1>8. QED
  BY <1>7

LEMMA DijkstraDrives ==
  ASSUME NEW start \in Corridors, NEW goal, NEW shut, NEW cut
  PROVE  /\ IsFiniteSet(Dijkstra(start, goal, shut, cut))
         /\ \A w \in Dijkstra(start, goal, shut, cut) : Drives(w, start, shut) /\ End(w) = goal
<1>1. CASE {start, goal} \cap shut # {}
  <2>1. Dijkstra(start, goal, shut, cut) = {}
    BY <1>1 DEF Dijkstra
  <2>2. QED
    BY <2>1, FS_EmptySet
<1>2. CASE {start, goal} \cap shut = {}
  <2>1. PICK g : Settling(g, start, goal, shut, cut)
    BY <1>2, DijkstraSettling
  <2> DEFINE T == {n \in Nat : SettledWays(g[n], start, shut)}
  <2>2. 0 \in T
    BY <1>2, <2>1, NoWayYet DEF Settling
  <2>3. ASSUME NEW n \in T PROVE n + 1 \in T
    <3>1. n + 1 \in Nat
      OBVIOUS
    <3>2. SettledWays(Settle(g[n], goal, shut, cut), start, shut)
      BY SettleKeeps
    <3>3. g[n + 1] = Settle(g[n], goal, shut, cut)
      BY <2>1 DEF Settling
    <3>4. QED
      BY <3>1, <3>2, <3>3
  <2>4. T \in SUBSET Nat
    OBVIOUS
  <2> HIDE DEF T
  <2>5. T = Nat
    BY <2>2, <2>3, <2>4, Induction
  <2>6. Cardinality(Corridors) \in Nat
    BY CorridorAssumption, FS_CardinalityType
  <2>7. PICK s : s = g[Cardinality(Corridors)]
    OBVIOUS
  <2>8. SettledWays(s, start, shut)
    BY <2>5, <2>6, <2>7 DEF T
  <2>9. Dijkstra(start, goal, shut, cut) = {w \in s : End(w) = goal}
    BY <2>1, <2>7 DEF Settling
  <2>10. IsFiniteSet({w \in s : End(w) = goal})
    BY <2>8, FS_Subset DEF SettledWays
  <2>11. \A w \in s : Drives(w, start, shut)
    BY <2>8 DEF SettledWays
  <2>12. QED
    BY <2>9, <2>10, <2>11
<1>3. QED
  BY <1>1, <1>2

------------------------------------------------------------------------------
(* The k shortest paths of M08: a spur way joins its root and can be driven.  *)

GoodWays(start, goal, closed) == {w \in Ways : Drives(w, start, closed) /\ End(w) = goal}

LEMMA CheapestIn ==
  ASSUME NEW cands \in Seq(Ways), cands # <<>>
  PROVE  /\ Cheapest(cands) \in DOMAIN cands
         /\ \A j \in DOMAIN cands : cands[Cheapest(cands)].cost <= cands[j].cost
<1>1. PICK I : I = DOMAIN cands
  OBVIOUS
<1>2. I = 1 .. Len(cands) /\ Len(cands) \in Nat /\ Len(cands) # 0
  BY <1>1
<1>3. I \in SUBSET Nat /\ I # {}
  <2>1. 1 \in I
    BY <1>2
  <2>2. QED
    BY <1>2, <2>1
<1>4. \A i \in I : cands[i] \in Ways /\ cands[i].cost \in Nat
  <2>1. \A i \in I : cands[i] \in Ways
    BY <1>1, ElementType
  <2>2. QED
    BY <2>1 DEF Ways
<1>5. PICK T : T = {cands[i].cost : i \in I}
  OBVIOUS
<1>6. T \in SUBSET Nat /\ T # {}
  BY <1>3, <1>4, <1>5
<1>7. PICK m \in T : \A n \in T : m <= n
  BY <1>6, LeastNumber
<1>8. PICK J : J = {i \in I : cands[i].cost = m}
  OBVIOUS
<1>9. J \in SUBSET Nat /\ J # {}
  BY <1>3, <1>5, <1>7, <1>8
<1>10. PICK i \in J : \A j \in J : i <= j
  BY <1>9, LeastNumber
<1>11. i \in I /\ cands[i].cost = m /\ m \in Nat
  BY <1>6, <1>8
<1>12. ASSUME NEW j \in I
       PROVE  Cheaper(cands[i], cands[j]) \/ (~Cheaper(cands[j], cands[i]) /\ i <= j)
  <2>1. PICK c \in Nat : c = cands[j].cost
    BY <1>4
  <2>2. m <= c
    BY <1>5, <1>7, <2>1
  <2>3. CASE c = m
    <3>1. j \in J
      BY <1>8, <2>1, <2>3
    <3>2. i <= j
      BY <1>10, <3>1
    <3>3. ~(cands[j].cost < cands[i].cost)
      BY <1>11, <2>1, <2>3
    <3>4. QED
      BY <3>2, <3>3 DEF Cheaper
  <2>4. CASE c # m
    <3>1. m < c
      BY <1>11, <2>2, <2>4
    <3>2. QED
      BY <1>11, <2>1, <3>1 DEF Cheaper
  <2>5. QED
    BY <2>3, <2>4
<1>13. PICK c \in I : /\ c = Cheapest(cands)
                      /\ \A j \in I : Cheaper(cands[c], cands[j])
                                      \/ (~Cheaper(cands[j], cands[c]) /\ c <= j)
  BY <1>1, <1>11, <1>12 DEF Cheapest
<1>14. ASSUME NEW j \in I PROVE cands[c].cost <= cands[j].cost
  <2>1. PICK a \in Nat, b \in Nat : a = cands[c].cost /\ b = cands[j].cost
    BY <1>4
  <2>2. a < b \/ ~(b < a)
    BY <1>13, <2>1 DEF Cheaper
  <2>3. a <= b
    BY <2>2
  <2>4. QED
    BY <2>1, <2>3
<1>15. QED
  BY <1>1, <1>13, <1>14

LEMMA WholeDrives ==
  ASSUME NEW start, NEW goal, NEW closed, NEW w \in GoodWays(start, goal, closed),
         NEW last, last = w.path, NEW i \in 1 .. Len(last) - 1,
         NEW spur, Drives(spur, last[i], Shut(closed, last, i)), End(spur) = goal,
         NEW x, x = Way(SubSeq(last, 1, i - 1) \o spur.path,
                        PathCost(SubSeq(last, 1, i)) + spur.cost)
  PROVE  x \in GoodWays(start, goal, closed)
<1>1. w \in Ways /\ Drives(w, start, closed)
  BY DEF GoodWays
<1>2. /\ last \in Seq(Corridors) /\ Len(last) \in Nat /\ Len(last) >= 1 /\ last[1] = start
      /\ \A n \in 2 .. Len(last) : last[n] \in Adjacency[last[n - 1]]
      /\ \A m, n \in 1 .. Len(last) : last[m] = last[n] => m = n
      /\ \A n \in 1 .. Len(last) : last[n] \notin closed
  BY <1>1, EndType DEF Drives
<1>3. PICK s : s = spur.path
  OBVIOUS
<1>4. PICK shut : shut = Shut(closed, last, i)
  OBVIOUS
<1>5. /\ spur \in Ways /\ s \in Seq(Corridors) /\ Len(s) \in Nat /\ Len(s) >= 1 /\ s[1] = last[i]
      /\ \A n \in 2 .. Len(s) : s[n] \in Adjacency[s[n - 1]]
      /\ \A m, n \in 1 .. Len(s) : s[m] = s[n] => m = n
      /\ \A n \in 1 .. Len(s) : s[n] \notin shut
      /\ spur.cost = PathCost(s) /\ spur.cost \in Nat /\ End(spur) = s[Len(s)]
  BY <1>3, <1>4, EndType DEF Drives
<1>6. i \in Nat /\ i >= 1 /\ i < Len(last) /\ i - 1 \in Nat
  BY <1>2
<1>7. PICK root : root = SubSeq(last, 1, i - 1)
  OBVIOUS
<1>8. root \in Seq(Corridors) /\ Len(root) = i - 1 /\ \A n \in 1 .. i - 1 : root[n] = last[n]
  BY <1>2, <1>6, <1>7
<1>9. \A n \in 1 .. i - 1 : last[n] \in shut
  <2>1. \A n \in 1 .. i - 1 : root[n] \in ToSet(root)
    BY <1>6, <1>8 DEF ToSet
  <2>2. QED
    BY <1>4, <1>7, <1>8, <2>1 DEF Shut
<1>10. closed \subseteq shut
  BY <1>4 DEF Shut
<1>11. PICK q : q = root \o s
  OBVIOUS
<1>12. /\ q \in Seq(Corridors) /\ Len(q) = (i - 1) + Len(s)
       /\ \A n \in 1 .. i - 1 : q[n] = last[n]
       /\ \A n \in 1 .. Len(s) : q[(i - 1) + n] = s[n]
  <2>1. /\ root \o s \in Seq(Corridors) /\ Len(root \o s) = (i - 1) + Len(s)
        /\ \A n \in 1 .. i - 1 : (root \o s)[n] = root[n]
        /\ \A n \in 1 .. Len(s) : (root \o s)[(i - 1) + n] = s[n]
    <3>1. Joined(root \o s, root, s, Corridors)
      BY <1>5, <1>8, ConcatFacts
    <3>2. QED
      BY <1>8, <3>1 DEF Joined
  <2>2. QED
    BY <1>8, <1>11, <2>1
<1>13. \A n \in 1 .. i : q[n] = last[n]
  <2>1. q[i] = s[1]
    <3>1. (i - 1) + 1 = i /\ 1 \in 1 .. Len(s)
      BY <1>5, <1>6
    <3>2. QED
      BY <1>12, <3>1
  <2>2. \A n \in 1 .. i : n \in 1 .. i - 1 \/ n = i
    BY <1>6
  <2>3. QED
    BY <1>5, <1>12, <2>1, <2>2
<1>14. ASSUME NEW n \in 1 .. Len(q), ~(n \in 1 .. i - 1)
       PROVE  /\ n - (i - 1) \in 1 .. Len(s) /\ q[n] = s[n - (i - 1)]
  <2>1. n - (i - 1) \in 1 .. Len(s) /\ (i - 1) + (n - (i - 1)) = n
    BY <1>5, <1>6, <1>12, <1>14
  <2>2. QED
    BY <1>12, <2>1
<1>15. ASSUME NEW n \in 2 .. Len(q) PROVE q[n] \in Adjacency[q[n - 1]]
  <2>1. CASE n <= i
    <3>1. n \in 1 .. i /\ n - 1 \in 1 .. i /\ n \in 2 .. Len(last)
      BY <1>2, <1>6, <2>1
    <3>2. QED
      BY <1>2, <1>13, <3>1
  <2>2. CASE ~(n <= i)
    <3>1. /\ n \in 1 .. Len(q) /\ n - 1 \in 1 .. Len(q) /\ ~(n \in 1 .. i - 1)
          /\ ~(n - 1 \in 1 .. i - 1) /\ (n - 1) - (i - 1) = (n - (i - 1)) - 1
          /\ n - (i - 1) >= 2
      BY <1>6, <2>2
    <3>2. PICK m : m = n - (i - 1)
      OBVIOUS
    <3>3. m \in 1 .. Len(s) /\ q[n] = s[m] /\ q[n - 1] = s[m - 1] /\ m >= 2
      BY <1>14, <3>1, <3>2
    <3>4. m \in 2 .. Len(s)
      BY <1>5, <3>3
    <3>5. QED
      BY <1>5, <3>3, <3>4
  <2>3. QED
    BY <2>1, <2>2
<1>16. \A n \in 1 .. Len(q) : q[n] \notin closed
  <2>1. ASSUME NEW n \in 1 .. Len(q) PROVE q[n] \notin closed
    <3>1. CASE n \in 1 .. i - 1
      <4>1. n \in 1 .. Len(last)
        BY <1>6, <1>2, <3>1
      <4>2. QED
        BY <1>2, <1>12, <3>1, <4>1
    <3>2. CASE ~(n \in 1 .. i - 1)
      BY <1>5, <1>10, <1>14, <3>2
    <3>3. QED
      BY <3>1, <3>2
  <2>2. QED
    BY <2>1
<1>17. ASSUME NEW m \in 1 .. Len(q), NEW n \in 1 .. Len(q), q[m] = q[n] PROVE m = n
  <2>1. CASE m \in 1 .. i - 1 /\ n \in 1 .. i - 1
    <3>1. m \in 1 .. Len(last) /\ n \in 1 .. Len(last)
      BY <1>6, <1>2, <2>1
    <3>2. QED
      BY <1>2, <1>12, <1>17, <2>1, <3>1
  <2>2. CASE ~(m \in 1 .. i - 1) /\ ~(n \in 1 .. i - 1)
    <3>1. PICK k, l : k = m - (i - 1) /\ l = n - (i - 1)
      OBVIOUS
    <3>2. k \in 1 .. Len(s) /\ l \in 1 .. Len(s) /\ q[m] = s[k] /\ q[n] = s[l]
      BY <1>14, <2>2, <3>1
    <3>3. k = l
      BY <1>5, <1>17, <3>2
    <3>4. m \in Int /\ n \in Int
      BY <1>5, <1>6, <1>12
    <3>5. QED
      BY <1>6, <3>1, <3>3, <3>4
  <2>3. \A a \in 1 .. Len(q), b \in 1 .. Len(q) :
          a \in 1 .. i - 1 /\ ~(b \in 1 .. i - 1) => q[a] # q[b]
    <3>1. ASSUME NEW a \in 1 .. Len(q), NEW b \in 1 .. Len(q),
                 a \in 1 .. i - 1, ~(b \in 1 .. i - 1)
          PROVE  q[a] # q[b]
      <4>1. q[a] \in shut
        BY <1>9, <1>12, <3>1
      <4>2. PICK k : k = b - (i - 1)
        OBVIOUS
      <4>3. k \in 1 .. Len(s) /\ q[b] = s[k]
        BY <1>14, <3>1, <4>2
      <4>4. q[b] \notin shut
        BY <1>5, <4>3
      <4>5. QED
        BY <4>1, <4>4
    <3>2. QED
      BY <3>1
  <2>4. QED
    BY <1>17, <2>1, <2>2, <2>3
<1>18. PathCost(q) = PathCost(SubSeq(last, 1, i)) + PathCost(s)
  <2>1. PICK p : p = SubSeq(last, 1, i)
    OBVIOUS
  <2>2. p \in Seq(Corridors) /\ Len(p) = i /\ \A n \in 1 .. i : p[n] = last[n]
    BY <1>2, <1>6, <2>1
  <2>3. PathCost(p) = CostTo(p, i)
    BY <2>2, CostToAll
  <2>4. \A n \in 1 .. i : q[n] = p[n]
    BY <1>13, <2>2
  <2>5. i <= Len(p)
    BY <1>6, <2>2
  <2>6. PathCost(q) = CostTo(p, i) + PathCost(s)
    BY <1>5, <1>6, <1>12, <2>2, <2>4, <2>5, JoinCost
  <2>7. QED
    BY <2>1, <2>3, <2>6
<1>19. PathCost(SubSeq(last, 1, i)) \in Nat
  <2>1. PICK p : p = SubSeq(last, 1, i)
    OBVIOUS
  <2>2. p \in Seq(Corridors) /\ Len(p) = i
    BY <1>2, <1>6, <2>1
  <2>3. i \in 1 .. Len(p)
    BY <1>6, <2>2
  <2>4. CostTo(p, i) \in Nat
    BY <2>2, <2>3, LegsAddUp DEF Legs
  <2>5. QED
    BY <2>1, <2>2, <2>4, CostToAll
<1>20. x = [path |-> q, cost |-> PathCost(SubSeq(last, 1, i)) + spur.cost]
  BY <1>3, <1>7, <1>11 DEF Way
<1>21. x.path = q /\ x.cost = PathCost(q) /\ x.cost \in Nat
  BY <1>5, <1>18, <1>19, <1>20
<1>22. x \in Ways
  BY <1>12, <1>20, <1>21 DEF Ways
<1>23. Len(q) >= 1 /\ q[1] = start
  BY <1>2, <1>5, <1>6, <1>12, <1>13
<1>24. Drives(x, start, closed)
  BY <1>15, <1>16, <1>17, <1>21, <1>22, <1>23 DEF Drives
<1>25. End(x) = goal
  <2>1. Len(s) \in 1 .. Len(s) /\ (i - 1) + Len(s) = Len(q)
    BY <1>5, <1>12
  <2>2. q[Len(q)] = s[Len(s)]
    BY <1>12, <2>1
  <2>3. QED
    BY <1>5, <1>21, <2>2 DEF End
<1>26. QED
  BY <1>22, <1>24, <1>25 DEF GoodWays

\* The candidates that leave the way found last at its i-th corridor.
SpursAt(ways, i, goal, closed) ==
  SetToSeq({Way(SubSeq(ways[Len(ways)].path, 1, i - 1) \o spur.path,
                PathCost(SubSeq(ways[Len(ways)].path, 1, i)) + spur.cost) : spur \in
              Dijkstra(ways[Len(ways)].path[i], goal, Shut(closed, ways[Len(ways)].path, i),
                       Cut(ToSet(ways), ways[Len(ways)].path, i))})

LEMMA SpursAreFound ==
  ASSUME NEW ways, NEW goal, NEW closed
  PROVE  Spurs(ways, goal, closed)
           = FlattenSeq([i \in 1 .. Len(ways[Len(ways)].path) - 1 |-> SpursAt(ways, i, goal, closed)])
BY DEF Spurs, SpursAt

LEMMA FoundGood ==
  ASSUME NEW start, NEW goal, NEW closed, NEW G, G = GoodWays(start, goal, closed),
         NEW ways \in Seq(G), Len(ways) >= 1,
         NEW i \in 1 .. Len(ways[Len(ways)].path) - 1
  PROVE  SpursAt(ways, i, goal, closed) \in Seq(G)
<1>1. PICK w : w = ways[Len(ways)]
  OBVIOUS
<1>2. w \in G
  <2>1. Len(ways) \in DOMAIN ways
    OBVIOUS
  <2>2. QED
    BY <1>1, <2>1, ElementType
<1>3. PICK last : last = w.path
  OBVIOUS
<1>4. i \in 1 .. Len(last) - 1
  BY <1>1, <1>3
<1>5. last \in Seq(Corridors) /\ Len(last) \in Nat
  BY <1>2, <1>3 DEF GoodWays, Ways
<1>6. last[i] \in Corridors
  <2>1. i \in DOMAIN last
    BY <1>4, <1>5
  <2>2. QED
    BY <1>5, <2>1, ElementType
<1>7. PICK S : S = Dijkstra(last[i], goal, Shut(closed, last, i), Cut(ToSet(ways), last, i))
  OBVIOUS
<1>8. IsFiniteSet(S) /\ \A spur \in S : Drives(spur, last[i], Shut(closed, last, i)) /\ End(spur) = goal
  BY <1>6, <1>7, DijkstraDrives
<1>9. PICK whole : whole = [spur \in S |-> Way(SubSeq(last, 1, i - 1) \o spur.path,
                                              PathCost(SubSeq(last, 1, i)) + spur.cost)]
  OBVIOUS
<1>10. PICK W : W = {whole[spur] : spur \in S}
  OBVIOUS
<1>11. W = {Way(SubSeq(last, 1, i - 1) \o spur.path, PathCost(SubSeq(last, 1, i)) + spur.cost)
              : spur \in S}
  BY <1>9, <1>10
<1>12. IsFiniteSet(W)
  <2>1. whole = [spur \in S |-> whole[spur]]
    BY <1>9
  <2>2. QED
    BY <1>8, <1>10, <2>1, FiniteImage
<1>13. ASSUME NEW spur \in S PROVE whole[spur] \in G
  <2>1. PICK x : x = whole[spur]
    OBVIOUS
  <2>2. x = Way(SubSeq(last, 1, i - 1) \o spur.path, PathCost(SubSeq(last, 1, i)) + spur.cost)
    BY <1>9, <2>1
  <2>3. Drives(spur, last[i], Shut(closed, last, i)) /\ End(spur) = goal
    BY <1>8
  <2>4. w \in GoodWays(start, goal, closed)
    BY <1>2
  <2>5. x \in GoodWays(start, goal, closed)
    BY <1>3, <1>4, <2>2, <2>3, <2>4, WholeDrives
  <2>6. QED
    BY <2>1, <2>5
<1>14. W \subseteq G
  BY <1>10, <1>13
<1>15. SetToSeq(W) \in Seq(G)
  BY <1>12, <1>14, SetToSeqType
<1>16. SpursAt(ways, i, goal, closed) = SetToSeq(W)
  BY <1>1, <1>3, <1>7, <1>11 DEF SpursAt
<1>17. QED
  BY <1>15, <1>16

LEMMA SpursGood ==
  ASSUME NEW start, NEW goal, NEW closed, NEW G, G = GoodWays(start, goal, closed),
         NEW ways \in Seq(G), Len(ways) >= 1
  PROVE  Spurs(ways, goal, closed) \in Seq(G)
<1>1. PICK w : w = ways[Len(ways)]
  OBVIOUS
<1>2. w \in G
  <2>1. Len(ways) \in DOMAIN ways
    OBVIOUS
  <2>2. QED
    BY <1>1, <2>1, ElementType
<1>3. Len(w.path) \in Nat /\ Len(w.path) >= 1
  BY <1>2 DEF GoodWays, Ways, Drives
<1>4. PICK N \in Nat : N = Len(w.path) - 1
  <2>1. Len(w.path) - 1 \in Nat
    BY <1>3
  <2>2. QED
    BY <2>1
<1>5. PICK ss : ss = [i \in 1 .. N |-> SpursAt(ways, i, goal, closed)]
  OBVIOUS
<1>6. \A i \in 1 .. N : ss[i] \in Seq(G)
  BY <1>1, <1>4, <1>5, FoundGood
<1>7. PICK D : D = Seq(G)
  OBVIOUS
<1>8. ss \in [1 .. N -> D]
  BY <1>5, <1>6, <1>7
<1>9. ss \in Seq(D)
  BY <1>8
<1>10. FlattenSeq(ss) \in Seq(G)
  BY <1>7, <1>9, FlattenType
<1>11. Spurs(ways, goal, closed) = FlattenSeq(ss)
  BY <1>1, <1>4, <1>5, SpursAreFound
<1>12. QED
  BY <1>10, <1>11

\* One round of k_shortest_paths after the first.
NextRound(prev, n, goal, closed) ==
  IF Len(prev.ways) < n - 1 THEN prev
  ELSE TakeCheapest(prev.ways, prev.heap \o Spurs(prev.ways, goal, closed))

Rounds(G) == [ways : Seq(G), heap : Seq(G)]

LEMMA NextRoundGood ==
  ASSUME NEW start, NEW goal, NEW closed, NEW G, G = GoodWays(start, goal, closed),
         NEW prev \in Rounds(G), NEW n \in Nat, n >= 2
  PROVE  NextRound(prev, n, goal, closed) \in Rounds(G)
<1>1. prev.ways \in Seq(G) /\ prev.heap \in Seq(G) /\ Len(prev.ways) \in Nat
  BY DEF Rounds
<1>2. CASE Len(prev.ways) < n - 1
  BY <1>2 DEF NextRound
<1>3. CASE ~(Len(prev.ways) < n - 1)
  <2>1. Len(prev.ways) >= 1
    BY <1>1, <1>3
  <2>2. Spurs(prev.ways, goal, closed) \in Seq(G)
    BY <1>1, <2>1, SpursGood
  <2>3. PICK heap \in Seq(G) : heap = prev.heap \o Spurs(prev.ways, goal, closed)
    BY <1>1, <2>2, ConcatType
  <2>4. NextRound(prev, n, goal, closed) = TakeCheapest(prev.ways, heap)
    BY <1>3, <2>3 DEF NextRound
  <2>5. CASE heap = <<>>
    <3>1. TakeCheapest(prev.ways, heap) = [ways |-> prev.ways, heap |-> heap]
      BY <2>5 DEF TakeCheapest
    <3>2. QED
      BY <1>1, <2>4, <3>1 DEF Rounds
  <2>6. CASE heap # <<>>
    <3>1. heap \in Seq(Ways)
      <4>1. G \subseteq Ways
        BY DEF GoodWays
      <4>2. QED
        BY <4>1
    <3>2. PICK i \in DOMAIN heap : i = Cheapest(heap)
      BY <2>6, <3>1, CheapestIn
    <3>3. heap[i] \in G /\ RemoveAt(heap, i) \in Seq(G)
      BY ElementType, RemoveAtType
    <3>4. Append(prev.ways, heap[i]) \in Seq(G)
      BY <1>1, <3>3
    <3>5. TakeCheapest(prev.ways, heap)
            = [ways |-> Append(prev.ways, heap[i]), heap |-> RemoveAt(heap, i)]
      BY <2>6, <3>2 DEF TakeCheapest
    <3>6. QED
      BY <2>4, <3>3, <3>4, <3>5 DEF Rounds
  <2>7. QED
    BY <2>5, <2>6
<1>4. QED
  BY <1>2, <1>3

\* The equation of k_shortest_paths' recursion.
RoundFun(f, start, goal, closed) ==
  f = [n \in Nat |->
         IF n <= 1 THEN [ways |-> SetToSeq(Dijkstra(start, goal, closed, {})), heap |-> <<>>]
         ELSE NextRound(f[n - 1], n, goal, closed)]

LEMMA PathsAreRounds ==
  ASSUME NEW start, NEW goal, NEW k, NEW closed
  PROVE  KShortestPaths(start, goal, k, closed)
           = (CHOOSE f : RoundFun(f, start, goal, closed))[k].ways
BY DEF KShortestPaths, RoundFun, NextRound

LEMMA RoundsExist ==
  ASSUME NEW start, NEW goal, NEW closed, NEW G, G = GoodWays(start, goal, closed),
         NEW first \in Rounds(G),
         first = [ways |-> SetToSeq(Dijkstra(start, goal, closed, {})), heap |-> <<>>]
  PROVE  \E f : RoundFun(f, start, goal, closed)
<1>1. PICK R : R = Rounds(G)
  OBVIOUS
<1>2. PICK step \in [Nat \X R -> R] :
        \A q \in Nat \X R : step[q] = NextRound(q[2], q[1] + 2, goal, closed)
  <2>1. ASSUME NEW q \in Nat \X R PROVE NextRound(q[2], q[1] + 2, goal, closed) \in R
    <3>1. PICK n \in Nat, prev \in R : q[1] = n /\ q[2] = prev
      OBVIOUS
    <3>2. PICK m \in Nat : m = n + 2
      OBVIOUS
    <3>3. m >= 2
      BY <3>2
    <3>4. NextRound(prev, m, goal, closed) \in R
      BY <1>1, <3>3, NextRoundGood
    <3>5. QED
      BY <3>1, <3>2, <3>4
  <2>2. [q \in Nat \X R |-> NextRound(q[2], q[1] + 2, goal, closed)] \in [Nat \X R -> R]
    BY <2>1
  <2>3. QED
    BY <2>2
<1>3. PICK base \in R : base = first
  BY <1>1
<1>4. PICK g : Staged(g, R, base, step)
  BY Stages
<1>5. g \in [Nat -> R] /\ g[0] = first /\ \A n \in Nat : g[n + 1] = step[<<n, g[n]>>]
  BY <1>3, <1>4 DEF Staged
<1>6. ASSUME NEW n \in Nat PROVE g[n + 1] = NextRound(g[n], n + 2, goal, closed)
  <2>1. PICK q : q = <<n, g[n]>>
    OBVIOUS
  <2>2. q \in Nat \X R /\ q[1] = n /\ q[2] = g[n]
    BY <1>5, <2>1
  <2>3. QED
    BY <1>2, <1>5, <2>1, <2>2
<1>7. PICK f : f = [n \in Nat |-> IF n = 0 THEN first ELSE g[n - 1]]
  OBVIOUS
<1>8. ASSUME NEW n \in Nat
      PROVE  f[n] = IF n <= 1 THEN first ELSE NextRound(f[n - 1], n, goal, closed)
  <2>1. CASE n = 0
    BY <1>7, <2>1
  <2>2. CASE n = 1
    <3>1. f[n] = g[n - 1] /\ n - 1 = 0 /\ n <= 1
      BY <1>7, <2>2
    <3>2. QED
      BY <1>5, <3>1
  <2>3. CASE n # 0 /\ n # 1
    <3>1. /\ n - 2 \in Nat /\ n - 1 \in Nat /\ n - 1 # 0 /\ (n - 2) + 1 = n - 1
          /\ (n - 1) - 1 = n - 2 /\ (n - 2) + 2 = n /\ ~(n <= 1)
      BY <2>3
    <3>2. f[n] = g[n - 1] /\ f[n - 1] = g[n - 2]
      BY <1>7, <2>3, <3>1
    <3>3. g[n - 1] = NextRound(g[n - 2], n, goal, closed)
      BY <1>6, <3>1
    <3>4. QED
      BY <3>1, <3>2, <3>3
  <2>4. QED
    BY <2>1, <2>2, <2>3
<1>9. f = [n \in Nat |-> f[n]]
  BY <1>7
<1>10. f = [n \in Nat |-> IF n <= 1 THEN first ELSE NextRound(f[n - 1], n, goal, closed)]
  BY <1>8, <1>9
<1>11. RoundFun(f, start, goal, closed)
  BY <1>10 DEF RoundFun
<1>12. QED
  BY <1>11

LEMMA ShortestPathsGood ==
  ASSUME NEW start \in Corridors, NEW goal, NEW k \in Nat, NEW closed,
         NEW G, G = GoodWays(start, goal, closed)
  PROVE  KShortestPaths(start, goal, k, closed) \in Seq(G)
<1>1. PICK S : S = Dijkstra(start, goal, closed, {})
  OBVIOUS
<1>2. IsFiniteSet(S) /\ \A w \in S : Drives(w, start, closed) /\ End(w) = goal
  BY <1>1, DijkstraDrives
<1>3. S \subseteq G
  BY <1>2 DEF GoodWays, Drives
<1>4. SetToSeq(S) \in Seq(G)
  BY <1>2, <1>3, SetToSeqType
<1>5. PICK first : first = [ways |-> SetToSeq(S), heap |-> <<>>]
  OBVIOUS
<1>6. first \in Rounds(G)
  BY <1>4, <1>5 DEF Rounds
<1>7. first = [ways |-> SetToSeq(Dijkstra(start, goal, closed, {})), heap |-> <<>>]
  BY <1>1, <1>5
<1>8. PICK f : f = CHOOSE x : RoundFun(x, start, goal, closed)
  OBVIOUS
<1>9. RoundFun(f, start, goal, closed)
  BY <1>6, <1>7, <1>8, RoundsExist
<1>10. \A n \in Nat : f[n] = IF n <= 1 THEN first ELSE NextRound(f[n - 1], n, goal, closed)
  BY <1>7, <1>9 DEF RoundFun
<1> DEFINE T == {n \in Nat : f[n] \in Rounds(G)}
<1>11. 0 \in T
  <2>1. 0 <= 1
    OBVIOUS
  <2>2. QED
    BY <1>6, <1>10, <2>1
<1>12. ASSUME NEW n \in T PROVE n + 1 \in T
  <2>1. n + 1 \in Nat /\ (n + 1) - 1 = n /\ f[n] \in Rounds(G)
    OBVIOUS
  <2>2. PICK m \in Nat : m = n + 1
    OBVIOUS
  <2>3. CASE m <= 1
    BY <1>6, <1>10, <2>2, <2>3
  <2>4. CASE ~(m <= 1)
    <3>1. m >= 2 /\ m - 1 = n
      BY <2>2, <2>4
    <3>2. f[m] = NextRound(f[n], m, goal, closed)
      BY <1>10, <2>4, <3>1
    <3>3. NextRound(f[n], m, goal, closed) \in Rounds(G)
      BY <2>1, <3>1, NextRoundGood
    <3>4. QED
      BY <2>2, <3>2, <3>3
  <2>5. QED
    BY <2>3, <2>4
<1>13. T \in SUBSET Nat
  OBVIOUS
<1> HIDE DEF T
<1>14. T = Nat
  BY <1>11, <1>12, <1>13, Induction
<1>15. f[k] \in Rounds(G)
  BY <1>14 DEF T
<1>16. KShortestPaths(start, goal, k, closed) = f[k].ways
  BY <1>8, PathsAreRounds
<1>17. QED
  BY <1>15, <1>16 DEF Rounds

------------------------------------------------------------------------------
(* The routes offered.                                                        *)

LEMMA WithoutType ==
  ASSUME NEW S, NEW list \in Seq(S), NEW corridor
  PROVE  Without(list, corridor) \in Seq(S)
<1>1. PICK D : D = Seq(S)
  OBVIOUS
<1>2. PICK ss : ss = [n \in DOMAIN list |-> IF list[n] = corridor THEN <<>> ELSE <<list[n]>>]
  OBVIOUS
<1>3. ASSUME NEW n \in DOMAIN list PROVE ss[n] \in D
  <2>1. PICK e \in S : e = list[n]
    BY ElementType
  <2>2. <<>> \in Seq(S) /\ <<e>> \in Seq(S)
    OBVIOUS
  <2>3. QED
    BY <1>1, <1>2, <2>1, <2>2
<1>4. PICK N \in Nat : DOMAIN list = 1 .. N
  OBVIOUS
<1>5. ss \in [1 .. N -> D]
  BY <1>2, <1>3, <1>4
<1>6. ss \in Seq(D)
  BY <1>5
<1>7. QED
  BY <1>1, <1>2, <1>6, FlattenType DEF Without

LEMMA NeighborsType ==
  ASSUME NEW corridor
  PROVE  \A c \in ToSet(NeighborsOf(corridor)) : c \in Corridors
<1>1. CASE Listed(corridor) # <<>>
  <2>1. NeighborsOf(corridor) = Listed(corridor)
    BY <1>1 DEF NeighborsOf
  <2>2. QED
    BY <2>1, ListsStay
<1>2. CASE Listed(corridor) = <<>>
  <2>1. PICK s : s = Without(DefaultNeighbors, corridor)
    OBVIOUS
  <2>2. s \in Seq(Corridors)
    BY <2>1, DiversionAssumption, WithoutType
  <2>3. \A n \in DOMAIN s : s[n] \in Corridors
    BY <2>2, ElementType
  <2>4. NeighborsOf(corridor) = s
    BY <1>2, <2>1 DEF NeighborsOf
  <2>5. QED
    BY <2>3, <2>4 DEF ToSet
<1>3. QED
  BY <1>1, <1>2

------------------------------------------------------------------------------
(* The ways between neighbours: those that grow edge by edge are those that   *)
(* can be driven.                                                             *)

NeighborEnds(corridor) == ToSet(NeighborsOf(corridor)) \ {corridor}

\* The ways by which a way goes on.
Longer(w, corridor) ==
  {Way(Append(w.path, v), w.cost + EdgeWeight(End(w), v)) :
     v \in Adjacency[End(w)] \ (ToSet(w.path) \cup {corridor})}

Grown(s, corridor) == UNION {Longer(w, corridor) : w \in s}

GrowFun(f, corridor) ==
  f = [n \in Nat |-> IF n <= 1 THEN {Way(<<c>>, 0) : c \in NeighborEnds(corridor)}
                     ELSE Grown(f[n - 1], corridor)]

LEMMA SimpleWaysGrow ==
  ASSUME NEW corridor
  PROVE  SimpleWays(corridor)
           = UNION {{w \in (CHOOSE f : GrowFun(f, corridor))[n] : End(w) \in NeighborEnds(corridor)}
                      : n \in 2 .. Cardinality(Corridors)}
BY DEF SimpleWays, GrowFun, Grown, Longer, NeighborEnds

\* Ways of n corridors that can be driven.
OfLength(s, n, corridor) ==
  \A w \in s : Len(w.path) = n /\ \E start \in NeighborEnds(corridor) : Drives(w, start, {corridor})

LEMMA GrownDrives ==
  ASSUME NEW corridor, NEW n \in Nat, NEW s, OfLength(s, n, corridor)
  PROVE  OfLength(Grown(s, corridor), n + 1, corridor)
<1> SUFFICES ASSUME NEW x \in Grown(s, corridor)
             PROVE  Len(x.path) = n + 1
                    /\ \E start \in NeighborEnds(corridor) : Drives(x, start, {corridor})
  BY DEF OfLength
<1>1. PICK w \in s : x \in Longer(w, corridor)
  BY DEF Grown
<1>2. PICK v \in Adjacency[End(w)] \ (ToSet(w.path) \cup {corridor}) :
        x = Way(Append(w.path, v), w.cost + EdgeWeight(End(w), v))
  BY <1>1 DEF Longer
<1>3. PICK start \in NeighborEnds(corridor) : Drives(w, start, {corridor})
  BY DEF OfLength
<1>4. w \in Ways /\ Len(w.path) = n
  BY <1>3 DEF Drives, OfLength
<1>5. w.path \in Seq(Corridors) /\ DOMAIN w.path = 1 .. Len(w.path)
  BY <1>4 DEF Ways
<1>6. \A m \in 1 .. Len(w.path) : w.path[m] # v
  BY <1>2, <1>5 DEF ToSet
<1>7. v \in Adjacency[End(w)] /\ v \notin {corridor}
  BY <1>2
<1>8. Drives(x, start, {corridor})
  BY <1>2, <1>3, <1>6, <1>7, DrivesOn
<1>9. Len(x.path) = n + 1
  <2>1. x.path = Append(w.path, v)
    BY <1>2 DEF Way
  <2>2. Len(Append(w.path, v)) = Len(w.path) + 1
    BY <1>5
  <2>3. QED
    BY <1>4, <2>1, <2>2
<1>10. QED
  BY <1>3, <1>8, <1>9

LEMMA ShortWays ==
  ASSUME NEW corridor
  PROVE  OfLength({Way(<<c>>, 0) : c \in NeighborEnds(corridor)}, 1, corridor)
<1> SUFFICES ASSUME NEW c \in NeighborEnds(corridor), NEW w, w = Way(<<c>>, 0)
             PROVE  Len(w.path) = 1 /\ Drives(w, c, {corridor})
  BY DEF OfLength
<1>1. c \in Corridors /\ c \notin {corridor}
  BY NeighborsType DEF NeighborEnds
<1>2. SettledWays({w}, c, {corridor})
  BY <1>1, NoWayYet
<1>3. Drives(w, c, {corridor})
  BY <1>2 DEF SettledWays
<1>4. w.path = <<c>>
  BY DEF Way
<1>5. QED
  BY <1>3, <1>4

Grows(f, corridor) ==
  /\ f[1] = {Way(<<c>>, 0) : c \in NeighborEnds(corridor)}
  /\ \A n \in Nat \ {0} : f[n + 1] = Grown(f[n], corridor) /\ OfLength(f[n], n, corridor)
  /\ SimpleWays(corridor)
       = UNION {{w \in f[n] : End(w) \in NeighborEnds(corridor)} : n \in 2 .. Cardinality(Corridors)}

LEMMA GrowFunExists ==
  ASSUME NEW corridor
  PROVE  \E f : GrowFun(f, corridor)
<1> DEFINE next(s) == Grown(s, corridor)
           short == {Way(<<c>>, 0) : c \in NeighborEnds(corridor)}
           D == {s \in SUBSET Ways : \E n \in Nat : OfLength(s, n, corridor)}
<1>1. ASSUME NEW s, NEW n \in Nat, OfLength(s, n, corridor) PROVE s \in D
  <2>1. s \in SUBSET Ways
    BY <1>1 DEF OfLength, Drives
  <2>2. QED
    BY <1>1, <2>1
<1>2. ASSUME NEW s \in D PROVE next(s) \in D
  <2>1. PICK n \in Nat : OfLength(s, n, corridor)
    OBVIOUS
  <2>2. OfLength(next(s), n + 1, corridor)
    BY <2>1, GrownDrives
  <2>3. n + 1 \in Nat
    OBVIOUS
  <2> HIDE DEF D, next
  <2>4. QED
    BY <1>1, <2>2, <2>3
<1>3. short \in D
  <2>1. OfLength(short, 1, corridor)
    BY ShortWays
  <2>2. 1 \in Nat
    OBVIOUS
  <2> HIDE DEF D, short
  <2>3. QED
    BY <1>1, <2>1, <2>2
<1> HIDE DEF next, short, D
<1>4. PICK step \in [D -> D] : \A s \in D : step[s] = next(s)
  <2>1. [s \in D |-> next(s)] \in [D -> D]
    BY <1>2
  <2>2. QED
    BY <2>1
<1>5. PICK g : Iterates(g, D, short, step)
  BY <1>3, Iteration
<1>6. g \in [Nat -> D] /\ g[0] = short /\ \A n \in Nat : g[n + 1] = next(g[n])
  BY <1>4, <1>5 DEF Iterates
<1>7. PICK f : f = [n \in Nat |-> IF n = 0 THEN short ELSE g[n - 1]]
  OBVIOUS
<1>8. ASSUME NEW n \in Nat PROVE f[n] = IF n <= 1 THEN short ELSE next(f[n - 1])
  <2>1. CASE n = 0
    BY <1>7, <2>1
  <2>2. CASE n = 1
    <3>1. f[n] = g[n - 1] /\ n - 1 = 0 /\ n <= 1
      BY <1>7, <2>2
    <3>2. QED
      BY <1>6, <3>1
  <2>3. CASE n # 0 /\ n # 1
    <3>1. /\ n - 2 \in Nat /\ n - 1 \in Nat /\ n - 1 # 0 /\ (n - 2) + 1 = n - 1
          /\ (n - 1) - 1 = n - 2 /\ ~(n <= 1)
      BY <2>3
    <3>2. f[n] = g[n - 1] /\ f[n - 1] = g[n - 2]
      BY <1>7, <2>3, <3>1
    <3>3. g[n - 1] = next(g[n - 2])
      BY <1>6, <3>1
    <3>4. QED
      BY <3>1, <3>2, <3>3
  <2>4. QED
    BY <2>1, <2>2, <2>3
<1>9. f = [n \in Nat |-> f[n]]
  BY <1>7
<1>10. f = [n \in Nat |-> IF n <= 1 THEN short ELSE next(f[n - 1])]
  BY <1>8, <1>9
<1>11. GrowFun(f, corridor)
  BY <1>10 DEF GrowFun, short, next
<1>12. QED
  BY <1>11

LEMMA WaysGrow ==
  ASSUME NEW corridor
  PROVE  \E f : Grows(f, corridor)
<1>1. PICK f : f = CHOOSE x : GrowFun(x, corridor)
  OBVIOUS
<1>2. GrowFun(f, corridor)
  BY <1>1, GrowFunExists
<1>3. \A n \in Nat : f[n] = IF n <= 1 THEN {Way(<<c>>, 0) : c \in NeighborEnds(corridor)}
                            ELSE Grown(f[n - 1], corridor)
  BY <1>2 DEF GrowFun
<1>4. f[1] = {Way(<<c>>, 0) : c \in NeighborEnds(corridor)}
  <2>1. 1 \in Nat /\ 1 <= 1
    OBVIOUS
  <2>2. QED
    BY <1>3, <2>1
<1>5. ASSUME NEW n \in Nat \ {0} PROVE f[n + 1] = Grown(f[n], corridor)
  <2>1. n + 1 \in Nat /\ ~(n + 1 <= 1) /\ (n + 1) - 1 = n
    OBVIOUS
  <2>2. QED
    BY <1>3, <2>1
<1>6. ASSUME NEW n \in Nat \ {0} PROVE OfLength(f[n], n, corridor)
  <2> DEFINE T == {m \in Nat : OfLength(f[m + 1], m + 1, corridor)}
  <2>1. 0 \in T
    <3>1. 0 + 1 = 1
      OBVIOUS
    <3>2. QED
      BY <1>4, <3>1, ShortWays
  <2>2. ASSUME NEW m \in T PROVE m + 1 \in T
    <3>1. m + 1 \in Nat \ {0} /\ OfLength(f[m + 1], m + 1, corridor)
      OBVIOUS
    <3>2. f[(m + 1) + 1] = Grown(f[m + 1], corridor)
      BY <1>5, <3>1
    <3>3. OfLength(Grown(f[m + 1], corridor), (m + 1) + 1, corridor)
      BY <3>1, GrownDrives
    <3>4. QED
      BY <3>1, <3>2, <3>3
  <2>3. T \in SUBSET Nat
    OBVIOUS
  <2> HIDE DEF T
  <2>4. T = Nat
    BY <2>1, <2>2, <2>3, Induction
  <2>5. n - 1 \in T /\ (n - 1) + 1 = n
    BY <2>4
  <2>6. QED
    BY <2>5 DEF T
<1>7. QED
  BY <1>1, <1>4, <1>5, <1>6, SimpleWaysGrow DEF Grows

\* The first m corridors of a way, as a way.
Beginning(x, m) == Way(SubSeq(x.path, 1, m), CostTo(x.path, m))

LEMMA DrivesFacts ==
  ASSUME NEW x, NEW start, NEW shut, Drives(x, start, shut)
  PROVE  /\ x \in Ways /\ x.path \in Seq(Corridors) /\ Len(x.path) \in Nat /\ Len(x.path) >= 1
         /\ DOMAIN x.path = 1 .. Len(x.path)
         /\ x.path[1] = start /\ End(x) = x.path[Len(x.path)] /\ End(x) \in Corridors
         /\ Legs(x.path) /\ x.cost = CostTo(x.path, Len(x.path)) /\ x.cost \in Nat
<1>1. x \in Ways /\ Len(x.path) >= 1 /\ x.path[1] = start /\ x.cost = PathCost(x.path)
  BY DEF Drives
<1>2. /\ x.path \in Seq(Corridors) /\ x.cost \in Nat /\ Len(x.path) \in Nat
      /\ End(x) = x.path[Len(x.path)] /\ End(x) \in Corridors
  BY <1>1, EndType
<1>3. DOMAIN x.path = 1 .. Len(x.path)
  BY <1>2
<1>4. QED
  BY <1>1, <1>2, <1>3, LegsAddUp, CostToAll

LEMMA BeginningGrows ==
  ASSUME NEW corridor, NEW f, Grows(f, corridor),
         NEW start \in NeighborEnds(corridor), NEW x, Drives(x, start, {corridor})
  PROVE  x \in f[Len(x.path)]
<1>1. PICK p : p = x.path
  OBVIOUS
<1>2. /\ p \in Seq(Corridors) /\ Len(p) \in Nat /\ Len(p) >= 1 /\ DOMAIN p = 1 .. Len(p)
      /\ p[1] = start /\ Legs(p) /\ x.cost = CostTo(p, Len(p)) /\ x \in Ways
  BY <1>1, DrivesFacts
<1>3. /\ \A n \in 2 .. Len(p) : p[n] \in Adjacency[p[n - 1]]
      /\ \A m, n \in 1 .. Len(p) : p[m] = p[n] => m = n
      /\ \A n \in 1 .. Len(p) : p[n] \notin {corridor}
  BY <1>1 DEF Drives
<1> DEFINE T == {m \in Nat : m + 1 <= Len(p) => Beginning(x, m + 1) \in f[m + 1]}
<1>4. 0 \in T
  <2>1. SubSeq(p, 1, 1) = <<p[1]>>
    <3>1. PICK s : s = SubSeq(p, 1, 1)
      OBVIOUS
    <3>2. Begins(s, p, 1, Corridors)
      <4>1. 1 \in Nat /\ 1 <= Len(p)
        BY <1>2
      <4>2. QED
        BY <1>2, <3>1, <4>1, SubSeqBegins
    <3>3. s \in Seq(Corridors) /\ Len(s) = 1
      BY <3>2 DEF Begins
    <3>4. s[1] = p[1]
      <4>1. 1 \in 1 .. 1
        OBVIOUS
      <4>2. QED
        BY <3>2, <4>1 DEF Begins
    <3>5. s = <<s[1]>>
      BY <3>3
    <3>6. QED
      BY <3>1, <3>4, <3>5
  <2>2. CostTo(p, 1) = 0
    BY <1>2 DEF Legs
  <2>3. Beginning(x, 1) = Way(<<start>>, 0)
    BY <1>1, <1>2, <2>1, <2>2 DEF Beginning
  <2>4. Beginning(x, 1) \in f[1]
    BY <2>3 DEF Grows
  <2>5. 0 + 1 = 1
    OBVIOUS
  <2>6. QED
    BY <2>4, <2>5
<1>5. ASSUME NEW m \in T PROVE m + 1 \in T
  <2>1. PICK n \in Nat \ {0} : n = m + 1
    OBVIOUS
  <2>2. CASE n + 1 <= Len(p)
    <3>1. n \in 1 .. Len(p) /\ n + 1 \in 2 .. Len(p) /\ (n + 1) - 1 = n /\ n + 1 \in 1 .. Len(p)
          /\ n \in 1 .. Len(p) - 1 /\ n <= Len(p)
      BY <1>2, <2>2
    <3>2. PICK w : w = Beginning(x, n)
      OBVIOUS
    <3>3. w \in f[n]
      BY <2>1, <3>1, <3>2
    <3>4. PICK s \in Seq(Corridors) : s = SubSeq(p, 1, n) /\ Len(s) = n
                                      /\ \A i \in 1 .. n : s[i] = p[i]
      <4>1. Begins(SubSeq(p, 1, n), p, n, Corridors)
        BY <1>2, <3>1, SubSeqBegins
      <4>2. QED
        BY <4>1 DEF Begins
    <3>5. w.path = s /\ w.cost = CostTo(p, n)
      BY <1>1, <3>2, <3>4 DEF Beginning, Way
    <3>6. End(w) = p[n]
      BY <3>1, <3>4, <3>5 DEF End
    <3>7. p[n + 1] \in Adjacency[End(w)]
      BY <1>3, <3>1, <3>6
    <3>8. p[n + 1] \notin ToSet(s)
      <4>1. \A i \in 1 .. n : s[i] # p[n + 1]
        <5>1. ASSUME NEW i \in 1 .. n PROVE p[i] # p[n + 1]
          <6>1. i \in 1 .. Len(p) /\ i # n + 1
            BY <3>1, <1>2
          <6>2. QED
            BY <1>3, <3>1, <6>1
        <5>2. QED
          BY <3>4, <5>1
      <4>2. DOMAIN s = 1 .. n
        BY <3>4
      <4>3. QED
        BY <4>1, <4>2 DEF ToSet
    <3>9. p[n + 1] \notin {corridor}
      BY <1>3, <3>1
    <3>10. PICK v : v = p[n + 1]
      OBVIOUS
    <3>11. v \in Adjacency[End(w)] \ (ToSet(w.path) \cup {corridor})
      BY <3>5, <3>7, <3>8, <3>9, <3>10
    <3>12. Way(Append(w.path, v), w.cost + EdgeWeight(End(w), v)) \in Longer(w, corridor)
      BY <3>11 DEF Longer
    <3>13. Append(s, v) = SubSeq(p, 1, n + 1)
      BY <1>2, <3>1, <3>4, <3>10
    <3>14. CostTo(p, n + 1) = CostTo(p, n) + EdgeWeight(p[n], p[n + 1])
      BY <1>2, <3>1 DEF Legs
    <3>15. Beginning(x, n + 1) = Way(Append(w.path, v), w.cost + EdgeWeight(End(w), v))
      BY <1>1, <3>5, <3>6, <3>10, <3>13, <3>14 DEF Beginning
    <3>16. Beginning(x, n + 1) \in Grown(f[n], corridor)
      BY <3>3, <3>12, <3>15 DEF Grown
    <3>17. Beginning(x, n + 1) \in f[n + 1]
      BY <3>16 DEF Grows
    <3>18. QED
      BY <2>1, <3>17
  <2>3. CASE ~(n + 1 <= Len(p))
    BY <2>1, <2>3
  <2>4. QED
    BY <2>2, <2>3
<1>6. T \in SUBSET Nat
  OBVIOUS
<1> HIDE DEF T
<1>7. T = Nat
  BY <1>4, <1>5, <1>6, Induction
<1>8. Len(p) - 1 \in T /\ (Len(p) - 1) + 1 = Len(p)
  BY <1>2, <1>7
<1>9. Beginning(x, Len(p)) \in f[Len(p)]
  BY <1>2, <1>8 DEF T
<1>10. Beginning(x, Len(p)) = x
  <2>1. SubSeq(p, 1, Len(p)) = p
    BY <1>2
  <2>2. x = [path |-> p, cost |-> CostTo(p, Len(p))]
    BY <1>1, <1>2 DEF Ways
  <2>3. QED
    BY <1>1, <2>1, <2>2 DEF Beginning, Way
<1>11. QED
  BY <1>1, <1>9, <1>10

(* A way passes each corridor once, so it is no longer than there are. *)
LEMMA WaysAreShort ==
  ASSUME NEW x, NEW start, NEW shut, Drives(x, start, shut)
  PROVE  Len(x.path) <= Cardinality(Corridors)
<1>1. PICK p : p = x.path
  OBVIOUS
<1>2. p \in Seq(Corridors) /\ Len(p) \in Nat /\ DOMAIN p = 1 .. Len(p)
  BY <1>1, DrivesFacts
<1>3. \A m, n \in 1 .. Len(p) : p[m] = p[n] => m = n
  BY <1>1 DEF Drives
<1>4. PICK I : I = 1 .. Len(p)
  OBVIOUS
<1>5. p \in [I -> Corridors]
  BY <1>2, <1>4
<1>6. p \in Injection(I, Corridors)
  BY <1>3, <1>4, <1>5 DEF Injection, IsInjective
<1>7. Cardinality(I) <= Cardinality(Corridors)
  BY <1>6, CorridorAssumption, FS_Injection
<1>8. Cardinality(I) = Len(p)
  BY <1>2, <1>4, FS_Interval
<1>9. QED
  BY <1>1, <1>7, <1>8

LEMMA GoodIsSimple ==
  ASSUME NEW corridor, NEW p \in ToSet(NeighborsOf(corridor)),
         NEW q \in ToSet(NeighborsOf(corridor)), p # q, NEW w \in GoodWays(p, q, {corridor})
  PROVE  w \in SimpleWays(corridor) /\ w.path[1] = p /\ End(w) = q
<1>1. Drives(w, p, {corridor}) /\ End(w) = q
  BY DEF GoodWays
<1>2. PICK l \in Nat : l = Len(w.path)
  BY <1>1, DrivesFacts
<1>3. /\ l >= 1 /\ w.path[1] = p /\ w.path[l] = q
      /\ \A n \in 1 .. l : w.path[n] \notin {corridor}
  BY <1>1, <1>2, DrivesFacts DEF Drives
<1>4. l # 1
  BY <1>3
<1>5. l >= 2 /\ 1 \in 1 .. l /\ l \in 1 .. l
  BY <1>3, <1>4
<1>6. p # corridor /\ q # corridor
  BY <1>3, <1>5
<1>7. p \in NeighborEnds(corridor) /\ q \in NeighborEnds(corridor)
  BY <1>6 DEF NeighborEnds
<1>8. PICK f : Grows(f, corridor)
  BY WaysGrow
<1>9. w \in f[l]
  BY <1>1, <1>2, <1>7, <1>8, BeginningGrows
<1>10. l <= Cardinality(Corridors) /\ Cardinality(Corridors) \in Nat
  BY <1>1, <1>2, WaysAreShort, CorridorAssumption, FS_CardinalityType
<1>11. l \in 2 .. Cardinality(Corridors)
  BY <1>5, <1>10
<1>12. w \in SimpleWays(corridor)
  BY <1>1, <1>7, <1>8, <1>9, <1>11 DEF Grows
<1>13. QED
  BY <1>1, <1>3, <1>12

LEMMA SimpleIsGood ==
  ASSUME NEW corridor, NEW w \in SimpleWays(corridor)
  PROVE  /\ w.path[1] \in ToSet(NeighborsOf(corridor)) /\ End(w) \in ToSet(NeighborsOf(corridor))
         /\ w.path[1] # End(w)
         /\ w \in GoodWays(w.path[1], End(w), {corridor})
<1>1. PICK f : Grows(f, corridor)
  BY WaysGrow
<1>2. PICK n \in 2 .. Cardinality(Corridors) : w \in f[n] /\ End(w) \in NeighborEnds(corridor)
  BY <1>1 DEF Grows
<1>3. n \in Nat \ {0} /\ n # 1 /\ n >= 1
  <2>1. Cardinality(Corridors) \in Nat
    BY CorridorAssumption, FS_CardinalityType
  <2>2. QED
    BY <2>1
<1>4. OfLength(f[n], n, corridor)
  BY <1>1, <1>3 DEF Grows
<1>5. PICK start \in NeighborEnds(corridor) : Drives(w, start, {corridor})
  BY <1>2, <1>4 DEF OfLength
<1>6. Len(w.path) = n
  BY <1>2, <1>4 DEF OfLength
<1>7. w.path[1] = start /\ End(w) = w.path[n] /\ w \in Ways
  BY <1>5, <1>6, DrivesFacts
<1>8. 1 \in 1 .. n /\ n \in 1 .. n
  BY <1>3
<1>9. w.path[1] # w.path[n]
  BY <1>3, <1>5, <1>6, <1>8 DEF Drives
<1>10. w \in GoodWays(w.path[1], End(w), {corridor})
  BY <1>5, <1>7 DEF GoodWays
<1>11. QED
  BY <1>2, <1>5, <1>7, <1>9, <1>10 DEF NeighborEnds

LEMMA BetweenIsGood ==
  ASSUME NEW corridor, NEW p \in ToSet(NeighborsOf(corridor)),
         NEW q \in ToSet(NeighborsOf(corridor)), p # q
  PROVE  Between(SimpleWays(corridor), p, q) = GoodWays(p, q, {corridor})
<1>1. ASSUME NEW w \in Between(SimpleWays(corridor), p, q)
      PROVE  w \in GoodWays(p, q, {corridor})
  <2>1. w \in SimpleWays(corridor) /\ w.path[1] = p /\ End(w) = q
    BY DEF Between
  <2>2. w \in GoodWays(w.path[1], End(w), {corridor})
    BY <2>1, SimpleIsGood
  <2>3. QED
    BY <2>1, <2>2
<1>2. ASSUME NEW w \in GoodWays(p, q, {corridor})
      PROVE  w \in Between(SimpleWays(corridor), p, q)
  <2>1. w \in SimpleWays(corridor) /\ w.path[1] = p /\ End(w) = q
    BY GoodIsSimple
  <2>2. QED
    BY <2>1 DEF Between
<1>3. QED
  BY <1>1, <1>2

------------------------------------------------------------------------------
(* The search of M08: what it settles is the cheapest way none of whose edges *)
(* is cut.                                                                    *)

LEMMA CostGrows ==
  ASSUME NEW p \in Seq(Corridors), NEW m \in Nat, m >= 1, NEW n \in Nat, m <= n, n <= Len(p)
  PROVE  CostTo(p, m) <= CostTo(p, n)
<1>1. Legs(p) /\ Len(p) \in Nat
  BY LegsAddUp
<1> DEFINE T == {i \in Nat : m + i <= Len(p) => CostTo(p, m) <= CostTo(p, m + i)}
<1>2. 0 \in T
  <2>1. m + 0 = m /\ (m <= Len(p) => m \in 1 .. Len(p))
    BY <1>1
  <2>2. m <= Len(p) => CostTo(p, m) \in Nat
    BY <1>1, <2>1 DEF Legs
  <2>3. m <= Len(p) => CostTo(p, m) <= CostTo(p, m)
    BY <2>2
  <2>4. QED
    BY <2>1, <2>3
<1>3. ASSUME NEW i \in T PROVE i + 1 \in T
  <2>1. CASE m + (i + 1) <= Len(p)
    <3>1. PICK l \in Nat : l = m + i
      OBVIOUS
    <3>2. l \in 1 .. Len(p) - 1 /\ l <= Len(p) /\ l + 1 = m + (i + 1) /\ m \in 1 .. Len(p)
          /\ l \in 1 .. Len(p)
      BY <1>1, <2>1, <3>1
    <3>3. CostTo(p, l + 1) = CostTo(p, l) + EdgeWeight(p[l], p[l + 1])
      BY <1>1, <3>2 DEF Legs
    <3>4. PICK a \in Nat, b \in Nat, e \in Nat :
            a = CostTo(p, m) /\ b = CostTo(p, l) /\ e = EdgeWeight(p[l], p[l + 1])
      BY <1>1, <3>2, WeightType DEF Legs
    <3>5. a <= b
      BY <3>1, <3>2, <3>4
    <3>6. a <= b + e
      BY <3>5
    <3>7. CostTo(p, m) <= CostTo(p, m + (i + 1))
      BY <3>2, <3>3, <3>4, <3>6
    <3>8. QED
      BY <3>7
  <2>2. QED
    BY <2>1
<1>4. T \in SUBSET Nat
  OBVIOUS
<1> HIDE DEF T
<1>5. T = Nat
  BY <1>2, <1>3, <1>4, Induction
<1>6. n - m \in T /\ m + (n - m) = n
  BY <1>5
<1>7. QED
  BY <1>6 DEF T

\* No edge of the way is cut.
Uncut(x, cut) == \A n \in 2 .. Len(x.path) : {x.path[n - 1], x.path[n]} \notin cut

\* Each corridor is settled once, by a way none of whose edges is cut, and no such way to
\* it is cheaper.
Optimal(done, start, shut, cut) ==
  /\ SettledWays(done, start, shut) /\ start \in Ends(done)
  /\ \A w \in done : Uncut(w, cut)
  /\ \A w, y \in done : End(w) = End(y) => w = y
  /\ \A x : Drives(x, start, shut) /\ Uncut(x, cut) =>
       \A n \in 1 .. Len(x.path) : \A w \in done : End(w) = x.path[n] => w.cost <= CostTo(x.path, n)

LEMMA NoWayOptimal ==
  ASSUME NEW start \in Corridors, NEW shut, start \notin shut, NEW cut
  PROVE  Optimal({Way(<<start>>, 0)}, start, shut, cut)
<1>1. PICK w : w = Way(<<start>>, 0)
  OBVIOUS
<1>2. w.path = <<start>> /\ w.cost = 0 /\ SettledWays({w}, start, shut)
  BY <1>1, NoWayYet DEF Way
<1>3. End(w) = start
  BY <1>2 DEF End
<1>4. start \in Ends({w})
  BY <1>3 DEF Ends
<1>5. ASSUME NEW x, Drives(x, start, shut), NEW n \in 1 .. Len(x.path)
      PROVE  w.cost <= CostTo(x.path, n)
  <2>1. Legs(x.path)
    BY <1>5, DrivesFacts
  <2>2. CostTo(x.path, n) \in Nat
    BY <2>1 DEF Legs
  <2>3. QED
    BY <1>2, <2>2
<1>6. Uncut(w, cut)
  <2>1. Len(w.path) = 1 /\ 2 .. 1 = {}
    BY <1>2
  <2>2. QED
    BY <2>1 DEF Uncut
<1>7. QED
  BY <1>1, <1>2, <1>4, <1>5, <1>6 DEF Optimal

(* A way leaves what is settled over the frontier. *)
LEMMA WayLeaves ==
  ASSUME NEW start, NEW shut, NEW cut, NEW done, Optimal(done, start, shut, cut),
         NEW x, Drives(x, start, shut), Uncut(x, cut),
         NEW n \in 1 .. Len(x.path), x.path[n] \notin Ends(done)
  PROVE  \E y \in Frontier(done, shut, cut) : y.cost <= CostTo(x.path, n)
<1>1. PICK p : p = x.path
  OBVIOUS
<1>2. /\ p \in Seq(Corridors) /\ Len(p) \in Nat /\ Len(p) >= 1 /\ p[1] = start /\ Legs(p)
  BY <1>1, DrivesFacts
<1>3. /\ \A m \in 2 .. Len(p) : p[m] \in Adjacency[p[m - 1]]
      /\ \A m \in 1 .. Len(p) : p[m] \notin shut
      /\ \A m \in 2 .. Len(p) : {p[m - 1], p[m]} \notin cut
  BY <1>1 DEF Drives, Uncut
<1>4. PICK T : T = {m \in 1 .. n : p[m] \notin Ends(done)}
  OBVIOUS
<1>5. T \in SUBSET Nat /\ n \in T
  BY <1>1, <1>4
<1>6. PICK m \in T : \A i \in T : m <= i
  BY <1>5, LeastNumber
<1>7. m # 1
  BY <1>2, <1>4 DEF Optimal
<1>8. m \in 2 .. Len(p) /\ m - 1 \in 1 .. Len(p) /\ m - 1 \in 1 .. n /\ m - 1 \in 1 .. Len(p) - 1
      /\ m \in 1 .. Len(p) /\ (m - 1) + 1 = m /\ m \in Nat /\ m >= 1 /\ m <= n /\ n <= Len(p)
      /\ n \in Nat /\ m - 1 \in Nat
  BY <1>1, <1>2, <1>4, <1>7
<1>9. m - 1 \notin T
  <2>1. ~(m <= m - 1)
    BY <1>8
  <2>2. QED
    BY <1>6, <2>1
<1>10. p[m - 1] \in Ends(done)
  BY <1>4, <1>8, <1>9
<1>11. PICK w \in done : End(w) = p[m - 1]
  BY <1>10 DEF Ends
<1>12. PICK v : v = p[m]
  OBVIOUS
<1>13. v \in {c \in Adjacency[End(w)] \ (shut \cup Ends(done)) : {End(w), c} \notin cut}
  BY <1>3, <1>4, <1>8, <1>11, <1>12
<1>14. PICK y : y = Way(Append(w.path, v), w.cost + EdgeWeight(End(w), v))
  OBVIOUS
<1>15. y \in Frontier(done, shut, cut)
  <2>1. y \in Onward(w, done, shut, cut)
    BY <1>13, <1>14 DEF Onward
  <2>2. QED
    BY <2>1 DEF Frontier
<1>16. w.cost \in Nat /\ w.cost <= CostTo(p, m - 1)
  <2>1. w.cost \in Nat
    BY DEF Optimal, SettledWays, Ways
  <2>2. w.cost <= CostTo(p, m - 1)
    BY <1>1, <1>8, <1>11 DEF Optimal
  <2>3. QED
    BY <2>1, <2>2
<1>17. CostTo(p, (m - 1) + 1) = CostTo(p, m - 1) + EdgeWeight(p[m - 1], p[(m - 1) + 1])
  BY <1>2, <1>8 DEF Legs
<1>18. PICK a \in Nat, b \in Nat, e \in Nat, c \in Nat :
         /\ a = w.cost /\ b = CostTo(p, m - 1) /\ e = EdgeWeight(p[m - 1], p[m]) /\ c = CostTo(p, n)
  BY <1>1, <1>2, <1>8, <1>16, WeightType DEF Legs
<1>19. CostTo(p, m) = b + e
  BY <1>8, <1>17, <1>18
<1>20. CostTo(p, m) <= c
  BY <1>2, <1>8, <1>18, CostGrows
<1>21. y.cost = a + e
  BY <1>11, <1>12, <1>14, <1>18 DEF Way
<1>22. a <= b
  BY <1>16, <1>18
<1>23. a + e <= c
  BY <1>19, <1>20, <1>22
<1>24. QED
  BY <1>1, <1>15, <1>18, <1>21, <1>23

\* A way of the frontier ends where nothing is settled, and no edge of it is cut.
LEMMA FrontierIsNew ==
  ASSUME NEW start, NEW shut, NEW cut, NEW done, Optimal(done, start, shut, cut),
         NEW w \in Frontier(done, shut, cut)
  PROVE  End(w) \notin Ends(done) /\ Uncut(w, cut)
<1>1. PICK u \in done :
        \E v \in {v \in Adjacency[End(u)] \ (shut \cup Ends(done)) : {End(u), v} \notin cut} :
          w = Way(Append(u.path, v), u.cost + EdgeWeight(End(u), v))
  <2>1. PICK u \in done : w \in Onward(u, done, shut, cut)
    BY DEF Frontier
  <2>2. QED
    BY <2>1 DEF Onward
<1>2. PICK v \in {v \in Adjacency[End(u)] \ (shut \cup Ends(done)) : {End(u), v} \notin cut} :
        w = Way(Append(u.path, v), u.cost + EdgeWeight(End(u), v))
  BY <1>1
<1>3. v \notin Ends(done) /\ {End(u), v} \notin cut
  BY <1>2
<1>4. Drives(u, start, shut) /\ Uncut(u, cut)
  BY DEF Optimal, SettledWays
<1>5. /\ u.path \in Seq(Corridors) /\ Len(u.path) \in Nat /\ Len(u.path) >= 1
      /\ End(u) = u.path[Len(u.path)]
  BY <1>4, DrivesFacts
<1>6. w.path = Append(u.path, v)
  BY <1>2 DEF Way
<1>7. /\ Len(w.path) = Len(u.path) + 1 /\ w.path[Len(u.path) + 1] = v
      /\ \A n \in 1 .. Len(u.path) : w.path[n] = u.path[n]
  BY <1>5, <1>6
<1>8. End(w) = v
  BY <1>7 DEF End
<1>9. ASSUME NEW n \in 2 .. Len(w.path) PROVE {w.path[n - 1], w.path[n]} \notin cut
  <2>1. n - 1 \in 1 .. Len(u.path) /\ (n \in 2 .. Len(u.path) \/ n = Len(u.path) + 1)
    BY <1>5, <1>7
  <2>2. CASE n \in 2 .. Len(u.path)
    <3>1. w.path[n] = u.path[n] /\ w.path[n - 1] = u.path[n - 1]
      BY <1>7, <2>1, <2>2
    <3>2. QED
      BY <1>4, <2>2, <3>1 DEF Uncut
  <2>3. CASE n = Len(u.path) + 1
    <3>1. n - 1 = Len(u.path)
      BY <1>5, <2>3
    <3>2. w.path[n] = v /\ w.path[n - 1] = End(u)
      BY <1>5, <1>7, <2>1, <2>3, <3>1
    <3>3. QED
      BY <1>3, <3>2
  <2>4. QED
    BY <2>1, <2>2, <2>3
<1>10. QED
  BY <1>3, <1>8, <1>9 DEF Uncut

LEMMA SomeCheapestLeast ==
  ASSUME NEW S \in SUBSET Ways, S # {}
  PROVE  \E w \in S : SomeCheapest(S) = {w} /\ \A x \in S : w.cost <= x.cost
<1>1. \E w \in S : \A x \in S : ~Cheaper(x, w)
  BY CheapestExists
<1>2. PICK w : w = CHOOSE y \in S : \A x \in S : ~Cheaper(x, y)
  OBVIOUS
<1>3. w \in S /\ \A x \in S : ~Cheaper(x, w)
  BY <1>1, <1>2
<1>4. SomeCheapest(S) = {w}
  BY <1>2 DEF SomeCheapest
<1>5. ASSUME NEW x \in S PROVE w.cost <= x.cost
  <2>1. w.cost \in Nat /\ x.cost \in Nat
    BY <1>3 DEF Ways
  <2>2. ~(x.cost < w.cost)
    BY <1>3 DEF Cheaper
  <2>3. QED
    BY <2>1, <2>2
<1>6. QED
  BY <1>3, <1>4, <1>5

\* One more corridor is settled.
Progress(done, new) ==
  \E c \in Corridors : c \notin Ends(done) /\ Ends(new) = Ends(done) \cup {c}

\* There is nothing left to settle.
Ended(done, goal, shut, cut) == goal \in Ends(done) \/ Frontier(done, shut, cut) = {}

(* A round keeps what is settled the cheapest, and goes on until it has ended. *)
LEMMA SettleOptimal ==
  ASSUME NEW start, NEW goal, NEW shut, NEW cut, NEW done, Optimal(done, start, shut, cut)
  PROVE  /\ Optimal(Settle(done, goal, shut, cut), start, shut, cut)
         /\ Ended(done, goal, shut, cut) => Settle(done, goal, shut, cut) = done
         /\ ~Ended(done, goal, shut, cut) => Progress(done, Settle(done, goal, shut, cut))
<1>1. SettledWays(done, start, shut)
  BY DEF Optimal
<1>2. PICK F : F = Frontier(done, shut, cut)
  OBVIOUS
<1>3. F \in SUBSET Ways /\ \A x \in F : Drives(x, start, shut)
  BY <1>1, <1>2, FrontierDrives
<1>4. CASE goal \in Ends(done)
  BY <1>4 DEF Settle, Ended
<1>5. CASE goal \notin Ends(done) /\ F = {}
  <2>1. Settle(done, goal, shut, cut) = done
    BY <1>2, <1>5 DEF Settle, SomeCheapest
  <2>2. QED
    BY <1>2, <1>5, <2>1 DEF Ended
<1>6. CASE goal \notin Ends(done) /\ F # {}
  <2>1. PICK w \in F : SomeCheapest(F) = {w} /\ \A x \in F : w.cost <= x.cost
    BY <1>3, <1>6, SomeCheapestLeast
  <2>2. PICK new : new = Settle(done, goal, shut, cut)
    OBVIOUS
  <2>3. new = done \cup {w}
    BY <1>2, <1>6, <2>1, <2>2 DEF Settle
  <2>4. SettledWays(new, start, shut)
    BY <1>1, <2>2, SettleKeeps
  <2>5. Ends(new) = Ends(done) \cup {End(w)}
    BY <2>3 DEF Ends
  <2>6. End(w) \in Corridors
    BY <1>3, DrivesFacts
  <2>7. End(w) \notin Ends(done) /\ Uncut(w, cut)
    BY <1>2, FrontierIsNew
  <2>8. ASSUME NEW x, Drives(x, start, shut), Uncut(x, cut), NEW n \in 1 .. Len(x.path),
               NEW y \in new, End(y) = x.path[n]
        PROVE  y.cost <= CostTo(x.path, n)
    <3>1. CASE y \in done
      BY <2>8, <3>1 DEF Optimal
    <3>2. CASE y = w
      <4>1. x.path[n] \notin Ends(done)
        BY <2>7, <2>8, <3>2
      <4>2. PICK z \in F : z.cost <= CostTo(x.path, n)
        BY <1>2, <2>8, <4>1, WayLeaves
      <4>3. PICK a \in Nat, b \in Nat, c \in Nat : a = w.cost /\ b = z.cost /\ c = CostTo(x.path, n)
        <5>1. CostTo(x.path, n) \in Nat
          BY <2>8, DrivesFacts DEF Legs
        <5>2. w.cost \in Nat /\ z.cost \in Nat
          BY <1>3 DEF Ways
        <5>3. QED
          BY <5>1, <5>2
      <4>4. a <= b /\ b <= c
        BY <2>1, <4>2, <4>3
      <4>5. a <= c
        BY <4>4
      <4>6. QED
        BY <3>2, <4>3, <4>5
    <3>3. QED
      BY <2>3, <3>1, <3>2
  <2>9. start \in Ends(new) /\ \A y \in new : Uncut(y, cut)
    BY <2>3, <2>5, <2>7 DEF Optimal
  <2>10. \A y, z \in new : End(y) = End(z) => y = z
    <3>1. \A y \in done : End(y) # End(w)
      BY <2>7 DEF Ends
    <3>2. QED
      BY <2>3, <3>1 DEF Optimal
  <2>11. Optimal(new, start, shut, cut)
    BY <2>4, <2>8, <2>9, <2>10 DEF Optimal
  <2>12. Progress(done, new)
    BY <2>5, <2>6, <2>7 DEF Progress
  <2>13. ~Ended(done, goal, shut, cut)
    BY <1>2, <1>6 DEF Ended
  <2>14. QED
    BY <2>2, <2>11, <2>12, <2>13
<1>7. QED
  BY <1>4, <1>5, <1>6

\* The search has settled the goal, or all it can reach; its answer is the way to the goal.
Searched(s, start, goal, shut, cut) ==
  /\ Optimal(s, start, shut, cut)
  /\ Ended(s, goal, shut, cut)
  /\ Dijkstra(start, goal, shut, cut) = {w \in s : End(w) = goal}

LEMMA DijkstraSearches ==
  ASSUME NEW start \in Corridors, NEW goal, NEW shut, NEW cut, {start, goal} \cap shut = {}
  PROVE  \E s : Searched(s, start, goal, shut, cut)
<1>1. PICK g : Settling(g, start, goal, shut, cut)
  BY DijkstraSettling
<1>2. /\ g[0] = {Way(<<start>>, 0)}
      /\ \A n \in Nat : g[n + 1] = Settle(g[n], goal, shut, cut)
      /\ Dijkstra(start, goal, shut, cut) = {w \in g[Cardinality(Corridors)] : End(w) = goal}
  BY <1>1 DEF Settling
<1> DEFINE T == {n \in Nat : /\ Optimal(g[n], start, shut, cut)
                             /\ Ended(g[n], goal, shut, cut) \/ Cardinality(Ends(g[n])) >= n + 1}
<1>3. 0 \in T
  <2>1. PICK e : e = Ends(g[0])
    OBVIOUS
  <2>2. Optimal(g[0], start, shut, cut)
    BY <1>2, NoWayOptimal
  <2>3. e = {End(Way(<<start>>, 0))}
    BY <1>2, <2>1 DEF Ends
  <2>4. Cardinality(e) = 1
    BY <2>3, FS_Singleton
  <2>5. Cardinality(e) >= 0 + 1
    BY <2>4
  <2>6. QED
    BY <2>1, <2>2, <2>5
<1>4. ASSUME NEW n \in T PROVE n + 1 \in T
  <2>1. n \in Nat /\ n + 1 \in Nat
    OBVIOUS
  <2>2. PICK s : s = g[n]
    OBVIOUS
  <2>3. PICK t : t = g[n + 1]
    OBVIOUS
  <2>4. Optimal(s, start, shut, cut) /\ (Ended(s, goal, shut, cut) \/ Cardinality(Ends(s)) >= n + 1)
    BY <2>2
  <2>5. t = Settle(s, goal, shut, cut)
    BY <1>2, <2>2, <2>3
  <2>6. Optimal(t, start, shut, cut)
    BY <2>4, <2>5, SettleOptimal
  <2>7. CASE Ended(s, goal, shut, cut)
    <3>1. Settle(s, goal, shut, cut) = s
      BY <2>4, <2>7, SettleOptimal
    <3>2. t = s
      BY <2>5, <3>1
    <3>3. QED
      BY <2>1, <2>3, <2>6, <2>7, <3>2
  <2>8. CASE ~Ended(s, goal, shut, cut)
    <3>1. PICK c \in Corridors : c \notin Ends(s) /\ Ends(t) = Ends(s) \cup {c}
      <4>1. Progress(s, t)
        BY <2>4, <2>5, <2>8, SettleOptimal
      <4>2. QED
        BY <4>1 DEF Progress
    <3>2. PICK e : e = Ends(s)
      OBVIOUS
    <3>3. IsFiniteSet(e)
      <4>1. \A w \in s : Drives(w, start, shut)
        BY <2>4 DEF Optimal, SettledWays
      <4>2. e \subseteq Corridors
        BY <3>2, <4>1, DrivesFacts DEF Ends
      <4>3. QED
        BY <4>2, CorridorAssumption, FS_Subset
    <3>4. Cardinality(e \cup {c}) = Cardinality(e) + 1 /\ Cardinality(e) \in Nat
      BY <3>1, <3>2, <3>3, FS_AddElement, FS_CardinalityType
    <3>5. Cardinality(e) >= n + 1
      BY <2>4, <2>8, <3>2
    <3>6. Cardinality(e \cup {c}) >= (n + 1) + 1
      BY <3>4, <3>5
    <3>7. Cardinality(Ends(t)) >= (n + 1) + 1
      BY <3>1, <3>2, <3>6
    <3>8. QED
      BY <2>1, <2>3, <2>6, <3>7
  <2>9. QED
    BY <2>7, <2>8
<1>5. T \in SUBSET Nat
  OBVIOUS
<1> HIDE DEF T
<1>6. T = Nat
  BY <1>3, <1>4, <1>5, Induction
<1>7. PICK N \in Nat : N = Cardinality(Corridors)
  BY CorridorAssumption, FS_CardinalityType
<1>8. PICK s : s = g[N]
  OBVIOUS
<1>9. Optimal(s, start, shut, cut) /\ (Ended(s, goal, shut, cut) \/ Cardinality(Ends(s)) >= N + 1)
  BY <1>6, <1>8 DEF T
<1>10. Cardinality(Ends(s)) <= N /\ Cardinality(Ends(s)) \in Nat
  <2>1. \A w \in s : Drives(w, start, shut)
    BY <1>9 DEF Optimal, SettledWays
  <2>2. PICK e : e = Ends(s)
    OBVIOUS
  <2>3. e \subseteq Corridors
    BY <2>1, <2>2, DrivesFacts DEF Ends
  <2>4. Cardinality(e) <= Cardinality(Corridors) /\ IsFiniteSet(e)
    BY <2>3, CorridorAssumption, FS_Subset
  <2>5. QED
    BY <1>7, <2>2, <2>4, FS_CardinalityType
<1>11. ~(Cardinality(Ends(s)) >= N + 1)
  BY <1>10
<1>12. Searched(s, start, goal, shut, cut)
  BY <1>2, <1>7, <1>8, <1>9, <1>11 DEF Searched
<1>13. QED
  BY <1>12

(* The search finds one way or none, and follows no edge that is cut. *)
LEMMA DijkstraFindsOne ==
  ASSUME NEW start \in Corridors, NEW goal, NEW shut, NEW cut
  PROVE  \/ Dijkstra(start, goal, shut, cut) = {}
         \/ \E w : Dijkstra(start, goal, shut, cut) = {w} /\ Uncut(w, cut)
<1>1. PICK D : D = Dijkstra(start, goal, shut, cut)
  OBVIOUS
<1>2. CASE {start, goal} \cap shut # {}
  BY <1>2 DEF Dijkstra
<1>3. CASE {start, goal} \cap shut = {}
  <2>1. PICK s : Searched(s, start, goal, shut, cut)
    BY <1>3, DijkstraSearches
  <2>2. D = {w \in s : End(w) = goal} /\ Optimal(s, start, shut, cut)
    BY <1>1, <2>1 DEF Searched
  <2>3. \A w, y \in D : w = y
    BY <2>2 DEF Optimal
  <2>4. \A w \in D : Uncut(w, cut)
    BY <2>2 DEF Optimal
  <2>5. ASSUME D # {} PROVE \E w : D = {w} /\ Uncut(w, cut)
    <3>1. PICK w \in D : TRUE
      BY <2>5
    <3>2. D = {w}
      BY <2>3, <3>1
    <3>3. QED
      BY <2>4, <3>2
  <2>6. QED
    BY <1>1, <2>5
<1>4. QED
  BY <1>2, <1>3

(* It finds one where there is a way, and none is cheaper. *)
LEMMA DijkstraFindsCheapest ==
  ASSUME NEW start \in Corridors, NEW goal, NEW shut, NEW cut,
         NEW x, Drives(x, start, shut), End(x) = goal, Uncut(x, cut)
  PROVE  /\ Dijkstra(start, goal, shut, cut) # {}
         /\ \A w \in Dijkstra(start, goal, shut, cut) : w.cost <= x.cost
<1>1. PICK l \in Nat : l = Len(x.path) /\ l >= 1 /\ x.path[l] = goal /\ x.path[1] = start
  BY DrivesFacts
<1>2. l \in 1 .. l /\ 1 \in 1 .. l
  BY <1>1
<1>3. {start, goal} \cap shut = {}
  BY <1>1, <1>2 DEF Drives
<1>4. PICK s : Searched(s, start, goal, shut, cut)
  BY <1>3, DijkstraSearches
<1>5. /\ Optimal(s, start, shut, cut) /\ (goal \in Ends(s) \/ Frontier(s, shut, cut) = {})
      /\ Dijkstra(start, goal, shut, cut) = {w \in s : End(w) = goal}
  BY <1>4 DEF Searched, Ended
<1>6. goal \in Ends(s)
  <2>1. ASSUME goal \notin Ends(s) PROVE Frontier(s, shut, cut) # {}
    <3>1. x.path[l] \notin Ends(s) /\ l \in 1 .. Len(x.path)
      BY <1>1, <1>2, <2>1
    <3>2. QED
      BY <1>5, <3>1, WayLeaves
  <2>2. QED
    BY <1>5, <2>1
<1>7. PICK w \in s : End(w) = goal
  BY <1>6 DEF Ends
<1>8. ASSUME NEW y \in s, End(y) = goal PROVE y.cost <= x.cost
  <2>1. End(y) = x.path[l] /\ l \in 1 .. Len(x.path)
    BY <1>1, <1>2, <1>8
  <2>2. y.cost <= CostTo(x.path, l)
    BY <1>5, <2>1 DEF Optimal
  <2>3. QED
    BY <1>1, <2>2, DrivesFacts
<1>9. QED
  BY <1>5, <1>7, <1>8

------------------------------------------------------------------------------
(* The ways between two neighbours: the first found is the cheapest.          *)

LEMMA NextRoundKeepsFirst ==
  ASSUME NEW start, NEW goal, NEW closed, NEW G, G = GoodWays(start, goal, closed),
         NEW prev \in Rounds(G), NEW n \in Nat, n >= 2, NEW w,
         Len(prev.ways) >= 1, prev.ways[1] = w
  PROVE  /\ Len(NextRound(prev, n, goal, closed).ways) >= 1
         /\ NextRound(prev, n, goal, closed).ways[1] = w
<1>1. PICK s : s = prev.ways
  OBVIOUS
<1>2. s \in Seq(G) /\ Len(s) \in Nat
  BY <1>1 DEF Rounds
<1>3. PICK heap : heap = prev.heap \o Spurs(prev.ways, goal, closed)
  OBVIOUS
<1>4. CASE NextRound(prev, n, goal, closed) = prev
  BY <1>4
<1>5. CASE NextRound(prev, n, goal, closed) = TakeCheapest(s, heap)
  <2>1. CASE heap = <<>>
    <3>1. TakeCheapest(s, heap).ways = s
      BY <2>1 DEF TakeCheapest
    <3>2. QED
      BY <1>1, <1>5, <3>1
  <2>2. CASE heap # <<>>
    <3>1. PICK c : c = heap[Cheapest(heap)]
      OBVIOUS
    <3>2. TakeCheapest(s, heap).ways = Append(s, c)
      BY <2>2, <3>1 DEF TakeCheapest
    <3>3. Len(Append(s, c)) = Len(s) + 1
      BY <1>2
    <3>4. Append(s, c)[1] = s[1]
      <4>1. 1 \in 1 .. Len(s)
        BY <1>1, <1>2
      <4>2. QED
        BY <1>2, <4>1
    <3>5. QED
      BY <1>1, <1>2, <1>5, <3>2, <3>3, <3>4
  <2>3. QED
    BY <2>1, <2>2
<1>6. QED
  BY <1>1, <1>3, <1>4, <1>5 DEF NextRound

LEMMA FirstPathStays ==
  ASSUME NEW start \in Corridors, NEW goal, NEW k \in Nat, NEW closed,
         NEW S, S = Dijkstra(start, goal, closed, {}), S # {}
  PROVE  /\ KShortestPaths(start, goal, k, closed) # <<>>
         /\ KShortestPaths(start, goal, k, closed)[1] \in S
<1>1. PICK G : G = GoodWays(start, goal, closed)
  OBVIOUS
<1>2. IsFiniteSet(S) /\ \A w \in S : Drives(w, start, closed) /\ End(w) = goal
  BY DijkstraDrives
<1>3. S \subseteq G
  BY <1>1, <1>2 DEF GoodWays, Drives
<1>4. PICK s : s = SetToSeq(S)
  OBVIOUS
<1>5. s \in Seq(G) /\ s \in Seq(S)
  BY <1>2, <1>3, <1>4, SetToSeqType
<1>6. Len(s) >= 1 /\ s[1] \in S
  <2>1. PICK n \in Nat : n = Cardinality(S)
    BY <1>2, FS_CardinalityType
  <2>2. n # 0
    BY <1>2, <2>1, FS_EmptySet
  <2>3. s \in [1 .. n -> S]
    BY <1>2, <1>4, <2>1, SetToSeqFun
  <2>4. DOMAIN s = 1 .. n /\ 1 \in 1 .. n
    BY <2>2, <2>3
  <2>5. QED
    BY <1>5, <2>3, <2>4
<1>7. PICK first : first = [ways |-> s, heap |-> <<>>]
  OBVIOUS
<1>8. first \in Rounds(G)
  <2>1. <<>> \in Seq(G)
    OBVIOUS
  <2>2. QED
    BY <1>5, <1>7, <2>1 DEF Rounds
<1>9. first = [ways |-> SetToSeq(Dijkstra(start, goal, closed, {})), heap |-> <<>>]
  BY <1>4, <1>7
<1>10. PICK f : f = CHOOSE x : RoundFun(x, start, goal, closed)
  OBVIOUS
<1>11. RoundFun(f, start, goal, closed)
  BY <1>1, <1>8, <1>9, <1>10, RoundsExist
<1>12. \A n \in Nat : f[n] = IF n <= 1 THEN first ELSE NextRound(f[n - 1], n, goal, closed)
  BY <1>9, <1>11 DEF RoundFun
<1> DEFINE T == {n \in Nat : f[n] \in Rounds(G) /\ Len(f[n].ways) >= 1 /\ f[n].ways[1] = s[1]}
<1>13. ASSUME NEW n \in Nat, f[n] = first PROVE n \in T
  BY <1>6, <1>7, <1>8, <1>13
<1>14. 0 \in T
  <2>1. 0 <= 1 /\ 0 \in Nat
    OBVIOUS
  <2> HIDE DEF T
  <2>2. QED
    BY <1>12, <1>13, <2>1
<1>15. ASSUME NEW n \in T PROVE n + 1 \in T
  <2>1. PICK prev : prev = f[n]
    OBVIOUS
  <2>2. /\ n + 1 \in Nat /\ (n + 1) - 1 = n
        /\ prev \in Rounds(G) /\ Len(prev.ways) >= 1 /\ prev.ways[1] = s[1]
    BY <2>1
  <2>3. PICK m \in Nat : m = n + 1
    OBVIOUS
  <2>4. CASE m <= 1
    <3>1. f[m] = first
      BY <1>12, <2>4
    <3> HIDE DEF T
    <3>2. QED
      BY <1>13, <2>3, <3>1
  <2>5. CASE ~(m <= 1)
    <3>1. m >= 2 /\ m - 1 = n
      BY <2>3, <2>5
    <3>2. PICK next : next = f[m]
      OBVIOUS
    <3>3. next = NextRound(prev, m, goal, closed)
      BY <1>12, <2>1, <2>5, <3>1, <3>2
    <3>4. next \in Rounds(G)
      BY <1>1, <2>2, <3>1, <3>3, NextRoundGood
    <3>5. Len(next.ways) >= 1 /\ next.ways[1] = s[1]
      BY <1>1, <2>2, <3>1, <3>3, NextRoundKeepsFirst
    <3>6. QED
      BY <2>3, <3>2, <3>4, <3>5
  <2>6. QED
    BY <2>4, <2>5
<1>16. T \in SUBSET Nat
  OBVIOUS
<1> HIDE DEF T
<1>17. T = Nat
  BY <1>14, <1>15, <1>16, Induction
<1>18. PICK ways : ways = f[k].ways
  OBVIOUS
<1>19. Len(ways) >= 1 /\ ways[1] = s[1]
  BY <1>17, <1>18 DEF T
<1>20. ways # <<>>
  <2>1. Len(<<>>) = 0
    OBVIOUS
  <2>2. QED
    BY <1>19, <2>1
<1>21. KShortestPaths(start, goal, k, closed) = ways
  BY <1>10, <1>18, PathsAreRounds
<1>22. QED
  BY <1>6, <1>19, <1>20, <1>21

LEMMA PathsBeginCheapest ==
  ASSUME NEW start \in Corridors, NEW goal, NEW k \in Nat, NEW closed,
         NEW G, G = GoodWays(start, goal, closed)
  PROVE  BeginCheapest(KShortestPaths(start, goal, k, closed), G)
<1>1. PICK s : s = KShortestPaths(start, goal, k, closed)
  OBVIOUS
<1>2. s \in Seq(G)
  BY <1>1, ShortestPathsGood
<1>3. ToSet(s) \subseteq G
  <2>1. \A n \in DOMAIN s : s[n] \in G
    BY <1>2, ElementType
  <2>2. QED
    BY <2>1 DEF ToSet
<1>4. ASSUME NEW x \in G PROVE s # <<>> /\ ~Cheaper(x, s[1])
  <2>1. Drives(x, start, closed) /\ End(x) = goal /\ x.cost \in Nat
    BY DEF GoodWays, Ways
  <2>2. PICK S : S = Dijkstra(start, goal, closed, {})
    OBVIOUS
  <2>3. S # {} /\ \A w \in S : w.cost <= x.cost
    <3>1. Uncut(x, {})
      BY DEF Uncut
    <3>2. QED
      BY <2>1, <2>2, <3>1, DijkstraFindsCheapest
  <2>4. s # <<>> /\ s[1] \in S
    BY <1>1, <2>2, <2>3, FirstPathStays
  <2>5. PICK w : w = s[1]
    OBVIOUS
  <2>6. w \in Ways
    <3>1. Drives(w, start, closed)
      BY <2>2, <2>4, <2>5, DijkstraDrives
    <3>2. QED
      BY <3>1 DEF Drives
  <2>7. w.cost <= x.cost /\ w.cost \in Nat
    BY <2>3, <2>4, <2>5, <2>6 DEF Ways
  <2>8. ~(x.cost < w.cost)
    BY <2>1, <2>7
  <2>9. QED
    BY <2>4, <2>5, <2>8 DEF Cheaper
<1>5. QED
  BY <1>1, <1>3, <1>4 DEF BeginCheapest

------------------------------------------------------------------------------
(* Yen's algorithm (M08): the ways that begin alike.                          *)

\* The first i corridors of two ways are the same.
Alike(x, w, i) ==
  /\ i <= Len(x.path) /\ i <= Len(w.path)
  /\ \A n \in 1 .. i : x.path[n] = w.path[n]

LEMMA SameSequence ==
  ASSUME NEW S, NEW s \in Seq(S), NEW t \in Seq(S), Len(s) = Len(t),
         \A n \in 1 .. Len(s) : s[n] = t[n]
  PROVE  s = t
<1>1. PICK N \in Nat : N = Len(s)
  OBVIOUS
<1>2. s \in [1 .. N -> S]
  BY <1>1
<1>3. t \in [1 .. N -> S]
  BY <1>1
<1>4. \A n \in 1 .. N : s[n] = t[n]
  BY <1>1
<1>5. QED
  BY <1>2, <1>3, <1>4

\* Paths have the same first n corridors, one by one or as sequences.
LEMMA SameRoot ==
  ASSUME NEW S, NEW p \in Seq(S), NEW q \in Seq(S), NEW i \in Nat, i <= Len(p), i <= Len(q)
  PROVE  SubSeq(p, 1, i) = SubSeq(q, 1, i) <=> \A n \in 1 .. i : p[n] = q[n]
<1>1. PICK s : s = SubSeq(p, 1, i)
  OBVIOUS
<1>2. PICK t : t = SubSeq(q, 1, i)
  OBVIOUS
<1>3. s \in Seq(S) /\ Len(s) = i /\ \A n \in 1 .. i : s[n] = p[n]
  BY <1>1, SubSeqBegins DEF Begins
<1>4. t \in Seq(S) /\ Len(t) = i /\ \A n \in 1 .. i : t[n] = q[n]
  BY <1>2, SubSeqBegins DEF Begins
<1>5. ASSUME \A n \in 1 .. i : p[n] = q[n] PROVE s = t
  <2>1. \A n \in 1 .. Len(s) : s[n] = t[n]
    BY <1>3, <1>4, <1>5
  <2>2. QED
    BY <1>3, <1>4, <2>1, SameSequence
<1>6. QED
  BY <1>1, <1>2, <1>3, <1>4, <1>5

LEMMA GoodFacts ==
  ASSUME NEW start, NEW goal, NEW closed, NEW x \in GoodWays(start, goal, closed)
  PROVE  /\ x \in Ways /\ x.path \in Seq(Corridors) /\ Len(x.path) \in Nat /\ Len(x.path) >= 1
         /\ x.path[1] = start /\ x.path[Len(x.path)] = goal
         /\ \A n \in 2 .. Len(x.path) : x.path[n] \in Adjacency[x.path[n - 1]]
         /\ \A m, n \in 1 .. Len(x.path) : x.path[m] = x.path[n] => m = n
         /\ \A n \in 1 .. Len(x.path) : x.path[n] \in Corridors /\ x.path[n] \notin closed
         /\ Legs(x.path) /\ x.cost = PathCost(x.path) /\ x.cost \in Nat
<1>1. Drives(x, start, closed) /\ End(x) = goal
  BY DEF GoodWays
<1>2. /\ x.path \in Seq(Corridors) /\ DOMAIN x.path = 1 .. Len(x.path)
      /\ x.path[Len(x.path)] = goal /\ Legs(x.path) /\ x.cost \in Nat /\ Len(x.path) \in Nat
      /\ Len(x.path) >= 1
  BY <1>1, DrivesFacts
<1>3. \A n \in 1 .. Len(x.path) : x.path[n] \in Corridors
  BY <1>2, ElementType
<1>4. QED
  BY <1>1, <1>2, <1>3 DEF Drives

LEMMA SameWay ==
  ASSUME NEW start, NEW goal, NEW closed, NEW x \in GoodWays(start, goal, closed),
         NEW w \in GoodWays(start, goal, closed), x.path = w.path
  PROVE  x = w
<1>1. x \in Ways /\ w \in Ways /\ x.cost = PathCost(x.path) /\ w.cost = PathCost(w.path)
  BY GoodFacts
<1>2. x.cost = w.cost
  BY <1>1
<1>3. x = [path |-> x.path, cost |-> x.cost] /\ w = [path |-> w.path, cost |-> w.cost]
  BY <1>1 DEF Ways
<1>4. QED
  BY <1>2, <1>3

\* Two ways to the goal part before either is there.
LEMMA WaysPart ==
  ASSUME NEW start, NEW goal, NEW closed, NEW x \in GoodWays(start, goal, closed),
         NEW w \in GoodWays(start, goal, closed), x # w, NEW i \in Nat, i >= 1, Alike(x, w, i)
  PROVE  i < Len(x.path) /\ i < Len(w.path)
<1>1. PICK p, q : p = x.path /\ q = w.path
  OBVIOUS
<1>2. /\ p \in Seq(Corridors) /\ Len(p) \in Nat /\ p[Len(p)] = goal
      /\ \A m, n \in 1 .. Len(p) : p[m] = p[n] => m = n
  BY <1>1, GoodFacts
<1>3. /\ q \in Seq(Corridors) /\ Len(q) \in Nat /\ q[Len(q)] = goal
      /\ \A m, n \in 1 .. Len(q) : q[m] = q[n] => m = n
  BY <1>1, GoodFacts
<1>4. i <= Len(p) /\ i <= Len(q) /\ \A n \in 1 .. i : p[n] = q[n]
  BY <1>1 DEF Alike
<1>5. /\ i \in 1 .. i /\ i \in 1 .. Len(p) /\ i \in 1 .. Len(q)
      /\ Len(p) \in 1 .. Len(p) /\ Len(q) \in 1 .. Len(q)
  BY <1>2, <1>3, <1>4
<1>6. p[i] = q[i]
  BY <1>4, <1>5
<1>7. i = Len(p) <=> i = Len(q)
  BY <1>2, <1>3, <1>5, <1>6
<1>8. ~(i = Len(p) /\ i = Len(q))
  <2>1. ASSUME i = Len(p), i = Len(q) PROVE FALSE
    <3>1. p = q
      BY <1>2, <1>3, <1>4, <2>1, SameSequence
    <3>2. QED
      BY <1>1, <3>1, SameWay
  <2>2. QED
    BY <2>1
<1>9. i # Len(p) /\ i # Len(q)
  BY <1>7, <1>8
<1>10. i < Len(p) /\ i < Len(q)
  BY <1>2, <1>3, <1>4, <1>9
<1>11. QED
  BY <1>1, <1>10

\* The j-th way found is the last that shares the first i corridors with x, and none
\* shares more.
LastAlike(ways, x, i, j) ==
  /\ i >= 1 /\ Alike(x, ways[j], i)
  /\ \A l \in 1 .. Len(ways) : ~Alike(x, ways[l], i + 1) /\ (l > j => ~Alike(x, ways[l], i))

LEMMA LastAlikeExists ==
  ASSUME NEW start, NEW goal, NEW closed, NEW G, G = GoodWays(start, goal, closed),
         NEW ways \in Seq(G), Len(ways) >= 1, NEW x \in G
  PROVE  \E i \in Nat, j \in 1 .. Len(ways) : LastAlike(ways, x, i, j)
<1>1. PICK N \in Nat : N = Len(ways) /\ N >= 1
  OBVIOUS
<1>2. \A l \in 1 .. N : ways[l] \in G
  BY <1>1, ElementType
<1>3. PICK L \in Nat : L = Len(x.path) /\ L >= 1
  BY GoodFacts
<1>4. PICK U : U = {i \in Nat : i >= 1 /\ \A l \in 1 .. N : ~Alike(x, ways[l], i)}
  OBVIOUS
<1>5. L + 1 \in U
  <2>1. L + 1 \in Nat /\ L + 1 >= 1 /\ ~(L + 1 <= L)
    OBVIOUS
  <2>2. \A l \in 1 .. N : ~Alike(x, ways[l], L + 1)
    BY <1>3, <2>1 DEF Alike
  <2>3. QED
    BY <1>4, <2>1, <2>2
<1>6. U \in SUBSET Nat /\ U # {}
  BY <1>4, <1>5
<1>7. PICK m \in U : \A n \in U : m <= n
  BY <1>6, LeastNumber
<1>8. m \in Nat /\ m >= 1 /\ \A l \in 1 .. N : ~Alike(x, ways[l], m)
  BY <1>4
<1>9. m # 1
  <2>1. 1 \in 1 .. N /\ 1 .. 1 = {1}
    BY <1>1
  <2>2. PICK w \in G : w = ways[1]
    BY <1>2, <2>1
  <2>3. w.path[1] = start /\ Len(w.path) \in Nat /\ Len(w.path) >= 1
    BY <2>2, GoodFacts
  <2>4. x.path[1] = start
    BY GoodFacts
  <2>5. 1 <= Len(x.path) /\ 1 <= Len(w.path)
    BY <1>3, <2>3
  <2>6. Alike(x, w, 1)
    BY <2>1, <2>3, <2>4, <2>5 DEF Alike
  <2>7. QED
    BY <1>8, <2>1, <2>2, <2>6
<1>10. PICK i \in Nat : i + 1 = m /\ i >= 1 /\ ~(m <= i)
  <2>1. m - 1 \in Nat /\ (m - 1) + 1 = m /\ m - 1 >= 1 /\ ~(m <= m - 1)
    BY <1>8, <1>9
  <2>2. QED
    BY <2>1
<1>11. i \notin U
  BY <1>7, <1>10
<1>12. PICK a \in 1 .. N : Alike(x, ways[a], i)
  BY <1>4, <1>10, <1>11
<1>13. PICK V : V = {v \in Nat : \E l \in 1 .. N : v = N - l /\ Alike(x, ways[l], i)}
  OBVIOUS
<1>14. N - a \in V
  <2>1. N - a \in Nat
    BY <1>1
  <2>2. QED
    BY <1>12, <1>13, <2>1
<1>15. V \in SUBSET Nat /\ V # {}
  BY <1>13, <1>14
<1>16. PICK v \in V : \A u \in V : v <= u
  BY <1>15, LeastNumber
<1>17. PICK j \in 1 .. N : v = N - j /\ Alike(x, ways[j], i)
  BY <1>13
<1>18. ASSUME NEW l \in 1 .. N, l > j PROVE ~Alike(x, ways[l], i)
  <2>1. N - l \in Nat /\ ~(N - j <= N - l)
    BY <1>1, <1>18
  <2>2. N - l \notin V
    BY <1>16, <1>17, <2>1
  <2>3. QED
    BY <1>13, <2>1, <2>2
<1>19. LastAlike(ways, x, i, j)
  BY <1>1, <1>8, <1>10, <1>17, <1>18 DEF LastAlike
<1>20. QED
  BY <1>1, <1>19

\* The root of the last way up to its i-th corridor, and the spur way from there.
Whole(last, i, spur) ==
  Way(SubSeq(last, 1, i - 1) \o spur.path, PathCost(SubSeq(last, 1, i)) + spur.cost)

\* What a whole way looks like, corridor by corridor.
WholeOf(y, last, i, spur) ==
  /\ y.path \in Seq(Corridors) /\ Len(y.path) = (i - 1) + Len(spur.path)
  /\ \A n \in 1 .. i : y.path[n] = last[n]
  /\ \A n \in 1 .. Len(spur.path) : y.path[(i - 1) + n] = spur.path[n]
  /\ y.cost = CostTo(last, i) + spur.cost /\ CostTo(last, i) \in Nat

LEMMA WholeBegins ==
  ASSUME NEW last \in Seq(Corridors), NEW i \in 1 .. Len(last), NEW shut,
         NEW spur, Drives(spur, last[i], shut)
  PROVE  WholeOf(Whole(last, i, spur), last, i, spur)
<1>1. PICK s : s = spur.path
  OBVIOUS
<1>2. s \in Seq(Corridors) /\ Len(s) \in Nat /\ Len(s) >= 1 /\ s[1] = last[i]
  BY <1>1, DrivesFacts
<1>3. i \in Nat /\ i >= 1 /\ i <= Len(last) /\ Len(last) \in Nat /\ i - 1 \in Nat /\ i - 1 <= Len(last)
  OBVIOUS
<1>4. PICK root : root = SubSeq(last, 1, i - 1)
  OBVIOUS
<1>5. root \in Seq(Corridors) /\ Len(root) = i - 1 /\ \A n \in 1 .. i - 1 : root[n] = last[n]
  <2>1. PICK m \in Nat : m = i - 1
    BY <1>3
  <2>2. Begins(SubSeq(last, 1, m), last, m, Corridors)
    BY <1>3, <2>1, SubSeqBegins
  <2>3. QED
    BY <1>4, <2>1, <2>2 DEF Begins
<1>6. PICK q : q = root \o s
  OBVIOUS
<1>7. /\ q \in Seq(Corridors) /\ Len(q) = (i - 1) + Len(s)
      /\ \A n \in 1 .. i - 1 : q[n] = last[n]
      /\ \A n \in 1 .. Len(s) : q[(i - 1) + n] = s[n]
  <2>1. Joined(q, root, s, Corridors)
    BY <1>2, <1>5, <1>6, ConcatFacts
  <2>2. QED
    BY <1>5, <2>1 DEF Joined
<1>8. \A n \in 1 .. i : q[n] = last[n]
  <2>1. q[i] = s[1]
    <3>1. (i - 1) + 1 = i /\ 1 \in 1 .. Len(s)
      BY <1>2, <1>3
    <3>2. QED
      BY <1>7, <3>1
  <2>2. \A n \in 1 .. i : n \in 1 .. i - 1 \/ n = i
    BY <1>3
  <2>3. QED
    BY <1>2, <1>7, <2>1, <2>2
<1>9. PathCost(SubSeq(last, 1, i)) = CostTo(last, i) /\ CostTo(last, i) \in Nat
  <2>1. PICK p : p = SubSeq(last, 1, i)
    OBVIOUS
  <2>2. p \in Seq(Corridors) /\ Len(p) = i /\ \A n \in 1 .. i : p[n] = last[n]
    BY <1>3, <2>1, SubSeqBegins DEF Begins
  <2>3. PathCost(p) = CostTo(p, i)
    BY <2>2, CostToAll
  <2>4. i <= Len(p)
    BY <1>3, <2>2
  <2>5. CostTo(p, i) = CostTo(last, i)
    BY <1>3, <2>2, <2>4, SameBegin
  <2>6. CostTo(last, i) \in Nat
    BY LegsAddUp DEF Legs
  <2>7. QED
    BY <2>1, <2>3, <2>5, <2>6
<1>10. PICK y : y = Whole(last, i, spur)
  OBVIOUS
<1>11. y.path = q /\ y.cost = CostTo(last, i) + spur.cost
  BY <1>1, <1>4, <1>6, <1>9, <1>10 DEF Whole, Way
<1>12. QED
  BY <1>1, <1>7, <1>8, <1>9, <1>10, <1>11 DEF WholeOf

\* The candidates at one corridor are none, or the one whole way.
SpursFound(spurs, S, last, i) ==
  /\ S = {} => spurs = <<>>
  /\ \A spur : S = {spur} => spurs = <<Whole(last, i, spur)>>

LEMMA SpursAtOne ==
  ASSUME NEW ways, NEW i, NEW goal, NEW closed, NEW last, last = ways[Len(ways)].path,
         NEW S, S = Dijkstra(last[i], goal, Shut(closed, last, i), Cut(ToSet(ways), last, i))
  PROVE  SpursFound(SpursAt(ways, i, goal, closed), S, last, i)
<1>1. SpursAt(ways, i, goal, closed) = SetToSeq({Whole(last, i, spur) : spur \in S})
  BY DEF SpursAt, Whole
<1>2. ASSUME S = {} PROVE SpursAt(ways, i, goal, closed) = <<>>
  <2>1. {Whole(last, i, spur) : spur \in S} = {}
    BY <1>2
  <2>2. QED
    BY <1>1, <2>1, SetToSeqNone
<1>3. ASSUME NEW spur, S = {spur} PROVE SpursAt(ways, i, goal, closed) = <<Whole(last, i, spur)>>
  <2>1. PICK y : y = Whole(last, i, spur)
    OBVIOUS
  <2>2. {Whole(last, i, x) : x \in S} = {y}
    BY <1>3, <2>1
  <2>3. QED
    BY <1>1, <2>1, <2>2, SetToSeqOne
<1>4. QED
  BY <1>2, <1>3 DEF SpursFound

LEMMA RestCost ==
  ASSUME NEW p \in Seq(Corridors), NEW s \in Seq(Corridors), NEW i \in Nat, i >= 1, i <= Len(p),
         Len(s) >= 1, Len(p) = (i - 1) + Len(s), \A n \in 1 .. Len(s) : p[(i - 1) + n] = s[n]
  PROVE  PathCost(p) = CostTo(p, i) + PathCost(s)
<1>1. PICK q \in Seq(Corridors) : q = p
  OBVIOUS
<1>2. Len(q) = (i - 1) + Len(s)
  BY <1>1
<1>3. \A n \in 1 .. i : q[n] = p[n]
  BY <1>1
<1>4. \A n \in 1 .. Len(s) : q[(i - 1) + n] = s[n]
  BY <1>1
<1>5. PathCost(q) = CostTo(p, i) + PathCost(s)
  BY <1>2, <1>3, <1>4, JoinCost
<1>6. QED
  BY <1>1, <1>5

\* The rest of a good way from its i-th corridor on.
TailOf(tail, x, i, shut) ==
  /\ Drives(tail, x.path[i], shut) /\ End(tail) = x.path[Len(x.path)]
  /\ Len(tail.path) = Len(x.path) - (i - 1)
  /\ \A n \in 1 .. Len(tail.path) : tail.path[n] = x.path[(i - 1) + n]
  /\ x.cost = CostTo(x.path, i) + tail.cost

LEMMA TailDrives ==
  ASSUME NEW start, NEW goal, NEW closed, NEW x \in GoodWays(start, goal, closed),
         NEW i \in 1 .. Len(x.path), NEW last \in Seq(Corridors), i <= Len(last),
         \A n \in 1 .. i : x.path[n] = last[n]
  PROVE  \E tail : TailOf(tail, x, i, Shut(closed, last, i))
<1>1. PICK p : p = x.path
  OBVIOUS
<1>2. /\ p \in Seq(Corridors) /\ Len(p) \in Nat
      /\ \A n \in 2 .. Len(p) : p[n] \in Adjacency[p[n - 1]]
      /\ \A m, n \in 1 .. Len(p) : p[m] = p[n] => m = n
      /\ \A n \in 1 .. Len(p) : p[n] \in Corridors /\ p[n] \notin closed
      /\ x.cost = PathCost(p)
  BY <1>1, GoodFacts
<1>3. i \in Nat /\ i >= 1 /\ i <= Len(p) /\ i - 1 \in Nat /\ i - 1 <= Len(last) /\ Len(last) \in Nat
  BY <1>1, <1>2
<1>4. PICK N \in Nat : N = Len(p) - (i - 1) /\ N >= 1
  <2>1. Len(p) - (i - 1) \in Nat /\ Len(p) - (i - 1) >= 1
    BY <1>2, <1>3
  <2>2. QED
    BY <2>1
<1>5. PICK s : s = [n \in 1 .. N |-> p[(i - 1) + n]]
  OBVIOUS
<1>6. \A n \in 1 .. N : (i - 1) + n \in 1 .. Len(p)
  BY <1>2, <1>3, <1>4
<1>7. s \in Seq(Corridors) /\ Len(s) = N /\ \A n \in 1 .. N : s[n] = p[(i - 1) + n]
  <2>1. s \in [1 .. N -> Corridors]
    BY <1>2, <1>5, <1>6
  <2>2. s \in Seq(Corridors)
    BY <2>1
  <2>3. QED
    BY <1>5, <2>1, <2>2
<1>8. PICK tail : tail = Way(s, PathCost(s))
  OBVIOUS
<1>9. tail.path = s /\ tail.cost = PathCost(s) /\ tail = [path |-> s, cost |-> PathCost(s)]
  BY <1>8 DEF Way
<1>10. PathCost(s) \in Nat
  <2>1. Legs(s) /\ N \in 1 .. N
    BY <1>4, <1>7, LegsAddUp
  <2>2. CostTo(s, N) \in Nat
    BY <1>7, <2>1 DEF Legs
  <2>3. QED
    BY <1>7, <2>2, CostToAll
<1>11. tail \in Ways
  BY <1>7, <1>9, <1>10 DEF Ways
<1>12. s[1] = p[i]
  <2>1. 1 \in 1 .. N /\ (i - 1) + 1 = i
    BY <1>3, <1>4
  <2>2. QED
    BY <1>7, <2>1
<1>13. ASSUME NEW n \in 2 .. N PROVE s[n] \in Adjacency[s[n - 1]]
  <2>1. /\ n \in 1 .. N /\ n - 1 \in 1 .. N /\ (i - 1) + (n - 1) = ((i - 1) + n) - 1
        /\ (i - 1) + n \in 2 .. Len(p)
    BY <1>2, <1>3, <1>4
  <2>2. s[n] = p[(i - 1) + n] /\ s[n - 1] = p[((i - 1) + n) - 1]
    BY <1>7, <2>1
  <2>3. QED
    BY <1>2, <2>1, <2>2
<1>14. ASSUME NEW m \in 1 .. N, NEW n \in 1 .. N, s[m] = s[n] PROVE m = n
  <2>1. PICK a \in 1 .. Len(p) : a = (i - 1) + m
    BY <1>6
  <2>2. PICK b \in 1 .. Len(p) : b = (i - 1) + n
    BY <1>6
  <2>3. p[a] = p[b]
    BY <1>7, <1>14, <2>1, <2>2
  <2>4. a = b
    BY <1>2, <2>3
  <2>5. m \in Int /\ n \in Int /\ i - 1 \in Int
    BY <1>3, <1>4
  <2>6. QED
    BY <2>1, <2>2, <2>4, <2>5
<1>15. PICK shut : shut = Shut(closed, last, i)
  OBVIOUS
<1>16. ASSUME NEW n \in 1 .. N PROVE s[n] \notin shut
  <2>1. PICK a \in 1 .. Len(p) : a = (i - 1) + n
    BY <1>6
  <2>2. s[n] = p[a] /\ p[a] \notin closed
    BY <1>2, <1>7, <2>1
  <2>3. PICK root : root = SubSeq(last, 1, i - 1)
    OBVIOUS
  <2>4. PICK m \in Nat : m = i - 1
    BY <1>3
  <2>5. root \in Seq(Corridors) /\ Len(root) = m /\ \A l \in 1 .. m : root[l] = last[l]
    <3>1. Begins(SubSeq(last, 1, m), last, m, Corridors)
      BY <1>3, <2>4, SubSeqBegins
    <3>2. QED
      BY <2>3, <2>4, <3>1 DEF Begins
  <2>6. ASSUME NEW l \in 1 .. m PROVE root[l] # p[a]
    <3>1. l \in 1 .. i /\ l \in 1 .. Len(p) /\ l # a
      BY <1>2, <1>3, <1>4, <2>1, <2>4
    <3>2. root[l] = p[l]
      BY <1>1, <2>5, <3>1
    <3>3. QED
      BY <1>2, <3>1, <3>2
  <2>7. p[a] \notin ToSet(root)
    BY <2>5, <2>6, ElementIn
  <2>8. shut = closed \cup ToSet(root)
    BY <1>15, <2>3 DEF Shut
  <2>9. QED
    BY <2>2, <2>7, <2>8
<1>17. Drives(tail, p[i], shut)
  BY <1>4, <1>7, <1>9, <1>11, <1>12, <1>13, <1>14, <1>16 DEF Drives
<1>18. End(tail) = p[Len(p)]
  <2>1. N \in 1 .. N /\ (i - 1) + N = Len(p)
    BY <1>2, <1>3, <1>4
  <2>2. s[N] = p[Len(p)]
    BY <1>7, <2>1
  <2>3. QED
    BY <1>7, <1>9, <2>2 DEF End
<1>19. PathCost(p) = CostTo(p, i) + PathCost(s)
  <2>1. Len(p) = (i - 1) + Len(s) /\ Len(s) >= 1
    BY <1>2, <1>3, <1>4, <1>7
  <2>2. \A n \in 1 .. Len(s) : p[(i - 1) + n] = s[n]
    BY <1>7
  <2>3. p \in Seq(Corridors) /\ s \in Seq(Corridors) /\ i \in Nat /\ i >= 1 /\ i <= Len(p)
    BY <1>2, <1>3, <1>7
  <2>4. QED
    BY <2>1, <2>2, <2>3, RestCost
<1>20. TailOf(tail, x, i, shut)
  BY <1>1, <1>2, <1>4, <1>7, <1>9, <1>17, <1>18, <1>19 DEF TailOf
<1>21. QED
  BY <1>15, <1>20

\* A way with the same root goes on by this edge.
GoesOn(e, W, last, i) ==
  \E w \in W : /\ Len(w.path) > i /\ \A n \in 1 .. i : w.path[n] = last[n]
               /\ e = {w.path[i], w.path[i + 1]}

LEMMA CutEdges ==
  ASSUME NEW W \in SUBSET Ways, NEW last \in Seq(Corridors), NEW i \in Nat, i <= Len(last), NEW e
  PROVE  e \in Cut(W, last, i) <=> GoesOn(e, W, last, i)
<1>1. ASSUME NEW w \in W, Len(w.path) > i
      PROVE  SubSeq(w.path, 1, i) = SubSeq(last, 1, i) <=> \A n \in 1 .. i : w.path[n] = last[n]
  <2>1. w.path \in Seq(Corridors) /\ Len(w.path) \in Nat
    BY DEF Ways
  <2>2. i <= Len(w.path)
    BY <1>1, <2>1
  <2>3. QED
    BY <2>1, <2>2, SameRoot
<1>2. PICK R : R = {w \in W : Len(w.path) > i /\ SubSeq(w.path, 1, i) = SubSeq(last, 1, i)}
  OBVIOUS
<1>3. \A w : w \in R <=> w \in W /\ Len(w.path) > i /\ \A n \in 1 .. i : w.path[n] = last[n]
  BY <1>1, <1>2
<1>4. Cut(W, last, i) = {{w.path[i], w.path[i + 1]} : w \in R}
  BY <1>2 DEF Cut
<1>5. e \in Cut(W, last, i) <=> \E w \in R : e = {w.path[i], w.path[i + 1]}
  BY <1>4
<1>6. QED
  BY <1>3, <1>5 DEF GoesOn

\* The spur round at the corridor where a way leaves the last one found has a candidate that
\* begins as that way does and costs no more.
LEMMA SpurCovers ==
  ASSUME NEW start, NEW goal, NEW closed, NEW G, G = GoodWays(start, goal, closed),
         NEW ways \in Seq(G), Len(ways) >= 1, NEW x \in G, x \notin ToSet(ways),
         NEW i \in Nat, LastAlike(ways, x, i, Len(ways))
  PROVE  /\ i \in 1 .. Len(ways[Len(ways)].path) - 1
         /\ \E y \in ToSet(SpursAt(ways, i, goal, closed)) : Alike(x, y, i) /\ y.cost <= x.cost
<1>1. Len(ways) \in Nat /\ Len(ways) \in 1 .. Len(ways)
  OBVIOUS
<1>2. PICK w \in G : w = ways[Len(ways)]
  BY <1>1, ElementType
<1>3. w \in ToSet(ways)
  BY <1>1, <1>2, ElementIn
<1>4. i >= 1 /\ Alike(x, w, i) /\ \A l \in 1 .. Len(ways) : ~Alike(x, ways[l], i + 1)
  BY <1>2 DEF LastAlike
<1>5. x \in GoodWays(start, goal, closed) /\ w \in GoodWays(start, goal, closed) /\ x # w
  BY <1>3
<1>6. i < Len(x.path) /\ i < Len(w.path)
  BY <1>4, <1>5, WaysPart
<1>7. PICK last : last = w.path
  OBVIOUS
<1>8. last \in Seq(Corridors) /\ Len(last) \in Nat /\ \A n \in 1 .. Len(last) : last[n] \in Corridors
  BY <1>5, <1>7, GoodFacts
<1>9. PICK p : p = x.path
  OBVIOUS
<1>10. /\ p \in Seq(Corridors) /\ Len(p) \in Nat /\ p[Len(p)] = goal
       /\ \A m, n \in 1 .. Len(p) : p[m] = p[n] => m = n
  BY <1>5, <1>9, GoodFacts
<1>11. /\ i \in 1 .. Len(last) - 1 /\ i \in 1 .. Len(last) /\ i \in 1 .. Len(p) /\ i <= Len(last)
       /\ i \in 1 .. i /\ i + 1 \in 1 .. Len(p)
  BY <1>4, <1>6, <1>7, <1>8, <1>9, <1>10
<1>12. \A n \in 1 .. i : p[n] = last[n]
  BY <1>4, <1>7, <1>9 DEF Alike
<1>13. PICK shut : shut = Shut(closed, last, i)
  OBVIOUS
<1>14. PICK cut : cut = Cut(ToSet(ways), last, i)
  OBVIOUS
<1>15. PICK tail : TailOf(tail, x, i, shut)
  BY <1>5, <1>8, <1>9, <1>11, <1>12, <1>13, TailDrives
<1>16. PICK t : t = tail.path
  OBVIOUS
<1>17. /\ Drives(tail, p[i], shut) /\ End(tail) = goal /\ Len(t) = Len(p) - (i - 1)
       /\ \A n \in 1 .. Len(t) : t[n] = p[(i - 1) + n]
       /\ x.cost = CostTo(p, i) + tail.cost
  BY <1>9, <1>10, <1>15, <1>16 DEF TailOf
<1>18. Uncut(tail, cut)
  <2>1. ToSet(ways) \in SUBSET Ways
    <3>1. G \subseteq Ways
      BY DEF GoodWays
    <3>2. QED
      BY <3>1, ElementIn
  <2>2. ASSUME NEW n \in 2 .. Len(t), {t[n - 1], t[n]} \in cut PROVE FALSE
    <3>1. PICK v \in ToSet(ways) : /\ Len(v.path) > i /\ \A m \in 1 .. i : v.path[m] = last[m]
                                   /\ {t[n - 1], t[n]} = {v.path[i], v.path[i + 1]}
      <4>1. PICK W \in SUBSET Ways : W = ToSet(ways)
        BY <2>1
      <4>2. PICK e : e = {t[n - 1], t[n]}
        OBVIOUS
      <4>3. e \in Cut(W, last, i)
        BY <1>14, <2>2, <4>1, <4>2
      <4>4. i <= Len(last)
        BY <1>11
      <4>5. GoesOn(e, W, last, i)
        BY <1>8, <4>3, <4>4, CutEdges
      <4>6. QED
        BY <4>1, <4>2, <4>5 DEF GoesOn
    <3>2. v.path[i] = p[i]
      BY <1>11, <1>12, <3>1
    <3>3. PICK a \in 1 .. Len(p), b \in 1 .. Len(p) : a = (i - 1) + (n - 1) /\ b = (i - 1) + n
      <4>1. (i - 1) + (n - 1) \in 1 .. Len(p) /\ (i - 1) + n \in 1 .. Len(p)
        BY <1>10, <1>11, <1>17
      <4>2. QED
        BY <4>1
    <3>4. t[n - 1] = p[a] /\ t[n] = p[b]
      <4>1. n \in 1 .. Len(t) /\ n - 1 \in 1 .. Len(t)
        BY <1>10, <1>11, <1>17
      <4>2. QED
        BY <1>17, <3>3, <4>1
    <3>5. {p[a], p[b]} = {p[i], v.path[i + 1]}
      BY <3>1, <3>2, <3>4
    <3>6. b # i
      BY <1>10, <1>11, <1>17, <3>3
    <3>7. p[i] = p[a] \/ p[i] = p[b]
      BY <3>5
    <3>8. i = a
      BY <1>10, <1>11, <3>3, <3>6, <3>7
    <3>9. b = i + 1
      BY <1>10, <1>11, <1>17, <3>3, <3>8
    <3>10. p[i + 1] = v.path[i + 1]
      <4>1. p[b] # p[a]
        BY <1>10, <3>3, <3>6, <3>8
      <4>2. QED
        BY <3>5, <3>8, <3>9, <4>1
    <3>11. \A m \in 1 .. i + 1 : p[m] = v.path[m]
      <4>1. \A m \in 1 .. i + 1 : m \in 1 .. i \/ m = i + 1
        OBVIOUS
      <4>2. QED
        BY <1>12, <3>1, <3>10, <4>1
    <3>12. PICK l \in 1 .. Len(ways) : ways[l] = v
      BY <3>1, ElementIn
    <3>13. i + 1 <= Len(p) /\ i + 1 <= Len(v.path)
      <4>1. v \in Ways
        BY <2>1
      <4>2. Len(v.path) \in Nat
        BY <4>1 DEF Ways
      <4>3. QED
        BY <1>10, <1>11, <3>1, <4>2
    <3>14. Alike(x, v, i + 1)
      BY <1>9, <3>11, <3>13 DEF Alike
    <3>15. QED
      BY <1>4, <3>12, <3>14
  <2>3. QED
    BY <1>16, <2>2 DEF Uncut
<1>19. PICK S : S = Dijkstra(last[i], goal, shut, cut)
  OBVIOUS
<1>20. last[i] \in Corridors /\ p[i] = last[i]
  BY <1>8, <1>11, <1>12
<1>21. S # {} /\ \A spur \in S : spur.cost <= tail.cost
  BY <1>17, <1>18, <1>19, <1>20, DijkstraFindsCheapest
<1>22. PICK spur : S = {spur}
  <2>1. PICK from \in Corridors : from = last[i]
    BY <1>20
  <2>2. S = Dijkstra(from, goal, shut, cut)
    BY <1>19, <2>1
  <2>3. S = {} \/ \E spur : S = {spur} /\ Uncut(spur, cut)
    BY <2>2, DijkstraFindsOne
  <2>4. QED
    BY <1>21, <2>3
<1>23. Drives(spur, last[i], shut)
  <2>1. PICK from \in Corridors : from = last[i]
    BY <1>20
  <2>2. S = Dijkstra(from, goal, shut, cut)
    BY <1>19, <2>1
  <2>3. \A z \in S : Drives(z, from, shut)
    BY <2>2, DijkstraDrives
  <2>4. spur \in S
    BY <1>22
  <2>5. QED
    BY <2>1, <2>3, <2>4
<1>24. PICK y : y = Whole(last, i, spur)
  OBVIOUS
<1>25. WholeOf(y, last, i, spur)
  BY <1>8, <1>11, <1>23, <1>24, WholeBegins
<1>26. /\ Len(y.path) = (i - 1) + Len(spur.path) /\ \A n \in 1 .. i : y.path[n] = last[n]
       /\ y.cost = CostTo(last, i) + spur.cost /\ CostTo(last, i) \in Nat
  BY <1>25 DEF WholeOf
<1>27. Alike(x, y, i)
  <2>1. Len(spur.path) \in Nat /\ Len(spur.path) >= 1
    BY <1>23, DrivesFacts
  <2>2. i <= Len(y.path) /\ i <= Len(p)
    BY <1>10, <1>11, <1>26, <2>1
  <2>3. QED
    BY <1>9, <1>12, <1>26, <2>2 DEF Alike
<1>28. y.cost <= x.cost
  <2>1. CostTo(p, i) = CostTo(last, i)
    <3>1. i >= 1 /\ i <= Len(p) /\ i <= Len(last)
      BY <1>4, <1>10, <1>11
    <3>2. QED
      BY <1>8, <1>10, <1>12, <3>1, SameBegin
  <2>2. spur.cost \in Nat /\ tail.cost \in Nat
    BY <1>17, <1>23, DrivesFacts
  <2>3. spur.cost <= tail.cost
    BY <1>21, <1>22
  <2>4. PICK a \in Nat, b \in Nat, c \in Nat : a = CostTo(last, i) /\ b = spur.cost /\ c = tail.cost
    BY <1>26, <2>2
  <2>5. a + b <= a + c
    BY <2>3, <2>4
  <2>6. QED
    BY <1>17, <1>26, <2>1, <2>4, <2>5
<1>29. SpursAt(ways, i, goal, closed) = <<y>>
  <2>1. last = ways[Len(ways)].path
    BY <1>2, <1>7
  <2>2. S = Dijkstra(last[i], goal, Shut(closed, last, i), Cut(ToSet(ways), last, i))
    BY <1>13, <1>14, <1>19
  <2>3. SpursFound(SpursAt(ways, i, goal, closed), S, last, i)
    BY <2>1, <2>2, SpursAtOne
  <2>4. QED
    BY <1>22, <1>24, <2>3 DEF SpursFound
<1>30. y \in ToSet(<<y>>)
  <2>1. 1 \in DOMAIN <<y>> /\ <<y>>[1] = y
    OBVIOUS
  <2>2. QED
    BY <2>1 DEF ToSet
<1>31. QED
  BY <1>2, <1>7, <1>11, <1>27, <1>28, <1>29, <1>30

\* A candidate is a way that was not found before.
LEMMA SpursAtNew ==
  ASSUME NEW start, NEW goal, NEW closed, NEW G, G = GoodWays(start, goal, closed),
         NEW ways \in Seq(G), Len(ways) >= 1,
         NEW i \in 1 .. Len(ways[Len(ways)].path) - 1
  PROVE  SpursAt(ways, i, goal, closed) \in Seq(G \ ToSet(ways))
<1>1. Len(ways) \in Nat /\ Len(ways) \in 1 .. Len(ways)
  OBVIOUS
<1>2. PICK w \in G : w = ways[Len(ways)]
  BY <1>1, ElementType
<1>3. PICK last : last = w.path
  OBVIOUS
<1>4. /\ last \in Seq(Corridors) /\ Len(last) \in Nat /\ \A n \in 1 .. Len(last) : last[n] \in Corridors
      /\ last[Len(last)] = goal /\ \A m, n \in 1 .. Len(last) : last[m] = last[n] => m = n
  BY <1>2, <1>3, GoodFacts
<1>5. /\ i \in 1 .. Len(last) /\ i \in Nat /\ i >= 1 /\ i <= Len(last) /\ i < Len(last) /\ i \in 1 .. i
      /\ Len(last) \in 1 .. Len(last)
  BY <1>2, <1>3, <1>4
<1>6. PICK shut : shut = Shut(closed, last, i)
  OBVIOUS
<1>7. PICK cut : cut = Cut(ToSet(ways), last, i)
  OBVIOUS
<1>8. PICK S : S = Dijkstra(last[i], goal, shut, cut)
  OBVIOUS
<1>9. last[i] \in Corridors /\ last[i] # goal
  BY <1>4, <1>5
<1>10. CASE S = {}
  <2>1. SpursAt(ways, i, goal, closed) = <<>>
    BY <1>2, <1>3, <1>6, <1>7, <1>8, <1>10, SpursAtOne DEF SpursFound
  <2>2. QED
    BY <2>1
<1>11. CASE S # {}
  <2>1. PICK spur : S = {spur} /\ Uncut(spur, cut)
    <3>1. PICK from \in Corridors : from = last[i]
      BY <1>9
    <3>2. S = Dijkstra(from, goal, shut, cut)
      BY <1>8, <3>1
    <3>3. S = {} \/ \E spur : S = {spur} /\ Uncut(spur, cut)
      BY <3>2, DijkstraFindsOne
    <3>4. QED
      BY <1>11, <3>3
  <2>2. Drives(spur, last[i], shut) /\ End(spur) = goal
    <3>1. PICK from \in Corridors : from = last[i]
      BY <1>9
    <3>2. S = Dijkstra(from, goal, shut, cut)
      BY <1>8, <3>1
    <3>3. \A z \in S : Drives(z, from, shut) /\ End(z) = goal
      BY <3>2, DijkstraDrives
    <3>4. spur \in S
      BY <2>1
    <3>5. QED
      BY <3>1, <3>3, <3>4
  <2>3. PICK y : y = Whole(last, i, spur)
    OBVIOUS
  <2>4. PICK s : s = spur.path
    OBVIOUS
  <2>5. /\ Len(y.path) = (i - 1) + Len(s) /\ \A n \in 1 .. i : y.path[n] = last[n]
        /\ \A n \in 1 .. Len(s) : y.path[(i - 1) + n] = s[n]
    <3>1. WholeOf(y, last, i, spur)
      BY <1>4, <1>5, <2>2, <2>3, WholeBegins
    <3>2. QED
      BY <2>4, <3>1 DEF WholeOf
  <2>6. s[1] = last[i] /\ s[Len(s)] = goal /\ Len(s) \in Nat /\ Len(s) >= 1
    BY <2>2, <2>4, DrivesFacts
  <2>7. Len(s) # 1
    BY <1>9, <2>6
  <2>8. 1 \in 1 .. Len(s) /\ 2 \in 1 .. Len(s) /\ 2 \in 2 .. Len(s) /\ (i - 1) + 1 = i /\ (i - 1) + 2 = i + 1
    <3>1. PICK l \in Nat : l = Len(s) /\ l >= 1 /\ l # 1
      BY <2>6, <2>7
    <3>2. l >= 2
      BY <3>1
    <3>3. PICK n \in Nat : n = i
      BY <1>5
    <3>4. (n - 1) + 1 = n /\ (n - 1) + 2 = n + 1
      OBVIOUS
    <3>5. QED
      BY <3>1, <3>2, <3>3, <3>4
  <2>9. {s[1], s[2]} \notin cut
    <3>1. 2 - 1 = 1
      OBVIOUS
    <3>2. QED
      BY <2>1, <2>4, <2>8, <3>1 DEF Uncut
  <2>10. y \notin ToSet(ways)
    <3>1. ASSUME y \in ToSet(ways) PROVE FALSE
      <4>1. ToSet(ways) \in SUBSET Ways
        <5>1. G \subseteq Ways
          BY DEF GoodWays
        <5>2. QED
          BY <5>1, ElementIn
      <4>2. Len(y.path) > i
        <5>1. PICK l \in Nat : l = Len(s) /\ l >= 1 /\ l # 1
          BY <2>6, <2>7
        <5>2. PICK n \in Nat : n = i
          BY <1>5
        <5>3. (n - 1) + l > n
          BY <5>1
        <5>4. QED
          BY <2>5, <5>1, <5>2, <5>3
      <4>3. y.path[i] = s[1] /\ y.path[i + 1] = s[2]
        BY <1>5, <2>5, <2>6, <2>8
      <4>4. {s[1], s[2]} = {y.path[i], y.path[i + 1]}
        BY <4>3
      <4>5. {s[1], s[2]} \in cut
        <5>1. PICK e : e = {s[1], s[2]}
          OBVIOUS
        <5>2. PICK W \in SUBSET Ways : W = ToSet(ways)
          BY <4>1
        <5>3. GoesOn(e, W, last, i)
          BY <2>5, <3>1, <4>2, <4>4, <5>1, <5>2 DEF GoesOn
        <5>4. e \in Cut(W, last, i)
          BY <1>4, <1>5, <5>3, CutEdges
        <5>5. QED
          BY <1>7, <5>1, <5>2, <5>4
      <4>6. QED
        BY <2>9, <4>5
    <3>2. QED
      BY <3>1
  <2>11. y \in G
    <3>1. i \in 1 .. Len(last) - 1 /\ w \in GoodWays(start, goal, closed)
      BY <1>2, <1>3
    <3>2. y \in GoodWays(start, goal, closed)
      BY <1>3, <1>6, <2>2, <2>3, <3>1, WholeDrives DEF Whole
    <3>3. QED
      BY <3>2
  <2>12. SpursAt(ways, i, goal, closed) = <<y>>
    <3>1. last = ways[Len(ways)].path
      BY <1>2, <1>3
    <3>2. S = Dijkstra(last[i], goal, Shut(closed, last, i), Cut(ToSet(ways), last, i))
      BY <1>6, <1>7, <1>8
    <3>3. SpursFound(SpursAt(ways, i, goal, closed), S, last, i)
      BY <3>1, <3>2, SpursAtOne
    <3>4. QED
      BY <2>1, <2>3, <3>3 DEF SpursFound
  <2>13. QED
    BY <2>10, <2>11, <2>12
<1>12. QED
  BY <1>10, <1>11

\* So are all of them.
LEMMA SpursNew ==
  ASSUME NEW start, NEW goal, NEW closed, NEW G, G = GoodWays(start, goal, closed),
         NEW ways \in Seq(G), Len(ways) >= 1
  PROVE  /\ Spurs(ways, goal, closed) \in Seq(G \ ToSet(ways))
         /\ \A i \in 1 .. Len(ways[Len(ways)].path) - 1 :
              ToSet(SpursAt(ways, i, goal, closed)) \subseteq ToSet(Spurs(ways, goal, closed))
<1>1. PICK w \in G : w = ways[Len(ways)]
  <2>1. Len(ways) \in 1 .. Len(ways)
    OBVIOUS
  <2>2. QED
    BY <2>1, ElementType
<1>2. PICK N \in Nat : N = Len(w.path) - 1
  <2>1. Len(w.path) - 1 \in Nat
    BY GoodFacts
  <2>2. QED
    BY <2>1
<1>3. PICK ss : ss = [i \in 1 .. N |-> SpursAt(ways, i, goal, closed)]
  OBVIOUS
<1>4. PICK R : R = G \ ToSet(ways)
  OBVIOUS
<1>5. PICK D : D = Seq(R)
  OBVIOUS
<1>6. \A i \in 1 .. N : ss[i] \in D
  BY <1>1, <1>2, <1>3, <1>4, <1>5, SpursAtNew
<1>7. ss \in [1 .. N -> D]
  BY <1>3, <1>6
<1>8. ss \in Seq(D) /\ Len(ss) = N
  BY <1>7
<1>9. Spurs(ways, goal, closed) = FlattenSeq(ss)
  BY <1>1, <1>2, <1>3, SpursAreFound
<1>10. FlattenSeq(ss) \in Seq(R)
  BY <1>5, <1>8, FlattenType
<1>11. ASSUME NEW i \in 1 .. N
       PROVE  ToSet(SpursAt(ways, i, goal, closed)) \subseteq ToSet(FlattenSeq(ss))
  <2>1. ss[i] = SpursAt(ways, i, goal, closed) /\ i \in 1 .. Len(ss) /\ ss \in Seq(Seq(R))
    BY <1>3, <1>5, <1>8
  <2>2. \A x \in ToSet(ss[i]) : x \in ToSet(FlattenSeq(ss))
    BY <2>1, FlattenHas
  <2>3. QED
    BY <2>1, <2>2
<1>12. QED
  BY <1>1, <1>2, <1>4, <1>9, <1>10, <1>11

------------------------------------------------------------------------------
(* Yen's algorithm (M08): the candidates cover every way not found yet.       *)

\* For every way not found yet that leaves the found ways at one of the first m, the heap
\* has a candidate that begins as it does and costs no more.
Covered(G, ways, heap, m) ==
  \A x \in G \ ToSet(ways) : \A i \in Nat : \A j \in 1 .. m :
    LastAlike(ways, x, i, j) => \E y \in ToSet(heap) : Alike(x, y, i) /\ y.cost <= x.cost

LEMMA SpursCover ==
  ASSUME NEW start, NEW goal, NEW closed, NEW G, G = GoodWays(start, goal, closed),
         NEW ways \in Seq(G), Len(ways) >= 1, NEW heap \in Seq(G),
         Covered(G, ways, heap, Len(ways) - 1)
  PROVE  /\ heap \o Spurs(ways, goal, closed) \in Seq(G)
         /\ ToSet(heap \o Spurs(ways, goal, closed)) \subseteq ToSet(heap) \cup (G \ ToSet(ways))
         /\ Covered(G, ways, heap \o Spurs(ways, goal, closed), Len(ways))
<1>1. PICK new : new = Spurs(ways, goal, closed)
  OBVIOUS
<1>2. PICK R : R = G \ ToSet(ways)
  OBVIOUS
<1>3. new \in Seq(R)
  BY <1>1, <1>2, SpursNew
<1>4. new \in Seq(G)
  BY <1>2, <1>3
<1>5. heap \o new \in Seq(G) /\ ToSet(heap \o new) = ToSet(heap) \cup ToSet(new)
  BY <1>4, ConcatType, ConcatHas
<1>6. ToSet(new) \subseteq R
  BY <1>3, ElementIn
<1>7. ASSUME NEW x \in R, NEW i \in Nat, NEW j \in 1 .. Len(ways), LastAlike(ways, x, i, j)
      PROVE  \E y \in ToSet(heap \o new) : Alike(x, y, i) /\ y.cost <= x.cost
  <2>1. CASE j \in 1 .. Len(ways) - 1
    <3>1. PICK y \in ToSet(heap) : Alike(x, y, i) /\ y.cost <= x.cost
      BY <1>2, <1>7, <2>1 DEF Covered
    <3>2. QED
      BY <1>5, <3>1
  <2>2. CASE j = Len(ways)
    <3>1. LastAlike(ways, x, i, Len(ways)) /\ x \in G /\ x \notin ToSet(ways)
      BY <1>2, <1>7, <2>2
    <3>2. PICK s : s = SpursAt(ways, i, goal, closed)
      OBVIOUS
    <3>3. /\ i \in 1 .. Len(ways[Len(ways)].path) - 1
          /\ \E y \in ToSet(s) : Alike(x, y, i) /\ y.cost <= x.cost
      BY <3>1, <3>2, SpurCovers
    <3>4. ToSet(s) \subseteq ToSet(new)
      BY <1>1, <3>2, <3>3, SpursNew
    <3>5. QED
      BY <1>5, <3>3, <3>4
  <2>3. QED
    <3>1. PICK N \in Nat : N = Len(ways)
      OBVIOUS
    <3>2. j \in 1 .. N - 1 \/ j = N
      BY <3>1
    <3>3. QED
      BY <2>1, <2>2, <3>1, <3>2
<1>8. Covered(G, ways, heap \o new, Len(ways))
  BY <1>2, <1>7 DEF Covered
<1>9. QED
  BY <1>1, <1>2, <1>5, <1>6, <1>8

\* When all found ways have had their spur round no way left is cheaper than every candidate.
LEMMA NothingCheaperLeft ==
  ASSUME NEW start, NEW goal, NEW closed, NEW G, G = GoodWays(start, goal, closed),
         NEW ways \in Seq(G), Len(ways) >= 1, NEW heap, Covered(G, ways, heap, Len(ways)),
         NEW x \in G, x \notin ToSet(ways)
  PROVE  \E y \in ToSet(heap) : y.cost <= x.cost
<1>1. PICK i \in Nat, j \in 1 .. Len(ways) : LastAlike(ways, x, i, j)
  BY LastAlikeExists
<1>2. QED
  BY <1>1 DEF Covered

\* The candidate that is taken covers no way it does not begin like.
LEMMA TakeKeepsCover ==
  ASSUME NEW G, NEW ways \in Seq(G), NEW heap \in Seq(G), NEW c \in 1 .. Len(heap),
         Covered(G, ways, heap, Len(ways))
  PROVE  Covered(G, Append(ways, heap[c]), RemoveAt(heap, c), Len(ways))
<1>1. PICK N \in Nat : N = Len(ways)
  OBVIOUS
<1>2. PICK z : z = heap[c]
  OBVIOUS
<1>3. PICK next : next = Append(ways, z)
  OBVIOUS
<1>4. z \in G
  BY <1>2, ElementType
<1>5. next \in Seq(G) /\ Len(next) = N + 1 /\ next[N + 1] = z /\ \A n \in 1 .. N : next[n] = ways[n]
  BY <1>1, <1>3, <1>4
<1>6. ToSet(ways) \subseteq ToSet(next)
  <2>1. ASSUME NEW x \in ToSet(ways) PROVE x \in ToSet(next)
    <3>1. PICK n \in 1 .. N : ways[n] = x
      BY <1>1, ElementIn
    <3>2. n \in 1 .. Len(next) /\ next[n] = x
      BY <1>5, <3>1
    <3>3. QED
      BY <1>5, <3>2, ElementIn
  <2>2. QED
    BY <2>1
<1>7. ASSUME NEW x \in G \ ToSet(next), NEW i \in Nat, NEW j \in 1 .. N, LastAlike(next, x, i, j)
      PROVE  \E y \in ToSet(RemoveAt(heap, c)) : Alike(x, y, i) /\ y.cost <= x.cost
  <2>1. /\ i >= 1 /\ Alike(x, next[j], i)
        /\ \A l \in 1 .. N + 1 : ~Alike(x, next[l], i + 1) /\ (l > j => ~Alike(x, next[l], i))
    BY <1>5, <1>7 DEF LastAlike
  <2>2. \A l \in 1 .. N : l \in 1 .. N + 1 /\ next[l] = ways[l]
    BY <1>5
  <2>3. \A l \in 1 .. N : ~Alike(x, ways[l], i + 1) /\ (l > j => ~Alike(x, ways[l], i))
    BY <2>1, <2>2
  <2>4. LastAlike(ways, x, i, j)
    BY <1>1, <2>1, <2>2, <2>3 DEF LastAlike
  <2>5. x \in G \ ToSet(ways)
    BY <1>6
  <2>6. PICK y \in ToSet(heap) : Alike(x, y, i) /\ y.cost <= x.cost
    BY <1>1, <2>4, <2>5 DEF Covered
  <2>7. N + 1 \in 1 .. N + 1 /\ N + 1 > j
    BY <1>1
  <2>8. y # z
    BY <1>5, <2>1, <2>6, <2>7
  <2>9. y \in ToSet(RemoveAt(heap, c))
    BY <1>2, <2>8, RemoveAtHas
  <2>10. QED
    BY <2>6, <2>9
<1>8. QED
  BY <1>1, <1>2, <1>3, <1>7 DEF Covered

InCostOrder(ways) == \A m, n \in 1 .. Len(ways) : m < n => ways[m].cost <= ways[n].cost

\* The ways found are the cheapest, and the heap covers all that left before the last.
Leading(G, ways, heap) ==
  /\ ways \in Seq(G) /\ heap \in Seq(G) /\ Len(ways) >= 1 /\ InCostOrder(ways)
  /\ \A x \in ToSet(heap) \cup (G \ ToSet(ways)) : ways[Len(ways)].cost <= x.cost
  /\ Covered(G, ways, heap, Len(ways) - 1)

Complete(G, ways) == ways \in Seq(G) /\ ToSet(ways) = G /\ InCostOrder(ways)

\* After n rounds: n ways that lead, or all there are.
RoundState(r, n, G) ==
  /\ r \in Rounds(G)
  /\ \/ Len(r.ways) = n /\ Leading(G, r.ways, r.heap)
     \/ Len(r.ways) < n /\ Complete(G, r.ways)

LEMMA TakeLeads ==
  ASSUME NEW start, NEW goal, NEW closed, NEW G, G = GoodWays(start, goal, closed),
         NEW ways \in Seq(G), Len(ways) >= 1, NEW heap \in Seq(G), InCostOrder(ways),
         Covered(G, ways, heap, Len(ways)), \A x \in ToSet(heap) : ways[Len(ways)].cost <= x.cost,
         NEW c \in 1 .. Len(heap), \A n \in 1 .. Len(heap) : heap[c].cost <= heap[n].cost
  PROVE  Leading(G, Append(ways, heap[c]), RemoveAt(heap, c))
<1>1. PICK N \in Nat : N = Len(ways) /\ N >= 1
  OBVIOUS
<1>2. PICK z \in G : z = heap[c]
  BY ElementType
<1>3. PICK next : next = Append(ways, z)
  OBVIOUS
<1>4. next \in Seq(G) /\ Len(next) = N + 1 /\ next[N + 1] = z /\ \A n \in 1 .. N : next[n] = ways[n]
  BY <1>1, <1>3
<1>5. \A x \in G : x.cost \in Nat
  BY DEF GoodWays, Ways
<1>6. \A n \in 1 .. N : ways[n] \in G /\ ways[n].cost \in Nat
  BY <1>1, <1>5, ElementType
<1>7. ways[N].cost <= z.cost
  <2>1. z \in ToSet(heap)
    BY <1>2, ElementIn
  <2>2. QED
    BY <1>1, <2>1
<1>8. \A x \in ToSet(heap) : x \in G /\ z.cost <= x.cost
  BY <1>2, ElementIn
<1>9. InCostOrder(next)
  <2>1. ASSUME NEW m \in 1 .. N + 1, NEW n \in 1 .. N + 1, m < n
        PROVE  next[m].cost <= next[n].cost
    <3>1. m \in 1 .. N
      BY <1>1, <2>1
    <3>2. CASE n \in 1 .. N
      <4>1. ways[m].cost <= ways[n].cost
        BY <1>1, <2>1, <3>1, <3>2 DEF InCostOrder
      <4>2. QED
        BY <1>4, <3>1, <3>2, <4>1
    <3>3. CASE n = N + 1
      <4>1. ways[m].cost <= ways[N].cost
        <5>1. CASE m = N
          <6>1. PICK a \in Nat : a = ways[m].cost
            BY <1>6, <3>1
          <6>2. QED
            BY <5>1, <6>1
        <5>2. CASE m # N
          <6>1. m < N /\ N \in 1 .. N
            BY <1>1, <3>1, <5>2
          <6>2. QED
            BY <1>1, <3>1, <6>1 DEF InCostOrder
        <5>3. QED
          BY <5>1, <5>2
      <4>2. PICK a \in Nat, b \in Nat, e \in Nat : a = ways[m].cost /\ b = ways[N].cost /\ e = z.cost
        <5>1. N \in 1 .. N
          BY <1>1
        <5>2. QED
          BY <1>5, <1>6, <3>1, <5>1
      <4>3. a <= e
        BY <1>7, <4>1, <4>2
      <4>4. QED
        BY <1>4, <3>1, <3>3, <4>2, <4>3
    <3>4. QED
      BY <1>1, <3>2, <3>3
  <2>2. QED
    BY <1>4, <2>1 DEF InCostOrder
<1>10. PICK rest : rest = RemoveAt(heap, c)
  OBVIOUS
<1>11. rest \in Seq(G) /\ ToSet(rest) \subseteq ToSet(heap)
  BY <1>10, RemoveAtType, RemoveAtHas
<1>12. ToSet(ways) \subseteq ToSet(next)
  <2>1. ASSUME NEW x \in ToSet(ways) PROVE x \in ToSet(next)
    <3>1. PICK n \in 1 .. N : ways[n] = x
      BY <1>1, ElementIn
    <3>2. n \in 1 .. Len(next) /\ next[n] = x
      BY <1>4, <3>1
    <3>3. QED
      BY <1>4, <3>2, ElementIn
  <2>2. QED
    BY <2>1
<1>13. ASSUME NEW x \in G \ ToSet(next) PROVE z.cost <= x.cost
  <2>1. PICK y \in ToSet(heap) : y.cost <= x.cost
    BY <1>12, <1>13, NothingCheaperLeft
  <2>2. z.cost <= y.cost /\ y \in G
    BY <1>8
  <2>3. PICK a \in Nat, b \in Nat, e \in Nat : a = z.cost /\ b = y.cost /\ e = x.cost
    BY <1>5, <2>2
  <2>4. a <= e
    BY <2>1, <2>2, <2>3
  <2>5. QED
    BY <2>3, <2>4
<1>14. Covered(G, next, rest, N)
  BY <1>1, <1>2, <1>3, <1>10, TakeKeepsCover
<1>15. Len(next) >= 1 /\ Len(next) - 1 = N
  BY <1>1, <1>4
<1>16. \A x \in ToSet(rest) \cup (G \ ToSet(next)) : next[Len(next)].cost <= x.cost
  BY <1>4, <1>8, <1>11, <1>13
<1>17. Leading(G, next, rest)
  BY <1>4, <1>9, <1>11, <1>14, <1>15, <1>16 DEF Leading
<1>18. QED
  BY <1>2, <1>3, <1>10, <1>17

\* A round keeps what the state promises.
LEMMA NextRoundLeads ==
  ASSUME NEW start, NEW goal, NEW closed, NEW G, G = GoodWays(start, goal, closed),
         NEW prev, NEW n \in Nat, n >= 2, RoundState(prev, n - 1, G)
  PROVE  RoundState(NextRound(prev, n, goal, closed), n, G)
<1>1. PICK ways \in Seq(G), heap \in Seq(G) : ways = prev.ways /\ heap = prev.heap
  BY DEF RoundState, Rounds
<1>2. PICK N \in Nat : N = Len(ways)
  OBVIOUS
<1>3. PICK next : next = NextRound(prev, n, goal, closed)
  OBVIOUS
<1>4. next \in Rounds(G)
  BY <1>3, NextRoundGood DEF RoundState
<1>5. CASE N < n - 1
  <2>1. next = prev
    BY <1>1, <1>2, <1>3, <1>5 DEF NextRound
  <2>2. N < n /\ N # n - 1
    BY <1>5
  <2>3. Complete(G, ways)
    BY <1>1, <1>2, <2>2 DEF RoundState
  <2>4. QED
    BY <1>1, <1>2, <1>3, <1>4, <2>1, <2>2, <2>3 DEF RoundState
<1>6. CASE ~(N < n - 1)
  <2>1. N = n - 1 /\ Leading(G, ways, heap)
    BY <1>1, <1>2, <1>6 DEF RoundState
  <2>2. /\ Len(ways) >= 1 /\ InCostOrder(ways) /\ Covered(G, ways, heap, Len(ways) - 1)
        /\ \A x \in ToSet(heap) \cup (G \ ToSet(ways)) : ways[Len(ways)].cost <= x.cost
    BY <2>1 DEF Leading
  <2>3. PICK cands : cands = heap \o Spurs(ways, goal, closed)
    OBVIOUS
  <2>4. /\ cands \in Seq(G) /\ ToSet(cands) \subseteq ToSet(heap) \cup (G \ ToSet(ways))
        /\ Covered(G, ways, cands, Len(ways))
    BY <2>2, <2>3, SpursCover
  <2>5. \A x \in ToSet(cands) : ways[Len(ways)].cost <= x.cost
    BY <2>2, <2>4
  <2>6. next = TakeCheapest(ways, cands)
    BY <1>1, <1>2, <1>3, <1>6, <2>3 DEF NextRound
  <2>7. CASE cands = <<>>
    <3>1. next = [ways |-> ways, heap |-> cands]
      BY <2>6, <2>7 DEF TakeCheapest
    <3>2. ToSet(cands) = {}
      BY <2>7 DEF ToSet
    <3>3. \A x \in G : x \in ToSet(ways)
      BY <2>2, <2>4, <3>2, NothingCheaperLeft
    <3>4. ToSet(ways) = G
      BY <3>3, ElementIn
    <3>5. Complete(G, ways)
      BY <2>2, <3>4 DEF Complete
    <3>6. N < n
      BY <2>1
    <3>7. QED
      BY <1>2, <1>3, <1>4, <3>1, <3>5, <3>6 DEF RoundState
  <2>8. CASE cands # <<>>
    <3>1. PICK c : c = Cheapest(cands)
      OBVIOUS
    <3>2. cands \in Seq(Ways)
      <4>1. G \subseteq Ways
        BY DEF GoodWays
      <4>2. QED
        BY <2>4, <4>1
    <3>3. c \in DOMAIN cands /\ \A j \in DOMAIN cands : cands[c].cost <= cands[j].cost
      BY <2>8, <3>1, <3>2, CheapestIn
    <3>4. DOMAIN cands = 1 .. Len(cands)
      BY <3>2
    <3>5. Leading(G, Append(ways, cands[c]), RemoveAt(cands, c))
      BY <2>2, <2>4, <2>5, <3>3, <3>4, TakeLeads
    <3>6. next = [ways |-> Append(ways, cands[c]), heap |-> RemoveAt(cands, c)]
      BY <2>6, <2>8, <3>1 DEF TakeCheapest
    <3>7. Len(Append(ways, cands[c])) = n
      <4>1. Len(Append(ways, cands[c])) = N + 1
        BY <1>2
      <4>2. QED
        BY <2>1, <4>1
    <3>8. QED
      BY <1>3, <1>4, <3>5, <3>6, <3>7 DEF RoundState
  <2>9. QED
    BY <2>7, <2>8
<1>7. QED
  BY <1>5, <1>6

\* The first round finds the cheapest way, or there is none.
LEMMA FirstRoundLeads ==
  ASSUME NEW start \in Corridors, NEW goal, NEW closed, NEW G, G = GoodWays(start, goal, closed),
         NEW first, first = [ways |-> SetToSeq(Dijkstra(start, goal, closed, {})), heap |-> <<>>]
  PROVE  RoundState(first, 1, G)
<1>1. PICK S : S = Dijkstra(start, goal, closed, {})
  OBVIOUS
<1>2. \A w \in S : w \in G
  <2>1. \A w \in S : Drives(w, start, closed) /\ End(w) = goal
    BY <1>1, DijkstraDrives
  <2>2. QED
    BY <2>1 DEF GoodWays, Drives
<1>3. \A x \in G : S # {} /\ \A w \in S : w.cost <= x.cost
  <2>1. ASSUME NEW x \in G PROVE S # {} /\ \A w \in S : w.cost <= x.cost
    <3>1. Drives(x, start, closed) /\ End(x) = goal /\ Uncut(x, {})
      BY DEF GoodWays, Uncut
    <3>2. QED
      BY <1>1, <3>1, DijkstraFindsCheapest
  <2>2. QED
    BY <2>1
<1>4. CASE S = {}
  <2>1. first.ways = <<>> /\ first.heap = <<>> /\ first = [ways |-> <<>>, heap |-> <<>>]
    BY <1>1, <1>4, SetToSeqNone
  <2>2. <<>> \in Seq(G) /\ Len(<<>>) = 0 /\ ToSet(<<>>) = {}
    BY DEF ToSet
  <2>3. G = {}
    BY <1>3, <1>4
  <2>4. InCostOrder(<<>>)
    BY <2>2 DEF InCostOrder
  <2>5. Complete(G, <<>>)
    BY <2>2, <2>3, <2>4 DEF Complete
  <2>6. first \in Rounds(G)
    BY <2>1, <2>2 DEF Rounds
  <2>7. QED
    BY <2>1, <2>2, <2>5, <2>6 DEF RoundState
<1>5. CASE S # {}
  <2>1. PICK w : S = {w}
    BY <1>1, <1>5, DijkstraFindsOne
  <2>2. w \in G
    BY <1>2, <2>1
  <2>3. PICK s : s = <<w>>
    OBVIOUS
  <2>4. first = [ways |-> s, heap |-> <<>>]
    BY <1>1, <2>1, <2>3, SetToSeqOne
  <2>5. s \in Seq(G) /\ Len(s) = 1 /\ s[1] = w /\ <<>> \in Seq(G)
    BY <2>2, <2>3
  <2>6. InCostOrder(s)
    <3>1. \A m, n \in 1 .. 1 : ~(m < n)
      OBVIOUS
    <3>2. QED
      BY <2>5, <3>1 DEF InCostOrder
  <2>7. ToSet(<<>>) = {}
    BY DEF ToSet
  <2>8. \A x \in ToSet(<<>>) \cup (G \ ToSet(s)) : s[Len(s)].cost <= x.cost
    BY <1>3, <2>1, <2>5, <2>7
  <2>9. Covered(G, s, <<>>, Len(s) - 1)
    <3>1. 1 .. (Len(s) - 1) = {}
      BY <2>5
    <3>2. QED
      BY <3>1 DEF Covered
  <2>10. Leading(G, s, <<>>)
    BY <2>5, <2>6, <2>8, <2>9 DEF Leading
  <2>11. first \in Rounds(G)
    BY <2>4, <2>5 DEF Rounds
  <2>12. QED
    BY <2>4, <2>5, <2>10, <2>11 DEF RoundState
<1>6. QED
  BY <1>4, <1>5

\* So does every round.
LEMMA RoundsLead ==
  ASSUME NEW start \in Corridors, NEW goal, NEW k \in Nat, k >= 1, NEW closed,
         NEW G, G = GoodWays(start, goal, closed)
  PROVE  \E r : RoundState(r, k, G) /\ KShortestPaths(start, goal, k, closed) = r.ways
<1>1. PICK first : first = [ways |-> SetToSeq(Dijkstra(start, goal, closed, {})), heap |-> <<>>]
  OBVIOUS
<1>2. RoundState(first, 1, G) /\ first \in Rounds(G)
  BY <1>1, FirstRoundLeads DEF RoundState
<1>3. PICK f : f = CHOOSE x : RoundFun(x, start, goal, closed)
  OBVIOUS
<1>4. RoundFun(f, start, goal, closed)
  BY <1>1, <1>2, <1>3, RoundsExist
<1>5. \A n \in Nat : f[n] = IF n <= 1 THEN first ELSE NextRound(f[n - 1], n, goal, closed)
  BY <1>1, <1>4 DEF RoundFun
<1> DEFINE T == {n \in Nat : RoundState(f[n + 1], n + 1, G)}
<1>6. 0 \in T
  <2>1. 0 + 1 = 1 /\ 1 <= 1 /\ 1 \in Nat
    OBVIOUS
  <2>2. f[1] = first
    BY <1>5, <2>1
  <2>3. QED
    BY <1>2, <2>1, <2>2
<1>7. ASSUME NEW n \in T PROVE n + 1 \in T
  <2>1. PICK m \in Nat : m = (n + 1) + 1
    OBVIOUS
  <2>2. m >= 2 /\ ~(m <= 1) /\ m - 1 = n + 1
    BY <2>1
  <2>3. PICK prev : prev = f[m - 1]
    OBVIOUS
  <2>4. RoundState(prev, m - 1, G)
    BY <2>2, <2>3
  <2>5. f[m] = NextRound(prev, m, goal, closed)
    BY <1>5, <2>2, <2>3
  <2>6. RoundState(f[m], m, G)
    BY <2>2, <2>4, <2>5, NextRoundLeads
  <2>7. QED
    BY <2>1, <2>6
<1>8. T \in SUBSET Nat
  OBVIOUS
<1> HIDE DEF T
<1>9. T = Nat
  BY <1>6, <1>7, <1>8, Induction
<1>10. k - 1 \in T /\ (k - 1) + 1 = k
  BY <1>9
<1>11. RoundState(f[k], k, G)
  BY <1>10 DEF T
<1>12. KShortestPaths(start, goal, k, closed) = f[k].ways
  BY <1>3, PathsAreRounds
<1>13. QED
  BY <1>11, <1>12

\* The k ways found are in the order of their costs, and none that is left out is cheaper.
LEMMA PathsInOrder ==
  ASSUME NEW start \in Corridors, NEW goal, NEW k \in Nat, k >= 1, NEW closed,
         NEW G, G = GoodWays(start, goal, closed)
  PROVE  InOrder(KShortestPaths(start, goal, k, closed), k, G)
<1>1. PICK r : RoundState(r, k, G) /\ KShortestPaths(start, goal, k, closed) = r.ways
  BY RoundsLead
<1>2. PICK ways \in Seq(G) : ways = r.ways
  BY <1>1 DEF RoundState, Rounds
<1>3. \/ Len(ways) = k /\ Leading(G, ways, r.heap)
      \/ Len(ways) < k /\ Complete(G, ways)
  BY <1>1, <1>2 DEF RoundState
<1>4. PICK N \in Nat : N = Len(ways) /\ DOMAIN ways = 1 .. N
  OBVIOUS
<1>5. \A n \in 1 .. N : ways[n] \in G
  BY <1>4, ElementType
<1>6. \A x \in G : x.cost \in Nat
  BY DEF GoodWays, Ways
<1>7. InCostOrder(ways)
  BY <1>3 DEF Leading, Complete
<1>8. ASSUME NEW m \in 1 .. N, NEW n \in 1 .. N, m < n PROVE ~Cheaper(ways[n], ways[m])
  <2>1. ways[m].cost <= ways[n].cost
    BY <1>4, <1>7, <1>8 DEF InCostOrder
  <2>2. PICK a \in Nat, b \in Nat : a = ways[m].cost /\ b = ways[n].cost
    BY <1>5, <1>6
  <2>3. ~(b < a)
    BY <2>1, <2>2
  <2>4. QED
    BY <2>2, <2>3 DEF Cheaper
<1>9. N <= k
  BY <1>3, <1>4
<1>10. N = k \/ ToSet(ways) = G
  BY <1>3, <1>4 DEF Complete
<1>11. ASSUME ways # <<>>, NEW w \in G \ ToSet(ways) PROVE ~Cheaper(w, ways[Len(ways)])
  <2>1. Leading(G, ways, r.heap)
    BY <1>3, <1>11 DEF Complete
  <2>2. ways[N].cost <= w.cost
    BY <1>4, <1>11, <2>1 DEF Leading
  <2>3. N # 0
    BY <1>4, <1>11
  <2>4. N \in 1 .. N
    BY <2>3
  <2>5. PICK a \in Nat, b \in Nat : a = ways[N].cost /\ b = w.cost
    BY <1>5, <1>6, <1>11, <2>4
  <2>6. ~(b < a)
    BY <2>2, <2>5
  <2>7. QED
    BY <1>4, <2>5, <2>6 DEF Cheaper
<1>12. ToSet(ways) \subseteq G
  BY ElementIn
<1>13. InOrder(ways, k, G)
  BY <1>4, <1>8, <1>9, <1>10, <1>11, <1>12 DEF InOrder
<1>14. QED
  BY <1>1, <1>2, <1>13

------------------------------------------------------------------------------
(* The routes offered: ranked, each once, none of them a gridlock.            *)

LEMMA NoGridlock ==
  ASSUME NEW w, NEW start, NEW closed, Drives(w, start, {closed})
  PROVE  ~Gridlock(w.path, closed)
<1>1. PICK p : p = w.path
  OBVIOUS
<1>2. p \in Seq(Corridors) /\ Len(p) \in Nat
  BY <1>1, DrivesFacts
<1>3. /\ \A m, n \in 1 .. Len(p) : p[m] = p[n] => m = n
      /\ \A n \in 1 .. Len(p) : p[n] \notin {closed}
  BY <1>1 DEF Drives
<1>4. \A m, n \in 1 .. Len(p) : m < n => p[m] # p[n]
  BY <1>2, <1>3
<1>5. Cardinality(ToSet(p)) = Len(p)
  BY <1>2, <1>4, OnceCounts
<1>6. \A n \in 2 .. Len(p) : p[n] # closed
  <2>1. \A n \in 2 .. Len(p) : n \in 1 .. Len(p)
    BY <1>2
  <2>2. QED
    BY <1>3, <2>1
<1>7. QED
  BY <1>1, <1>5, <1>6 DEF Gridlock

RankOf(w, corridor) == IF Gridlock(w.path, corridor) THEN 1 ELSE 0

RankedBefore(w, x, corridor) ==
  \/ RankOf(w, corridor) < RankOf(x, corridor)
  \/ RankOf(w, corridor) = RankOf(x, corridor) /\ Cheaper(w, x)

BestOf(rest, corridor) == CHOOSE w \in rest : \A x \in rest : ~RankedBefore(x, w, corridor)

\* Ways none of which is flagged.
Unflagged(ways, corridor) == ways \in SUBSET Ways /\ \A w \in ways : ~Gridlock(w.path, corridor)

LEMMA BestIsCheapest ==
  ASSUME NEW corridor, NEW rest, Unflagged(rest, corridor), rest # {}
  PROVE  /\ BestOf(rest, corridor) \in rest
         /\ \A x \in rest : ~Cheaper(x, BestOf(rest, corridor))
<1>1. \A w \in rest : RankOf(w, corridor) = 0
  BY DEF RankOf, Unflagged
<1>2. \A w, x \in rest : RankedBefore(x, w, corridor) <=> Cheaper(x, w)
  BY <1>1 DEF RankedBefore
<1>3. rest \in SUBSET Ways
  BY DEF Unflagged
<1>4. PICK w \in rest : \A x \in rest : ~Cheaper(x, w)
  BY <1>3, CheapestExists
<1>5. \A x \in rest : ~RankedBefore(x, w, corridor)
  BY <1>2, <1>4
<1>6. PICK b : b = BestOf(rest, corridor)
  OBVIOUS
<1>7. b \in rest /\ \A x \in rest : ~RankedBefore(x, b, corridor)
  BY <1>5, <1>6 DEF BestOf
<1>8. \A x \in rest : ~Cheaper(x, b)
  BY <1>2, <1>7
<1>9. QED
  BY <1>6, <1>7, <1>8

NextRoute(prev, ways, corridor) ==
  IF ways \ ToSet(prev) = {} THEN prev ELSE Append(prev, BestOf(ways \ ToSet(prev), corridor))

RankFun(f, ways, corridor) ==
  f = [n \in Nat |-> IF n = 0 THEN <<>> ELSE NextRoute(f[n - 1], ways, corridor)]

LEMMA RankedRanks ==
  ASSUME NEW ways, NEW corridor, NEW k
  PROVE  Ranked(ways, corridor, k) = (CHOOSE f : RankFun(f, ways, corridor))[k]
BY DEF Ranked, RankFun, NextRoute, BestOf, RankedBefore, RankOf

\* After n turns s holds n of the ways, or all of them, the cheapest first.
RankedSoFar(s, n, ways) ==
  /\ s \in Seq(ways) /\ Len(s) <= n
  /\ Len(s) = n \/ ToSet(s) = ways
  /\ \A i, j \in DOMAIN s : i < j => s[i] # s[j] /\ ~Cheaper(s[j], s[i])
  /\ \A i \in DOMAIN s : \A w \in ways \ ToSet(s) : ~Cheaper(w, s[i])

LEMMA NextRouteKeeps ==
  ASSUME NEW corridor, NEW ways, Unflagged(ways, corridor), NEW n \in Nat,
         NEW prev, RankedSoFar(prev, n, ways)
  PROVE  RankedSoFar(NextRoute(prev, ways, corridor), n + 1, ways)
<1>1. PICK rest : rest = ways \ ToSet(prev)
  OBVIOUS
<1>2. /\ prev \in Seq(ways) /\ Len(prev) \in Nat /\ DOMAIN prev = 1 .. Len(prev) /\ Len(prev) <= n
      /\ Len(prev) = n \/ ToSet(prev) = ways
      /\ \A i, j \in DOMAIN prev : i < j => prev[i] # prev[j] /\ ~Cheaper(prev[j], prev[i])
      /\ \A i \in DOMAIN prev : \A w \in rest : ~Cheaper(w, prev[i])
  BY <1>1 DEF RankedSoFar
<1>3. ToSet(prev) \subseteq ways
  <2>1. \A i \in DOMAIN prev : prev[i] \in ways
    BY <1>2, ElementType
  <2>2. QED
    BY <2>1 DEF ToSet
<1>4. CASE rest = {}
  <2>1. NextRoute(prev, ways, corridor) = prev
    BY <1>1, <1>4 DEF NextRoute
  <2>2. ToSet(prev) = ways
    BY <1>1, <1>3, <1>4
  <2>3. Len(prev) <= n + 1
    <3>1. PICK l \in Nat : l = Len(prev) /\ l <= n
      BY <1>2
    <3>2. l <= n + 1
      BY <3>1
    <3>3. QED
      BY <3>1, <3>2
  <2>4. RankedSoFar(prev, n + 1, ways)
    BY <1>1, <1>2, <2>2, <2>3 DEF RankedSoFar
  <2>5. QED
    BY <2>1, <2>4
<1>5. CASE rest # {}
  <2>1. Len(prev) = n
    BY <1>1, <1>2, <1>5
  <2>2. Unflagged(rest, corridor)
    BY <1>1 DEF Unflagged
  <2>3. PICK w : w = BestOf(rest, corridor)
    OBVIOUS
  <2>4. w \in rest /\ w \in ways /\ \A x \in rest : ~Cheaper(x, w)
    BY <1>1, <1>5, <2>2, <2>3, BestIsCheapest
  <2>5. PICK s : s = Append(prev, w)
    OBVIOUS
  <2>6. NextRoute(prev, ways, corridor) = s
    BY <1>1, <1>5, <2>3, <2>5 DEF NextRoute
  <2>7. /\ s \in Seq(ways) /\ Len(s) = n + 1 /\ DOMAIN s = 1 .. n + 1
        /\ s[n + 1] = w /\ \A i \in 1 .. n : s[i] = prev[i]
    BY <1>2, <2>1, <2>4, <2>5
  <2>8. \A i \in 1 .. n : prev[i] \in ToSet(prev) /\ prev[i] # w
    <3>1. \A i \in 1 .. n : prev[i] \in ToSet(prev)
      BY <1>2, <2>1 DEF ToSet
    <3>2. QED
      BY <1>1, <2>4, <3>1
  <2>9. ASSUME NEW i \in DOMAIN s, NEW j \in DOMAIN s, i < j
        PROVE  s[i] # s[j] /\ ~Cheaper(s[j], s[i])
    <3>1. i \in 1 .. n /\ (j \in 1 .. n \/ j = n + 1)
      BY <2>7, <2>9
    <3>2. CASE j = n + 1
      <4>1. s[j] = w /\ s[i] = prev[i]
        BY <2>7, <3>1, <3>2
      <4>2. QED
        BY <1>2, <2>1, <2>4, <2>8, <3>1, <4>1
    <3>3. CASE j \in 1 .. n
      <4>1. s[j] = prev[j] /\ s[i] = prev[i] /\ i \in DOMAIN prev /\ j \in DOMAIN prev
        BY <1>2, <2>1, <2>7, <3>1, <3>3
      <4>2. QED
        BY <1>2, <2>9, <4>1
    <3>4. QED
      BY <3>1, <3>2, <3>3
  <2>10. ASSUME NEW i \in DOMAIN s, NEW x \in ways \ ToSet(s)
         PROVE  ~Cheaper(x, s[i])
    <3>1. x \in rest
      <4>1. ASSUME NEW m \in DOMAIN prev PROVE prev[m] \in ToSet(s)
        <5>1. m \in DOMAIN s /\ s[m] = prev[m]
          BY <1>2, <2>1, <2>7
        <5>2. QED
          BY <5>1 DEF ToSet
      <4>2. ToSet(prev) \subseteq ToSet(s)
        BY <4>1 DEF ToSet
      <4>3. QED
        BY <1>1, <4>2
    <3>2. CASE i = n + 1
      BY <2>4, <2>7, <3>1, <3>2
    <3>3. CASE i # n + 1
      <4>1. i \in DOMAIN prev /\ s[i] = prev[i]
        BY <1>2, <2>1, <2>7, <3>3
      <4>2. QED
        BY <1>2, <3>1, <4>1
    <3>4. QED
      BY <3>2, <3>3
  <2>11. Len(s) <= n + 1
    BY <2>7
  <2>12. RankedSoFar(s, n + 1, ways)
    BY <2>7, <2>9, <2>10, <2>11 DEF RankedSoFar
  <2>13. QED
    BY <2>6, <2>12
<1>6. QED
  BY <1>4, <1>5

LEMMA NoneRanked ==
  ASSUME NEW ways
  PROVE  RankedSoFar(<<>>, 0, ways)
<1>1. <<>> \in Seq(ways) /\ Len(<<>>) = 0 /\ DOMAIN <<>> = {}
  OBVIOUS
<1>2. Len(<<>>) <= 0
  BY <1>1
<1>3. QED
  BY <1>1, <1>2 DEF RankedSoFar

LEMMA RankFunExists ==
  ASSUME NEW corridor, NEW ways, Unflagged(ways, corridor)
  PROVE  \E f : RankFun(f, ways, corridor)
<1> DEFINE next(s) == NextRoute(s, ways, corridor)
<1>1. PICK D : D = {s \in Seq(ways) : \E n \in Nat : RankedSoFar(s, n, ways)}
  OBVIOUS
<1>2. ASSUME NEW s \in D PROVE next(s) \in D
  <2>1. PICK n \in Nat : RankedSoFar(s, n, ways)
    BY <1>1
  <2>2. RankedSoFar(next(s), n + 1, ways) /\ n + 1 \in Nat
    BY <2>1, NextRouteKeeps
  <2>3. next(s) \in Seq(ways)
    BY <2>2 DEF RankedSoFar
  <2> HIDE DEF next
  <2>4. QED
    BY <1>1, <2>2, <2>3
<1> HIDE DEF next
<1>3. PICK zero \in D : zero = <<>>
  <2>1. <<>> \in Seq(ways) /\ 0 \in Nat
    OBVIOUS
  <2>2. QED
    BY <1>1, <2>1, NoneRanked
<1>4. PICK step \in [D -> D] : \A s \in D : step[s] = next(s)
  <2>1. [s \in D |-> next(s)] \in [D -> D]
    BY <1>2
  <2>2. QED
    BY <2>1
<1>5. PICK f : Iterates(f, D, zero, step)
  BY Iteration
<1>6. f \in [Nat -> D] /\ f[0] = <<>> /\ \A n \in Nat : f[n + 1] = next(f[n])
  BY <1>3, <1>4, <1>5 DEF Iterates
<1>7. ASSUME NEW n \in Nat PROVE f[n] = IF n = 0 THEN <<>> ELSE next(f[n - 1])
  <2>1. CASE n # 0
    <3>1. n - 1 \in Nat /\ (n - 1) + 1 = n
      BY <2>1
    <3>2. QED
      BY <1>6, <2>1, <3>1
  <2>2. QED
    BY <1>6, <2>1
<1>8. f = [n \in Nat |-> f[n]]
  BY <1>6
<1>9. f = [n \in Nat |-> IF n = 0 THEN <<>> ELSE next(f[n - 1])]
  BY <1>7, <1>8
<1>10. RankFun(f, ways, corridor)
  BY <1>9 DEF RankFun, next
<1>11. QED
  BY <1>10

LEMMA RankedInOrder ==
  ASSUME NEW corridor, NEW ways, Unflagged(ways, corridor), NEW k \in Nat
  PROVE  RankedSoFar(Ranked(ways, corridor, k), k, ways)
<1>1. PICK f : f = CHOOSE x : RankFun(x, ways, corridor)
  OBVIOUS
<1>2. RankFun(f, ways, corridor)
  BY <1>1, RankFunExists
<1>3. \A n \in Nat : f[n] = IF n = 0 THEN <<>> ELSE NextRoute(f[n - 1], ways, corridor)
  BY <1>2 DEF RankFun
<1>4. ASSUME NEW n \in Nat PROVE f[n + 1] = NextRoute(f[n], ways, corridor)
  <2>1. n + 1 \in Nat /\ n + 1 # 0 /\ (n + 1) - 1 = n
    OBVIOUS
  <2>2. QED
    BY <1>3, <2>1
<1> DEFINE T == {n \in Nat : RankedSoFar(f[n], n, ways)}
<1>5. 0 \in T
  BY <1>3, NoneRanked
<1>6. ASSUME NEW n \in T PROVE n + 1 \in T
  <2>1. n \in Nat /\ n + 1 \in Nat /\ RankedSoFar(f[n], n, ways)
    OBVIOUS
  <2>2. RankedSoFar(NextRoute(f[n], ways, corridor), n + 1, ways)
    BY <2>1, NextRouteKeeps
  <2>3. QED
    BY <1>4, <2>1, <2>2
<1>7. T \in SUBSET Nat
  OBVIOUS
<1> HIDE DEF T
<1>8. T = Nat
  BY <1>5, <1>6, <1>7, Induction
<1>9. RankedSoFar(f[k], k, ways)
  BY <1>8 DEF T
<1>10. QED
  BY <1>1, <1>9, RankedRanks

LEMMA RankedFacts ==
  ASSUME NEW corridor, NEW ways, Unflagged(ways, corridor), ways # {}, NEW k \in Nat \ {0},
         NEW s, s = Ranked(ways, corridor, k)
  PROVE  /\ s \in Seq(ways) /\ AreCheapest(s, k, ways) /\ s # <<>> /\ s[1] \in ways
         /\ \A w \in ways : ~Cheaper(w, s[1])
<1>1. /\ s \in Seq(ways) /\ Len(s) \in Nat /\ DOMAIN s = 1 .. Len(s) /\ Len(s) <= k
      /\ Len(s) = k \/ ToSet(s) = ways
      /\ \A i, j \in DOMAIN s : i < j => s[i] # s[j] /\ ~Cheaper(s[j], s[i])
      /\ \A i \in DOMAIN s : \A w \in ways \ ToSet(s) : ~Cheaper(w, s[i])
  BY RankedInOrder DEF RankedSoFar
<1>2. \A i \in DOMAIN s : s[i] \in ways
  BY <1>1, ElementType
<1>3. ToSet(s) \subseteq ways
  BY <1>2 DEF ToSet
<1>4. s # <<>>
  <2>1. Len(<<>>) = 0 /\ ToSet(<<>>) = {}
    BY DEF ToSet
  <2>2. QED
    BY <1>1, <2>1
<1>5. PICK l \in Nat : l = Len(s) /\ DOMAIN s = 1 .. l /\ l # 0
  <2>1. s \in Seq(ways)
    BY <1>1
  <2>2. Len(s) # 0
    BY <1>4, <2>1
  <2>3. QED
    BY <1>1, <2>2
<1>6. Len(s) \in DOMAIN s /\ 1 \in DOMAIN s
  <2>1. l \in 1 .. l /\ 1 \in 1 .. l
    BY <1>5
  <2>2. QED
    BY <1>5, <2>1
<1>7. AreCheapest(s, k, ways)
  BY <1>1, <1>3, <1>6 DEF AreCheapest, EachOnce, InOrder
<1>8. ASSUME NEW w \in ways PROVE ~Cheaper(w, s[1])
  <2>1. CASE w \in ToSet(s)
    <3>1. PICK j \in DOMAIN s : w = s[j]
      BY <2>1 DEF ToSet
    <3>2. CASE j = 1
      <4>1. w \in Ways
        BY DEF Unflagged
      <4>2. w.cost \in Nat
        BY <4>1 DEF Ways
      <4>3. ~(w.cost < w.cost)
        BY <4>2
      <4>4. QED
        BY <3>1, <3>2, <4>3 DEF Cheaper
    <3>3. CASE j # 1
      <4>1. 1 < j
        <5>1. j \in 1 .. l
          BY <1>5
        <5>2. QED
          BY <3>3, <5>1
      <4>2. QED
        BY <1>1, <1>6, <3>1, <4>1
    <3>4. QED
      BY <3>2, <3>3
  <2>2. CASE w \notin ToSet(s)
    BY <1>1, <1>6, <2>2
  <2>3. QED
    BY <2>1, <2>2
<1>9. QED
  BY <1>1, <1>2, <1>4, <1>6, <1>7, <1>8

------------------------------------------------------------------------------
(* What M08 answers: the routes of one corridor, and those of the atlas.      *)

LEMMA FoundAreSimple ==
  ASSUME NEW closed, NEW k \in Nat, NEW nbrs, nbrs = NeighborsOf(closed),
         NEW found, found = Candidates(nbrs, closed, k)
  PROVE  Unflagged(found, closed) /\ found \subseteq SimpleWays(closed)
<1>1. ASSUME NEW w \in found
      PROVE  w \in SimpleWays(closed) /\ w \in Ways /\ ~Gridlock(w.path, closed)
  <2>1. PICK N : N = ToSet(nbrs)
    OBVIOUS
  <2>2. PICK p \in N \X N : p[1] # p[2] /\ w \in ToSet(KShortestPaths(p[1], p[2], k, {closed}))
    BY <2>1 DEF Candidates
  <2>3. PICK a \in N, b \in N : a = p[1] /\ b = p[2]
    OBVIOUS
  <2>4. a # b /\ a \in Corridors
    BY <2>1, <2>2, <2>3, NeighborsType
  <2>5. PICK G : G = GoodWays(a, b, {closed})
    OBVIOUS
  <2>6. BeginCheapest(KShortestPaths(a, b, k, {closed}), G)
    BY <2>4, <2>5, PathsBeginCheapest
  <2>7. w \in G
    BY <2>2, <2>3, <2>6 DEF BeginCheapest
  <2>8. w \in Ways /\ Drives(w, a, {closed})
    BY <2>5, <2>7 DEF GoodWays
  <2>9. w \in SimpleWays(closed)
    BY <2>1, <2>4, <2>5, <2>7, GoodIsSimple
  <2>10. QED
    BY <2>8, <2>9, NoGridlock
<1>2. QED
  BY <1>1 DEF Unflagged

(* For every way there is one as cheap among those found. *)
LEMMA FoundAsCheap ==
  ASSUME NEW closed, NEW k \in Nat, NEW nbrs, nbrs = NeighborsOf(closed),
         NEW found, found = Candidates(nbrs, closed, k), NEW x \in SimpleWays(closed)
  PROVE  \E w \in found : ~Cheaper(x, w)
<1>1. PICK N : N = ToSet(nbrs)
  OBVIOUS
<1>2. PICK a \in N, b \in N : a # b /\ x \in GoodWays(a, b, {closed})
  BY <1>1, SimpleIsGood
<1>3. a \in Corridors
  BY <1>1, NeighborsType
<1>4. PICK s : s = KShortestPaths(a, b, k, {closed})
  OBVIOUS
<1>5. BeginCheapest(s, GoodWays(a, b, {closed}))
  BY <1>3, <1>4, PathsBeginCheapest
<1>6. s # <<>> /\ ~Cheaper(x, s[1])
  BY <1>2, <1>5 DEF BeginCheapest
<1>7. s[1] \in ToSet(s)
  <2>1. PICK G : G = GoodWays(a, b, {closed})
    OBVIOUS
  <2>2. s \in Seq(G)
    BY <1>3, <1>4, <2>1, ShortestPathsGood
  <2>3. 1 \in DOMAIN s
    BY <1>6, <2>2
  <2>4. QED
    BY <2>3 DEF ToSet
<1>8. PICK p : p = <<a, b>>
  OBVIOUS
<1>9. p \in {q \in N \X N : q[1] # q[2]} /\ p[1] = a /\ p[2] = b
  BY <1>2, <1>8
<1>10. s[1] \in ToSet(KShortestPaths(p[1], p[2], k, {closed}))
  BY <1>4, <1>7, <1>9
<1>11. s[1] \in found
  BY <1>1, <1>9, <1>10 DEF Candidates
<1>12. QED
  BY <1>6, <1>11

LEMMA SimpleHasNeighbors ==
  ASSUME NEW closed, NEW x \in SimpleWays(closed)
  PROVE  NeighborsOf(closed) # <<>>
<1>1. x.path[1] \in ToSet(NeighborsOf(closed))
  BY SimpleIsGood
<1>2. ToSet(<<>>) = {}
  BY DEF ToSet
<1>3. QED
  BY <1>1, <1>2

\* What BuildRoutes promises.
BuiltWell(b, closed, k) ==
  LET nbrs == NeighborsOf(closed)
      all == SimpleWays(closed)
      found == Candidates(nbrs, closed, k)
  IN  /\ b.origin \in {"stub", "graph", "fallback"}
      /\ b.origin = "graph" =>
           /\ BeginCheapest(b.routes, all) /\ AreCheapest(b.routes, k, found)
           /\ \A n \in DOMAIN b.routes : ~Gridlock(b.routes[n].path, closed)
           /\ b.routes[1] \in all /\ b.routes \in Seq(found)
      /\ b.origin = "fallback" => all = {}
      /\ (closed # "Non-corridor" /\ all # {}) => b.origin = "graph"
      /\ \A p, q \in ToSet(nbrs) : p # q =>
           InOrder(KShortestPaths(p, q, k, {closed}), k, Between(all, p, q))

LEMMA BuiltRoutes ==
  ASSUME NEW closed, NEW k \in Nat \ {0}, NEW b, b = BuildRoutes(closed, k)
  PROVE  BuiltWell(b, closed, k)
<1>1. PICK nbrs : nbrs = NeighborsOf(closed)
  OBVIOUS
<1>2. PICK all : all = SimpleWays(closed)
  OBVIOUS
<1>3. PICK found : found = Candidates(nbrs, closed, k)
  OBVIOUS
<1>4. Unflagged(found, closed) /\ found \subseteq all
  BY <1>1, <1>2, <1>3, FoundAreSimple
<1>5. \A x \in all : nbrs # <<>> /\ \E w \in found : ~Cheaper(x, w)
  BY <1>1, <1>2, <1>3, FoundAsCheap, SimpleHasNeighbors
<1>6. ASSUME NEW p \in ToSet(nbrs), NEW q \in ToSet(nbrs), p # q
      PROVE  InOrder(KShortestPaths(p, q, k, {closed}), k, Between(all, p, q))
  <2>1. Between(all, p, q) = GoodWays(p, q, {closed})
    BY <1>1, <1>2, <1>6, BetweenIsGood
  <2>2. p \in Corridors /\ k \in Nat /\ k >= 1
    BY <1>1, NeighborsType
  <2>3. QED
    BY <2>1, <2>2, PathsInOrder
<1>7. CASE closed = "Non-corridor" \/ nbrs = <<>>
  <2>1. b = [routes |-> <<Way(StubPath, 5000)>>, origin |-> "stub"]
    BY <1>1, <1>7 DEF BuildRoutes
  <2>2. b.origin = "stub"
    BY <2>1
  <2>3. closed = "Non-corridor" \/ all = {}
    BY <1>5, <1>7
  <2>4. QED
    BY <1>1, <1>2, <1>6, <2>2, <2>3 DEF BuiltWell
<1>8. CASE closed # "Non-corridor" /\ nbrs # <<>> /\ found = {}
  <2>1. b = [routes |-> <<MadeUp(nbrs)>>, origin |-> "fallback"]
    BY <1>1, <1>3, <1>8 DEF BuildRoutes, RoutesOf
  <2>2. b.origin = "fallback"
    BY <2>1
  <2>3. all = {}
    BY <1>5, <1>8
  <2>4. QED
    BY <1>1, <1>2, <1>6, <2>2, <2>3 DEF BuiltWell
<1>9. CASE closed # "Non-corridor" /\ nbrs # <<>> /\ found # {}
  <2>1. b = [routes |-> Ranked(found, closed, k), origin |-> "graph"]
    BY <1>1, <1>3, <1>9 DEF BuildRoutes, RoutesOf
  <2>2. PICK s : s = Ranked(found, closed, k)
    OBVIOUS
  <2>3. b.origin = "graph" /\ b.routes = s
    BY <2>1, <2>2
  <2>4. /\ s \in Seq(found) /\ AreCheapest(s, k, found) /\ s # <<>> /\ s[1] \in found
        /\ \A w \in found : ~Cheaper(w, s[1])
    BY <1>4, <1>9, <2>2, RankedFacts
  <2>5. ToSet(s) \subseteq found
    BY <2>4 DEF AreCheapest, InOrder
  <2>6. ASSUME NEW x \in all PROVE ~Cheaper(x, s[1])
    <3>1. PICK w \in found : ~Cheaper(x, w)
      BY <1>5
    <3>2. ~Cheaper(w, s[1])
      BY <2>4
    <3>3. x \in Ways /\ w \in Ways /\ s[1] \in Ways
      <4>1. x \in Ways
        BY <1>2, SimpleIsGood DEF GoodWays
      <4>2. QED
        BY <1>4, <2>4, <4>1 DEF Unflagged
    <3>4. PICK c \in Nat, d \in Nat, e \in Nat : c = x.cost /\ d = w.cost /\ e = s[1].cost
      BY <3>3 DEF Ways
    <3>5. ~(c < d) /\ ~(d < e)
      BY <3>1, <3>2, <3>4 DEF Cheaper
    <3>6. ~(c < e)
      BY <3>5
    <3>7. QED
      BY <3>4, <3>6 DEF Cheaper
  <2>7. BeginCheapest(s, all)
    BY <1>4, <2>4, <2>5, <2>6 DEF BeginCheapest
  <2>8. \A n \in DOMAIN s : ~Gridlock(s[n].path, closed)
    <3>1. \A n \in DOMAIN s : s[n] \in found
      BY <2>5 DEF ToSet
    <3>2. QED
      BY <1>4, <3>1 DEF Unflagged
  <2>9. s[1] \in all
    BY <1>4, <2>4
  <2>10. QED
    BY <1>1, <1>2, <1>3, <1>6, <2>3, <2>4, <2>7, <2>8, <2>9 DEF BuiltWell
<1>10. QED
  BY <1>7, <1>8, <1>9

\* RoutesBeginCheapest of an answer.
AnswersWell(d) ==
  LET rs == d.routes
      k == d.k
      closed == d.corridor
      nbrs == NeighborsOf(closed)
      all == SimpleWays(closed)
  IN  /\ d.origin = "graph" =>
          /\ BeginCheapest(rs, all) /\ AreCheapest(rs, k, Candidates(nbrs, closed, k))
          /\ \A n \in DOMAIN rs : ~Gridlock(rs[n].path, closed)
          /\ \A p, q \in ToSet(nbrs) : p # q =>
                  InOrder(KShortestPaths(p, q, k, {closed}), k, Between(all, p, q))
      /\ d.origin = "fallback" => all = {}
      /\ d.origin = "atlas" => \A n \in DOMAIN rs :
          Junctions[d.junctions[n]] = closed /\ closed # "Non-corridor" /\ all # {}
          => rs[n] \in all /\ \A w \in all : ~Cheaper(w, rs[n])

LEMMA AnswerMeans == AnswersWell(diversion) <=> RoutesBeginCheapest
BY DEF AnswersWell, RoutesBeginCheapest

\* And the routes, when they are of the graph, are among those found.
Answered(d) ==
  /\ AnswersWell(d)
  /\ d.origin = "graph" =>
       /\ d.k \in Nat \ {0}
       /\ d.routes \in Seq(Candidates(NeighborsOf(d.corridor), d.corridor, d.k))

LEMMA ComputeAnswers ==
  ASSUME NEW corridor, NEW k \in Nat \ {0}, NEW b, b = BuildRoutes(corridor, k),
         NEW d, d.corridor = corridor, d.k = k, d.origin = b.origin, d.routes = b.routes
  PROVE  Answered(d)
<1>1. BuiltWell(b, corridor, k)
  BY BuiltRoutes
<1>2. d.origin # "atlas"
  BY <1>1 DEF BuiltWell
<1>3. QED
  BY <1>1, <1>2 DEF BuiltWell, AnswersWell, Answered

LEMMA ScenariosAnswer ==
  ASSUME NEW corridor, NEW refs, refs = RoutesForCorridor(corridor),
         NEW d, d.corridor = corridor, d.origin = "atlas",
         d.routes = [n \in DOMAIN refs |-> refs[n].way],
         d.junctions = [n \in DOMAIN refs |-> refs[n].junction]
  PROVE  Answered(d)
<1>1. PICK all : all = SimpleWays(corridor)
  OBVIOUS
<1>2. ASSUME NEW n \in DOMAIN d.routes, Junctions[d.junctions[n]] = corridor,
             corridor # "Non-corridor", all # {}
      PROVE  d.routes[n] \in all /\ \A w \in all : ~Cheaper(w, d.routes[n])
  <2>1. n \in DOMAIN refs
    OBVIOUS
  <2>2. PICK j : refs[n] = [junction |-> j, way |-> AtlasEntry(j).routes[1]]
    BY <2>1 DEF RoutesForCorridor
  <2>3. d.junctions[n] = j /\ d.routes[n] = AtlasEntry(j).routes[1]
    BY <2>1, <2>2
  <2>4. PICK b : b = BuildRoutes(corridor, 3)
    OBVIOUS
  <2>5. AtlasEntry(j) = b
    BY <1>2, <2>3, <2>4 DEF AtlasEntry
  <2>6. 3 \in Nat \ {0}
    OBVIOUS
  <2>7. BuiltWell(b, corridor, 3)
    BY <2>4, <2>6, BuiltRoutes
  <2>8. b.origin = "graph"
    BY <1>1, <1>2, <2>7 DEF BuiltWell
  <2>9. b.routes[1] \in all /\ BeginCheapest(b.routes, all)
    BY <1>1, <2>7, <2>8 DEF BuiltWell
  <2>10. \A w \in all : ~Cheaper(w, b.routes[1])
    BY <1>2, <2>9 DEF BeginCheapest
  <2>11. QED
    BY <2>3, <2>5, <2>9, <2>10
<1>3. d.origin # "graph" /\ d.origin # "fallback"
  OBVIOUS
<1>4. QED
  BY <1>1, <1>2, <1>3 DEF AnswersWell, Answered

LEMMA DiversionStep ==
  ASSUME Answered(diversion), [DiversionNext]_diversion
  PROVE  Answered(diversion)'
<1>1. ASSUME NEW corridor \in Corridors, NEW k \in Ks, Compute(corridor, k)
      PROVE  Answered(diversion)'
  <2>1. PICK b : /\ b = BuildRoutes(corridor, k)
                 /\ diversion' = [NoDiversion EXCEPT !.corridor = corridor, !.k = k,
                                                     !.origin = b.origin, !.routes = b.routes]
    BY <1>1 DEF Compute
  <2>2. PICK d : d = diversion'
    OBVIOUS
  <2>3. d.corridor = corridor /\ d.k = k /\ d.origin = b.origin /\ d.routes = b.routes
    BY <2>1, <2>2 DEF NoDiversion
  <2>4. k \in Nat \ {0}
    BY DiversionAssumption
  <2>5. Answered(d)
    BY <2>1, <2>3, <2>4, ComputeAnswers
  <2>6. QED
    BY <2>2, <2>5 DEF AnswersWell, Answered
<1>2. ASSUME NEW corridor \in Corridors, Scenarios(corridor)
      PROVE  Answered(diversion)'
  <2>1. PICK refs : /\ refs = RoutesForCorridor(corridor)
                    /\ diversion'.corridor = corridor /\ diversion'.origin = "atlas"
                    /\ diversion'.routes = [n \in DOMAIN refs |-> refs[n].way]
                    /\ diversion'.junctions = [n \in DOMAIN refs |-> refs[n].junction]
    BY <1>2 DEF Scenarios
  <2>2. PICK d : d = diversion'
    OBVIOUS
  <2>3. /\ d.corridor = corridor /\ d.origin = "atlas"
        /\ d.routes = [n \in DOMAIN refs |-> refs[n].way]
        /\ d.junctions = [n \in DOMAIN refs |-> refs[n].junction]
    BY <2>1, <2>2
  <2>4. Answered(d)
    BY <2>1, <2>3, ScenariosAnswer
  <2>5. QED
    BY <2>2, <2>4 DEF AnswersWell, Answered
<1>3. CASE UNCHANGED diversion
  BY <1>3 DEF AnswersWell, Answered
<1>4. QED
  BY <1>1, <1>2, <1>3 DEF DiversionNext

LEMMA DiversionAlways == DiversionSpec => [](RoutesBeginCheapest /\ Answered(diversion))
<1>1. DiversionInit => Answered(diversion)
  <2>1. NoDiversion.origin = "none"
    BY DEF NoDiversion
  <2>2. "none" # "graph" /\ "none" # "fallback" /\ "none" # "atlas"
    OBVIOUS
  <2>3. QED
    BY <2>1, <2>2 DEF DiversionInit, AnswersWell, Answered
<1>2. Answered(diversion) /\ [DiversionNext]_diversion => Answered(diversion)'
  BY DiversionStep
<1>3. Answered(diversion) => RoutesBeginCheapest
  BY AnswerMeans DEF Answered
<1>4. QED
  BY <1>1, <1>2, <1>3, PTL DEF DiversionSpec

------------------------------------------------------------------------------
(* When no search finds a way twice the routes are the k cheapest of all: a   *)
(* way that no search found has k found ways before it.                       *)

\* A way that is not among the k found between its ends is no cheaper than the last route.
LEMMA LastRouteCheap ==
  ASSUME NEW W \in SUBSET Ways, NEW k \in Nat \ {0}, NEW rs \in Seq(W), rs # <<>>,
         AreCheapest(rs, k, W), NEW all, NEW found \in Seq(W), EachOnce(found),
         InOrder(found, k, all), NEW x \in all, x \in Ways, x \notin ToSet(found)
  PROVE  ~Cheaper(x, rs[Len(rs)])
<1>1. PICK l \in Nat : l = Len(rs) /\ DOMAIN rs = 1 .. l /\ l # 0
  <2>1. Len(rs) # 0
    OBVIOUS
  <2>2. QED
    BY <2>1
<1>2. PICK m \in Nat : m = Len(found) /\ DOMAIN found = 1 .. m
  OBVIOUS
<1>3. l <= k /\ EachOnce(rs) /\ \A w \in W \ ToSet(rs) : ~Cheaper(w, rs[l])
  BY <1>1 DEF AreCheapest, InOrder
<1>4. m = k
  BY <1>2 DEF InOrder
<1>5. m \in 1 .. m /\ l \in 1 .. l
  BY <1>1, <1>4
<1>6. rs[l] \in W /\ rs[l] \in ToSet(rs)
  BY <1>1, <1>5, ElementIn, ElementType
<1>7. found # <<>>
  BY <1>2, <1>4
<1>8. \A w \in W : w.cost \in Nat
  BY DEF Ways
<1>9. x.cost \in Nat
  BY DEF Ways
<1>10. ASSUME NEW y \in ToSet(found) PROVE ~Cheaper(x, y)
  <2>1. PICK n \in 1 .. m : found[n] = y
    BY <1>2, ElementIn
  <2>2. found[m] \in W /\ y \in W
    BY <1>2, <1>5, <2>1, ElementType
  <2>3. ~Cheaper(x, found[m])
    BY <1>2, <1>7 DEF InOrder
  <2>4. n = m \/ n < m
    BY <2>1
  <2>5. n < m => ~Cheaper(found[m], y)
    BY <1>2, <1>5, <2>1 DEF InOrder
  <2>6. PICK a \in Nat, b \in Nat, c \in Nat : a = x.cost /\ b = found[m].cost /\ c = y.cost
    BY <1>8, <1>9, <2>2
  <2>7. ~(a < b) /\ (n < m => ~(b < c))
    BY <2>3, <2>5, <2>6 DEF Cheaper
  <2>8. ~(a < c)
    BY <2>1, <2>4, <2>6, <2>7
  <2>9. QED
    BY <2>6, <2>8 DEF Cheaper
<1>11. CASE ToSet(found) \subseteq ToSet(rs)
  <2>1. \A i, j \in 1 .. Len(rs) : i < j => rs[i] # rs[j]
    BY <1>1, <1>3 DEF EachOnce
  <2>2. \A i, j \in 1 .. Len(found) : i < j => found[i] # found[j]
    BY <1>2 DEF EachOnce
  <2>3. Len(found) <= Len(rs) /\ (Len(found) = Len(rs) => ToSet(found) = ToSet(rs))
    BY <1>11, <2>1, <2>2, NoMoreThan
  <2>4. m = l
    BY <1>1, <1>2, <1>3, <1>4, <2>3
  <2>5. rs[l] \in ToSet(found)
    BY <1>1, <1>2, <1>6, <2>3, <2>4
  <2>6. QED
    BY <1>1, <1>10, <2>5
<1>12. CASE ~(ToSet(found) \subseteq ToSet(rs))
  <2>1. PICK y \in ToSet(found) : y \notin ToSet(rs)
    BY <1>12
  <2>2. y \in W
    BY ElementIn
  <2>3. ~Cheaper(y, rs[l]) /\ ~Cheaper(x, y)
    BY <1>3, <1>10, <2>1, <2>2
  <2>4. PICK a \in Nat, b \in Nat, c \in Nat : a = x.cost /\ b = y.cost /\ c = rs[l].cost
    BY <1>6, <1>8, <1>9, <2>2
  <2>5. ~(b < c) /\ ~(a < b)
    BY <2>3, <2>4 DEF Cheaper
  <2>6. ~(a < c)
    BY <2>5
  <2>7. QED
    BY <1>1, <2>4, <2>6 DEF Cheaper
<1>13. QED
  BY <1>11, <1>12

\* The ways found between two neighbours are among the candidates.
LEMMA FoundBetween ==
  ASSUME NEW closed, NEW k \in Nat \ {0}, NEW nbrs, nbrs = NeighborsOf(closed),
         NEW W, W = Candidates(nbrs, closed, k), NEW p \in ToSet(nbrs), NEW q \in ToSet(nbrs), p # q
  PROVE  KShortestPaths(p, q, k, {closed}) \in Seq(W)
<1>1. PICK s : s = KShortestPaths(p, q, k, {closed})
  OBVIOUS
<1>2. PICK G : G = GoodWays(p, q, {closed})
  OBVIOUS
<1>3. p \in Corridors
  BY NeighborsType
<1>4. s \in Seq(G)
  BY <1>1, <1>2, <1>3, ShortestPathsGood
<1>5. PICK N : N = ToSet(nbrs)
  OBVIOUS
<1>6. PICK e : e = <<p, q>>
  OBVIOUS
<1>7. e \in {d \in N \X N : d[1] # d[2]} /\ e[1] = p /\ e[2] = q
  BY <1>5, <1>6
<1>8. ToSet(s) = ToSet(KShortestPaths(e[1], e[2], k, {closed}))
  BY <1>1, <1>7
<1>9. \A x \in ToSet(s) : x \in W
  BY <1>5, <1>7, <1>8 DEF Candidates
<1>10. PICK n \in Nat : n = Len(s) /\ DOMAIN s = 1 .. n
  BY <1>4
<1>11. \A i \in 1 .. n : s[i] \in W
  BY <1>4, <1>9, <1>10, ElementIn
<1>12. s \in [1 .. n -> W]
  BY <1>4, <1>10, <1>11
<1>13. s \in Seq(W)
  BY <1>12
<1>14. QED
  BY <1>1, <1>13

LEMMA CheapestWhenOnce ==
  ASSUME Answered(diversion), FoundOnce
  PROVE  RoutesAreTheCheapest
<1>1. RoutesBeginCheapest
  BY AnswerMeans DEF Answered
<1>2. CASE diversion.origin # "graph"
  BY <1>1, <1>2 DEF RoutesAreTheCheapest
<1>3. CASE diversion.origin = "graph"
  <2>1. PICK closed : closed = diversion.corridor
    OBVIOUS
  <2>2. PICK k : k = diversion.k
    OBVIOUS
  <2>3. PICK nbrs : nbrs = NeighborsOf(closed)
    OBVIOUS
  <2>4. PICK all : all = SimpleWays(closed)
    OBVIOUS
  <2>5. PICK rs : rs = diversion.routes
    OBVIOUS
  <2>6. PICK W : W = Candidates(nbrs, closed, k)
    OBVIOUS
  <2>7. k \in Nat \ {0} /\ rs \in Seq(W)
    BY <1>3, <2>1, <2>2, <2>3, <2>5, <2>6 DEF Answered
  <2>8. AreCheapest(rs, k, W)
    BY <1>1, <1>3, <2>1, <2>2, <2>3, <2>5, <2>6 DEF RoutesBeginCheapest
  <2>9. W \in SUBSET Ways /\ W \subseteq all
    BY <2>3, <2>4, <2>6, <2>7, FoundAreSimple DEF Unflagged
  <2>10. \A p, q \in ToSet(nbrs) : p # q =>
           InOrder(KShortestPaths(p, q, k, {closed}), k, Between(all, p, q))
    BY <1>1, <1>3, <2>1, <2>2, <2>3, <2>4 DEF RoutesBeginCheapest
  <2>11. \A p, q \in ToSet(nbrs) : p # q => EachOnce(KShortestPaths(p, q, k, {closed}))
    BY <1>3, <2>1, <2>2, <2>3 DEF FoundOnce
  <2>12. ASSUME NEW x \in all
         PROVE  \E fs \in Seq(W), between \in SUBSET all :
                  EachOnce(fs) /\ InOrder(fs, k, between) /\ x \in between /\ x \in Ways
    <3>1. PICK p \in ToSet(nbrs), q \in ToSet(nbrs) :
            p = x.path[1] /\ q = End(x) /\ p # q /\ x \in Ways
      <4>1. x \in SimpleWays(closed)
        BY <2>4
      <4>2. /\ x.path[1] \in ToSet(nbrs) /\ End(x) \in ToSet(nbrs) /\ x.path[1] # End(x)
            /\ x \in GoodWays(x.path[1], End(x), {closed})
        BY <2>3, <4>1, SimpleIsGood
      <4>3. x \in Ways
        BY <4>2 DEF GoodWays
      <4>4. QED
        BY <4>2, <4>3
    <3>2. x \in Between(all, p, q) /\ Between(all, p, q) \in SUBSET all
      BY <3>1 DEF Between
    <3>3. KShortestPaths(p, q, k, {closed}) \in Seq(W)
      BY <2>3, <2>6, <2>7, <3>1, FoundBetween
    <3>4. QED
      BY <2>10, <2>11, <3>1, <3>2, <3>3
  <2>13. PICK l \in Nat : l = Len(rs) /\ DOMAIN rs = 1 .. l
    BY <2>7
  <2>14. /\ EachOnce(rs) /\ ToSet(rs) \subseteq W /\ l <= k /\ (l = k \/ ToSet(rs) = W)
         /\ \A m, n \in DOMAIN rs : m < n => ~Cheaper(rs[n], rs[m])
         /\ rs # <<>> => \A w \in W \ ToSet(rs) : ~Cheaper(w, rs[Len(rs)])
    BY <2>8, <2>13 DEF AreCheapest, InOrder
  <2>15. ASSUME l # k, NEW x \in all PROVE x \in ToSet(rs)
    <3>1. PICK fs \in Seq(W), between \in SUBSET all :
            EachOnce(fs) /\ InOrder(fs, k, between) /\ x \in between
      BY <2>12
    <3>2. PICK m \in Nat : m = Len(fs) /\ DOMAIN fs = 1 .. m
      OBVIOUS
    <3>3. ToSet(fs) \subseteq ToSet(rs)
      BY <2>14, <2>15, ElementIn
    <3>4. \A i, j \in 1 .. Len(fs) : i < j => fs[i] # fs[j]
      BY <3>1, <3>2 DEF EachOnce
    <3>5. \A i, j \in 1 .. Len(rs) : i < j => rs[i] # rs[j]
      BY <2>13, <2>14 DEF EachOnce
    <3>6. m <= l
      BY <2>7, <2>13, <3>2, <3>3, <3>4, <3>5, NoMoreThan
    <3>7. m # k
      BY <2>7, <2>13, <2>14, <2>15, <3>2, <3>6
    <3>8. ToSet(fs) = between
      BY <3>1, <3>2, <3>7 DEF InOrder
    <3>9. QED
      BY <3>1, <3>3, <3>8
  <2>16. l = k \/ ToSet(rs) = all
    BY <2>9, <2>14, <2>15
  <2>17. ASSUME rs # <<>>, NEW x \in all \ ToSet(rs) PROVE ~Cheaper(x, rs[Len(rs)])
    <3>1. CASE x \in W
      BY <2>14, <2>17, <3>1
    <3>2. CASE x \notin W
      <4>1. PICK fs \in Seq(W), between \in SUBSET all :
              EachOnce(fs) /\ InOrder(fs, k, between) /\ x \in between /\ x \in Ways
        BY <2>12, <2>17
      <4>2. x \notin ToSet(fs)
        BY <3>2, ElementIn
      <4>3. QED
        BY <2>7, <2>8, <2>9, <2>17, <4>1, <4>2, LastRouteCheap
    <3>3. QED
      BY <3>1, <3>2
  <2>18. AreCheapest(rs, k, all)
    BY <2>9, <2>13, <2>14, <2>16, <2>17 DEF AreCheapest, InOrder
  <2>19. \A p, q \in ToSet(nbrs) : p # q =>
           AreCheapest(KShortestPaths(p, q, k, {closed}), k, Between(all, p, q))
    BY <2>10, <2>11 DEF AreCheapest
  <2>20. QED
    BY <1>1, <2>1, <2>2, <2>3, <2>4, <2>5, <2>18, <2>19 DEF RoutesAreTheCheapest
<1>4. QED
  BY <1>2, <1>3

LEMMA OnceWhenCheapest == RoutesAreTheCheapest => FoundOnce
BY DEF RoutesAreTheCheapest, FoundOnce, AreCheapest

------------------------------------------------------------------------------
(* The modules side by side: each of them does its own steps.                 *)

LEMMA EachAlone == Spec => /\ DispatchSpec /\ PackagesSpec /\ BufferSpec
                           /\ HotspotSpec /\ RippleSpec /\ DiversionSpec
<1>1. Init => /\ DispatchInit /\ PackagesInit /\ BufferInit /\ HotspotInit /\ RippleInit
              /\ DiversionInit
  BY DEF Init
<1>2. [Next]_vars => [DispatchNext]_dispatchVars
  BY DEF Next, vars, dispatchVars, OnlyDispatch, OnlyDiversions, OnlyRipple, OnlyHotspots,
         OnlyPackages, OnlyBuffer
<1>3. [Next]_vars => [PackagesNext]_packageVars
  BY DEF Next, vars, packageVars, OnlyDispatch, OnlyDiversions, OnlyRipple, OnlyHotspots,
         OnlyPackages, OnlyBuffer
<1>4. [Next]_vars => [BufferNext]_bufferVars
  BY DEF Next, vars, bufferVars, OnlyDispatch, OnlyDiversions, OnlyRipple, OnlyHotspots,
         OnlyPackages, OnlyBuffer
<1>5. [Next]_vars => [HotspotNext]_hotspotVars
  BY DEF Next, vars, hotspotVars, OnlyDispatch, OnlyDiversions, OnlyRipple, OnlyHotspots,
         OnlyPackages, OnlyBuffer
<1>6. [Next]_vars => [RippleNext]_ripple
  BY DEF Next, vars, OnlyDispatch, OnlyDiversions, OnlyRipple, OnlyHotspots,
         OnlyPackages, OnlyBuffer
<1>7. [Next]_vars => [DiversionNext]_diversion
  BY DEF Next, vars, OnlyDispatch, OnlyDiversions, OnlyRipple, OnlyHotspots,
         OnlyPackages, OnlyBuffer
<1>8. QED
  BY <1>1, <1>2, <1>3, <1>4, <1>5, <1>6, <1>7, PTL
  DEF Spec, DispatchSpec, PackagesSpec, BufferSpec, HotspotSpec, RippleSpec, DiversionSpec

(* The variables of the dispatch optimizer have their types, and no more     *)
(* threads are busy than the executor has.                                    *)
THEOREM DispatchTypesHold == Spec => []DispatchTypeOK
<1>1. DispatchInv => DispatchTypeOK
  BY TypesAsInModel DEF DispatchInv
<1>2. QED
  BY <1>1, DispatchAlways, EachAlone, PTL

(* Every answer serves its incidents, for every roster and all costs: the     *)
(* solver's with a unit each, the greedy one stably and down to the last      *)
(* incident a unit can take, that of tier 3 with the nearest unit.            *)
THEOREM IncidentsServed == Spec => []AnswersServeIncidents
<1>1. DispatchInv => AnswersServeIncidents
  BY DEF DispatchInv
<1>2. QED
  BY <1>1, DispatchAlways, EachAlone, PTL

(* A late solve that was feasible is reported, whenever it ends. *)
THEOREM LateSolvesReported == Spec => []LateSolveIsReported
<1>1. ASSUME DispatchInv PROVE LateSolveIsReported
  <2>1. DispatchTypes /\ ReportInv
    BY <1>1 DEF DispatchInv
  <2>2. ASSUME NEW r \in lateLog, At(r, "answered") PROVE StatusOf(r).late
    <3>1. r \in Recs /\ statusCache[r] \in StatusType
      BY <2>1 DEF DispatchTypes
    <3>2. statusCache[r] # None
      BY <2>1, <2>2, <3>1 DEF ReportInv
    <3>3. StatusOf(r) = [statusCache[r] EXCEPT !.late = @ \/ r \in lateLog]
      BY <3>2 DEF StatusOf
    <3>4. StatusOf(r).late = (statusCache[r].late \/ r \in lateLog)
      BY <3>1, <3>3 DEF StatusType
    <3>5. QED
      BY <2>2, <3>4
  <2>3. QED
    BY <2>2 DEF LateSolveIsReported
<1>2. QED
  BY <1>1, DispatchAlways, EachAlone, PTL

(* Whatever package is answered fits the event as its request read it, unless *)
(* two requests have been saving at once.                                     *)
THEOREM PackagesFit == Spec => []PackageFitsEvent
BY InvFitsEvent, PackagesAlways, EachAlone, PTL

(* A retrain learns from a proportional sample: exactly the rows asked for, or *)
(* the whole corpus; each stratum within one row of its share; none more than *)
(* a larger one; and the manifest's strata add up to the rows.                *)
THEOREM SamplesFit == Spec => []SampleIsProportional
BY BufferAlways, EachAlone, PTL

(* Every burst the deque holds within half an hour has raised an alarm on its *)
(* corridor, in whatever order its events came in.                            *)
THEOREM BurstsNoticed == Spec => []BurstIsNoticed
BY AlarmAlways, EachAlone, PTL

(* No answer of the monitor is older than its period, whichever cache it came *)
(* from, none is empty, and live clusters count each event exactly once.      *)
THEOREM AnswersFresh == Spec => []ObservedIsFresh
BY FreshAlways, EachAlone, PTL

(* Every ripple can be explained, on every corridor graph and for every decay *)
(* the request allows: each corridor on it has a parent that was reached      *)
(* before and is within as many hops of the seed, a shorter ripple begins a   *)
(* longer one, a larger threshold adds nothing, and the cascade is never      *)
(* below the seed's own risk.                                                 *)
THEOREM RipplesExplained == Spec => []RippleIsExplained
BY RippleAlways, EachAlone, PTL

(* Whatever corridor is closed, on every corridor graph, for every list of    *)
(* neighbours and any number of routes: the ways found between two neighbours *)
(* are ways of the graph around the corridor, without repetition and at the   *)
(* cost of their edges, in order, and none that is left out is cheaper than   *)
(* the last; the routes offered are the cheapest of those found, in order and *)
(* each once, none a gridlock; a path is made up only where there is no way;  *)
(* and the route the atlas offers is the cheapest of all.  It is Dijkstra's   *)
(* argument, that no way to a settled corridor is cheaper than the one it     *)
(* has, and Yen's, that the heap always has a candidate as cheap as any way   *)
(* not found yet.                                                             *)
THEOREM RoutesStartCheapest == Spec => []RoutesBeginCheapest
BY DiversionAlways, EachAlone, PTL

(* Only a way found twice can spoil the answer: the routes are the k cheapest *)
(* of all ways, and those found between two neighbours the k cheapest of      *)
(* theirs, exactly if no search finds a way twice.                            *)
THEOREM RoutesCheapestWhenOnce == Spec => [](RoutesAreTheCheapest <=> FoundOnce)
<1>1. RoutesBeginCheapest /\ Answered(diversion) => (RoutesAreTheCheapest <=> FoundOnce)
  BY CheapestWhenOnce, OnceWhenCheapest
<1>2. QED
  BY <1>1, DiversionAlways, EachAlone, PTL
==============================================================================
