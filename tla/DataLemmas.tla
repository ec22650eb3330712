----------------------------- MODULE DataLemmas -----------------------------
(* Facts about numbers, finite sets, sums and sequences that the proofs    *)
(* about several modules rest on. What the community modules compute by    *)
(* recursion over sets and sequences is here shown for every argument by a *)
(* least counterexample, where induction would be used.                    *)
EXTENDS Naturals, Sequences, SequencesExt, FiniteSets, FiniteSetTheorems,
        SequenceTheorems, WellFoundedInduction, TLAPS

-----------------------------------------------------------------------------
(* Numbers and sets                                                        *)

(* Every set of naturals that is not empty has a least member: what the    *)
(* proofs about data use in the place of induction.                        *)
LEMMA LeastNat ==
  ASSUME NEW S, S \subseteq Nat, S # {}
  PROVE  \E m \in S : \A k \in S : m <= k
<1>1. PICK x \in S : \A y \in S : ~(<<y, x>> \in OpToRel(<, Nat))
  BY WFMin, NatLessThanWellFounded
<1>2. \A y \in S : ~(y < x)
  BY <1>1 DEF OpToRel
<1>. QED BY <1>2

(* Among subsets of a finite set one is minimal.                           *)
LEMMA MinimalSet ==
  ASSUME NEW S, IsFiniteSet(S), NEW B, B \subseteq SUBSET S, B # {}
  PROVE  \E T \in B : \A U \in B : U \subseteq T => U = T
<1>. DEFINE C == {Cardinality(T) : T \in B}
<1>1. \A T \in B : IsFiniteSet(T) /\ Cardinality(T) \in Nat
  BY FS_Subset, FS_CardinalityType
<1>2. C \subseteq Nat /\ C # {}
  BY <1>1
<1>. HIDE DEF C
<1>3. PICK m \in C : \A k \in C : m <= k
  BY <1>2, LeastNat
<1>4. PICK T \in B : m = Cardinality(T)
  BY <1>3 DEF C
<1>5. ASSUME NEW U \in B, U \subseteq T PROVE U = T
  <2>1. Cardinality(U) \in Nat /\ Cardinality(T) \in Nat /\ m <= Cardinality(U)
    BY <1>1, <1>3 DEF C
  <2>2. Cardinality(U) <= Cardinality(T) /\ (Cardinality(T) = Cardinality(U) => T = U)
    BY <1>1, <1>5, FS_Subset
  <2>. QED BY <1>4, <2>1, <2>2
<1>. QED BY <1>5

-----------------------------------------------------------------------------
(* Sums over a finite set                                                  *)

One1(s) == CHOOSE x \in s : TRUE

Adds(f, S, g) == g = [s \in SUBSET S |-> IF s = {} THEN 0 ELSE f[One1(s)] + g[s \ {One1(s)}]]

(* What it is at each set.                                                 *)
LEMMA AddsStep ==
  ASSUME NEW f, NEW S, NEW g, Adds(f, S, g), NEW T \in SUBSET S
  PROVE  /\ T = {} => g[T] = 0
         /\ T # {} => One1(T) \in T /\ g[T] = f[One1(T)] + g[T \ {One1(T)}] /\ T \ {One1(T)} \in SUBSET S
BY DEF Adds, One1

(* Sums of naturals are naturals.                                          *)
LEMMA AddsType ==
  ASSUME NEW S, IsFiniteSet(S), NEW f \in [S -> Nat], NEW g, Adds(f, S, g)
  PROVE  \A T \in SUBSET S : g[T] \in Nat
<1>. DEFINE B == {T \in SUBSET S : g[T] \notin Nat}
<1>. SUFFICES ASSUME B # {} PROVE FALSE
  OBVIOUS
<1>1. PICK T \in B : \A U \in B : U \subseteq T => U = T
  <2>1. B \subseteq SUBSET S
    OBVIOUS
  <2>. HIDE DEF B
  <2>. QED BY <2>1, MinimalSet
<1>2. T # {} /\ One1(T) \in T /\ g[T] = f[One1(T)] + g[T \ {One1(T)}]
  BY <1>1, AddsStep
<1>3. T \ {One1(T)} \notin B
  BY <1>1, <1>2
<1>. QED BY <1>1, <1>2, <1>3

(* The sum over a set depends on the values on that set only.              *)
LEMMA AddsAgree ==
  ASSUME NEW S, IsFiniteSet(S), NEW R, NEW f, NEW e, NEW g, NEW h, Adds(f, S, g), Adds(e, R, h),
         NEW D, D \subseteq S, D \subseteq R, \A x \in D : f[x] = e[x]
  PROVE  \A T \in SUBSET D : g[T] = h[T]
<1>. DEFINE B == {T \in SUBSET D : g[T] # h[T]}
<1>. SUFFICES ASSUME B # {} PROVE FALSE
  OBVIOUS
<1>1. PICK T \in B : \A U \in B : U \subseteq T => U = T
  <2>1. B \subseteq SUBSET S
    OBVIOUS
  <2>. HIDE DEF B
  <2>. QED BY <2>1, MinimalSet
<1>2. T \in SUBSET S /\ T \in SUBSET R /\ T \in SUBSET D
  BY <1>1
<1>3. T # {} /\ One1(T) \in T /\ g[T] = f[One1(T)] + g[T \ {One1(T)}] /\ h[T] = e[One1(T)] + h[T \ {One1(T)}]
  BY <1>1, <1>2, AddsStep
<1>4. T \ {One1(T)} \notin B
  BY <1>1, <1>3
<1>. QED BY <1>1, <1>2, <1>3, <1>4

(* Summing up step by step is possible over any finite set.                *)
LEMMA AddsExist ==
  ASSUME NEW S, IsFiniteSet(S), NEW f
  PROVE  \E g : Adds(f, S, g)
<1>. DEFINE B == {T \in SUBSET S : ~ \E g : Adds(f, T, g)}
<1>. SUFFICES ASSUME B # {} PROVE FALSE
  OBVIOUS
<1>1. PICK T \in B : \A U \in B : U \subseteq T => U = T
  <2>1. B \subseteq SUBSET S
    OBVIOUS
  <2>. HIDE DEF B
  <2>. QED BY <2>1, MinimalSet
<1>. DEFINE h(s) == CHOOSE g : Adds(f, s, g)
            v(s) == h(s)[s]
            g == [s \in SUBSET T |-> IF s = {} THEN 0 ELSE f[One1(s)] + v(s \ {One1(s)})]
<1>2. \A s \in SUBSET T : s # T => Adds(f, s, h(s))
  BY <1>1
<1>. HIDE DEF h
<1>3. ASSUME NEW s \in SUBSET T, s # T PROVE g[s] = v(s)
  <2>1. CASE s = {}
    BY <1>2, <1>3, <2>1, AddsStep
  <2>2. CASE s # {}
    <3>. DEFINE u == s \ {One1(s)}
    <3>1. One1(s) \in s
      BY <2>2 DEF One1
    <3>2. u \in SUBSET T /\ u # T /\ u \subseteq s
      BY <1>3, <3>1
    <3>3. Adds(f, s, h(s)) /\ Adds(f, u, h(u))
      BY <1>2, <1>3, <3>2
    <3>4. v(s) = f[One1(s)] + h(s)[u]
      BY <2>2, <3>3, AddsStep
    <3>5. IsFiniteSet(s)
      BY <1>1, FS_Subset
    <3>. HIDE DEF u
    <3>6. h(s)[u] = h(u)[u]
      BY <3>2, <3>3, <3>5, AddsAgree
    <3>. QED BY <2>2, <3>4, <3>6 DEF u
  <2>. QED BY <2>1, <2>2
<1>4. ASSUME NEW s \in SUBSET T, s # {} PROVE g[s] = f[One1(s)] + g[s \ {One1(s)}]
  <2>1. s \ {One1(s)} \in SUBSET T /\ s \ {One1(s)} # T
    BY <1>4 DEF One1
  <2>. QED BY <1>3, <1>4, <2>1
<1>5. Adds(f, T, g)
  <2>1. g[{}] = 0
    OBVIOUS
  <2>2. \A s \in SUBSET T : g[s] = IF s = {} THEN 0 ELSE f[One1(s)] + g[s \ {One1(s)}]
    BY <1>4, <2>1
  <2>3. PICK k : k = g
    OBVIOUS
  <2>4. k = [s \in SUBSET T |-> k[s]]
    BY <2>3
  <2>5. \A s \in SUBSET T : k[s] = IF s = {} THEN 0 ELSE f[One1(s)] + k[s \ {One1(s)}]
    BY <2>2, <2>3
  <2>. HIDE DEF g
  <2>. QED BY <2>3, <2>4, <2>5 DEF Adds
<1>. QED BY <1>1, <1>5

(* Any element may be the one that is added last.                          *)
LEMMA AddsAny ==
  ASSUME NEW S, IsFiniteSet(S), NEW f \in [S -> Nat], NEW g, Adds(f, S, g)
  PROVE  \A T \in SUBSET S : \A x \in T : g[T] = f[x] + g[T \ {x}]
<1>. DEFINE B == {T \in SUBSET S : \E x \in T : g[T] # f[x] + g[T \ {x}]}
<1>. SUFFICES ASSUME B # {} PROVE FALSE
  OBVIOUS
<1>1. PICK T \in B : \A U \in B : U \subseteq T => U = T
  <2>1. B \subseteq SUBSET S
    OBVIOUS
  <2>. HIDE DEF B
  <2>. QED BY <2>1, MinimalSet
<1>2. PICK x \in T : g[T] # f[x] + g[T \ {x}]
  BY <1>1
<1>. DEFINE c == One1(T)
<1>3. c \in T /\ g[T] = f[c] + g[T \ {c}]
  BY <1>1, <1>2, AddsStep, SMTT(30)
<1>. HIDE DEF c
<1>4. x # c
  BY <1>2, <1>3
<1>5. T \ {c} \notin B /\ T \ {x} \notin B
  BY <1>1, <1>2, <1>3
<1>6. g[T \ {c}] = f[x] + g[(T \ {c}) \ {x}] /\ g[T \ {x}] = f[c] + g[(T \ {x}) \ {c}]
  BY <1>1, <1>2, <1>3, <1>4, <1>5
<1>7. (T \ {c}) \ {x} = (T \ {x}) \ {c}
  OBVIOUS
<1>8. f[x] \in Nat /\ f[c] \in Nat /\ g[(T \ {x}) \ {c}] \in Nat
  <2>1. (T \ {x}) \ {c} \in SUBSET S
    BY <1>1
  <2>2. g[(T \ {x}) \ {c}] \in Nat
    BY <2>1, AddsType
  <2>3. x \in S /\ c \in S
    BY <1>1, <1>2, <1>3
  <2>. QED BY <2>2, <2>3
<1>9. PICK a \in Nat, b \in Nat, k \in Nat : a = f[x] /\ b = f[c] /\ k = g[(T \ {x}) \ {c}]
  BY <1>8
<1>10. g[T] = b + (a + k) /\ f[x] + g[T \ {x}] = a + (b + k)
  BY <1>3, <1>6, <1>7, <1>9
<1>. QED BY <1>2, <1>10

(* What SumFunction yields is what summing up step by step yields.         *)
LEMMA TotalAdds ==
  ASSUME NEW S, IsFiniteSet(S), NEW f \in [S -> Nat]
  PROVE  \E g : Adds(f, S, g) /\ SumFunction(f) = g[S]
<1>. DEFINE g == CHOOSE h : Adds(f, DOMAIN f, h)
<1>1. Adds(f, DOMAIN f, g)
  BY AddsExist
<1>2. SumFunction(f) = g[DOMAIN f]
  BY DEF SumFunction, SumFunctionOnSet, FoldFunctionOnSet, MapThenFoldSet, Adds, One1
<1>. HIDE DEF g
<1>. QED BY <1>1, <1>2

(* A sum of naturals is a natural, and of nothing it is 0.                 *)
LEMMA TotalType ==
  ASSUME NEW S, IsFiniteSet(S), NEW f \in [S -> Nat]
  PROVE  SumFunction(f) \in Nat /\ (S = {} => SumFunction(f) = 0)
<1>1. PICK g : Adds(f, S, g) /\ SumFunction(f) = g[S]
  BY TotalAdds
<1>2. g[S] \in Nat
  BY <1>1, AddsType
<1>3. S = {} => g[S] = 0
  BY <1>1, AddsStep
<1>. QED BY <1>1, <1>2, <1>3

(* A sum is one summand and the sum of the others.                         *)
LEMMA TotalSplits ==
  ASSUME NEW S, IsFiniteSet(S), NEW f \in [S -> Nat], NEW x \in S,
         NEW e \in [S \ {x} -> Nat], \A y \in S \ {x} : e[y] = f[y]
  PROVE  SumFunction(f) = f[x] + SumFunction(e)
<1>. DEFINE R == S \ {x}
<1>1. PICK g : Adds(f, S, g) /\ SumFunction(f) = g[S]
  BY TotalAdds
<1>2. IsFiniteSet(R) /\ e \in [R -> Nat] /\ R \subseteq S /\ \A y \in R : e[y] = f[y]
  BY FS_Subset
<1>3. g[S] = f[x] + g[R]
  BY <1>1, AddsAny
<1>. HIDE DEF R
<1>4. PICK h : Adds(e, R, h) /\ SumFunction(e) = h[R]
  BY <1>2, TotalAdds
<1>5. g[R] = h[R]
  BY <1>1, <1>2, <1>4, AddsAgree
<1>. QED BY <1>1, <1>3, <1>4, <1>5

(* A sum of nothing but zeros.                                             *)
LEMMA ZeroTotal ==
  ASSUME NEW S, IsFiniteSet(S)
  PROVE  SumFunction([i \in S |-> 0]) = 0
<1>. DEFINE z == [i \in S |-> 0]
<1>1. z \in [S -> Nat] /\ \A i \in S : z[i] = 0
  OBVIOUS
<1>. HIDE DEF z
<1>2. PICK g : Adds(z, S, g) /\ SumFunction(z) = g[S]
  BY <1>1, TotalAdds
<1>. DEFINE B == {T \in SUBSET S : g[T] # 0}
<1>. SUFFICES ASSUME B # {} PROVE FALSE
  BY <1>2 DEF z
<1>3. PICK T \in B : \A U \in B : U \subseteq T => U = T
  <2>1. B \subseteq SUBSET S
    OBVIOUS
  <2>. HIDE DEF B
  <2>. QED BY <2>1, MinimalSet
<1>4. T # {} /\ One1(T) \in T /\ g[T] = z[One1(T)] + g[T \ {One1(T)}] /\ T \ {One1(T)} \in SUBSET S
  BY <1>2, <1>3, AddsStep
<1>5. T \ {One1(T)} \notin B
  BY <1>3, <1>4
<1>. QED BY <1>1, <1>3, <1>4, <1>5

-----------------------------------------------------------------------------
(* Sequences of sequences, joined                                          *)

(* g joins more and more of the sequences of s, up to the first n.          *)
Joins(s, n, g) == g = [i \in 1..n |-> IF i = 1 THEN s[i] ELSE g[i-1] \o s[i]]

(* What it is at each place.                                               *)
LEMMA JoinsStep ==
  ASSUME NEW s, NEW n \in Nat, NEW g, Joins(s, n, g)
  PROVE  \A i \in 1..n : g[i] = IF i = 1 THEN s[i] ELSE g[i-1] \o s[i]
BY DEF Joins

(* Joining step by step is possible for any sequence of sequences.         *)
LEMMA JoinsExist ==
  ASSUME NEW s, NEW n \in Nat
  PROVE  \E g : Joins(s, n, g)
<1>. DEFINE B == {k \in Nat : ~ \E g : Joins(s, k, g)}
<1>. SUFFICES ASSUME B # {} PROVE FALSE
  OBVIOUS
<1>1. PICK m \in B : \A k \in B : m <= k
  <2>1. B \subseteq Nat
    OBVIOUS
  <2>. HIDE DEF B
  <2>. QED BY <2>1, LeastNat
<1>2. m # 0
  <2>1. Joins(s, 0, [i \in 1..0 |-> s])
    BY DEF Joins
  <2>. QED BY <1>1, <2>1
<1>3. PICK g : Joins(s, m - 1, g)
  BY <1>1, <1>2
<1>. DEFINE k == [i \in 1..m |-> IF i < m THEN g[i] ELSE IF i = 1 THEN s[i] ELSE g[m - 1] \o s[m]]
<1>4. \A i \in 1..m : k[i] = IF i = 1 THEN s[i] ELSE k[i-1] \o s[i]
  <2>. \A i \in 1..m : k[i] = IF i < m THEN g[i] ELSE IF i = 1 THEN s[i] ELSE g[m - 1] \o s[m]
    OBVIOUS
  <2>1. m - 1 \in Nat /\ m \in Nat
    BY <1>1, <1>2
  <2>6. m # 1 => k[m] = g[m - 1] \o s[m]
    <3>1. m \in 1..m /\ ~(m < m)
      BY <2>1
    <3>. QED BY <3>1
  <2>. HIDE DEF k
  <2>2. \A i \in 1..(m - 1) : g[i] = IF i = 1 THEN s[i] ELSE g[i-1] \o s[i]
    BY <1>3, <2>1, JoinsStep
  <2>3. TAKE i \in 1..m
  <2>4. CASE i = 1
    BY <2>1, <2>2, <2>4
  <2>5. CASE i # 1
    <3>1. k[i - 1] = g[i - 1] /\ i - 1 = (i - 1) /\ i - 1 \in 1..m
      BY <2>1, <2>5
    <3>2. CASE i < m
      <4>1. i \in 1..(m - 1)
        BY <2>1, <3>2
      <4>2. g[i] = g[i - 1] \o s[i]
        BY <2>2, <2>5, <4>1
      <4>3. k[i] = g[i]
        BY <3>2
      <4>. QED BY <2>5, <3>1, <4>2, <4>3
    <3>3. CASE i = m
      <4>1. k[i] = g[m - 1] \o s[m]
        BY <2>6, <2>5, <3>3
      <4>. QED BY <2>5, <3>1, <3>3, <4>1
    <3>. QED BY <2>1, <3>2, <3>3
  <2>. QED BY <2>4, <2>5
<1>5. Joins(s, m, k)
  <2>1. PICK r : r = k
    OBVIOUS
  <2>2. r = [i \in 1..m |-> r[i]]
    BY <2>1
  <2>3. \A i \in 1..m : r[i] = IF i = 1 THEN s[i] ELSE r[i-1] \o s[i]
    BY <1>4, <2>1
  <2>. HIDE DEF k
  <2>. QED BY <2>1, <2>2, <2>3 DEF Joins
<1>. QED BY <1>1, <1>5

Alike(s, t, k) == \A i \in 1..k : s[i] = t[i]

(* Two joinings of what is alike are alike.                                *)
LEMMA JoinsAgree ==
  ASSUME NEW s, NEW t, NEW n \in Nat, NEW m \in Nat, NEW g, NEW h, Joins(s, n, g), Joins(t, m, h)
  PROVE  \A k \in Nat : k <= n /\ k <= m /\ Alike(s, t, k) => Alike(g, h, k)
<1>. SUFFICES ASSUME NEW k \in Nat, k <= n, k <= m, \A i \in 1..k : s[i] = t[i]
     PROVE  \A i \in 1..k : g[i] = h[i]
  BY DEF Alike
<1>. DEFINE B == {i \in 1..k : g[i] # h[i]}
<1>. SUFFICES ASSUME B # {} PROVE FALSE
  OBVIOUS
<1>1. PICK i \in B : \A j \in B : i <= j
  <2>1. B \subseteq Nat
    OBVIOUS
  <2>. HIDE DEF B
  <2>. QED BY <2>1, LeastNat
<1>2. i \in 1..k /\ i \in 1..n /\ i \in 1..m /\ g[i] # h[i]
  BY <1>1
<1>3. g[i] = IF i = 1 THEN s[i] ELSE g[i-1] \o s[i]
  BY <1>2, JoinsStep
<1>4. h[i] = IF i = 1 THEN t[i] ELSE h[i-1] \o t[i]
  BY <1>2, JoinsStep
<1>5. i # 1 => g[i - 1] = h[i - 1]
  BY <1>1, <1>2
<1>6. s[i] = t[i]
  BY <1>2
<1>. QED BY <1>2, <1>3, <1>4, <1>5, <1>6

(* What FlattenSeq makes is what joining step by step makes.               *)
LEMMA FlatJoins ==
  ASSUME NEW T, NEW s \in Seq(T)
  PROVE  \E g : /\ Joins(s, Len(s), g)
                /\ FlattenSeq(s) = IF Len(s) = 0 THEN <<>> ELSE g[Len(s)]
<1>. DEFINE g == CHOOSE h : h = [i \in 1..Len(s) |-> IF i = 1 THEN s[i] ELSE h[i-1] \o s[i]]
<1>1. Joins(s, Len(s), g)
  <2>1. \E h : Joins(s, Len(s), h)
    BY JoinsExist
  <2>. QED BY <2>1 DEF Joins
<1>2. FlattenSeq(s) = IF Len(s) = 0 THEN s ELSE g[Len(s)]
  BY DEF FlattenSeq
<1>. HIDE DEF g
<1>3. Len(s) = 0 => s = <<>>
  OBVIOUS
<1>. QED BY <1>1, <1>2, <1>3

(* Nothing joined is nothing.                                              *)
LEMMA FlatEmpty == FlattenSeq(<<>>) = <<>>
<1>1. <<>> \in Seq(Nat) /\ Len(<<>>) = 0
  OBVIOUS
<1>. QED BY <1>1, FlatJoins

(* Joined sequences over T are a sequence over T.                          *)
LEMMA FlatType ==
  ASSUME NEW T, NEW s \in Seq(Seq(T))
  PROVE  FlattenSeq(s) \in Seq(T)
<1>1. PICK g : Joins(s, Len(s), g) /\ FlattenSeq(s) = IF Len(s) = 0 THEN <<>> ELSE g[Len(s)]
  BY FlatJoins
<1>. DEFINE B == {i \in 1..Len(s) : g[i] \notin Seq(T)}
<1>2. B = {}
  <2>. SUFFICES ASSUME B # {} PROVE FALSE
    OBVIOUS
  <2>1. PICK i \in B : \A j \in B : i <= j
    <3>1. B \subseteq Nat
      OBVIOUS
    <3>. HIDE DEF B
    <3>. QED BY <3>1, LeastNat
  <2>2. g[i] = IF i = 1 THEN s[i] ELSE g[i-1] \o s[i]
    BY <1>1, <2>1, JoinsStep
  <2>3. i # 1 => g[i - 1] \in Seq(T)
    BY <2>1
  <2>4. s[i] \in Seq(T)
    BY <2>1
  <2>5. i # 1 => g[i - 1] \o s[i] \in Seq(T)
    BY <2>3, <2>4, ConcatProperties, Zenon
  <2>. QED BY <2>1, <2>2, <2>4, <2>5
<1>3. CASE Len(s) = 0
  BY <1>1, <1>3
<1>4. CASE Len(s) # 0
  <2>1. Len(s) \in 1..Len(s)
    BY <1>4
  <2>. QED BY <1>1, <1>2, <1>4, <2>1
<1>. QED BY <1>3, <1>4

(* One more sequence to join comes at the end.                             *)
LEMMA FlatAppend ==
  ASSUME NEW T, NEW s \in Seq(Seq(T)), NEW x \in Seq(T)
  PROVE  FlattenSeq(Append(s, x)) = FlattenSeq(s) \o x
<1>. DEFINE a == Append(s, x)
            n == Len(s)
<1>1. a \in Seq(Seq(T)) /\ Len(a) = n + 1 /\ a[n + 1] = x /\ \A i \in 1..n : a[i] = s[i]
  OBVIOUS
<1>2. n \in Nat
  OBVIOUS
<1>3. PICK g : Joins(s, n, g) /\ FlattenSeq(s) = IF n = 0 THEN <<>> ELSE g[n]
  BY FlatJoins
<1>. HIDE DEF a
<1>4. PICK h : Joins(a, Len(a), h) /\ FlattenSeq(a) = IF Len(a) = 0 THEN <<>> ELSE h[Len(a)]
  BY <1>1, FlatJoins
<1>. HIDE DEF n
<1>5. FlattenSeq(a) = IF n + 1 = 1 THEN x ELSE h[n] \o x
  <2>1. n + 1 \in 1..Len(a) /\ (n + 1) - 1 = n
    BY <1>1, <1>2
  <2>2. h[n + 1] = IF n + 1 = 1 THEN a[n + 1] ELSE h[(n + 1) - 1] \o a[n + 1]
    BY <1>1, <1>2, <1>4, <2>1, JoinsStep
  <2>3. Len(a) # 0
    BY <1>1, <1>2
  <2>. QED BY <1>1, <1>4, <2>1, <2>2, <2>3
<1>6. CASE n = 0
  <2>1. <<>> \o x = x
    BY ConcatEmptySeq, Zenon
  <2>. QED BY <1>3, <1>5, <1>6, <2>1 DEF a
<1>7. CASE n # 0
  <2>1. n <= Len(a) /\ n \in 1..n /\ Len(a) \in Nat
    BY <1>1, <1>2, <1>7
  <2>2. \A i \in 1..n : g[i] = h[i]
    <3>1. \A i \in 1..n : s[i] = a[i]
      BY <1>1
    <3>2. n <= n
      BY <1>2
    <3>3. PICK l \in Nat : l = Len(a) /\ Joins(s, n, g) /\ Joins(a, l, h)
      BY <1>3, <1>4, <2>1
    <3>4. \A j \in Nat : j <= n /\ j <= l /\ Alike(s, a, j) => Alike(g, h, j)
      BY <1>2, <3>3, JoinsAgree
    <3>. QED BY <3>1, <3>2, <3>3, <3>4, <1>2, <2>1 DEF Alike
  <2>3. n + 1 # 1
    BY <1>2, <1>7
  <2>. QED BY <1>3, <1>5, <1>7, <2>1, <2>2, <2>3 DEF a
<1>. QED BY <1>6, <1>7

(* A row of sequences and one more, however it came about.                  *)
LEMMA FlatOneMore ==
  ASSUME NEW T, NEW s \in Seq(Seq(T)), NEW t \in Seq(Seq(T)), NEW x \in Seq(T),
         Len(t) = Len(s) + 1, t[Len(t)] = x, \A i \in 1..Len(s) : t[i] = s[i]
  PROVE  FlattenSeq(t) = FlattenSeq(s) \o x
<1>1. /\ Append(s, x) \in Seq(Seq(T)) /\ Len(Append(s, x)) = Len(t)
      /\ \A i \in 1..Len(t) : Append(s, x)[i] = t[i]
  OBVIOUS
<1>2. Append(s, x) = t
  BY <1>1, SeqEqual
<1>. QED BY <1>2, FlatAppend

(* A sequence that is not empty is an Append.                               *)
LEMMA TakenApart ==
  ASSUME NEW T, NEW t \in Seq(T), t # <<>>
  PROVE  /\ SubSeq(t, 1, Len(t) - 1) \in Seq(T) /\ t[Len(t)] \in T
         /\ Len(SubSeq(t, 1, Len(t) - 1)) = Len(t) - 1
         /\ t = Append(SubSeq(t, 1, Len(t) - 1), t[Len(t)])
<1>. DEFINE n == Len(t)
            f == SubSeq(t, 1, n - 1)
<1>1. n \in Nat /\ n > 0 /\ t[n] \in T
  OBVIOUS
<1>. HIDE DEF n
<1>2. f \in Seq(T) /\ Len(f) = n - 1 /\ \A i \in 1..(n - 1) : f[i] = t[i]
  <2>1. \A i \in 1..(n - 1) : t[i] \in T
    BY <1>1 DEF n
  <2>2. 1 \in Int /\ n - 1 \in Int
    BY <1>1
  <2>3. /\ f \in Seq(T)
        /\ Len(f) = IF 1 <= n - 1 THEN (n - 1) - 1 + 1 ELSE 0
        /\ \A i \in 1..((n - 1) - 1 + 1) : f[i] = t[1 + i - 1]
    BY <2>1, <2>2, SubSeqProperties
  <2>. QED BY <1>1, <2>3
<1>. HIDE DEF f
<1>3. Len(t) = n /\ Append(f, t[n]) \in Seq(T) /\ Len(Append(f, t[n])) = n /\ \A i \in 1..n : Append(f, t[n])[i] = t[i]
  BY <1>1, <1>2 DEF n
<1>4. Append(f, t[n]) = t
  BY <1>1, <1>3, SeqEqual, Zenon
<1>. QED BY <1>1, <1>2, <1>4 DEF f, n

(* Appending to what is concatenated appends to the second part.           *)
LEMMA ConcatAppended ==
  ASSUME NEW T, NEW s \in Seq(T), NEW f \in Seq(T), NEW x \in T
  PROVE  s \o f \in Seq(T) /\ s \o Append(f, x) = Append(s \o f, x)
<1>1. s \o f \in Seq(T) /\ s \o Append(f, x) \in Seq(T) /\ Append(s \o f, x) \in Seq(T)
  OBVIOUS
<1>2. Len(s \o Append(f, x)) = Len(Append(s \o f, x))
  OBVIOUS
<1>3. \A i \in 1..Len(s \o Append(f, x)) : (s \o Append(f, x))[i] = Append(s \o f, x)[i]
  OBVIOUS
<1>. QED BY <1>1, <1>2, <1>3, SeqEqual, Zenon

(* To join two rows is to join each and concatenate.                       *)
LEMMA FlatConcat ==
  ASSUME NEW T, NEW s \in Seq(Seq(T)), NEW t \in Seq(Seq(T))
  PROVE  FlattenSeq(s \o t) = FlattenSeq(s) \o FlattenSeq(t)
<1>. DEFINE B == {n \in Nat : \E u \in Seq(Seq(T)) : Len(u) = n /\ FlattenSeq(s \o u) # FlattenSeq(s) \o FlattenSeq(u)}
<1>. SUFFICES ASSUME B # {} PROVE FALSE
  <2>1. ASSUME B = {} PROVE FlattenSeq(s \o t) = FlattenSeq(s) \o FlattenSeq(t)
    <3>1. Len(t) \in Nat /\ Len(t) \notin B
      BY <2>1, SMTT(30)
    <3>. QED BY <3>1
  <2>. QED BY <2>1
<1>1. PICK m \in B : \A k \in B : m <= k
  <2>1. B \subseteq Nat
    OBVIOUS
  <2>. HIDE DEF B
  <2>. QED BY <2>1, LeastNat
<1>2. PICK u \in Seq(Seq(T)) : Len(u) = m /\ FlattenSeq(s \o u) # FlattenSeq(s) \o FlattenSeq(u)
  BY <1>1
<1>3. FlattenSeq(s) \in Seq(T)
  BY FlatType
<1>6. m \in Nat /\ \A v \in Seq(Seq(T)) : ~(m <= Len(v)) => FlattenSeq(s \o v) = FlattenSeq(s) \o FlattenSeq(v)
  BY <1>1, SMTT(30)
<1>. HIDE DEF B
<1>4. CASE u = <<>>
  <2>1. s \o u = s
    BY <1>4, ConcatEmptySeq, Zenon
  <2>2. FlattenSeq(s) \o <<>> = FlattenSeq(s)
    BY <1>3, ConcatEmptySeq, Zenon
  <2>. QED BY <1>2, <1>4, <2>1, <2>2, FlatEmpty
<1>5. CASE u # <<>>
  <2>. DEFINE f == SubSeq(u, 1, Len(u) - 1)
              x == u[Len(u)]
  <2>1. f \in Seq(Seq(T)) /\ x \in Seq(T) /\ u = Append(f, x) /\ Len(f) = m - 1
    BY <1>2, <1>5, TakenApart
  <2>. HIDE DEF f, x
  <2>2. FlattenSeq(s \o f) = FlattenSeq(s) \o FlattenSeq(f)
    <3>1. m - 1 \in Nat /\ ~(m <= m - 1)
      BY <1>6, <2>1
    <3>. QED BY <1>6, <2>1, <3>1
  <2>3. s \o f \in Seq(Seq(T)) /\ s \o u = Append(s \o f, x)
    <3>1. \A p \in Seq(Seq(T)) : \A q \in Seq(Seq(T)) : \A y \in Seq(T) :
            p \o q \in Seq(Seq(T)) /\ p \o Append(q, y) = Append(p \o q, y)
      BY ConcatAppended, SMTT(30)
    <3>. QED BY <2>1, <3>1
  <2>4. FlattenSeq(s \o u) = FlattenSeq(s \o f) \o x
    BY <2>1, <2>3, FlatAppend
  <2>5. FlattenSeq(u) = FlattenSeq(f) \o x
    BY <2>1, FlatAppend
  <2>6. FlattenSeq(f) \in Seq(T)
    BY <2>1, FlatType
  <2>7. (FlattenSeq(s) \o FlattenSeq(f)) \o x = FlattenSeq(s) \o (FlattenSeq(f) \o x)
    <3>1. FlattenSeq(s) \in Seq(T) /\ FlattenSeq(f) \in Seq(T) /\ x \in Seq(T)
      BY <1>3, <2>1, <2>6
    <3>2. \A p \in Seq(T) : \A q \in Seq(T) : \A y \in Seq(T) : (p \o q) \o y = p \o (q \o y)
      BY ConcatAssociative
    <3>. QED BY <3>1, <3>2
  <2>. QED BY <1>2, <2>2, <2>4, <2>5, <2>7
<1>. QED BY <1>4, <1>5

(* The first elements and one more.                                        *)
LEMMA FirstOnes ==
  ASSUME NEW T, NEW t \in Seq(T), NEW k \in Nat, k < Len(t)
  PROVE  /\ SubSeq(t, 1, k) \in Seq(T) /\ t[k + 1] \in T
         /\ SubSeq(t, 1, k + 1) = Append(SubSeq(t, 1, k), t[k + 1])
<1>1. \A i \in 1..(k + 1) : t[i] \in T
  OBVIOUS
<1>. DEFINE p == SubSeq(t, 1, k)
            r == SubSeq(t, 1, k + 1)
<1>2. /\ p \in Seq(T) /\ Len(p) = k
      /\ \A i \in 1..k : p[i] = t[i]
  <2>1. \A i \in 1..k : t[i] \in T
    BY <1>1
  <2>. QED BY <2>1, SubSeqProperties
<1>3. /\ r \in Seq(T) /\ Len(r) = k + 1
      /\ \A i \in 1..(k + 1) : r[i] = t[i]
  BY <1>1, SubSeqProperties
<1>. HIDE DEF p, r
<1>4. Append(p, t[k + 1]) \in Seq(T) /\ Len(Append(p, t[k + 1])) = k + 1
      /\ \A i \in 1..(k + 1) : Append(p, t[k + 1])[i] = r[i]
  BY <1>1, <1>2, <1>3
<1>5. Append(p, t[k + 1]) = r
  BY <1>3, <1>4, SeqEqual
<1>6. t[k + 1] \in T
  BY <1>1
<1>7. p \in Seq(T)
  BY <1>2
<1>. QED BY <1>5, <1>6, <1>7 DEF p, r

(* What is concatenated holds what both parts hold.                        *)
LEMMA JoinedMembers ==
  ASSUME NEW T, NEW s \in Seq(T), NEW t \in Seq(T)
  PROVE  \A y : y \in ToSet(s \o t) <=> y \in ToSet(s) \/ y \in ToSet(t)
<1>1. /\ s \o t \in Seq(T) /\ Len(s \o t) = Len(s) + Len(t)
      /\ \A i \in 1..(Len(s) + Len(t)) : (s \o t)[i] = IF i <= Len(s) THEN s[i] ELSE t[i - Len(s)]
  BY ConcatProperties
<1>2. Len(s) \in Nat /\ Len(t) \in Nat /\ DOMAIN s = 1..Len(s) /\ DOMAIN t = 1..Len(t) /\ DOMAIN (s \o t) = 1..Len(s \o t)
  BY <1>1
<1>. SUFFICES ASSUME NEW y PROVE y \in ToSet(s \o t) <=> y \in ToSet(s) \/ y \in ToSet(t)
  OBVIOUS
<1>3. ASSUME y \in ToSet(s \o t) PROVE y \in ToSet(s) \/ y \in ToSet(t)
  <2>1. PICK i \in 1..(Len(s) + Len(t)) : (s \o t)[i] = y
    BY <1>1, <1>2, <1>3 DEF ToSet
  <2>2. CASE i <= Len(s)
    BY <1>1, <1>2, <2>1, <2>2 DEF ToSet
  <2>3. CASE ~(i <= Len(s))
    <3>1. i - Len(s) \in 1..Len(t) /\ t[i - Len(s)] = y
      BY <1>1, <1>2, <2>1, <2>3
    <3>. QED BY <1>2, <3>1 DEF ToSet
  <2>. QED BY <2>2, <2>3
<1>4. ASSUME y \in ToSet(s) PROVE y \in ToSet(s \o t)
  <2>1. PICK i \in 1..Len(s) : s[i] = y
    BY <1>2, <1>4 DEF ToSet
  <2>2. i \in 1..(Len(s) + Len(t)) /\ (s \o t)[i] = y
    BY <1>1, <1>2, <2>1
  <2>. QED BY <1>1, <1>2, <2>2 DEF ToSet
<1>5. ASSUME y \in ToSet(t) PROVE y \in ToSet(s \o t)
  <2>1. PICK i \in 1..Len(t) : t[i] = y
    BY <1>2, <1>5 DEF ToSet
  <2>2. Len(s) + i \in 1..(Len(s) + Len(t)) /\ ~(Len(s) + i <= Len(s)) /\ (Len(s) + i) - Len(s) = i
    BY <1>2, <2>1
  <2>3. (s \o t)[Len(s) + i] = y
    BY <1>1, <2>1, <2>2
  <2>. QED BY <1>1, <1>2, <2>2, <2>3 DEF ToSet
<1>. QED BY <1>3, <1>4, <1>5

(* What is joined holds what its parts hold, and no more.                   *)
LEMMA FlatHolds ==
  ASSUME NEW T, NEW s \in Seq(Seq(T))
  PROVE  \A x : x \in ToSet(FlattenSeq(s)) <=> \E i \in 1..Len(s) : x \in ToSet(s[i])
<1>. DEFINE Good(u) == \A x : x \in ToSet(FlattenSeq(u)) <=> \E i \in 1..Len(u) : x \in ToSet(u[i])
            B == {n \in 0..Len(s) : ~Good(SubSeq(s, 1, n))}
<1>1. B = {}
  <2>. SUFFICES ASSUME B # {} PROVE FALSE
    OBVIOUS
  <2>1. PICK n \in B : \A j \in B : n <= j
    <3>1. B \subseteq Nat
      OBVIOUS
    <3>. HIDE DEF B
    <3>. QED BY <3>1, LeastNat
  <2>2. n \in Nat /\ n <= Len(s) /\ ~Good(SubSeq(s, 1, n))
    BY <2>1
  <2>3. n # 0
    <3>1. SubSeq(s, 1, 0) = <<>>
      BY SubSeqEmpty
    <3>2. Good(<<>>)
      BY FlatEmpty DEF ToSet
    <3>. QED BY <2>2, <3>1, <3>2
  <2>. DEFINE j == n - 1
  <2>4. j \in Nat /\ n = j + 1 /\ j < Len(s) /\ ~(n <= j)
    BY <2>2, <2>3
  <2>5. Good(SubSeq(s, 1, j))
    <3>1. j \in 0..Len(s) /\ j \notin B
      <4>. HIDE DEF B, j
      <4>. QED BY <2>1, <2>2, <2>4
    <3>. HIDE DEF Good
    <3>. QED BY <3>1
  <2>. HIDE DEF B, j
  <2>. DEFINE u == SubSeq(s, 1, j)
              x == s[n]
  <2>6. u \in Seq(Seq(T)) /\ x \in Seq(T) /\ SubSeq(s, 1, n) = Append(u, x) /\ Len(u) = j
    <3>1. \A i \in 1..j : s[i] \in Seq(T)
      BY <2>4
    <3>. QED BY <2>4, <3>1, FirstOnes, SubSeqProperties
  <2>7. Good(u)
    BY <2>5
  <2>. HIDE DEF u, x
  <2>8. FlattenSeq(Append(u, x)) = FlattenSeq(u) \o x /\ FlattenSeq(u) \in Seq(T)
    BY <2>6, FlatAppend, FlatType
  <2>9. \A y : y \in ToSet(FlattenSeq(u) \o x) <=> y \in ToSet(FlattenSeq(u)) \/ y \in ToSet(x)
    BY <2>6, <2>8, JoinedMembers
  <2>10. \A y : (\E i \in 1..Len(Append(u, x)) : y \in ToSet(Append(u, x)[i])) <=> (\E i \in 1..Len(u) : y \in ToSet(u[i])) \/ y \in ToSet(x)
    <3>1. Len(Append(u, x)) = j + 1 /\ (\A i \in 1..j : Append(u, x)[i] = u[i]) /\ Append(u, x)[j + 1] = x
      BY <2>4, <2>6
    <3>. QED BY <2>4, <2>6, <3>1
  <2>11. Good(Append(u, x))
    BY <2>7, <2>8, <2>9, <2>10
  <2>. QED BY <2>2, <2>6, <2>11
<1>. HIDE DEF Good
<1>2. Good(SubSeq(s, 1, Len(s)))
  BY <1>1
<1>3. SubSeq(s, 1, Len(s)) = s
  BY SubSeqFull
<1>. QED BY <1>2, <1>3 DEF Good

(* What is joined is no longer than its parts together.                     *)
LEMMA FlatLength ==
  ASSUME NEW T, NEW s \in Seq(Seq(T)), NEW k \in Nat, \A i \in 1..Len(s) : Len(s[i]) <= k
  PROVE  Len(FlattenSeq(s)) <= k * Len(s)
<1>. DEFINE Good(u) == Len(FlattenSeq(u)) <= k * Len(u)
            B == {n \in 0..Len(s) : ~Good(SubSeq(s, 1, n))}
<1>1. B = {}
  <2>. SUFFICES ASSUME B # {} PROVE FALSE
    OBVIOUS
  <2>1. PICK n \in B : \A j \in B : n <= j
    <3>1. B \subseteq Nat
      OBVIOUS
    <3>. HIDE DEF B
    <3>. QED BY <3>1, LeastNat
  <2>2. n \in Nat /\ n <= Len(s) /\ ~Good(SubSeq(s, 1, n))
    BY <2>1
  <2>3. n # 0
    <3>1. SubSeq(s, 1, 0) = <<>>
      BY SubSeqEmpty
    <3>2. Good(<<>>)
      BY FlatEmpty
    <3>. QED BY <2>2, <3>1, <3>2
  <2>. DEFINE j == n - 1
  <2>4. j \in Nat /\ n = j + 1 /\ j < Len(s) /\ ~(n <= j)
    BY <2>2, <2>3
  <2>5. Good(SubSeq(s, 1, j))
    <3>1. j \in 0..Len(s) /\ j \notin B
      <4>. HIDE DEF B, j
      <4>. QED BY <2>1, <2>2, <2>4
    <3>. HIDE DEF Good
    <3>. QED BY <3>1
  <2>. HIDE DEF B, j
  <2>. DEFINE u == SubSeq(s, 1, j)
              x == s[n]
  <2>6. u \in Seq(Seq(T)) /\ x \in Seq(T) /\ SubSeq(s, 1, n) = Append(u, x) /\ Len(u) = j
    <3>1. \A i \in 1..j : s[i] \in Seq(T)
      BY <2>4
    <3>. QED BY <2>4, <3>1, FirstOnes, SubSeqProperties
  <2>7. Len(x) <= k /\ Len(x) \in Nat
    BY <2>2, <2>4, <2>6
  <2>8. Good(u)
    BY <2>5
  <2>. HIDE DEF u, x
  <2>9. FlattenSeq(Append(u, x)) = FlattenSeq(u) \o x /\ FlattenSeq(u) \in Seq(T)
    BY <2>6, FlatAppend, FlatType
  <2>10. Len(FlattenSeq(u) \o x) <= k * Len(Append(u, x))
    <3>1. Len(FlattenSeq(u) \o x) = Len(FlattenSeq(u)) + Len(x)
      BY <2>6, <2>9, ConcatProperties
    <3>2. Len(Append(u, x)) = j + 1 /\ Len(FlattenSeq(u)) \in Nat
      BY <2>6, <2>9
    <3>3. k * (j + 1) = k * j + k /\ k * j \in Nat
      BY <2>4
    <3>. QED BY <2>6, <2>7, <2>8, <3>1, <3>2, <3>3
  <2>11. Good(Append(u, x))
    BY <2>9, <2>10
  <2>. QED BY <2>2, <2>6, <2>11
<1>. HIDE DEF Good
<1>2. Good(SubSeq(s, 1, Len(s)))
  BY <1>1
<1>3. SubSeq(s, 1, Len(s)) = s
  BY SubSeqFull
<1>. QED BY <1>2, <1>3 DEF Good

(* Both at once, for parts that are short.                                  *)
LEMMA FlatMembers ==
  ASSUME NEW T, NEW s \in Seq(Seq(T)), NEW k \in Nat, \A i \in 1..Len(s) : Len(s[i]) <= k
  PROVE  /\ \A x : x \in ToSet(FlattenSeq(s)) <=> \E i \in 1..Len(s) : x \in ToSet(s[i])
         /\ Len(FlattenSeq(s)) <= k * Len(s)
<1>1. \A x : x \in ToSet(FlattenSeq(s)) <=> \E i \in 1..Len(s) : x \in ToSet(s[i])
  BY FlatHolds
<1>2. Len(FlattenSeq(s)) <= k * Len(s)
  BY FlatLength
<1>. QED BY <1>1, <1>2

-----------------------------------------------------------------------------
(* A sequence cut to pieces                                                *)

(* How many pieces of a size it takes, and that no piece is empty.         *)
LEMMA Parts ==
  ASSUME NEW a \in Nat, NEW b \in Nat, b > 0
  PROVE  /\ (a + b - 1) \div b \in Nat
         /\ a <= ((a + b - 1) \div b) * b
         /\ \A i \in 1..((a + b - 1) \div b) : (i - 1) * b < a
OBVIOUS

(* The pieces of a chunk, put together again.                               *)
LEMMA SliceJoins ==
  ASSUME NEW T, NEW t \in Seq(T), NEW a \in Nat, NEW b \in Nat, a <= b, b <= Len(t)
  PROVE  /\ SubSeq(t, 1, a) \in Seq(T) /\ SubSeq(t, a + 1, b) \in Seq(T)
         /\ SubSeq(t, 1, a) \o SubSeq(t, a + 1, b) = SubSeq(t, 1, b)
<1>1. \A i \in 1..b : t[i] \in T
  OBVIOUS
<1>2. /\ SubSeq(t, 1, a) \in Seq(T) /\ Len(SubSeq(t, 1, a)) = a
      /\ \A i \in 1..a : SubSeq(t, 1, a)[i] = t[i]
  <2>1. \A i \in 1..a : t[i] \in T
    BY <1>1
  <2>. QED BY <2>1, SubSeqProperties
<1>3. /\ SubSeq(t, 1, b) \in Seq(T) /\ Len(SubSeq(t, 1, b)) = b
      /\ \A i \in 1..b : SubSeq(t, 1, b)[i] = t[i]
  BY <1>1, SubSeqProperties
<1>4. /\ SubSeq(t, a + 1, b) \in Seq(T) /\ Len(SubSeq(t, a + 1, b)) = b - a
      /\ \A i \in 1..(b - a) : SubSeq(t, a + 1, b)[i] = t[a + i]
  <2>1. \A i \in (a + 1)..b : t[i] \in T
    BY <1>1
  <2>2. /\ SubSeq(t, a + 1, b) \in Seq(T)
        /\ Len(SubSeq(t, a + 1, b)) = IF a + 1 <= b THEN b - (a + 1) + 1 ELSE 0
        /\ \A i \in 1..(b - (a + 1) + 1) : SubSeq(t, a + 1, b)[i] = t[(a + 1) + i - 1]
    BY <2>1, SubSeqProperties
  <2>. QED BY <2>2
<1>. DEFINE p == SubSeq(t, 1, a)
            q == SubSeq(t, a + 1, b)
            r == SubSeq(t, 1, b)
<1>. HIDE DEF p, q, r
<1>5. /\ p \o q \in Seq(T) /\ Len(p \o q) = Len(p) + Len(q)
      /\ \A i \in 1..(Len(p) + Len(q)) : (p \o q)[i] = IF i <= Len(p) THEN p[i] ELSE q[i - Len(p)]
  BY <1>2, <1>4, ConcatProperties DEF p, q
<1>6. Len(p \o q) = b /\ \A i \in 1..b : (p \o q)[i] = r[i]
  BY <1>2, <1>3, <1>4, <1>5 DEF p, q, r
<1>7. p \o q = r
  BY <1>3, <1>5, <1>6, SeqEqual DEF r
<1>. QED BY <1>2, <1>4, <1>7 DEF p, q, r

-----------------------------------------------------------------------------
(* Joining rows, by induction over a set of numbers or of sequences        *)

(* Induction over a set: what holds of zero and of every successor.        *)
LEMMA CountedUp ==
  ASSUME NEW S, 0 \in S, \A n \in Nat : n \in S => n + 1 \in S
  PROVE  \A n \in Nat : n \in S
<1>. SUFFICES ASSUME NEW k \in Nat, k \notin S PROVE FALSE
  OBVIOUS
<1>. DEFINE B == {n \in Nat : n \notin S}
<1>1. B \subseteq Nat /\ k \in B
  OBVIOUS
<1>. HIDE DEF B
<1>2. PICK m \in B : \A j \in B : m <= j
  BY <1>1, LeastNat
<1>3. m \in Nat /\ m \notin S /\ \A j \in Nat : j \notin S => m <= j
  BY <1>2 DEF B
<1>4. m # 0
  BY <1>3
<1>5. m - 1 \in Nat /\ ~(m <= m - 1) /\ (m - 1) + 1 = m
  BY <1>3, <1>4
<1>6. m - 1 \in S
  BY <1>3, <1>5
<1>. QED BY <1>3, <1>5, <1>6

(* Induction over the sequences: a set with the empty one that holds what  *)
(* is appended to its members holds them all.                              *)
LEMMA BuiltUp ==
  ASSUME NEW T, NEW S, <<>> \in S, \A u \in Seq(T) : \A x \in T : u \in S => Append(u, x) \in S
  PROVE  \A t \in Seq(T) : t \in S
<1>. DEFINE N == {n \in Nat : \A t \in Seq(T) : Len(t) = n => t \in S}
<1>1. 0 \in N
  OBVIOUS
<1>2. ASSUME NEW n \in Nat, n \in N PROVE n + 1 \in N
  <2>. SUFFICES ASSUME NEW t \in Seq(T), Len(t) = n + 1 PROVE t \in S
    OBVIOUS
  <2>. DEFINE f == SubSeq(t, 1, Len(t) - 1)
              x == t[Len(t)]
  <2>1. t # <<>>
    OBVIOUS
  <2>2. f \in Seq(T) /\ x \in T /\ t = Append(f, x) /\ Len(f) = n
    BY <1>2, <2>1, TakenApart
  <2>. HIDE DEF f, x
  <2>3. f \in S
    BY <1>2, <2>2
  <2>. QED BY <2>2, <2>3
<1>. HIDE DEF N
<1>3. \A n \in Nat : n \in N
  BY <1>1, <1>2, CountedUp
<1>. SUFFICES ASSUME NEW t \in Seq(T) PROVE t \in S
  OBVIOUS
<1>4. Len(t) \in N
  BY <1>3
<1>. QED BY <1>4 DEF N

(* A function of the first numbers is a sequence.                          *)
LEMMA RowOf ==
  ASSUME NEW T, NEW n \in Nat, NEW f \in [1..n -> T]
  PROVE  f \in Seq(T) /\ Len(f) = n /\ \A i \in 1..n : f[i] \in T
OBVIOUS

(* To join rows of rows is to join each and then what results.             *)
LEMMA FlatFlat ==
  ASSUME NEW T, NEW u \in Seq(Seq(Seq(T)))
  PROVE  /\ [i \in DOMAIN u |-> FlattenSeq(u[i])] \in Seq(Seq(T))
         /\ FlattenSeq(FlattenSeq(u)) = FlattenSeq([i \in DOMAIN u |-> FlattenSeq(u[i])])
<1>. DEFINE Joined(v) == [i \in DOMAIN v |-> FlattenSeq(v[i])]
            S == {v \in Seq(Seq(Seq(T))) : FlattenSeq(FlattenSeq(v)) = FlattenSeq(Joined(v))}
<1>1. ASSUME NEW v \in Seq(Seq(Seq(T)))
      PROVE  Joined(v) \in Seq(Seq(T)) /\ Len(Joined(v)) = Len(v)
               /\ \A i \in 1..Len(v) : Joined(v)[i] = FlattenSeq(v[i])
  <2>1. \A i \in 1..Len(v) : v[i] \in Seq(Seq(T))
    OBVIOUS
  <2>2. \A i \in 1..Len(v) : FlattenSeq(v[i]) \in Seq(T)
    BY <2>1, FlatType
  <2>3. DOMAIN v = 1..Len(v) /\ Len(v) \in Nat
    OBVIOUS
  <2>4. Joined(v) \in [1..Len(v) -> Seq(T)] /\ \A i \in 1..Len(v) : Joined(v)[i] = FlattenSeq(v[i])
    BY <2>2, <2>3
  <2>. HIDE DEF Joined
  <2>. QED BY <2>3, <2>4, RowOf
<1>2. <<>> \in S
  <2>1. Joined(<<>>) = <<>>
    OBVIOUS
  <2>. QED BY <2>1, FlatEmpty
<1>3. ASSUME NEW v \in Seq(Seq(Seq(T))), NEW x \in Seq(Seq(T)), v \in S PROVE Append(v, x) \in S
  <2>. DEFINE a == Append(v, x)
  <2>1. a \in Seq(Seq(Seq(T))) /\ Len(a) = Len(v) + 1 /\ a[Len(a)] = x
          /\ (\A i \in 1..Len(v) : a[i] = v[i]) /\ Len(v) \in Nat
    OBVIOUS
  <2>2. /\ FlattenSeq(v) \in Seq(Seq(T)) /\ FlattenSeq(a) = FlattenSeq(v) \o x
        /\ FlattenSeq(FlattenSeq(v) \o x) = FlattenSeq(FlattenSeq(v)) \o FlattenSeq(x)
    <3>1. FlattenSeq(v) \in Seq(Seq(T))
      BY FlatType
    <3>2. FlattenSeq(a) = FlattenSeq(v) \o x
      BY FlatAppend
    <3>3. FlattenSeq(FlattenSeq(v) \o x) = FlattenSeq(FlattenSeq(v)) \o FlattenSeq(x)
      BY <3>1, FlatConcat
    <3>. QED BY <3>1, <3>2, <3>3
  <2>. HIDE DEF a
  <2>3. /\ Joined(a) \in Seq(Seq(T)) /\ Len(Joined(a)) = Len(v) + 1 /\ Joined(a)[Len(Joined(a))] = FlattenSeq(x)
        /\ \A i \in 1..Len(v) : Joined(a)[i] = FlattenSeq(v[i])
    <3>. HIDE DEF Joined
    <3>1. Joined(a) \in Seq(Seq(T)) /\ Len(Joined(a)) = Len(a)
            /\ \A i \in 1..Len(a) : Joined(a)[i] = FlattenSeq(a[i])
      BY <1>1, <2>1
    <3>2. Len(a) \in 1..Len(a) /\ \A i \in 1..Len(v) : i \in 1..Len(a)
      BY <2>1
    <3>. QED BY <2>1, <3>1, <3>2
  <2>4. Joined(v) \in Seq(Seq(T)) /\ Len(Joined(v)) = Len(v)
          /\ \A i \in 1..Len(v) : Joined(v)[i] = FlattenSeq(v[i])
    BY <1>1
  <2>5. FlattenSeq(x) \in Seq(T)
    BY FlatType
  <2>. HIDE DEF Joined
  <2>6. FlattenSeq(Joined(a)) = FlattenSeq(Joined(v)) \o FlattenSeq(x)
    <3>1. /\ Len(Joined(a)) = Len(Joined(v)) + 1
          /\ \A i \in 1..Len(Joined(v)) : Joined(a)[i] = Joined(v)[i]
      BY <2>3, <2>4
    <3>2. PICK r \in Seq(Seq(T)), w \in Seq(Seq(T)), y \in Seq(T) :
            /\ r = Joined(v) /\ w = Joined(a) /\ y = FlattenSeq(x)
            /\ Len(w) = Len(r) + 1 /\ w[Len(w)] = y /\ \A i \in 1..Len(r) : w[i] = r[i]
      BY <2>3, <2>4, <2>5, <3>1
    <3>3. FlattenSeq(w) = FlattenSeq(r) \o y
      BY <3>2, FlatOneMore
    <3>. QED BY <3>2, <3>3
  <2>. QED BY <1>3, <2>1, <2>2, <2>6 DEF a
<1>. HIDE DEF S, Joined
<1>4. \A v \in Seq(Seq(Seq(T))) : v \in S
  BY <1>2, <1>3, BuiltUp
<1>5. u \in S /\ Joined(u) \in Seq(Seq(T))
  BY <1>1, <1>4
<1>. QED BY <1>5 DEF S, Joined

(* One more part adds its length.                                          *)
LEMMA FlatAdds ==
  ASSUME NEW T, NEW s \in Seq(Seq(T)), NEW x \in Seq(T)
  PROVE  /\ Len(FlattenSeq(s)) \in Nat /\ Len(x) \in Nat
         /\ Len(FlattenSeq(Append(s, x))) = Len(FlattenSeq(s)) + Len(x)
<1>1. FlattenSeq(Append(s, x)) = FlattenSeq(s) \o x /\ FlattenSeq(s) \in Seq(T)
  BY FlatAppend, FlatType
<1>. DEFINE f == FlattenSeq(s)
<1>2. f \in Seq(T) /\ FlattenSeq(Append(s, x)) = f \o x
  BY <1>1
<1>. HIDE DEF f
<1>3. Len(f \o x) = Len(f) + Len(x) /\ Len(f) \in Nat /\ Len(x) \in Nat
  BY <1>2
<1>. QED BY <1>2, <1>3 DEF f

PartsShorter(a, b) == Len(a) = Len(b) /\ \A i \in 1..Len(a) : Len(a[i]) <= Len(b[i])
PartsAsLong(a, b)  == \A i \in 1..Len(a) : Len(a[i]) = Len(b[i])

(* Shorter parts make a shorter whole, and as long a one only if none is   *)
(* shorter.                                                                *)
LEMMA FlatShorter ==
  ASSUME NEW T, NEW R, NEW a \in Seq(Seq(T)), NEW b \in Seq(Seq(R)), PartsShorter(a, b)
  PROVE  /\ Len(FlattenSeq(a)) \in Nat /\ Len(FlattenSeq(b)) \in Nat
         /\ Len(FlattenSeq(a)) <= Len(FlattenSeq(b))
         /\ Len(FlattenSeq(a)) = Len(FlattenSeq(b)) => PartsAsLong(a, b)
<1>. DEFINE n == Len(a)
            A(k) == Len(FlattenSeq(SubSeq(a, 1, k)))
            B(k) == Len(FlattenSeq(SubSeq(b, 1, k)))
            Good(k) == /\ A(k) \in Nat /\ B(k) \in Nat /\ A(k) <= B(k)
                       /\ A(k) = B(k) => \A i \in 1..k : Len(a[i]) = Len(b[i])
            S == {k \in Nat : k <= n => Good(k)}
<1>0. n \in Nat /\ Len(a) = Len(b) /\ \A i \in 1..Len(a) : Len(a[i]) <= Len(b[i])
  BY DEF PartsShorter
<1>1. 0 \in S
  <2>1. SubSeq(a, 1, 0) = <<>> /\ SubSeq(b, 1, 0) = <<>>
    BY SubSeqEmpty
  <2>2. Len(<<>>) = 0
    OBVIOUS
  <2>3. A(0) = 0 /\ B(0) = 0
    BY <2>1, <2>2, FlatEmpty
  <2>. HIDE DEF A, B
  <2>. QED BY <2>3
<1>2. ASSUME NEW k \in Nat, k \in S PROVE k + 1 \in S
  <2>. HIDE DEF Good
  <2>. SUFFICES ASSUME k + 1 <= n PROVE Good(k + 1)
    OBVIOUS
  <2>1. k < Len(a) /\ k < Len(b) /\ k + 1 \in 1..n /\ k <= n
    BY <1>0
  <2>10. Len(a[k + 1]) <= Len(b[k + 1])
    BY <1>0, <2>1
  <2>2. /\ SubSeq(a, 1, k) \in Seq(Seq(T)) /\ a[k + 1] \in Seq(T)
             /\ SubSeq(a, 1, k + 1) = Append(SubSeq(a, 1, k), a[k + 1])
        /\ SubSeq(b, 1, k) \in Seq(Seq(R)) /\ b[k + 1] \in Seq(R)
             /\ SubSeq(b, 1, k + 1) = Append(SubSeq(b, 1, k), b[k + 1])
    BY <2>1, FirstOnes
  <2>3. Good(k)
    BY <1>2, <2>1
  <2>4. A(k + 1) = A(k) + Len(a[k + 1])
    BY <2>2, FlatAdds
  <2>5. B(k + 1) = B(k) + Len(b[k + 1])
    BY <2>2, FlatAdds
  <2>6. Len(a[k + 1]) \in Nat /\ Len(b[k + 1]) \in Nat /\ Len(a[k + 1]) <= Len(b[k + 1])
    BY <2>2, <2>10
  <2>7. \A i \in 1..(k + 1) : i \in 1..k \/ i = k + 1
    OBVIOUS
  <2>. HIDE DEF A, B, n
  <2>8. /\ A(k) \in Nat /\ B(k) \in Nat /\ A(k) <= B(k)
        /\ A(k) = B(k) => \A i \in 1..k : Len(a[i]) = Len(b[i])
    BY <2>3 DEF Good
  <2>9. /\ A(k + 1) \in Nat /\ B(k + 1) \in Nat /\ A(k + 1) <= B(k + 1)
        /\ A(k + 1) = B(k + 1) => A(k) = B(k) /\ Len(a[k + 1]) = Len(b[k + 1])
    <3>1. PICK m \in Nat, e \in Nat, c \in Nat, d \in Nat :
            m = A(k) /\ e = B(k) /\ c = Len(a[k + 1]) /\ d = Len(b[k + 1]) /\ m <= e /\ c <= d
      BY <2>6, <2>8
    <3>2. A(k + 1) = m + c /\ B(k + 1) = e + d
      BY <2>4, <2>5, <3>1
    <3>4. m <= e /\ c <= d
      BY <3>1
    <3>3. m + c \in Nat /\ e + d \in Nat /\ m + c <= e + d /\ (m + c = e + d => m = e /\ c = d)
      BY <3>4
    <3>. QED BY <3>1, <3>2, <3>3, Zenon
  <2>. QED BY <2>7, <2>8, <2>9 DEF Good
<1>. HIDE DEF S, Good
<1>3. \A k \in Nat : k \in S
  BY <1>1, <1>2, CountedUp
<1>4. Good(n)
  <2>1. n \in S
    BY <1>0, <1>3
  <2>. QED BY <1>0, <2>1 DEF S
<1>5. SubSeq(a, 1, n) = a /\ SubSeq(b, 1, n) = b
  BY <1>0, SubSeqFull
<1>. QED BY <1>4, <1>5 DEF Good, PartsAsLong

(* A row of one part is that part.                                         *)
LEMMA FlatOne ==
  ASSUME NEW T, NEW x \in Seq(T)
  PROVE  FlattenSeq(<<x>>) = x
<1>1. <<>> \in Seq(Seq(T)) /\ Append(<<>>, x) = <<x>>
  OBVIOUS
<1>2. FlattenSeq(Append(<<>>, x)) = FlattenSeq(<<>>) \o x
  BY <1>1, FlatAppend
<1>3. <<>> \o x = x
  BY ConcatEmptySeq, Zenon
<1>. QED BY <1>1, <1>2, <1>3, FlatEmpty

(* Some parts of a row, in their order, and what they join to.             *)
Picks(p, u)        == u = [i \in DOMAIN p |-> u[i]] /\ \A i \in DOMAIN p : u[i] = <<>> \/ u[i] = <<p[i]>>
PicksHold(p, u)    == \A x : x \in ToSet(FlattenSeq(u)) <=> \E i \in DOMAIN p : u[i] = <<p[i]>> /\ x = p[i]
PicksJoin(p, u, v) ==
  /\ Len(v) = Len(p) /\ FlattenSeq(FlattenSeq(u)) = FlattenSeq(v)
  /\ \A i \in 1..Len(p) : (u[i] = <<>> /\ v[i] = <<>>) \/ (u[i] = <<p[i]>> /\ v[i] = p[i])

(* Joining a row of empty rows and rows of one part picks those parts.     *)
LEMMA FlatPicked ==
  ASSUME NEW T, NEW p \in Seq(Seq(T)), NEW u, Picks(p, u)
  PROVE  /\ FlattenSeq(u) \in Seq(Seq(T)) /\ PicksHold(p, u)
         /\ \E v \in Seq(Seq(T)) : PicksJoin(p, u, v)
<1>0. u = [i \in DOMAIN p |-> u[i]] /\ \A i \in DOMAIN p : u[i] = <<>> \/ u[i] = <<p[i]>>
  BY DEF Picks
<1>1. DOMAIN p = 1..Len(p) /\ Len(p) \in Nat /\ \A i \in 1..Len(p) : p[i] \in Seq(T)
  OBVIOUS
<1>2. \A i \in 1..Len(p) : u[i] \in Seq(Seq(T))
  <2>1. \A y \in Seq(T) : <<y>> \in Seq(Seq(T))
    OBVIOUS
  <2>2. <<>> \in Seq(Seq(T))
    OBVIOUS
  <2>. QED BY <1>0, <1>1, <2>1, <2>2
<1>3. u \in [1..Len(p) -> Seq(Seq(T))]
  BY <1>0, <1>1, <1>2
<1>4. u \in Seq(Seq(Seq(T))) /\ Len(u) = Len(p) /\ DOMAIN u = 1..Len(p)
  BY <1>1, <1>3, RowOf
<1>5. FlattenSeq(u) \in Seq(Seq(T))
  BY <1>4, FlatType
<1>6. ASSUME NEW x PROVE x \in ToSet(FlattenSeq(u)) <=> \E i \in DOMAIN p : u[i] = <<p[i]>> /\ x = p[i]
  <2>1. x \in ToSet(FlattenSeq(u)) <=> \E i \in 1..Len(u) : x \in ToSet(u[i])
    BY <1>4, FlatHolds
  <2>2. ASSUME NEW i \in 1..Len(p) PROVE x \in ToSet(u[i]) <=> u[i] = <<p[i]>> /\ x = p[i]
    <3>1. CASE u[i] = <<>>
      <4>1. ToSet(<<>>) = {} /\ <<>> # <<p[i]>>
        BY DEF ToSet
      <4>. QED BY <3>1, <4>1
    <3>2. CASE u[i] = <<p[i]>>
      <4>1. ToSet(<<p[i]>>) = {p[i]}
        BY DEF ToSet
      <4>. QED BY <3>2, <4>1
    <3>. QED BY <1>0, <1>1, <3>1, <3>2
  <2>. QED BY <1>1, <1>4, <2>1, <2>2
<1>. DEFINE v == [i \in DOMAIN u |-> FlattenSeq(u[i])]
<1>7. v \in Seq(Seq(T)) /\ FlattenSeq(FlattenSeq(u)) = FlattenSeq(v)
  BY <1>4, FlatFlat
<1>8. DOMAIN v = 1..Len(p) /\ \A i \in 1..Len(p) : v[i] = FlattenSeq(u[i])
  BY <1>4
<1>. HIDE DEF v
<1>9. Len(v) = Len(p)
  BY <1>1, <1>7, <1>8
<1>10. \A i \in 1..Len(p) : FlattenSeq(<<p[i]>>) = p[i]
  BY <1>1, FlatOne
<1>11. \A i \in 1..Len(p) : (u[i] = <<>> /\ v[i] = <<>>) \/ (u[i] = <<p[i]>> /\ v[i] = p[i])
  BY <1>0, <1>1, <1>8, <1>10, FlatEmpty
<1>12. PicksHold(p, u)
  BY <1>6 DEF PicksHold
<1>13. PicksJoin(p, u, v)
  BY <1>7, <1>9, <1>11 DEF PicksJoin
<1>. QED BY <1>5, <1>7, <1>12, <1>13

(* Some elements of a row, each as a part of its own, in their order.      *)
LEMMA FlatChosen ==
  ASSUME NEW S, NEW p \in Seq(S), NEW u, Picks(p, u)
  PROVE  FlattenSeq(u) \in Seq(S) /\ PicksHold(p, u)
<1>1. DOMAIN p = 1..Len(p) /\ Len(p) \in Nat /\ \A i \in 1..Len(p) : p[i] \in S
  OBVIOUS
<1>2. u = [i \in DOMAIN p |-> u[i]] /\ \A i \in DOMAIN p : u[i] = <<>> \/ u[i] = <<p[i]>>
  BY DEF Picks
<1>3. \A i \in 1..Len(p) : u[i] \in Seq(S)
  <2>1. \A x \in S : <<x>> \in Seq(S)
    OBVIOUS
  <2>2. <<>> \in Seq(S)
    OBVIOUS
  <2>. QED BY <1>1, <1>2, <2>1, <2>2
<1>4. u \in [1..Len(p) -> Seq(S)]
  BY <1>1, <1>2, <1>3
<1>5. u \in Seq(Seq(S)) /\ Len(u) = Len(p)
  BY <1>1, <1>4, RowOf
<1>6. \A x : x \in ToSet(FlattenSeq(u)) <=> \E i \in 1..Len(u) : x \in ToSet(u[i])
  BY <1>5, FlatHolds
<1>7. \A i \in 1..Len(p) : \A x : x \in ToSet(u[i]) <=> u[i] = <<p[i]>> /\ x = p[i]
  <2>1. ToSet(<<>>) = {} /\ \A x : ToSet(<<x>>) = {x}
    BY DEF ToSet
  <2>2. TAKE i \in 1..Len(p)
  <2>3. <<p[i]>> # <<>>
    OBVIOUS
  <2>4. CASE u[i] = <<>>
    BY <2>1, <2>3, <2>4
  <2>5. CASE u[i] = <<p[i]>>
    BY <2>1, <2>5
  <2>. QED BY <1>1, <1>2, <2>4, <2>5
<1>8. FlattenSeq(u) \in Seq(S)
  BY <1>5, FlatType
<1>9. PicksHold(p, u)
  BY <1>1, <1>5, <1>6, <1>7 DEF PicksHold
<1>. QED BY <1>8, <1>9

-----------------------------------------------------------------------------
(* What takes the place of each element of a sequence                      *)

(* A function gives every element the sequence that takes its place.       *)
Spread(s, f)      == FlattenSeq([i \in DOMAIN s |-> f[s[i]]])
Placed(s, f)      == [i \in DOMAIN s |-> f[s[i]]]
SpreadParts(p, f) == [i \in DOMAIN p |-> Spread(p[i], f)]

(* What each element gives way to, in its place.                           *)
LEMMA SpreadRows ==
  ASSUME NEW T, NEW f \in [T -> Seq(T)], NEW s \in Seq(T)
  PROVE  /\ Placed(s, f) \in Seq(Seq(T)) /\ Len(Placed(s, f)) = Len(s)
         /\ \A i \in 1..Len(s) : s[i] \in T /\ Placed(s, f)[i] = f[s[i]] /\ f[s[i]] \in Seq(T)
         /\ Spread(s, f) = FlattenSeq(Placed(s, f)) /\ Spread(s, f) \in Seq(T)
<1>1. DOMAIN s = 1..Len(s) /\ Len(s) \in Nat /\ \A i \in 1..Len(s) : s[i] \in T
  OBVIOUS
<1>2. \A i \in 1..Len(s) : f[s[i]] \in Seq(T)
  BY <1>1
<1>3. Placed(s, f) \in [1..Len(s) -> Seq(T)] /\ \A i \in 1..Len(s) : Placed(s, f)[i] = f[s[i]]
  BY <1>1, <1>2 DEF Placed
<1>4. Placed(s, f) \in Seq(Seq(T)) /\ Len(Placed(s, f)) = Len(s)
  BY <1>1, <1>3, RowOf
<1>5. Spread(s, f) = FlattenSeq(Placed(s, f))
  BY DEF Spread, Placed
<1>6. FlattenSeq(Placed(s, f)) \in Seq(T)
  BY <1>4, FlatType
<1>. QED BY <1>1, <1>2, <1>3, <1>4, <1>5, <1>6

(* What takes the place of a sequence is one.                              *)
LEMMA SpreadType ==
  ASSUME NEW T, NEW f \in [T -> Seq(T)], NEW s \in Seq(T)
  PROVE  Spread(s, f) \in Seq(T)
BY SpreadRows

(* Nothing replaces nothing.                                               *)
LEMMA SpreadEmpty == \A f : Spread(<<>>, f) = <<>>
<1>. SUFFICES ASSUME NEW f PROVE Spread(<<>>, f) = <<>>
  OBVIOUS
<1>1. [i \in DOMAIN <<>> |-> f[<<>>[i]]] = <<>>
  OBVIOUS
<1>. QED BY <1>1, FlatEmpty DEF Spread

(* What takes its place holds what some element of it gives way to.        *)
LEMMA SpreadHolds ==
  ASSUME NEW T, NEW f \in [T -> Seq(T)], NEW s \in Seq(T)
  PROVE  \A x : x \in ToSet(Spread(s, f)) <=> \E w \in ToSet(s) : x \in ToSet(f[w])
<1>1. /\ Placed(s, f) \in Seq(Seq(T)) /\ Len(Placed(s, f)) = Len(s)
      /\ \A i \in 1..Len(s) : Placed(s, f)[i] = f[s[i]]
      /\ Spread(s, f) = FlattenSeq(Placed(s, f))
  BY SpreadRows
<1>2. \A x : x \in ToSet(FlattenSeq(Placed(s, f))) <=> \E i \in 1..Len(Placed(s, f)) : x \in ToSet(Placed(s, f)[i])
  BY <1>1, FlatHolds
<1>3. ToSet(s) = {s[i] : i \in 1..Len(s)}
  BY DEF ToSet
<1>4. ASSUME NEW x PROVE x \in ToSet(Spread(s, f)) <=> \E w \in ToSet(s) : x \in ToSet(f[w])
  <2>1. x \in ToSet(Spread(s, f)) <=> \E i \in 1..Len(s) : x \in ToSet(Placed(s, f)[i])
    BY <1>1, <1>2
  <2>2. \A i \in 1..Len(s) : Placed(s, f)[i] = f[s[i]] /\ s[i] \in ToSet(s)
    BY <1>1, <1>3
  <2>3. ASSUME NEW i \in 1..Len(s), x \in ToSet(Placed(s, f)[i]) PROVE \E w \in ToSet(s) : x \in ToSet(f[w])
    BY <2>2, <2>3
  <2>4. ASSUME NEW w \in ToSet(s), x \in ToSet(f[w]) PROVE \E i \in 1..Len(s) : x \in ToSet(Placed(s, f)[i])
    <3>1. PICK i \in 1..Len(s) : w = s[i]
      BY <1>3
    <3>2. Placed(s, f)[i] = f[w]
      BY <2>2, <3>1
    <3>. QED BY <2>4, <3>2
  <2>. QED BY <2>1, <2>3, <2>4
<1>. QED BY <1>4

(* One more element is replaced by what it gives way to.                   *)
LEMMA SpreadAppend ==
  ASSUME NEW T, NEW f \in [T -> Seq(T)], NEW s \in Seq(T), NEW w \in T
  PROVE  Spread(Append(s, w), f) = Spread(s, f) \o f[w]
<1>. DEFINE a == Append(s, w)
<1>1. a \in Seq(T) /\ Len(a) = Len(s) + 1 /\ a[Len(a)] = w /\ (\A i \in 1..Len(s) : a[i] = s[i])
        /\ Len(s) \in Nat
  OBVIOUS
<1>. HIDE DEF a
<1>2. /\ Placed(a, f) \in Seq(Seq(T)) /\ Len(Placed(a, f)) = Len(a)
      /\ \A i \in 1..Len(a) : Placed(a, f)[i] = f[a[i]]
      /\ Spread(a, f) = FlattenSeq(Placed(a, f))
  BY <1>1, SpreadRows
<1>3. /\ Placed(s, f) \in Seq(Seq(T)) /\ Len(Placed(s, f)) = Len(s)
      /\ \A i \in 1..Len(s) : Placed(s, f)[i] = f[s[i]]
      /\ Spread(s, f) = FlattenSeq(Placed(s, f))
  BY SpreadRows
<1>4. f[w] \in Seq(T)
  OBVIOUS
<1>5. PICK r \in Seq(Seq(T)), t \in Seq(Seq(T)), y \in Seq(T) :
        /\ r = Placed(s, f) /\ t = Placed(a, f) /\ y = f[w]
        /\ Len(t) = Len(r) + 1 /\ t[Len(t)] = y /\ \A i \in 1..Len(r) : t[i] = r[i]
  <2>1. Len(a) \in 1..Len(a) /\ \A i \in 1..Len(s) : i \in 1..Len(a)
    BY <1>1
  <2>2. Len(Placed(a, f)) = Len(Placed(s, f)) + 1 /\ \A i \in 1..Len(Placed(s, f)) : Placed(a, f)[i] = Placed(s, f)[i]
    BY <1>1, <1>2, <1>3, <2>1
  <2>3. Placed(a, f)[Len(Placed(a, f))] = f[w]
    BY <1>1, <1>2, <2>1
  <2>. QED BY <1>2, <1>3, <1>4, <2>2, <2>3
<1>6. FlattenSeq(t) = FlattenSeq(r) \o y
  BY <1>5, FlatOneMore
<1>. QED BY <1>2, <1>3, <1>5, <1>6 DEF a

(* One element alone gives what it gives way to.                           *)
LEMMA SpreadOne ==
  ASSUME NEW T, NEW f \in [T -> Seq(T)], NEW c \in T
  PROVE  Spread(<<c>>, f) = f[c]
<1>1. <<>> \in Seq(T) /\ Append(<<>>, c) = <<c>>
  OBVIOUS
<1>2. Spread(Append(<<>>, c), f) = Spread(<<>>, f) \o f[c]
  BY <1>1, SpreadAppend
<1>3. f[c] \in Seq(T)
  OBVIOUS
<1>4. <<>> \o f[c] = f[c]
  BY <1>3, ConcatEmptySeq, Zenon
<1>. QED BY <1>1, <1>2, <1>4, SpreadEmpty

(* To replace in two parts is to replace in each.                          *)
LEMMA SpreadConcat ==
  ASSUME NEW T, NEW f \in [T -> Seq(T)], NEW s \in Seq(T), NEW t \in Seq(T)
  PROVE  Spread(s \o t, f) = Spread(s, f) \o Spread(t, f)
<1>. DEFINE S == {u \in Seq(T) : Spread(s \o u, f) = Spread(s, f) \o Spread(u, f)}
<1>1. <<>> \in S
  <2>1. s \o <<>> = s
    BY ConcatEmptySeq, Zenon
  <2>2. Spread(s, f) \o <<>> = Spread(s, f)
    <3>1. Spread(s, f) \in Seq(T)
      BY SpreadType
    <3>. QED BY <3>1, ConcatEmptySeq, Zenon
  <2>3. <<>> \in Seq(T) /\ Spread(<<>>, f) = <<>>
    BY SpreadEmpty
  <2>. QED BY <2>1, <2>2, <2>3
<1>2. ASSUME NEW u \in Seq(T), NEW w \in T, u \in S PROVE Append(u, w) \in S
  <2>1. s \o u \in Seq(T) /\ s \o Append(u, w) = Append(s \o u, w)
    BY ConcatAppended
  <2>2. Spread(s \o Append(u, w), f) = Spread(s \o u, f) \o f[w]
    BY <2>1, SpreadAppend
  <2>3. Spread(Append(u, w), f) = Spread(u, f) \o f[w]
    BY SpreadAppend
  <2>4. (Spread(s, f) \o Spread(u, f)) \o f[w] = Spread(s, f) \o (Spread(u, f) \o f[w])
    <3>1. Spread(s, f) \in Seq(T) /\ Spread(u, f) \in Seq(T) /\ f[w] \in Seq(T)
      BY SpreadType
    <3>2. PICK p \in Seq(T), q \in Seq(T), y \in Seq(T) : p = Spread(s, f) /\ q = Spread(u, f) /\ y = f[w]
      BY <3>1
    <3>3. (p \o q) \o y = p \o (q \o y)
      BY ConcatAssociative, SMTT(30)
    <3>. QED BY <3>2, <3>3
  <2>5. Append(u, w) \in Seq(T)
    OBVIOUS
  <2>. QED BY <1>2, <2>2, <2>3, <2>4, <2>5
<1>. HIDE DEF S
<1>3. \A u \in Seq(T) : u \in S
  BY <1>1, <1>2, BuiltUp
<1>. QED BY <1>3 DEF S

(* What is replaced in every part.                                         *)
LEMMA SpreadPartsType ==
  ASSUME NEW T, NEW f \in [T -> Seq(T)], NEW p \in Seq(Seq(T))
  PROVE  /\ SpreadParts(p, f) \in Seq(Seq(T)) /\ Len(SpreadParts(p, f)) = Len(p)
         /\ \A i \in 1..Len(p) : p[i] \in Seq(T) /\ SpreadParts(p, f)[i] = Spread(p[i], f)
<1>1. DOMAIN p = 1..Len(p) /\ Len(p) \in Nat /\ \A i \in 1..Len(p) : p[i] \in Seq(T)
  OBVIOUS
<1>2. \A i \in 1..Len(p) : Spread(p[i], f) \in Seq(T)
  BY <1>1, SpreadType
<1>3. SpreadParts(p, f) \in [1..Len(p) -> Seq(T)] /\ \A i \in 1..Len(p) : SpreadParts(p, f)[i] = Spread(p[i], f)
  BY <1>1, <1>2 DEF SpreadParts
<1>. QED BY <1>1, <1>3, RowOf

(* To replace in what parts join to is to replace in each part.            *)
LEMMA SpreadOver ==
  ASSUME NEW T, NEW f \in [T -> Seq(T)], NEW p \in Seq(Seq(T))
  PROVE  Spread(FlattenSeq(p), f) = FlattenSeq(SpreadParts(p, f))
<1>. DEFINE S == {q \in Seq(Seq(T)) : Spread(FlattenSeq(q), f) = FlattenSeq(SpreadParts(q, f))}
<1>1. <<>> \in S
  <2>1. SpreadParts(<<>>, f) = <<>>
    BY DEF SpreadParts
  <2>. QED BY <2>1, FlatEmpty, SpreadEmpty
<1>2. ASSUME NEW q \in Seq(Seq(T)), NEW x \in Seq(T), q \in S PROVE Append(q, x) \in S
  <2>. DEFINE a == Append(q, x)
  <2>1. a \in Seq(Seq(T)) /\ Len(a) = Len(q) + 1 /\ a[Len(a)] = x
          /\ (\A i \in 1..Len(q) : a[i] = q[i]) /\ Len(q) \in Nat
    OBVIOUS
  <2>2. FlattenSeq(a) = FlattenSeq(q) \o x /\ FlattenSeq(q) \in Seq(T)
    BY FlatAppend, FlatType
  <2>3. Spread(FlattenSeq(a), f) = Spread(FlattenSeq(q), f) \o Spread(x, f)
    BY <2>2, SpreadConcat
  <2>. HIDE DEF a
  <2>4. /\ SpreadParts(a, f) \in Seq(Seq(T)) /\ Len(SpreadParts(a, f)) = Len(a)
        /\ \A i \in 1..Len(a) : SpreadParts(a, f)[i] = Spread(a[i], f)
    BY <2>1, SpreadPartsType
  <2>5. /\ SpreadParts(q, f) \in Seq(Seq(T)) /\ Len(SpreadParts(q, f)) = Len(q)
        /\ \A i \in 1..Len(q) : SpreadParts(q, f)[i] = Spread(q[i], f)
    BY SpreadPartsType
  <2>6. Spread(x, f) \in Seq(T)
    BY SpreadType
  <2>7. PICK r \in Seq(Seq(T)), t \in Seq(Seq(T)), y \in Seq(T) :
          /\ r = SpreadParts(q, f) /\ t = SpreadParts(a, f) /\ y = Spread(x, f)
          /\ Len(t) = Len(r) + 1 /\ t[Len(t)] = y /\ \A i \in 1..Len(r) : t[i] = r[i]
    <3>1. Len(a) \in 1..Len(a) /\ \A i \in 1..Len(q) : i \in 1..Len(a)
      BY <2>1
    <3>. QED BY <2>1, <2>4, <2>5, <2>6, <3>1, SMTT(30)
  <2>8. FlattenSeq(t) = FlattenSeq(r) \o y
    BY <2>7, FlatOneMore
  <2>. QED BY <1>2, <2>1, <2>3, <2>7, <2>8 DEF a
<1>. HIDE DEF S
<1>3. \A q \in Seq(Seq(T)) : q \in S
  BY <1>1, <1>2, BuiltUp
<1>. QED BY <1>3 DEF S

(* The first replacement, and the second of what it puts.                  *)
SpreadTwice(T, g, f) == [w \in T |-> Spread(g[w], f)]

(* It gives every element a sequence too.                                  *)
LEMMA SpreadTwiceType ==
  ASSUME NEW T, NEW f \in [T -> Seq(T)], NEW g \in [T -> Seq(T)]
  PROVE  SpreadTwice(T, g, f) \in [T -> Seq(T)]
<1>1. \A w \in T : g[w] \in Seq(T)
  OBVIOUS
<1>2. \A w \in T : Spread(g[w], f) \in Seq(T)
  BY <1>1, SpreadType
<1>. QED BY <1>2 DEF SpreadTwice

(* One replacement after another is one replacement.                       *)
LEMMA SpreadTwiceOver ==
  ASSUME NEW T, NEW f \in [T -> Seq(T)], NEW g \in [T -> Seq(T)], NEW s \in Seq(T)
  PROVE  Spread(Spread(s, g), f) = Spread(s, SpreadTwice(T, g, f))
<1>1. SpreadTwice(T, g, f) \in [T -> Seq(T)] /\ \A w \in T : SpreadTwice(T, g, f)[w] = Spread(g[w], f)
  <2>1. SpreadTwice(T, g, f) \in [T -> Seq(T)]
    BY SpreadTwiceType
  <2>. QED BY <2>1 DEF SpreadTwice
<1>2. Placed(s, g) \in Seq(Seq(T)) /\ Len(Placed(s, g)) = Len(s)
        /\ (\A i \in 1..Len(s) : s[i] \in T /\ Placed(s, g)[i] = g[s[i]])
      /\ Spread(s, g) = FlattenSeq(Placed(s, g))
  <2>1. /\ Placed(s, g) \in Seq(Seq(T)) /\ Len(Placed(s, g)) = Len(s)
        /\ \A i \in 1..Len(s) : s[i] \in T /\ Placed(s, g)[i] = g[s[i]] /\ g[s[i]] \in Seq(T)
        /\ Spread(s, g) = FlattenSeq(Placed(s, g)) /\ Spread(s, g) \in Seq(T)
    BY SpreadRows, Zenon
  <2>. QED BY <2>1
<1>3. Spread(Spread(s, g), f) = FlattenSeq(SpreadParts(Placed(s, g), f))
  BY <1>2, SpreadOver
<1>4. SpreadParts(Placed(s, g), f) \in Seq(Seq(T)) /\ Len(SpreadParts(Placed(s, g), f)) = Len(s)
      /\ \A i \in 1..Len(s) : SpreadParts(Placed(s, g), f)[i] = Spread(g[s[i]], f)
  <2>1. PICK r \in Seq(Seq(T)) : r = Placed(s, g)
    BY <1>2
  <2>2. SpreadParts(r, f) \in Seq(Seq(T)) /\ Len(SpreadParts(r, f)) = Len(r)
        /\ \A i \in 1..Len(r) : SpreadParts(r, f)[i] = Spread(r[i], f)
    BY SpreadPartsType, Zenon
  <2>. QED BY <1>2, <2>1, <2>2
<1>5. Placed(s, SpreadTwice(T, g, f)) \in Seq(Seq(T)) /\ Len(Placed(s, SpreadTwice(T, g, f))) = Len(s)
      /\ (\A i \in 1..Len(s) : Placed(s, SpreadTwice(T, g, f))[i] = SpreadTwice(T, g, f)[s[i]])
           /\ Spread(s, SpreadTwice(T, g, f)) = FlattenSeq(Placed(s, SpreadTwice(T, g, f)))
  <2>1. PICK h \in [T -> Seq(T)] : h = SpreadTwice(T, g, f)
    BY <1>1
  <2>2. /\ Placed(s, h) \in Seq(Seq(T)) /\ Len(Placed(s, h)) = Len(s)
        /\ \A i \in 1..Len(s) : s[i] \in T /\ Placed(s, h)[i] = h[s[i]] /\ h[s[i]] \in Seq(T)
        /\ Spread(s, h) = FlattenSeq(Placed(s, h)) /\ Spread(s, h) \in Seq(T)
    BY SpreadRows, Zenon
  <2>. QED BY <2>1, <2>2
<1>6. PICK a \in Seq(Seq(T)), b \in Seq(Seq(T)) :
        a = SpreadParts(Placed(s, g), f) /\ b = Placed(s, SpreadTwice(T, g, f)) /\ Len(a) = Len(b)
          /\ \A i \in 1..Len(a) : a[i] = b[i]
  <2>1. \A i \in 1..Len(s) : SpreadParts(Placed(s, g), f)[i] = Placed(s, SpreadTwice(T, g, f))[i]
    BY <1>1, <1>2, <1>4, <1>5
  <2>2. Len(SpreadParts(Placed(s, g), f)) = Len(s) /\ Len(Placed(s, SpreadTwice(T, g, f))) = Len(s)
    BY <1>4, <1>5
  <2>. QED BY <1>4, <1>5, <2>1, <2>2
<1>7. a = b
  BY <1>6, SeqEqual
<1>. QED BY <1>1, <1>3, <1>5, <1>6, <1>7

-----------------------------------------------------------------------------
(* Rows of short parts                                                     *)

(* Parts of one element each join to those elements.                       *)
LEMMA FlatSingles ==
  ASSUME NEW T, NEW t \in Seq(T)
  PROVE  FlattenSeq([i \in DOMAIN t |-> <<t[i]>>]) = t
<1>. DEFINE Ones(u) == [i \in DOMAIN u |-> <<u[i]>>]
            S == {u \in Seq(T) : FlattenSeq(Ones(u)) = u}
<1>1. \A u \in Seq(T) : Ones(u) \in Seq(Seq(T)) /\ Len(Ones(u)) = Len(u) /\ \A i \in 1..Len(u) : Ones(u)[i] = <<u[i]>>
  <2>1. TAKE u \in Seq(T)
  <2>2. DOMAIN u = 1..Len(u) /\ Len(u) \in Nat /\ \A i \in 1..Len(u) : <<u[i]>> \in Seq(T)
    OBVIOUS
  <2>3. Ones(u) \in [1..Len(u) -> Seq(T)] /\ \A i \in 1..Len(u) : Ones(u)[i] = <<u[i]>>
    BY <2>2
  <2>. HIDE DEF Ones
  <2>. QED BY <2>2, <2>3, RowOf
<1>2. <<>> \in S
  <2>1. Ones(<<>>) = <<>>
    OBVIOUS
  <2>. QED BY <2>1, FlatEmpty
<1>3. ASSUME NEW u \in Seq(T), NEW x \in T, u \in S PROVE Append(u, x) \in S
  <2>. DEFINE a == Append(u, x)
  <2>1. a \in Seq(T) /\ Len(a) = Len(u) + 1 /\ a[Len(a)] = x /\ (\A i \in 1..Len(u) : a[i] = u[i]) /\ Len(u) \in Nat
    OBVIOUS
  <2>. HIDE DEF a, Ones
  <2>2. PICK r \in Seq(Seq(T)), w \in Seq(Seq(T)), y \in Seq(T) :
          /\ r = Ones(u) /\ w = Ones(a) /\ y = <<x>>
          /\ Len(w) = Len(r) + 1 /\ w[Len(w)] = y /\ \A i \in 1..Len(r) : w[i] = r[i]
    <3>1. Len(a) \in 1..Len(a) /\ \A i \in 1..Len(u) : i \in 1..Len(a)
      BY <2>1
    <3>2. <<x>> \in Seq(T)
      OBVIOUS
    <3>3. /\ Ones(u) \in Seq(Seq(T)) /\ Len(Ones(u)) = Len(u) /\ \A i \in 1..Len(u) : Ones(u)[i] = <<u[i]>>
          /\ Ones(a) \in Seq(Seq(T)) /\ Len(Ones(a)) = Len(a) /\ \A i \in 1..Len(a) : Ones(a)[i] = <<a[i]>>
      BY <1>1, <2>1
    <3>4. Ones(a)[Len(a)] = <<x>> /\ \A i \in 1..Len(u) : Ones(a)[i] = Ones(u)[i]
      BY <2>1, <3>1, <3>3
    <3>. QED BY <2>1, <3>2, <3>3, <3>4
  <2>3. FlattenSeq(w) = FlattenSeq(r) \o y
    BY <2>2, FlatOneMore
  <2>4. FlattenSeq(r) = u
    BY <1>3, <2>2
  <2>5. u \o <<x>> = a
    BY AppendIsConcat DEF a
  <2>. QED BY <2>1, <2>2, <2>3, <2>4, <2>5 DEF a
<1>. HIDE DEF S, Ones
<1>4. \A u \in Seq(T) : u \in S
  BY <1>2, <1>3, BuiltUp
<1>. QED BY <1>4 DEF S, Ones

(* Parts that are empty join to nothing.                                   *)
LEMMA FlatNothing ==
  ASSUME NEW T, NEW s \in Seq(Seq(T)), \A i \in 1..Len(s) : s[i] = <<>>
  PROVE  FlattenSeq(s) = <<>>
<1>1. \A i \in 1..Len(s) : Len(s[i]) <= 0
  OBVIOUS
<1>2. Len(FlattenSeq(s)) <= 0 * Len(s) /\ FlattenSeq(s) \in Seq(T)
  BY <1>1, FlatLength, FlatType
<1>3. PICK f \in Seq(T) : f = FlattenSeq(s) /\ Len(f) <= 0
  BY <1>2
<1>. QED BY <1>3

(* What is spread to itself alone.                                         *)
LEMMA SpreadSame ==
  ASSUME NEW T, NEW f \in [T -> Seq(T)], NEW s \in Seq(T), \A i \in 1..Len(s) : f[s[i]] = <<s[i]>>
  PROVE  Spread(s, f) = s
<1>1. [i \in DOMAIN s |-> f[s[i]]] = [i \in DOMAIN s |-> <<s[i]>>]
  <2>1. DOMAIN s = 1..Len(s)
    OBVIOUS
  <2>. QED BY <2>1
<1>. QED BY <1>1, FlatSingles DEF Spread

(* Between two parts there is nothing.                                     *)
Between(s, i, j) == \A m \in (i + 1)..(j - 1) : s[m] = <<>>
EndsAt(s, f)    == \E i \in 1..Len(s) : s[i] = <<f[Len(f)]>> /\ Between(s, i, Len(s) + 1)
BesideAt(s, f, k) ==
  \E i, j \in 1..Len(s) : i < j /\ s[i] = <<f[k]>> /\ s[j] = <<f[k + 1]>> /\ Between(s, i, j)
ShortParts(s) == \A i \in 1..Len(s) : Len(s[i]) <= 1

(* Of one element.                                                         *)
LEMMA OneLong ==
  ASSUME NEW T, NEW x \in Seq(T), Len(x) <= 1, x # <<>>
  PROVE  \E c \in T : x = <<c>>
<1>1. Len(x) = 1
  <2>1. Len(x) \in Nat /\ Len(x) # 0
    BY EmptySeq
  <2>. QED BY <2>1
<1>2. x[1] \in T /\ <<x[1]>> \in Seq(T)
  BY <1>1
<1>3. x = <<x[1]>>
  BY <1>1, <1>2, SeqEqual
<1>. QED BY <1>2, <1>3

(* Joining is associative.                                                 *)
JoinsAlike(p, q, y) == (p \o q) \o y = p \o (q \o y)
LEMMA ConcatThree ==
  ASSUME NEW T, NEW p \in Seq(T), NEW q \in Seq(T), NEW y \in Seq(T)
  PROVE  JoinsAlike(p, q, y)
BY ConcatAssociative, SMTT(30) DEF JoinsAlike

(* One more part, that is empty or of one element.                         *)
LEMMA BesideAppend ==
  ASSUME NEW T, NEW u \in Seq(Seq(T)), NEW x \in Seq(T), Len(x) <= 1, NEW f \in Seq(T), NEW g \in Seq(T),
         g = f \o x, f = <<>> \/ EndsAt(u, f), \A k \in 1..(Len(f) - 1) : BesideAt(u, f, k)
  PROVE  /\ g = <<>> \/ EndsAt(Append(u, x), g)
         /\ \A k \in 1..(Len(g) - 1) : BesideAt(Append(u, x), g, k)
<1>. DEFINE a == Append(u, x)
            n == Len(u)
<1>1. a \in Seq(Seq(T)) /\ Len(a) = n + 1 /\ a[n + 1] = x /\ (\A i \in 1..n : a[i] = u[i]) /\ n \in Nat
        /\ (\A i \in 1..n : i \in 1..(n + 1)) /\ n + 1 \in 1..(n + 1)
  OBVIOUS
<1>. HIDE DEF a, n
<1>2. \A i \in 1..n : \A j \in Nat : j <= n + 1 /\ Between(u, i, j) => Between(a, i, j)
  <2>1. TAKE i \in 1..n
  <2>2. TAKE j \in Nat
  <2>3. ASSUME j <= n + 1, Between(u, i, j), NEW m \in (i + 1)..(j - 1) PROVE a[m] = <<>>
    <3>1. m \in 1..n
      BY <1>1, <2>3
    <3>. QED BY <1>1, <2>3, <3>1 DEF Between
  <2>. QED BY <2>3 DEF Between
<1>3. CASE x = <<>>
  <2>1. g = f
    BY <1>3, ConcatEmptySeq, Zenon
  <2>2. ASSUME f # <<>> PROVE EndsAt(a, f)
    <3>1. PICK i \in 1..n : u[i] = <<f[Len(f)]>> /\ Between(u, i, n + 1)
      BY <2>2 DEF EndsAt, n
    <3>2. Between(a, i, n + 1)
      BY <1>1, <1>2, <3>1
    <3>3. ASSUME NEW m \in (i + 1)..((n + 2) - 1) PROVE a[m] = <<>>
      <4>1. m \in (i + 1)..((n + 1) - 1) \/ m = n + 1
        BY <1>1
      <4>. QED BY <1>1, <1>3, <3>2, <4>1 DEF Between
    <3>4. Between(a, i, (n + 1) + 1)
      BY <1>1, <3>3 DEF Between
    <3>. QED BY <1>1, <3>1, <3>4 DEF EndsAt
  <2>3. ASSUME NEW k \in 1..(Len(f) - 1) PROVE BesideAt(a, f, k)
    <3>1. PICK i \in 1..n, j \in 1..n : i < j /\ u[i] = <<f[k]>> /\ u[j] = <<f[k + 1]>> /\ Between(u, i, j)
      BY DEF BesideAt, n
    <3>2. Between(a, i, j)
      BY <1>1, <1>2, <3>1
    <3>. QED BY <1>1, <3>1, <3>2 DEF BesideAt
  <2>. QED BY <2>1, <2>2, <2>3 DEF a
<1>4. CASE x # <<>>
  <2>1. PICK c \in T : x = <<c>>
    <3>1. x # <<>> /\ Len(x) <= 1
      BY <1>4
    <3>. QED BY <3>1, OneLong
  <2>2. Len(g) = Len(f) + 1 /\ g[Len(f) + 1] = c /\ (\A k \in 1..Len(f) : g[k] = f[k]) /\ Len(f) \in Nat
    BY <2>1
  <2>3. EndsAt(a, g)
    <3>1. Between(a, n + 1, (n + 1) + 1)
      BY <1>1 DEF Between
    <3>. QED BY <1>1, <2>1, <2>2, <3>1 DEF EndsAt
  <2>4. ASSUME NEW k \in 1..(Len(g) - 1) PROVE BesideAt(a, g, k)
    <3>1. CASE k = Len(f)
      <4>1. f # <<>>
        BY <2>2, <3>1
      <4>2. PICK i \in 1..n : u[i] = <<f[Len(f)]>> /\ Between(u, i, n + 1)
        BY <4>1 DEF EndsAt, n
      <4>3. Between(a, i, n + 1) /\ i < n + 1
        BY <1>1, <1>2, <4>2
      <4>4. a[i] = <<g[k]>> /\ a[n + 1] = <<g[k + 1]>>
        BY <1>1, <2>1, <2>2, <3>1, <4>2
      <4>. QED BY <1>1, <4>3, <4>4 DEF BesideAt
    <3>2. CASE k # Len(f)
      <4>1. k \in 1..(Len(f) - 1) /\ k \in 1..Len(f) /\ k + 1 \in 1..Len(f)
        BY <2>2, <3>2
      <4>2. PICK i \in 1..n, j \in 1..n : i < j /\ u[i] = <<f[k]>> /\ u[j] = <<f[k + 1]>> /\ Between(u, i, j)
        BY <4>1 DEF BesideAt, n
      <4>3. Between(a, i, j)
        BY <1>1, <1>2, <4>2
      <4>4. g[k] = f[k] /\ g[k + 1] = f[k + 1]
        BY <2>2, <4>1
      <4>. QED BY <1>1, <4>2, <4>3, <4>4 DEF BesideAt
    <3>. QED BY <3>1, <3>2
  <2>. QED BY <2>3, <2>4 DEF a
<1>. QED BY <1>3, <1>4

(* What stands side by side in the join of parts of one element or none    *)
(* comes from two parts with nothing between.                              *)
LEMMA FlatBeside ==
  ASSUME NEW T, NEW s \in Seq(Seq(T)), ShortParts(s)
  PROVE  \A k \in 1..(Len(FlattenSeq(s)) - 1) : BesideAt(s, FlattenSeq(s), k)
<1>. DEFINE Good(u) == /\ FlattenSeq(u) = <<>> \/ EndsAt(u, FlattenSeq(u))
                       /\ \A k \in 1..(Len(FlattenSeq(u)) - 1) : BesideAt(u, FlattenSeq(u), k)
            S == {u \in Seq(Seq(T)) : ShortParts(u) => Good(u)}
<1>1. <<>> \in S
  <2>1. FlattenSeq(<<>>) = <<>> /\ Len(<<>>) = 0 /\ 1..(0 - 1) = {}
    BY FlatEmpty
  <2>. QED BY <2>1
<1>2. ASSUME NEW u \in Seq(Seq(T)), NEW x \in Seq(T), u \in S PROVE Append(u, x) \in S
  <2>. SUFFICES ASSUME ShortParts(Append(u, x)) PROVE Good(Append(u, x))
    OBVIOUS
  <2>1. ShortParts(u) /\ Len(x) <= 1
    <3>1. Len(Append(u, x)) = Len(u) + 1 /\ Append(u, x)[Len(u) + 1] = x /\ Len(u) \in Nat
            /\ \A i \in 1..Len(u) : Append(u, x)[i] = u[i]
      OBVIOUS
    <3>2. Len(u) + 1 \in 1..Len(Append(u, x)) /\ \A i \in 1..Len(u) : i \in 1..Len(Append(u, x))
      BY <3>1
    <3>. QED BY <3>1, <3>2 DEF ShortParts
  <2>2. PICK f \in Seq(T), g \in Seq(T) : f = FlattenSeq(u) /\ g = FlattenSeq(Append(u, x)) /\ g = f \o x
    <3>1. Append(u, x) \in Seq(Seq(T))
      OBVIOUS
    <3>. QED BY <3>1, FlatType, FlatAppend
  <2>3. Good(u)
    BY <1>2, <2>1
  <2>4. (f = <<>> \/ EndsAt(u, f)) /\ \A k \in 1..(Len(f) - 1) : BesideAt(u, f, k)
    BY <2>2, <2>3
  <2>5. (g = <<>> \/ EndsAt(Append(u, x), g)) /\ \A k \in 1..(Len(g) - 1) : BesideAt(Append(u, x), g, k)
    BY <2>1, <2>2, <2>4, BesideAppend
  <2>. QED BY <2>2, <2>5
<1>. HIDE DEF S
<1>3. \A u \in Seq(Seq(T)) : u \in S
  BY <1>1, <1>2, BuiltUp
<1>4. s \in S
  BY <1>3
<1>. QED BY <1>4 DEF S

(* Of two parts side by side the first may take the second's elements.     *)
Regroups(a, b, P) ==
  /\ \A i \in P : i + 1 \in 1..Len(b) /\ i + 1 \notin P /\ a[i] = b[i] \o b[i + 1] /\ a[i + 1] = <<>>
  /\ \A i \in 1..Len(b) : i \notin P /\ i - 1 \notin P => a[i] = b[i]

(* What they join to is the same.                                          *)
LEMMA FlatRegrouped ==
  ASSUME NEW T, NEW a \in Seq(Seq(T)), NEW b \in Seq(Seq(T)), Len(a) = Len(b),
         NEW P, P \subseteq 1..Len(b), Regroups(a, b, P)
  PROVE  FlattenSeq(a) = FlattenSeq(b)
<1>. DEFINE A(n) == FlattenSeq(SubSeq(a, 1, n))
            B(n) == FlattenSeq(SubSeq(b, 1, n))
            Good(n) == /\ A(n) \in Seq(T) /\ B(n) \in Seq(T)
                       /\ A(n) = IF n \in P THEN B(n) \o b[n + 1] ELSE B(n)
            S == {n \in Nat : n <= Len(b) => Good(n)}
<1>1. 0 \in S
  <2>1. SubSeq(a, 1, 0) = <<>> /\ SubSeq(b, 1, 0) = <<>>
    BY SubSeqEmpty
  <2>2. A(0) = <<>> /\ B(0) = <<>>
    BY <2>1, FlatEmpty
  <2>3. <<>> \in Seq(T) /\ 0 \notin P
    OBVIOUS
  <2>. HIDE DEF A, B
  <2>. QED BY <2>2, <2>3
<1>2. ASSUME NEW n \in Nat, n \in S PROVE n + 1 \in S
  <2>. HIDE DEF Good
  <2>. SUFFICES ASSUME n + 1 <= Len(b) PROVE Good(n + 1)
    OBVIOUS
  <2>1. n < Len(a) /\ n < Len(b) /\ n <= Len(b) /\ n + 1 \in 1..Len(b) /\ (n + 1) - 1 = n
    OBVIOUS
  <2>2. /\ SubSeq(a, 1, n) \in Seq(Seq(T)) /\ a[n + 1] \in Seq(T)
             /\ SubSeq(a, 1, n + 1) = Append(SubSeq(a, 1, n), a[n + 1])
        /\ SubSeq(b, 1, n) \in Seq(Seq(T)) /\ b[n + 1] \in Seq(T)
             /\ SubSeq(b, 1, n + 1) = Append(SubSeq(b, 1, n), b[n + 1])
    BY <2>1, FirstOnes
  <2>3. A(n + 1) = A(n) \o a[n + 1]
    BY <2>2, FlatAppend
  <2>4. B(n + 1) = B(n) \o b[n + 1]
    BY <2>2, FlatAppend
  <2>5. Good(n)
    BY <1>2, <2>1
  <2>. HIDE DEF A, B
  <2>6. PICK p \in Seq(T), q \in Seq(T), x \in Seq(T), y \in Seq(T) :
          p = A(n) /\ q = B(n) /\ x = a[n + 1] /\ y = b[n + 1] /\ p = IF n \in P THEN q \o y ELSE q
    BY <2>2, <2>5 DEF Good
  <2>7. A(n + 1) = p \o x /\ B(n + 1) = q \o y /\ p \o x \in Seq(T) /\ q \o y \in Seq(T)
    <3>1. p \o x \in Seq(T) /\ q \o y \in Seq(T)
      OBVIOUS
    <3>. QED BY <2>3, <2>4, <2>6, <3>1, Zenon
  <2>8. CASE n + 1 \in P
    <3>1. n \notin P /\ (n + 1) + 1 \in 1..Len(b) /\ x = y \o b[(n + 1) + 1]
      BY <2>6, <2>8 DEF Regroups
    <3>2. PICK z \in Seq(T) : z = b[(n + 1) + 1]
      BY <3>1
    <3>3. (q \o y) \o z = q \o (y \o z)
      <4>1. JoinsAlike(q, y, z)
        BY ConcatThree
      <4>. QED BY <4>1 DEF JoinsAlike
    <3>4. p = q
      BY <2>6, <3>1
    <3>5. A(n + 1) = B(n + 1) \o b[(n + 1) + 1]
      BY <2>7, <3>1, <3>2, <3>3, <3>4, Zenon
    <3>. QED BY <2>7, <2>8, <3>5 DEF Good
  <2>9. CASE n + 1 \notin P /\ n \in P
    <3>1. x = <<>> /\ p = q \o y
      BY <2>6, <2>9 DEF Regroups
    <3>2. p \o x = p
      BY <3>1, ConcatEmptySeq, Zenon
    <3>. QED BY <2>7, <2>9, <3>1, <3>2 DEF Good
  <2>10. CASE n + 1 \notin P /\ n \notin P
    <3>1. x = y /\ p = q
      BY <2>1, <2>6, <2>10 DEF Regroups
    <3>. QED BY <2>7, <2>10, <3>1 DEF Good
  <2>. QED BY <2>8, <2>9, <2>10
<1>. HIDE DEF S, Good
<1>3. \A n \in Nat : n \in S
  BY <1>1, <1>2, CountedUp
<1>4. Len(b) \in Nat /\ Len(b) \notin P
  <2>1. \A i \in P : i + 1 \in 1..Len(b)
    BY DEF Regroups
  <2>2. PICK m \in Nat : m = Len(b)
    OBVIOUS
  <2>3. m + 1 \notin 1..m
    OBVIOUS
  <2>. QED BY <2>1, <2>2, <2>3
<1>5. Good(Len(b))
  <2>1. Len(b) \in S
    BY <1>3, <1>4
  <2>. QED BY <1>4, <2>1 DEF S
<1>6. SubSeq(a, 1, Len(b)) = a /\ SubSeq(b, 1, Len(b)) = b
  BY SubSeqFull
<1>. QED BY <1>4, <1>5, <1>6 DEF Good

(* Two rows of one element make a row of two.                              *)
LEMMA TwoOnes == \A x, y : <<x>> \o <<y>> = <<x, y>>
<1>1. TAKE x, y
<1>2. PICK S : x \in S /\ y \in S
  <2>1. x \in {x, y} /\ y \in {x, y}
    OBVIOUS
  <2>. QED BY <2>1
<1>3. /\ <<x>> \in Seq(S) /\ Len(<<x>>) = 1 /\ <<x>>[1] = x
      /\ <<y>> \in Seq(S) /\ Len(<<y>>) = 1 /\ <<y>>[1] = y
      /\ <<x, y>> \in Seq(S) /\ Len(<<x, y>>) = 2 /\ <<x, y>>[1] = x /\ <<x, y>>[2] = y
  BY <1>2
<1>4. PICK p, q, r : p = <<x>> /\ q = <<y>> /\ r = <<x, y>>
  OBVIOUS
<1>5. p \in Seq(S) /\ q \in Seq(S) /\ r \in Seq(S)
  BY <1>3, <1>4
<1>6. Len(p) = 1 /\ Len(q) = 1 /\ p[1] = x /\ q[1] = y /\ Len(r) = 2 /\ r[1] = x /\ r[2] = y
  BY <1>3, <1>4
<1>7. /\ p \o q \in Seq(S) /\ Len(p \o q) = 2
      /\ \A i \in 1..2 : (p \o q)[i] = IF i <= 1 THEN p[i] ELSE q[i - 1]
  BY <1>5, <1>6, ConcatProperties
<1>8. \A i \in 1..2 : (p \o q)[i] = r[i]
  BY <1>6, <1>7
<1>9. p \o q = r
  BY <1>5, <1>6, <1>7, <1>8, SeqEqual
<1>. QED BY <1>4, <1>9
-----------------------------------------------------------------------------
(* Steps one after the other, sorting, slices and thinned sequences        *)

(* What is built one step at a time from a first value exists.             *)
StepsUp(X, b, n, G) == \E f \in [0..n -> X] : f[0] = b /\ \A k \in 1..n : f[k] = G[<<k, f[k - 1]>>]

LEMMA StepsExist ==
  ASSUME NEW X, NEW b \in X, NEW n \in Nat, NEW G \in [(1..n) \X X -> X]
  PROVE  StepsUp(X, b, n, G)
<1>. DEFINE Built(f, m) == f[0] = b /\ \A k \in 1..m : f[k] = G[<<k, f[k - 1]>>]
            S == {m \in Nat : m <= n => \E f \in [0..m -> X] : Built(f, m)}
<1>1. 0 \in S
  <2>. DEFINE f == [k \in 0..0 |-> b]
  <2>1. f \in [0..0 -> X] /\ Built(f, 0)
    OBVIOUS
  <2>. QED BY <2>1
<1>2. ASSUME NEW m \in Nat, m \in S PROVE m + 1 \in S
  <2>. SUFFICES ASSUME m + 1 <= n PROVE \E f \in [0..(m + 1) -> X] : Built(f, m + 1)
    OBVIOUS
  <2>1. PICK f \in [0..m -> X] : Built(f, m)
    BY <1>2
  <2>. DEFINE g == [k \in 0..(m + 1) |-> IF k = m + 1 THEN G[<<m + 1, f[m]>>] ELSE f[k]]
  <2>2. G[<<m + 1, f[m]>>] \in X
    <3>1. f[m] \in X /\ m + 1 \in 1..n
      BY <2>1
    <3>. QED BY <3>1
  <2>3. g \in [0..(m + 1) -> X]
    BY <2>1, <2>2
  <2>4. g[0] = b
    BY <2>1
  <2>5. ASSUME NEW k \in 1..(m + 1) PROVE g[k] = G[<<k, g[k - 1]>>]
    <3>1. CASE k = m + 1
      <4>1. m \in 0..(m + 1) /\ m # m + 1 /\ k \in 0..(m + 1) /\ k - 1 = m
        BY <3>1
      <4>2. g[m] = f[m] /\ g[m + 1] = G[<<m + 1, f[m]>>]
        BY <4>1
      <4>. QED BY <3>1, <4>1, <4>2
    <3>2. CASE k # m + 1
      <4>1. k \in 1..m /\ k - 1 \in 0..m /\ k - 1 # m + 1 /\ k - 1 \in 0..(m + 1)
        BY <3>2
      <4>2. g[k] = f[k] /\ g[k - 1] = f[k - 1]
        BY <3>2, <4>1
      <4>. QED BY <2>1, <4>1, <4>2
    <3>. QED BY <3>1, <3>2
  <2>. QED BY <2>3, <2>4, <2>5
<1>. HIDE DEF S
<1>3. n \in S
  BY <1>1, <1>2, CountedUp
<1>. QED BY <1>3 DEF S, StepsUp

(* What stands in order                                                    *)

Precedes(R, x, y) == <<x, y>> \in R

Total(S, R)     == \A x, y \in S : x # y => Precedes(R, x, y) \/ Precedes(R, y, x)

Passes(S, R)    == \A x, y, z \in S : Precedes(R, x, y) /\ Precedes(R, y, z) => Precedes(R, x, z)

HasLast(S, R)     == \E m \in S : \A y \in S \ {m} : Precedes(R, y, m)

Sorts(q, S, R)  == /\ q \in [1..Cardinality(S) -> S]
                   /\ \A i, j \in DOMAIN q : i < j => Precedes(R, q[i], q[j])

(* Some member comes after all others.                                     *)
LEMMA LastExists ==
  ASSUME NEW S, IsFiniteSet(S), NEW R, Total(S, R), Passes(S, R), S # {}
  PROVE  HasLast(S, R)
<1>. DEFINE B == {T \in SUBSET S : T # {} /\ ~HasLast(T, R)}
<1>. SUFFICES ASSUME B # {} PROVE FALSE
  OBVIOUS
<1>1. PICK T \in B : \A U \in B : U \subseteq T => U = T
  <2>1. B \subseteq SUBSET S
    OBVIOUS
  <2>. HIDE DEF B
  <2>. QED BY <2>1, MinimalSet
<1>2. PICK x \in T : TRUE
  BY <1>1
<1>. DEFINE U == T \ {x}
<1>3. CASE U = {}
  BY <1>1, <1>2, <1>3 DEF HasLast
<1>4. CASE U # {}
  <2>1. U \in SUBSET S /\ U # T /\ U \subseteq T
    BY <1>1, <1>2
  <2>2. HasLast(U, R)
    BY <1>1, <1>4, <2>1
  <2>3. PICK m \in U : \A y \in U \ {m} : Precedes(R, y, m)
    BY <2>2 DEF HasLast
  <2>4. CASE Precedes(R, m, x)
    <3>1. \A y \in T \ {x} : Precedes(R, y, x)
      BY <1>1, <1>2, <2>3, <2>4 DEF Passes
    <3>. QED BY <1>1, <1>2, <3>1 DEF HasLast
  <2>5. CASE Precedes(R, x, m)
    <3>1. \A y \in T \ {m} : Precedes(R, y, m)
      BY <2>3, <2>5
    <3>. QED BY <1>1, <2>3, <3>1 DEF HasLast
  <2>. QED BY <1>1, <1>2, <2>3, <2>4, <2>5 DEF Total
<1>. QED BY <1>3, <1>4

(* The members of a finite set can be put in order.                        *)
LEMMA SortExists ==
  ASSUME NEW S, IsFiniteSet(S), NEW R, Total(S, R), Passes(S, R)
  PROVE  \E q : Sorts(q, S, R)
<1>. DEFINE B == {T \in SUBSET S : ~ \E q : Sorts(q, T, R)}
<1>. SUFFICES ASSUME B # {} PROVE FALSE
  OBVIOUS
<1>1. PICK T \in B : \A U \in B : U \subseteq T => U = T
  <2>1. B \subseteq SUBSET S
    OBVIOUS
  <2>. HIDE DEF B
  <2>. QED BY <2>1, MinimalSet
<1>2. T \in SUBSET S /\ IsFiniteSet(T) /\ Cardinality(T) \in Nat
  BY <1>1, FS_Subset, FS_CardinalityType
<1>3. CASE T = {}
  <2>1. Cardinality(T) = 0
    BY <1>3, FS_EmptySet
  <2>2. Sorts(<<>>, T, R)
    BY <2>1, <1>3 DEF Sorts
  <2>. QED BY <1>1, <2>2
<1>4. CASE T # {}
  <2>1. Total(T, R) /\ Passes(T, R)
    BY <1>2 DEF Total, Passes
  <2>2. PICK m \in T : \A y \in T \ {m} : Precedes(R, y, m)
    BY <1>2, <1>4, <2>1, LastExists DEF HasLast
  <2>. DEFINE U == T \ {m}
              n == Cardinality(U)
  <2>3. U \in SUBSET S /\ U # T /\ U \subseteq T
    BY <1>2, <2>2
  <2>4. PICK q : Sorts(q, U, R)
    BY <1>1, <2>3
  <2>5. n \in Nat /\ Cardinality(T) = n + 1
    <3>1. IsFiniteSet(U) /\ Cardinality(U) = Cardinality(T) - 1
      BY <1>2, <2>2, FS_RemoveElement
    <3>2. Cardinality(U) \in Nat
      BY <3>1, FS_CardinalityType
    <3>. HIDE DEF U
    <3>. QED BY <1>2, <3>1, <3>2
  <2>. HIDE DEF n
  <2>6. q \in [1..n -> U] /\ \A i, j \in 1..n : i < j => Precedes(R, q[i], q[j])
    BY <2>4 DEF Sorts, n
  <2>. DEFINE g == [k \in 1..(n + 1) |-> IF k = n + 1 THEN m ELSE q[k]]
  <2>7. g \in [1..(n + 1) -> T]
    BY <2>2, <2>5, <2>6
  <2>8. ASSUME NEW i \in 1..(n + 1), NEW j \in 1..(n + 1), i < j PROVE Precedes(R, g[i], g[j])
    <3>1. i \in 1..n /\ i # n + 1 /\ g[i] = q[i] /\ q[i] \in U
      BY <2>5, <2>6, <2>8
    <3>2. CASE j = n + 1
      BY <2>2, <3>1, <3>2
    <3>3. CASE j # n + 1
      <4>1. j \in 1..n /\ g[j] = q[j]
        BY <2>5, <3>3
      <4>. QED BY <2>6, <2>8, <3>1, <4>1
    <3>. QED BY <3>2, <3>3
  <2>9. Sorts(g, T, R)
    BY <2>5, <2>7, <2>8 DEF Sorts
  <2>. QED BY <1>1, <2>9
<1>. QED BY <1>3, <1>4

(* In order, every member stands once.                                     *)
LEMMA SortHolds ==
  ASSUME NEW S, IsFiniteSet(S), NEW R, \A x \in S : ~Precedes(R, x, x), NEW q, Sorts(q, S, R)
  PROVE  /\ q \in Seq(S) /\ Len(q) = Cardinality(S) /\ Len(q) \in Nat /\ Range(q) = S
         /\ \A i, j \in 1..Len(q) : i < j => Precedes(R, q[i], q[j])
         /\ \A i, j \in 1..Len(q) : q[i] = q[j] => i = j
<1>. DEFINE n == Cardinality(S)
<1>1. n \in Nat
  BY FS_CardinalityType
<1>2. q \in [1..n -> S] /\ \A i, j \in 1..n : i < j => Precedes(R, q[i], q[j])
  BY DEF Sorts
<1>. HIDE DEF n
<1>3. \A i, j \in 1..n : q[i] = q[j] => i = j
  <2>. SUFFICES ASSUME NEW i \in 1..n, NEW j \in 1..n, q[i] = q[j], i # j PROVE FALSE
    OBVIOUS
  <2>1. i < j \/ j < i
    BY <1>1
  <2>2. q[i] \in S
    BY <1>2
  <2>. QED BY <1>2, <2>1, <2>2
<1>4. q \in Injection(1..n, S)
  BY <1>2, <1>3 DEF Injection, IsInjective
<1>5. IsFiniteSet(1..n) /\ Cardinality(1..n) = n
  BY <1>1, FS_Interval
<1>6. q \in Surjection(1..n, S)
  BY <1>4, <1>5, FS_Injection DEF n
<1>7. \A x \in S : \E i \in 1..n : q[i] = x
  BY <1>6 DEF Surjection
<1>8. q \in Seq(S) /\ Len(q) = n
  BY <1>1, <1>2, RowOf
<1>9. Range(q) = S
  BY <1>2, <1>7 DEF Range
<1>. QED BY <1>1, <1>2, <1>3, <1>8, <1>9 DEF n

(* What is left of p, a part of one element or none for each of its own.   *)
Rising(h, n, m) == h \in [1..n -> 1..m] /\ \A j, k \in 1..n : j < k => h[j] < h[k]

From(u, f, h)   == Rising(h, Len(f), Len(u)) /\ \A k \in 1..Len(f) : u[h[k]] = <<f[k]>>

(* The elements of the join come from parts further and further on.        *)
LEMMA FlatRising ==
  ASSUME NEW T, NEW s \in Seq(Seq(T)), ShortParts(s)
  PROVE  \E h : From(s, FlattenSeq(s), h)
<1>. DEFINE S == {u \in Seq(Seq(T)) : ShortParts(u) => \E h : From(u, FlattenSeq(u), h)}
<1>1. <<>> \in S
  <2>1. FlattenSeq(<<>>) = <<>> /\ Len(<<>>) = 0 /\ 1..0 = {}
    BY FlatEmpty
  <2>2. From(<<>>, <<>>, [k \in {} |-> 1])
    BY <2>1 DEF From, Rising
  <2>. QED BY <2>1, <2>2
<1>2. ASSUME NEW u \in Seq(Seq(T)), NEW x \in Seq(T), u \in S PROVE Append(u, x) \in S
  <2>. SUFFICES ASSUME ShortParts(Append(u, x)) PROVE \E h : From(Append(u, x), FlattenSeq(Append(u, x)), h)
    OBVIOUS
  <2>. DEFINE a == Append(u, x)
              n == Len(u)
  <2>1. a \in Seq(Seq(T)) /\ Len(a) = n + 1 /\ a[n + 1] = x /\ (\A i \in 1..n : a[i] = u[i]) /\ n \in Nat
          /\ (\A i \in 1..n : i \in 1..(n + 1)) /\ n + 1 \in 1..(n + 1)
    OBVIOUS
  <2>2. PICK f \in Seq(T), g \in Seq(T) : f = FlattenSeq(u) /\ g = FlattenSeq(a) /\ g = f \o x
    BY <2>1, FlatType, FlatAppend
  <2>. HIDE DEF a, n
  <2>3. ShortParts(u) /\ Len(x) <= 1
    BY <2>1 DEF ShortParts, a, n
  <2>4. PICK h : From(u, f, h)
    BY <1>2, <2>2, <2>3
  <2>5. h \in [1..Len(f) -> 1..n] /\ (\A j, k \in 1..Len(f) : j < k => h[j] < h[k]) /\ Len(f) \in Nat
          /\ \A k \in 1..Len(f) : u[h[k]] = <<f[k]>>
    BY <2>2, <2>4 DEF From, Rising, n
  <2>6. CASE x = <<>>
    <3>1. g = f
      BY <2>2, <2>6, ConcatEmptySeq, Zenon
    <3>2. From(a, g, h)
      BY <2>1, <2>5, <3>1 DEF From, Rising
    <3>. QED BY <2>2, <3>2 DEF a
  <2>7. CASE x # <<>>
    <3>1. PICK c \in T : x = <<c>>
      <4>1. x # <<>> /\ Len(x) <= 1
        BY <2>3, <2>7
      <4>. QED BY <4>1, OneLong
    <3>2. Len(g) = Len(f) + 1 /\ g[Len(f) + 1] = c /\ (\A k \in 1..Len(f) : g[k] = f[k]) /\ Len(f) \in Nat
      BY <2>2, <3>1
    <3>. DEFINE m == Len(f)
                e == [k \in 1..(m + 1) |-> IF k = m + 1 THEN n + 1 ELSE h[k]]
    <3>3. m \in Nat /\ Len(g) = m + 1 /\ g[m + 1] = c /\ (\A k \in 1..m : g[k] = f[k])
            /\ h \in [1..m -> 1..n] /\ (\A j, k \in 1..m : j < k => h[j] < h[k])
            /\ \A k \in 1..m : u[h[k]] = <<f[k]>>
      BY <2>5, <3>2
    <3>. HIDE DEF m
    <3>4. \A k \in 1..m : e[k] = h[k] /\ h[k] \in 1..n /\ k \in 1..(m + 1)
      BY <3>3
    <3>5. e[m + 1] = n + 1 /\ \A k \in 1..(m + 1) : k # m + 1 => k \in 1..m
      BY <3>3
    <3>6. e \in [1..(m + 1) -> 1..(n + 1)]
      <4>1. ASSUME NEW k \in 1..(m + 1) PROVE e[k] \in 1..(n + 1)
        <5>1. CASE k = m + 1
          BY <2>1, <3>5, <5>1
        <5>2. CASE k # m + 1
          <6>1. k \in 1..m
            BY <3>5, <5>2
          <6>2. e[k] = h[k] /\ h[k] \in 1..n
            BY <3>4, <6>1
          <6>. QED BY <2>1, <6>2
        <5>. QED BY <5>1, <5>2
      <4>. QED BY <4>1
    <3>. HIDE DEF e
    <3>7. ASSUME NEW j \in 1..(m + 1), NEW k \in 1..(m + 1), j < k PROVE e[j] < e[k]
      <4>1. j \in 1..m
        BY <3>3, <3>7
      <4>2. CASE k = m + 1
        <5>1. e[j] \in 1..n /\ e[k] = n + 1
          BY <3>4, <3>5, <4>1, <4>2
        <5>. QED BY <2>1, <5>1
      <4>3. CASE k # m + 1
        <5>1. k \in 1..m
          BY <3>5, <4>3
        <5>. QED BY <3>3, <3>4, <3>7, <4>1, <5>1
      <4>. QED BY <4>2, <4>3
    <3>8. ASSUME NEW k \in 1..(m + 1) PROVE a[e[k]] = <<g[k]>>
      <4>1. CASE k = m + 1
        BY <2>1, <3>1, <3>3, <3>5, <4>1
      <4>2. CASE k # m + 1
        <5>1. k \in 1..m
          BY <3>5, <4>2
        <5>. QED BY <2>1, <3>3, <3>4, <5>1
      <4>. QED BY <4>1, <4>2
    <3>9. From(a, g, e)
      BY <2>1, <3>3, <3>6, <3>7, <3>8 DEF From, Rising
    <3>. QED BY <2>2, <3>9 DEF a
  <2>. QED BY <2>6, <2>7
<1>. HIDE DEF S
<1>3. \A u \in Seq(Seq(T)) : u \in S
  BY <1>1, <1>2, BuiltUp
<1>4. s \in S
  BY <1>3
<1>. QED BY <1>4 DEF S

(* What a filtering loop returns: elements of p in their order, and of     *)
(* every part that was kept the element.                                   *)
Thinned(p, u, f) ==
  /\ \A i \in 1..Len(p) : u[i] = <<p[i]>> => \E k \in 1..Len(f) : f[k] = p[i]
  /\ \E h : Rising(h, Len(f), Len(p)) /\ \A k \in 1..Len(f) : f[k] = p[h[k]] /\ u[h[k]] = <<p[h[k]]>>

LEMMA FlatThinned ==
  ASSUME NEW S, NEW p \in Seq(S), NEW u, Picks(p, u)
  PROVE  FlattenSeq(u) \in Seq(S) /\ Thinned(p, u, FlattenSeq(u))
<1>1. DOMAIN p = 1..Len(p) /\ Len(p) \in Nat /\ \A i \in 1..Len(p) : p[i] \in S
  OBVIOUS
<1>2. u = [i \in DOMAIN p |-> u[i]] /\ \A i \in DOMAIN p : u[i] = <<>> \/ u[i] = <<p[i]>>
  BY DEF Picks
<1>3. \A i \in 1..Len(p) : u[i] \in Seq(S) /\ Len(u[i]) <= 1
  <2>1. \A x \in S : <<x>> \in Seq(S) /\ Len(<<x>>) = 1
    OBVIOUS
  <2>2. <<>> \in Seq(S) /\ Len(<<>>) = 0
    OBVIOUS
  <2>3. TAKE i \in 1..Len(p)
  <2>4. u[i] = <<>> \/ u[i] = <<p[i]>>
    BY <1>1, <1>2
  <2>5. CASE u[i] = <<>>
    BY <2>2, <2>5
  <2>6. CASE u[i] = <<p[i]>>
    BY <1>1, <2>1, <2>6
  <2>. QED BY <2>4, <2>5, <2>6
<1>4. u \in [1..Len(p) -> Seq(S)]
  BY <1>1, <1>2, <1>3
<1>5. u \in Seq(Seq(S)) /\ Len(u) = Len(p)
  BY <1>1, <1>4, RowOf
<1>6. PICK f \in Seq(S) : f = FlattenSeq(u)
  BY <1>5, FlatType
<1>7. PICK h : From(u, f, h)
  BY <1>3, <1>5, <1>6, FlatRising DEF ShortParts
<1>8. PicksHold(p, u)
  BY FlatChosen
<1>9. ASSUME NEW i \in 1..Len(p), u[i] = <<p[i]>> PROVE \E k \in 1..Len(f) : f[k] = p[i]
  <2>1. p[i] \in ToSet(f)
    BY <1>1, <1>6, <1>8, <1>9 DEF PicksHold
  <2>. QED BY <2>1 DEF ToSet
<1>10. ASSUME NEW k \in 1..Len(f) PROVE f[k] = p[h[k]] /\ u[h[k]] = <<p[h[k]]>>
  <2>1. h[k] \in 1..Len(p) /\ u[h[k]] = <<f[k]>>
    BY <1>5, <1>7 DEF From, Rising
  <2>2. u[h[k]] = <<p[h[k]]>>
    <3>1. <<f[k]>> # <<>>
      OBVIOUS
    <3>. QED BY <1>1, <1>2, <2>1, <3>1
  <2>3. <<f[k]>>[1] = f[k] /\ <<p[h[k]]>>[1] = p[h[k]]
    OBVIOUS
  <2>. QED BY <2>1, <2>2, <2>3
<1>11. Rising(h, Len(f), Len(p))
  BY <1>5, <1>7 DEF From
<1>. QED BY <1>6, <1>9, <1>10, <1>11 DEF Thinned

(* A slice, element by element.                                            *)
LEMMA SliceOf ==
  ASSUME NEW C, NEW t \in Seq(C), NEW a \in Nat, NEW b \in Nat, 1 <= a, a <= b + 1, b <= Len(t)
  PROVE  /\ SubSeq(t, a, b) \in Seq(C) /\ Len(SubSeq(t, a, b)) = b - a + 1
         /\ \A i \in 1..(b - a + 1) : SubSeq(t, a, b)[i] = t[a + i - 1]
<1>1. \A i \in a..b : t[i] \in C
  OBVIOUS
<1>2. /\ SubSeq(t, a, b) \in Seq(C) /\ Len(SubSeq(t, a, b)) = IF a <= b THEN b - a + 1 ELSE 0
      /\ \A i \in 1..(b - a + 1) : SubSeq(t, a, b)[i] = t[a + i - 1]
  BY <1>1, SubSeqProperties
<1>3. (IF a <= b THEN b - a + 1 ELSE 0) = b - a + 1
  OBVIOUS
<1>. QED BY <1>2, <1>3

(* A text rewritten cell by cell                                           *)

Sieve(A, C) == [c \in C |-> IF c \in A THEN <<c>> ELSE <<>>]

LEMMA KeepsType ==
  ASSUME NEW C, NEW A
  PROVE  /\ Sieve(A, C) \in [C -> Seq(C)]
         /\ \A c \in C : Sieve(A, C)[c] = IF c \in A THEN <<c>> ELSE <<>>
<1>1. <<>> \in Seq(C) /\ \A c \in C : <<c>> \in Seq(C)
  OBVIOUS
<1>. QED BY <1>1 DEF Sieve

(* Two neighbouring slices are one.                                        *)
LEMMA SlicesJoin ==
  ASSUME NEW C, NEW T \in Seq(C), NEW a \in Nat, NEW b \in Nat, NEW n \in Nat,
         1 <= a, a <= b + 1, b <= n, n <= Len(T)
  PROVE  /\ SubSeq(T, a, b) \o SubSeq(T, b + 1, n) = SubSeq(T, a, n)
         /\ SubSeq(T, a, b) \in Seq(C) /\ SubSeq(T, b + 1, n) \in Seq(C) /\ SubSeq(T, a, n) \in Seq(C)
<1>1. Len(T) \in Nat /\ b <= Len(T) /\ 1 <= b + 1 /\ b + 1 <= n + 1 /\ b + 1 \in Nat /\ a <= n + 1
  OBVIOUS
<1>a. PICK l, r, u : l = SubSeq(T, a, b) /\ r = SubSeq(T, b + 1, n) /\ u = SubSeq(T, a, n)
  OBVIOUS
<1>2. l \in Seq(C) /\ l = SubSeq(T, a, b) /\ Len(l) = b - a + 1 /\ \A i \in 1..(b - a + 1) : l[i] = T[a + i - 1]
  BY <1>1, <1>a, SliceOf
<1>3. /\ r \in Seq(C) /\ r = SubSeq(T, b + 1, n) /\ Len(r) = n - (b + 1) + 1
      /\ \A i \in 1..(n - (b + 1) + 1) : r[i] = T[(b + 1) + i - 1]
  BY <1>1, <1>a, SliceOf
<1>4. u \in Seq(C) /\ u = SubSeq(T, a, n) /\ Len(u) = n - a + 1 /\ \A i \in 1..(n - a + 1) : u[i] = T[a + i - 1]
  BY <1>1, <1>a, SliceOf
<1>5. /\ l \o r \in Seq(C) /\ Len(l \o r) = Len(l) + Len(r)
      /\ \A i \in 1..(Len(l) + Len(r)) : (l \o r)[i] = IF i <= Len(l) THEN l[i] ELSE r[i - Len(l)]
  BY <1>2, <1>3, ConcatProperties
<1>6. Len(l) + Len(r) = n - a + 1 /\ Len(l) = b - a + 1
  BY <1>2, <1>3
<1>7. ASSUME NEW i \in 1..(n - a + 1) PROVE (l \o r)[i] = u[i]
  <2>1. CASE i <= b - a + 1
    <3>1. i \in 1..(b - a + 1)
      BY <2>1
    <3>. QED BY <1>2, <1>4, <1>5, <1>6, <2>1, <3>1
  <2>2. CASE ~(i <= b - a + 1)
    <3>1. PICK k \in Nat : k = i - (b - a + 1) /\ k \in 1..(n - (b + 1) + 1) /\ (b + 1) + k - 1 = a + i - 1
      <4>1. i - (b - a + 1) \in Nat
        BY <2>2
      <4>. QED BY <2>2, <4>1
    <3>2. (l \o r)[i] = r[k]
      BY <1>5, <1>6, <2>2, <3>1
    <3>3. r[k] = T[a + i - 1]
      BY <1>3, <3>1
    <3>. QED BY <1>4, <3>2, <3>3
  <2>. QED BY <2>1, <2>2
<1>8. l \o r = u
  BY <1>4, <1>5, <1>6, <1>7, SeqEqual
<1>. QED BY <1>2, <1>3, <1>4, <1>8

(* The cells of a text, one first, rewritten.                              *)
CellSpreads(C, f, c, W) ==
  /\ Spread(<<c>> \o W, f) = f[c] \o Spread(W, f)
  /\ <<c>> \o W \in Seq(C) /\ Spread(W, f) \in Seq(C) /\ f[c] \in Seq(C)

LEMMA SpreadCell ==
  ASSUME NEW C, NEW f \in [C -> Seq(C)], NEW c \in C, NEW W \in Seq(C)
  PROVE  CellSpreads(C, f, c, W)
<1>1. PICK u \in Seq(C) : u = <<c>>
  <2>1. <<c>> \in Seq(C)
    OBVIOUS
  <2>. QED BY <2>1
<1>2. Spread(u \o W, f) = Spread(u, f) \o Spread(W, f)
  BY SpreadConcat
<1>3. Spread(u, f) = f[c]
  BY <1>1, SpreadOne
<1>4. u \o W \in Seq(C)
  BY ConcatProperties
<1>5. Spread(W, f) \in Seq(C)
  BY SpreadType
<1>. QED BY <1>1, <1>2, <1>3, <1>4, <1>5 DEF CellSpreads

(* What stands from p on, rewritten: p's cell, then the rest.              *)
TailFrom(T, p) == SubSeq(T, p + 1, Len(T))

LEMMA TailCell ==
  ASSUME NEW C, NEW f \in [C -> Seq(C)], NEW T \in Seq(C), NEW p \in 1..Len(T)
  PROVE  /\ Spread(TailFrom(T, p - 1), f) = f[T[p]] \o Spread(TailFrom(T, p), f)
         /\ T[p] \in C /\ TailFrom(T, p) \in Seq(C) /\ TailFrom(T, p - 1) \in Seq(C)
<1>1. T[p] \in C /\ p \in Nat /\ p + 1 \in Nat /\ Len(T) \in Nat /\ p <= Len(T) /\ 0 < p
        /\ (p - 1) + 1 = p /\ Len(T) <= Len(T)
  OBVIOUS
<1>2. PICK w \in Seq(C) : w = SubSeq(T, p + 1, Len(T))
  <2>1. 1 <= p + 1 /\ p + 1 <= Len(T) + 1
    BY <1>1
  <2>2. SubSeq(T, p + 1, Len(T)) \in Seq(C)
    BY <1>1, <2>1, SliceOf
  <2>. QED BY <2>2
<1>3. SubSeq(T, p, Len(T)) = <<T[p]>> \o w
  <2>1. p \in 1..Len(T) /\ Len(T) \in p..Len(T)
    BY <1>1
  <2>2. SubSeq(T, p, Len(T)) = <<T[p]>> \o SubSeq(T, p + 1, Len(T))
    BY <2>1, SubSeqRecursiveFirst
  <2>. QED BY <1>2, <2>2
<1>4. Spread(<<T[p]>> \o w, f) = f[T[p]] \o Spread(w, f) /\ <<T[p]>> \o w \in Seq(C)
  <2>1. PICK c \in C : c = T[p]
    BY <1>1
  <2>2. CellSpreads(C, f, c, w)
    BY SpreadCell
  <2>. QED BY <2>1, <2>2 DEF CellSpreads
<1>. QED BY <1>1, <1>2, <1>3, <1>4 DEF TailFrom

(* Sorting, and the masking loop over a list of entities                   *)

InOrderOf(q, S, R) ==
  /\ q \in Seq(S) /\ Len(q) = Cardinality(S) /\ Len(q) \in Nat /\ Range(q) = S
  /\ \A i, j \in 1..Len(q) : i < j => Precedes(R, q[i], q[j])
  /\ \A i, j \in 1..Len(q) : q[i] = q[j] => i = j

LEMMA RangeFinite ==
  ASSUME NEW S, NEW t \in Seq(S)
  PROVE  IsFiniteSet(Range(t)) /\ Range(t) \subseteq S /\ t \in Seq(Range(t))
           /\ Range(t) = {t[i] : i \in 1..Len(t)}
<1>1. Len(t) \in Nat /\ DOMAIN t = 1..Len(t) /\ \A i \in 1..Len(t) : t[i] \in S
  OBVIOUS
<1>2. Range(t) = {t[i] : i \in 1..Len(t)}
  BY <1>1 DEF Range
<1>3. t \in [1..Len(t) -> Range(t)]
  BY <1>1, <1>2
<1>4. t \in Surjection(1..Len(t), Range(t))
  BY <1>2, <1>3 DEF Surjection
<1>5. IsFiniteSet(1..Len(t))
  BY <1>1, FS_Interval
<1>6. IsFiniteSet(Range(t))
  BY <1>4, <1>5, FS_Surjection
<1>. QED BY <1>1, <1>2, <1>3, <1>6, RowOf

LEMMA MinIn ==
  ASSUME NEW S, S \subseteq Nat, S # {}
  PROVE  Min(S) \in S
<1>1. \E m \in S : \A k \in S : m <= k
  BY LeastNat
<1>. QED BY <1>1 DEF Min

=============================================================================
