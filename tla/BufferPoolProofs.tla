-------------------------- MODULE BufferPoolProofs --------------------------
(***************************************************************************)
(* Proofs about BufferPool, for any number of goroutines, buffers, size    *)
(* classes and calls, any threshold and any percentile: no Put is counted  *)
(* twice or lost while one goroutine calibrates and the others count, and  *)
(* the two sizes that calibrate stores belong to one set of counts.        *)
(***************************************************************************)
EXTENDS BufferPool, DataLemmas, FiniteSetTheorems
-----------------------------------------------------------------------------
(* Sums *)

(* The element at which the sum of Functions is cut. *)
Chosen(s) == CHOOSE x \in s : TRUE

(* g[s] is the sum of f over s, for every subset s of S. *)
Sums(f, S, g) ==
  g = [s \in SUBSET S |-> IF s = {} THEN 0 ELSE f[Chosen(s)] + g[s \ {Chosen(s)}]]

(* A finite set less its chosen element. *)
LEMMA ChosenOf ==
  ASSUME NEW S, IsFiniteSet(S), S # {}
  PROVE  /\ Chosen(S) \in S /\ IsFiniteSet(S \ {Chosen(S)})
         /\ Cardinality(S) \in Nat /\ Cardinality(S \ {Chosen(S)}) = Cardinality(S) - 1
<1>1. Chosen(S) \in S
  BY DEF Chosen
<1> QED
  BY <1>1, FS_RemoveElement, FS_CardinalityType

(* The function that the sum defines recursively exists, ... *)
LEMMA SumsExist ==
  ASSUME NEW S, IsFiniteSet(S), NEW f, \A x \in S : f[x] \in Nat
  PROVE  \E g \in [SUBSET S -> Nat] : Sums(f, S, g)
<1>0. Cardinality(S) \in Nat
  BY FS_CardinalityType
<1> DEFINE Next1(g, s) == IF s = {} THEN 0 ELSE f[Chosen(s)] + g[s \ {Chosen(s)}]
           Upto(n, g) == \A s \in SUBSET S : Cardinality(s) <= n => g[s] = Next1(g, s)
           G == {n \in 0 .. Cardinality(S) : \E g \in [SUBSET S -> Nat] : Upto(n, g)}
<1>1. ASSUME NEW s \in SUBSET S
      PROVE  /\ IsFiniteSet(s) /\ Cardinality(s) \in Nat /\ Cardinality(s) <= Cardinality(S)
             /\ Cardinality(s) = 0 => s = {}
             /\ s # {} => /\ Chosen(s) \in S /\ s \ {Chosen(s)} \in SUBSET S
                          /\ Cardinality(s \ {Chosen(s)}) = Cardinality(s) - 1
  <2>1. IsFiniteSet(s) /\ Cardinality(s) <= Cardinality(S) /\ Cardinality(s) \in Nat
    BY FS_Subset, FS_CardinalityType
  <2>2. s # {} => Chosen(s) \in s /\ Cardinality(s \ {Chosen(s)}) = Cardinality(s) - 1
    BY <2>1, ChosenOf
  <2> QED
    BY <1>0, <2>1, <2>2, FS_EmptySet
<1>2. 0 \in G
  <2> DEFINE g == [s \in SUBSET S |-> 0]
  <2>1. g \in [SUBSET S -> Nat]
    OBVIOUS
  <2>2. ASSUME NEW s \in SUBSET S, Cardinality(s) <= 0 PROVE g[s] = Next1(g, s)
    <3>0. Cardinality(s) \in Nat /\ (Cardinality(s) = 0 => s = {})
      BY <1>0, <1>1
    <3>1. s = {}
      BY <2>2, <3>0
    <3> QED
      BY <3>1
  <2>3. Upto(0, g)
    <3> HIDE DEF g, Next1
    <3> QED
      BY <2>2
  <2>4. 0 \in 0 .. Cardinality(S)
    BY <1>0
  <2> HIDE DEF g, Upto
  <2> QED
    BY <2>1, <2>3, <2>4
<1>3. ASSUME NEW n \in 0 .. Cardinality(S) - 1, n \in G PROVE n + 1 \in G
  <2>1. PICK g \in [SUBSET S -> Nat] : Upto(n, g)
    BY <1>3
  <2> DEFINE h == [s \in SUBSET S |-> Next1(g, s)]
  <2>2. ASSUME NEW s \in SUBSET S PROVE Next1(g, s) \in Nat
    <3>1. CASE s = {}
      BY <3>1
    <3>2. CASE s # {}
      <4>1. f[Chosen(s)] \in Nat /\ g[s \ {Chosen(s)}] \in Nat
        BY <1>1, <2>1, <3>2
      <4> QED
        BY <3>2, <4>1
    <3> QED
      BY <3>1, <3>2
  <2>3. h \in [SUBSET S -> Nat] /\ \A s \in SUBSET S : h[s] = Next1(g, s)
    <3> HIDE DEF Next1
    <3> QED
      BY <2>2
  <2>4. ASSUME NEW s \in SUBSET S, Cardinality(s) <= n + 1 PROVE h[s] = Next1(h, s)
    <3>1. CASE s = {}
      BY <2>3, <3>1
    <3>2. CASE s # {}
      <4> DEFINE t == s \ {Chosen(s)}
      <4>0. t \in SUBSET S /\ Cardinality(t) = Cardinality(s) - 1
        BY <1>1, <3>2
      <4>1. t \in SUBSET S /\ Cardinality(t) <= n
        <5>1. Cardinality(s) \in Nat
          BY <1>1
        <5> HIDE DEF t
        <5> QED
          BY <1>0, <2>4, <4>0, <5>1
      <4>2. h[t] = g[t]
        <5> HIDE DEF t, Next1, h
        <5> QED
          BY <2>1, <2>3, <4>1
      <4>3. h[s] = Next1(g, s)
        BY <2>3
      <4> HIDE DEF h
      <4> QED
        BY <3>2, <4>2, <4>3
    <3> QED
      BY <3>1, <3>2
  <2>5. Upto(n + 1, h)
    <3> HIDE DEF h, Next1
    <3> QED
      BY <2>4
  <2>6. n + 1 \in 0 .. Cardinality(S)
    BY <1>0
  <2> HIDE DEF h, Upto
  <2> QED
    BY <2>3, <2>5, <2>6
<1>4. Cardinality(S) \in G
  <2>1. \A n \in 0 .. Cardinality(S) : n \in G
    <3> HIDE DEF G
    <3> QED
      BY <1>0, <1>2, <1>3, InductionUpTo
  <2> HIDE DEF G
  <2> QED
    BY <1>0, <2>1
<1>5. PICK g \in [SUBSET S -> Nat] : Upto(Cardinality(S), g)
  BY <1>4
<1>6. ASSUME NEW s \in SUBSET S PROVE g[s] = Next1(g, s)
  <2>1. Cardinality(s) <= Cardinality(S)
    BY <1>0, <1>1
  <2> HIDE DEF Next1
  <2> QED
    BY <1>5, <2>1
<1>7. g = [s \in SUBSET S |-> Next1(g, s)]
  <2> HIDE DEF Next1
  <2> QED
    BY <1>6
<1> QED
  BY <1>7 DEF Sums

(* ... is the only one, whatever the set of which it sums the parts, ... *)
LEMMA SumsUnique ==
  ASSUME NEW S, NEW T, NEW f, NEW g, NEW h, Sums(f, S, g), Sums(f, T, h),
         NEW U \in SUBSET S, U \in SUBSET T, IsFiniteSet(U)
  PROVE  g[U] = h[U]
<1>0. Cardinality(U) \in Nat
  BY FS_CardinalityType
<1> DEFINE G == {n \in 0 .. Cardinality(U) :
                   \A s \in SUBSET U : Cardinality(s) = n => g[s] = h[s]}
<1>1. ASSUME NEW s \in SUBSET U
      PROVE  /\ g[s] = IF s = {} THEN 0 ELSE f[Chosen(s)] + g[s \ {Chosen(s)}]
             /\ h[s] = IF s = {} THEN 0 ELSE f[Chosen(s)] + h[s \ {Chosen(s)}]
  <2>1. s \in SUBSET S /\ s \in SUBSET T
    OBVIOUS
  <2> QED
    BY <2>1 DEF Sums
<1>2. ASSUME NEW s \in SUBSET U
      PROVE  /\ IsFiniteSet(s) /\ Cardinality(s) \in Nat
             /\ Cardinality(s) = 0 <=> s = {}
             /\ s # {} => /\ s \ {Chosen(s)} \in SUBSET U
                          /\ Cardinality(s \ {Chosen(s)}) = Cardinality(s) - 1
  BY FS_Subset, FS_CardinalityType, FS_EmptySet, ChosenOf
<1>3. 0 \in G
  <2>1. \A s \in SUBSET U : Cardinality(s) = 0 => g[s] = h[s]
    BY <1>1, <1>2
  <2> QED
    BY <1>0, <2>1
<1>4. ASSUME NEW n \in 0 .. Cardinality(U) - 1, n \in G PROVE n + 1 \in G
  <2>1. ASSUME NEW s \in SUBSET U, Cardinality(s) = n + 1 PROVE g[s] = h[s]
    <3>1. s # {} /\ s \ {Chosen(s)} \in SUBSET U /\ Cardinality(s \ {Chosen(s)}) = n
      BY <1>0, <1>2, <2>1
    <3>2. g[s \ {Chosen(s)}] = h[s \ {Chosen(s)}]
      BY <1>4, <3>1
    <3> QED
      BY <1>1, <3>1, <3>2
  <2>2. n + 1 \in 0 .. Cardinality(U)
    BY <1>0
  <2> QED
    BY <2>1, <2>2
<1>5. \A n \in 0 .. Cardinality(U) : n \in G
  <2> HIDE DEF G
  <2> QED
    BY <1>0, <1>3, <1>4, InductionUpTo
<1>6. Cardinality(U) \in G
  <2> HIDE DEF G
  <2> QED
    BY <1>0, <1>5
<1> QED
  BY <1>6

(* ... and its last value is what SumFunctionOnSet adds up. *)
LEMMA SumIs ==
  ASSUME NEW S, IsFiniteSet(S), NEW f, NEW g, Sums(f, S, g)
  PROVE  SumFunctionOnSet(f, S) = g[S]
<1> DEFINE h == CHOOSE k : k = [s \in SUBSET S |->
                                  IF s = {} THEN 0
                                  ELSE f[CHOOSE x \in s : TRUE]
                                         + k[s \ {CHOOSE x \in s : TRUE}]]
<1>1. SumFunctionOnSet(f, S) = h[S]
  BY DEF SumFunctionOnSet, FoldFunctionOnSet, MapThenFoldSet
<1>2. Sums(f, S, h)
  BY DEF Sums, Chosen
<1> HIDE DEF h
<1> QED
  BY <1>1, <1>2, SumsUnique

(* A sum is a number: that of nothing is 0, any other has the value at the  *)
(* chosen element and the sum of the rest.                                  *)
LEMMA SumStep ==
  ASSUME NEW S, IsFiniteSet(S), NEW f, \A x \in S : f[x] \in Nat
  PROVE  /\ SumFunctionOnSet(f, S) \in Nat
         /\ S = {} => SumFunctionOnSet(f, S) = 0
         /\ S # {} => SumFunctionOnSet(f, S)
                        = f[Chosen(S)] + SumFunctionOnSet(f, S \ {Chosen(S)})
<1>1. PICK g \in [SUBSET S -> Nat] : Sums(f, S, g)
  BY SumsExist
<1>2. SumFunctionOnSet(f, S) = g[S] /\ S \in SUBSET S
  BY <1>1, SumIs
<1>3. g[S] = IF S = {} THEN 0 ELSE f[Chosen(S)] + g[S \ {Chosen(S)}]
  BY <1>1, <1>2 DEF Sums
<1>4. ASSUME S # {} PROVE SumFunctionOnSet(f, S \ {Chosen(S)}) = g[S \ {Chosen(S)}]
  <2> DEFINE T == S \ {Chosen(S)}
  <2>1. IsFiniteSet(T) /\ T \in SUBSET S /\ T \in SUBSET T /\ \A x \in T : f[x] \in Nat
    BY <1>4, ChosenOf
  <2> HIDE DEF T
  <2>2. PICK h \in [SUBSET T -> Nat] : Sums(f, T, h)
    BY <2>1, SumsExist
  <2>3. SumFunctionOnSet(f, T) = h[T]
    BY <2>1, <2>2, SumIs
  <2>4. g[T] = h[T]
    BY <1>1, <2>1, <2>2, SumsUnique
  <2>5. SumFunctionOnSet(f, T) = g[T]
    BY <2>3, <2>4
  <2> QED
    BY <2>5 DEF T
<1> QED
  BY <1>1, <1>2, <1>3, <1>4

(* Whichever element is taken out: the order of the sum is no matter. *)
LEMMA SumInsert ==
  ASSUME NEW S, IsFiniteSet(S), NEW f, \A x \in S : f[x] \in Nat, NEW y \in S
  PROVE  SumFunctionOnSet(f, S) = f[y] + SumFunctionOnSet(f, S \ {y})
<1>0. Cardinality(S) \in Nat
  BY FS_CardinalityType
<1> DEFINE Sum(s) == SumFunctionOnSet(f, s)
           G == {n \in 0 .. Cardinality(S) :
                   \A s \in SUBSET S : Cardinality(s) = n =>
                      \A z \in s : Sum(s) = f[z] + Sum(s \ {z})}
<1>1. ASSUME NEW s \in SUBSET S
      PROVE  /\ IsFiniteSet(s) /\ Cardinality(s) \in Nat /\ Cardinality(s) <= Cardinality(S)
             /\ Cardinality(s) = 0 <=> s = {}
             /\ \A z \in s : Cardinality(s \ {z}) = Cardinality(s) - 1
             /\ Sum(s) \in Nat
             /\ s # {} => Chosen(s) \in s /\ Sum(s) = f[Chosen(s)] + Sum(s \ {Chosen(s)})
  <2>1. IsFiniteSet(s) /\ \A x \in s : f[x] \in Nat
    BY FS_Subset
  <2>2. Cardinality(s) \in Nat /\ Cardinality(s) <= Cardinality(S)
    BY <2>1, FS_Subset, FS_CardinalityType
  <2>3. \A z \in s : Cardinality(s \ {z}) = Cardinality(s) - 1
    BY <2>1, FS_RemoveElement
  <2> QED
    BY <2>1, <2>2, <2>3, FS_EmptySet, SumStep, ChosenOf
<1> HIDE DEF Sum
<1>2. 0 \in G
  <2>1. ASSUME NEW s \in SUBSET S, Cardinality(s) = 0 PROVE s = {}
    BY <1>1, <2>1
  <2> QED
    BY <1>0, <2>1
<1>3. ASSUME NEW n \in 0 .. Cardinality(S) - 1, n \in G PROVE n + 1 \in G
  <2>1. ASSUME NEW s \in SUBSET S, Cardinality(s) = n + 1, NEW z \in s
        PROVE  Sum(s) = f[z] + Sum(s \ {z})
    <3> DEFINE c == Chosen(s)
    <3>1. c \in s /\ Sum(s) = f[c] + Sum(s \ {c})
      BY <1>1
    <3>2. CASE c = z
      BY <3>1, <3>2
    <3>3. CASE c # z
      <4> DEFINE u == s \ {c}
                 v == s \ {z}
                 t == v \ {c}
      <4>1. t = u \ {z} /\ u \in SUBSET S /\ v \in SUBSET S /\ t \in SUBSET S /\ z \in u /\ c \in v
        BY <3>1, <3>3
      <4>2. Cardinality(u) = n /\ Cardinality(v) = n
        <5>1. Cardinality(u) = Cardinality(s) - 1 /\ Cardinality(v) = Cardinality(s) - 1
          BY <1>1, <3>1
        <5> HIDE DEF u, v
        <5> QED
          BY <2>1, <5>1
      <4> HIDE DEF c, u, v, t
      <4>3. Sum(u) = f[z] + Sum(t)
        BY <1>3, <4>1, <4>2
      <4>4. Sum(v) = f[c] + Sum(v \ {c})
        BY <1>3, <4>1, <4>2
      <4>5. f[c] \in Nat /\ f[z] \in Nat /\ Sum(t) \in Nat
        BY <1>1, <3>1, <4>1
      <4>6. Sum(s) = f[c] + Sum(u) /\ Sum(v) = f[c] + Sum(t)
        BY <3>1, <4>4 DEF u, t
      <4>7. Sum(s) = f[z] + Sum(v)
        BY <4>3, <4>5, <4>6
      <4> QED
        BY <4>7 DEF v
    <3> QED
      BY <3>2, <3>3
  <2>2. n + 1 \in 0 .. Cardinality(S)
    BY <1>0
  <2> QED
    BY <2>1, <2>2
<1>4. \A n \in 0 .. Cardinality(S) : n \in G
  <2> HIDE DEF G
  <2> QED
    BY <1>0, <1>2, <1>3, InductionUpTo
<1>5. Cardinality(S) \in G /\ S \in SUBSET S
  <2> HIDE DEF G
  <2> QED
    BY <1>0, <1>4
<1>6. Sum(S) = f[y] + Sum(S \ {y})
  BY <1>5
<1> QED
  BY <1>6 DEF Sum

(* Functions that agree on a set have the same sum over it. *)
LEMMA SumAgree ==
  ASSUME NEW S, IsFiniteSet(S), NEW f, \A x \in S : f[x] \in Nat,
         NEW g, \A x \in S : g[x] = f[x]
  PROVE  SumFunctionOnSet(g, S) = SumFunctionOnSet(f, S)
<1>1. PICK h \in [SUBSET S -> Nat] : Sums(f, S, h)
  BY SumsExist
<1>2. Sums(g, S, h)
  <2>1. ASSUME NEW s \in SUBSET S
        PROVE  h[s] = IF s = {} THEN 0 ELSE g[Chosen(s)] + h[s \ {Chosen(s)}]
    <3>1. h[s] = IF s = {} THEN 0 ELSE f[Chosen(s)] + h[s \ {Chosen(s)}]
      BY <1>1 DEF Sums
    <3>2. s # {} => g[Chosen(s)] = f[Chosen(s)]
      BY DEF Chosen
    <3> QED
      BY <3>1, <3>2
  <2> QED
    BY <2>1 DEF Sums
<1> QED
  BY <1>1, <1>2, SumIs

(* The sum over a part is no larger. *)
LEMMA SumOfPart ==
  ASSUME NEW S, IsFiniteSet(S), NEW f, \A x \in S : f[x] \in Nat, NEW T \in SUBSET S
  PROVE  SumFunctionOnSet(f, T) <= SumFunctionOnSet(f, S)
<1>0. Cardinality(S) \in Nat
  BY FS_CardinalityType
<1> DEFINE Sum(s) == SumFunctionOnSet(f, s)
           G == {n \in 0 .. Cardinality(S) :
                   \A s \in SUBSET S : Cardinality(s) = n =>
                      \A t \in SUBSET s : Sum(t) <= Sum(s)}
<1>1. ASSUME NEW s \in SUBSET S
      PROVE  /\ IsFiniteSet(s) /\ Cardinality(s) \in Nat
             /\ Cardinality(s) = 0 <=> s = {}
             /\ Sum(s) \in Nat
             /\ \A z \in s : /\ Cardinality(s \ {z}) = Cardinality(s) - 1
                             /\ Sum(s) = f[z] + Sum(s \ {z})
  <2>1. IsFiniteSet(s) /\ \A x \in s : f[x] \in Nat
    BY FS_Subset
  <2>2. \A z \in s : Cardinality(s \ {z}) = Cardinality(s) - 1
    BY <2>1, FS_RemoveElement
  <2>3. \A z \in s : Sum(s) = f[z] + Sum(s \ {z})
    BY <2>1, SumInsert
  <2> QED
    BY <2>1, <2>2, <2>3, FS_CardinalityType, FS_EmptySet, SumStep
<1> HIDE DEF Sum
<1>2. 0 \in G
  <2>1. ASSUME NEW s \in SUBSET S, Cardinality(s) = 0, NEW t \in SUBSET s
        PROVE Sum(t) <= Sum(s)
    <3>1. t = s /\ Sum(s) \in Nat
      BY <1>1, <2>1
    <3> QED
      BY <3>1
  <2> QED
    BY <1>0, <2>1
<1>3. ASSUME NEW n \in 0 .. Cardinality(S) - 1, n \in G PROVE n + 1 \in G
  <2>1. ASSUME NEW s \in SUBSET S, Cardinality(s) = n + 1, NEW t \in SUBSET s
        PROVE  Sum(t) <= Sum(s)
    <3>0. Sum(s) \in Nat
      BY <1>1
    <3>1. CASE t = s
      BY <3>0, <3>1
    <3>2. CASE t # s
      <4>1. PICK z \in s : z \notin t
        BY <3>2
      <4> DEFINE u == s \ {z}
      <4>2. u \in SUBSET S /\ t \in SUBSET u
        BY <4>1
      <4>3. Cardinality(u) = n /\ Sum(s) = f[z] + Sum(u) /\ f[z] \in Nat
        BY <1>0, <1>1, <2>1
      <4> HIDE DEF u
      <4>4. Sum(u) \in Nat /\ Sum(t) \in Nat
        BY <1>1, <4>2
      <4>5. Sum(t) <= Sum(u)
        BY <1>3, <4>2, <4>3
      <4> QED
        BY <4>3, <4>4, <4>5
    <3> QED
      BY <3>1, <3>2
  <2>2. n + 1 \in 0 .. Cardinality(S)
    BY <1>0
  <2> QED
    BY <2>1, <2>2
<1>4. \A n \in 0 .. Cardinality(S) : n \in G
  <2> HIDE DEF G
  <2> QED
    BY <1>0, <1>2, <1>3, InductionUpTo
<1>5. Cardinality(S) \in G /\ S \in SUBSET S
  <2> HIDE DEF G
  <2> QED
    BY <1>0, <1>4
<1>6. Sum(T) <= Sum(S)
  BY <1>5
<1> QED
  BY <1>6 DEF Sum

(* A function that is 0 everywhere sums up to 0. *)
LEMMA SumOfZeros ==
  ASSUME NEW S, IsFiniteSet(S), NEW f, \A x \in S : f[x] = 0
  PROVE  SumFunctionOnSet(f, S) = 0
<1> DEFINE g == [s \in SUBSET S |-> 0]
<1>1. Sums(f, S, g)
  <2>1. ASSUME NEW s \in SUBSET S
        PROVE  g[s] = IF s = {} THEN 0 ELSE f[Chosen(s)] + g[s \ {Chosen(s)}]
    <3>1. s # {} => f[Chosen(s)] = 0
      BY DEF Chosen
    <3>2. g[s] = 0 /\ g[s \ {Chosen(s)}] = 0
      OBVIOUS
    <3> HIDE DEF g
    <3> QED
      BY <3>1, <3>2
  <2> QED
    BY <2>1 DEF Sums
<1>2. g[S] = 0
  OBVIOUS
<1> HIDE DEF g
<1> QED
  BY <1>1, <1>2, SumIs

(* A function that is 0 everywhere but at y sums up to its value there. *)
LEMMA SumOfOne ==
  ASSUME NEW S, IsFiniteSet(S), NEW f, NEW y \in S, f[y] \in Nat,
         \A x \in S \ {y} : f[x] = 0
  PROVE  SumFunctionOnSet(f, S) = f[y]
<1>1. \A x \in S : f[x] \in Nat
  OBVIOUS
<1>2. SumFunctionOnSet(f, S \ {y}) = 0
  BY FS_RemoveElement, SumOfZeros
<1>3. SumFunctionOnSet(f, S) = f[y] + SumFunctionOnSet(f, S \ {y})
  BY <1>1, SumInsert
<1> QED
  BY <1>2, <1>3

(* Counting one more at y makes the sum one more. *)
LEMMA SumOfMore ==
  ASSUME NEW S, IsFiniteSet(S), NEW f \in [S -> Nat], NEW y \in S
  PROVE  SumFunction([f EXCEPT ![y] = @ + 1]) = SumFunction(f) + 1
<1> DEFINE g == [f EXCEPT ![y] = @ + 1]
           T == S \ {y}
<1>1. DOMAIN f = S /\ DOMAIN g = S /\ g \in [S -> Nat] /\ g[y] = f[y] + 1
      /\ \A x \in T : g[x] = f[x]
  OBVIOUS
<1>2. IsFiniteSet(T) /\ \A x \in T : f[x] \in Nat
  BY FS_RemoveElement
<1> HIDE DEF g
<1>3. SumFunctionOnSet(g, T) = SumFunctionOnSet(f, T) /\ SumFunctionOnSet(f, T) \in Nat
  <2> HIDE DEF T
  <2> QED
    BY <1>1, <1>2, SumAgree, SumStep
<1>4. \A x \in S : f[x] \in Nat /\ g[x] \in Nat
  BY <1>1
<1>5. SumFunctionOnSet(g, S) = g[y] + SumFunctionOnSet(g, T)
  BY <1>4, SumInsert
<1>6. SumFunctionOnSet(f, S) = f[y] + SumFunctionOnSet(f, T)
  BY <1>4, SumInsert
<1>7. SumFunctionOnSet(g, S) = SumFunctionOnSet(f, S) + 1
  <2> HIDE DEF T
  <2> QED
    BY <1>1, <1>3, <1>4, <1>5, <1>6
<1>8. SumFunction(g) = SumFunctionOnSet(g, S) /\ SumFunction(f) = SumFunctionOnSet(f, S)
  BY <1>1 DEF SumFunction
<1> QED
  BY <1>7, <1>8 DEF g
-----------------------------------------------------------------------------
(* What calibrate works out *)

(* calibrate's largest size is the largest of the sizes it goes through. *)
LEMMA MaxIs ==
  ASSUME NEW n \in Nat, NEW S \in SUBSET (0 .. n), S # {}
  PROVE  Max(S) \in S /\ \A x \in S : Max(S) >= x
<1> DEFINE T == {n - x : x \in S}
<1>1. T \in SUBSET Nat /\ T # {}
  <2>1. \A x \in S : n - x \in Nat
    OBVIOUS
  <2> QED
    BY <2>1
<1>2. PICK m \in T : \A k \in T : m <= k
  <2> HIDE DEF T
  <2> QED
    BY <1>1, LeastNumber
<1>3. PICK y \in S : m = n - y
  BY <1>2
<1>4. ASSUME NEW x \in S PROVE y >= x
  <2>1. n - x \in T /\ x \in Nat /\ y \in Nat
    BY <1>3
  <2>2. n - y <= n - x
    <3> HIDE DEF T
    <3> QED
      BY <1>2, <1>3, <2>1
  <2> QED
    BY <2>1, <2>2
<1> QED
  BY <1>3, <1>4 DEF Max

(* The share of the calls that calibrate wants to cover is a number. *)
LEMMA MaxSumIs ==
  ASSUME NEW taken \in [Classes -> Nat]
  PROVE  SumFunction(taken) \in Nat /\ MaxSum(taken) \in Nat
<1>1. IsFiniteSet(Classes) /\ DOMAIN taken = Classes /\ \A i \in Classes : taken[i] \in Nat
  <2>1. 0 \in Int /\ Steps - 1 \in Int
    BY BufferPoolAssumption
  <2> QED
    BY <2>1, FS_Interval DEF Classes
<1>2. SumFunction(taken) \in Nat
  BY <1>1, SumStep DEF SumFunction
<1>3. ASSUME NEW s \in Nat PROVE (s * PctNum) \div PctDen \in Nat
  <2>1. PctNum \in Nat /\ PctDen \in Nat \ {0}
    BY BufferPoolAssumption
  <2>2. PICK p \in Nat : p = s * PctNum
    BY <2>1
  <2> QED
    BY <2>1, <2>2, DivBounds
<1> QED
  BY <1>2, <1>3 DEF MaxSum

(* An order of the sizes has every size. *)
LEMMA OrderCovers ==
  ASSUME NEW order \in SetToSeqs(Classes)
  PROVE  /\ order \in [1 .. Steps -> Classes]
         /\ \A i \in Classes : \E k \in 1 .. Steps : order[k] = i
<1>0. Steps \in Nat \ {0} /\ 0 \in Int /\ 1 \in Int /\ Steps - 1 \in Int /\ Steps \in Int
  BY BufferPoolAssumption
<1>1. IsFiniteSet(Classes) /\ Cardinality(Classes) = Steps
  <2>1. /\ IsFiniteSet(0 .. Steps - 1)
        /\ Cardinality(0 .. Steps - 1) = IF 0 > Steps - 1 THEN 0 ELSE (Steps - 1) - 0 + 1
    BY <1>0, FS_Interval
  <2> QED
    BY <1>0, <2>1 DEF Classes
<1>2. IsFiniteSet(1 .. Steps) /\ Cardinality(1 .. Steps) = Steps
  <2>1. /\ IsFiniteSet(1 .. Steps)
        /\ Cardinality(1 .. Steps) = IF 1 > Steps THEN 0 ELSE Steps - 1 + 1
    BY <1>0, FS_Interval
  <2> QED
    BY <1>0, <2>1
<1>3. /\ order \in [1 .. Steps -> Classes]
      /\ \A i, j \in 1 .. Steps : i # j => order[i] # order[j]
  BY <1>1 DEF SetToSeqs
<1>4. order \in Injection(1 .. Steps, Classes)
  BY <1>3 DEF Injection, IsInjective
<1>5. order \in Surjection(1 .. Steps, Classes)
  BY <1>1, <1>2, <1>4, FS_Injection
<1> QED
  BY <1>3, <1>5 DEF Surjection

(* The default size and the maximum that belong to these counts. *)
Right(d, m, counted) ==
  /\ d \in Classes /\ m \in Classes /\ d <= m
  /\ \A i \in Classes : counted[i] <= counted[d]
  /\ LET kept == SumFunctionOnSet(counted, 0 .. m)
     IN kept > MaxSum(counted) \/ kept = SumFunction(counted)

(* Whichever order sort.Sort leaves equal counts in, the loop that follows  *)
(* it finds a default and a maximum that belong to the counts.              *)
LEMMA SortedRight ==
  ASSUME NEW taken \in [Classes -> Nat], NEW order \in SetToSeqs(Classes),
         \A j, k \in DOMAIN order : j < k => taken[order[j]] >= taken[order[k]]
  PROVE  Right(order[1], Max(Kept(taken, order)), taken)
<1>0. Steps \in Nat \ {0} /\ Steps - 1 \in Nat /\ 1 \in 1 .. Steps /\ Steps - 1 \in Classes
  BY BufferPoolAssumption DEF Classes
<1>1. /\ order \in [1 .. Steps -> Classes] /\ DOMAIN order = 1 .. Steps
      /\ \A i \in Classes : \E k \in 1 .. Steps : order[k] = i
  BY OrderCovers
<1>2. IsFiniteSet(Classes) /\ DOMAIN taken = Classes /\ \A i \in Classes : taken[i] \in Nat
  <2>1. 0 \in Int /\ Steps - 1 \in Int
    BY <1>0
  <2> QED
    BY <2>1, FS_Interval DEF Classes
<1>3. MaxSum(taken) \in Nat
  BY MaxSumIs
<1> DEFINE First(j) == {order[m] : m \in 1 .. j - 1}
           K == Kept(taken, order)
           M == Max(K)
<1>4. K = {order[k] : k \in {j \in 1 .. Steps :
                               SumFunctionOnSet(taken, First(j)) <= MaxSum(taken)}}
  BY <1>1 DEF Kept
<1>5. order[1] \in K
  <2>1. First(1) = {}
    OBVIOUS
  <2>2. SumFunctionOnSet(taken, {}) = 0
    BY FS_EmptySet, SumOfZeros
  <2>3. SumFunctionOnSet(taken, First(1)) <= MaxSum(taken)
    BY <1>3, <2>1, <2>2
  <2> HIDE DEF First
  <2> QED
    BY <1>0, <1>4, <2>3
<1>6. K \in SUBSET (0 .. Steps - 1) /\ K # {}
  BY <1>1, <1>4, <1>5 DEF Classes
<1> HIDE DEF K, First
<1>7. M \in K /\ \A x \in K : M >= x
  BY <1>0, <1>6, MaxIs
<1>8. M \in Classes /\ order[1] \in Classes /\ order[1] <= M
  BY <1>0, <1>1, <1>5, <1>6, <1>7 DEF Classes
<1>9. ASSUME NEW i \in Classes PROVE taken[i] <= taken[order[1]]
  <2>1. PICK k \in 1 .. Steps : order[k] = i
    BY <1>1
  <2>2. CASE k = 1
    BY <1>2, <2>1, <2>2
  <2>3. CASE k # 1
    <3>1. 1 < k
      BY <2>3
    <3>2. taken[order[1]] >= taken[order[k]]
      BY <1>0, <1>1, <3>1
    <3> QED
      BY <1>2, <1>8, <2>1, <3>2
  <2> QED
    BY <2>2, <2>3
<1> HIDE DEF M
<1>10. SumFunctionOnSet(taken, 0 .. M) > MaxSum(taken)
         \/ SumFunctionOnSet(taken, 0 .. M) = SumFunction(taken)
  <2> DEFINE Over == {j \in 1 .. Steps : ~(SumFunctionOnSet(taken, First(j)) <= MaxSum(taken))}
  <2>1. CASE Over = {}
    <3>1. Steps - 1 \in K
      <4>1. PICK k \in 1 .. Steps : order[k] = Steps - 1
        BY <1>0, <1>1
      <4> QED
        BY <1>4, <2>1, <4>1
    <3>2. M = Steps - 1
      BY <1>0, <1>7, <1>8, <3>1 DEF Classes
    <3> QED
      BY <1>2, <3>2 DEF SumFunction, Classes
  <2>2. CASE Over # {}
    <3>1. PICK j \in Over : \A k \in Over : j <= k
      <4>1. Over \in SUBSET Nat
        OBVIOUS
      <4> HIDE DEF Over
      <4> QED
        BY <2>2, <4>1, LeastNumber
    <3>2. First(j) \in SUBSET K
      <4>1. ASSUME NEW m \in 1 .. j - 1 PROVE order[m] \in K
        <5>0. j \in 1 .. Steps
          BY <3>1
        <5>1. m \in 1 .. Steps /\ ~(j <= m)
          BY <1>0, <5>0
        <5>2. SumFunctionOnSet(taken, First(m)) <= MaxSum(taken)
          BY <3>1, <5>1
        <5> QED
          BY <1>4, <5>1, <5>2
      <4> QED
        BY <4>1 DEF First
    <3>3. K \in SUBSET (0 .. M) /\ 0 .. M \in SUBSET Classes
      BY <1>0, <1>6, <1>7, <1>8 DEF Classes
    <3>4. IsFiniteSet(0 .. M) /\ \A x \in 0 .. M : taken[x] \in Nat
      BY <1>2, <3>3, FS_Subset
    <3>5. SumFunctionOnSet(taken, First(j)) <= SumFunctionOnSet(taken, 0 .. M)
      BY <3>2, <3>3, <3>4, SumOfPart
    <3>6. SumFunctionOnSet(taken, 0 .. M) \in Nat
      BY <3>4, SumStep
    <3>7. SumFunctionOnSet(taken, First(j)) \in Nat
      <4>1. IsFiniteSet(First(j)) /\ \A x \in First(j) : taken[x] \in Nat
        BY <3>2, <3>3, <3>4, FS_Subset
      <4> QED
        BY <4>1, SumStep
    <3>8. ~(SumFunctionOnSet(taken, First(j)) <= MaxSum(taken))
      BY <3>1
    <3> QED
      BY <1>3, <3>5, <3>6, <3>7, <3>8
  <2> QED
    BY <2>1, <2>2
<1> QED
  BY <1>8, <1>9, <1>10 DEF Right, M, K
-----------------------------------------------------------------------------
(* The inductive invariant *)

(* u is between the compare-and-swap and the store of 0 in calibrate. *)
Busy(u) == pc[u] \in {"swap", "sort", "default", "max", "open"}

(* calibrating keeps every goroutine but one out. *)
Alone == \A u, v \in Users : Busy(u) => calibrating = 1 /\ (Busy(v) => u = v)

(* Who does not calibrate holds no counts. *)
NothingTaken == \A u \in Users : ~Busy(u) => cal[u] = NoCal

(* The counters that are still to be swapped have not been taken. *)
Swapping ==
  \A u \in Users : pc[u] = "swap" =>
    cal[u].i < Steps /\ \A k \in cal[u].i .. Steps - 1 : cal[u].taken[k] = 0

(* Those who are about to count are within the bound, too. *)
PutsBounded ==
  SumFunction(puts) + Cardinality({v \in Users : pc[v] = "count"}) <= MaxPuts

(* What calibrate has worked out is right, and stored as far as it has come. *)
Worked ==
  \A u \in Users :
    /\ pc[u] \in {"default", "max", "open"} => Right(cal[u].default, cal[u].max, cal[u].taken)
    /\ pc[u] \in {"max", "open"} => defaultSize = cal[u].default /\ last = cal[u].taken
    /\ pc[u] = "open" => maxSize = cal[u].max

(* But between the two stores the sizes belong together. *)
Stored ==
  defaultSize # Unset /\ (\A u \in Users : pc[u] \notin {"max", "open"})
    => Right(defaultSize, maxSize, last)

(* The inductive invariant: EachPutCounted needs to know that one goroutine *)
(* alone holds counts, CalibratedRight what that goroutine has worked out   *)
(* and how much of it is stored.                                            *)
PoolInv ==
  /\ TypeOK /\ Alone /\ NothingTaken /\ Swapping
  /\ PutsBounded /\ EachPutCounted /\ Worked /\ Stored

(* The places of a goroutine. *)
Places == {"idle", "count", "limit", "give", "cas", "swap", "sort", "default", "max", "open"}
(* The locals of calibrate. *)
Locals == [i : 0 .. Steps, taken : [Classes -> 0 .. MaxPuts], default : Classes, max : Classes]

(* TypeOK in those terms. *)
LEMMA TypeIs ==
  TypeOK <=> /\ calls \in [Classes -> 0 .. MaxPuts] /\ calibrating \in {0, 1}
             /\ defaultSize \in {Unset} \cup Classes /\ maxSize \in {Unset} \cup Classes
             /\ where \in [Bufs -> {"none", "pool"} \cup Users]
             /\ size \in [Bufs -> 0 .. Steps]
             /\ pc \in [Users -> Places] /\ cal \in [Users -> Locals]
             /\ puts \in [Classes -> 0 .. MaxPuts] /\ settled \in [Classes -> 0 .. MaxPuts]
             /\ last \in [Classes -> 0 .. MaxPuts]
  BY DEF TypeOK, Places, Locals

(* The constants, and the values a call starts from. *)
LEMMA Constants ==
  /\ Steps \in Nat \ {0} /\ Steps - 1 \in Nat /\ MaxPuts \in Nat /\ Threshold \in Nat
  /\ IsFiniteSet(Users) /\ IsFiniteSet(Classes) /\ 0 \in Classes
  /\ Unset \notin Classes
  /\ Zero \in [Classes -> 0 .. MaxPuts] /\ NoCal \in Locals /\ NoCal.taken = Zero
  /\ \A i \in Classes : Zero[i] = 0
<1>1. Steps \in Nat \ {0} /\ Steps - 1 \in Nat /\ MaxPuts \in Nat /\ Threshold \in Nat
      /\ IsFiniteSet(Users)
  BY BufferPoolAssumption
<1>2. IsFiniteSet(Classes)
  <2>1. 0 \in Int /\ Steps - 1 \in Int
    BY <1>1
  <2> QED
    BY <2>1, FS_Interval DEF Classes
<1>3. 0 \in Classes /\ Unset \notin Classes
  BY <1>1 DEF Classes, Unset
<1>4. Zero \in [Classes -> 0 .. MaxPuts] /\ \A i \in Classes : Zero[i] = 0
  BY <1>1 DEF Zero
<1>5. NoCal \in Locals /\ NoCal.taken = Zero
  BY <1>1, <1>3, <1>4 DEF NoCal, Locals
<1> QED
  BY <1>1, <1>2, <1>3, <1>4, <1>5

(* How many are about to count, when u goes somewhere. *)
LEMMA Counting ==
  ASSUME NEW p \in [Users -> Places], NEW u \in Users, NEW place,
         NEW q, q = [p EXCEPT ![u] = place],
         NEW a, a = Cardinality({v \in Users : p[v] = "count"}),
         NEW b, b = Cardinality({v \in Users : q[v] = "count"})
  PROVE  /\ a \in Nat /\ b \in Nat
         /\ p[u] # "count" /\ place # "count" => b = a
         /\ p[u] = "count" /\ place # "count" => a = b + 1
<1> DEFINE A == {v \in Users : p[v] = "count"}
           B == {v \in Users : q[v] = "count"}
<1>1. IsFiniteSet(A) /\ IsFiniteSet(B)
  BY Constants, FS_Subset
<1>2. Cardinality(A) \in Nat /\ Cardinality(B) \in Nat
  BY <1>1, FS_CardinalityType
<1>3. p[u] # "count" /\ place # "count" => B = A
  OBVIOUS
<1>4. p[u] = "count" /\ place # "count" => A = B \cup {u} /\ u \notin B
  OBVIOUS
<1> HIDE DEF A, B
<1>5. u \notin B => Cardinality(B \cup {u}) = Cardinality(B) + 1
  BY <1>1, FS_AddElement
<1>6. /\ Cardinality(A) \in Nat /\ Cardinality(B) \in Nat
      /\ p[u] # "count" /\ place # "count" => Cardinality(B) = Cardinality(A)
      /\ p[u] = "count" /\ place # "count" => Cardinality(A) = Cardinality(B) + 1
  BY <1>2, <1>3, <1>4, <1>5
<1> QED
  BY <1>6 DEF A, B

(* The counts that one goroutine holds are all there are. *)
LEMMA TakenIs ==
  ASSUME NEW c \in [Users -> Locals], NEW u \in Users, \A v \in Users \ {u} : c[v] = NoCal,
         NEW k \in Classes
  PROVE  SumFunction([v \in Users |-> c[v].taken[k]]) = c[u].taken[k]
<1> DEFINE f == [v \in Users |-> c[v].taken[k]]
<1>1. DOMAIN f = Users /\ f[u] = c[u].taken[k] /\ \A v \in Users \ {u} : f[v] = 0
  BY Constants
<1>2. f[u] \in Nat
  BY Constants, <1>1 DEF Locals
<1> HIDE DEF f
<1>3. SumFunctionOnSet(f, Users) = f[u]
  BY <1>1, <1>2, Constants, SumOfOne
<1>4. SumFunction(f) = c[u].taken[k]
  BY <1>1, <1>3 DEF SumFunction
<1> QED
  BY <1>4 DEF f

(* A count of one class is within the count of all. *)
LEMMA CountWithin ==
  ASSUME NEW counts \in [Classes -> Nat], NEW i \in Classes
  PROVE  SumFunction(counts) \in Nat /\ counts[i] <= SumFunction(counts)
<1>1. /\ IsFiniteSet(Classes) /\ DOMAIN counts = Classes
      /\ \A x \in Classes : counts[x] \in Nat
  BY Constants
<1>2. SumFunctionOnSet(counts, Classes) = counts[i] + SumFunctionOnSet(counts, Classes \ {i})
  BY <1>1, SumInsert
<1>3. SumFunctionOnSet(counts, Classes \ {i}) \in Nat
  <2>1. IsFiniteSet(Classes \ {i}) /\ \A x \in Classes \ {i} : counts[x] \in Nat
    BY <1>1, FS_RemoveElement
  <2> QED
    BY <2>1, SumStep
<1>4. SumFunctionOnSet(counts, Classes) \in Nat
  BY <1>1, SumStep
<1> QED
  BY <1>1, <1>2, <1>3, <1>4 DEF SumFunction

(* No goroutine has called Get or Put. *)
LEMMA PoolInit == Init => PoolInv
<1> SUFFICES ASSUME Init PROVE PoolInv
  OBVIOUS
<1>1. /\ calls = Zero /\ calibrating = 0 /\ defaultSize = Unset /\ maxSize = Unset
      /\ where = [b \in Bufs |-> "none"] /\ size = [b \in Bufs |-> 0]
      /\ pc = [u \in Users |-> "idle"] /\ cal = [u \in Users |-> NoCal]
      /\ puts = Zero /\ settled = Zero /\ last = Zero
  BY DEF Init
<1>2. \A u \in Users : pc[u] = "idle" /\ cal[u] = NoCal
  BY <1>1
<1>3. TypeOK
  <2>1. pc \in [Users -> Places] /\ cal \in [Users -> Locals]
    BY <1>1, Constants DEF Places
  <2>2. /\ where \in [Bufs -> {"none", "pool"} \cup Users] /\ size \in [Bufs -> 0 .. Steps]
    BY <1>1, Constants
  <2> QED
    BY <1>1, <2>1, <2>2, Constants, TypeIs
<1>4. Alone /\ NothingTaken /\ Swapping /\ Worked /\ Stored
  BY <1>1, <1>2 DEF Alone, NothingTaken, Swapping, Worked, Stored, Busy
<1>5. PutsBounded
  <2>1. {v \in Users : pc[v] = "count"} = {}
    BY <1>2
  <2>2. SumFunction(puts) = 0
    <3>1. DOMAIN puts = Classes /\ \A i \in Classes : puts[i] = 0
      BY <1>1 DEF Zero
    <3> QED
      BY <3>1, Constants, SumOfZeros DEF SumFunction
  <2>3. Cardinality({}) = 0 /\ 0 + 0 <= MaxPuts
    BY FS_EmptySet, Constants
  <2> QED
    BY <2>1, <2>2, <2>3 DEF PutsBounded
<1>6. EachPutCounted
  <2>1. ASSUME NEW i \in Classes
        PROVE  SumFunction([u \in Users |-> cal[u].taken[i]]) = 0
    <3> DEFINE f == [u \in Users |-> cal[u].taken[i]]
    <3>1. DOMAIN f = Users /\ \A u \in Users : f[u] = 0
      BY <1>2, Constants
    <3> HIDE DEF f
    <3>2. SumFunction(f) = 0
      BY <3>1, Constants, SumOfZeros DEF SumFunction
    <3> QED
      BY <3>2 DEF f
  <2>2. \A i \in Classes : puts[i] = 0 /\ calls[i] = 0 /\ settled[i] = 0
    BY <1>1, Constants
  <2>3. 0 = 0 + 0 + 0
    OBVIOUS
  <2> QED
    BY <2>1, <2>2, <2>3 DEF EachPutCounted
<1> QED
  BY <1>3, <1>4, <1>5, <1>6 DEF PoolInv
-----------------------------------------------------------------------------
(* Every step keeps the invariant *)

(* Where the goroutines are after one of them has gone somewhere. *)
LEMMA GotoIs ==
  ASSUME TypeOK, NEW u \in Users, NEW place \in Places, Goto(u, place)
  PROVE  pc' \in [Users -> Places] /\ pc'[u] = place /\ \A v \in Users \ {u} : pc'[v] = pc[v]
BY TypeIs DEF Goto

(* Going anywhere but to the counter. *)
LEMMA PutsKept ==
  ASSUME TypeOK, PutsBounded, puts' = puts, NEW u \in Users, NEW place \in Places,
         Goto(u, place), pc[u] # "count", place # "count"
  PROVE  PutsBounded'
<1>1. pc \in [Users -> Places] /\ pc' = [pc EXCEPT ![u] = place]
  BY TypeIs DEF Goto
<1>2. PICK a : a = Cardinality({v \in Users : pc[v] = "count"})
  OBVIOUS
<1>3. PICK b : b = Cardinality({v \in Users : pc'[v] = "count"})
  OBVIOUS
<1>4. b = a
  BY <1>1, <1>2, <1>3, Counting
<1> QED
  BY <1>2, <1>3, <1>4 DEF PutsBounded

(* Going to the counter. *)
LEMMA OneMoreCounts ==
  ASSUME TypeOK, NEW u \in Users, Goto(u, "count"), pc[u] # "count"
  PROVE  /\ Cardinality({v \in Users : pc[v] = "count"}) \in Nat
         /\ Cardinality({v \in Users : pc'[v] = "count"})
              = Cardinality({v \in Users : pc[v] = "count"}) + 1
<1> DEFINE A == {v \in Users : pc[v] = "count"}
           B == {v \in Users : pc'[v] = "count"}
<1>1. B = A \cup {u} /\ u \notin A
  BY TypeIs DEF Goto
<1>2. IsFiniteSet(A)
  BY Constants, FS_Subset
<1> HIDE DEF A, B
<1>3. Cardinality(A) \in Nat /\ Cardinality(B) = Cardinality(A) + 1
  BY <1>1, <1>2, FS_AddElement, FS_CardinalityType
<1> QED
  BY <1>3 DEF A, B

(* Steps of the owners of buffers and of the garbage collector. *)
LEMMA BufferStep ==
  ASSUME PoolInv, UNCHANGED <<poolVars, userVars, histVars>>,
         where' \in [Bufs -> {"none", "pool"} \cup Users], size' \in [Bufs -> 0 .. Steps]
  PROVE  PoolInv'
<1>1. /\ calls' = calls /\ calibrating' = calibrating /\ defaultSize' = defaultSize
      /\ maxSize' = maxSize /\ pc' = pc /\ cal' = cal
      /\ puts' = puts /\ settled' = settled /\ last' = last
  BY DEF poolVars, userVars, histVars
<1>2. TypeOK'
  BY <1>1 DEF PoolInv, TypeOK
<1>3. Alone' /\ NothingTaken' /\ Swapping' /\ Worked' /\ Stored'
  BY <1>1 DEF PoolInv, Alone, NothingTaken, Swapping, Worked, Stored, Busy, Right, MaxSum
<1>4. PutsBounded' /\ EachPutCounted'
  BY <1>1 DEF PoolInv, PutsBounded, EachPutCounted
<1> QED
  BY <1>2, <1>3, <1>4 DEF PoolInv

(* Steps of Put outside calibrate that leave the counters alone. *)
LEMMA PutStep ==
  ASSUME PoolInv, NEW u \in Users, NEW place \in {"idle", "count", "limit", "give"},
         ~Busy(u), Goto(u, place), PutsBounded',
         UNCHANGED <<poolVars, cal, histVars>>,
         where' \in [Bufs -> {"none", "pool"} \cup Users], size' \in [Bufs -> 0 .. Steps]
  PROVE  PoolInv'
<1>1. /\ calls' = calls /\ calibrating' = calibrating /\ defaultSize' = defaultSize
      /\ maxSize' = maxSize /\ cal' = cal
      /\ puts' = puts /\ settled' = settled /\ last' = last
  BY DEF poolVars, histVars
<1>2. pc' \in [Users -> Places] /\ pc'[u] = place /\ \A v \in Users \ {u} : pc'[v] = pc[v]
  BY GotoIs DEF Places, PoolInv
<1>3. ~Busy(u)' /\ \A v \in Users : v # u => (Busy(v)' <=> Busy(v))
  BY <1>2 DEF Busy
<1>4. TypeOK'
  BY <1>1, <1>2 DEF PoolInv, TypeOK, Places
<1>5. Alone' /\ NothingTaken'
  <2>1. \A v \in Users : Busy(v)' => Busy(v)
    BY <1>3
  <2>2. Alone'
    BY <1>1, <2>1 DEF PoolInv, Alone
  <2>3. \A v \in Users : ~Busy(v)' => ~Busy(v)
    BY <1>3
  <2>4. NothingTaken'
    BY <1>1, <2>3 DEF PoolInv, NothingTaken
  <2> QED
    BY <2>2, <2>4
<1>6. \A v \in Users, p \in {"swap", "default", "max", "open"} : pc'[v] = p <=> pc[v] = p
  BY <1>2 DEF Busy
<1>7. Swapping'
  BY <1>1, <1>6 DEF PoolInv, Swapping
<1>8. Worked' /\ Stored'
  <2>1. \A v \in Users : /\ pc'[v] \in {"default", "max", "open"} <=> pc[v] \in {"default", "max", "open"}
                         /\ pc'[v] \in {"max", "open"} <=> pc[v] \in {"max", "open"}
                         /\ pc'[v] = "open" <=> pc[v] = "open"
    BY <1>6
  <2> QED
    BY <1>1, <2>1 DEF PoolInv, Worked, Stored, Right, MaxSum
<1>9. EachPutCounted'
  BY <1>1 DEF PoolInv, EachPutCounted
<1> QED
  BY <1>4, <1>5, <1>7, <1>8, <1>9 DEF PoolInv

(* Get, the growth of a buffer, and the garbage collector. *)
LEMMA OwnerStep ==
  ASSUME PoolInv, (\E u \in Users : Get(u) \/ Grow(u)) \/ (\E b \in Bufs : Collect(b))
  PROVE  PoolInv'
<1>1. /\ where \in [Bufs -> {"none", "pool"} \cup Users] /\ size \in [Bufs -> 0 .. Steps]
      /\ defaultSize \in {Unset} \cup Classes
  BY TypeIs DEF PoolInv
<1>2. ASSUME NEW u \in Users, Get(u) PROVE PoolInv'
  <2>1. PICK b \in Bufs :
          /\ where' = [where EXCEPT ![b] = u]
          /\ size' = IF where[b] = "pool" THEN size
                     ELSE [size EXCEPT ![b] = IF defaultSize = Unset THEN 0 ELSE defaultSize]
    BY <1>2 DEF Get
  <2>2. where' \in [Bufs -> {"none", "pool"} \cup Users]
    BY <1>1, <2>1
  <2>3. (IF defaultSize = Unset THEN 0 ELSE defaultSize) \in 0 .. Steps
    BY <1>1, Constants DEF Classes
  <2>4. size' \in [Bufs -> 0 .. Steps]
    BY <1>1, <2>1, <2>3
  <2> QED
    BY <1>2, <2>2, <2>4, BufferStep DEF Get
<1>3. ASSUME NEW u \in Users, Grow(u) PROVE PoolInv'
  <2>0. PICK b \in Bufs : \E s \in size[b] + 1 .. Steps : size' = [size EXCEPT ![b] = s]
    BY <1>3 DEF Grow
  <2>1. PICK s \in size[b] + 1 .. Steps : size' = [size EXCEPT ![b] = s]
    BY <2>0
  <2>2. s \in 0 .. Steps
    BY <1>1, <2>1, Constants
  <2>3. size' \in [Bufs -> 0 .. Steps] /\ where' = where
    BY <1>1, <1>3, <2>1, <2>2 DEF Grow
  <2> QED
    BY <1>1, <1>3, <2>3, BufferStep DEF Grow
<1>4. ASSUME NEW b \in Bufs, Collect(b) PROVE PoolInv'
  <2>1. where' \in [Bufs -> {"none", "pool"} \cup Users] /\ size' = size
    BY <1>1, <1>4 DEF Collect
  <2> QED
    BY <1>1, <1>4, <2>1, BufferStep DEF Collect
<1> QED
  BY <1>2, <1>3, <1>4

(* The call of Put, the look at maxSize and pool.Put. *)
LEMMA GiveStep ==
  ASSUME PoolInv, NEW u \in Users, CallPut(u) \/ LoadLimit(u) \/ Give(u)
  PROVE  PoolInv'
<1>1. /\ where \in [Bufs -> {"none", "pool"} \cup Users] /\ size \in [Bufs -> 0 .. Steps]
      /\ TypeOK /\ PutsBounded /\ pc \in [Users -> Places] /\ puts \in [Classes -> 0 .. MaxPuts]
      /\ MaxPuts \in Nat
  BY TypeIs, Constants DEF PoolInv
<1>2. CASE CallPut(u)
  <2>1. /\ pc[u] = "idle" /\ Goto(u, "count") /\ puts' = puts
        /\ SumFunction(puts) + Cardinality({v \in Users : pc[v] = "count"}) < MaxPuts
        /\ where' = where /\ size' = size
        /\ UNCHANGED <<poolVars, cal, histVars>>
    BY <1>2 DEF CallPut, bufVars, histVars
  <2>2. PutsBounded'
    <3> DEFINE a == Cardinality({v \in Users : pc[v] = "count"})
               b == Cardinality({v \in Users : pc'[v] = "count"})
    <3>1. a \in Nat /\ b = a + 1
      BY <1>1, <2>1, OneMoreCounts
    <3>2. SumFunction(puts) \in Nat
      <4>1. puts \in [Classes -> Nat]
        BY <1>1
      <4> QED
        BY <4>1, Constants, CountWithin
    <3>3. SumFunction(puts) + a < MaxPuts
      BY <2>1
    <3> HIDE DEF a, b
    <3>4. SumFunction(puts) + b <= MaxPuts
      BY <1>1, <3>1, <3>2, <3>3
    <3> QED
      BY <2>1, <3>4 DEF PutsBounded, b
  <2> QED
    BY <1>1, <2>1, <2>2, PutStep DEF Busy
<1>3. CASE LoadLimit(u)
  <2>1. /\ pc[u] = "limit" /\ size' = size /\ puts' = puts
        /\ UNCHANGED <<poolVars, cal, histVars>>
    BY <1>3 DEF LoadLimit, histVars
  <2>2. CASE Goto(u, "give") /\ where' = where
    <3>1. PutsBounded'
      BY <1>1, <2>1, <2>2, PutsKept DEF Places
    <3> QED
      BY <1>1, <2>1, <2>2, <3>1, PutStep DEF Busy
  <2>3. ASSUME NEW b \in Bufs, Goto(u, "idle"), where' = [where EXCEPT ![b] = "none"]
        PROVE  PoolInv'
    <3>1. PutsBounded'
      BY <1>1, <2>1, <2>3, PutsKept DEF Places
    <3>2. where' \in [Bufs -> {"none", "pool"} \cup Users]
      BY <1>1, <2>3
    <3> QED
      BY <1>1, <2>1, <2>3, <3>1, <3>2, PutStep DEF Busy
  <2> QED
    BY <1>3, <2>2, <2>3 DEF LoadLimit
<1>4. CASE Give(u)
  <2>1. /\ pc[u] = "give" /\ size' = size /\ puts' = puts /\ Goto(u, "idle")
        /\ where' = [b \in Bufs |-> IF Has(u, b) THEN "pool" ELSE where[b]]
        /\ UNCHANGED <<poolVars, cal, histVars>>
    BY <1>4 DEF Give, histVars
  <2>2. PutsBounded'
    BY <1>1, <2>1, PutsKept DEF Places
  <2>3. where' \in [Bufs -> {"none", "pool"} \cup Users]
    BY <1>1, <2>1
  <2> QED
    BY <1>1, <2>1, <2>2, <2>3, PutStep DEF Busy
<1> QED
  BY <1>2, <1>3, <1>4

(* The counts held by all goroutines together are a number. *)
LEMMA TakenNat ==
  ASSUME NEW c \in [Users -> Locals], NEW k \in Classes
  PROVE  SumFunction([v \in Users |-> c[v].taken[k]]) \in Nat
<1> DEFINE f == [v \in Users |-> c[v].taken[k]]
<1>1. DOMAIN f = Users /\ \A v \in Users : f[v] \in Nat
  BY Constants DEF Locals
<1> HIDE DEF f
<1>2. SumFunction(f) \in Nat
  BY <1>1, Constants, SumStep DEF SumFunction
<1> QED
  BY <1>2 DEF f

(* No goroutine but one calibrates. *)
LEMMA OthersIdle ==
  ASSUME PoolInv, NEW u \in Users, Busy(u)
  PROVE  calibrating = 1 /\ \A v \in Users \ {u} : ~Busy(v) /\ cal[v] = NoCal
BY DEF PoolInv, Alone, NothingTaken

(* index finds a class. *)
LEMMA IndexIs ==
  ASSUME NEW s \in 0 .. Steps
  PROVE  index(s) \in Classes
BY Constants DEF index, Classes

(* A Put is counted. *)
LEMMA CountStep ==
  ASSUME PoolInv, NEW u \in Users, Count(u)
  PROVE  PoolInv'
<1>1. /\ TypeOK /\ size \in [Bufs -> 0 .. Steps] /\ pc \in [Users -> Places]
      /\ calls \in [Classes -> 0 .. MaxPuts] /\ puts \in [Classes -> 0 .. MaxPuts]
      /\ settled \in [Classes -> 0 .. MaxPuts] /\ cal \in [Users -> Locals]
      /\ MaxPuts \in Nat /\ Threshold \in Nat
  BY TypeIs, Constants DEF PoolInv
<1>2. PICK b \in Bufs :
        /\ calls' = [calls EXCEPT ![index(size[b])] = @ + 1]
        /\ puts' = [puts EXCEPT ![index(size[b])] = @ + 1]
        /\ Goto(u, IF calls[index(size[b])] + 1 > Threshold THEN "cas" ELSE "limit")
  BY DEF Count
<1>3. PICK i \in Classes : i = index(size[b])
  BY <1>1, IndexIs
<1>4. PICK place \in {"cas", "limit"} : Goto(u, place)
  BY <1>2
<1>5. /\ calls' = [calls EXCEPT ![i] = @ + 1] /\ puts' = [puts EXCEPT ![i] = @ + 1]
      /\ pc[u] = "count" /\ calibrating' = calibrating /\ defaultSize' = defaultSize
      /\ maxSize' = maxSize /\ where' = where /\ size' = size /\ cal' = cal
      /\ settled' = settled /\ last' = last
  BY <1>2, <1>3 DEF Count, bufVars
<1>6. /\ pc' \in [Users -> Places] /\ pc'[u] = place
      /\ \A v \in Users \ {u} : pc'[v] = pc[v]
  BY <1>1, <1>4, GotoIs DEF Places
<1>7. /\ calls'[i] = calls[i] + 1 /\ \A k \in Classes \ {i} : calls'[k] = calls[k]
      /\ puts'[i] = puts[i] + 1 /\ \A k \in Classes \ {i} : puts'[k] = puts[k]
  BY <1>1, <1>5
<1>8. puts \in [Classes -> Nat]
  BY <1>1
<1>9. SumFunction(puts') = SumFunction(puts) + 1
  BY <1>5, <1>8, Constants, SumOfMore
<1>10. SumFunction(puts) \in Nat /\ puts[i] <= SumFunction(puts)
  BY <1>8, CountWithin
<1>11. PutsBounded' /\ puts[i] + 1 <= MaxPuts
  <2>1. PICK m : m = Cardinality({v \in Users : pc[v] = "count"})
    OBVIOUS
  <2>2. PICK n : n = Cardinality({v \in Users : pc'[v] = "count"})
    OBVIOUS
  <2>3. pc' = [pc EXCEPT ![u] = place] /\ place # "count"
    BY <1>4 DEF Goto
  <2>4. m \in Nat /\ n \in Nat /\ m = n + 1
    <3>1. PICK p \in [Users -> Places] : p = pc
      BY <1>1
    <3>a. PICK q : q = pc'
      OBVIOUS
    <3>2. q = [p EXCEPT ![u] = place] /\ p[u] = "count" /\ place # "count"
      BY <1>5, <2>3, <3>1, <3>a
    <3>3. /\ m = Cardinality({v \in Users : p[v] = "count"})
          /\ n = Cardinality({v \in Users : q[v] = "count"})
      BY <2>1, <2>2, <3>1, <3>a
    <3> QED
      BY <1>1, <3>2, <3>3, Counting
  <2>5. SumFunction(puts) + m <= MaxPuts
    BY <2>1 DEF PoolInv, PutsBounded
  <2>6. SumFunction(puts') + n <= MaxPuts
    BY <1>1, <1>9, <1>10, <2>4, <2>5
  <2>7. puts[i] + 1 <= MaxPuts
    BY <1>1, <1>8, <1>10, <2>4, <2>5
  <2> QED
    BY <2>2, <2>6, <2>7 DEF PutsBounded
<1>12. calls[i] <= puts[i]
  <2>1. PICK t : t = SumFunction([v \in Users |-> cal[v].taken[i]])
    OBVIOUS
  <2>2. t \in Nat
    BY <1>1, <2>1, TakenNat
  <2>3. puts[i] = calls[i] + settled[i] + t
    BY <2>1 DEF PoolInv, EachPutCounted
  <2>4. calls[i] \in Nat /\ settled[i] \in Nat /\ puts[i] \in Nat
    BY <1>1
  <2> QED
    BY <2>2, <2>3, <2>4
<1>13. TypeOK'
  <2>1. calls[i] + 1 \in 0 .. MaxPuts /\ puts[i] + 1 \in 0 .. MaxPuts
    BY <1>1, <1>11, <1>12
  <2>2. calls' \in [Classes -> 0 .. MaxPuts] /\ puts' \in [Classes -> 0 .. MaxPuts]
    BY <1>1, <1>5, <2>1
  <2> QED
    BY <1>5, <1>6, <2>2 DEF PoolInv, TypeOK, Places
<1>14. \A v \in Users : /\ Busy(v)' <=> Busy(v)
                        /\ \A p \in {"swap", "default", "max", "open"} : pc'[v] = p <=> pc[v] = p
  <2>1. \A p \in {"swap", "sort", "default", "max", "open"} : pc'[u] # p /\ pc[u] # p
    BY <1>5, <1>6
  <2> QED
    BY <1>6, <2>1 DEF Busy
<1>15. Alone' /\ NothingTaken'
  BY <1>5, <1>14 DEF PoolInv, Alone, NothingTaken
<1>16. Swapping'
  BY <1>5, <1>14 DEF PoolInv, Swapping
<1>17. Worked' /\ Stored'
  <2>1. \A v \in Users : /\ pc'[v] \in {"default", "max", "open"} <=> pc[v] \in {"default", "max", "open"}
                         /\ pc'[v] \in {"max", "open"} <=> pc[v] \in {"max", "open"}
                         /\ pc'[v] = "open" <=> pc[v] = "open"
    BY <1>14
  <2> QED
    BY <1>5, <2>1 DEF PoolInv, Worked, Stored, Right, MaxSum
<1>18. EachPutCounted'
  <2>1. ASSUME NEW k \in Classes
        PROVE  puts'[k] = calls'[k] + settled'[k]
                            + SumFunction([v \in Users |-> cal'[v].taken[k]])
    <3>1. PICK t : t = SumFunction([v \in Users |-> cal[v].taken[k]])
      OBVIOUS
    <3>2. t \in Nat
      BY <1>1, <3>1, TakenNat
    <3>3. puts[k] = calls[k] + settled[k] + t
      BY <3>1 DEF PoolInv, EachPutCounted
    <3>4. calls[k] \in Nat /\ settled[k] \in Nat /\ puts[k] \in Nat
      BY <1>1
    <3>5. puts'[k] = calls'[k] + settled[k] + t
      BY <1>7, <3>2, <3>3, <3>4
    <3> QED
      BY <1>5, <3>1, <3>5
  <2> QED
    BY <2>1 DEF EachPutCounted
<1> QED
  BY <1>11, <1>13, <1>15, <1>16, <1>17, <1>18 DEF PoolInv

(* calibrating is taken, or someone else has it. *)
LEMMA CasStep ==
  ASSUME PoolInv, NEW u \in Users, Cas(u)
  PROVE  PoolInv'
<1>1. /\ TypeOK /\ PutsBounded /\ pc \in [Users -> Places] /\ cal \in [Users -> Locals]
      /\ where \in [Bufs -> {"none", "pool"} \cup Users] /\ size \in [Bufs -> 0 .. Steps]
  BY TypeIs DEF PoolInv
<1>2. /\ pc[u] = "cas" /\ calls' = calls /\ defaultSize' = defaultSize /\ maxSize' = maxSize
      /\ where' = where /\ size' = size /\ cal' = cal
      /\ puts' = puts /\ settled' = settled /\ last' = last
  BY DEF Cas, bufVars, histVars
<1>3. ~Busy(u)
  BY <1>2 DEF Busy
<1>4. CASE calibrating' = calibrating /\ Goto(u, "limit")
  <2>1. PutsBounded'
    BY <1>1, <1>2, <1>4, PutsKept DEF Places
  <2>2. UNCHANGED <<poolVars, cal, histVars>>
    BY <1>2, <1>4 DEF poolVars, histVars
  <2> QED
    BY <1>1, <1>2, <1>3, <1>4, <2>1, <2>2, PutStep
<1>5. CASE calibrating = 0 /\ calibrating' = 1 /\ Goto(u, "swap")
  <2>1. /\ pc' \in [Users -> Places] /\ pc'[u] = "swap"
        /\ \A v \in Users \ {u} : pc'[v] = pc[v]
    BY <1>1, <1>5, GotoIs DEF Places
  <2>2. PutsBounded'
    BY <1>1, <1>2, <1>5, PutsKept DEF Places
  <2>3. \A v \in Users : ~Busy(v)
    BY <1>5 DEF PoolInv, Alone
  <2>4. \A v \in Users \ {u} : ~Busy(v)'
    BY <2>1, <2>3 DEF Busy
  <2>5. TypeOK'
    BY <1>2, <1>5, <2>1 DEF PoolInv, TypeOK, Places
  <2>6. Alone'
    BY <1>5, <2>4 DEF Alone
  <2>7. NothingTaken'
    <3>1. Busy(u)'
      BY <2>1 DEF Busy
    <3> QED
      BY <1>2, <2>3, <3>1 DEF PoolInv, NothingTaken
  <2>8. Swapping'
    <3>1. cal[u] = NoCal
      BY <1>3 DEF PoolInv, NothingTaken
    <3>2. cal[u].i = 0 /\ \A k \in 0 .. Steps - 1 : cal[u].taken[k] = 0
      BY <3>1, Constants DEF NoCal, Classes
    <3>3. \A v \in Users \ {u} : pc'[v] # "swap"
      BY <2>4 DEF Busy
    <3> QED
      BY <1>2, <3>2, <3>3, Constants DEF Swapping
  <2>9. \A v \in Users : pc'[v] \notin {"default", "max", "open"} /\ pc[v] \notin {"max", "open"}
    BY <2>1, <2>3, <2>4 DEF Busy
  <2>10. Worked' /\ Stored'
    BY <1>2, <2>9 DEF PoolInv, Worked, Stored, Right, MaxSum
  <2>11. EachPutCounted'
    BY <1>2 DEF PoolInv, EachPutCounted
  <2> QED
    BY <2>2, <2>5, <2>6, <2>7, <2>8, <2>10, <2>11 DEF PoolInv
<1> QED
  BY <1>4, <1>5 DEF Cas

(* A step from one place of calibrate to another. *)
LEMMA StaysBusy ==
  ASSUME PoolInv, NEW u \in Users, Busy(u), calibrating' = calibrating, puts' = puts,
         NEW place \in {"swap", "sort", "default", "max", "open"}, Goto(u, place),
         \A v \in Users \ {u} : cal'[v] = cal[v]
  PROVE  /\ pc' \in [Users -> Places] /\ pc'[u] = place
         /\ Alone' /\ NothingTaken' /\ PutsBounded'
         /\ \A v \in Users \ {u} :
              /\ pc[v] \notin {"swap", "sort", "default", "max", "open"}
              /\ pc'[v] \notin {"swap", "sort", "default", "max", "open"}
              /\ cal[v] = NoCal /\ cal'[v] = NoCal
<1>1. TypeOK /\ PutsBounded
  BY DEF PoolInv
<1>2. pc' \in [Users -> Places] /\ pc'[u] = place /\ \A v \in Users \ {u} : pc'[v] = pc[v]
  BY <1>1, GotoIs DEF Places
<1>3. /\ calibrating = 1
      /\ \A v \in Users \ {u} : ~Busy(v) /\ ~Busy(v)' /\ cal[v] = NoCal /\ cal'[v] = NoCal
  <2>1. calibrating = 1 /\ \A v \in Users \ {u} : ~Busy(v) /\ cal[v] = NoCal
    BY OthersIdle
  <2>2. \A v \in Users \ {u} : ~Busy(v)'
    BY <1>2, <2>1 DEF Busy
  <2> QED
    BY <2>1, <2>2
<1>4. Busy(u)'
  BY <1>2 DEF Busy
<1>5. Alone'
  BY <1>3 DEF Alone
<1>6. NothingTaken'
  BY <1>3, <1>4 DEF NothingTaken
<1>7. PutsBounded'
  <2>1. pc[u] # "count"
    BY DEF Busy
  <2> QED
    BY <1>1, <2>1, PutsKept DEF Places
<1> QED
  BY <1>2, <1>3, <1>5, <1>6, <1>7 DEF Busy

(* A counter is taken. *)
LEMMA SwapStep ==
  ASSUME PoolInv, NEW u \in Users, SwapCalls(u)
  PROVE  PoolInv'
<1>1. /\ pc \in [Users -> Places] /\ cal \in [Users -> Locals]
      /\ calls \in [Classes -> 0 .. MaxPuts] /\ cal[u] \in Locals
      /\ Steps \in Nat \ {0} /\ Steps - 1 \in Nat
  BY TypeIs, Constants DEF PoolInv
<1>2. PICK i : i = cal[u].i
  OBVIOUS
<1>3. /\ pc[u] = "swap" /\ calls' = [calls EXCEPT ![i] = 0]
      /\ cal' = [cal EXCEPT ![u].taken[i] = calls[i], ![u].i = i + 1]
      /\ Goto(u, IF i + 1 < Steps THEN "swap" ELSE "sort")
      /\ calibrating' = calibrating /\ defaultSize' = defaultSize /\ maxSize' = maxSize
      /\ where' = where /\ size' = size
      /\ puts' = puts /\ settled' = settled /\ last' = last
  BY <1>2 DEF SwapCalls, bufVars, histVars
<1>4. i \in Nat /\ i \in Classes /\ \A k \in i .. Steps - 1 : cal[u].taken[k] = 0
  <2>1. i \in 0 .. Steps /\ i < Steps /\ \A k \in i .. Steps - 1 : cal[u].taken[k] = 0
    BY <1>1, <1>2, <1>3 DEF PoolInv, Swapping, Locals
  <2> QED
    BY <1>1, <2>1 DEF Classes
<1>5. /\ cal'[u].taken = [cal[u].taken EXCEPT ![i] = calls[i]] /\ cal'[u].i = i + 1
      /\ cal'[u].default = cal[u].default /\ cal'[u].max = cal[u].max
      /\ cal' \in [Users -> Locals]
      /\ \A v \in Users \ {u} : cal'[v] = cal[v]
  <2>1. i + 1 \in 0 .. Steps
    BY <1>1, <1>4 DEF Classes
  <2>2. [cal[u].taken EXCEPT ![i] = calls[i]] \in [Classes -> 0 .. MaxPuts]
    BY <1>1, <1>4 DEF Locals
  <2> QED
    BY <1>1, <1>3, <2>1, <2>2 DEF Locals
<1>6. PICK place \in {"swap", "sort"} :
        Goto(u, place) /\ (place = "swap" => i + 1 < Steps)
  BY <1>3
<1>7. Busy(u)
  BY <1>3 DEF Busy
<1>8. /\ pc' \in [Users -> Places] /\ pc'[u] = place
      /\ Alone' /\ NothingTaken' /\ PutsBounded'
      /\ \A v \in Users \ {u} :
           /\ pc[v] \notin {"swap", "sort", "default", "max", "open"}
           /\ pc'[v] \notin {"swap", "sort", "default", "max", "open"}
           /\ cal[v] = NoCal /\ cal'[v] = NoCal
  BY <1>3, <1>5, <1>6, <1>7, StaysBusy
<1>9. TypeOK'
  <2>1. calls' \in [Classes -> 0 .. MaxPuts]
    BY <1>1, <1>3, Constants
  <2> QED
    BY <1>3, <1>5, <1>8, <2>1 DEF PoolInv, TypeOK, Places, Locals
<1>10. Swapping'
  <2>1. ASSUME pc'[u] = "swap"
        PROVE  cal'[u].i < Steps /\ \A k \in cal'[u].i .. Steps - 1 : cal'[u].taken[k] = 0
    <3>1. i + 1 < Steps
      BY <1>6, <1>8, <2>1
    <3>2. ASSUME NEW k \in i + 1 .. Steps - 1 PROVE cal'[u].taken[k] = 0
      <4>1. k # i /\ k \in i .. Steps - 1
        BY <1>1, <1>4
      <4>2. cal'[u].taken[k] = cal[u].taken[k]
        BY <1>5, <4>1
      <4> QED
        BY <1>4, <4>1, <4>2
    <3> QED
      BY <1>5, <3>1, <3>2
  <2>2. \A v \in Users \ {u} : pc'[v] # "swap"
    BY <1>8
  <2> QED
    BY <2>1, <2>2 DEF Swapping
<1>11. \A v \in Users : pc'[v] \notin {"default", "max", "open"} /\ pc[v] \notin {"max", "open"}
  BY <1>3, <1>8
<1>12. Worked' /\ Stored'
  BY <1>3, <1>11 DEF PoolInv, Worked, Stored, Right, MaxSum
<1>13. EachPutCounted'
  <2>1. ASSUME NEW k \in Classes
        PROVE  puts'[k] = calls'[k] + settled'[k]
                            + SumFunction([v \in Users |-> cal'[v].taken[k]])
    <3>1. SumFunction([v \in Users |-> cal[v].taken[k]]) = cal[u].taken[k]
      BY <1>1, <1>8, TakenIs
    <3>2. SumFunction([v \in Users |-> cal'[v].taken[k]]) = cal'[u].taken[k]
      BY <1>5, <1>8, TakenIs
    <3>3. puts[k] = calls[k] + settled[k] + cal[u].taken[k]
      BY <3>1 DEF PoolInv, EachPutCounted
    <3>4. calls[k] \in Nat /\ settled[k] \in Nat /\ cal[u].taken[k] \in Nat
      BY <1>1, TypeIs, Constants DEF PoolInv, Locals
    <3>5. calls'[k] + settled[k] + cal'[u].taken[k] = calls[k] + settled[k] + cal[u].taken[k]
      <4>1. CASE k = i
        <5>1. calls'[k] = 0 /\ cal'[u].taken[k] = calls[k] /\ cal[u].taken[k] = 0
          <6>1. k \in i .. Steps - 1
            BY <1>1, <1>4, <4>1 DEF Classes
          <6> QED
            BY <1>1, <1>3, <1>4, <1>5, <4>1, <6>1 DEF Locals
        <5> QED
          BY <3>4, <5>1
      <4>2. CASE k # i
        <5>1. calls'[k] = calls[k] /\ cal'[u].taken[k] = cal[u].taken[k]
          BY <1>1, <1>3, <1>5, <4>2 DEF Locals
        <5> QED
          BY <5>1
      <4> QED
        BY <4>1, <4>2
    <3> QED
      BY <1>3, <3>2, <3>3, <3>5
  <2> QED
    BY <2>1 DEF EachPutCounted
<1> QED
  BY <1>8, <1>9, <1>10, <1>12, <1>13 DEF PoolInv

(* The counts are sorted, and the two sizes worked out. *)
LEMMA SortStep ==
  ASSUME PoolInv, NEW u \in Users, Sort(u)
  PROVE  PoolInv'
<1>1. /\ pc \in [Users -> Places] /\ cal \in [Users -> Locals] /\ cal[u] \in Locals
  BY TypeIs DEF PoolInv
<1>2. PICK taken : taken = cal[u].taken
  OBVIOUS
<1>3. PICK order \in SetToSeqs(Classes) :
        /\ \A j, k \in DOMAIN order : j < k => taken[order[j]] >= taken[order[k]]
        /\ cal' = [cal EXCEPT ![u].default = order[1], ![u].max = Max(Kept(taken, order))]
  BY <1>2 DEF Sort
<1>4. /\ pc[u] = "sort" /\ Goto(u, "default")
      /\ calls' = calls /\ calibrating' = calibrating /\ defaultSize' = defaultSize
      /\ maxSize' = maxSize /\ where' = where /\ size' = size
      /\ puts' = puts /\ settled' = settled /\ last' = last
  BY DEF Sort, poolVars, bufVars, histVars
<1>5. taken \in [Classes -> Nat]
  BY <1>1, <1>2, Constants DEF Locals
<1>6. Right(order[1], Max(Kept(taken, order)), taken)
  BY <1>3, <1>5, SortedRight
<1>7. PICK d, m : d = order[1] /\ m = Max(Kept(taken, order))
  OBVIOUS
<1>8. Right(d, m, taken) /\ d \in Classes /\ m \in Classes
  BY <1>6, <1>7 DEF Right
<1>9. cal' = [cal EXCEPT ![u].default = d, ![u].max = m]
  BY <1>3, <1>7
<1>10. /\ cal'[u].default = d /\ cal'[u].max = m /\ cal'[u].taken = taken
       /\ cal' \in [Users -> Locals] /\ \A v \in Users \ {u} : cal'[v] = cal[v]
  BY <1>1, <1>2, <1>8, <1>9 DEF Locals
<1>11. Busy(u)
  BY <1>4 DEF Busy
<1>12. /\ pc' \in [Users -> Places] /\ pc'[u] = "default"
       /\ Alone' /\ NothingTaken' /\ PutsBounded'
       /\ \A v \in Users \ {u} :
            /\ pc[v] \notin {"swap", "sort", "default", "max", "open"}
            /\ pc'[v] \notin {"swap", "sort", "default", "max", "open"}
            /\ cal[v] = NoCal /\ cal'[v] = NoCal
  BY <1>4, <1>10, <1>11, StaysBusy
<1>13. TypeOK'
  BY <1>4, <1>10, <1>12 DEF PoolInv, TypeOK, Places, Locals
<1>14. Swapping'
  <2>1. \A v \in Users : pc'[v] # "swap"
    BY <1>12
  <2> QED
    BY <2>1 DEF Swapping
<1>15. Worked'
  <2>1. \A v \in Users \ {u} : pc'[v] \notin {"default", "max", "open"}
    BY <1>12
  <2>2. Right(cal'[u].default, cal'[u].max, cal'[u].taken)
    BY <1>8, <1>10
  <2> QED
    BY <1>12, <2>1, <2>2 DEF Worked, Right, MaxSum
<1>16. Stored'
  <2>1. \A v \in Users : pc[v] \notin {"max", "open"}
    BY <1>4, <1>12
  <2> QED
    BY <1>4, <2>1 DEF PoolInv, Stored, Right, MaxSum
<1>17. EachPutCounted'
  <2>1. ASSUME NEW k \in Classes
        PROVE  SumFunction([v \in Users |-> cal'[v].taken[k]])
                 = SumFunction([v \in Users |-> cal[v].taken[k]])
    <3>1. SumFunction([v \in Users |-> cal[v].taken[k]]) = cal[u].taken[k]
      BY <1>1, <1>12, TakenIs
    <3>2. SumFunction([v \in Users |-> cal'[v].taken[k]]) = cal'[u].taken[k]
      BY <1>10, <1>12, TakenIs
    <3> QED
      BY <1>2, <1>10, <3>1, <3>2
  <2> QED
    BY <1>4, <2>1 DEF PoolInv, EachPutCounted
<1> QED
  BY <1>12, <1>13, <1>14, <1>15, <1>16, <1>17 DEF PoolInv

(* The default size is stored, ... *)
LEMMA DefaultStep ==
  ASSUME PoolInv, NEW u \in Users, StoreDefault(u)
  PROVE  PoolInv'
<1>1. pc \in [Users -> Places] /\ cal \in [Users -> Locals] /\ cal[u] \in Locals
  BY TypeIs DEF PoolInv
<1>2. /\ pc[u] = "default" /\ Goto(u, "max")
      /\ defaultSize' = cal[u].default /\ last' = cal[u].taken
      /\ calls' = calls /\ calibrating' = calibrating
      /\ maxSize' = maxSize /\ where' = where /\ size' = size
      /\ puts' = puts /\ settled' = settled /\ cal' = cal
  BY DEF StoreDefault, bufVars
<1>3. Busy(u)
  BY <1>2 DEF Busy
<1>4. /\ pc' \in [Users -> Places] /\ pc'[u] = "max"
      /\ Alone' /\ NothingTaken' /\ PutsBounded'
      /\ \A v \in Users \ {u} :
           /\ pc[v] \notin {"swap", "sort", "default", "max", "open"}
           /\ pc'[v] \notin {"swap", "sort", "default", "max", "open"}
           /\ cal[v] = NoCal /\ cal'[v] = NoCal
  BY <1>2, <1>3, StaysBusy
<1>5. TypeOK'
  <2>1. cal[u].default \in Classes /\ cal[u].taken \in [Classes -> 0 .. MaxPuts]
    BY <1>1 DEF Locals
  <2> QED
    BY <1>2, <1>4, <2>1 DEF PoolInv, TypeOK, Places
<1>6. Swapping'
  <2>1. \A v \in Users : pc'[v] # "swap"
    BY <1>4
  <2> QED
    BY <2>1 DEF Swapping
<1>7. Worked' /\ Stored'
  <2>1. \A v \in Users \ {u} : pc'[v] \notin {"default", "max", "open"}
    BY <1>4
  <2>2. Right(cal[u].default, cal[u].max, cal[u].taken)
    BY <1>2 DEF PoolInv, Worked
  <2> QED
    BY <1>2, <1>4, <2>1, <2>2 DEF Worked, Stored, Right, MaxSum
<1>8. EachPutCounted'
  BY <1>2 DEF PoolInv, EachPutCounted
<1> QED
  BY <1>4, <1>5, <1>6, <1>7, <1>8 DEF PoolInv

(* ... then the largest, ... *)
LEMMA MaxStep ==
  ASSUME PoolInv, NEW u \in Users, StoreMax(u)
  PROVE  PoolInv'
<1>1. pc \in [Users -> Places] /\ cal \in [Users -> Locals] /\ cal[u] \in Locals
  BY TypeIs DEF PoolInv
<1>2. /\ pc[u] = "max" /\ Goto(u, "open") /\ maxSize' = cal[u].max
      /\ calls' = calls /\ calibrating' = calibrating /\ defaultSize' = defaultSize
      /\ where' = where /\ size' = size
      /\ puts' = puts /\ settled' = settled /\ last' = last /\ cal' = cal
  BY DEF StoreMax, bufVars, histVars
<1>3. Busy(u)
  BY <1>2 DEF Busy
<1>4. /\ pc' \in [Users -> Places] /\ pc'[u] = "open"
      /\ Alone' /\ NothingTaken' /\ PutsBounded'
      /\ \A v \in Users \ {u} :
           /\ pc[v] \notin {"swap", "sort", "default", "max", "open"}
           /\ pc'[v] \notin {"swap", "sort", "default", "max", "open"}
           /\ cal[v] = NoCal /\ cal'[v] = NoCal
  BY <1>2, <1>3, StaysBusy
<1>5. TypeOK'
  <2>1. cal[u].max \in Classes
    BY <1>1 DEF Locals
  <2> QED
    BY <1>2, <1>4, <2>1 DEF PoolInv, TypeOK, Places
<1>6. Swapping'
  <2>1. \A v \in Users : pc'[v] # "swap"
    BY <1>4
  <2> QED
    BY <2>1 DEF Swapping
<1>7. Worked' /\ Stored'
  <2>1. \A v \in Users \ {u} : pc'[v] \notin {"default", "max", "open"}
    BY <1>4
  <2>2. /\ Right(cal[u].default, cal[u].max, cal[u].taken)
        /\ defaultSize = cal[u].default /\ last = cal[u].taken
    BY <1>2 DEF PoolInv, Worked
  <2> QED
    BY <1>2, <1>4, <2>1, <2>2 DEF Worked, Stored, Right, MaxSum
<1>8. EachPutCounted'
  BY <1>2 DEF PoolInv, EachPutCounted
<1> QED
  BY <1>4, <1>5, <1>6, <1>7, <1>8 DEF PoolInv

(* ... and the next goroutine may calibrate. *)
LEMMA OpenStep ==
  ASSUME PoolInv, NEW u \in Users, Open(u)
  PROVE  PoolInv'
<1>1. /\ TypeOK /\ PutsBounded /\ pc \in [Users -> Places] /\ cal \in [Users -> Locals]
      /\ cal[u] \in Locals /\ calls \in [Classes -> 0 .. MaxPuts]
      /\ puts \in [Classes -> 0 .. MaxPuts] /\ settled \in [Classes -> 0 .. MaxPuts]
      /\ MaxPuts \in Nat
  BY TypeIs, Constants DEF PoolInv
<1>2. /\ pc[u] = "open" /\ Goto(u, "limit") /\ calibrating' = 0
      /\ settled' = [k \in Classes |-> settled[k] + cal[u].taken[k]]
      /\ cal' = [cal EXCEPT ![u] = NoCal]
      /\ calls' = calls /\ defaultSize' = defaultSize /\ maxSize' = maxSize
      /\ where' = where /\ size' = size /\ puts' = puts /\ last' = last
  BY DEF Open, bufVars
<1>3. Busy(u)
  BY <1>2 DEF Busy
<1>4. \A v \in Users \ {u} : ~Busy(v) /\ cal[v] = NoCal
  BY <1>3, OthersIdle
<1>5. /\ pc' \in [Users -> Places] /\ pc'[u] = "limit"
      /\ \A v \in Users \ {u} : pc'[v] = pc[v]
  BY <1>1, <1>2, GotoIs DEF Places
<1>6. \A v \in Users : ~Busy(v)'
  BY <1>4, <1>5 DEF Busy
<1>7. cal' \in [Users -> Locals] /\ \A v \in Users : cal'[v] = NoCal
  BY <1>1, <1>2, <1>4, Constants
<1>8. ASSUME NEW k \in Classes
      PROVE  /\ puts[k] = calls[k] + settled'[k]
             /\ settled'[k] \in 0 .. MaxPuts
             /\ SumFunction([v \in Users |-> cal'[v].taken[k]]) = 0
  <2>1. SumFunction([v \in Users |-> cal[v].taken[k]]) = cal[u].taken[k]
    BY <1>1, <1>4, TakenIs
  <2>2. puts[k] = calls[k] + settled[k] + cal[u].taken[k]
    BY <2>1 DEF PoolInv, EachPutCounted
  <2>3. SumFunction([v \in Users |-> cal'[v].taken[k]]) = cal'[u].taken[k]
    BY <1>7, TakenIs
  <2>4. cal'[u].taken[k] = 0
    BY <1>7, Constants
  <2>5. /\ calls[k] \in Nat /\ settled[k] \in Nat /\ cal[u].taken[k] \in Nat
        /\ puts[k] \in Nat /\ puts[k] <= MaxPuts
    BY <1>1 DEF Locals
  <2>6. settled'[k] = settled[k] + cal[u].taken[k]
    BY <1>2
  <2> QED
    BY <1>1, <2>2, <2>3, <2>4, <2>5, <2>6
<1>9. TypeOK'
  <2>1. settled' \in [Classes -> 0 .. MaxPuts]
    BY <1>2, <1>8
  <2> QED
    BY <1>2, <1>5, <1>7, <2>1 DEF PoolInv, TypeOK, Places, Locals
<1>10. Alone' /\ NothingTaken'
  BY <1>6, <1>7 DEF Alone, NothingTaken
<1>11. \A v \in Users : pc'[v] \notin {"swap", "sort", "default", "max", "open"}
  BY <1>6 DEF Busy
<1>12. Swapping' /\ Worked'
  BY <1>11 DEF Swapping, Worked
<1>13. Stored'
  <2>1. /\ Right(cal[u].default, cal[u].max, cal[u].taken)
        /\ defaultSize = cal[u].default /\ last = cal[u].taken /\ maxSize = cal[u].max
    BY <1>2 DEF PoolInv, Worked
  <2>2. Right(defaultSize, maxSize, last)
    BY <2>1
  <2> QED
    BY <1>2, <2>2 DEF Stored, Right, MaxSum
<1>14. PutsBounded'
  BY <1>1, <1>2, PutsKept DEF Places
<1>15. EachPutCounted'
  <2>1. ASSUME NEW k \in Classes
        PROVE  puts'[k] = calls'[k] + settled'[k]
                            + SumFunction([v \in Users |-> cal'[v].taken[k]])
    <3>1. /\ puts[k] = calls[k] + settled'[k] /\ settled'[k] \in 0 .. MaxPuts
          /\ SumFunction([v \in Users |-> cal'[v].taken[k]]) = 0
      BY <1>8
    <3>2. calls[k] \in Nat /\ settled'[k] \in Nat
      BY <1>1, <3>1
    <3> QED
      BY <1>2, <3>1, <3>2
  <2> QED
    BY <2>1 DEF EachPutCounted
<1> QED
  BY <1>9, <1>10, <1>12, <1>13, <1>14, <1>15 DEF PoolInv
-----------------------------------------------------------------------------
(* Every step of every goroutine keeps the invariant. *)
LEMMA PoolStep == PoolInv /\ [Next]_vars => PoolInv'
<1> SUFFICES ASSUME PoolInv, [Next]_vars PROVE PoolInv'
  OBVIOUS
<1>1. CASE Next
  BY <1>1, OwnerStep, GiveStep, CountStep, CasStep, SwapStep, SortStep, DefaultStep, MaxStep,
     OpenStep DEF Next
<1>2. CASE UNCHANGED vars
  <2>1. UNCHANGED <<poolVars, userVars, histVars>> /\ where' = where /\ size' = size
    BY <1>2 DEF vars, bufVars
  <2>2. where \in [Bufs -> {"none", "pool"} \cup Users] /\ size \in [Bufs -> 0 .. Steps]
    BY TypeIs DEF PoolInv
  <2> QED
    BY <2>1, <2>2, BufferStep
<1> QED
  BY <1>1, <1>2

(* In pool.go one goroutine calibrates at a time, holds what it has swapped *)
(* out, and stores two sizes that belong to it; the invariant that the      *)
(* other theorems follow from.                                              *)
THEOREM PoolInvariant == Spec => []PoolInv
BY PoolInit, PoolStep, PTL DEF Spec

(* TypeOK: no counter of the pool exceeds the calls of Put, and the sizes   *)
(* it makes and keeps buffers by are sizes of its classes.                  *)
THEOREM PoolTypes == Spec => []TypeOK
<1>1. PoolInv => TypeOK
  BY DEF PoolInv
<1> QED
  BY PoolInvariant, <1>1, PTL

(* EachPutCounted: however many goroutines count while one of them swaps    *)
(* the counters out one by one (pool.go lines 69-71 and 81-94), each Put is *)
(* counted in one calibration or still to be counted.                       *)
THEOREM EachPutCountedAlways == Spec => []EachPutCounted
<1>1. PoolInv => EachPutCounted
  BY DEF PoolInv
<1> QED
  BY PoolInvariant, <1>1, PTL

(* CalibratedRight: outside a calibration the default and the largest size  *)
(* come from the same counts and are what lines 85-116 of pool.go say of    *)
(* them, for every order sort.Sort leaves equal counts in and every         *)
(* percentile.                                                              *)
THEOREM CalibratedRightAlways == Spec => []CalibratedRight
<1>1. PoolInv => CalibratedRight
  <2> SUFFICES ASSUME PoolInv, calibrating = 0, defaultSize # Unset
               PROVE  Right(defaultSize, maxSize, last) /\ maxSize # Unset
    BY DEF CalibratedRight, Right
  <2>1. \A u \in Users : ~Busy(u)
    BY DEF PoolInv, Alone
  <2>2. \A u \in Users : pc[u] \notin {"max", "open"}
    BY <2>1 DEF Busy
  <2>3. Right(defaultSize, maxSize, last)
    BY <2>2 DEF PoolInv, Stored
  <2> QED
    BY <2>3, Constants DEF Right
<1> QED
  BY PoolInvariant, <1>1, PTL
=============================================================================
