----------------------------- MODULE DataLemmas -----------------------------
(***************************************************************************)
(* Facts about data that the proofs of several components need: induction  *)
(* on numbers with a set in the place of the predicate, prefixes, parts    *)
(* and the flattening of sequences.                                        *)
(***************************************************************************)
EXTENDS Integers, Sequences, SequencesExt, SequenceTheorems, WellFoundedInduction, TLAPS

(* There is no endless descent in the natural numbers, for the relation <   *)
(* as a set of pairs.                                                       *)
LEMMA LessWellFounded ==
  \E R : IsWellFoundedOn(R, Nat) /\ \A x, y \in Nat : y < x => <<y, x>> \in R
<1>1. \A x, y \in Nat : y < x => <<y, x>> \in OpToRel(<, Nat)
  BY DEF OpToRel
<1> QED
  BY <1>1, NatLessThanWellFounded

(* A set of natural numbers has a least element. *)
LEMMA LeastNumber ==
  ASSUME NEW S \in SUBSET Nat, S # {}
  PROVE  \E m \in S : \A k \in S : m <= k
<1>1. PICK R : IsWellFoundedOn(R, Nat) /\ \A x, y \in Nat : y < x => <<y, x>> \in R
  BY LessWellFounded
<1>2. PICK m \in S : \A k \in S : ~ (<<k, m>> \in R)
  BY <1>1, WFMin
<1>3. \A k \in S : ~(k < m)
  BY <1>1, <1>2
<1> QED
  BY <1>3

(* Induction on the numbers up to a bound: a set that has 0 and is closed   *)
(* under + 1 below n has n.                                                 *)
LEMMA InductionUpTo ==
  ASSUME NEW n \in Nat, NEW S, 0 \in S, \A k \in 0 .. n - 1 : k \in S => k + 1 \in S
  PROVE  \A k \in 0 .. n : k \in S
<1> DEFINE T == (0 .. n) \ S
<1> SUFFICES ASSUME T # {} PROVE FALSE
  OBVIOUS
<1>0. T \in SUBSET Nat /\ T # {}
  OBVIOUS
<1>1. PICK m \in T : \A k \in T : m <= k
  <2> HIDE DEF T
  <2> QED
    BY <1>0, LeastNumber
<1>2. m # 0 /\ m - 1 \in 0 .. n - 1 /\ m - 1 \in S
  BY <1>1
<1> QED
  BY <1>2
-----------------------------------------------------------------------------
(* Prefixes and parts of sequences *)

(* Every element of a part of a sequence, and its length. *)
LEMMA PartElements ==
  ASSUME NEW S, NEW s \in Seq(S), NEW m \in 1 .. Len(s) + 1, NEW n \in m - 1 .. Len(s)
  PROVE  /\ SubSeq(s, m, n) \in Seq(S) /\ Len(SubSeq(s, m, n)) = n - m + 1
         /\ \A i \in 1 .. n - m + 1 : SubSeq(s, m, n)[i] = s[m + i - 1]
<1>1. Len(s) \in Nat /\ \A i \in m .. n : s[i] \in S
  BY LenProperties, ElementOfSeq
<1> QED
  BY <1>1, SubSeqProperties

(* The same, as a named relation of the sequences.                          *)
HasElements(S, t, s, m, n) ==
  /\ t \in Seq(S) /\ Len(t) = n - m + 1
  /\ \A i \in 1 .. n - m + 1 : t[i] = s[m + i - 1]

LEMMA PartHasElements ==
  ASSUME NEW S, NEW s \in Seq(S), NEW m \in 1 .. Len(s) + 1, NEW n \in m - 1 .. Len(s)
  PROVE  HasElements(S, SubSeq(s, m, n), s, m, n)
BY PartElements DEF HasElements

(* A prefix agrees with the sequence on every element it has. *)
LEMMA PrefixElements ==
  ASSUME NEW S, NEW s \in Seq(S), NEW t \in Seq(S)
  PROVE  IsPrefix(s, t) <=> Len(s) <= Len(t) /\ \A i \in 1 .. Len(s) : s[i] = t[i]
<1>1. Len(s) \in Nat /\ Len(t) \in Nat
  BY LenProperties
<1> SUFFICES ASSUME Len(s) <= Len(t)
             PROVE  SubSeq(s, 1, Len(s)) = SubSeq(t, 1, Len(s))
                      <=> \A i \in 1 .. Len(s) : s[i] = t[i]
  BY <1>1 DEF IsPrefix
<1>2. SubSeq(s, 1, Len(s)) = s
  BY SubSeqFull
<1>3. /\ SubSeq(t, 1, Len(s)) \in Seq(S) /\ Len(SubSeq(t, 1, Len(s))) = Len(s)
      /\ \A i \in 1 .. Len(s) : SubSeq(t, 1, Len(s))[i] = t[i]
  BY <1>1, PartElements
<1> QED
  BY <1>1, <1>2, <1>3, SeqEqual

(* What is put behind a sequence leaves its prefixes prefixes. *)
LEMMA PrefixOfConcat ==
  ASSUME NEW S, NEW s \in Seq(S), NEW t \in Seq(S), NEW u \in Seq(S), IsPrefix(s, t)
  PROVE  IsPrefix(s, t \o u)
<1>1. Len(s) \in Nat /\ Len(t) \in Nat /\ Len(u) \in Nat
  BY LenProperties
<1>2. /\ t \o u \in Seq(S) /\ Len(t \o u) = Len(t) + Len(u)
      /\ \A i \in 1 .. Len(t) : (t \o u)[i] = t[i]
  BY <1>1, ConcatProperties
<1>3. Len(s) <= Len(t) /\ \A i \in 1 .. Len(s) : s[i] = t[i]
  BY PrefixElements
<1>4. Len(s) <= Len(t \o u) /\ \A i \in 1 .. Len(s) : s[i] = (t \o u)[i]
  BY <1>1, <1>2, <1>3
<1> QED
  BY <1>2, <1>4, PrefixElements

(* The first part of a concatenation is a prefix of it. *)
LEMMA PrefixFirst ==
  ASSUME NEW S, NEW s \in Seq(S), NEW u \in Seq(S)
  PROVE  IsPrefix(s, s) /\ IsPrefix(s, s \o u)
<1>1. IsPrefix(s, s)
  BY LenProperties DEF IsPrefix
<1> QED
  BY <1>1, PrefixOfConcat

(* The library's ConcatAssociative, with the sequences quantified. *)
LEMMA ConcatThree ==
  ASSUME NEW S
  PROVE  \A s, t, u \in Seq(S) : (s \o t) \o u = s \o (t \o u)
<1> TAKE s, t, u \in Seq(S)
<1> QED
  BY ConcatAssociative

(* The same as a named relation of the three sequences, which keeps the     *)
(* concatenations out of sight of the provers where it is cited.            *)
Associates(s, t, u) == (s \o t) \o u = s \o (t \o u)

LEMMA ConcatAssociates ==
  ASSUME NEW S
  PROVE  \A s, t, u \in Seq(S) : Associates(s, t, u)
<1> TAKE s, t, u \in Seq(S)
<1> QED
  BY ConcatAssociative DEF Associates

(* An element more behind a concatenation is one more behind its last part. *)
LEMMA ConcatAppend ==
  ASSUME NEW S, NEW s \in Seq(S), NEW q \in Seq(S), NEW e \in S
  PROVE  s \o Append(q, e) = Append(s \o q, e)
<1>a. <<e>> \in Seq(S)
  OBVIOUS
<1>1. PICK l \in Seq(S) : l = <<e>>
  BY <1>a
<1>2. PICK h \in Seq(S) : h = s \o q
  BY ConcatProperties
<1>3. Append(q, e) = q \o l
  BY <1>1, AppendIsConcat
<1>4. Append(h, e) = h \o l
  BY <1>1, AppendIsConcat
<1>5. (s \o q) \o l = s \o (q \o l)
  BY ConcatAssociative
<1> QED
  BY <1>2, <1>3, <1>4, <1>5

(* A sequence is what it is cut into. *)
LEMMA CutInTwo ==
  ASSUME NEW S, NEW s \in Seq(S), NEW n \in 0 .. Len(s)
  PROVE  /\ SubSeq(s, 1, n) \in Seq(S) /\ Len(SubSeq(s, 1, n)) = n
         /\ SubSeq(s, n + 1, Len(s)) \in Seq(S)
         /\ Len(SubSeq(s, n + 1, Len(s))) = Len(s) - n
         /\ SubSeq(s, 1, n) \o SubSeq(s, n + 1, Len(s)) = s
<1>1. Len(s) \in Nat
  BY LenProperties
<1>2. /\ SubSeq(s, 1, n) \in Seq(S) /\ Len(SubSeq(s, 1, n)) = n
      /\ SubSeq(s, n + 1, Len(s)) \in Seq(S)
      /\ Len(SubSeq(s, n + 1, Len(s))) = Len(s) - n
  BY <1>1, PartElements
<1>3. SubSeq(s, 1, n) \o SubSeq(s, n + 1, Len(s)) = SubSeq(s, 1, Len(s))
  <2>1. 1 \in 1 .. Len(s) + 1 /\ n \in 1 - 1 .. Len(s) /\ Len(s) \in n .. Len(s)
    BY <1>1
  <2> QED
    BY <2>1, ConcatAdjacentSubSeq
<1> QED
  BY <1>2, <1>3, SubSeqFull
-----------------------------------------------------------------------------
(* Flattening *)

(* f[i] is the concatenation of the first i of the sequences s. *)
Flattens(s, f) ==
  f = [i \in 1 .. Len(s) |-> IF i = 1 THEN s[i] ELSE f[i - 1] \o s[i]]

(* The function that FlattenSeq defines recursively exists, ... *)
LEMMA FlattensExists ==
  ASSUME NEW S, NEW s \in Seq(Seq(S))
  PROVE  \E f \in [1 .. Len(s) -> Seq(S)] : Flattens(s, f)
<1>0. Len(s) \in Nat /\ \A i \in 1 .. Len(s) : s[i] \in Seq(S)
  BY LenProperties, ElementOfSeq
<1> DEFINE Upto(n, f) ==
             \A i \in 1 .. n : f[i] = IF i = 1 THEN s[i] ELSE f[i - 1] \o s[i]
           G == {n \in 0 .. Len(s) : \E f \in [1 .. n -> Seq(S)] : Upto(n, f)}
<1>1. 0 \in G
  <2>1. PICK f \in [1 .. 0 -> Seq(S)] : TRUE
    <3>1. [i \in 1 .. 0 |-> <<>>] \in [1 .. 0 -> Seq(S)]
      OBVIOUS
    <3> QED
      BY <3>1
  <2>2. Upto(0, f) /\ 0 \in 0 .. Len(s)
    BY <1>0
  <2> HIDE DEF Upto
  <2> QED
    BY <2>2
<1>2. ASSUME NEW n \in 0 .. Len(s) - 1, n \in G PROVE n + 1 \in G
  <2>1. PICK f \in [1 .. n -> Seq(S)] : Upto(n, f)
    BY <1>2
  <2> DEFINE last == IF n = 0 THEN s[1] ELSE f[n] \o s[n + 1]
             g == [i \in 1 .. n + 1 |-> IF i <= n THEN f[i] ELSE last]
  <2>2. last \in Seq(S)
    BY <1>0, <2>1, ConcatProperties
  <2>3. g \in [1 .. n + 1 -> Seq(S)] /\ \A i \in 1 .. n : g[i] = f[i]
    <3> HIDE DEF last
    <3> QED
      BY <1>0, <2>1, <2>2
  <2>4. g[n + 1] = last
    BY <1>0
  <2>5. \A i \in 1 .. n + 1 : i <= n \/ i = n + 1
    BY <1>0
  <2>6. ASSUME NEW i \in 1 .. n + 1
        PROVE  g[i] = IF i = 1 THEN s[i] ELSE g[i - 1] \o s[i]
    <3>1. CASE i <= n
      <4>0. i \in 1 .. n
        BY <1>0, <3>1
      <4>1. f[i] = IF i = 1 THEN s[i] ELSE f[i - 1] \o s[i]
        BY <2>1, <4>0
      <4>2. g[i] = f[i] /\ (i # 1 => g[i - 1] = f[i - 1])
        BY <2>3, <3>1
      <4> HIDE DEF g
      <4> QED
        BY <4>1, <4>2
    <3>2. CASE i = n + 1
      <4>1. n # 0 => g[n] = f[n]
        BY <2>3
      <4>2. i = 1 <=> n = 0
        BY <1>0, <3>2
      <4> HIDE DEF g
      <4> QED
        BY <2>4, <3>2, <4>1, <4>2
    <3> QED
      BY <2>5, <3>1, <3>2
  <2>7. n + 1 \in 0 .. Len(s)
    BY <1>0
  <2> HIDE DEF g, last
  <2> QED
    BY <2>3, <2>6, <2>7
<1>3. \A n \in 0 .. Len(s) : n \in G
  <2> HIDE DEF G
  <2> QED
    BY <1>0, <1>1, <1>2, InductionUpTo
<1>4. PICK f \in [1 .. Len(s) -> Seq(S)] : Upto(Len(s), f)
  <2>1. Len(s) \in G
    <3> HIDE DEF G
    <3> QED
      BY <1>0, <1>3
  <2> QED
    BY <2>1
<1>5. f = [i \in 1 .. Len(s) |-> IF i = 1 THEN s[i] ELSE f[i - 1] \o s[i]]
  BY <1>4
<1> QED
  BY <1>5 DEF Flattens

(* ... is the only one, ... *)
LEMMA FlattensUnique ==
  ASSUME NEW S, NEW s \in Seq(Seq(S)), NEW f, NEW g, Flattens(s, f), Flattens(s, g)
  PROVE  f = g
<1>0. Len(s) \in Nat
  BY LenProperties
<1> DEFINE G == {n \in 0 .. Len(s) : n = 0 \/ f[n] = g[n]}
<1>1. /\ f = [i \in 1 .. Len(s) |-> IF i = 1 THEN s[i] ELSE f[i - 1] \o s[i]]
      /\ g = [i \in 1 .. Len(s) |-> IF i = 1 THEN s[i] ELSE g[i - 1] \o s[i]]
  BY DEF Flattens
<1>2. 0 \in G
  BY <1>0
<1>3. ASSUME NEW n \in 0 .. Len(s) - 1, n \in G PROVE n + 1 \in G
  <2>1. n + 1 \in 1 .. Len(s) /\ (n + 1 = 1 <=> n = 0) /\ (n + 1) - 1 = n
    BY <1>0
  <2>2. /\ f[n + 1] = IF n = 0 THEN s[n + 1] ELSE f[n] \o s[n + 1]
        /\ g[n + 1] = IF n = 0 THEN s[n + 1] ELSE g[n] \o s[n + 1]
    BY <1>1, <2>1
  <2> QED
    BY <1>3, <2>1, <2>2
<1>4. \A n \in 0 .. Len(s) : n \in G
  <2> HIDE DEF G
  <2> QED
    BY <1>0, <1>2, <1>3, InductionUpTo
<1>5. \A n \in 1 .. Len(s) : f[n] = g[n]
  BY <1>0, <1>4
<1>6. DOMAIN f = 1 .. Len(s) /\ DOMAIN g = 1 .. Len(s)
  BY <1>1
<1>7. f = [i \in 1 .. Len(s) |-> f[i]] /\ g = [i \in 1 .. Len(s) |-> g[i]]
  BY <1>1, <1>6
<1> QED
  BY <1>5, <1>7

(* ... and its last value is the flattened sequence. *)
LEMMA FlattenIs ==
  ASSUME NEW S, NEW s \in Seq(Seq(S))
  PROVE  /\ Len(s) = 0 => FlattenSeq(s) = <<>>
         /\ \A f : Flattens(s, f) /\ Len(s) # 0 => FlattenSeq(s) = f[Len(s)]
<1>1. CASE Len(s) = 0
  <2>1. s = <<>>
    BY <1>1, EmptySeq
  <2>2. FlattenSeq(s) = s
    BY <1>1 DEF FlattenSeq
  <2> QED
    BY <1>1, <2>1, <2>2
<1>2. ASSUME Len(s) # 0, NEW f, Flattens(s, f) PROVE FlattenSeq(s) = f[Len(s)]
  <2> DEFINE h == CHOOSE g : g = [i \in 1 .. Len(s) |->
                                    IF i = 1 THEN s[i] ELSE g[i - 1] \o s[i]]
  <2>1. FlattenSeq(s) = h[Len(s)]
    BY <1>2 DEF FlattenSeq
  <2>2. h = [i \in 1 .. Len(s) |-> IF i = 1 THEN s[i] ELSE h[i - 1] \o s[i]]
    BY <1>2 DEF Flattens
  <2> HIDE DEF h
  <2>3. Flattens(s, h)
    BY <2>2 DEF Flattens
  <2> QED
    BY <1>2, <2>1, <2>3, FlattensUnique
<1> QED
  BY <1>1, <1>2

(* Flattening one sequence more appends it. *)
LEMMA FlattenAppend ==
  ASSUME NEW S, NEW s \in Seq(Seq(S)), NEW e \in Seq(S)
  PROVE  /\ FlattenSeq(s) \in Seq(S)
         /\ FlattenSeq(Append(s, e)) = FlattenSeq(s) \o e
<1>0. Len(s) \in Nat /\ \A i \in 1 .. Len(s) : s[i] \in Seq(S)
  BY LenProperties, ElementOfSeq
<1> DEFINE t == Append(s, e)
<1>1. /\ t \in Seq(Seq(S)) /\ Len(t) = Len(s) + 1 /\ t[Len(s) + 1] = e
      /\ \A i \in 1 .. Len(s) : t[i] = s[i]
  BY AppendProperties
<1> HIDE DEF t
<1>2. PICK f \in [1 .. Len(t) -> Seq(S)] : Flattens(t, f)
  BY <1>1, FlattensExists
<1>3. \A i \in 1 .. Len(t) : f[i] = IF i = 1 THEN t[i] ELSE f[i - 1] \o t[i]
  BY <1>2 DEF Flattens
<1>4. FlattenSeq(t) = f[Len(s) + 1]
  BY <1>0, <1>1, <1>2, FlattenIs
<1>5. CASE Len(s) = 0
  <2>1. FlattenSeq(s) = <<>> /\ <<>> \in Seq(S)
    BY <1>5, FlattenIs, EmptySeq
  <2>2. f[1] = e
    BY <1>1, <1>3, <1>5
  <2> QED
    BY <1>4, <1>5, <2>1, <2>2, ConcatEmptySeq DEF t
<1>6. CASE Len(s) # 0
  <2> DEFINE g == [i \in 1 .. Len(s) |-> f[i]]
  <2>1. \A i \in 1 .. Len(s) : g[i] = IF i = 1 THEN s[i] ELSE g[i - 1] \o s[i]
    <3> TAKE i \in 1 .. Len(s)
    <3>1. i \in 1 .. Len(t) /\ t[i] = s[i] /\ (i # 1 => i - 1 \in 1 .. Len(s))
      BY <1>0, <1>1
    <3> QED
      BY <1>3, <3>1
  <2>2. Flattens(s, g)
    <3>1. g = [i \in 1 .. Len(s) |-> g[i]]
      OBVIOUS
    <3> HIDE DEF g
    <3> QED
      BY <2>1, <3>1 DEF Flattens
  <2>3. FlattenSeq(s) = g[Len(s)]
    BY <1>6, <2>2, FlattenIs
  <2>4. Len(s) \in 1 .. Len(s) /\ Len(s) + 1 # 1 /\ Len(s) \in 1 .. Len(t) /\ Len(s) + 1 \in 1 .. Len(t)
    BY <1>0, <1>1, <1>6
  <2>5. FlattenSeq(s) = f[Len(s)] /\ f[Len(s)] \in Seq(S)
    BY <1>2, <2>3, <2>4
  <2>6. f[Len(s) + 1] = f[Len(s)] \o e
    <3>1. (Len(s) + 1) - 1 = Len(s)
      BY <1>0
    <3> QED
      BY <1>1, <1>3, <2>4, <3>1
  <2> QED
    BY <1>4, <2>5, <2>6 DEF t
<1> QED
  BY <1>5, <1>6

(* Flattening one sequence gives it back. *)
LEMMA FlattenOne ==
  ASSUME NEW S, NEW x \in Seq(S), NEW one \in Seq(Seq(S)), Len(one) = 1, one[1] = x
  PROVE  FlattenSeq(one) = x
<1>1. PICK f \in [1 .. Len(one) -> Seq(S)] : Flattens(one, f)
  BY FlattensExists
<1>2. f[1] = one[1]
  BY <1>1 DEF Flattens
<1> QED
  BY <1>1, <1>2, FlattenIs

(* Flattening distributes over concatenation. *)
LEMMA FlattenConcat ==
  ASSUME NEW S, NEW s \in Seq(Seq(S)), NEW t \in Seq(Seq(S))
  PROVE  FlattenSeq(s \o t) = FlattenSeq(s) \o FlattenSeq(t)
<1>0. Len(t) \in Nat
  BY LenProperties
<1> DEFINE p(k) == SubSeq(t, 1, k)
           G == {k \in 0 .. Len(t) :
                   FlattenSeq(s \o p(k)) = FlattenSeq(s) \o FlattenSeq(p(k))}
<1>1. 0 \in G
  <2>1. p(0) = <<>> /\ <<>> \in Seq(Seq(S)) /\ Len(<<>>) = 0
    BY SubSeqEmpty, EmptySeq
  <2>2. FlattenSeq(<<>>) = <<>>
    BY <2>1, FlattenIs
  <2>3. FlattenSeq(s) \in Seq(S)
    BY FlattenAppend, EmptySeq
  <2>4. s \o <<>> = s /\ FlattenSeq(s) \o <<>> = FlattenSeq(s)
    BY <2>3, ConcatEmptySeq
  <2>5. FlattenSeq(s \o p(0)) = FlattenSeq(s) \o FlattenSeq(p(0))
    BY <2>1, <2>2, <2>4
  <2> QED
    BY <1>0, <2>5
<1>2. ASSUME NEW k \in 0 .. Len(t) - 1, k \in G PROVE k + 1 \in G
  <2>0. k \in 0 .. Len(t) /\ k + 1 \in 1 .. Len(t) /\ (k + 1) - 1 = k
    BY <1>0
  <2>1. p(k) \in Seq(Seq(S)) /\ t[k + 1] \in Seq(S)
    BY <2>0, CutInTwo, ElementOfSeq
  <2>2. p(k + 1) = Append(p(k), t[k + 1])
    <3>1. 1 \in 1 .. Len(t) /\ k + 1 \in 1 .. Len(t)
      BY <1>0, <2>0
    <3>2. p(k + 1) = p(k) \o <<t[k + 1]>>
      BY <2>0, <3>1, SubSeqRecursiveSecond
    <3> QED
      BY <2>1, <3>2, AppendIsConcat
  <2> HIDE DEF p
  <2>3. s \o Append(p(k), t[k + 1]) = Append(s \o p(k), t[k + 1])
    <3>1. PICK q \in Seq(Seq(S)), e \in Seq(S) : q = p(k) /\ e = t[k + 1]
      BY <2>1
    <3>2. s \o Append(q, e) = Append(s \o q, e)
      BY ConcatAppend
    <3> QED
      BY <3>1, <3>2
  <2>4. /\ FlattenSeq(Append(s \o p(k), t[k + 1])) = FlattenSeq(s \o p(k)) \o t[k + 1]
        /\ FlattenSeq(Append(p(k), t[k + 1])) = FlattenSeq(p(k)) \o t[k + 1]
        /\ FlattenSeq(s) \in Seq(S) /\ FlattenSeq(p(k)) \in Seq(S)
    <3>1. s \o p(k) \in Seq(Seq(S))
      BY <2>1, ConcatProperties
    <3> QED
      BY <2>1, <3>1, FlattenAppend
  <2>5. FlattenSeq(s \o p(k)) = FlattenSeq(s) \o FlattenSeq(p(k))
    BY <1>2
  <2>6. FlattenSeq(s \o p(k + 1)) = FlattenSeq(s) \o FlattenSeq(p(k + 1))
    <3>1. (FlattenSeq(s) \o FlattenSeq(p(k))) \o t[k + 1] =
            FlattenSeq(s) \o (FlattenSeq(p(k)) \o t[k + 1])
      <4>1. PICK a, b, c \in Seq(S) :
               a = FlattenSeq(s) /\ b = FlattenSeq(p(k)) /\ c = t[k + 1]
        BY <2>1, <2>4
      <4>2. (a \o b) \o c = a \o (b \o c)
        <5>1. a \in Seq(S) /\ b \in Seq(S) /\ c \in Seq(S)
          BY <4>1
        <5> QED
          BY <5>1, ConcatThree, SMTT(60)
      <4> QED
        BY <4>1, <4>2
    <3> QED
      BY <2>2, <2>3, <2>4, <2>5, <3>1
  <2> QED
    BY <2>0, <2>6
<1>3. \A k \in 0 .. Len(t) : k \in G
  <2> HIDE DEF G
  <2> QED
    BY <1>0, <1>1, <1>2, InductionUpTo
<1>4. Len(t) \in G
  BY <1>0, <1>3
<1> QED
  BY <1>4, SubSeqFull

(* Division rounds down. *)
LEMMA DivBounds ==
  ASSUME NEW n \in Nat, NEW L \in Nat \ {0}
  PROVE  n \div L \in Nat /\ (n \div L) * L <= n /\ n < (n \div L) * L + L
  OBVIOUS

(* Multiples grow with their number, and one more adds the length. *)
LEMMA TimesMonotonic ==
  ASSUME NEW k \in Nat, NEW q \in Nat, k <= q, NEW L \in Nat
  PROVE  k * L \in Nat /\ k * L <= q * L /\ (k + 1) * L = k * L + L
<1>1. PICK d \in Nat : q = k + d
  BY k <= q
<1>2. (k + d) * L = k * L + d * L /\ d * L \in Nat /\ k * L \in Nat
  OBVIOUS
<1>3. (k + 1) * L = k * L + L
  OBVIOUS
<1> QED
  BY <1>1, <1>2, <1>3

(* The first q frames of length L of a buffer. *)
Frames(b, L, q) == [k \in 1 .. q |-> SubSeq(b, (k - 1) * L + 1, k * L)]

(* They are whole frames, and one after the other they are that much of the *)
(* buffer.                                                                  *)
LEMMA FramesFlatten ==
  ASSUME NEW S, NEW b \in Seq(S), NEW L \in Nat \ {0}, NEW q \in Nat, q * L <= Len(b)
  PROVE  /\ Frames(b, L, q) \in Seq(Seq(S)) /\ Len(Frames(b, L, q)) = q
         /\ \A k \in 1 .. q : Len(Frames(b, L, q)[k]) = L
         /\ FlattenSeq(Frames(b, L, q)) = SubSeq(b, 1, q * L)
<1>0. Len(b) \in Nat /\ q * L \in Nat
  BY LenProperties, TimesMonotonic
<1> DEFINE frame(k) == SubSeq(b, (k - 1) * L + 1, k * L)
<1>1. ASSUME NEW k \in 1 .. q
      PROVE  frame(k) \in Seq(S) /\ Len(frame(k)) = L
  <2>1. (k - 1) * L \in Nat /\ k * L = (k - 1) * L + L /\ k * L <= q * L
    <3>1. k - 1 \in Nat /\ (k - 1) + 1 = k /\ k \in Nat /\ k - 1 <= q /\ k <= q
      OBVIOUS
    <3>2. (k - 1) * L \in Nat /\ ((k - 1) + 1) * L = (k - 1) * L + L
      BY <3>1, TimesMonotonic
    <3>3. k * L <= q * L
      BY <3>1, TimesMonotonic
    <3> QED
      BY <3>1, <3>2, <3>3
  <2> PICK m \in Nat, n \in Nat : m = (k - 1) * L /\ n = k * L /\ n = m + L /\ n <= Len(b)
    BY <1>0, <2>1
  <2>2. m + 1 \in 1 .. Len(b) + 1 /\ n \in (m + 1) - 1 .. Len(b) /\ n - (m + 1) + 1 = L
    BY <1>0
  <2>3. SubSeq(b, m + 1, n) \in Seq(S) /\ Len(SubSeq(b, m + 1, n)) = L
    BY <2>2, PartElements
  <2> QED
    BY <2>3
<1> HIDE DEF frame
<1> DEFINE F(j) == [k \in 1 .. j |-> frame(k)]
<1>2. \A j \in 0 .. q : F(j) \in Seq(Seq(S)) /\ Len(F(j)) = j
  <2> TAKE j \in 0 .. q
  <2>1. F(j) \in [1 .. j -> Seq(S)] /\ j \in Nat
    BY <1>1
  <2> QED
    BY <2>1, SeqDef
<1>3. Frames(b, L, q) = F(q)
  BY DEF Frames, frame
<1> DEFINE G == {j \in 0 .. q : FlattenSeq(F(j)) = SubSeq(b, 1, j * L)}
<1>4. 0 \in G
  <2>1. Len(F(0)) = 0 /\ F(0) \in Seq(Seq(S)) /\ 0 * L = 0
    BY <1>2
  <2>2. FlattenSeq(F(0)) = <<>>
    BY <2>1, FlattenIs
  <2>3. SubSeq(b, 1, 0) = <<>>
    BY SubSeqEmpty
  <2>4. 0 \in 0 .. q /\ FlattenSeq(F(0)) = SubSeq(b, 1, 0 * L)
    <3> HIDE DEF F
    <3> QED
      BY <2>1, <2>2, <2>3
  <2> QED
    BY <2>4
<1>5. ASSUME NEW j \in 0 .. q - 1, j \in G PROVE j + 1 \in G
  <2>0. j \in 0 .. q /\ j + 1 \in 1 .. q /\ j + 1 \in 0 .. q /\ j \in Nat /\ (j + 1) - 1 = j
    OBVIOUS
  <2>1. /\ F(j) \in Seq(Seq(S)) /\ Len(F(j)) = j /\ frame(j + 1) \in Seq(S)
        /\ F(j + 1) \in Seq(Seq(S)) /\ Len(F(j + 1)) = j + 1
    BY <1>1, <1>2, <2>0
  <2>2. F(j + 1) = Append(F(j), frame(j + 1))
    <3>1. /\ Append(F(j), frame(j + 1)) \in Seq(Seq(S))
          /\ Len(Append(F(j), frame(j + 1))) = j + 1
          /\ \A i \in 1 .. j : Append(F(j), frame(j + 1))[i] = F(j)[i]
          /\ Append(F(j), frame(j + 1))[j + 1] = frame(j + 1)
      BY <2>1, AppendProperties
    <3>2. /\ \A i \in 1 .. j : F(j)[i] = frame(i)
          /\ \A i \in 1 .. j + 1 : F(j + 1)[i] = frame(i)
      OBVIOUS
    <3>3. \A i \in 1 .. j + 1 : i \in 1 .. j \/ i = j + 1
      BY <2>0
    <3> HIDE DEF F
    <3>4. \A i \in 1 .. j + 1 : Append(F(j), frame(j + 1))[i] = F(j + 1)[i]
      BY <3>1, <3>2, <3>3
    <3> QED
      BY <2>1, <3>1, <3>4, SeqEqual
  <2> HIDE DEF F
  <2>3. FlattenSeq(F(j + 1)) = SubSeq(b, 1, j * L) \o frame(j + 1)
    BY <1>5, <2>1, <2>2, FlattenAppend
  <2>4. PICK m \in Nat, n \in Nat : m = j * L /\ n = (j + 1) * L /\ n = m + L /\ n <= Len(b)
    <3>1. j * L \in Nat /\ (j + 1) * L = j * L + L
      BY <2>0, TimesMonotonic
    <3>2. (j + 1) * L <= q * L
      BY <2>0, TimesMonotonic
    <3> QED
      BY <1>0, <3>1, <3>2
  <2>5. frame(j + 1) = SubSeq(b, m + 1, n)
    BY <2>0, <2>4 DEF frame
  <2>6. SubSeq(b, 1, m) \o SubSeq(b, m + 1, n) = SubSeq(b, 1, n)
    <3>1. 1 \in 1 .. Len(b) + 1 /\ m \in 1 - 1 .. Len(b) /\ n \in m .. Len(b)
      BY <1>0, <2>4
    <3> QED
      BY <3>1, ConcatAdjacentSubSeq
  <2> QED
    BY <2>0, <2>3, <2>4, <2>5, <2>6
<1>6. \A j \in 0 .. q : j \in G
  <2> HIDE DEF G
  <2> QED
    BY <1>4, <1>5, InductionUpTo
<1>7. FlattenSeq(F(q)) = SubSeq(b, 1, q * L)
  <2>1. q \in G
    <3> HIDE DEF G
    <3> QED
      BY <1>6
  <2> QED
    BY <2>1
<1>8. \A k \in 1 .. q : Len(F(q)[k]) = L
  BY <1>1
<1>9. F(q) \in Seq(Seq(S)) /\ Len(F(q)) = q
  BY <1>2
<1> HIDE DEF F
<1> QED
  BY <1>3, <1>7, <1>8, <1>9
-----------------------------------------------------------------------------
(* Parts of concatenations *)

(* The two parts of a concatenation. *)
LEMMA ConcatParts ==
  ASSUME NEW S, NEW s \in Seq(S), NEW t \in Seq(S)
  PROVE  /\ s \o t \in Seq(S) /\ Len(s \o t) = Len(s) + Len(t)
         /\ SubSeq(s \o t, 1, Len(s)) = s
         /\ SubSeq(s \o t, Len(s) + 1, Len(s) + Len(t)) = t
<1>0. Len(s) \in Nat /\ Len(t) \in Nat
  BY LenProperties
<1>1. /\ s \o t \in Seq(S) /\ Len(s \o t) = Len(s) + Len(t)
      /\ \A i \in 1 .. Len(s) + Len(t) :
           (s \o t)[i] = IF i <= Len(s) THEN s[i] ELSE t[i - Len(s)]
  BY ConcatProperties
<1>2. PICK u \in Seq(S) : u = s \o t
  BY <1>1
<1>3. SubSeq(u, 1, Len(s)) = s
  <2>1. 1 \in 1 .. Len(u) + 1 /\ Len(s) \in 1 - 1 .. Len(u)
    BY <1>0, <1>1, <1>2
  <2>2. /\ SubSeq(u, 1, Len(s)) \in Seq(S) /\ Len(SubSeq(u, 1, Len(s))) = Len(s) - 1 + 1
        /\ \A i \in 1 .. Len(s) - 1 + 1 : SubSeq(u, 1, Len(s))[i] = u[1 + i - 1]
    BY <2>1, PartElements
  <2>3. Len(s) - 1 + 1 = Len(s)
    BY <1>0
  <2>4. ASSUME NEW i \in 1 .. Len(s) PROVE SubSeq(u, 1, Len(s))[i] = s[i]
    <3>1. 1 + i - 1 = i /\ i \in 1 .. Len(s) + Len(t) /\ i <= Len(s)
      BY <1>0
    <3> QED
      BY <1>1, <1>2, <2>2, <2>3, <3>1
  <2> QED
    BY <2>2, <2>3, <2>4, SeqEqual
<1>4. SubSeq(u, Len(s) + 1, Len(s) + Len(t)) = t
  <2>1. /\ Len(s) + 1 \in 1 .. Len(u) + 1 /\ Len(s) + Len(t) \in (Len(s) + 1) - 1 .. Len(u)
        /\ (Len(s) + Len(t)) - (Len(s) + 1) + 1 = Len(t)
    BY <1>0, <1>1, <1>2
  <2>2. PICK v : v = SubSeq(u, Len(s) + 1, Len(s) + Len(t))
    OBVIOUS
  <2>3. /\ v \in Seq(S) /\ Len(v) = Len(t)
        /\ \A i \in 1 .. Len(t) : v[i] = u[(Len(s) + 1) + i - 1]
    BY <2>1, <2>2, PartElements
  <2>4. ASSUME NEW i \in 1 .. Len(t) PROVE v[i] = t[i]
    <3>1. /\ (Len(s) + 1) + i - 1 = Len(s) + i /\ Len(s) + i \in 1 .. Len(s) + Len(t)
          /\ ~(Len(s) + i <= Len(s)) /\ Len(s) + i - Len(s) = i
      BY <1>0
    <3> QED
      BY <1>1, <1>2, <2>3, <3>1
  <2> QED
    BY <2>2, <2>3, <2>4, SeqEqual
<1> QED
  BY <1>1, <1>2, <1>3, <1>4

LEMMA ConcatFirst ==
  ASSUME NEW S, NEW s \in Seq(S), NEW t \in Seq(S), NEW i \in 1 .. Len(s)
  PROVE  (s \o t)[i] = s[i]
<1>1. i \in 1 .. Len(s) + Len(t) /\ i <= Len(s)
  BY LenProperties
<1> QED
  BY <1>1, ConcatProperties

(* The parts of what stands between two sequences. *)
Middle(a, m, b, t) ==
  /\ Len(t) = Len(a) + Len(m) + Len(b)
  /\ \A i \in 1 .. Len(m) : t[Len(a) + i] = m[i]
  /\ \A i \in 1 .. Len(m) + 1 : \A j \in i - 1 .. Len(m) :
       SubSeq(t, Len(a) + i, Len(a) + j) = SubSeq(m, i, j)

LEMMA MiddlePart ==
  ASSUME NEW S, NEW a \in Seq(S), NEW m \in Seq(S), NEW b \in Seq(S),
         NEW t, t = (a \o m) \o b
  PROVE  t \in Seq(S) /\ Middle(a, m, b, t)
<1>0. Len(a) \in Nat /\ Len(m) \in Nat /\ Len(b) \in Nat
  BY LenProperties
<1>1. /\ a \o m \in Seq(S) /\ Len(a \o m) = Len(a) + Len(m)
      /\ \A i \in 1 .. Len(a) + Len(m) :
           (a \o m)[i] = IF i <= Len(a) THEN a[i] ELSE m[i - Len(a)]
  BY ConcatProperties
<1>2. PICK h \in Seq(S) : h = a \o m
  BY <1>1
<1>3. /\ h \o b \in Seq(S) /\ Len(h \o b) = Len(h) + Len(b)
      /\ \A i \in 1 .. Len(h) + Len(b) :
           (h \o b)[i] = IF i <= Len(h) THEN h[i] ELSE b[i - Len(h)]
  BY ConcatProperties
<1>4. /\ t \in Seq(S) /\ Len(t) = Len(a) + Len(m) + Len(b)
      /\ \A i \in 1 .. Len(m) : t[Len(a) + i] = m[i]
  <2>1. t \in Seq(S) /\ Len(t) = Len(a) + Len(m) + Len(b)
    BY <1>1, <1>2, <1>3
  <2>2. ASSUME NEW i \in 1 .. Len(m) PROVE t[Len(a) + i] = m[i]
    <3>1. /\ Len(a) + i \in 1 .. Len(h) + Len(b) /\ Len(a) + i <= Len(h)
          /\ Len(a) + i \in 1 .. Len(a) + Len(m) /\ ~(Len(a) + i <= Len(a))
          /\ Len(a) + i - Len(a) = i
      BY <1>0, <1>1, <1>2
    <3>2. t[Len(a) + i] = h[Len(a) + i]
      BY <1>2, <1>3, <3>1
    <3>3. h[Len(a) + i] = m[i]
      BY <1>1, <1>2, <3>1
    <3> QED
      BY <3>2, <3>3
  <2> QED
    BY <2>1, <2>2
<1>5. ASSUME NEW i \in 1 .. Len(m) + 1, NEW j \in i - 1 .. Len(m)
      PROVE  SubSeq(t, Len(a) + i, Len(a) + j) = SubSeq(m, i, j)
  <2>1. /\ Len(a) + i \in 1 .. Len(t) + 1 /\ Len(a) + j \in (Len(a) + i) - 1 .. Len(t)
        /\ (Len(a) + j) - (Len(a) + i) + 1 = j - i + 1 /\ j - i + 1 \in Nat
    BY <1>0, <1>4
  <2>2. /\ SubSeq(t, Len(a) + i, Len(a) + j) \in Seq(S)
        /\ Len(SubSeq(t, Len(a) + i, Len(a) + j)) = j - i + 1
        /\ \A k \in 1 .. j - i + 1 :
             SubSeq(t, Len(a) + i, Len(a) + j)[k] = t[(Len(a) + i) + k - 1]
    <3>1. PICK p, q : p = Len(a) + i /\ q = Len(a) + j
      OBVIOUS
    <3>2. t \in Seq(S) /\ p \in 1 .. Len(t) + 1 /\ q \in p - 1 .. Len(t)
      BY ONLY <1>4, <2>1, <3>1
    <3>3. HasElements(S, SubSeq(t, p, q), t, p, q)
      BY ONLY <3>2, PartHasElements
    <3>4. q - p + 1 = j - i + 1
      BY ONLY <2>1, <3>1
    <3>5. /\ SubSeq(t, p, q) \in Seq(S) /\ Len(SubSeq(t, p, q)) = j - i + 1
          /\ \A k \in 1 .. j - i + 1 : SubSeq(t, p, q)[k] = t[p + k - 1]
      BY ONLY <3>3, <3>4 DEF HasElements
    <3> QED
      BY ONLY <3>1, <3>5
  <2>3. /\ SubSeq(m, i, j) \in Seq(S) /\ Len(SubSeq(m, i, j)) = j - i + 1
        /\ \A k \in 1 .. j - i + 1 : SubSeq(m, i, j)[k] = m[i + k - 1]
    <3>1. m \in Seq(S) /\ i \in 1 .. Len(m) + 1 /\ j \in i - 1 .. Len(m)
      OBVIOUS
    <3>2. HasElements(S, SubSeq(m, i, j), m, i, j)
      BY ONLY <3>1, PartHasElements
    <3> QED
      BY ONLY <3>2 DEF HasElements
  <2>4. ASSUME NEW k \in 1 .. j - i + 1 PROVE t[(Len(a) + i) + k - 1] = m[i + k - 1]
    <3>1. i + k - 1 \in 1 .. Len(m) /\ (Len(a) + i) + k - 1 = Len(a) + (i + k - 1)
      BY <1>0
    <3> QED
      BY <1>4, <3>1
  <2>5. \A k \in 1 .. j - i + 1 :
          SubSeq(t, Len(a) + i, Len(a) + j)[k] = SubSeq(m, i, j)[k]
    BY <2>2, <2>3, <2>4
  <2> QED
    BY <2>2, <2>3, <2>5, SeqEqual
<1> QED
  BY <1>4, <1>5 DEF Middle

(* The parts of three sequences in a row. *)
LEMMA ThreeParts ==
  ASSUME NEW S, NEW a \in Seq(S), NEW m \in Seq(S), NEW b \in Seq(S),
         NEW t, t = (a \o m) \o b
  PROVE  /\ t \in Seq(S) /\ Len(t) = Len(a) + Len(m) + Len(b) /\ t = a \o (m \o b)
         /\ SubSeq(t, 1, Len(a)) = a
         /\ SubSeq(t, Len(a) + 1, Len(a) + Len(m)) = m
         /\ SubSeq(t, Len(a) + Len(m) + 1, Len(t)) = b
<1>0. Len(a) \in Nat /\ Len(m) \in Nat /\ Len(b) \in Nat
  BY LenProperties
<1>1. (a \o m) \o b = a \o (m \o b)
  BY ConcatThree
<1>2. m \o b \in Seq(S) /\ SubSeq(m \o b, 1, Len(m)) = m
  BY ConcatParts
<1>3. SubSeq(a \o (m \o b), 1, Len(a)) = a
  BY <1>2, ConcatParts
<1>4. a \o m \in Seq(S) /\ Len(a \o m) = Len(a) + Len(m)
  BY ConcatParts
<1>5. /\ (a \o m) \o b \in Seq(S) /\ Len((a \o m) \o b) = Len(a \o m) + Len(b)
      /\ SubSeq((a \o m) \o b, Len(a \o m) + 1, Len(a \o m) + Len(b)) = b
  BY <1>4, ConcatParts
<1>6. SubSeq((a \o m) \o b, Len(a) + 1, Len(a) + Len(m)) = m
  <2>1. 1 \in 1 .. Len(m) + 1 /\ Len(m) \in 1 - 1 .. Len(m)
    BY <1>0
  <2>2. PICK u : u = (a \o m) \o b
    OBVIOUS
  <2>3. SubSeq(u, Len(a) + 1, Len(a) + Len(m)) = SubSeq(m, 1, Len(m))
    BY <2>1, <2>2, MiddlePart DEF Middle
  <2>4. SubSeq(m, 1, Len(m)) = m
    BY SubSeqFull
  <2> QED
    BY <2>2, <2>3, <2>4
<1> QED
  BY <1>1, <1>3, <1>4, <1>5, <1>6

(* a \o b and c \o d are the same, the second cut e before the first.       *)
Cuts(a, b, c, d) == a \o b = c \o d /\ Len(c) <= Len(a)
Overlap(S, a, b, c, d) ==
  \E e \in Seq(S) : a = c \o e /\ d = e \o b /\ Len(e) = Len(a) - Len(c)

(* Of two ways to cut a sequence in two, the longer first part is the       *)
(* shorter one and some more.                                               *)
LEMMA TwoCuts ==
  ASSUME NEW S, NEW a \in Seq(S), NEW b \in Seq(S), NEW c \in Seq(S), NEW d \in Seq(S),
         Cuts(a, b, c, d)
  PROVE  Overlap(S, a, b, c, d)
<1>0. Len(a) \in Nat /\ Len(b) \in Nat /\ Len(c) \in Nat /\ Len(d) \in Nat
  BY LenProperties
<1>b. a \o b = c \o d /\ Len(c) <= Len(a)
  BY DEF Cuts
<1>a. Len(c) \in 0 .. Len(a)
  BY <1>0, <1>b
<1>1. PICK e \in Seq(S) :
        /\ SubSeq(a, 1, Len(c)) \in Seq(S) /\ Len(SubSeq(a, 1, Len(c))) = Len(c)
        /\ Len(e) = Len(a) - Len(c) /\ SubSeq(a, 1, Len(c)) \o e = a
  BY <1>a, CutInTwo
<1>2. /\ Len(a \o b) = Len(a) + Len(b) /\ \A i \in 1 .. Len(a) : (a \o b)[i] = a[i]
  BY <1>0, ConcatProperties
<1>3. /\ Len(c \o d) = Len(c) + Len(d) /\ \A i \in 1 .. Len(c) : (c \o d)[i] = c[i]
  BY <1>0, ConcatProperties
<1>4. \A i \in 1 .. Len(c) : SubSeq(a, 1, Len(c))[i] = a[i]
  <2>1. 1 \in 1 .. Len(a) + 1 /\ Len(c) \in 1 - 1 .. Len(a)
    BY <1>0, <1>b
  <2> QED
    BY <1>0, <2>1, PartElements
<1>5. SubSeq(a, 1, Len(c)) = c
  <2>1. \A i \in 1 .. Len(c) : SubSeq(a, 1, Len(c))[i] = c[i]
    BY <1>0, <1>b, <1>2, <1>3, <1>4
  <2> QED
    BY <1>1, <2>1, SeqEqual
<1>6. a = c \o e
  BY <1>1, <1>5
<1>7. c \o d = c \o (e \o b)
  <2>1. (c \o e) \o b = c \o (e \o b)
    <3>1. c \in Seq(S) /\ e \in Seq(S) /\ b \in Seq(S)
      OBVIOUS
    <3> QED
      <4>1. Associates(c, e, b)
        BY ONLY <3>1, ConcatAssociates
      <4> QED
        BY ONLY <4>1 DEF Associates
  <2> QED
    BY <1>b, <1>6, <2>1
<1>8. e \o b \in Seq(S) /\ Len(e \o b) = Len(e) + Len(b)
  BY <1>1, ConcatProperties
<1>9. d = e \o b
  BY <1>7, <1>8, ConcatSimplifications
<1> QED
  BY <1>1, <1>6, <1>9 DEF Overlap

(* The function that a recursion on the numbers up to n defines, each step  *)
(* of which g makes from the number and the value before.                   *)
Recurs(f, first, n, g) == f[0] = first /\ \A k \in 1 .. n : f[k] = g[<<k, f[k - 1]>>]

LEMMA RecursionExists ==
  ASSUME NEW X, NEW first \in X, NEW n \in Nat, NEW g \in [(1 .. n) \X X -> X]
  PROVE  \E f \in [0 .. n -> X] : Recurs(f, first, n, g)
<1> DEFINE Upto(m, f) == f[0] = first /\ \A k \in 1 .. m : f[k] = g[<<k, f[k - 1]>>]
           G == {m \in 0 .. n : \E f \in [0 .. m -> X] : Upto(m, f)}
<1>1. 0 \in G
  <2>1. [k \in 0 .. 0 |-> first] \in [0 .. 0 -> X] /\ [k \in 0 .. 0 |-> first][0] = first
    OBVIOUS
  <2>2. PICK f \in [0 .. 0 -> X] : f[0] = first
    BY <2>1
  <2>3. Upto(0, f)
    BY <2>2
  <2> HIDE DEF Upto
  <2> QED
    BY <2>3
<1>2. ASSUME NEW m \in 0 .. n - 1, m \in G PROVE m + 1 \in G
  <2>1. PICK f \in [0 .. m -> X] : Upto(m, f)
    BY <1>2
  <2> DEFINE last == g[<<m + 1, f[m]>>]
             h == [k \in 0 .. m + 1 |-> IF k <= m THEN f[k] ELSE last]
  <2>2. last \in X
    <3>1. m + 1 \in 1 .. n /\ f[m] \in X
      OBVIOUS
    <3> QED
      BY <3>1
  <2> HIDE DEF last
  <2>3. h \in [0 .. m + 1 -> X] /\ h[m + 1] = last /\ \A k \in 0 .. m : h[k] = f[k]
    BY <2>2
  <2> HIDE DEF h
  <2>4. h[0] = first
    BY <2>1, <2>3
  <2>5. ASSUME NEW k \in 1 .. m + 1 PROVE h[k] = g[<<k, h[k - 1]>>]
    <3>1. CASE k <= m
      <4>1. k \in 1 .. m /\ k \in 0 .. m /\ k - 1 \in 0 .. m
        BY <3>1
      <4> QED
        BY <2>1, <2>3, <4>1
    <3>2. CASE k = m + 1
      <4>1. h[k - 1] = f[m]
        BY <2>3, <3>2
      <4> QED
        BY <2>3, <3>2, <4>1 DEF last
    <3> QED
      BY <3>1, <3>2
  <2>6. Upto(m + 1, h) /\ m + 1 \in 0 .. n
    BY <2>4, <2>5
  <2> HIDE DEF Upto
  <2> QED
    BY <2>3, <2>6
<1>3. n \in G
  <2> HIDE DEF G
  <2>1. \A k \in 0 .. n : k \in G
    BY <1>1, <1>2, InductionUpTo
  <2> QED
    BY <2>1
<1> QED
  BY <1>3 DEF Recurs
=============================================================================
