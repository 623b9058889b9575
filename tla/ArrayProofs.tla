---------------------------- MODULE ArrayProofs ------------------------------
(***************************************************************************)
(* Facts about FlattenSeq, stableSort and ElementsAt, for sequences of any   *)
(* length, about the chunks of a range, and about sums over finite sets.     *)
(* Induction over the natural numbers is that every set of them has a least  *)
(* element.                                                                  *)
(***************************************************************************)
EXTENDS Sorting, Chunks, SequenceTheorems, FiniteSetTheorems, TLAPS

(* A set of natural numbers that has 0, and with each number the next, has   *)
(* them all.                                                               *)
LEMMA Induction ==
  ASSUME NEW T, 0 \in T, \A n \in Nat : n \in T => n + 1 \in T
  PROVE  \A n \in Nat : n \in T
  <1> SUFFICES ASSUME Nat \ T # {} PROVE FALSE
    OBVIOUS
  <1> DEFINE R == {ss \in Nat \X Nat : ss[1] < ss[2]}
             M == Nat \ T
  <1>1. IsWellFoundedOn(R, Nat)
    BY NatLessThanWellFounded DEF OpToRel
  <1>2. PICK x \in M : \A y \in M : ~(<<y, x>> \in R)
    <2>1. M \subseteq Nat /\ M # {}
      OBVIOUS
    <2> HIDE DEF R, M
    <2> QED
      BY <1>1, <2>1, WFMin
  <1>3. \A y \in M : ~(y < x)
    BY <1>2
  <1>4. x # 0 /\ x \in Nat
    OBVIOUS
  <1>5. x - 1 \in Nat /\ x - 1 \in T
    BY <1>3, <1>4
  <1> QED
    BY <1>4, <1>5

(* A set of natural numbers has a smallest one, which Min gives. *)
LEMMA MinExists ==
  ASSUME NEW S, S \subseteq Nat, S # {}, NEW min, min = Min(S)
  PROVE  min \in S /\ \A y \in S : min <= y
  <1> DEFINE R == {pair \in Nat \X Nat : pair[1] < pair[2]}
  <1>1. IsWellFoundedOn(R, Nat)
    BY NatLessThanWellFounded DEF OpToRel
  <1>2. PICK x \in S : \A y \in S : ~(<<y, x>> \in R)
    <2> HIDE DEF R
    <2> QED
      BY <1>1, WFMin
  <1>3. \A y \in S : x <= y
    <2>1. \A y, z \in Nat : ~(<<y, z>> \in R) => z <= y
      OBVIOUS
    <2> HIDE DEF R
    <2> QED
      BY <1>2, <2>1
  <1> HIDE DEF R
  <1>4. min = CHOOSE m \in S : \A y \in S : m <= y
    BY DEF Min
  <1> QED
    BY <1>3, <1>4

-----------------------------------------------------------------------------
(* Concatenation                                                           *)

(* The recursive function in FlattenSeq exists. *)
LEMMA PrefixesExist ==
  ASSUME NEW ss, NEW n \in Nat
  PROVE  \E g : g = [i \in 1..n |-> IF i = 1 THEN ss[i] ELSE g[i - 1] \o ss[i]]
  <1> DEFINE T == {m \in Nat :
                     \E g : g = [i \in 1..m |-> IF i = 1 THEN ss[i] ELSE g[i - 1] \o ss[i]]}
  <1>1. 0 \in T
    <2> DEFINE g == [i \in 1..0 |-> ss[i]]
    <2>1. g = [i \in 1..0 |-> IF i = 1 THEN ss[i] ELSE g[i - 1] \o ss[i]]
      OBVIOUS
    <2> QED
      BY <2>1
  <1>2. ASSUME NEW m \in Nat, m \in T PROVE m + 1 \in T
    <2>1. PICK g : g = [i \in 1..m |-> IF i = 1 THEN ss[i] ELSE g[i - 1] \o ss[i]]
      BY <1>2
    <2> DEFINE h == [i \in 1..(m + 1) |->
                       IF i = m + 1 THEN (IF i = 1 THEN ss[i] ELSE g[m] \o ss[i]) ELSE g[i]]
    <2>2. \A i \in 1..(m + 1) : h[i] = IF i = 1 THEN ss[i] ELSE h[i - 1] \o ss[i]
      <3> TAKE i \in 1..(m + 1)
      <3>1. CASE i = m + 1
        <4>1. i # 1 => h[i - 1] = g[m]
          BY <3>1
        <4> QED
          BY <3>1, <4>1
      <3>2. CASE i # m + 1
        <4>1. i \in 1..m /\ h[i] = g[i]
          BY <3>2
        <4>2. i # 1 => h[i - 1] = g[i - 1]
          BY <3>2
        <4>3. g[i] = IF i = 1 THEN ss[i] ELSE g[i - 1] \o ss[i]
          BY <2>1, <4>1
        <4> HIDE DEF h
        <4> QED
          BY <4>1, <4>2, <4>3
      <3> QED
        BY <3>1, <3>2
    <2>3. h = [i \in 1..(m + 1) |-> h[i]]
      OBVIOUS
    <2> HIDE DEF h
    <2>4. h = [i \in 1..(m + 1) |-> IF i = 1 THEN ss[i] ELSE h[i - 1] \o ss[i]]
      BY <2>2, <2>3
    <2>5. \E f : f = [i \in 1..(m + 1) |-> IF i = 1 THEN ss[i] ELSE f[i - 1] \o ss[i]]
      <3> WITNESS h
      <3> QED
        BY <2>4
    <2>6. m + 1 \in Nat
      OBVIOUS
    <2> QED
      BY <2>5, <2>6
  <1> HIDE DEF T
  <1>3. n \in T
    BY <1>1, <1>2, Induction
  <1> QED
    BY <1>3 DEF T

(* What FlattenSeq computes, part by part *)
LEMMA FlattenParts ==
  ASSUME NEW ss, Len(ss) \in Nat \ {0}
  PROVE  \E g : /\ g[1] = ss[1]
                /\ \A i \in 2..Len(ss) : g[i] = g[i - 1] \o ss[i]
                /\ FlattenSeq(ss) = g[Len(ss)]
  <1> DEFINE Parts(f) == f = [i \in 1..Len(ss) |-> IF i = 1 THEN ss[i] ELSE f[i - 1] \o ss[i]]
  <1>1. \E f : Parts(f)
    BY PrefixesExist
  <1>2. PICK h : Parts(h) /\ FlattenSeq(ss) = h[Len(ss)]
    BY <1>1 DEF FlattenSeq
  <1>3. \A i \in 1..Len(ss) : h[i] = IF i = 1 THEN ss[i] ELSE h[i - 1] \o ss[i]
    BY <1>2
  <1>4. h[1] = ss[1] /\ \A i \in 2..Len(ss) : h[i] = h[i - 1] \o ss[i]
    <2>1. 1 \in 1..Len(ss) /\ \A i \in 2..Len(ss) : i \in 1..Len(ss) /\ i # 1
      OBVIOUS
    <2> QED
      BY <1>3, <2>1, Zenon
  <1>5. FlattenSeq(ss) = h[Len(ss)]
    BY <1>2
  <1> QED
    BY <1>4, <1>5


(* Where the parts begin: off[i] elements come before part i + 1. *)
IsLayout(off, ss) ==
  /\ off \in [0..Len(ss) -> Nat]
  /\ off[0] = 0
  /\ \A i \in 1..Len(ss) : off[i] = off[i - 1] + Len(ss[i])
  /\ \A i, j \in 0..Len(ss) : i <= j => off[i] <= off[j]

(* flat holds the parts where off says, and nothing else. *)
IsFlat(off, ss, flat) ==
  /\ Len(flat) = off[Len(ss)]
  /\ \A i \in 1..Len(ss) : \A k \in 1..Len(ss[i]) : flat[off[i - 1] + k] = ss[i][k]
  /\ \A p \in 1..Len(flat) :
       \E i \in 1..Len(ss) : \E k \in 1..Len(ss[i]) : p = off[i - 1] + k

(* r is s with t after it. *)
Appended(r, s, t, S) ==
  /\ r \in Seq(S)
  /\ Len(r) = Len(s) + Len(t)
  /\ \A p \in 1..Len(s) : r[p] = s[p]
  /\ \A k \in 1..Len(t) : r[Len(s) + k] = t[k]

(* Appending the next part *)
LEMMA NextPart ==
  ASSUME NEW S, NEW s \in Seq(S), NEW t \in Seq(S)
  PROVE  Appended(s \o t, s, t, S)
  BY DEF Appended

(* The arithmetic of one more part *)
LEMMA NextOffset ==
  ASSUME NEW m \in Nat, NEW off, NEW ss,
         \A i \in 1..m : /\ Len(ss[i]) \in Nat /\ off[i - 1] \in Nat
                         /\ off[i] = off[i - 1] + Len(ss[i]) /\ off[i] <= off[m],
         off[m] \in Nat, Len(ss[m + 1]) \in Nat, off[m + 1] = off[m] + Len(ss[m + 1])
  PROVE  /\ \A i \in 1..(m + 1) : /\ Len(ss[i]) \in Nat /\ off[i - 1] \in Nat
                                  /\ off[i] = off[i - 1] + Len(ss[i]) /\ off[i] <= off[m + 1]
         /\ \A i \in 1..m : \A k \in 1..Len(ss[i]) : off[i - 1] + k \in 1..off[m]
         /\ \A p \in 1..off[m + 1] :
              p \in 1..off[m] \/ (p - off[m] \in 1..Len(ss[m + 1]) /\ p = off[m] + (p - off[m]))
  <1>1. ASSUME NEW i \in 1..(m + 1)
        PROVE  /\ Len(ss[i]) \in Nat /\ off[i - 1] \in Nat
               /\ off[i] = off[i - 1] + Len(ss[i]) /\ off[i] <= off[m + 1]
    <2>1. CASE i \in 1..m
      BY <2>1
    <2>2. CASE i = m + 1
      <3>1. i - 1 = m
        BY <2>2
      <3> QED
        BY <2>2, <3>1
    <2> QED
      BY <2>1, <2>2
  <1>2. ASSUME NEW i \in 1..m, NEW k \in 1..Len(ss[i]) PROVE off[i - 1] + k \in 1..off[m]
    OBVIOUS
  <1>3. ASSUME NEW p \in 1..off[m + 1]
        PROVE  p \in 1..off[m] \/ (p - off[m] \in 1..Len(ss[m + 1]) /\ p = off[m] + (p - off[m]))
    OBVIOUS
  <1> QED
    BY <1>1, <1>2, <1>3

(* f holds the first m parts where off says, and nothing else. *)
PartsPlaced(f, off, ss, m) ==
  /\ \A i \in 1..m : /\ Len(ss[i]) \in Nat /\ off[i - 1] \in Nat
                     /\ off[i] = off[i - 1] + Len(ss[i]) /\ off[i] <= off[m]
  /\ \A i \in 1..m : \A k \in 1..Len(ss[i]) : f[off[i - 1] + k] = ss[i][k]
  /\ \A p \in 1..off[m] : \E i \in 1..m : \E k \in 1..Len(ss[i]) : p = off[i - 1] + k

(* One more part *)
LEMMA PartsPlacedNext ==
  ASSUME NEW m \in Nat, NEW off, NEW ss, NEW f, NEW h, PartsPlaced(f, off, ss, m),
         off[m] \in Nat, Len(ss[m + 1]) \in Nat, off[m + 1] = off[m] + Len(ss[m + 1]),
         \A p \in 1..off[m] : h[p] = f[p],
         \A k \in 1..Len(ss[m + 1]) : h[off[m] + k] = ss[m + 1][k]
  PROVE  PartsPlaced(h, off, ss, m + 1)
  <1>1. /\ \A i \in 1..(m + 1) : /\ Len(ss[i]) \in Nat /\ off[i - 1] \in Nat
                                 /\ off[i] = off[i - 1] + Len(ss[i]) /\ off[i] <= off[m + 1]
        /\ \A i \in 1..m : \A k \in 1..Len(ss[i]) : off[i - 1] + k \in 1..off[m]
        /\ \A p \in 1..off[m + 1] :
             p \in 1..off[m] \/ (p - off[m] \in 1..Len(ss[m + 1]) /\ p = off[m] + (p - off[m]))
    BY NextOffset DEF PartsPlaced
  <1>2. ASSUME NEW i \in 1..(m + 1), NEW k \in 1..Len(ss[i])
        PROVE  h[off[i - 1] + k] = ss[i][k]
    <2>1. CASE i \in 1..m
      <3>1. off[i - 1] + k \in 1..off[m]
        BY <1>1, <2>1
      <3>2. f[off[i - 1] + k] = ss[i][k]
        BY <2>1 DEF PartsPlaced
      <3> QED
        BY <3>1, <3>2
    <2>2. CASE i = m + 1
      <3>1. i - 1 = m
        BY <2>2
      <3> QED
        BY <2>2, <3>1
    <2> QED
      BY <2>1, <2>2
  <1>3. ASSUME NEW p \in 1..off[m + 1]
        PROVE  \E i \in 1..(m + 1) : \E k \in 1..Len(ss[i]) : p = off[i - 1] + k
    <2>1. CASE p \in 1..off[m]
      <3>1. PICK i \in 1..m : \E k \in 1..Len(ss[i]) : p = off[i - 1] + k
        BY <2>1 DEF PartsPlaced
      <3>2. i \in 1..(m + 1)
        OBVIOUS
      <3> QED
        BY <3>1, <3>2
    <2>2. CASE p - off[m] \in 1..Len(ss[m + 1]) /\ p = off[m] + (p - off[m])
      <3>1. m + 1 \in 1..(m + 1) /\ (m + 1) - 1 = m
        OBVIOUS
      <3>2. \E k \in 1..Len(ss[m + 1]) : p = off[(m + 1) - 1] + k
        BY <2>2, <3>1
      <3> QED
        BY <3>1, <3>2
    <2> QED
      BY <1>1, <2>1, <2>2
  <1> QED
    BY <1>1, <1>2, <1>3 DEF PartsPlaced

(* FlattenSeq puts the parts one after the other. *)
LEMMA FlattenLayout ==
  ASSUME NEW S, NEW ss \in Seq(Seq(S))
  PROVE  /\ FlattenSeq(ss) \in Seq(S)
         /\ \E off : IsLayout(off, ss) /\ IsFlat(off, ss, FlattenSeq(ss))
  <1>0. Len(ss) \in Nat /\ \A i \in 1..Len(ss) : ss[i] \in Seq(S) /\ Len(ss[i]) \in Nat
    OBVIOUS
  <1>1. CASE Len(ss) = 0
    <2> DEFINE off == [i \in 0..0 |-> 0]
    <2>1. ss = <<>> /\ FlattenSeq(ss) = ss
      BY <1>1 DEF FlattenSeq
    <2>2. IsLayout(off, ss) /\ IsFlat(off, ss, ss)
      BY <1>1, <2>1 DEF IsLayout, IsFlat
    <2>3. ss \in Seq(S)
      BY <2>1
    <2> QED
      BY <2>1, <2>2, <2>3
  <1>2. CASE Len(ss) # 0
    <2> DEFINE n == Len(ss)
    <2>1. PICK g : /\ g[1] = ss[1]
                   /\ \A i \in 2..n : g[i] = g[i - 1] \o ss[i]
                   /\ FlattenSeq(ss) = g[n]
      BY <1>0, <1>2, FlattenParts
    <2> DEFINE off == [i \in 0..n |-> IF i = 0 THEN 0 ELSE Len(g[i])]
               Good(m) == g[m] \in Seq(S) /\ PartsPlaced(g[m], off, ss, m)
               T == {m \in Nat : m \in 1..n => Good(m)}
    <2>2. off[0] = 0 /\ \A i \in 1..n : off[i] = Len(g[i])
      BY <1>0
    <2>12. off = [i \in 0..n |-> off[i]]
      OBVIOUS
    <2>13. n \in Nat \ {0} /\ n = Len(ss)
      BY <1>0, <1>2
    <2> HIDE DEF off, n
    <2>3. Good(1)
      <3>1. g[1] \in Seq(S) /\ off[1] = Len(ss[1]) /\ off[0] = 0 /\ Len(ss[1]) \in Nat
        BY <1>0, <2>1, <2>2, <2>13
      <3>2. PartsPlaced(g[1], off, ss, 1)
        <4>1. \A i \in 1..1 : i = 1 /\ i - 1 = 0
          OBVIOUS
        <4>2. 1 \in 1..1 /\ \A p \in 1..off[1] : p \in 1..Len(ss[1]) /\ p = off[1 - 1] + p
          BY <3>1
        <4>3. \A i \in 1..1 : /\ Len(ss[i]) \in Nat /\ off[i - 1] \in Nat
                              /\ off[i] = off[i - 1] + Len(ss[i]) /\ off[i] <= off[1]
          BY <3>1, <4>1
        <4>4. \A i \in 1..1 : \A k \in 1..Len(ss[i]) : g[1][off[i - 1] + k] = ss[i][k]
          BY <2>1, <3>1, <4>1
        <4>5. \A p \in 1..off[1] :
                \E i \in 1..1 : \E k \in 1..Len(ss[i]) : p = off[i - 1] + k
          BY <4>2
        <4> QED
          BY <4>3, <4>4, <4>5 DEF PartsPlaced
      <3> QED
        BY <3>1, <3>2
    <2>4. ASSUME NEW m \in Nat, m \in 1..n, m + 1 \in 1..n, Good(m) PROVE Good(m + 1)
      <3>1. m + 1 \in 2..n /\ (m + 1) - 1 = m
        BY <2>13, <2>4
      <3>2. g[m] \in Seq(S) /\ ss[m + 1] \in Seq(S) /\ g[m + 1] = g[m] \o ss[m + 1]
        BY <1>0, <2>1, <2>4, <2>13, <3>1
      <3>3. off[m] = Len(g[m]) /\ off[m + 1] = Len(g[m + 1])
        BY <2>2, <2>4
      <3>4. /\ g[m + 1] \in Seq(S)
            /\ Len(g[m + 1]) = Len(g[m]) + Len(ss[m + 1])
            /\ \A p \in 1..Len(g[m]) : g[m + 1][p] = g[m][p]
            /\ \A k \in 1..Len(ss[m + 1]) : g[m + 1][Len(g[m]) + k] = ss[m + 1][k]
        <4>1. Appended(g[m] \o ss[m + 1], g[m], ss[m + 1], S)
          BY <3>2, NextPart
        <4>2. Appended(g[m + 1], g[m], ss[m + 1], S)
          BY <3>2, <4>1
        <4> QED
          BY <4>2 DEF Appended
      <3>5. Len(g[m]) \in Nat /\ Len(ss[m + 1]) \in Nat
        BY <3>2
      <3>6. /\ off[m] \in Nat /\ off[m + 1] = off[m] + Len(ss[m + 1])
            /\ \A p \in 1..off[m] : g[m + 1][p] = g[m][p]
            /\ \A k \in 1..Len(ss[m + 1]) : g[m + 1][off[m] + k] = ss[m + 1][k]
        BY <3>3, <3>4, <3>5, Zenon
      <3>7. PartsPlaced(g[m + 1], off, ss, m + 1)
        <4>1. PartsPlaced(g[m], off, ss, m)
          BY <2>4
        <4> QED
          BY <3>5, <3>6, <4>1, PartsPlacedNext
      <3> QED
        BY <3>4, <3>7
    <2>5. \A m \in 1..n : Good(m)
      <3> HIDE DEF Good
      <3>1. 0 \in T
        BY <2>13
      <3>2. \A m \in Nat : m \in T => m + 1 \in T
        <4> TAKE m \in Nat
        <4> HAVE m \in T
        <4>1. CASE m = 0
          BY <2>3, <4>1
        <4>2. CASE m # 0 /\ m + 1 \in 1..n
          <5>1. m \in 1..n
            BY <2>13, <4>2
          <5> QED
            BY <2>4, <4>2, <5>1
        <4>3. CASE m + 1 \notin 1..n
          BY <4>3
        <4> QED
          BY <4>1, <4>2, <4>3
      <3> HIDE DEF T
      <3>3. \A m \in Nat : m \in T
        BY <3>1, <3>2, Induction
      <3>4. \A m \in 1..n : m \in Nat
        OBVIOUS
      <3> QED
        BY <3>3, <3>4 DEF T
    <2>6. \A m \in 1..n : PartsPlaced(g[m], off, ss, m)
      BY <2>5
    <2>7. n \in 1..n /\ g[n] \in Seq(S)
      BY <2>5, <2>13
    <2> HIDE DEF Good
    <2>8. IsLayout(off, ss)
      <3>1. \A i \in 1..n : off[i] = off[i - 1] + Len(ss[i]) /\ off[i - 1] \in Nat
        BY <2>6, <2>7 DEF PartsPlaced
      <3>2. \A i \in 0..n : off[i] \in Nat
        <4> TAKE i \in 0..n
        <4>1. CASE i = 0
          BY <2>2, <4>1
        <4>2. CASE i # 0
          <5>1. i \in 1..n /\ Len(ss[i]) \in Nat
            BY <1>0, <2>13, <4>2
          <5> QED
            BY <3>1, <5>1
        <4> QED
          BY <4>1, <4>2
      <3>3. \A i, j \in 0..n : i <= j => off[i] <= off[j]
        <4> TAKE i, j \in 0..n
        <4> HAVE i <= j
        <4>1. CASE i = 0
          BY <2>2, <3>2, <4>1
        <4>2. CASE i # 0
          <5>1. i \in 1..j /\ j \in 1..n
            BY <2>13, <4>2
          <5> QED
            BY <2>6, <5>1 DEF PartsPlaced
        <4> QED
          BY <4>1, <4>2
      <3>4. off \in [0..n -> Nat]
        BY <2>12, <3>2
      <3> QED
        BY <2>2, <2>13, <3>1, <3>3, <3>4 DEF IsLayout
    <2>9. IsFlat(off, ss, FlattenSeq(ss))
      <3>1. Len(g[n]) = off[n] /\ PartsPlaced(g[n], off, ss, n)
        BY <2>2, <2>6, <2>7
      <3>2. Len(FlattenSeq(ss)) = off[Len(ss)]
        BY <2>1, <2>13, <3>1
      <3>3. \A i \in 1..Len(ss) : \A k \in 1..Len(ss[i]) : FlattenSeq(ss)[off[i - 1] + k] = ss[i][k]
        BY <2>1, <2>13, <3>1, SMT DEF PartsPlaced
      <3>4. \A p \in 1..Len(FlattenSeq(ss)) :
              \E i \in 1..Len(ss) : \E k \in 1..Len(ss[i]) : p = off[i - 1] + k
        BY <2>13, <3>1, <3>2, SMT DEF PartsPlaced
      <3> QED
        BY <3>2, <3>3, <3>4, Zenon DEF IsFlat
    <2> QED
      BY <2>1, <2>7, <2>8, <2>9
  <1> QED
    BY <1>1, <1>2

(* What is in the parts is in the whole, and nothing else. *)
LEMMA FlattenMembers ==
  ASSUME NEW S, NEW ss \in Seq(Seq(S))
  PROVE  /\ FlattenSeq(ss) \in Seq(S)
         /\ \A p \in 1..Len(FlattenSeq(ss)) : \E i \in 1..Len(ss) : \E k \in 1..Len(ss[i]) :
              FlattenSeq(ss)[p] = ss[i][k]
         /\ \A i \in 1..Len(ss) : \A k \in 1..Len(ss[i]) : \E p \in 1..Len(FlattenSeq(ss)) :
              FlattenSeq(ss)[p] = ss[i][k]
  <1>1. FlattenSeq(ss) \in Seq(S)
    BY FlattenLayout
  <1>2. PICK off : IsLayout(off, ss) /\ IsFlat(off, ss, FlattenSeq(ss))
    BY FlattenLayout
  <1>3. Len(ss) \in Nat /\ \A i \in 1..Len(ss) : Len(ss[i]) \in Nat
    OBVIOUS
  <1> DEFINE flat == FlattenSeq(ss)
             n == Len(ss)
  <1>4. n = Len(ss) /\ flat = FlattenSeq(ss)
    OBVIOUS
  <1> HIDE DEF n, flat
  <1>5. ASSUME NEW p \in 1..Len(flat)
        PROVE  \E i \in 1..n : \E k \in 1..Len(ss[i]) : flat[p] = ss[i][k]
    BY <1>2, <1>4, ZenonT(30) DEF IsFlat
  <1>6. ASSUME NEW i \in 1..n, NEW k \in 1..Len(ss[i])
        PROVE  \E p \in 1..Len(flat) : flat[p] = ss[i][k]
    <2>1. flat[off[i - 1] + k] = ss[i][k]
      BY <1>2, <1>4 DEF IsFlat
    <2>2. off[i - 1] \in Nat /\ off[i] \in Nat /\ off[n] \in Nat
      <3>1. i - 1 \in 0..n /\ i \in 0..n /\ n \in 0..n
        BY <1>3, <1>4
      <3> QED
        BY <1>2, <1>4, <3>1 DEF IsLayout
    <2>3. off[i] = off[i - 1] + Len(ss[i])
      BY <1>2, <1>4 DEF IsLayout
    <2>4. off[i] <= off[n]
      <3>1. i \in 0..n /\ n \in 0..n /\ i <= n
        BY <1>3, <1>4
      <3> QED
        BY <1>2, <1>4, <3>1 DEF IsLayout
    <2>5. Len(ss[i]) \in Nat /\ Len(flat) = off[n]
      BY <1>2, <1>3, <1>4 DEF IsFlat
    <2>6. off[i - 1] + k \in 1..Len(flat)
      BY <2>2, <2>3, <2>4, <2>5
    <2> QED
      BY <2>1, <2>6
  <1> QED
    BY <1>1, <1>4, <1>5, <1>6

(* A place in a part is at most the end of the part. *)
LEMMA PlaceInPart ==
  ASSUME NEW a \in Nat, NEW m \in Nat, NEW l \in 1..m, NEW q, q = a + l, NEW b, b = a + m
  PROVE  q <= b /\ a < q
  OBVIOUS

(* The whole goes up when each part does and every part goes up to the next  *)
(* ones. Lt holds the pairs of which the first is before the second.          *)
LEMMA FlattenIncreasing ==
  ASSUME NEW S, NEW ss \in Seq(Seq(S)), NEW Lt,
         \A i \in 1..Len(ss) : \A j, k \in 1..Len(ss[i]) : j < k => <<ss[i][j], ss[i][k]>> \in Lt,
         \A i, j \in 1..Len(ss) : i < j =>
           \A k \in 1..Len(ss[i]) : \A l \in 1..Len(ss[j]) : <<ss[i][k], ss[j][l]>> \in Lt
  PROVE  \A p, q \in 1..Len(FlattenSeq(ss)) :
           p < q => <<FlattenSeq(ss)[p], FlattenSeq(ss)[q]>> \in Lt
  <1>1. PICK off : IsLayout(off, ss) /\ IsFlat(off, ss, FlattenSeq(ss))
    BY FlattenLayout
  <1>2. Len(ss) \in Nat /\ \A i \in 1..Len(ss) : Len(ss[i]) \in Nat
    OBVIOUS
  <1> DEFINE flat == FlattenSeq(ss)
             n == Len(ss)
  <1>3. n = Len(ss) /\ flat = FlattenSeq(ss)
    OBVIOUS
  <1> HIDE DEF n, flat
  <1>4. ASSUME NEW p \in 1..Len(flat), NEW q \in 1..Len(flat), p < q
        PROVE  <<flat[p], flat[q]>> \in Lt
    <2>1. PICK i \in 1..n : \E k \in 1..Len(ss[i]) : p = off[i - 1] + k
      BY <1>1, <1>3 DEF IsFlat
    <2>2. PICK k \in 1..Len(ss[i]) : p = off[i - 1] + k
      BY <2>1
    <2>3. PICK j \in 1..n : \E l \in 1..Len(ss[j]) : q = off[j - 1] + l
      BY <1>1, <1>3 DEF IsFlat
    <2>4. PICK l \in 1..Len(ss[j]) : q = off[j - 1] + l
      BY <2>3
    <2>5. flat[p] = ss[i][k] /\ flat[q] = ss[j][l]
      BY <1>1, <1>3, <2>2, <2>4 DEF IsFlat
    <2>6. CASE i = j
      <3>1. off[i - 1] \in Nat
        <4>1. i - 1 \in 0..n
          BY <1>2, <1>3
        <4> QED
          BY <1>1, <1>3, <4>1 DEF IsLayout
      <3>2. p = off[i - 1] + k /\ q = off[i - 1] + l /\ k \in Nat /\ l \in Nat /\ p < q
        BY <1>3, <1>4, <2>2, <2>4, <2>6
      <3>3. k < l
        BY ONLY <3>1, <3>2
      <3> QED
        BY <1>3, <2>5, <2>6, <3>3
    <2>7. CASE i < j
      BY <1>3, <2>5, <2>7
    <2>8. CASE j < i
      <3>1. i - 1 \in 0..n /\ j \in 0..n /\ j - 1 \in 0..n /\ j <= i - 1
        BY <1>2, <1>3, <2>8
      <3>2. off[j] <= off[i - 1] /\ off[j] = off[j - 1] + Len(ss[j])
        BY <1>1, <1>3, <3>1 DEF IsLayout
      <3>3. off[j] \in Nat /\ off[i - 1] \in Nat /\ off[j - 1] \in Nat
        BY <1>1, <1>3, <3>1 DEF IsLayout
      <3>4. Len(ss[j]) \in Nat /\ Len(ss[i]) \in Nat
        BY <1>2, <1>3
      <3>6. q <= off[j]
        BY <2>4, <3>2, <3>3, <3>4, PlaceInPart
      <3>7. off[i - 1] <= p
        BY <2>2, <3>3, <3>4, SMTT(30)
      <3>5. q <= p
        BY <3>2, <3>3, <3>6, <3>7
      <3> QED
        BY <1>4, <2>2, <2>4, <3>3, <3>4, <3>5, SMTT(30)
    <2> QED
      BY <2>6, <2>7, <2>8
  <1> QED
    BY <1>3, <1>4

(* r has the elements of s at the places, and no others. *)
IsSelection(r, s, places) ==
  /\ \A p \in 1..Len(r) : \E k \in 1..Len(s) : k \in places /\ r[p] = s[k]
  /\ \A k \in 1..Len(s) : k \in places => \E p \in 1..Len(r) : r[p] = s[k]

(* ElementsAt keeps the elements at the places. *)
LEMMA ElementsAtPlaces ==
  ASSUME NEW S, NEW s \in Seq(S), NEW places, NEW r, r = ElementsAt(s, places)
  PROVE  r \in Seq(S) /\ IsSelection(r, s, places)
  <1> DEFINE ss == [i \in 1..Len(s) |-> IF i \in places THEN <<s[i]>> ELSE <<>>]
  <1>1. Len(s) \in Nat /\ \A i \in 1..Len(s) : s[i] \in S
    OBVIOUS
  <1>2. \A i \in 1..Len(s) : ss[i] \in Seq(S)
    BY <1>1
  <1>3. ss \in Seq(Seq(S))
    BY <1>1, <1>2
  <1>9. Len(ss) = Len(s) /\ Len(s) \in Nat
    BY <1>1
  <1>4. \A i \in 1..Len(s) : /\ i \in places => (Len(ss[i]) = 1 /\ ss[i][1] = s[i])
                             /\ i \notin places => Len(ss[i]) = 0
    OBVIOUS
  <1>5. ElementsAt(s, places) = FlattenSeq(ss)
    BY DEF ElementsAt
  <1> HIDE DEF ss
  <1>6. ASSUME NEW p \in 1..Len(FlattenSeq(ss))
        PROVE  \E k \in 1..Len(s) : k \in places /\ FlattenSeq(ss)[p] = s[k]
    <2>1. PICK i \in 1..Len(ss) : \E k \in 1..Len(ss[i]) : FlattenSeq(ss)[p] = ss[i][k]
      BY <1>3, FlattenMembers
    <2>2. PICK k \in 1..Len(ss[i]) : FlattenSeq(ss)[p] = ss[i][k]
      BY <2>1
    <2>3. i \in places
      <3>1. CASE i \notin places
        <4>1. Len(ss[i]) = 0
          BY <1>4, <1>9, <3>1
        <4> QED
          BY <4>1
      <3> QED
        BY <3>1
    <2>4. Len(ss[i]) = 1 /\ ss[i][1] = s[i]
      <3>1. i \in 1..Len(s)
        BY <1>9
      <3> QED
        BY <1>4, <2>3, <3>1, Zenon
    <2>5. k = 1
      BY <2>4
    <2> QED
      BY <1>9, <2>2, <2>3, <2>4, <2>5
  <1>7. ASSUME NEW k \in 1..Len(s), k \in places
        PROVE  \E p \in 1..Len(FlattenSeq(ss)) : FlattenSeq(ss)[p] = s[k]
    <2>1. k \in 1..Len(ss) /\ 1 \in 1..Len(ss[k]) /\ ss[k][1] = s[k]
      <3>1. k \in 1..Len(ss)
        BY <1>9
      <3>2. Len(ss[k]) = 1 /\ ss[k][1] = s[k]
        BY <1>4, <1>7, Zenon
      <3>3. 1 \in 1..Len(ss[k])
        BY <3>2
      <3> QED
        BY <3>1, <3>2, <3>3
    <2>2. \E p \in 1..Len(FlattenSeq(ss)) : FlattenSeq(ss)[p] = ss[k][1]
      BY <1>3, <2>1, FlattenMembers
    <2> QED
      BY <2>1, <2>2
  <1>8. FlattenSeq(ss) \in Seq(S)
    BY <1>3, FlattenMembers
  <1>10. IsSelection(FlattenSeq(ss), s, places)
    BY <1>6, <1>7 DEF IsSelection
  <1> QED
    BY <1>5, <1>8, <1>10

-----------------------------------------------------------------------------
(* Sorting                                                                 *)

(* R orders the numbers up to n strictly, leaving no two side by side. *)
IsStrictOrder(R, n) ==
  /\ \A j \in 1..n : <<j, j>> \notin R
  /\ \A j, k, l \in 1..n : <<j, k>> \in R /\ <<k, l>> \in R => <<j, l>> \in R
  /\ \A j, k \in 1..n : j # k => <<j, k>> \in R \/ <<k, j>> \in R

(* The place of each: how many come before it, and one *)
PlacesIn(R, n) == [k \in 1..n |-> 1 + Cardinality({j \in 1..n : <<j, k>> \in R})]

(* The places are all those from 1 to n, and follow the order. *)
IsPlacing(place, R, n) ==
  /\ place \in [1..n -> 1..n]
  /\ \A i \in 1..n : \E k \in 1..n : place[k] = i
  /\ \A j, k \in 1..n : <<j, k>> \in R => place[j] < place[k]
  /\ \A j, k \in 1..n : place[j] = place[k] => j = k

(* Counting what comes before gives such places. *)
LEMMA PlacesFill ==
  ASSUME NEW n \in Nat, NEW R, IsStrictOrder(R, n)
  PROVE  IsPlacing(PlacesIn(R, n), R, n)
  <1> DEFINE Before(k) == {j \in 1..n : <<j, k>> \in R}
             place == PlacesIn(R, n)
  <1>1. IsFiniteSet(1..n) /\ Cardinality(1..n) = n
    BY FS_Interval
  <1>2. ASSUME NEW k \in 1..n
        PROVE  /\ IsFiniteSet(Before(k)) /\ Cardinality(Before(k)) \in Nat
               /\ Cardinality(Before(k)) <= n - 1
    <2>1. IsFiniteSet((1..n) \ {k}) /\ Cardinality((1..n) \ {k}) = n - 1
      BY <1>1, FS_RemoveElement
    <2>2. Before(k) \in SUBSET ((1..n) \ {k})
      BY DEF IsStrictOrder
    <2> HIDE DEF Before
    <2>3. IsFiniteSet(Before(k)) /\ Cardinality(Before(k)) <= Cardinality((1..n) \ {k})
      BY <2>1, <2>2, FS_Subset
    <2> QED
      BY <2>1, <2>3, FS_CardinalityType
  <1>3. ASSUME NEW j \in 1..n, NEW k \in 1..n, <<j, k>> \in R
        PROVE  Cardinality(Before(j)) < Cardinality(Before(k))
    <2>1. Before(j) \in SUBSET Before(k)
      BY <1>3 DEF IsStrictOrder
    <2>2. j \in Before(k) /\ j \notin Before(j)
      BY <1>3 DEF IsStrictOrder
    <2>3. IsFiniteSet(Before(k))
      BY <1>2
    <2>4. Cardinality(Before(j)) \in Nat /\ Cardinality(Before(k)) \in Nat
      BY <1>2
    <2> HIDE DEF Before
    <2>5. /\ Cardinality(Before(j)) <= Cardinality(Before(k))
          /\ Cardinality(Before(k)) = Cardinality(Before(j)) => Before(k) = Before(j)
      BY <2>1, <2>3, FS_Subset
    <2>6. Cardinality(Before(k)) # Cardinality(Before(j))
      BY <2>2, <2>5
    <2> QED
      BY <2>4, <2>5, <2>6
  <1>4. place = [k \in 1..n |-> 1 + Cardinality(Before(k))]
    BY DEF PlacesIn
  <1> HIDE DEF Before, place
  <1>5. \A k \in 1..n : place[k] = 1 + Cardinality(Before(k))
    BY <1>4
  <1>6. place \in [1..n -> 1..n]
    BY <1>2, <1>4, SMTT(30)
  <1>7. \A j, k \in 1..n : <<j, k>> \in R => place[j] < place[k]
    BY <1>2, <1>3, <1>5
  <1>8. place \in Injection(1..n, 1..n)
    <2>1. ASSUME NEW j \in 1..n, NEW k \in 1..n, place[j] = place[k] PROVE j = k
      <3>1. place[j] \in Int /\ place[k] \in Int
        BY <1>6
      <3>2. ~(place[j] < place[k]) /\ ~(place[k] < place[j])
        BY <2>1, <3>1
      <3>3. <<j, k>> \notin R /\ <<k, j>> \notin R
        BY <1>7, <3>2, Zenon
      <3> QED
        BY <3>3, Zenon DEF IsStrictOrder
    <2> QED
      BY <1>6, <2>1 DEF Injection, IsInjective
  <1>9. place \in Surjection(1..n, 1..n)
    BY <1>1, <1>8, FS_Injection
  <1>10. \A i \in 1..n : \E k \in 1..n : place[k] = i
    BY <1>9 DEF Surjection
  <1>11. \A j, k \in 1..n : place[j] = place[k] => j = k
    BY <1>8 DEF Injection, IsInjective
  <1> QED
    BY <1>6, <1>7, <1>10, <1>11 DEF place, IsPlacing

(* r has the elements of s at their places. *)
ByPlaces(r, s, place) ==
  r = [i \in 1..Len(s) |-> s[CHOOSE k \in 1..Len(s) : place[k] = i]]

(* r is s with its elements in the order R of their places in s. *)
IsSorting(r, s, R) ==
  \E at \in [1..Len(s) -> 1..Len(s)] :
    /\ r = [i \in 1..Len(s) |-> s[at[i]]]
    /\ \A k \in 1..Len(s) : \E i \in 1..Len(s) : at[i] = k
    /\ \A i, j \in 1..Len(s) : i < j => <<at[i], at[j]>> \in R

(* Putting each element at its place sorts. *)
LEMMA PlacesSort ==
  ASSUME NEW s, Len(s) \in Nat, NEW R, IsStrictOrder(R, Len(s)),
         NEW place, IsPlacing(place, R, Len(s)), NEW r, ByPlaces(r, s, place)
  PROVE  IsSorting(r, s, R)
  <1> DEFINE n == Len(s)
             at == [i \in 1..n |-> CHOOSE k \in 1..n : place[k] = i]
  <1>1. /\ place \in [1..n -> 1..n]
        /\ \A i \in 1..n : \E k \in 1..n : place[k] = i
        /\ \A j, k \in 1..n : <<j, k>> \in R => place[j] < place[k]
        /\ \A j, k \in 1..n : place[j] = place[k] => j = k
    BY DEF IsPlacing
  <1>2. \A j, k \in 1..n : j # k => <<j, k>> \in R \/ <<k, j>> \in R
    BY DEF IsStrictOrder
  <1>3. r = [i \in 1..n |-> s[at[i]]]
    BY DEF ByPlaces
  <1>0. n = Len(s) /\ n \in Nat
    OBVIOUS
  <1> HIDE DEF n
  <1>4. \A i \in 1..n : at[i] \in 1..n /\ place[at[i]] = i
    BY <1>1
  <1>5. at \in [1..n -> 1..n]
    BY <1>4
  <1> HIDE DEF at
  <1>7. ASSUME NEW k \in 1..n PROVE \E i \in 1..n : at[i] = k
    <2>1. place[k] \in 1..n /\ place[at[place[k]]] = place[k] /\ at[place[k]] \in 1..n
      BY <1>1, <1>4
    <2> QED
      BY <1>1, <2>1, Zenon
  <1>8. ASSUME NEW i \in 1..n, NEW j \in 1..n, i < j PROVE <<at[i], at[j]>> \in R
    <2>1. at[i] \in 1..n /\ at[j] \in 1..n /\ place[at[i]] = i /\ place[at[j]] = j
      BY <1>4
    <2>2. ~(place[at[j]] < place[at[i]]) /\ i # j
      BY <1>8, <2>1
    <2>3. <<at[j], at[i]>> \notin R
      BY <1>1, <2>1, <2>2, Zenon
    <2>4. at[i] # at[j]
      BY <2>1, <2>2, Zenon
    <2> QED
      BY <1>2, <2>1, <2>3, <2>4, Zenon
  <1>9. \E f \in [1..n -> 1..n] :
          /\ r = [i \in 1..n |-> s[f[i]]]
          /\ \A k \in 1..n : \E i \in 1..n : f[i] = k
          /\ \A i, j \in 1..n : i < j => <<f[i], f[j]>> \in R
    <2> WITNESS at \in [1..n -> 1..n]
    <2> QED
      BY <1>3, <1>7, <1>8
  <1> QED
    BY <1>0, <1>9 DEF IsSorting

(* L holds the places of which the first is less than the second, as a       *)
(* comparator does: equals are equal to the same ones.                       *)
IsComparison(L, n) ==
  /\ \A j, k \in 1..n : <<j, k>> \in L => <<k, j>> \notin L
  /\ \A j, k, l \in 1..n : <<j, k>> \notin L /\ <<k, l>> \notin L => <<j, l>> \notin L

(* The order of stableSort *)
StableOrder(L, n) ==
  {pair \in (1..n) \X (1..n) :
     pair \in L \/ (<<pair[2], pair[1]>> \notin L /\ pair[1] < pair[2])}

(* A comparison, with the place to tell equals apart, is a strict order. *)
LEMMA StableOrderIsStrict ==
  ASSUME NEW n \in Nat, NEW L, IsComparison(L, n)
  PROVE  IsStrictOrder(StableOrder(L, n), n)
  <1> DEFINE R == StableOrder(L, n)
  <1>1. \A j, k \in 1..n : <<j, k>> \in R <=> <<j, k>> \in L \/ (<<k, j>> \notin L /\ j < k)
    BY DEF StableOrder
  <1> HIDE DEF R
  <1>2. ASSUME NEW j \in 1..n PROVE <<j, j>> \notin R
    <2>1. ~(j < j)
      OBVIOUS
    <2>2. <<j, j>> \notin L
      BY DEF IsComparison
    <2> QED
      BY <1>1, <2>1, <2>2, Zenon
  <1>3. ASSUME NEW j \in 1..n, NEW k \in 1..n, NEW l \in 1..n, <<j, k>> \in R, <<k, l>> \in R
        PROVE  <<j, l>> \in R
    <2>1. <<k, j>> \notin L /\ <<l, k>> \notin L
      BY <1>1, <1>3, Zenon DEF IsComparison
    <2>2. <<l, j>> \notin L
      BY <2>1, Zenon DEF IsComparison
    <2>3. CASE <<j, k>> \in L
      <3>1. <<j, l>> \in L
        BY <2>1, <2>3, Zenon DEF IsComparison
      <3> QED
        BY <1>1, <3>1, Zenon
    <2>4. CASE <<k, l>> \in L
      <3>1. <<j, l>> \in L
        BY <2>1, <2>4, Zenon DEF IsComparison
      <3> QED
        BY <1>1, <3>1, Zenon
    <2>5. CASE <<j, k>> \notin L /\ <<k, l>> \notin L
      <3>1. j < k /\ k < l
        BY <1>1, <1>3, <2>5, Zenon
      <3>2. j < l
        BY <3>1
      <3> QED
        BY <1>1, <2>2, <3>2, Zenon
    <2> QED
      BY <2>3, <2>4, <2>5
  <1>4. ASSUME NEW j \in 1..n, NEW k \in 1..n, j # k PROVE <<j, k>> \in R \/ <<k, j>> \in R
    <2>1. j < k \/ k < j
      BY <1>4
    <2> QED
      BY <1>1, <2>1, Zenon
  <1> QED
    BY <1>2, <1>3, <1>4 DEF IsStrictOrder, R

(* What stableSort builds for a comparison is s in the order of StableOrder. *)
LEMMA StableSorting ==
  ASSUME NEW s, Len(s) \in Nat, NEW L, IsComparison(L, Len(s)), NEW r, NEW place,
         ByPlaces(r, s, place),
         place = [k \in 1..Len(s) |-> 1 + Cardinality({j \in 1..Len(s) :
                    <<j, k>> \in L \/ (<<k, j>> \notin L /\ j < k)})]
  PROVE  IsSorting(r, s, StableOrder(L, Len(s)))
  <1> DEFINE n == Len(s)
             R == StableOrder(L, n)
  <1>1. \A k \in 1..n : {j \in 1..n : <<j, k>> \in R}
                       = {j \in 1..n : <<j, k>> \in L \/ (<<k, j>> \notin L /\ j < k)}
    BY DEF StableOrder
  <1> HIDE DEF R
  <1>2. place = PlacesIn(R, n)
    BY <1>1 DEF PlacesIn
  <1>3. IsStrictOrder(R, Len(s))
    BY StableOrderIsStrict DEF R
  <1>4. IsPlacing(place, R, Len(s))
    <2>1. IsPlacing(PlacesIn(R, n), R, n)
      BY <1>3, PlacesFill
    <2> QED
      BY <1>2, <2>1
  <1>5. IsSorting(r, s, R)
    BY <1>3, <1>4, PlacesSort
  <1> QED
    BY <1>5 DEF R

(* A sorted sequence has the elements of the other. *)
LEMMA SortingMembers ==
  ASSUME NEW S, NEW s \in Seq(S), NEW R, NEW r, IsSorting(r, s, R)
  PROVE  /\ r \in Seq(S) /\ Len(r) = Len(s)
         /\ \A i \in 1..Len(s) : \E k \in 1..Len(s) : r[i] = s[k]
         /\ \A k \in 1..Len(s) : \E i \in 1..Len(s) : r[i] = s[k]
  <1> DEFINE n == Len(s)
  <1>1. n \in Nat /\ n = Len(s) /\ \A i \in 1..n : s[i] \in S
    OBVIOUS
  <1> HIDE DEF n
  <1>2. PICK at \in [1..n -> 1..n] :
          /\ r = [i \in 1..n |-> s[at[i]]]
          /\ \A k \in 1..n : \E i \in 1..n : at[i] = k
    BY <1>1, Zenon DEF IsSorting
  <1>3. \A i \in 1..n : at[i] \in 1..n /\ r[i] = s[at[i]]
    BY <1>2
  <1>4. \A i \in 1..n : r[i] \in S
    BY <1>1, <1>3, Zenon
  <1>5. r \in [1..n -> S]
    BY <1>2, <1>1
  <1>6. r \in Seq(S) /\ Len(r) = n
    BY <1>1, <1>5
  <1>7. \A k \in 1..n : \E i \in 1..n : r[i] = s[k]
    BY <1>2, <1>3, Zenon
  <1> QED
    BY <1>1, <1>3, <1>6, <1>7

-----------------------------------------------------------------------------
(* Sequences as sets in order                                              *)

(* s lists the members of X in the order Lt, each of them. Lt is the set of  *)
(* pairs of which the first is before the second.                            *)
Lists(s, X, Lt) ==
  /\ s \in Seq(X)
  /\ \A x \in X : \E p \in 1..Len(s) : s[p] = x
  /\ \A p, q \in 1..Len(s) : p < q => <<s[p], s[q]>> \in Lt

(* The empty sequence lists the empty set. *)
LEMMA ListsNone ==
  ASSUME NEW Lt
  PROVE  Lists(<<>>, {}, Lt)
  BY DEF Lists

(* A sequence of one lists it. *)
LEMMA ListsOne ==
  ASSUME NEW x, NEW Lt
  PROVE  Lists(<<x>>, {x}, Lt)
  <1>1. <<x>> \in Seq({x}) /\ Len(<<x>>) = 1 /\ <<x>>[1] = x
    OBVIOUS
  <1>2. 1 \in 1..1 /\ \A p, q \in 1..1 : ~(p < q)
    OBVIOUS
  <1> HIDE DEF Lists
  <1> QED
    BY <1>1, <1>2 DEF Lists

(* Sequences of parts, each before the next ones, list the union. *)
LEMMA FlattenLists ==
  ASSUME NEW n \in Nat, NEW ss, ss = [i \in 1..n |-> ss[i]], NEW X, NEW Lt,
         \A i \in 1..n : Lists(ss[i], X[i], Lt),
         \A i, j \in 1..n : i < j => \A x \in X[i], y \in X[j] : <<x, y>> \in Lt
  PROVE  Lists(FlattenSeq(ss), UNION {X[i] : i \in 1..n}, Lt)
  <1> DEFINE U == UNION {X[i] : i \in 1..n}
             flat == FlattenSeq(ss)
  <1>1. \A i \in 1..n : ss[i] \in Seq(X[i]) /\ ss[i] \in Seq(U)
    <2> TAKE i \in 1..n
    <2>1. ss[i] \in Seq(X[i])
      BY DEF Lists
    <2>2. X[i] \subseteq U
      OBVIOUS
    <2> HIDE DEF U
    <2> QED
      BY <2>1, <2>2
  <1>2. \A x \in U : \E i \in 1..n : x \in X[i]
    OBVIOUS
  <1> HIDE DEF U
  <1>3. ss \in Seq(Seq(U)) /\ Len(ss) = n
    <2>1. ss \in [1..n -> Seq(U)]
      BY <1>1
    <2> QED
      BY <2>1
  <1>4. /\ FlattenSeq(ss) \in Seq(U)
        /\ \A i \in 1..Len(ss) : \A k \in 1..Len(ss[i]) : \E p \in 1..Len(FlattenSeq(ss)) :
             FlattenSeq(ss)[p] = ss[i][k]
    BY <1>3, FlattenMembers
  <1>5. \A i \in 1..n : \A k \in 1..Len(ss[i]) : ss[i][k] \in X[i]
    BY <1>1
  <1>6. ASSUME NEW x \in U PROVE \E p \in 1..Len(flat) : flat[p] = x
    <2>1. PICK i \in 1..n : x \in X[i]
      BY <1>2
    <2>2. PICK k \in 1..Len(ss[i]) : ss[i][k] = x
      BY <2>1 DEF Lists
    <2>3. i \in 1..Len(ss)
      BY <1>3
    <2> QED
      BY <1>4, <2>2, <2>3, Zenon
  <1>7. \A i \in 1..Len(ss) : \A j, k \in 1..Len(ss[i]) : j < k => <<ss[i][j], ss[i][k]>> \in Lt
    <2>1. \A i \in 1..n : \A j, k \in 1..Len(ss[i]) : j < k => <<ss[i][j], ss[i][k]>> \in Lt
      BY DEF Lists
    <2>2. Len(ss) = n
      BY <1>3
    <2> QED
      BY <2>1, <2>2, Zenon
  <1>8. \A i, j \in 1..Len(ss) : i < j =>
          \A k \in 1..Len(ss[i]) : \A l \in 1..Len(ss[j]) : <<ss[i][k], ss[j][l]>> \in Lt
    <2>1. \A i, j \in 1..n : i < j =>
            \A k \in 1..Len(ss[i]) : \A l \in 1..Len(ss[j]) : <<ss[i][k], ss[j][l]>> \in Lt
      BY <1>5, Zenon
    <2>2. Len(ss) = n
      BY <1>3
    <2> QED
      BY <2>1, <2>2, Zenon
  <1>9. \A p, q \in 1..Len(FlattenSeq(ss)) :
          p < q => <<FlattenSeq(ss)[p], FlattenSeq(ss)[q]>> \in Lt
    BY <1>3, <1>7, <1>8, FlattenIncreasing
  <1> QED
    BY <1>4, <1>6, <1>9 DEF Lists, U

(* The same for a set that is given by its elements *)
LEMMA FlattenListsTo ==
  ASSUME NEW n \in Nat, NEW ss, ss = [i \in 1..n |-> ss[i]], NEW X, NEW Lt,
         \A i \in 1..n : Lists(ss[i], X[i], Lt),
         \A i, j \in 1..n : i < j => \A x \in X[i], y \in X[j] : <<x, y>> \in Lt,
         NEW whole, \A x : x \in whole <=> \E i \in 1..n : x \in X[i]
  PROVE  Lists(FlattenSeq(ss), whole, Lt)
  <1> DEFINE U == UNION {X[i] : i \in 1..n}
  <1>1. whole = U
    OBVIOUS
  <1>2. Lists(FlattenSeq(ss), U, Lt)
    BY FlattenLists DEF U
  <1> QED
    BY <1>1, <1>2

(* Two lists, all of the first before all of the second *)
LEMMA AppendLists ==
  ASSUME NEW s, NEW t, NEW X, NEW Y, NEW Lt, Lists(s, X, Lt), Lists(t, Y, Lt),
         \A x \in X, y \in Y : <<x, y>> \in Lt
  PROVE  Lists(s \o t, X \cup Y, Lt)
  <1> DEFINE U == X \cup Y
             r == s \o t
  <1>1. s \in Seq(X) /\ t \in Seq(Y)
    BY DEF Lists
  <1>2. s \in Seq(U) /\ t \in Seq(U)
    BY <1>1
  <1>3. Appended(r, s, t, U)
    BY <1>2, NextPart
  <1>4. Len(s) \in Nat /\ Len(t) \in Nat /\ (\A p \in 1..Len(s) : s[p] \in X)
        /\ (\A p \in 1..Len(t) : t[p] \in Y)
    BY <1>1
  <1> HIDE DEF U, r
  <1>5. Len(r) = Len(s) + Len(t) /\ r \in Seq(U)
    BY <1>3 DEF Appended
  <1>6. /\ \A p \in 1..Len(s) : r[p] = s[p] /\ p \in 1..Len(r)
        /\ \A k \in 1..Len(t) : r[Len(s) + k] = t[k] /\ Len(s) + k \in 1..Len(r)
    <2>1. \A p \in 1..Len(s) : p \in 1..Len(r)
      BY <1>4, <1>5
    <2>2. \A k \in 1..Len(t) : Len(s) + k \in 1..Len(r)
      BY <1>4, <1>5
    <2> QED
      BY <1>3, <2>1, <2>2, Zenon DEF Appended
  <1>7. \A p \in 1..Len(r) : p \in 1..Len(s) \/ \E k \in 1..Len(t) : p = Len(s) + k
    <2> TAKE p \in 1..Len(r)
    <2>1. CASE p <= Len(s)
      BY <1>4, <2>1
    <2>2. CASE ~(p <= Len(s))
      <3>1. p - Len(s) \in 1..Len(t) /\ p = Len(s) + (p - Len(s))
        BY <1>4, <1>5, <2>2
      <3> QED
        BY <3>1
    <2> QED
      BY <2>1, <2>2
  <1>8. ASSUME NEW x \in U PROVE \E p \in 1..Len(r) : r[p] = x
    <2>1. CASE x \in X
      <3>1. \E p \in 1..Len(s) : s[p] = x
        BY <2>1 DEF Lists
      <3> QED
        BY <1>6, <3>1, Zenon
    <2>2. CASE x \in Y
      <3>1. \E p \in 1..Len(t) : t[p] = x
        BY <2>2 DEF Lists
      <3> QED
        BY <1>6, <3>1, Zenon
    <2> QED
      BY <2>1, <2>2 DEF U
  <1>9. ASSUME NEW p \in 1..Len(r), NEW q \in 1..Len(r), p < q PROVE <<r[p], r[q]>> \in Lt
    <2>1. CASE p \in 1..Len(s) /\ q \in 1..Len(s)
      <3>1. <<s[p], s[q]>> \in Lt
        BY <1>9, <2>1, Zenon DEF Lists
      <3>2. r[p] = s[p] /\ r[q] = s[q]
        BY <1>6, <2>1, Zenon
      <3> QED
        BY <3>1, <3>2
    <2>2. CASE p \in 1..Len(s) /\ \E k \in 1..Len(t) : q = Len(s) + k
      <3>1. PICK k \in 1..Len(t) : q = Len(s) + k
        BY <2>2
      <3>2. r[p] = s[p] /\ r[q] = t[k] /\ s[p] \in X /\ t[k] \in Y
        BY <1>4, <1>6, <2>2, <3>1, Zenon
      <3> QED
        BY <3>2
    <2>3. CASE (\E k \in 1..Len(t) : p = Len(s) + k) /\ q \in 1..Len(s)
      BY <1>4, <1>9, <2>3
    <2>4. CASE (\E k \in 1..Len(t) : p = Len(s) + k) /\ (\E k \in 1..Len(t) : q = Len(s) + k)
      <3>1. PICK k \in 1..Len(t) : p = Len(s) + k
        BY <2>4
      <3>2. PICK l \in 1..Len(t) : q = Len(s) + l
        BY <2>4
      <3>3. k < l
        BY <1>4, <1>9, <3>1, <3>2
      <3>4. <<t[k], t[l]>> \in Lt
        BY <3>3, Zenon DEF Lists
      <3>5. r[p] = t[k] /\ r[q] = t[l]
        BY <1>6, <3>1, <3>2, Zenon
      <3> QED
        BY <3>4, <3>5
    <2> QED
      BY <1>7, <2>1, <2>2, <2>3, <2>4
  <1> QED
    BY <1>5, <1>8, <1>9 DEF Lists, U, r

(* Keeping the elements of a set *)
LEMMA ElementsAtLists ==
  ASSUME NEW s, NEW X, NEW Y, NEW Lt, Lists(s, X, Lt), NEW places,
         \A k \in 1..Len(s) : k \in places <=> s[k] \in Y
  PROVE  Lists(ElementsAt(s, places), X \cap Y, Lt)
  <1> DEFINE ss == [i \in 1..Len(s) |-> IF i \in places THEN <<s[i]>> ELSE <<>>]
             part == [i \in 1..Len(s) |-> IF i \in places THEN {s[i]} ELSE {}]
  <1>1. Len(s) \in Nat /\ \A k \in 1..Len(s) : s[k] \in X
    <2>1. s \in Seq(X)
      BY DEF Lists
    <2> QED
      BY <2>1
  <1>2. \A i \in 1..Len(s) : Lists(ss[i], part[i], Lt)
    BY ListsNone, ListsOne
  <1>3. \A i, j \in 1..Len(s) : i < j => \A x \in part[i], y \in part[j] : <<x, y>> \in Lt
    <2> TAKE i, j \in 1..Len(s)
    <2> HAVE i < j
    <2>1. <<s[i], s[j]>> \in Lt
      BY Zenon DEF Lists
    <2>2. (\A x \in part[i] : x = s[i]) /\ \A y \in part[j] : y = s[j]
      OBVIOUS
    <2> HIDE DEF part
    <2> QED
      BY <2>1, <2>2
  <1>4. X \cap Y = UNION {part[i] : i \in 1..Len(s)}
    <2>1. \A x : x \in UNION {part[i] : i \in 1..Len(s)}
                 <=> \E i \in 1..Len(s) : i \in places /\ x = s[i]
      OBVIOUS
    <2>2. \A x \in X : \E p \in 1..Len(s) : s[p] = x
      BY DEF Lists
    <2> DEFINE whole == UNION {part[i] : i \in 1..Len(s)}
    <2> HIDE DEF whole
    <2>3. ASSUME NEW x \in X, x \in Y PROVE x \in whole
      <3>1. PICK i \in 1..Len(s) : s[i] = x
        BY <2>2
      <3>2. i \in places
        BY <2>3, <3>1
      <3> QED
        BY <2>1, <3>1, <3>2, Zenon DEF whole
    <2>4. ASSUME NEW x \in whole PROVE x \in X /\ x \in Y
      <3>1. PICK i \in 1..Len(s) : i \in places /\ x = s[i]
        BY <2>1, Zenon DEF whole
      <3> QED
        BY <1>1, <3>1
    <2>5. X \cap Y = whole
      BY <2>3, <2>4
    <2> QED
      BY <2>5 DEF whole
  <1>5. ss = [i \in 1..Len(s) |-> ss[i]]
    OBVIOUS
  <1>6. ElementsAt(s, places) = FlattenSeq(ss)
    BY DEF ElementsAt
  <1> HIDE DEF ss, part
  <1>7. Lists(FlattenSeq(ss), UNION {part[i] : i \in 1..Len(s)}, Lt)
    BY <1>1, <1>2, <1>3, <1>5, FlattenLists
  <1> QED
    BY <1>4, <1>6, <1>7

(* Replacing every element by a sequence: P[x] is what becomes of x. *)
LEMMA FlattenMapLists ==
  ASSUME NEW s, NEW X, NEW Lt, Lists(s, X, Lt), NEW ss, ss = [i \in 1..Len(s) |-> ss[i]],
         NEW P, NEW Mt,
         \A i \in 1..Len(s) : Lists(ss[i], P[s[i]], Mt),
         \A x, y \in X : <<x, y>> \in Lt => \A u \in P[x], v \in P[y] : <<u, v>> \in Mt,
         NEW whole, \A u : u \in whole <=> \E x \in X : u \in P[x]
  PROVE  Lists(FlattenSeq(ss), whole, Mt)
  <1> DEFINE n == Len(s)
             part == [i \in 1..n |-> P[s[i]]]
             joined == UNION {part[i] : i \in 1..n}
  <1>1. n \in Nat /\ n = Len(s) /\ \A k \in 1..n : s[k] \in X
    <2>1. s \in Seq(X)
      BY DEF Lists
    <2> QED
      BY <2>1
  <1>2. \A x \in X : \E i \in 1..n : s[i] = x
    BY DEF Lists
  <1>3. \A i, j \in 1..n : i < j => <<s[i], s[j]>> \in Lt
    BY DEF Lists
  <1>4. \A i \in 1..n : part[i] = P[s[i]]
    OBVIOUS
  <1>5. \A u : u \in joined <=> \E i \in 1..n : u \in part[i]
    OBVIOUS
  <1> HIDE DEF part, joined, n
  <1>6. \A i \in 1..n : Lists(ss[i], part[i], Mt)
    BY <1>1, <1>4
  <1>7. \A i, j \in 1..n : i < j => \A u \in part[i], v \in part[j] : <<u, v>> \in Mt
    <2> TAKE i, j \in 1..n
    <2> HAVE i < j
    <2>1. \A u \in P[s[i]], v \in P[s[j]] : <<u, v>> \in Mt
      BY <1>1, <1>3, Zenon
    <2>2. part[i] = P[s[i]] /\ part[j] = P[s[j]]
      BY <1>4, Zenon
    <2> QED
      BY <2>1, <2>2
  <1>8. whole = joined
    <2>1. ASSUME NEW u \in whole PROVE u \in joined
      <3>1. PICK x \in X : u \in P[x]
        OBVIOUS
      <3>2. PICK i \in 1..n : s[i] = x
        BY <1>2
      <3>3. u \in part[i]
        BY <1>4, <3>1, <3>2
      <3> QED
        BY <1>5, <3>3
    <2>2. ASSUME NEW u \in joined PROVE u \in whole
      BY <1>1, <1>4, <1>5, Zenon
    <2> QED
      BY <2>1, <2>2
  <1>9. Lists(FlattenSeq(ss), joined, Mt)
    BY <1>1, <1>6, <1>7, FlattenLists DEF joined
  <1> QED
    BY <1>8, <1>9

-----------------------------------------------------------------------------
(* Chunks.                                                                 *)

(* What the integer quotient is. *)
LEMMA Quotient ==
  ASSUME NEW x \in Int, NEW b \in Nat \ {0}
  PROVE  /\ x \div b \in Int
         /\ (x \div b) * b <= x /\ x < (x \div b) * b + b
  OBVIOUS

(* Rounding up: the chunks are large enough that count of them reach the   *)
(* end, and none is empty.                                                 *)
LEMMA CeilDivBounds ==
  ASSUME NEW a \in Nat \ {0}, NEW b \in Nat \ {0}
  PROVE  CeilDiv(a, b) \in Nat \ {0} /\ CeilDiv(a, b) * b >= a
  <1> DEFINE q == CeilDiv(a, b)
  <1>1. q \in Int /\ q * b <= a + b - 1 /\ a + b - 1 < q * b + b
    BY Quotient, a + b - 1 \in Int DEF CeilDiv
  <1> HIDE DEF q
  <1>2. q * b \in Int /\ q * b >= a
    BY <1>1
  <1>3. q > 0
    <2>1. SUFFICES ASSUME q <= 0 PROVE FALSE
      BY <1>1
    <2>2. q * b <= 0
      BY <2>1, <1>1
    <2> QED
      BY <2>2, <1>2
  <1> QED
    BY <1>1, <1>2, <1>3 DEF q

(* A later turn of the loop starts at least one chunk later. *)
LEMMA LaterTurn ==
  ASSUME NEW size \in Nat \ {0}, NEW i \in Nat, NEW j \in Nat, i < j
  PROVE  i * size + size <= j * size
  <1>1. PICK d \in Nat : j = i + 1 + d
    <2>1. j - i - 1 \in Nat /\ j = i + 1 + (j - i - 1)
      OBVIOUS
    <2> QED
      BY <2>1
  <1>2. j * size = i * size + size + d * size /\ i * size \in Nat /\ d * size \in Nat
    BY <1>1
  <1> QED
    BY <1>2

(* The k-th chunk of the loop. *)
ChunkAt(start, end, size, k) ==
  [from |-> start + k * size,
   to   |-> IF start + k * size + size - 1 < end THEN start + k * size + size - 1 ELSE end]

(* The chunks lie in the range, do not overlap, and reach every element. *)
Partition(C, start, end) ==
  /\ \A c \in C : c.from \in start..end /\ c.to \in c.from..end
  /\ \A c, d \in C : \A n \in Int : n \in c.from..c.to /\ n \in d.from..d.to => c = d
  /\ \A n \in start..end : \E c \in C : n \in c.from..c.to

(* The loop of buildInclusiveChunks visits every element once. *)
LEMMA InclusiveChunks ==
  ASSUME NEW start \in Int, NEW end \in Int, NEW size \in Nat \ {0}
  PROVE  Partition(buildInclusiveChunks(start, end, size), start, end)
  <1> DEFINE C == buildInclusiveChunks(start, end, size)
             At(k) == ChunkAt(start, end, size, k)
             Turns == {k \in 0..(end - start) : start + k * size <= end}
  <1>1. C = {At(k) : k \in Turns}
    BY DEF buildInclusiveChunks, ChunkAt
  <1>2. \A k \in Nat : k * size \in Nat
    OBVIOUS
  <1>3. \A k \in Nat : At(k).from = start + k * size
    BY DEF ChunkAt
  <1>4. \A k \in Turns : /\ At(k).from \in start..end
                         /\ At(k).to \in At(k).from..end
                         /\ At(k).to < start + k * size + size
    BY <1>2 DEF ChunkAt
  <1>5. \A i, j \in Turns : \A n \in Int :
          n \in At(i).from..At(i).to /\ n \in At(j).from..At(j).to => ~ i < j
    <2> SUFFICES ASSUME NEW i \in Turns, NEW j \in Turns, NEW n \in Int, i < j,
                        n \in At(i).from..At(i).to, n \in At(j).from..At(j).to
                 PROVE  FALSE
      OBVIOUS
    <2>1. i \in Nat /\ j \in Nat /\ i * size \in Nat /\ j * size \in Nat
      OBVIOUS
    <2>2. i * size + size <= j * size
      BY <2>1, LaterTurn
    <2>3. n <= At(i).to /\ At(i).to < start + i * size + size /\ At(i).to \in Int
      BY <1>4
    <2>4. n >= start + j * size
      BY <1>3, <2>1
    <2> QED
      BY <2>1, <2>2, <2>3, <2>4
  <1>6. \A n \in start..end : \E k \in Turns : n \in At(k).from..At(k).to
    <2> SUFFICES ASSUME NEW n \in start..end
                 PROVE  \E k \in Turns : n \in At(k).from..At(k).to
      OBVIOUS
    <2> DEFINE k == (n - start) \div size
    <2>1. n - start \in Nat
      OBVIOUS
    <2>2. /\ k \in Nat /\ k * size \in Nat
          /\ k * size <= n - start /\ n - start < k * size + size
      <3>1. k \in Int /\ k * size <= n - start /\ n - start < k * size + size
        BY <2>1, Quotient
      <3>2. k \in Nat
        BY <2>1
      <3> HIDE DEF k
      <3>3. k * size \in Nat
        BY <3>2
      <3> QED
        BY <3>1, <3>2, <3>3
    <2>3. k <= k * size
      BY <2>2
    <2> HIDE DEF k
    <2>4. k \in Turns
      BY <2>2, <2>3
    <2>5. n \in At(k).from..At(k).to
      BY <2>2 DEF ChunkAt
    <2> QED
      BY <2>4, <2>5
  <1> HIDE DEF At, C
  <1>7. \A c, d \in C : \A n \in Int : n \in c.from..c.to /\ n \in d.from..d.to => c = d
    <2> SUFFICES ASSUME NEW i \in Turns, NEW j \in Turns, NEW n \in Int,
                        n \in At(i).from..At(i).to, n \in At(j).from..At(j).to
                 PROVE  At(i) = At(j)
      BY <1>1
    <2>1. ~ i < j /\ ~ j < i
      BY <1>5
    <2> QED
      BY <2>1
  <1> QED
    BY <1>1, <1>4, <1>6, <1>7 DEF Partition, C

(* The callers' chunks partition the range, and there are no more of them  *)
(* than connections.                                                       *)
LEMMA ChunksPartition ==
  ASSUME NEW start \in Int, NEW end \in Int, NEW concurrency \in Nat \ {0},
         NEW C, C = ParallelChunks(start, end, concurrency)
  PROVE  /\ IsFiniteSet(C) /\ Cardinality(C) <= concurrency
         /\ Partition(C, start, end)
  <1> DEFINE total == end - start + 1
             count == IF concurrency < total THEN concurrency ELSE total
             size  == CeilDiv(total, count)
             At(k) == ChunkAt(start, end, size, k)
             Turns == {k \in 0..(end - start) : start + k * size <= end}
  <1>1. CASE total <= 0
    <2>1. C = {} /\ start..end = {}
      BY <1>1 DEF ParallelChunks
    <2> QED
      BY <2>1, FS_EmptySet DEF Partition
  <1>2. CASE total > 0
    <2>1. total \in Nat \ {0} /\ count \in Nat \ {0} /\ count <= concurrency
      BY <1>2
    <2>2. C = buildInclusiveChunks(start, end, size)
      BY <1>2 DEF ParallelChunks
    <2> HIDE DEF count
    <2>3. size \in Nat \ {0} /\ size * count >= total
      BY <2>1, CeilDivBounds
    <2> HIDE DEF size
    <2>4. C = {At(k) : k \in Turns}
      BY <2>2 DEF buildInclusiveChunks, ChunkAt
    <2>5. \A k \in Turns : k \in 0..(count - 1)
      <3> SUFFICES ASSUME NEW k \in Turns, ~ k < count
                   PROVE  FALSE
        BY <2>1
      <3>1. k \in Nat /\ k * size \in Nat /\ k * size < total
        BY <2>3
      <3>2. count * size <= k * size
        <4>1. CASE count = k
          BY <4>1, <3>1
        <4>2. CASE count < k
          <5>1. count * size + size <= k * size
            BY <4>2, <3>1, <2>1, <2>3, LaterTurn
          <5> QED
            BY <5>1, <2>1, <2>3, <3>1, count * size \in Nat
        <4> QED
          BY <4>1, <4>2, <3>1, <2>1
      <3>3. count * size = size * count /\ count * size \in Nat
        BY <2>1, <2>3
      <3> QED
        BY <3>1, <3>2, <3>3, <2>3, <2>1
    <2>6. IsFiniteSet(Turns) /\ Cardinality(Turns) <= concurrency
      <3>1. IsFiniteSet(0..(count - 1)) /\ Cardinality(0..(count - 1)) = count
        BY <2>1, FS_Interval
      <3>2. Turns \in SUBSET (0..(count - 1))
        BY <2>5
      <3> HIDE DEF Turns
      <3>3. IsFiniteSet(Turns) /\ Cardinality(Turns) <= count
        BY <3>1, <3>2, FS_Subset
      <3>4. Cardinality(Turns) \in Nat
        BY <3>3, FS_CardinalityType
      <3> QED
        BY <3>3, <3>4, <2>1
    <2> HIDE DEF Turns, At
    <2>7. [k \in Turns |-> At(k)] \in Surjection(Turns, C)
      BY <2>4 DEF Surjection
    <2>8. IsFiniteSet(C) /\ Cardinality(C) <= Cardinality(Turns)
      BY <2>6, <2>7, FS_Surjection
    <2>9. Cardinality(C) \in Nat /\ Cardinality(Turns) \in Nat
      BY <2>6, <2>8, FS_CardinalityType
    <2>10. Cardinality(C) <= concurrency
      BY <2>6, <2>8, <2>9
    <2> QED
      BY <2>2, <2>3, <2>8, <2>10, InclusiveChunks
  <1> QED
    BY <1>1, <1>2

-----------------------------------------------------------------------------
(* Sets as sequences, and the largest element                               *)

(* SetToSeq has every element at one place. *)
LEMMA SetToSeqOnce ==
  ASSUME NEW S, IsFiniteSet(S), NEW s, s = SetToSeq(S)
  PROVE  /\ s \in Seq(S) /\ Len(s) = Cardinality(S) /\ Cardinality(S) \in Nat
         /\ \A x \in S : \E p \in 1..Len(s) : s[p] = x
         /\ \A p, q \in 1..Len(s) : s[p] = s[q] => p = q
  <1> DEFINE n == Cardinality(S)
  <1>1. n \in Nat /\ ExistsBijection(1..n, S)
    BY FS_CardinalityType
  <1>2. \E f \in [1..n -> S] : IsInjective(f)
    BY <1>1 DEF ExistsBijection, Bijection, Injection
  <1>3. s \in [1..n -> S] /\ IsInjective(s)
    BY <1>2 DEF SetToSeq
  <1>4. s \in Surjection(1..n, S)
    <2>1. s \in Injection(1..n, S)
      BY <1>3 DEF Injection
    <2>2. IsFiniteSet(1..n) /\ Cardinality(1..n) = n
      BY <1>1, FS_Interval
    <2> QED
      BY <2>1, <2>2, FS_Injection
  <1> HIDE DEF n
  <1>5. s \in Seq(S) /\ Len(s) = n
    BY <1>1, <1>3
  <1>6. \A x \in S : \E p \in 1..n : s[p] = x
    BY <1>4 DEF Surjection
  <1>7. \A p, q \in 1..n : s[p] = s[q] => p = q
    BY <1>3 DEF IsInjective
  <1> QED
    BY <1>1, <1>5, <1>6, <1>7 DEF n

(* Sorting what has every element once lists it, in any order that follows   *)
(* from the comparison.                                                     *)
LEMMA SortedLists ==
  ASSUME NEW X, NEW s \in Seq(X), \A x \in X : \E p \in 1..Len(s) : s[p] = x,
         NEW L, IsComparison(L, Len(s)), NEW r, IsSorting(r, s, StableOrder(L, Len(s))), NEW Lt,
         \A j, k \in 1..Len(s) : j # k /\ <<k, j>> \notin L => <<s[j], s[k]>> \in Lt
  PROVE  Lists(r, X, Lt)
  <1> DEFINE n == Len(s)
             R == StableOrder(L, n)
  <1>1. n = Len(s) /\ n \in Nat /\ \A k \in 1..n : s[k] \in X
    OBVIOUS
  <1>2. /\ r \in Seq(X) /\ Len(r) = n
        /\ \A k \in 1..n : \E i \in 1..n : r[i] = s[k]
    BY SortingMembers
  <1>4. IsSorting(r, s, R) /\ IsComparison(L, n)
    OBVIOUS
  <1>3. \A j, k \in 1..n : <<j, k>> \in R => j # k /\ <<k, j>> \notin L
    <2> TAKE j, k \in 1..n
    <2> HAVE <<j, k>> \in R
    <2>1. <<j, k>> \in L \/ (<<k, j>> \notin L /\ j < k)
      BY DEF StableOrder
    <2> HIDE DEF n, R
    <2>2. <<j, k>> \in L => <<k, j>> \notin L
      BY <1>4 DEF IsComparison
    <2>3. <<j, k>> \in L => j # k
      BY <2>2
    <2> QED
      BY <1>1, <2>1, <2>2, <2>3
  <1> HIDE DEF n, R
  <1>5. PICK at \in [1..n -> 1..n] :
          /\ r = [i \in 1..n |-> s[at[i]]]
          /\ \A i, j \in 1..n : i < j => <<at[i], at[j]>> \in R
    BY <1>1, <1>4, Zenon DEF IsSorting
  <1>6. \A i \in 1..n : r[i] = s[at[i]] /\ at[i] \in 1..n
    BY <1>5
  <1>7. ASSUME NEW p \in 1..n, NEW q \in 1..n, p < q PROVE <<r[p], r[q]>> \in Lt
    <2>1. <<at[p], at[q]>> \in R
      BY <1>5, <1>7
    <2>2. <<s[at[p]], s[at[q]]>> \in Lt
      BY <1>1, <1>3, <1>6, <2>1, Zenon
    <2> QED
      BY <1>6, <2>2
  <1>8. \A x \in X : \E i \in 1..n : r[i] = x
    <2> TAKE x \in X
    <2>1. PICK k \in 1..n : s[k] = x
      BY <1>1
    <2>2. PICK i \in 1..n : r[i] = s[k]
      BY <1>2
    <2> QED
      BY <2>1, <2>2
  <1> QED
    BY <1>2, <1>7, <1>8 DEF Lists

(* A set of integers below some bound has a largest element. *)
LEMMA MaxExists ==
  ASSUME NEW S, S \subseteq Int, NEW x \in S, NEW b \in Int, \A y \in S : y <= b,
         NEW max, max = Max(S)
  PROVE  max \in S /\ \A y \in S : y <= max
  <1> DEFINE T == {d \in Nat : \A y \in S : b - y <= d => \E m \in S : \A z \in S : z <= m}
  <1>1. 0 \in T
    OBVIOUS
  <1>2. ASSUME NEW d \in Nat, d \in T PROVE d + 1 \in T
    <2> SUFFICES ASSUME NEW y \in S, b - y <= d + 1 PROVE \E m \in S : \A z \in S : z <= m
      OBVIOUS
    <2>1. CASE \A z \in S : z <= y
      BY <2>1
    <2>2. CASE \E z \in S : ~(z <= y)
      <3>1. PICK z \in S : ~(z <= y)
        BY <2>2
      <3>2. b - z <= d
        BY <3>1
      <3> QED
        BY <1>2, <3>2
    <2> QED
      BY <2>1, <2>2
  <1>3. b - x \in Nat
    OBVIOUS
  <1>4. b - x \in T
    <2> HIDE DEF T
    <2> QED
      BY <1>1, <1>2, <1>3, Induction
  <1>5. \E m \in S : \A z \in S : m >= z
    BY <1>4
  <1>6. max \in S /\ \A z \in S : max >= z
    BY <1>5 DEF Max
  <1> QED
    BY <1>6

(* The first element stays first. *)
LEMMA ElementsAtFirst ==
  ASSUME NEW S, NEW s \in Seq(S), NEW places, 1 \in places, Len(s) >= 1
  PROVE  Len(ElementsAt(s, places)) >= 1 /\ ElementsAt(s, places)[1] = s[1]
  <1> DEFINE ss == [i \in 1..Len(s) |-> IF i \in places THEN <<s[i]>> ELSE <<>>]
             r == ElementsAt(s, places)
  <1>1. ss \in Seq(Seq(S)) /\ Len(ss) = Len(s) /\ ss[1] = <<s[1]>>
    <2>1. \A i \in 1..Len(s) : (IF i \in places THEN <<s[i]>> ELSE <<>>) \in Seq(S)
      OBVIOUS
    <2>2. Len(s) \in Nat
      OBVIOUS
    <2> QED
      BY <2>1, <2>2
  <1>2. r = FlattenSeq(ss)
    BY DEF ElementsAt
  <1> HIDE DEF ss, r
  <1>3. r \in Seq(S)
    BY <1>1, <1>2, FlattenLayout
  <1>4. PICK off : IsLayout(off, ss) /\ IsFlat(off, ss, r)
    BY <1>1, <1>2, FlattenLayout
  <1>5. 1 \in 1..Len(ss) /\ 1 \in 1..Len(ss[1]) /\ Len(ss) \in Nat
    BY <1>1
  <1>6. off[0] = 0 /\ r[off[1 - 1] + 1] = ss[1][1]
    BY <1>4, <1>5 DEF IsLayout, IsFlat
  <1>7. off[1] = off[0] + Len(ss[1]) /\ off[1] <= off[Len(ss)] /\ Len(r) = off[Len(ss)]
    <2>1. 1 \in 0..Len(ss) /\ Len(ss) \in 0..Len(ss) /\ 1 <= Len(ss) /\ 1 - 1 = 0
      BY <1>5
    <2> QED
      BY <1>4, <1>5, <2>1 DEF IsLayout, IsFlat
  <1>8. r[1] = s[1]
    BY <1>1, <1>6
  <1>9. Len(r) >= 1
    <2>1. Len(ss[1]) = 1 /\ Len(r) \in Nat
      BY <1>1, <1>3
    <2> QED
      BY <1>6, <1>7, <2>1
  <1> QED
    BY <1>8, <1>9 DEF r

(* s has the elements of X, as many times as it likes, and no others. *)
Has(s, X) == s \in Seq(X) /\ \A x \in X : \E p \in 1..Len(s) : s[p] = x

(* Each of n sequences has the set X[b] of some b of I, and each b has one.    *)
PartsHave(ss, n, X, I, at) ==
  /\ ss = [i \in 1..n |-> ss[i]]
  /\ \A i \in 1..n : at[i] \in I /\ Has(ss[i], X[at[i]])
  /\ \A b \in I : \E i \in 1..n : at[i] = b

IsUnionOf(all, X, I) == \A x : x \in all <=> \E b \in I : x \in X[b]

(* What the parts have, the whole has. *)
LEMMA FlattenHas ==
  ASSUME NEW n \in Nat, NEW ss, NEW X, NEW I, NEW at, PartsHave(ss, n, X, I, at),
         NEW all, IsUnionOf(all, X, I)
  PROVE  Has(FlattenSeq(ss), all)
  <1>0. /\ ss = [i \in 1..n |-> ss[i]]
        /\ \A i \in 1..n : at[i] \in I /\ Has(ss[i], X[at[i]])
        /\ \A b \in I : \E i \in 1..n : at[i] = b
        /\ \A x : x \in all <=> \E b \in I : x \in X[b]
    BY DEF PartsHave, IsUnionOf
  <1>1. \A i \in 1..n : X[at[i]] \subseteq all
    BY <1>0
  <1>2. \A i \in 1..n : ss[i] \in Seq(all)
    <2> TAKE i \in 1..n
    <2>1. ss[i] \in Seq(X[at[i]])
      BY <1>0 DEF Has
    <2> QED
      BY <1>1, <2>1
  <1>3. ss \in Seq(Seq(all)) /\ Len(ss) = n
    <2>1. ss \in [1..n -> Seq(all)]
      BY <1>0, <1>2
    <2> QED
      BY <2>1
  <1> DEFINE flat == FlattenSeq(ss)
  <1>4. /\ flat \in Seq(all)
        /\ \A i \in 1..n : \A k \in 1..Len(ss[i]) : \E p \in 1..Len(flat) : flat[p] = ss[i][k]
    <2>1. /\ flat \in Seq(all)
          /\ \A i \in 1..Len(ss) : \A k \in 1..Len(ss[i]) :
               \E p \in 1..Len(flat) : flat[p] = ss[i][k]
      BY ONLY <1>3, FlattenMembers
    <2> QED
      BY ONLY <1>3, <2>1
  <1> HIDE DEF flat
  <1>5. ASSUME NEW x \in all PROVE \E p \in 1..Len(flat) : flat[p] = x
    <2>1. PICK b \in I : x \in X[b]
      BY <1>0
    <2>2. PICK i \in 1..n : at[i] = b
      BY <1>0
    <2>3. PICK k \in 1..Len(ss[i]) : ss[i][k] = x
      BY <1>0, <2>1, <2>2, Zenon DEF Has
    <2> QED
      BY <1>4, <2>3
  <1> QED
    BY <1>4, <1>5 DEF Has, flat

(* Nothing of nothing *)
LEMMA FlattenNone ==
  ASSUME NEW S, NEW ss \in Seq(Seq(S)), Len(ss) = 0
  PROVE  FlattenSeq(ss) = <<>>
  <1>1. ss \in Seq(Seq(S)) /\ 1..Len(ss) = {}
    OBVIOUS
  <1> DEFINE flat == FlattenSeq(ss)
  <1>2. /\ flat \in Seq(S)
        /\ \A p \in 1..Len(flat) : \E i \in 1..Len(ss) : \E k \in 1..Len(ss[i]) : flat[p] = ss[i][k]
    BY ONLY <1>1, FlattenMembers
  <1> HIDE DEF flat
  <1>3. ASSUME flat # <<>> PROVE FALSE
    <2>1. 1 \in 1..Len(flat)
      BY <1>2, <1>3
    <2> QED
      BY ONLY <2>1, <1>1, <1>2
  <1> QED
    BY <1>3 DEF flat

-----------------------------------------------------------------------------
(* Counting                                                                *)

(* Sets that are mapped one to one have as many members. *)
LEMMA CountsEqual ==
  ASSUME NEW A, IsFiniteSet(A), NEW B, NEW g \in [A -> B],
         \A x, y \in A : g[x] = g[y] => x = y, \A z \in B : \E x \in A : g[x] = z
  PROVE  IsFiniteSet(B) /\ Cardinality(A) = Cardinality(B)
  <1>1. g \in Bijection(A, B)
    BY DEF Bijection, Injection, Surjection, IsInjective
  <1>2. ExistsBijection(A, B)
    BY <1>1 DEF ExistsBijection
  <1> QED
    BY <1>2, FS_Bijection

(* R orders the members of K strictly, leaving no two side by side. *)
IsStrictOn(R, K) ==
  /\ \A j \in K : <<j, j>> \notin R
  /\ \A j, k, l \in K : <<j, k>> \in R /\ <<k, l>> \in R => <<j, l>> \in R
  /\ \A j, k \in K : j # k => <<j, k>> \in R \/ <<k, j>> \in R

(* Counting what comes before numbers the members of K from 0. *)
LEMMA OrderCounts ==
  ASSUME NEW K, IsFiniteSet(K), NEW R, IsStrictOn(R, K),
         NEW c, c = [k \in K |-> Cardinality({j \in K : <<j, k>> \in R})]
  PROVE  /\ \A k \in K : c[k] \in 0..(Cardinality(K) - 1)
         /\ \A i \in 0..(Cardinality(K) - 1) : \E k \in K : c[k] = i
         /\ \A j, k \in K : c[j] = c[k] => j = k
  <1> DEFINE n == Cardinality(K)
             Before(k) == {j \in K : <<j, k>> \in R}
  <1>1. n \in Nat
    BY FS_CardinalityType
  <1>2. \A k \in K : c[k] = Cardinality(Before(k))
    OBVIOUS
  <1>3. \A k \in K : Before(k) \subseteq K /\ k \notin Before(k)
    BY DEF IsStrictOn
  <1>4. \A j, k \in K : <<j, k>> \in R => Before(j) \subseteq Before(k) /\ j \in Before(k)
    BY DEF IsStrictOn
  <1> HIDE DEF Before, n
  <1>5. \A k \in K : IsFiniteSet(Before(k)) /\ c[k] \in Nat /\ c[k] < n
    <2> TAKE k \in K
    <2>1. IsFiniteSet(Before(k)) /\ Cardinality(Before(k)) <= n /\ Cardinality(Before(k)) # n
      BY <1>3, FS_Subset DEF n
    <2>2. Cardinality(Before(k)) \in Nat
      BY <2>1, FS_CardinalityType
    <2> QED
      BY <1>1, <1>2, <2>1, <2>2
  <1>6. \A j, k \in K : <<j, k>> \in R => c[j] < c[k]
    <2> TAKE j, k \in K
    <2> HAVE <<j, k>> \in R
    <2> DEFINE p == Cardinality(Before(j))
               q == Cardinality(Before(k))
    <2>1. Before(j) \in SUBSET Before(k) /\ Before(j) # Before(k)
      BY <1>3, <1>4
    <2>2. p <= q /\ p # q
      BY <1>5, <2>1, FS_Subset
    <2>3. c[j] = p /\ c[k] = q /\ p \in Nat /\ q \in Nat
      BY <1>2, <1>5
    <2> HIDE DEF p, q
    <2> QED
      BY <2>2, <2>3
  <1>7. \A j, k \in K : c[j] = c[k] => j = k
    <2> SUFFICES ASSUME NEW j \in K, NEW k \in K, c[j] = c[k], j # k PROVE FALSE
      OBVIOUS
    <2>1. <<j, k>> \in R \/ <<k, j>> \in R
      BY DEF IsStrictOn
    <2>2. c[j] < c[k] \/ c[k] < c[j]
      BY <1>6, <2>1
    <2>3. c[j] \in Nat /\ c[k] \in Nat
      BY <1>5
    <2> QED
      BY ONLY <2>2, <2>3, c[j] = c[k]
  <1>8. \A k \in K : c[k] \in 0..(n - 1)
    BY <1>1, <1>5
  <1>9. \A i \in 0..(n - 1) : \E k \in K : c[k] = i
    <2> DEFINE T == 0..(n - 1)
    <2>1. IsFiniteSet(T) /\ Cardinality(T) = n
      <3>1. 0 \in Int /\ n - 1 \in Int
        BY <1>1
      <3>2. IsFiniteSet(0..(n - 1)) /\ Cardinality(0..(n - 1)) = IF 0 > n - 1 THEN 0 ELSE n - 1 - 0 + 1
        BY <3>1, FS_Interval
      <3> QED
        BY <1>1, <3>2
    <2>2. c \in [K -> T]
      BY <1>8
    <2> HIDE DEF T
    <2>3. c \in Injection(K, T)
      BY <1>7, <2>2 DEF Injection, IsInjective
    <2>4. c \in Surjection(K, T)
      BY <2>1, <2>3, FS_Injection DEF n
    <2>5. \A i \in T : \E k \in K : c[k] = i
      BY <2>4 DEF Surjection
    <2> QED
      BY <2>5 DEF T
  <1> QED
    BY <1>7, <1>8, <1>9 DEF n

-----------------------------------------------------------------------------
(* Sums.                                                                   *)

(* g gives for every part of S the sum of f over what A has of it. *)
IsSumOf(g, f, S, A) ==
  /\ g \in [SUBSET S -> Int]
  /\ g[{}] = 0
  /\ \A s \in SUBSET S : \A x \in s : g[s] = (IF x \in A THEN f[x] ELSE 0) + g[s \ {x}]

IsSum(g, f, S) == IsSumOf(g, f, S, S)

(* One more element to sum *)
LEMMA SumOfOneMore ==
  ASSUME NEW f, NEW S, \A x \in S : f[x] \in Int, NEW A, NEW a \in S, a \notin A,
         NEW g, IsSumOf(g, f, S, A)
  PROVE  \E h : IsSumOf(h, f, S, A \cup {a})
  <1> DEFINE h == [s \in SUBSET S |-> IF a \in s THEN f[a] + g[s] ELSE g[s]]
             B == A \cup {a}
  <1>1. /\ \A s \in SUBSET S : g[s] \in Int
        /\ g[{}] = 0
        /\ \A s \in SUBSET S : \A x \in s : g[s] = (IF x \in A THEN f[x] ELSE 0) + g[s \ {x}]
    BY DEF IsSumOf
  <1>2. \A s \in SUBSET S : h[s] = IF a \in s THEN f[a] + g[s] ELSE g[s]
    OBVIOUS
  <1>3. h \in [SUBSET S -> Int]
    <2>1. \A s \in SUBSET S : (IF a \in s THEN f[a] + g[s] ELSE g[s]) \in Int
      BY <1>1
    <2> QED
      BY <2>1
  <1> HIDE DEF h
  <1>4. h[{}] = 0
    BY <1>1, <1>2
  <1>5. ASSUME NEW s \in SUBSET S, NEW x \in s
        PROVE  h[s] = (IF x \in B THEN f[x] ELSE 0) + h[s \ {x}]
    <2> DEFINE t == s \ {x}
    <2>1. t \in SUBSET S /\ x \notin t /\ (a \in t <=> a \in s /\ a # x)
      OBVIOUS
    <2>2. g[s] = (IF x \in A THEN f[x] ELSE 0) + g[t] /\ g[t] \in Int /\ g[s] \in Int
      BY <1>1, <2>1
    <2>3. /\ h[s] = IF a \in s THEN f[a] + g[s] ELSE g[s]
          /\ h[t] = IF a \in t THEN f[a] + g[t] ELSE g[t]
      BY <1>2, <2>1
    <2> HIDE DEF t
    <2>4. CASE x = a
      <3>1. a \in s /\ a \notin t /\ x \notin A /\ x \in B
        BY <2>1, <2>4
      <3>2. h[s] = f[a] + g[s] /\ h[t] = g[t] /\ g[s] = 0 + g[t]
        BY <2>2, <2>3, <3>1
      <3>3. h[s] = f[x] + h[t]
        BY <2>2, <2>4, <3>2
      <3> QED
        BY <3>1, <3>3 DEF t
    <2>5. CASE x # a
      <3>1. (a \in t <=> a \in s) /\ (x \in B <=> x \in A)
        BY <2>1, <2>5
      <3>2. CASE a \in s
        <4>1. h[s] = f[a] + g[s] /\ h[t] = f[a] + g[t]
          BY <2>3, <3>1, <3>2
        <4>2. CASE x \in A
          <5>1. g[s] = f[x] + g[t]
            BY <2>2, <4>2
          <5> DEFINE fa == f[a]
                     fx == f[x]
                     gt == g[t]
          <5>2. fa \in Int /\ fx \in Int /\ gt \in Int
            BY <2>2
          <5>3. h[s] = fa + (fx + gt) /\ h[t] = fa + gt
            BY <4>1, <5>1
          <5> HIDE DEF fa, fx, gt
          <5>4. h[s] = fx + h[t]
            BY <5>2, <5>3
          <5> QED
            BY <3>1, <4>2, <5>4 DEF t, fx
        <4>3. CASE x \notin A
          BY <2>2, <3>1, <4>1, <4>3 DEF t
        <4> QED
          BY <4>2, <4>3
      <3>3. CASE a \notin s
        BY <2>2, <2>3, <3>1, <3>3 DEF t
      <3> QED
        BY <3>2, <3>3
    <2> QED
      BY <2>4, <2>5
  <1>6. IsSumOf(h, f, S, B)
    BY <1>3, <1>4, <1>5 DEF IsSumOf
  <1> QED
    BY <1>6

(* Sums over the parts of a finite set exist. *)
LEMMA SumExists ==
  ASSUME NEW f, NEW S, IsFiniteSet(S), \A x \in S : f[x] \in Int
  PROVE  \E g : IsSum(g, f, S)
  <1> DEFINE T == {n \in Nat : \A A \in SUBSET S : Cardinality(A) = n => \E g : IsSumOf(g, f, S, A)}
  <1>1. 0 \in T
    <2> SUFFICES ASSUME NEW A \in SUBSET S, Cardinality(A) = 0 PROVE \E g : IsSumOf(g, f, S, A)
      OBVIOUS
    <2> DEFINE g == [s \in SUBSET S |-> 0]
    <2>1. A = {}
      <3>1. IsFiniteSet(A)
        BY FS_Subset
      <3> QED
        BY <3>1, FS_EmptySet
    <2>2. g \in [SUBSET S -> Int] /\ \A s \in SUBSET S : g[s] = 0
      OBVIOUS
    <2>3. \A s \in SUBSET S : \A x \in s : s \ {x} \in SUBSET S
      OBVIOUS
    <2> HIDE DEF g
    <2>4. IsSumOf(g, f, S, {})
      BY <2>2, <2>3 DEF IsSumOf
    <2> QED
      BY <2>1, <2>4
  <1>2. ASSUME NEW n \in Nat, n \in T PROVE n + 1 \in T
    <2> SUFFICES ASSUME NEW A \in SUBSET S, Cardinality(A) = n + 1
                 PROVE  \E g : IsSumOf(g, f, S, A)
      OBVIOUS
    <2>1. IsFiniteSet(A)
      BY FS_Subset
    <2>2. PICK a \in A : TRUE
      <3>1. A # {}
        BY <2>1, FS_EmptySet
      <3> QED
        BY <3>1
    <2> DEFINE B == A \ {a}
    <2>3. Cardinality(B) = n /\ B \in SUBSET S /\ a \notin B /\ B \cup {a} = A /\ a \in S
      <3>1. Cardinality(B) = Cardinality(A) - 1
        BY <2>1, <2>2, FS_RemoveElement
      <3>2. B \in SUBSET S /\ a \notin B /\ B \cup {a} = A /\ a \in S
        BY <2>2
      <3> QED
        BY <3>1, <3>2
    <2> HIDE DEF B
    <2>4. PICK g : IsSumOf(g, f, S, B)
      BY <1>2, <2>3
    <2> QED
      BY <2>3, <2>4, SumOfOneMore
  <1> HIDE DEF T
  <1>3. Cardinality(S) \in T
    <2>1. Cardinality(S) \in Nat
      BY FS_CardinalityType
    <2>2. \A n \in Nat : n \in T
      BY ONLY <1>1, <1>2, Induction
    <2> QED
      BY <2>1, <2>2
  <1> QED
    BY <1>3 DEF T, IsSum

(* The recursion of SumFunctionOnSet *)
IsSumSteps(h, f, A) ==
  h = [s \in SUBSET A |-> IF s = {} THEN 0
         ELSE f[CHOOSE x \in s : TRUE] + h[s \ {CHOOSE x \in s : TRUE}]]

(* What SumFunctionOnSet computes, element by element *)
LEMMA SumSteps ==
  ASSUME NEW f, NEW A, NEW g, IsSum(g, f, A)
  PROVE  \E h : IsSumSteps(h, f, A) /\ SumFunctionOnSet(f, A) = h[A]
  <1>1. IsSumSteps(g, f, A)
    <2>1. /\ g = [s \in SUBSET A |-> g[s]] /\ g[{}] = 0
          /\ \A s \in SUBSET A : \A x \in s : g[s] = (IF x \in A THEN f[x] ELSE 0) + g[s \ {x}]
      BY DEF IsSum, IsSumOf
    <2>2. \A s \in SUBSET A : g[s] = IF s = {} THEN 0
                          ELSE f[CHOOSE x \in s : TRUE] + g[s \ {CHOOSE x \in s : TRUE}]
      <3> SUFFICES ASSUME NEW s \in SUBSET A, s # {}
                   PROVE  g[s] = f[CHOOSE x \in s : TRUE] + g[s \ {CHOOSE x \in s : TRUE}]
        BY <2>1
      <3> DEFINE c == CHOOSE x \in s : TRUE
      <3>1. c \in s /\ c \in A
        OBVIOUS
      <3> HIDE DEF c
      <3>2. g[s] = f[c] + g[s \ {c}]
        BY <2>1, <3>1
      <3> QED
        BY <3>2 DEF c
    <2> QED
      BY <2>1, <2>2 DEF IsSumSteps
  <1>2. PICK h : IsSumSteps(h, f, A) /\ SumFunctionOnSet(f, A) = h[A]
    BY <1>1 DEF SumFunctionOnSet, FoldFunctionOnSet, MapThenFoldSet, IsSumSteps
  <1> QED
    BY <1>2

(* The sum over a part is that of the whole's parts *)
LEMMA SumPart ==
  ASSUME NEW f, NEW S, NEW g, IsSum(g, f, S), NEW A \in SUBSET S
  PROVE  IsSum([s \in SUBSET A |-> g[s]], f, A)
  <1> DEFINE h == [s \in SUBSET A |-> g[s]]
  <1>1. /\ g \in [SUBSET S -> Int] /\ g[{}] = 0
        /\ \A s \in SUBSET S : \A x \in s : g[s] = (IF x \in S THEN f[x] ELSE 0) + g[s \ {x}]
    BY DEF IsSum, IsSumOf
  <1>2. \A s \in SUBSET A : s \in SUBSET S /\ h[s] = g[s]
    OBVIOUS
  <1>3. h \in [SUBSET A -> Int]
    BY <1>1
  <1> HIDE DEF h
  <1>4. h[{}] = 0
    BY <1>1, <1>2
  <1>5. ASSUME NEW s \in SUBSET A, NEW x \in s
        PROVE  h[s] = (IF x \in A THEN f[x] ELSE 0) + h[s \ {x}]
    <2>1. s \ {x} \in SUBSET A /\ x \in A /\ x \in S
      BY <1>2
    <2>2. g[s] = f[x] + g[s \ {x}]
      BY <1>1, <1>2, <2>1
    <2>3. h[s] = f[x] + h[s \ {x}]
      BY <1>2, <2>1, <2>2
    <2> QED
      BY <2>1, <2>3
  <1>6. IsSum(h, f, A)
    BY <1>3, <1>4, <1>5 DEF IsSum, IsSumOf
  <1> QED
    BY <1>6 DEF h

(* A function that satisfies the recursion of SumFunctionOnSet is the sum *)
LEMMA SumStepsUnique ==
  ASSUME NEW f, NEW A, IsFiniteSet(A), NEW g, IsSum(g, f, A),
         NEW h, IsSumSteps(h, f, A)
  PROVE  h[A] = g[A]
  <1> DEFINE T == {n \in Nat : \A s \in SUBSET A : Cardinality(s) = n => h[s] = g[s]}
  <1>1. /\ g[{}] = 0
        /\ \A s \in SUBSET A : \A x \in s : g[s] = f[x] + g[s \ {x}]
    BY DEF IsSum, IsSumOf
  <1>2. /\ h[{}] = 0
        /\ \A s \in SUBSET A : s # {} =>
             h[s] = f[CHOOSE x \in s : TRUE] + h[s \ {CHOOSE x \in s : TRUE}]
    BY DEF IsSumSteps
  <1>3. \A s \in SUBSET A : IsFiniteSet(s)
    BY FS_Subset
  <1>4. 0 \in T
    <2>1. \A s \in SUBSET A : Cardinality(s) = 0 => s = {}
      BY <1>3, FS_EmptySet
    <2> QED
      BY <1>1, <1>2, <2>1
  <1>5. ASSUME NEW n \in Nat, n \in T PROVE n + 1 \in T
    <2> SUFFICES ASSUME NEW s \in SUBSET A, Cardinality(s) = n + 1 PROVE h[s] = g[s]
      OBVIOUS
    <2>1. s # {}
      <3>1. Cardinality({}) = 0
        BY FS_EmptySet
      <3> QED
        BY <3>1
    <2> DEFINE c == CHOOSE x \in s : TRUE
    <2>2. c \in s
      BY <2>1
    <2>3. h[s] = f[c] + h[s \ {c}]
      BY <1>2, <2>1
    <2> HIDE DEF c
    <2>4. s \ {c} \in SUBSET A /\ g[s] = f[c] + g[s \ {c}]
      BY <1>1, <2>2
    <2>5. Cardinality(s \ {c}) = n
      <3>1. Cardinality(s \ {c}) = Cardinality(s) - 1
        BY <1>3, <2>2, FS_RemoveElement
      <3> QED
        BY <3>1
    <2>6. h[s \ {c}] = g[s \ {c}]
      BY <1>5, <2>4, <2>5
    <2> QED
      BY <2>3, <2>4, <2>6
  <1> HIDE DEF T
  <1>6. \A n \in Nat : n \in T
    BY ONLY <1>4, <1>5, Induction
  <1>7. Cardinality(A) \in T
    BY <1>3, <1>6, FS_CardinalityType
  <1> QED
    BY <1>7 DEF T

(* f is summed over every part of S. *)
Summable(f, S) == IsFiniteSet(S) /\ \A x \in S : f[x] \in Int

(* What SumFunctionOnSet adds up *)
LEMMA SumIsSum ==
  ASSUME NEW f, NEW S, Summable(f, S)
  PROVE  \E g : IsSum(g, f, S) /\ \A A \in SUBSET S : SumFunctionOnSet(f, A) = g[A]
  <1>1. PICK g : IsSum(g, f, S)
    BY SumExists DEF Summable
  <1>2. ASSUME NEW A \in SUBSET S PROVE SumFunctionOnSet(f, A) = g[A]
    <2> DEFINE k == [s \in SUBSET A |-> g[s]]
    <2>1. IsSum(k, f, A)
      BY <1>1, SumPart
    <2>2. k[A] = g[A]
      OBVIOUS
    <2> HIDE DEF k
    <2>3. PICK h : IsSumSteps(h, f, A) /\ SumFunctionOnSet(f, A) = h[A]
      BY <2>1, SumSteps
    <2>4. IsFiniteSet(A)
      BY FS_Subset DEF Summable
    <2>5. h[A] = k[A]
      BY <2>1, <2>3, <2>4, SumStepsUnique
    <2> QED
      BY <2>2, <2>3, <2>5
  <1> QED
    BY <1>1, <1>2

(* A sum is a number, and that of no element is 0. *)
LEMMA SumType ==
  ASSUME NEW f, NEW S, Summable(f, S)
  PROVE  SumFunctionOnSet(f, S) \in Int /\ SumFunctionOnSet(f, {}) = 0
  <1>1. PICK g : IsSum(g, f, S) /\ \A A \in SUBSET S : SumFunctionOnSet(f, A) = g[A]
    BY SumIsSum
  <1> QED
    BY <1>1 DEF IsSum, IsSumOf

(* A sum without one of its elements *)
LEMMA SumWithout ==
  ASSUME NEW f, NEW S, Summable(f, S), NEW x \in S
  PROVE  SumFunctionOnSet(f, S) = f[x] + SumFunctionOnSet(f, S \ {x})
  <1>1. PICK g : IsSum(g, f, S) /\ \A A \in SUBSET S : SumFunctionOnSet(f, A) = g[A]
    BY SumIsSum
  <1>2. g[S] = f[x] + g[S \ {x}]
    BY <1>1 DEF IsSum, IsSumOf
  <1>3. S \ {x} \in SUBSET S
    OBVIOUS
  <1> QED
    BY <1>1, <1>2, <1>3

(* A sum in two parts *)
LEMMA SumInParts ==
  ASSUME NEW f, NEW S, Summable(f, S), NEW B \in SUBSET S
  PROVE  SumFunctionOnSet(f, S) = SumFunctionOnSet(f, S \ B) + SumFunctionOnSet(f, B)
  <1> DEFINE Sum(A) == SumFunctionOnSet(f, A)
             T == {n \in Nat : \A A \in SUBSET S : Cardinality(A) = n =>
                                 Sum(S) = Sum(S \ A) + Sum(A)}
  <1>1. \A A \in SUBSET S : Summable(f, A) /\ IsFiniteSet(A)
    BY FS_Subset DEF Summable
  <1>2. \A A \in SUBSET S : Sum(A) \in Int
    BY <1>1, SumType
  <1>3. Sum({}) = 0
    BY SumType
  <1>4. \A A \in SUBSET S : \A x \in A : f[x] \in Int /\ Sum(A) = f[x] + Sum(A \ {x})
    <2>1. \A A \in SUBSET S : \A x \in A : Sum(A) = f[x] + Sum(A \ {x})
      BY <1>1, SumWithout, ZenonT(60)
    <2> QED
      BY <1>1, <2>1 DEF Summable
  <1> HIDE DEF Sum
  <1>5. 0 \in T
    <2>1. \A A \in SUBSET S : Cardinality(A) = 0 => A = {}
      BY <1>1, FS_EmptySet
    <2>2. \A A \in SUBSET S : A = {} => S \ A = S
      OBVIOUS
    <2>3. ASSUME NEW A \in SUBSET S, Cardinality(A) = 0 PROVE Sum(S) = Sum(S \ A) + Sum(A)
      <3>1. A = {} /\ S \ A = S
        BY <2>1, <2>2, <2>3
      <3>2. Sum(S) \in Int /\ Sum(A) = 0 /\ Sum(S \ A) = Sum(S)
        BY <1>2, <1>3, <3>1
      <3> QED
        BY <3>2
    <2> QED
      BY <2>3
  <1>6. ASSUME NEW n \in Nat, n \in T PROVE n + 1 \in T
    <2> SUFFICES ASSUME NEW A \in SUBSET S, Cardinality(A) = n + 1
                 PROVE  Sum(S) = Sum(S \ A) + Sum(A)
      OBVIOUS
    <2>1. A # {}
      <3>1. Cardinality({}) = 0
        BY FS_EmptySet
      <3> QED
        BY <3>1
    <2>2. PICK x \in A : TRUE
      BY <2>1
    <2> DEFINE C == A \ {x}
    <2>3. Cardinality(C) = n
      <3>1. Cardinality(C) = Cardinality(A) - 1
        BY <1>1, <2>2, FS_RemoveElement
      <3> QED
        BY <3>1
    <2>4. /\ C \in SUBSET S /\ x \in S \ C /\ (S \ C) \ {x} = S \ A /\ S \ C \in SUBSET S
          /\ S \ A \in SUBSET S
      BY <2>2
    <2>5. Sum(S) = Sum(S \ C) + Sum(C)
      BY <1>6, <2>3, <2>4
    <2>6. Sum(A) = f[x] + Sum(C) /\ f[x] \in Int
      BY <1>4, <2>2
    <2> HIDE DEF C
    <2>7. Sum(S \ C) = f[x] + Sum(S \ A)
      BY <1>4, <2>4
    <2>8. Sum(C) \in Int /\ Sum(S \ A) \in Int
      BY <1>2, <2>4
    <2> QED
      BY <2>5, <2>6, <2>7, <2>8
  <1> HIDE DEF T
  <1>7. \A n \in Nat : n \in T
    BY ONLY <1>5, <1>6, Induction
  <1>8. Cardinality(B) \in T
    BY <1>1, <1>7, FS_CardinalityType
  <1> QED
    BY <1>8 DEF T, Sum

(* A term of a sum, when it is summed *)
Term(f, S, x) == IF x \in S THEN f[x] ELSE 0

FourTerms(f, S, x1, x2, x3, x4) ==
  /\ Summable(f, S)
  /\ SumFunctionOnSet(f, S) = Term(f, S, x1) + Term(f, S, x2) + Term(f, S, x3) + Term(f, S, x4)

Distinct(x1, x2, x3, x4) ==
  x1 # x2 /\ x1 # x3 /\ x1 # x4 /\ x2 # x3 /\ x2 # x4 /\ x3 # x4

(* The sum over what S has of four things *)
LEMMA SumOfFour ==
  ASSUME NEW f, NEW S, NEW x1, NEW x2, NEW x3, NEW x4, S \subseteq {x1, x2, x3, x4},
         Distinct(x1, x2, x3, x4), \A x \in S : f[x] \in Int
  PROVE  FourTerms(f, S, x1, x2, x3, x4)
  <1> DEFINE Sum(A) == SumFunctionOnSet(f, A)
  <1>1. Summable(f, S)
    <2> DEFINE B1 == {} \cup {x1}
               B2 == B1 \cup {x2}
               B3 == B2 \cup {x3}
               B4 == B3 \cup {x4}
    <2>1. S \subseteq B4
      OBVIOUS
    <2>2. IsFiniteSet(B1)
      BY FS_EmptySet, FS_AddElement
    <2> HIDE DEF B1
    <2>3. IsFiniteSet(B2)
      BY <2>2, FS_AddElement
    <2> HIDE DEF B2
    <2>4. IsFiniteSet(B3)
      BY <2>3, FS_AddElement
    <2> HIDE DEF B3
    <2>5. IsFiniteSet(B4)
      BY <2>4, FS_AddElement
    <2> HIDE DEF B4
    <2> QED
      BY <2>1, <2>5, FS_Subset DEF Summable
  <1>2. \A A \in SUBSET S : Summable(f, A)
    BY <1>1, FS_Subset DEF Summable
  <1>3. \A A \in SUBSET S : Sum(A) \in Int
    BY <1>2, SumType
  <1>4. ASSUME NEW A \in SUBSET S, NEW x PROVE Sum(A) = Term(f, A, x) + Sum(A \ {x})
    <2>1. CASE x \in A
      BY <1>2, <2>1, SumWithout DEF Term
    <2>2. CASE x \notin A
      <3> DEFINE B == A \ {x}
      <3>1. B = A /\ Term(f, A, x) = 0 /\ Sum(A) \in Int
        BY <1>3, <2>2 DEF Term
      <3> HIDE DEF Sum, B
      <3>2. Sum(A) = 0 + Sum(B)
        BY <3>1
      <3> QED
        BY <3>1, <3>2 DEF B
    <2> QED
      BY <2>1, <2>2
  <1>5. Sum({}) = 0
    BY <1>1, SumType
  <1> HIDE DEF Sum
  <1>6. \A x : Term(f, S, x) \in Int
    BY DEF Term
  <1> DEFINE A1 == S \ {x1}
             A2 == A1 \ {x2}
             A3 == A2 \ {x3}
             A4 == A3 \ {x4}
  <1>7. A1 \in SUBSET S /\ A2 \in SUBSET S /\ A3 \in SUBSET S /\ A4 = {}
    OBVIOUS
  <1>8. Term(f, A1, x2) = Term(f, S, x2) /\ Term(f, A2, x3) = Term(f, S, x3)
        /\ Term(f, A3, x4) = Term(f, S, x4)
    BY DEF Term, Distinct
  <1>9. Sum(S) = Term(f, S, x1) + Sum(A1)
    BY <1>4
  <1> HIDE DEF A1
  <1>10. Sum(A1) = Term(f, S, x2) + Sum(A2)
    BY <1>4, <1>7, <1>8
  <1> HIDE DEF A2
  <1>11. Sum(A2) = Term(f, S, x3) + Sum(A3)
    BY <1>4, <1>7, <1>8
  <1> HIDE DEF A3
  <1>12. Sum(A3) = Term(f, S, x4) + 0
    BY <1>4, <1>5, <1>7, <1>8
  <1>13. Sum(S) = Term(f, S, x1) + Term(f, S, x2) + Term(f, S, x3) + Term(f, S, x4)
    <2> DEFINE t1 == Term(f, S, x1)
               t2 == Term(f, S, x2)
               t3 == Term(f, S, x3)
               t4 == Term(f, S, x4)
    <2>1. t1 \in Int /\ t2 \in Int /\ t3 \in Int /\ t4 \in Int
      BY <1>6
    <2>2. Sum(S) = t1 + Sum(A1) /\ Sum(A1) = t2 + Sum(A2) /\ Sum(A2) = t3 + Sum(A3)
          /\ Sum(A3) = t4 + 0
      BY <1>9, <1>10, <1>11, <1>12
    <2> HIDE DEF t1, t2, t3, t4
    <2>3. Sum(S) = t1 + t2 + t3 + t4
      BY <2>1, <2>2
    <2> QED
      BY <2>3 DEF t1, t2, t3, t4
  <1> QED
    BY <1>1, <1>13 DEF Sum, FourTerms

(* What is summed of S in the blocks up to h, and in block b, when at gives   *)
(* the block                                                                 *)
UpTo(S, at, h) == {x \in S : at[x] <= h}
AtBlock(S, at, b) == {x \in S : at[x] = b}

(* The next block of a sum *)
LEMMA SumNextBlock ==
  ASSUME NEW f, NEW S, Summable(f, S), NEW at, \A x \in S : at[x] \in Int, NEW h \in Int
  PROVE  /\ SumFunctionOnSet(f, UpTo(S, at, h)) \in Int
         /\ SumFunctionOnSet(f, AtBlock(S, at, h + 1)) \in Int
         /\ SumFunctionOnSet(f, UpTo(S, at, h + 1)) =
              SumFunctionOnSet(f, UpTo(S, at, h)) + SumFunctionOnSet(f, AtBlock(S, at, h + 1))
  <1> DEFINE A == UpTo(S, at, h)
             B == UpTo(S, at, h + 1)
             C == AtBlock(S, at, h + 1)
  <1>1. A \in SUBSET S /\ B \in SUBSET S /\ C \in SUBSET S
    BY DEF UpTo, AtBlock
  <1>2. Summable(f, A) /\ Summable(f, B) /\ Summable(f, C)
    BY <1>1, FS_Subset DEF Summable
  <1>3. C \in SUBSET B /\ B \ C = A
    BY DEF UpTo, AtBlock
  <1> HIDE DEF A, B, C
  <1>4. SumFunctionOnSet(f, B) = SumFunctionOnSet(f, B \ C) + SumFunctionOnSet(f, C)
    BY <1>2, <1>3, SumInParts
  <1>5. SumFunctionOnSet(f, A) \in Int /\ SumFunctionOnSet(f, C) \in Int
    BY <1>2, SumType
  <1> QED
    BY <1>3, <1>4, <1>5 DEF A, B, C

(* f sums to M more over X than over Y, in every block and over all of them. *)
DifferInBlocks(f, X, Y, at, lo, hi, M) ==
  /\ \A x \in X \cup Y : at[x] \in lo..hi
  /\ \A b \in lo..hi :
       M[b] = SumFunctionOnSet(f, AtBlock(X, at, b)) - SumFunctionOnSet(f, AtBlock(Y, at, b))

Differ(f, X, Y, lo, hi, M) ==
  SumFunctionOnSet(f, X) - SumFunctionOnSet(f, Y) = SumFunctionOnSet(M, lo..hi)

(* Two sums that differ in every block by M differ by the sum of M. *)
LEMMA SumByBlock ==
  ASSUME NEW f, NEW X, NEW Y, Summable(f, X), Summable(f, Y), NEW lo \in Int, NEW hi \in Int,
         lo - 1 <= hi, NEW at, NEW M, DifferInBlocks(f, X, Y, at, lo, hi, M)
  PROVE  Differ(f, X, Y, lo, hi, M)
  <1> DEFINE Sx(h) == SumFunctionOnSet(f, UpTo(X, at, h))
             Sy(h) == SumFunctionOnSet(f, UpTo(Y, at, h))
             Dx(b) == SumFunctionOnSet(f, AtBlock(X, at, b))
             Dy(b) == SumFunctionOnSet(f, AtBlock(Y, at, b))
             Sm(h) == SumFunctionOnSet(M, lo..h)
             T == {n \in Nat : lo - 1 + n <= hi =>
                     Sx(lo - 1 + n) - Sy(lo - 1 + n) = Sm(lo - 1 + n)}
  <1>0. \A x \in X \cup Y : at[x] \in lo..hi
    BY DEF DifferInBlocks
  <1>1. /\ \A x \in X : at[x] \in Int
        /\ \A y \in Y : at[y] \in Int
    BY <1>0
  <1>2. \A h \in Int : /\ Sx(h) \in Int /\ Dx(h + 1) \in Int
                       /\ Sx(h + 1) = Sx(h) + Dx(h + 1)
    BY <1>1, SumNextBlock
  <1>3. \A h \in Int : /\ Sy(h) \in Int /\ Dy(h + 1) \in Int
                       /\ Sy(h + 1) = Sy(h) + Dy(h + 1)
    BY <1>1, SumNextBlock
  <1>4. \A b \in lo..hi : M[b] = Dx(b) - Dy(b)
    BY DEF DifferInBlocks
  <1>5. \A b \in lo..hi : M[b] \in Int
    <2> SUFFICES ASSUME NEW b \in lo..hi PROVE M[b] \in Int
      OBVIOUS
    <2>1. b - 1 \in Int /\ (b - 1) + 1 = b
      OBVIOUS
    <2> HIDE DEF Dx, Dy
    <2>2. Dx(b) \in Int /\ Dy(b) \in Int
      BY <1>2, <1>3, <2>1
    <2> QED
      BY <1>4, <2>2
  <1>6. \A h \in Int : h <= hi => Summable(M, lo..h)
    <2> SUFFICES ASSUME NEW h \in Int, h <= hi PROVE Summable(M, lo..h)
      OBVIOUS
    <2>1. IsFiniteSet(lo..h)
      BY FS_Interval
    <2>2. \A b \in lo..h : b \in lo..hi
      OBVIOUS
    <2> QED
      BY <1>5, <2>1, <2>2 DEF Summable
  <1>7. \A h \in Int : h + 1 \in lo..hi => Sm(h + 1) = M[h + 1] + Sm(h) /\ Sm(h) \in Int
    <2> SUFFICES ASSUME NEW h \in Int, h + 1 \in lo..hi
                 PROVE  Sm(h + 1) = M[h + 1] + Sm(h) /\ Sm(h) \in Int
      OBVIOUS
    <2>1. Summable(M, lo..(h + 1)) /\ Summable(M, lo..h)
      BY <1>6
    <2>2. h + 1 \in lo..(h + 1) /\ (lo..(h + 1)) \ {h + 1} = lo..h
      OBVIOUS
    <2> DEFINE A == lo..(h + 1)
    <2>3. A \ {h + 1} = lo..h /\ h + 1 \in A /\ Summable(M, A)
      BY <2>1, <2>2
    <2> HIDE DEF A
    <2>4. SumFunctionOnSet(M, A) = M[h + 1] + SumFunctionOnSet(M, A \ {h + 1})
      BY <2>3, SumWithout
    <2> QED
      BY <2>1, <2>3, <2>4, SumType DEF A
  <1>8. Sx(lo - 1) = 0 /\ Sy(lo - 1) = 0 /\ Sm(lo - 1) = 0
    <2>1. UpTo(X, at, lo - 1) = {} /\ UpTo(Y, at, lo - 1) = {} /\ lo..(lo - 1) = {}
      BY <1>0 DEF UpTo
    <2>2. SumFunctionOnSet(f, {}) = 0 /\ SumFunctionOnSet(M, {}) = 0
      BY <1>6, SumType
    <2> QED
      BY <2>1, <2>2
  <1>9. UpTo(X, at, hi) = X /\ UpTo(Y, at, hi) = Y
    BY <1>0 DEF UpTo
  <1>10. Sx(hi) = SumFunctionOnSet(f, X) /\ Sy(hi) = SumFunctionOnSet(f, Y)
         /\ Sm(hi) = SumFunctionOnSet(M, lo..hi)
    BY <1>9
  <1> HIDE DEF Sx, Sy, Dx, Dy, Sm
  <1>11. 0 \in T
    BY <1>8
  <1>12. ASSUME NEW n \in Nat, n \in T PROVE n + 1 \in T
    <2> SUFFICES ASSUME lo - 1 + (n + 1) <= hi
                 PROVE  Sx(lo - 1 + (n + 1)) - Sy(lo - 1 + (n + 1)) = Sm(lo - 1 + (n + 1))
      OBVIOUS
    <2> DEFINE h == lo - 1 + n
    <2>1. h \in Int /\ h <= hi /\ h + 1 \in lo..hi /\ lo - 1 + (n + 1) = h + 1
      OBVIOUS
    <2>2. Sx(h) - Sy(h) = Sm(h)
      BY <1>12, <2>1
    <2> HIDE DEF h
    <2>3. /\ Sx(h) \in Int /\ Dx(h + 1) \in Int /\ Sx(h + 1) = Sx(h) + Dx(h + 1)
          /\ Sy(h) \in Int /\ Dy(h + 1) \in Int /\ Sy(h + 1) = Sy(h) + Dy(h + 1)
          /\ M[h + 1] = Dx(h + 1) - Dy(h + 1)
          /\ Sm(h + 1) = M[h + 1] + Sm(h) /\ Sm(h) \in Int
      BY <1>2, <1>3, <1>4, <1>7, <2>1
    <2>4. Sx(h + 1) - Sy(h + 1) = Sm(h + 1)
      BY <2>2, <2>3
    <2> QED
      BY <2>1, <2>4
  <1>13. hi - lo + 1 \in T
    <2>1. \A n \in Nat : n \in T
      <3> HIDE DEF T
      <3> QED
        BY ONLY <1>11, <1>12, Induction
    <2>2. hi - lo + 1 \in Nat
      OBVIOUS
    <2> QED
      BY <2>1, <2>2
  <1>14. lo - 1 + (hi - lo + 1) = hi
    OBVIOUS
  <1> QED
    BY <1>10, <1>13, <1>14 DEF Differ

-----------------------------------------------------------------------------
(* Short lists.                                                            *)

(* What Appended says of \o is all there is to it. *)
LEMMA AppendedIs ==
  ASSUME NEW S, NEW p \in Seq(S), NEW q \in Seq(S), NEW r, Appended(r, p, q, S)
  PROVE  p \o q = r
  <1>1. Appended(p \o q, p, q, S)
    BY NextPart
  <1>2. Len(p) \in Nat /\ Len(q) \in Nat
    OBVIOUS
  <1> DEFINE t == p \o q
  <1>3. /\ t \in Seq(S) /\ r \in Seq(S) /\ Len(t) = Len(r) /\ Len(r) = Len(p) + Len(q)
        /\ \A i \in 1..Len(p) : t[i] = p[i] /\ r[i] = p[i]
        /\ \A i \in 1..Len(q) : t[Len(p) + i] = q[i] /\ r[Len(p) + i] = q[i]
    BY <1>1 DEF Appended
  <1> HIDE DEF t
  <1>4. \A i \in 1..Len(r) : t[i] = r[i]
    <2> TAKE i \in 1..Len(r)
    <2>1. CASE i <= Len(p)
      BY <1>2, <1>3, <2>1
    <2>2. CASE i > Len(p)
      <3> DEFINE k == i - Len(p)
      <3>1. k \in 1..Len(q) /\ i = Len(p) + k
        BY <1>2, <1>3, <2>2
      <3> HIDE DEF k
      <3> QED
        BY <1>3, <3>1
    <2> QED
      BY <1>2, <2>1, <2>2
  <1>5. t = r
    BY <1>3, <1>4
  <1> QED
    BY <1>5 DEF t

(* Some concatenations *)
LEMMA ShortLists ==
  ASSUME NEW x, NEW y, NEW z, NEW u
  PROVE  /\ <<>> \o <<>> = <<>> /\ <<>> \o <<x>> = <<x>> /\ <<x>> \o <<>> = <<x>>
         /\ <<x>> \o <<y>> = <<x, y>>
         /\ <<x, y>> \o <<z>> = <<x, y, z>>
         /\ <<x, y, z>> \o <<u>> = <<x, y, z, u>>
  <1> DEFINE S == {x, y, z, u}
  <1>0. x \in S /\ y \in S /\ z \in S /\ u \in S
    OBVIOUS
  <1> HIDE DEF S
  <1>1. <<>> \in Seq(S)
    OBVIOUS
  <1>2. \A s \in S : <<s>> \in Seq(S)
    OBVIOUS
  <1>3. \A s, t \in S : <<s, t>> \in Seq(S)
    OBVIOUS
  <1>4. \A s, t, v \in S : <<s, t, v>> \in Seq(S)
    OBVIOUS
  <1>5. <<>> \o <<>> = <<>> /\ <<>> \o <<x>> = <<x>> /\ <<x>> \o <<>> = <<x>>
    BY <1>0, <1>1, <1>2
  <1>6. <<x>> \o <<y>> = <<x, y>>
    <2> DEFINE p == <<x>>
               q == <<y>>
               r == <<x, y>>
    <2>1. p \in Seq(S) /\ q \in Seq(S) /\ r \in Seq(S)
      BY <1>0, <1>2, <1>3
    <2>2. Len(p) = 1 /\ Len(q) = 1 /\ Len(r) = 2 /\ r[1] = p[1] /\ r[2] = q[1]
      OBVIOUS
    <2> HIDE DEF p, q, r
    <2>3. (\A i \in 1..Len(p) : r[i] = p[i]) /\ (\A i \in 1..Len(q) : r[Len(p) + i] = q[i])
      BY <2>2
    <2>4. Appended(r, p, q, S)
      BY <2>1, <2>2, <2>3 DEF Appended
    <2>5. p \o q = r
      BY ONLY <2>1, <2>4, AppendedIs
    <2> QED
      BY <2>5 DEF p, q, r
  <1>7. <<x, y>> \o <<z>> = <<x, y, z>>
    <2> DEFINE p == <<x, y>>
               q == <<z>>
               r == <<x, y, z>>
    <2>1. p \in Seq(S) /\ q \in Seq(S) /\ r \in Seq(S)
      BY <1>0, <1>2, <1>3, <1>4
    <2>2. Len(p) = 2 /\ Len(q) = 1 /\ Len(r) = 3 /\ r[1] = p[1] /\ r[2] = p[2] /\ r[3] = q[1]
      OBVIOUS
    <2> HIDE DEF p, q, r
    <2>3. (\A i \in 1..Len(p) : r[i] = p[i]) /\ (\A i \in 1..Len(q) : r[Len(p) + i] = q[i])
      BY <2>2
    <2>4. Appended(r, p, q, S)
      BY <2>1, <2>2, <2>3 DEF Appended
    <2>5. p \o q = r
      BY ONLY <2>1, <2>4, AppendedIs
    <2> QED
      BY <2>5 DEF p, q, r
  <1>8. <<x, y, z>> \o <<u>> = <<x, y, z, u>>
    <2> DEFINE p == <<x, y, z>>
               q == <<u>>
               r == <<x, y, z, u>>
    <2>1. p \in Seq(S) /\ q \in Seq(S) /\ r \in Seq(S)
      BY <1>0, <1>2, <1>4
    <2>2. /\ Len(p) = 3 /\ Len(q) = 1 /\ Len(r) = 4
          /\ r[1] = p[1] /\ r[2] = p[2] /\ r[3] = p[3] /\ r[4] = q[1]
      OBVIOUS
    <2> HIDE DEF p, q, r
    <2>3. (\A i \in 1..Len(p) : r[i] = p[i]) /\ (\A i \in 1..Len(q) : r[Len(p) + i] = q[i])
      BY <2>2
    <2>4. Appended(r, p, q, S)
      BY <2>1, <2>2, <2>3 DEF Appended
    <2>5. p \o q = r
      BY ONLY <2>1, <2>4, AppendedIs
    <2> QED
      BY <2>5 DEF p, q, r
  <1> QED
    BY <1>5, <1>6, <1>7, <1>8

(* The parts of a short list of lists *)
LEMMA FlattenShort ==
  ASSUME NEW ss, NEW n \in 1..4, ss = [i \in 1..n |-> ss[i]]
  PROVE  /\ n = 1 => FlattenSeq(ss) = ss[1]
         /\ n = 2 => FlattenSeq(ss) = ss[1] \o ss[2]
         /\ n = 3 => FlattenSeq(ss) = (ss[1] \o ss[2]) \o ss[3]
         /\ n = 4 => FlattenSeq(ss) = ((ss[1] \o ss[2]) \o ss[3]) \o ss[4]
  <1>1. Len(ss) = n /\ n \in Nat \ {0}
    OBVIOUS
  <1>2. PICK g : /\ g[1] = ss[1]
                 /\ \A i \in 2..Len(ss) : g[i] = g[i - 1] \o ss[i]
                 /\ FlattenSeq(ss) = g[Len(ss)]
    BY <1>1, FlattenParts
  <1>3. /\ n >= 2 => g[2] = g[1] \o ss[2]
        /\ n >= 3 => g[3] = g[2] \o ss[3]
        /\ n >= 4 => g[4] = g[3] \o ss[4]
    <2>1. /\ n >= 2 => 2 \in 2..n
          /\ n >= 3 => 3 \in 2..n
          /\ n >= 4 => 4 \in 2..n
      OBVIOUS
    <2>2. 2 - 1 = 1 /\ 3 - 1 = 2 /\ 4 - 1 = 3
      OBVIOUS
    <2> QED
      BY <1>1, <1>2, <2>1, <2>2
  <1> DEFINE a == ss[1]
             b == ss[2]
             c == ss[3]
             d == ss[4]
             flat == FlattenSeq(ss)
  <1>4. /\ g[1] = a /\ flat = g[n]
        /\ n >= 2 => g[2] = g[1] \o b
        /\ n >= 3 => g[3] = g[2] \o c
        /\ n >= 4 => g[4] = g[3] \o d
    BY <1>1, <1>2, <1>3
  <1> HIDE DEF a, b, c, d, flat
  <1> DEFINE ab == a \o b
             abc == ab \o c
  <1>5. n >= 2 => g[2] = ab
    BY <1>4
  <1> HIDE DEF ab
  <1>6. n >= 3 => g[3] = abc
    <2>1. n >= 3 => n >= 2
      OBVIOUS
    <2> QED
      BY ONLY <1>4, <1>5, <2>1, Zenon
  <1> HIDE DEF abc
  <1>7. n >= 4 => g[4] = abc \o d
    <2>1. n >= 4 => n >= 3
      OBVIOUS
    <2> QED
      BY ONLY <1>4, <1>6, <2>1, Zenon
  <1>8. /\ n = 1 => flat = a
        /\ n = 2 => flat = ab
        /\ n = 3 => flat = abc
        /\ n = 4 => flat = abc \o d
    BY <1>4, <1>5, <1>6, <1>7
  <1> QED
    BY <1>8 DEF a, b, c, d, flat, ab, abc

(* G gives for every part of S what its elements add up to. *)
AddsUp(G, f, S) ==
  G[{}] = 0 /\ \A A \in SUBSET S : \A x \in A : G[A] = f[x] + G[A \ {x}]

(* Then G[S] is the sum. *)
LEMMA SumIs ==
  ASSUME NEW f, NEW S, Summable(f, S), NEW G, AddsUp(G, f, S)
  PROVE  SumFunctionOnSet(f, S) = G[S]
  <1> DEFINE Sum(A) == SumFunctionOnSet(f, A)
             T == {n \in Nat : \A A \in SUBSET S : Cardinality(A) = n => Sum(A) = G[A]}
  <1>1. \A A \in SUBSET S : Summable(f, A) /\ IsFiniteSet(A)
    BY FS_Subset DEF Summable
  <1>2. Sum({}) = 0 /\ G[{}] = 0
    BY SumType DEF AddsUp
  <1>3. \A A \in SUBSET S : \A x \in A : Sum(A) = f[x] + Sum(A \ {x})
    BY <1>1, SumWithout, ZenonT(60)
  <1>4. \A A \in SUBSET S : \A x \in A : G[A] = f[x] + G[A \ {x}]
    BY DEF AddsUp
  <1> HIDE DEF Sum
  <1>5. 0 \in T
    <2>1. \A A \in SUBSET S : Cardinality(A) = 0 => A = {}
      BY <1>1, FS_EmptySet
    <2> QED
      BY <1>2, <2>1
  <1>6. ASSUME NEW n \in Nat, n \in T PROVE n + 1 \in T
    <2> SUFFICES ASSUME NEW A \in SUBSET S, Cardinality(A) = n + 1 PROVE Sum(A) = G[A]
      OBVIOUS
    <2>1. A # {}
      BY FS_EmptySet
    <2>2. PICK x \in A : TRUE
      BY <2>1
    <2>3. A \ {x} \in SUBSET S /\ Cardinality(A \ {x}) = n
      <3>1. IsFiniteSet(A)
        BY <1>1
      <3>2. Cardinality(A \ {x}) = Cardinality(A) - 1
        BY <3>1, FS_RemoveElement
      <3> QED
        BY <3>2
    <2>4. Sum(A \ {x}) = G[A \ {x}]
      BY <1>6, <2>3
    <2>5. Sum(A) = f[x] + Sum(A \ {x}) /\ G[A] = f[x] + G[A \ {x}]
      BY <1>3, <1>4
    <2> QED
      BY <2>4, <2>5
  <1>7. \A n \in Nat : n \in T
    <2> HIDE DEF T
    <2> QED
      BY ONLY <1>5, <1>6, Induction
  <1>8. Cardinality(S) \in Nat
    BY <1>1, FS_CardinalityType
  <1>9. Sum(S) = G[S]
    BY <1>7, <1>8
  <1> QED
    BY <1>9 DEF Sum

(* p takes the elements of K to those of I, one to each. *)
Pairs(p, K, I) ==
  /\ p \in [K -> I] /\ \A i \in I : \E k \in K : p[k] = i
  /\ \A j, k \in K : p[j] = p[k] => j = k

(* A sum over other names of the same things *)
LEMMA SumMapped ==
  ASSUME NEW f, NEW I, NEW g, NEW K, Summable(g, K), NEW p, Pairs(p, K, I),
         \A k \in K : g[k] = f[p[k]]
  PROVE  Summable(f, I) /\ SumFunctionOnSet(f, I) = SumFunctionOnSet(g, K)
  <1>1. /\ p \in [K -> I] /\ \A i \in I : \E k \in K : p[k] = i
        /\ \A j, k \in K : p[j] = p[k] => j = k
    BY DEF Pairs
  <1>2. Summable(f, I)
    <2>1. IsFiniteSet(I)
      BY <1>1, CountsEqual DEF Summable
    <2>2. \A i \in I : f[i] \in Int
      BY <1>1 DEF Summable
    <2> QED
      BY <2>1, <2>2 DEF Summable
  <1> DEFINE Image(A) == {p[k] : k \in A}
             G == [A \in SUBSET K |-> SumFunctionOnSet(f, Image(A))]
  <1>3. AddsUp(G, g, K)
    <2>1. \A A \in SUBSET K : Image(A) \in SUBSET I
      BY <1>1
    <2>2. \A A \in SUBSET K : Summable(f, Image(A))
      BY <1>2, <2>1, FS_Subset DEF Summable
    <2>3. G[{}] = 0
      <3>1. Image({}) = {}
        OBVIOUS
      <3>2. SumFunctionOnSet(f, {}) = 0
        BY <1>2, SumType
      <3> QED
        BY <3>1, <3>2
    <2>4. ASSUME NEW A \in SUBSET K, NEW x \in A PROVE G[A] = g[x] + G[A \ {x}]
      <3>1. Image(A) \ {p[x]} = Image(A \ {x}) /\ p[x] \in Image(A)
        BY <1>1
      <3> HIDE DEF Image
      <3>2. SumFunctionOnSet(f, Image(A)) = f[p[x]] + SumFunctionOnSet(f, Image(A) \ {p[x]})
        BY <2>2, <3>1, SumWithout
      <3>3. A \ {x} \in SUBSET K
        OBVIOUS
      <3> QED
        BY <3>1, <3>2, <3>3
    <2> HIDE DEF G
    <2> QED
      BY <2>3, <2>4 DEF AddsUp
  <1>4. Image(K) = I
    BY <1>1
  <1>5. G[K] = SumFunctionOnSet(f, I)
    BY <1>4
  <1> HIDE DEF G
  <1> QED
    BY <1>2, <1>3, <1>5, SumIs

(* Functions that agree on a set have one sum over it. *)
LEMMA SumSame ==
  ASSUME NEW f, NEW g, NEW S, Summable(g, S), \A x \in S : g[x] = f[x]
  PROVE  Summable(f, S) /\ SumFunctionOnSet(f, S) = SumFunctionOnSet(g, S)
  <1> DEFINE p == [x \in S |-> x]
  <1>1. Pairs(p, S, S) /\ \A x \in S : g[x] = f[p[x]]
    BY DEF Pairs
  <1> HIDE DEF p
  <1> QED
    BY <1>1, SumMapped

(* g is what f counts for x in X, less what it counts for x in Y. *)
IsDifference(g, f, S, X, Y) ==
  /\ X \in SUBSET S /\ Y \in SUBSET S
  /\ \A x \in S : g[x] = Term(f, X, x) - Term(f, Y, x)

AddsUpTo(g, f, S, X, Y) ==
  /\ Summable(g, S)
  /\ SumFunctionOnSet(g, S) = SumFunctionOnSet(f, X) - SumFunctionOnSet(f, Y)

(* A sum over a part less a sum over another *)
LEMMA SumOfDifference ==
  ASSUME NEW f, NEW S, Summable(f, S), NEW X, NEW Y, NEW g, IsDifference(g, f, S, X, Y)
  PROVE  AddsUpTo(g, f, S, X, Y)
  <1>0. /\ X \in SUBSET S /\ Y \in SUBSET S
        /\ \A x \in S : g[x] = Term(f, X, x) - Term(f, Y, x)
    BY DEF IsDifference
  <1> USE <1>0
  <1> DEFINE Sum(A) == SumFunctionOnSet(f, A)
             G == [A \in SUBSET S |-> Sum(X \cap A) - Sum(Y \cap A)]
             Without(Z, A, x) ==
               /\ Sum(Z \cap A) = Term(f, Z, x) + Sum(Z \cap (A \ {x}))
               /\ Sum(Z \cap A) \in Int /\ Sum(Z \cap (A \ {x})) \in Int /\ Term(f, Z, x) \in Int
  <1>1. \A A \in SUBSET S : Summable(f, A)
    BY FS_Subset DEF Summable
  <1>2. \A A \in SUBSET S : Sum(A) \in Int
    BY <1>1, SumType
  <1>3. Sum({}) = 0
    BY SumType
  <1>4. \A A \in SUBSET S : \A x \in A : Sum(A) = f[x] + Sum(A \ {x})
    BY <1>1, SumWithout, ZenonT(60)
  <1>5. \A x \in S : f[x] \in Int
    BY DEF Summable
  <1> HIDE DEF Sum
  <1>6. ASSUME NEW Z \in SUBSET S, NEW A \in SUBSET S, NEW x \in A
        PROVE  Without(Z, A, x)
    <2> DEFINE B == Z \cap A
               C == Z \cap (A \ {x})
    <2>1. B \in SUBSET S /\ C \in SUBSET S /\ C = B \ {x} /\ (x \in B <=> x \in Z)
      OBVIOUS
    <2> HIDE DEF B, C
    <2>2. Sum(B) \in Int /\ Sum(C) \in Int
      BY <1>2, <2>1
    <2>3. CASE x \in Z
      <3>1. Sum(B) = f[x] + Sum(C) /\ Term(f, Z, x) = f[x] /\ f[x] \in Int
        BY <1>4, <1>5, <2>1, <2>3 DEF Term
      <3> QED
        BY <2>2, <3>1 DEF B, C
    <2>4. CASE x \notin Z
      <3>1. B = C /\ Term(f, Z, x) = 0
        BY <2>1, <2>4 DEF Term
      <3>2. Sum(B) = 0 + Sum(C)
        BY <2>2, <3>1
      <3> QED
        BY <2>2, <3>1, <3>2 DEF B, C
    <2> QED
      BY <2>3, <2>4
  <1> HIDE DEF Without
  <1>7. Summable(g, S)
    <2>1. \A x \in S : Term(f, X, x) \in Int /\ Term(f, Y, x) \in Int
      BY <1>5 DEF Term
    <2>2. \A x \in S : g[x] \in Int
      BY <1>0, <2>1
    <2> QED
      BY <2>2 DEF Summable
  <1>8. AddsUp(G, g, S)
    <2>1. G[{}] = 0
      <3>1. X \cap {} = {} /\ Y \cap {} = {}
        OBVIOUS
      <3> QED
        BY <1>3, <3>1
    <2>2. ASSUME NEW A \in SUBSET S, NEW x \in A PROVE G[A] = g[x] + G[A \ {x}]
      <3> DEFINE x1 == Sum(X \cap A)
                 x2 == Sum(X \cap (A \ {x}))
                 y1 == Sum(Y \cap A)
                 y2 == Sum(Y \cap (A \ {x}))
                 tx == Term(f, X, x)
                 ty == Term(f, Y, x)
      <3>0. Without(X, A, x) /\ Without(Y, A, x)
        BY <1>0, <1>6
      <3>1. x1 = tx + x2 /\ x1 \in Int /\ x2 \in Int /\ tx \in Int
        BY ONLY <3>0 DEF Without
      <3>2. y1 = ty + y2 /\ y1 \in Int /\ y2 \in Int /\ ty \in Int
        BY ONLY <3>0 DEF Without
      <3>3. G[A] = x1 - y1 /\ G[A \ {x}] = x2 - y2 /\ g[x] = tx - ty
        BY <1>0
      <3> HIDE DEF G, x1, x2, y1, y2, tx, ty
      <3> QED
        BY <3>1, <3>2, <3>3
    <2> HIDE DEF G
    <2> QED
      BY <2>1, <2>2 DEF AddsUp
  <1>9. G[S] = Sum(X) - Sum(Y)
    <2>1. X \cap S = X /\ Y \cap S = Y
      BY <1>0
    <2> QED
      BY <2>1
  <1> HIDE DEF G
  <1>10. SumFunctionOnSet(g, S) = G[S]
    BY <1>7, <1>8, SumIs
  <1> QED
    BY <1>7, <1>9, <1>10 DEF Sum, AddsUpTo

(* The sum of what two functions have together *)
LEMMA SumOfTwo ==
  ASSUME NEW f, NEW g, NEW S, Summable(f, S), Summable(g, S),
         NEW h, \A x \in S : h[x] = f[x] + g[x]
  PROVE  /\ Summable(h, S)
         /\ SumFunctionOnSet(h, S) = SumFunctionOnSet(f, S) + SumFunctionOnSet(g, S)
  <1> DEFINE F(A) == SumFunctionOnSet(f, A)
             E(A) == SumFunctionOnSet(g, A)
             G == [A \in SUBSET S |-> F(A) + E(A)]
  <1>1. \A A \in SUBSET S : Summable(f, A) /\ Summable(g, A)
    BY FS_Subset DEF Summable
  <1>2. \A A \in SUBSET S : F(A) \in Int /\ E(A) \in Int
    BY <1>1, SumType
  <1>3. F({}) = 0 /\ E({}) = 0
    BY SumType
  <1>4. \A A \in SUBSET S : \A x \in A : F(A) = f[x] + F(A \ {x})
    BY <1>1, SumWithout, ZenonT(60)
  <1>5. \A A \in SUBSET S : \A x \in A : E(A) = g[x] + E(A \ {x})
    BY <1>1, SumWithout, ZenonT(60)
  <1>6. \A x \in S : f[x] \in Int /\ g[x] \in Int
    BY DEF Summable
  <1> HIDE DEF F, E
  <1>7. Summable(h, S)
    BY <1>6 DEF Summable
  <1>8. AddsUp(G, h, S)
    <2>1. G[{}] = 0
      BY <1>3
    <2>2. ASSUME NEW A \in SUBSET S, NEW x \in A PROVE G[A] = h[x] + G[A \ {x}]
      <3> DEFINE B == A \ {x}
      <3>1. x \in S /\ B \in SUBSET S
        OBVIOUS
      <3>2. G[A] = F(A) + E(A) /\ G[B] = F(B) + E(B) /\ h[x] = f[x] + g[x]
        BY <3>1
      <3>3. F(A) = f[x] + F(B) /\ E(A) = g[x] + E(B)
        BY <1>4, <1>5
      <3>4. F(B) \in Int /\ E(B) \in Int /\ f[x] \in Int /\ g[x] \in Int
        BY <1>2, <1>6, <3>1
      <3> HIDE DEF B, G
      <3>5. G[A] = h[x] + G[B]
        BY <3>2, <3>3, <3>4
      <3> QED
        BY <3>5 DEF B
    <2> HIDE DEF G
    <2> QED
      BY <2>1, <2>2 DEF AddsUp
  <1>9. G[S] = F(S) + E(S)
    OBVIOUS
  <1> HIDE DEF G
  <1>10. SumFunctionOnSet(h, S) = G[S]
    BY <1>7, <1>8, SumIs
  <1> QED
    BY <1>7, <1>9, <1>10 DEF F, E

(* What the elements of a sequence weigh, one by one and together *)
Weights(w, s) == [k \in 1..Len(s) |-> w[s[k]]]

Weight(w, s) == SumFunctionOnSet(Weights(w, s), 1..Len(s))

(* The weights are numbers. *)
LEMMA WeightType ==
  ASSUME NEW S, NEW w, \A x \in S : w[x] \in Int, NEW s \in Seq(S)
  PROVE  Summable(Weights(w, s), 1..Len(s)) /\ Weight(w, s) \in Int
  <1>1. Len(s) \in Nat /\ \A k \in 1..Len(s) : s[k] \in S
    OBVIOUS
  <1>2. IsFiniteSet(1..Len(s))
    BY <1>1, FS_Interval
  <1>3. \A k \in 1..Len(s) : Weights(w, s)[k] \in Int
    BY <1>1 DEF Weights
  <1>4. Summable(Weights(w, s), 1..Len(s))
    BY <1>2, <1>3 DEF Summable
  <1> QED
    BY <1>4, SumType DEF Weight

(* The empty sequence weighs nothing. *)
LEMMA WeightOfNone ==
  ASSUME NEW w
  PROVE  Weight(w, <<>>) = 0
  <1>1. 1..Len(<<>>) = {} /\ Summable(Weights(w, <<>>), {})
    BY FS_EmptySet DEF Summable
  <1>2. SumFunctionOnSet(Weights(w, <<>>), {}) = 0
    BY <1>1, SumType
  <1> QED
    BY <1>1, <1>2 DEF Weight

(* The empty sequence, and one element *)
LEMMA WeightOfOne ==
  ASSUME NEW w, NEW x, w[x] \in Int
  PROVE  Weight(w, <<>>) = 0 /\ Weight(w, <<x>>) = w[x]
  <1> DEFINE f == Weights(w, <<>>)
             g == Weights(w, <<x>>)
  <1>1. 1..Len(<<>>) = {} /\ 1..Len(<<x>>) = {1} /\ g[1] = w[x]
    BY DEF Weights
  <1>2. \A h : Summable(h, {})
    BY FS_EmptySet DEF Summable
  <1>3. Summable(g, {1})
    BY <1>1, FS_Singleton DEF Summable
  <1> HIDE DEF f, g
  <1>4. SumFunctionOnSet(f, {}) = 0 /\ SumFunctionOnSet(g, {}) = 0
    BY <1>2, SumType
  <1>5. SumFunctionOnSet(g, {1}) = g[1] + SumFunctionOnSet(g, {1} \ {1})
    BY <1>3, SumWithout
  <1>6. {1} \ {1} = {}
    OBVIOUS
  <1>7. SumFunctionOnSet(g, {1}) = w[x]
    BY <1>1, <1>4, <1>5, <1>6
  <1> QED
    BY <1>1, <1>4, <1>7 DEF Weight, f, g

(* One sequence after another *)
LEMMA WeightOfBoth ==
  ASSUME NEW S, NEW w, \A x \in S : w[x] \in Int, NEW s \in Seq(S), NEW t \in Seq(S)
  PROVE  Weight(w, s \o t) = Weight(w, s) + Weight(w, t)
  <1> DEFINE u == s \o t
             m == Len(s)
             n == Len(t)
             f == Weights(w, u)
             A == 1..m
             B == (m + 1)..(m + n)
  <1>1. /\ m \in Nat /\ n \in Nat /\ u \in Seq(S) /\ Len(u) = m + n
        /\ \A k \in 1..m : u[k] = s[k]
        /\ \A k \in 1..n : u[m + k] = t[k]
    OBVIOUS
  <1> HIDE DEF u, m, n
  <1>2. Summable(f, 1..Len(u))
    BY <1>1, WeightType
  <1>3. Summable(Weights(w, s), A) /\ Summable(Weights(w, t), 1..n)
    BY WeightType DEF m, n
  <1>4. \A k \in 1..(m + n) : f[k] = w[u[k]]
    BY <1>1 DEF Weights
  <1>5. SumFunctionOnSet(f, A) = SumFunctionOnSet(Weights(w, s), A)
    <2>1. \A k \in A : Weights(w, s)[k] = f[k]
      <3> TAKE k \in A
      <3>1. k \in 1..(m + n)
        BY <1>1
      <3>2. Weights(w, s)[k] = w[s[k]]
        BY DEF Weights, m
      <3> QED
        BY <1>1, <1>4, <3>1, <3>2
    <2> HIDE DEF f, A
    <2> QED
      BY <1>3, <2>1, SumSame
  <1>6. SumFunctionOnSet(f, B) = SumFunctionOnSet(Weights(w, t), 1..n)
    <2> DEFINE p == [k \in 1..n |-> m + k]
    <2>1. Pairs(p, 1..n, B)
      <3>1. \A k \in 1..n : m + k \in B
        BY <1>1
      <3>2. \A i \in B : i - m \in 1..n /\ m + (i - m) = i
        BY <1>1
      <3>3. \A j, k \in 1..n : m + j = m + k => j = k
        BY <1>1
      <3>4. \A i \in B : \E k \in 1..n : p[k] = i
        BY <3>2
      <3> HIDE DEF B
      <3> QED
        BY <3>1, <3>3, <3>4 DEF Pairs
    <2>2. \A k \in 1..n : Weights(w, t)[k] = f[p[k]]
      <3> TAKE k \in 1..n
      <3>1. m + k \in 1..(m + n)
        BY <1>1
      <3>2. Weights(w, t)[k] = w[t[k]]
        BY DEF Weights, n
      <3> QED
        BY <1>1, <1>4, <3>1, <3>2
    <2> DEFINE g == Weights(w, t)
               K == 1..n
    <2>3. Summable(g, K) /\ Pairs(p, K, B) /\ \A k \in K : g[k] = f[p[k]]
      BY <1>3, <2>1, <2>2
    <2> HIDE DEF f, B, p, g, K
    <2>4. Summable(f, B) /\ SumFunctionOnSet(f, B) = SumFunctionOnSet(g, K)
      BY ONLY <2>3, SumMapped
    <2> QED
      BY <2>4 DEF g, K
  <1>7. SumFunctionOnSet(f, 1..Len(u)) = SumFunctionOnSet(f, A) + SumFunctionOnSet(f, B)
    <2> DEFINE C == 1..Len(u)
    <2>1. A \in SUBSET C /\ C \ A = B
      BY <1>1
    <2>2. B \in SUBSET C /\ C \ B = A
      BY <2>1
    <2> HIDE DEF A, B, C, f
    <2>3. SumFunctionOnSet(f, C) = SumFunctionOnSet(f, C \ B) + SumFunctionOnSet(f, B)
      BY <1>2, <2>2, SumInParts DEF C
    <2> QED
      BY <2>2, <2>3 DEF C
  <1> QED
    BY <1>5, <1>6, <1>7 DEF Weight, f, A, u, m, n

(* The sum over the places up to n *)
LEMMA SumUpTo ==
  ASSUME NEW f, NEW n \in Nat \ {0}, Summable(f, 1..n)
  PROVE  /\ Summable(f, 1..(n - 1))
         /\ SumFunctionOnSet(f, 1..n) = SumFunctionOnSet(f, 1..(n - 1)) + f[n]
         /\ SumFunctionOnSet(f, 1..(n - 1)) \in Int
         /\ SumFunctionOnSet(f, 1..0) = 0
  <1> DEFINE A == 1..n
  <1>1. n \in A /\ A \ {n} = 1..(n - 1) /\ 1..(n - 1) \subseteq A /\ 1..0 = {}
    OBVIOUS
  <1>2. Summable(f, A)
    OBVIOUS
  <1> HIDE DEF A
  <1>3. Summable(f, 1..(n - 1))
    BY <1>1, <1>2, FS_Subset DEF Summable
  <1>4. SumFunctionOnSet(f, A) = f[n] + SumFunctionOnSet(f, A \ {n})
    BY <1>1, <1>2, SumWithout
  <1>5. SumFunctionOnSet(f, 1..(n - 1)) \in Int /\ SumFunctionOnSet(f, {}) = 0
    BY <1>3, SumType
  <1>6. f[n] \in Int
    BY <1>1, <1>2 DEF Summable
  <1> DEFINE a == SumFunctionOnSet(f, A)
             b == SumFunctionOnSet(f, 1..(n - 1))
  <1>7. a = f[n] + b /\ b \in Int
    BY <1>1, <1>4, <1>5
  <1> HIDE DEF a, b
  <1>8. a = b + f[n]
    BY <1>6, <1>7
  <1>9. SumFunctionOnSet(f, 1..0) = 0
    BY <1>1, <1>5
  <1> QED
    BY <1>3, <1>7, <1>8, <1>9 DEF A, a, b

WeightsOf(w, ss) == [i \in 1..Len(ss) |-> Weight(w, ss[i])]

(* Sequences one after another *)
LEMMA WeightOfAll ==
  ASSUME NEW S, NEW w, \A x \in S : w[x] \in Int, NEW ss \in Seq(Seq(S))
  PROVE  /\ Summable(WeightsOf(w, ss), 1..Len(ss)) /\ FlattenSeq(ss) \in Seq(S)
         /\ Weight(w, FlattenSeq(ss)) = SumFunctionOnSet(WeightsOf(w, ss), 1..Len(ss))
  <1> DEFINE n == Len(ss)
             f == WeightsOf(w, ss)
             Sum(h) == SumFunctionOnSet(f, 1..h)
  <1>1. n \in Nat /\ \A i \in 1..n : ss[i] \in Seq(S)
    OBVIOUS
  <1>2. \A i \in 1..n : f[i] = Weight(w, ss[i]) /\ f[i] \in Int
    BY <1>1, WeightType DEF WeightsOf
  <1> HIDE DEF f
  <1>3. \A h \in Int : h <= n => Summable(f, 1..h)
    <2> TAKE h \in Int
    <2> HAVE h <= n
    <2>1. IsFiniteSet(1..h) /\ \A i \in 1..h : i \in 1..n
      BY <1>1, FS_Interval
    <2> QED
      BY <1>2, <2>1 DEF Summable
  <1>4. Sum(0) = 0
    <2>1. 1..0 = {} /\ 0 <= n
      BY <1>1
    <2> QED
      BY <1>3, <2>1, SumType
  <1>5. \A i \in 1..n : Sum(i) = f[i] + Sum(i - 1) /\ Sum(i - 1) \in Int
    <2> TAKE i \in 1..n
    <2>1. i \in Nat \ {0} /\ Summable(f, 1..i) /\ f[i] \in Int
      BY <1>1, <1>2, <1>3
    <2> DEFINE before == SumFunctionOnSet(f, 1..(i - 1))
    <2>2. SumFunctionOnSet(f, 1..i) = before + f[i] /\ before \in Int
      BY <2>1, SumUpTo
    <2> HIDE DEF before
    <2>3. SumFunctionOnSet(f, 1..i) = f[i] + before
      BY <2>1, <2>2
    <2> QED
      BY <2>2, <2>3 DEF before
  <1> HIDE DEF Sum
  <1>6. CASE n = 0
    <2>1. ss = <<>>
      BY <1>6
    <2>2. FlattenSeq(ss) = <<>>
      BY <2>1 DEF FlattenSeq
    <2>3. Weight(w, <<>>) = 0
      BY WeightOfNone
    <2>4. Sum(n) = 0
      BY <1>4, <1>6
    <2>5. <<>> \in Seq(S) /\ n <= n
      BY <1>1
    <2> QED
      BY <1>1, <1>3, <2>2, <2>3, <2>4, <2>5 DEF Sum, f
  <1>7. CASE n # 0
    <2>1. PICK g : /\ g[1] = ss[1]
                   /\ \A i \in 2..n : g[i] = g[i - 1] \o ss[i]
                   /\ FlattenSeq(ss) = g[n]
      BY <1>1, <1>7, FlattenParts
    <2> DEFINE T == {k \in Nat : k + 1 <= n => /\ g[k + 1] \in Seq(S)
                                               /\ Weight(w, g[k + 1]) = Sum(k + 1)}
    <2>2. 0 \in T
      <3>1. 1 \in 1..n /\ 1 - 1 = 0 /\ 0 + 1 = 1
        BY <1>1, <1>7
      <3>2. Sum(1) = f[1] + 0 /\ f[1] \in Int /\ f[1] = Weight(w, ss[1])
        BY <1>2, <1>4, <1>5, <3>1
      <3> QED
        BY <1>1, <2>1, <3>1, <3>2
    <2>3. ASSUME NEW k \in Nat, k \in T PROVE k + 1 \in T
      <3> SUFFICES ASSUME (k + 1) + 1 <= n
                   PROVE  /\ g[(k + 1) + 1] \in Seq(S)
                          /\ Weight(w, g[(k + 1) + 1]) = Sum((k + 1) + 1)
        OBVIOUS
      <3> DEFINE i == (k + 1) + 1
      <3>1. i \in 2..n /\ i \in 1..n /\ i - 1 = k + 1 /\ k + 1 <= n
        BY <1>1
      <3>2. g[k + 1] \in Seq(S) /\ Weight(w, g[k + 1]) = Sum(k + 1)
        BY <2>3, <3>1
      <3> HIDE DEF i
      <3>3. g[i] = g[i - 1] \o ss[i] /\ ss[i] \in Seq(S) /\ g[i - 1] \in Seq(S)
        BY <1>1, <2>1, <3>1, <3>2
      <3>4. Weight(w, g[i]) = Weight(w, g[i - 1]) + Weight(w, ss[i])
        BY <3>3, WeightOfBoth
      <3>5. Sum(i) = f[i] + Sum(i - 1) /\ f[i] = Weight(w, ss[i]) /\ f[i] \in Int /\ Sum(i - 1) \in Int
        BY <1>2, <1>5, <3>1
      <3>6. Weight(w, g[i]) = Sum(i)
        BY <3>1, <3>2, <3>4, <3>5
      <3>7. g[i] \in Seq(S)
        BY <3>3
      <3> QED
        BY <3>6, <3>7 DEF i
    <2>4. n - 1 \in Nat /\ (n - 1) + 1 = n /\ n <= n
      BY <1>1, <1>7
    <2>5. \A k \in Nat : k \in T
      <3> HIDE DEF T
      <3> QED
        BY ONLY <2>2, <2>3, Induction
    <2>6. g[n] \in Seq(S) /\ Weight(w, g[n]) = Sum(n)
      BY <2>4, <2>5
    <2> QED
      BY <1>3, <2>1, <2>4, <2>6 DEF Sum, f
  <1> QED
    BY <1>6, <1>7

(* The n sequences of ss weigh what f says. *)
AreWeighed(w, ss, f, n, S) ==
  ss = [i \in 1..n |-> ss[i]] /\ \A i \in 1..n : ss[i] \in Seq(S) /\ Weight(w, ss[i]) = f[i]

(* One after another *)
LEMMA WeightOfEach ==
  ASSUME NEW S, NEW w, \A x \in S : w[x] \in Int, NEW n \in Nat, NEW ss, NEW f, AreWeighed(w, ss, f, n, S)
  PROVE  /\ FlattenSeq(ss) \in Seq(S) /\ Summable(f, 1..n)
         /\ Weight(w, FlattenSeq(ss)) = SumFunctionOnSet(f, 1..n)
  <1>1. ss \in Seq(Seq(S)) /\ Len(ss) = n
    <2>1. ss \in [1..n -> Seq(S)]
      BY DEF AreWeighed
    <2> QED
      BY <2>1
  <1> DEFINE h == WeightsOf(w, ss)
  <1>2. \A i \in 1..n : h[i] = f[i]
    BY <1>1 DEF WeightsOf, AreWeighed
  <1>3. /\ Summable(h, 1..n) /\ FlattenSeq(ss) \in Seq(S)
        /\ Weight(w, FlattenSeq(ss)) = SumFunctionOnSet(h, 1..n)
    BY <1>1, WeightOfAll
  <1> HIDE DEF h
  <1>4. Summable(f, 1..n) /\ SumFunctionOnSet(f, 1..n) = SumFunctionOnSet(h, 1..n)
    BY <1>2, <1>3, SumSame
  <1> QED
    BY <1>3, <1>4

WeightsAt(w, s, places) == [i \in 1..Len(s) |-> IF i \in places THEN w[s[i]] ELSE 0]

(* The elements at some places of a sequence *)
LEMMA WeightOfPlaces ==
  ASSUME NEW S, NEW w, \A x \in S : w[x] \in Int, NEW s \in Seq(S), NEW places
  PROVE  /\ Summable(WeightsAt(w, s, places), 1..Len(s))
         /\ Weight(w, ElementsAt(s, places)) = SumFunctionOnSet(WeightsAt(w, s, places), 1..Len(s))
  <1> DEFINE f == WeightsAt(w, s, places)
             ss == [i \in 1..Len(s) |-> IF i \in places THEN <<s[i]>> ELSE <<>>]
             h == WeightsOf(w, ss)
  <1>1. Len(s) \in Nat /\ \A i \in 1..Len(s) : s[i] \in S
    OBVIOUS
  <1>2. ss \in Seq(Seq(S)) /\ Len(ss) = Len(s)
    <2>1. \A i \in 1..Len(s) : (IF i \in places THEN <<s[i]>> ELSE <<>>) \in Seq(S)
      BY <1>1
    <2> QED
      BY <1>1, <2>1
  <1>3. \A i \in 1..Len(s) : h[i] = f[i]
    <2> TAKE i \in 1..Len(s)
    <2>1. w[s[i]] \in Int
      BY <1>1
    <2>2. Weight(w, <<>>) = 0 /\ Weight(w, <<s[i]>>) = w[s[i]]
      BY <2>1, WeightOfOne
    <2>3. h[i] = Weight(w, ss[i]) /\ ss[i] = IF i \in places THEN <<s[i]>> ELSE <<>>
      BY <1>2 DEF WeightsOf
    <2>4. f[i] = IF i \in places THEN w[s[i]] ELSE 0
      BY DEF WeightsAt
    <2> HIDE DEF h, ss, f
    <2> QED
      BY <2>2, <2>3, <2>4
  <1>4. ElementsAt(s, places) = FlattenSeq(ss)
    BY DEF ElementsAt
  <1> HIDE DEF ss
  <1>6. Summable(h, 1..Len(ss)) /\ Weight(w, FlattenSeq(ss)) = SumFunctionOnSet(h, 1..Len(ss))
    <2>1. \A x \in S : w[x] \in Int
      OBVIOUS
    <2> QED
      BY ONLY <1>2, <2>1, WeightOfAll
  <1> HIDE DEF h
  <1> DEFINE A == 1..Len(s)
  <1>7. Summable(h, A) /\ \A i \in A : h[i] = f[i]
    BY <1>2, <1>3, <1>6
  <1> HIDE DEF A, f
  <1>8. Summable(f, A) /\ SumFunctionOnSet(f, A) = SumFunctionOnSet(h, A)
    BY <1>7, SumSame
  <1> QED
    BY <1>2, <1>4, <1>6, <1>8 DEF A, f

TermAt(f, n, k) == IF k <= n THEN f[k] ELSE 0

TermsUpTo(f, n) ==
  TermAt(f, n, 1) + TermAt(f, n, 2) + TermAt(f, n, 3) + TermAt(f, n, 4) + TermAt(f, n, 5)

(* A sum of at most five *)
LEMMA SumOfFew ==
  ASSUME NEW f, NEW n \in 0..5, Summable(f, 1..n)
  PROVE  SumFunctionOnSet(f, 1..n) = TermsUpTo(f, n)
  <1> DEFINE S(k) == SumFunctionOnSet(f, 1..k)
  <1>1. \A k \in 1..n : Summable(f, 1..k)
    <2> TAKE k \in 1..n
    <2>1. 1..k \subseteq 1..n
      OBVIOUS
    <2> QED
      BY <2>1, FS_Subset DEF Summable
  <1>2. S(0) = 0
    <2>1. Summable(f, {}) /\ 1..0 = {}
      BY FS_EmptySet DEF Summable
    <2> QED
      BY <2>1, SumType
  <1>3. \A k \in 1..n : S(k) = S(k - 1) + f[k] /\ S(k - 1) \in Int
    <2> TAKE k \in 1..n
    <2>1. k \in Nat \ {0} /\ Summable(f, 1..k)
      BY <1>1
    <2> HIDE DEF S
    <2>2. SumFunctionOnSet(f, 1..k) = SumFunctionOnSet(f, 1..(k - 1)) + f[k]
          /\ SumFunctionOnSet(f, 1..(k - 1)) \in Int
      BY <2>1, SumUpTo
    <2> QED
      BY <2>2 DEF S
  <1>4. \A k \in 1..n : f[k] \in Int
    BY DEF Summable
  <1> DEFINE a == f[1]
             b == f[2]
             c == f[3]
             d == f[4]
             e == f[5]
  <1>5. /\ n >= 1 => a \in Int /\ S(1) = S(0) + a
        /\ n >= 2 => b \in Int /\ S(2) = S(1) + b
        /\ n >= 3 => c \in Int /\ S(3) = S(2) + c
        /\ n >= 4 => d \in Int /\ S(4) = S(3) + d
        /\ n >= 5 => e \in Int /\ S(5) = S(4) + e
    <2>1. ASSUME NEW k \in 1..5, n >= k PROVE f[k] \in Int /\ S(k) = S(k - 1) + f[k]
      <3>1. k \in 1..n
        BY <2>1
      <3> QED
        BY <1>3, <1>4, <3>1
    <2> HIDE DEF S
    <2> QED
      BY <2>1
  <1>6. /\ TermAt(f, n, 1) = (IF 1 <= n THEN a ELSE 0) /\ TermAt(f, n, 2) = (IF 2 <= n THEN b ELSE 0)
        /\ TermAt(f, n, 3) = (IF 3 <= n THEN c ELSE 0) /\ TermAt(f, n, 4) = (IF 4 <= n THEN d ELSE 0)
        /\ TermAt(f, n, 5) = (IF 5 <= n THEN e ELSE 0)
    BY DEF TermAt
  <1> HIDE DEF S, a, b, c, d, e
  <1>7. S(n) = TermsUpTo(f, n)
    BY <1>2, <1>5, <1>6 DEF TermsUpTo
  <1> QED
    BY <1>7 DEF S

(* A sum over a part less a sum over another part, of at most five *)
LEMMA SumsOfFew ==
  ASSUME NEW f, NEW n \in 0..5, Summable(f, 1..n), NEW X, NEW Y,
         NEW g, IsDifference(g, f, 1..n, X, Y)
  PROVE  TermsUpTo(g, n) = SumFunctionOnSet(f, X) - SumFunctionOnSet(f, Y)
  <1> DEFINE S == 1..n
  <1>1. IsDifference(g, f, S, X, Y)
    OBVIOUS
  <1>2. Summable(f, S)
    OBVIOUS
  <1> HIDE DEF S
  <1>3. AddsUpTo(g, f, S, X, Y)
    BY ONLY <1>1, <1>2, SumOfDifference
  <1>4. Summable(g, 1..n)
    BY <1>3 DEF S, AddsUpTo
  <1>5. SumFunctionOnSet(g, 1..n) = TermsUpTo(g, n)
    BY ONLY <1>4, n \in 0..5, SumOfFew
  <1> QED
    BY <1>3, <1>5 DEF S, AddsUpTo

(* The weights of a sequence are those of another. *)
LEMMA WeightSame ==
  ASSUME NEW w, NEW s, NEW v, NEW t, Len(s) = Len(t), \A k \in 1..Len(s) : w[s[k]] = v[t[k]]
  PROVE  Weight(w, s) = Weight(v, t)
  <1>1. Weights(w, s) = Weights(v, t)
    BY DEF Weights
  <1> QED
    BY <1>1 DEF Weight

(* A sequence that weighs what two parts of a list differ by *)
LEMMA WeightOfPairs ==
  ASSUME NEW S, NEW w, \A x \in S : w[x] \in Int, NEW s \in Seq(S),
         NEW f, Summable(f, 1..Len(s)), NEW X \in SUBSET (1..Len(s)), NEW Y \in SUBSET (1..Len(s)),
         \A k \in 1..Len(s) : w[s[k]] = Term(f, X, k) - Term(f, Y, k)
  PROVE  Weight(w, s) = SumFunctionOnSet(f, X) - SumFunctionOnSet(f, Y)
  <1> DEFINE g == Weights(w, s)
             K == 1..Len(s)
  <1>1. IsDifference(g, f, K, X, Y)
    BY DEF Weights, IsDifference
  <1>2. Summable(f, K)
    OBVIOUS
  <1> HIDE DEF K, g
  <1>3. AddsUpTo(g, f, K, X, Y)
    BY ONLY <1>1, <1>2, SumOfDifference
  <1> QED
    BY <1>3 DEF g, K, Weight, AddsUpTo

=============================================================================
