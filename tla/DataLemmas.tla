----------------------------- MODULE DataLemmas -----------------------------
(***************************************************************************)
(* Induction and recursion over data, in the first-order form that the     *)
(* provers can use: a set in the place of a predicate, a function in the   *)
(* place of an operator.  What FlattenSeq computes is derived from them.   *)
(***************************************************************************)
EXTENDS Integers, SequencesExt, SequenceTheorems, WellFoundedInduction, TLAPS

\* A nonempty set of naturals has a least element.
LEMMA LeastNatural ==
  ASSUME NEW T, T \subseteq Nat, T # {}
  PROVE  \E x \in T : \A y \in T : x <= y
<1> DEFINE R == {ss \in Nat \X Nat : ss[1] < ss[2]}
<1>1. IsWellFoundedOn(R, Nat)
  BY NatLessThanWellFounded DEF OpToRel
<1> HIDE DEF R
<1>2. PICK x \in T : \A y \in T : ~(<<y, x>> \in R)
  BY <1>1, WFMin
<1>3. ASSUME NEW y \in T PROVE x <= y
  <2>1. ~(<<y, x>> \in R)
    BY <1>2
  <2> QED
    BY <2>1 DEF R
<1> QED
  BY <1>3

\* Induction: a set with 0 that is closed under successor holds all naturals.
LEMMA NatInSet ==
  ASSUME NEW P, 0 \in P, \A n \in Nat : n \in P => n + 1 \in P
  PROVE  Nat \subseteq P
<1> SUFFICES ASSUME Nat \ P # {} PROVE FALSE
  OBVIOUS
<1>1. PICK x \in Nat \ P : \A y \in Nat \ P : x <= y
  BY LeastNatural
<1>2. x # 0
  OBVIOUS
<1>3. x - 1 \in Nat /\ x - 1 \in P
  BY <1>1, <1>2
<1> QED
  BY <1>3

\* The same for sequences, which grow at their end.
LEMMA SeqInSet ==
  ASSUME NEW S, NEW P, <<>> \in P, \A s \in Seq(S), x \in S : s \in P => Append(s, x) \in P
  PROVE  Seq(S) \subseteq P
<1> DEFINE Q == {n \in Nat : \A s \in Seq(S) : Len(s) = n => s \in P}
<1>1. 0 \in Q
  BY EmptySeq
<1>2. ASSUME NEW n \in Nat, n \in Q PROVE n + 1 \in Q
  <2> SUFFICES ASSUME NEW s \in Seq(S), Len(s) = n + 1 PROVE s \in P
    OBVIOUS
  <2>1. s # <<>>
    OBVIOUS
  <2>2. PICK t \in Seq(S), x \in S : s = Append(t, x)
    BY <2>1, SequenceEmptyOrAppend
  <2>3. Len(t) = n
    BY <2>2
  <2> QED
    BY <1>2, <2>2, <2>3
<1> HIDE DEF Q
<1>3. Nat \subseteq Q
  BY <1>1, <1>2, NatInSet
<1>4. ASSUME NEW s \in Seq(S) PROVE s \in P
  <2>1. Len(s) \in Q
    BY <1>3
  <2> QED
    BY <2>1 DEF Q
<1> QED
  BY <1>4

\* f starts with d0 and goes on by step.
Recursion(f, n, D, d0, step) ==
  /\ f \in [0..n -> D]
  /\ f[0] = d0
  /\ \A i \in 1..n : f[i] = step[<<f[i - 1], i>>]

\* Recursion: d0 and step determine a function on 0..n.
LEMMA RecursionExists ==
  ASSUME NEW n \in Nat, NEW D, NEW d0 \in D, NEW step \in [D \X (1..n) -> D]
  PROVE  \E f : Recursion(f, n, D, d0, step)
<1> DEFINE Solves(f, k) == f[0] = d0 /\ \A i \in 1..k : f[i] = step[<<f[i - 1], i>>]
           P == {k \in Nat : k <= n => \E f \in [0..k -> D] : Solves(f, k)}
<1>1. 0 \in P
  <2>1. [i \in 0..0 |-> d0] \in [0..0 -> D] /\ Solves([i \in 0..0 |-> d0], 0)
    OBVIOUS
  <2> QED
    BY <2>1
<1>2. ASSUME NEW k \in Nat, k \in P PROVE k + 1 \in P
  <2> SUFFICES ASSUME k + 1 <= n PROVE \E f \in [0..(k + 1) -> D] : Solves(f, k + 1)
    OBVIOUS
  <2>1. PICK f \in [0..k -> D] : Solves(f, k)
    BY <1>2
  <2> DEFINE g == [i \in 0..(k + 1) |-> IF i = k + 1 THEN step[<<f[k], k + 1>>] ELSE f[i]]
  <2>2. step[<<f[k], k + 1>>] \in D
    OBVIOUS
  <2>3. g \in [0..(k + 1) -> D]
    BY <2>2
  <2>4. g[0] = d0 /\ g[k] = f[k] /\ g[k + 1] = step[<<f[k], k + 1>>]
    <3>1. 0 \in 0..(k + 1) /\ k \in 0..(k + 1) /\ k + 1 \in 0..(k + 1) /\ 0 # k + 1 /\ k # k + 1
      OBVIOUS
    <3> QED
      BY <2>1, <3>1
  <2>5. ASSUME NEW i \in 1..k PROVE g[i] = step[<<g[i - 1], i>>]
    BY <2>1
  <2>6. Solves(g, k + 1)
    <3> HIDE DEF g
    <3>1. ASSUME NEW i \in 1..(k + 1) PROVE g[i] = step[<<g[i - 1], i>>]
      <4>1. CASE i = k + 1
        <5>1. i - 1 = k
          BY <4>1
        <5> QED
          BY <2>4, <4>1, <5>1
      <4>2. CASE i # k + 1
        BY <2>5, <4>2
      <4> QED
        BY <4>1, <4>2
    <3> QED
      BY <2>4, <3>1
  <2> QED
    BY <2>3, <2>6
<1> HIDE DEF P
<1>3. Nat \subseteq P
  BY <1>1, <1>2, NatInSet
<1>4. n \in P
  BY <1>3
<1>5. \E f \in [0..n -> D] : Solves(f, n)
  BY <1>4 DEF P
<1> QED
  BY <1>5 DEF Recursion

\* FlattenSeq is the end of a recursion that appends one sequence at a time.
LEMMA FlattenRecursion ==
  ASSUME NEW S, NEW s \in Seq(Seq(S))
  PROVE  \E f \in [0..Len(s) -> Seq(S)] :
           /\ f[0] = <<>>
           /\ \A i \in 1..Len(s) : f[i] = f[i - 1] \o s[i]
           /\ FlattenSeq(s) = f[Len(s)]
<1> DEFINE n == Len(s)
           step == [p \in Seq(S) \X (1..n) |-> p[1] \o s[p[2]]]
<1>1. n \in Nat /\ \A i \in 1..n : s[i] \in Seq(S)
  OBVIOUS
<1>2. step \in [Seq(S) \X (1..n) -> Seq(S)]
  BY <1>1
<1>3. <<>> \in Seq(S)
  OBVIOUS
<1> HIDE DEF n, step
<1>4. PICK g \in [0..n -> Seq(S)] :
         g[0] = <<>> /\ \A i \in 1..n : g[i] = step[<<g[i - 1], i>>]
  <2> DEFINE D == Seq(S)
             d0 == <<>>
  <2>1. n \in Nat /\ d0 \in D /\ step \in [D \X (1..n) -> D]
    BY <1>1, <1>2, <1>3
  <2> HIDE DEF D, d0
  <2>2. \E f : Recursion(f, n, D, d0, step)
    BY <2>1, RecursionExists
  <2> QED
    BY <2>2 DEF Recursion, D, d0
<1>5. \A i \in 1..n : g[i] = g[i - 1] \o s[i]
  <2> TAKE i \in 1..n
  <2>1. i - 1 \in 0..n
    BY <1>1
  <2>2. <<g[i - 1], i>> \in Seq(S) \X (1..n)
    BY <2>1
  <2> QED
    BY <1>4, <2>2 DEF step
<1>0. n # 0 => g[1] = s[1]
  <2> SUFFICES ASSUME n # 0 PROVE g[1] = s[1]
    OBVIOUS
  <2>1. 1 \in 1..n /\ 1 - 1 = 0
    BY <1>1
  <2>2. g[1] = <<>> \o s[1] /\ s[1] \in Seq(S)
    BY <1>1, <1>4, <1>5, <2>1
  <2> QED
    BY <2>2, ConcatEmptySeq
<1>6. FlattenSeq(s) = g[n]
  <2>1. CASE n = 0
    BY <1>1, <1>4, <2>1 DEF FlattenSeq, n
  <2>2. CASE n # 0
    <3> DEFINE Body(h) == [i \in 1..n |-> IF i = 1 THEN s[i] ELSE h[i - 1] \o s[i]]
               flatten == CHOOSE h : h = Body(h)
               g1 == [i \in 1..n |-> g[i]]
    <3>1. g1 = Body(g1)
      <4> SUFFICES ASSUME NEW i \in 1..n
                   PROVE  g[i] = IF i = 1 THEN s[i] ELSE g1[i - 1] \o s[i]
        OBVIOUS
      <4>1. CASE i = 1
        BY <1>0, <2>2, <4>1
      <4>2. CASE i # 1
        <5>1. i - 1 \in 1..n
          BY <1>1, <4>2
        <5> QED
          BY <1>5, <4>2, <5>1
      <4> QED
        BY <4>1, <4>2
    <3>2. flatten = Body(flatten)
      BY <3>1
    <3>3. FlattenSeq(s) = flatten[n]
      BY <2>2 DEF FlattenSeq, n
    <3> HIDE DEF flatten
    <3> DEFINE P == {k \in Nat : k + 1 <= n => flatten[k + 1] = g[k + 1]}
    <3>4. 0 \in P
      BY <1>0, <1>1, <2>2, <3>2
    <3>5. ASSUME NEW k \in Nat, k \in P PROVE k + 1 \in P
      <4> SUFFICES ASSUME k + 2 <= n PROVE flatten[k + 2] = g[k + 2]
        OBVIOUS
      <4>1. k + 2 \in 1..n /\ k + 2 # 1 /\ (k + 2) - 1 = k + 1
        BY <1>1
      <4>2. flatten[k + 2] = flatten[k + 1] \o s[k + 2]
        BY <3>2, <4>1
      <4>3. g[k + 2] = g[k + 1] \o s[k + 2]
        BY <1>5, <4>1
      <4>4. flatten[k + 1] = g[k + 1]
        BY <1>1, <3>5, <4>1
      <4> QED
        BY <4>2, <4>3, <4>4
    <3> HIDE DEF P
    <3>6. Nat \subseteq P
      BY <3>4, <3>5, NatInSet
    <3>7. n - 1 \in P /\ (n - 1) + 1 = n
      BY <1>1, <2>2, <3>6
    <3> QED
      BY <1>1, <3>3, <3>7 DEF P
  <2> QED
    BY <2>1, <2>2
<1> QED
  BY <1>4, <1>5, <1>6 DEF n

\* Flattening sequences over S gives a sequence over S.
LEMMA FlattenType ==
  ASSUME NEW S, NEW s \in Seq(Seq(S))
  PROVE  FlattenSeq(s) \in Seq(S)
<1>1. PICK f \in [0..Len(s) -> Seq(S)] : FlattenSeq(s) = f[Len(s)]
  BY FlattenRecursion
<1>2. Len(s) \in 0..Len(s)
  OBVIOUS
<1> QED
  BY <1>1, <1>2

\* Nothing flattens to nothing.
LEMMA FlattenEmpty == FlattenSeq(<<>>) = <<>>
  BY DEF FlattenSeq

\* FlattenSeq, one sequence more.
LEMMA FlattenAppend ==
  ASSUME NEW S, NEW s \in Seq(Seq(S)), NEW x \in Seq(S)
  PROVE  FlattenSeq(Append(s, x)) = FlattenSeq(s) \o x
<1> DEFINE t == Append(s, x)
           n == Len(s)
<1>1. /\ t \in Seq(Seq(S)) /\ n \in Nat /\ Len(t) = n + 1 /\ t[n + 1] = x
      /\ \A i \in 1..n : t[i] = s[i]
  OBVIOUS
<1>2. PICK f \in [0..n -> Seq(S)] :
         f[0] = <<>> /\ (\A i \in 1..n : f[i] = f[i - 1] \o s[i]) /\ FlattenSeq(s) = f[n]
  BY FlattenRecursion
<1> HIDE DEF t, n
<1>3. PICK g \in [0..Len(t) -> Seq(S)] :
         g[0] = <<>> /\ (\A i \in 1..Len(t) : g[i] = g[i - 1] \o t[i]) /\ FlattenSeq(t) = g[Len(t)]
  BY <1>1, FlattenRecursion
<1> DEFINE P == {k \in Nat : k <= n => g[k] = f[k]}
<1>4. 0 \in P
  BY <1>2, <1>3
<1>5. ASSUME NEW k \in Nat, k \in P PROVE k + 1 \in P
  <2> SUFFICES ASSUME k + 1 <= n PROVE g[k + 1] = f[k + 1]
    OBVIOUS
  <2>1. k + 1 \in 1..n /\ k + 1 \in 1..Len(t) /\ (k + 1) - 1 = k
    BY <1>1
  <2>2. g[k + 1] = g[k] \o t[k + 1] /\ f[k + 1] = f[k] \o s[k + 1]
    BY <1>2, <1>3, <2>1
  <2>3. g[k] = f[k]
    BY <1>1, <1>5, <2>1
  <2> QED
    BY <1>1, <2>1, <2>2, <2>3
<1> HIDE DEF P
<1>6. n \in P
  BY <1>1, <1>4, <1>5, NatInSet
<1>7. g[n] = f[n]
  BY <1>1, <1>6 DEF P
<1>8. n + 1 \in 1..Len(t) /\ (n + 1) - 1 = n
  BY <1>1
<1>9. g[n + 1] = g[n] \o t[n + 1]
  BY <1>3, <1>8
<1>10. FlattenSeq(t) = f[n] \o x
  BY <1>1, <1>3, <1>7, <1>9
<1> QED
  BY <1>2, <1>10 DEF t

\* FlattenSeq distributes over concatenation.
LEMMA FlattenConcat ==
  ASSUME NEW S, NEW s \in Seq(Seq(S)), NEW t \in Seq(Seq(S))
  PROVE  FlattenSeq(s \o t) = FlattenSeq(s) \o FlattenSeq(t)
<1> DEFINE P == {u \in Seq(Seq(S)) : FlattenSeq(s \o u) = FlattenSeq(s) \o FlattenSeq(u)}
<1>1. <<>> \in P
  <2>1. FlattenSeq(s) \in Seq(S)
    BY FlattenType
  <2>2. FlattenSeq(s) \o <<>> = FlattenSeq(s)
    BY <2>1, ConcatEmptySeq
  <2>3. s \o <<>> = s
    BY ConcatEmptySeq
  <2>4. <<>> \in Seq(Seq(S))
    OBVIOUS
  <2> QED
    BY <2>2, <2>3, <2>4, FlattenEmpty
<1>2. ASSUME NEW u \in Seq(Seq(S)), NEW x \in Seq(S), u \in P PROVE Append(u, x) \in P
  <2>1. s \o Append(u, x) = Append(s \o u, x) /\ s \o u \in Seq(Seq(S))
    OBVIOUS
  <2>2. FlattenSeq(Append(s \o u, x)) = FlattenSeq(s \o u) \o x
    BY <2>1, FlattenAppend
  <2>3. FlattenSeq(Append(u, x)) = FlattenSeq(u) \o x
    BY FlattenAppend
  <2>4. FlattenSeq(s) \in Seq(S) /\ FlattenSeq(u) \in Seq(S)
    BY FlattenType
  <2>5. (FlattenSeq(s) \o FlattenSeq(u)) \o x = FlattenSeq(s) \o (FlattenSeq(u) \o x)
    <3> DEFINE a == FlattenSeq(s)
               b == FlattenSeq(u)
    <3> HIDE DEF a, b
    <3>1. (a \o b) \o x = a \o (b \o x)
      BY <2>4, ConcatAssociative DEF a, b
    <3> QED
      BY <3>1 DEF a, b
  <2>6. FlattenSeq(s \o Append(u, x)) = FlattenSeq(s) \o FlattenSeq(Append(u, x))
    BY <1>2, <2>1, <2>2, <2>3, <2>5
  <2>7. Append(u, x) \in Seq(Seq(S))
    OBVIOUS
  <2> QED
    BY <2>6, <2>7
<1> HIDE DEF P
<1>3. Seq(Seq(S)) \subseteq P
  BY <1>1, <1>2, SeqInSet
<1> QED
  BY <1>3 DEF P

\* Flattening the one-element pieces of a sequence gives it back.
LEMMA FlattenSingletons ==
  ASSUME NEW S, NEW s \in Seq(S)
  PROVE  FlattenSeq([i \in 1..Len(s) |-> <<s[i]>>]) = s
<1> DEFINE pieces(u) == [i \in 1..Len(u) |-> <<u[i]>>]
           P == {u \in Seq(S) : FlattenSeq(pieces(u)) = u}
<1>1. <<>> \in P
  <2>1. pieces(<<>>) = <<>>
    OBVIOUS
  <2> QED
    BY <2>1, FlattenEmpty
<1>2. ASSUME NEW u \in Seq(S), NEW x \in S, u \in P PROVE Append(u, x) \in P
  <2>1. pieces(u) \in Seq(Seq(S)) /\ <<x>> \in Seq(S)
    OBVIOUS
  <2>2. pieces(Append(u, x)) = Append(pieces(u), <<x>>)
    <3>1. Len(Append(u, x)) = Len(u) + 1 /\ Len(pieces(u)) = Len(u) /\ Len(u) \in Nat
      OBVIOUS
    <3>2. \A i \in 1..(Len(u) + 1) : pieces(Append(u, x))[i] = Append(pieces(u), <<x>>)[i]
      OBVIOUS
    <3>3. pieces(Append(u, x)) \in Seq(Seq(S)) /\ Append(pieces(u), <<x>>) \in Seq(Seq(S))
      OBVIOUS
    <3>4. Len(pieces(Append(u, x))) = Len(u) + 1 /\ Len(Append(pieces(u), <<x>>)) = Len(u) + 1
      OBVIOUS
    <3> HIDE DEF pieces
    <3> QED
      BY <3>2, <3>3, <3>4, SeqEqual
  <2>3. FlattenSeq(pieces(Append(u, x))) = u \o <<x>>
    BY <1>2, <2>1, <2>2, FlattenAppend
  <2>4. Append(u, x) \in Seq(S) /\ Append(u, x) = u \o <<x>>
    OBVIOUS
  <2> HIDE DEF pieces
  <2> QED
    BY <2>3, <2>4
<1> HIDE DEF P
<1>3. Seq(S) \subseteq P
  BY <1>1, <1>2, SeqInSet
<1> QED
  BY <1>3 DEF P

\* What makes a number the least of a set.
LEMMA MinIs ==
  ASSUME NEW T, T \subseteq Nat, NEW x \in T, \A y \in T : x <= y
  PROVE  Min(T) = x
<1>1. Min(T) \in T /\ \A y \in T : Min(T) <= y
  BY DEF Min
<1>2. Min(T) <= x /\ x <= Min(T) /\ Min(T) \in Nat
  BY <1>1
<1> QED
  BY <1>2

\* The smaller of two numbers.
LEMMA MinOfTwo ==
  ASSUME NEW a \in Nat, NEW b \in Nat
  PROVE  Min({a, b}) = IF a <= b THEN a ELSE b
<1>1. {a, b} \subseteq Nat
  OBVIOUS
<1>2. CASE a <= b
  <2>1. \A y \in {a, b} : a <= y
    BY <1>2
  <2> QED
    BY <1>1, <1>2, <2>1, MinIs
<1>3. CASE ~(a <= b)
  <2>1. \A y \in {a, b} : b <= y
    BY <1>3
  <2> QED
    BY <1>1, <1>3, <2>1, MinIs
<1> QED
  BY <1>2, <1>3

\* What makes a number the greatest of a set.
LEMMA MaxIs ==
  ASSUME NEW T, T \subseteq Nat, NEW x \in T, \A y \in T : y <= x
  PROVE  Max(T) = x
<1>1. Max(T) \in T /\ \A y \in T : Max(T) >= y
  BY DEF Max
<1>2. Max(T) >= x /\ Max(T) <= x /\ Max(T) \in Nat
  BY <1>1
<1> QED
  BY <1>2

\* A set of naturals below a bound has a greatest element.
LEMMA GreatestNatural ==
  ASSUME NEW n \in Nat, NEW T, T \subseteq 0..n, T # {}
  PROVE  \E x \in T : \A y \in T : y <= x
<1> DEFINE U == {n - y : y \in T}
<1>1. U \subseteq Nat /\ U # {}
  <2>1. \A y \in T : y \in 0..n /\ n - y \in Nat
    OBVIOUS
  <2>2. \E y \in T : TRUE
    OBVIOUS
  <2> QED
    BY <2>1, <2>2
<1>2. PICK z \in U : \A w \in U : z <= w
  <2> HIDE DEF U
  <2> QED
    BY <1>1, LeastNatural
<1>3. PICK x \in T : z = n - x
  OBVIOUS
<1>4. ASSUME NEW y \in T PROVE y <= x
  <2>1. n - x <= n - y
    BY <1>2, <1>3
  <2>2. x \in 0..n /\ y \in 0..n
    OBVIOUS
  <2> QED
    BY <2>1, <2>2
<1> QED
  BY <1>4

\* Flattening a sequence of empty sequences leaves nothing.
LEMMA FlattenEmpties ==
  ASSUME NEW n \in Nat
  PROVE  FlattenSeq([i \in 1..n |-> <<>>]) = <<>>
<1> DEFINE E(k) == [i \in 1..k |-> <<>>]
           P == {k \in Nat : FlattenSeq(E(k)) = <<>>}
<1>1. 0 \in P
  <2>1. E(0) = <<>>
    OBVIOUS
  <2> QED
    BY <2>1, FlattenEmpty
<1>2. ASSUME NEW k \in Nat, k \in P PROVE k + 1 \in P
  <2> DEFINE S == {0}
  <2>0. <<>> \in Seq(S)
    OBVIOUS
  <2>1. E(k) \in Seq(Seq(S)) /\ Len(E(k)) = k
    BY <2>0
  <2>2. E(k + 1) = Append(E(k), <<>>)
    BY <2>1
  <2> HIDE DEF S
  <2>3. ASSUME NEW e \in Seq(Seq(S)) PROVE FlattenSeq(Append(e, <<>>)) = FlattenSeq(e) \o <<>>
    BY <2>0, FlattenAppend
  <2>4. FlattenSeq(E(k + 1)) = <<>> \o <<>>
    BY <1>2, <2>1, <2>2, <2>3
  <2> QED
    BY <2>4
<1> HIDE DEF P
<1>3. Nat \subseteq P
  BY <1>1, <1>2, NatInSet
<1>4. n \in P
  BY <1>3
<1> QED
  BY <1>4 DEF P

\* What makes a sequence the concatenation of two.
LEMMA ConcatIs ==
  ASSUME NEW S, NEW s \in Seq(S), NEW t \in Seq(S), NEW u \in Seq(S),
         Len(u) = Len(s) + Len(t), \A i \in 1..Len(s) : u[i] = s[i],
         \A i \in 1..Len(t) : u[Len(s) + i] = t[i]
  PROVE  u = s \o t
<1>1. s \o t \in Seq(S) /\ Len(s \o t) = Len(s) + Len(t) /\ Len(s) \in Nat /\ Len(t) \in Nat
  OBVIOUS
<1>2. ASSUME NEW i \in 1..Len(u) PROVE u[i] = (s \o t)[i]
  <2> SUFFICES ASSUME NEW m \in Nat, m = Len(s), NEW n \in Nat, n = Len(t), i \in 1..(m + n)
               PROVE  u[i] = (s \o t)[i]
    BY <1>1
  <2>1. CASE i <= m
    BY <2>1
  <2>2. CASE i > m
    <3>1. PICK j \in 1..n : i = m + j
      <4>1. i - m \in 1..n /\ i = m + (i - m)
        BY <2>2
      <4> QED
        BY <4>1
    <3>2. (s \o t)[m + j] = t[j]
      OBVIOUS
    <3> QED
      BY <3>1, <3>2
  <2> QED
    BY <2>1, <2>2
<1> QED
  BY <1>1, <1>2, SeqEqual

\* A stretch of a sequence.
LEMMA SubSeqIs ==
  ASSUME NEW S, NEW s \in Seq(S), NEW a \in 1..(Len(s) + 1), NEW b \in (a - 1)..Len(s)
  PROVE  /\ SubSeq(s, a, b) \in Seq(S)
         /\ Len(SubSeq(s, a, b)) = b + 1 - a
         /\ \A i \in 1..(b + 1 - a) : SubSeq(s, a, b)[i] = s[a + i - 1]
<1>1. Len(s) \in Nat /\ b + 1 - a \in Nat
  OBVIOUS
<1>2. SubSeq(s, a, b) = [i \in 1..(b + 1 - a) |-> s[a + i - 1]]
  <2>1. (1 + b) - a = b + 1 - a
    BY <1>1
  <2> QED
    BY <1>1, <2>1
<1>3. \A i \in 1..(b + 1 - a) : s[a + i - 1] \in S
  BY <1>1
<1> QED
  BY <1>1, <1>2, <1>3

\* A beginning of a sequence, and the rest of it.
LEMMA SubSeqSplit ==
  ASSUME NEW S, NEW s \in Seq(S), NEW p \in 0..Len(s), NEW q \in p..Len(s)
  PROVE  /\ SubSeq(s, 1, p) \in Seq(S) /\ SubSeq(s, p + 1, q) \in Seq(S)
         /\ Len(SubSeq(s, 1, p)) = p /\ Len(SubSeq(s, p + 1, q)) = q - p
         /\ SubSeq(s, 1, p) \o SubSeq(s, p + 1, q) = SubSeq(s, 1, q)
<1>1. Len(s) \in Nat
  OBVIOUS
<1>2. SubSeq(s, 1, p) \in Seq(S) /\ Len(SubSeq(s, 1, p)) = p
  <2>1. 1 \in 1..(Len(s) + 1) /\ p \in (1 - 1)..Len(s) /\ p + 1 - 1 = p
    BY <1>1
  <2> QED
    BY <2>1, SubSeqIs
<1>3. SubSeq(s, p + 1, q) \in Seq(S) /\ Len(SubSeq(s, p + 1, q)) = q - p
  <2>1. PICK a \in 1..(Len(s) + 1) : a = p + 1 /\ q \in (a - 1)..Len(s) /\ q + 1 - a = q - p
    <3>1. p + 1 \in 1..(Len(s) + 1) /\ q \in (p + 1 - 1)..Len(s) /\ q + 1 - (p + 1) = q - p
      BY <1>1
    <3> QED
      BY <3>1
  <2> QED
    BY <2>1, SubSeqIs
<1>4. SubSeq(s, 1, p) \o SubSeq(s, p + 1, q) = SubSeq(s, 1, q)
  <2>1. 1 \in 1..(Len(s) + 1) /\ p \in (1 - 1)..Len(s)
    BY <1>1
  <2> QED
    BY <2>1, ConcatAdjacentSubSeq
<1> QED
  BY <1>2, <1>3, <1>4

\* A sequence is a prefix of its continuations.
LEMMA PrefixOfConcat ==
  ASSUME NEW S, NEW s \in Seq(S), NEW t \in Seq(S)
  PROVE  IsPrefix(s, s \o t)
<1>1. Len(s) <= Len(s \o t)
  OBVIOUS
<1>2. SubSeq(s \o t, 1, Len(s)) = s
  <2>1. SubSeq(s \o t, 1, Len(s)) \in Seq(S) /\ Len(SubSeq(s \o t, 1, Len(s))) = Len(s)
    OBVIOUS
  <2>2. \A i \in 1..Len(s) : SubSeq(s \o t, 1, Len(s))[i] = s[i]
    OBVIOUS
  <2> QED
    BY <2>1, <2>2, SeqEqual
<1>3. SubSeq(s, 1, Len(s)) = s
  BY SubSeqFull
<1> QED
  BY <1>1, <1>2, <1>3 DEF IsPrefix

\* g gives a sequence over S for each member of T.
Maps(g, T, S) == g \in [T -> Seq(S)]

\* Every element of w is replaced by a sequence.
Mapped(g, w) == FlattenSeq([i \in DOMAIN w |-> g[w[i]]])

\* It is made of elements of those sequences.
LEMMA MappedType ==
  ASSUME NEW S, NEW T, NEW g, Maps(g, T, S), NEW w \in Seq(T)
  PROVE  Mapped(g, w) \in Seq(S)
<1> USE DEF Maps
<1>1. DOMAIN w = 1..Len(w) /\ Len(w) \in Nat /\ \A i \in 1..Len(w) : g[w[i]] \in Seq(S)
  OBVIOUS
<1>2. [i \in DOMAIN w |-> g[w[i]]] \in Seq(Seq(S))
  BY <1>1
<1> QED
  BY <1>2, FlattenType DEF Mapped

\* Nothing is replaced by nothing.
LEMMA MappedEmpty ==
  ASSUME NEW g
  PROVE  Mapped(g, <<>>) = <<>>
<1>1. [i \in DOMAIN <<>> |-> g[<<>>[i]]] = <<>>
  OBVIOUS
<1> QED
  BY <1>1, FlattenEmpty DEF Mapped

\* One element more.
LEMMA MappedAppend ==
  ASSUME NEW S, NEW T, NEW g, Maps(g, T, S), NEW w \in Seq(T), NEW x \in T
  PROVE  Mapped(g, Append(w, x)) = Mapped(g, w) \o g[x]
<1>g. g \in [T -> Seq(S)]
  BY DEF Maps
<1> DEFINE F(v) == [i \in DOMAIN v |-> g[v[i]]]
           y == g[x]
           Q == Seq(S)
<1>0. PICK n \in Nat, u \in Seq(T) : /\ n = Len(w) /\ u = Append(w, x) /\ Len(u) = n + 1
                                     /\ u[n + 1] = x /\ \A i \in 1..n : u[i] = w[i]
  <2>1. /\ Len(w) \in Nat /\ Append(w, x) \in Seq(T) /\ Len(Append(w, x)) = Len(w) + 1
        /\ Append(w, x)[Len(w) + 1] = x /\ \A i \in 1..Len(w) : Append(w, x)[i] = w[i]
    BY AppendProperties
  <2> QED
    BY <2>1
<1>1. DOMAIN w = 1..n /\ DOMAIN u = 1..(n + 1)
  BY <1>0
<1>2. y \in Q
  BY <1>g
<1>3. F(w) \in Seq(Q) /\ Len(F(w)) = n
  <2>1. \A i \in 1..n : g[w[i]] \in Q
    BY <1>0, <1>g
  <2> QED
    BY <1>1, <2>1
<1>4. F(u) \in Seq(Q) /\ Len(F(u)) = n + 1
  <2>1. \A i \in 1..(n + 1) : g[u[i]] \in Q
    BY <1>0, <1>g
  <2>2. n + 1 \in Nat
    OBVIOUS
  <2> QED
    BY <1>1, <2>1, <2>2
<1>5. \A i \in 1..n : F(u)[i] = F(w)[i]
  BY <1>0, <1>1
<1>6. F(u)[n + 1] = y
  BY <1>0, <1>1
<1> HIDE DEF Q, F, y
<1>7. F(u) = Append(F(w), y)
  <2>1. /\ Append(F(w), y) \in Seq(Q) /\ Len(Append(F(w), y)) = n + 1
        /\ Append(F(w), y)[n + 1] = y
        /\ \A i \in 1..n : Append(F(w), y)[i] = F(w)[i]
    BY <1>2, <1>3, AppendProperties
  <2>2. \A i \in 1..(n + 1) : i \in 1..n \/ i = n + 1
    OBVIOUS
  <2>3. \A i \in 1..(n + 1) : F(u)[i] = Append(F(w), y)[i]
    BY <1>5, <1>6, <2>1, <2>2
  <2> QED
    BY <1>4, <2>1, <2>3, SeqEqual
<1>8. FlattenSeq(Append(F(w), y)) = FlattenSeq(F(w)) \o y
  <2>1. ASSUME NEW f \in Seq(Q) PROVE FlattenSeq(Append(f, y)) = FlattenSeq(f) \o y
    <3>1. f \in Seq(Seq(S)) /\ y \in Seq(S)
      BY <1>2, <2>1 DEF Q
    <3> QED
      BY <3>1, FlattenAppend
  <2> QED
    BY <1>3, <2>1
<1> QED
  BY <1>0, <1>7, <1>8 DEF Mapped, F, y

\* Appending to a concatenation appends to its second part.
LEMMA ConcatAppend ==
  ASSUME NEW S, NEW s \in Seq(S), NEW t \in Seq(S), NEW x \in S
  PROVE  s \o Append(t, x) = Append(s \o t, x) /\ Append(t, x) \in Seq(S)
<1>1. Append(t, x) = t \o <<x>> /\ Append(t, x) \in Seq(S) /\ <<x>> \in Seq(S) /\ s \o t \in Seq(S)
  OBVIOUS
<1>2. Append(s \o t, x) = (s \o t) \o <<x>>
  BY <1>1
<1>3. (s \o t) \o <<x>> = s \o (t \o <<x>>)
  BY <1>1, ConcatAssociative
<1> QED
  BY <1>1, <1>2, <1>3

\* The last of a sequence can be taken off.
LEMMA FrontAppend ==
  ASSUME NEW S, NEW s \in Seq(S), NEW x \in S
  PROVE  Front(Append(s, x)) = s
<1>1. PICK n \in Nat, u \in Seq(S) : /\ n = Len(s) /\ u = Append(s, x) /\ Len(u) = n + 1
                                     /\ \A i \in 1..n : u[i] = s[i]
  <2>1. /\ Len(s) \in Nat /\ Append(s, x) \in Seq(S) /\ Len(Append(s, x)) = Len(s) + 1
        /\ \A i \in 1..Len(s) : Append(s, x)[i] = s[i]
    BY AppendProperties
  <2> QED
    BY <2>1
<1>2. 1 \in 1..(Len(u) + 1) /\ n \in (1 - 1)..Len(u) /\ n + 1 - 1 = n /\ Len(u) - 1 = n
  BY <1>1
<1>3. /\ SubSeq(u, 1, n) \in Seq(S) /\ Len(SubSeq(u, 1, n)) = n
      /\ \A i \in 1..n : SubSeq(u, 1, n)[i] = u[1 + i - 1]
  <2>1. /\ SubSeq(u, 1, n) \in Seq(S) /\ Len(SubSeq(u, 1, n)) = n + 1 - 1
        /\ \A i \in 1..(n + 1 - 1) : SubSeq(u, 1, n)[i] = u[1 + i - 1]
    BY <1>2, SubSeqIs
  <2> QED
    BY <1>2, <2>1
<1>4. \A i \in 1..n : 1 + i - 1 = i
  OBVIOUS
<1>5. SubSeq(u, 1, n) = s
  <2>1. \A i \in 1..n : SubSeq(u, 1, n)[i] = s[i]
    BY <1>1, <1>3, <1>4
  <2> QED
    BY <1>1, <1>3, <2>1, SeqEqual
<1> QED
  BY <1>1, <1>2, <1>5 DEF Front
=============================================================================
