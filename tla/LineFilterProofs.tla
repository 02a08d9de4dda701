-------------------------- MODULE LineFilterProofs --------------------------
(***************************************************************************)
(* Proofs about LineFilter, for any output of the child, any way of        *)
(* cutting it into writes and any cap.                                     *)
(***************************************************************************)
EXTENDS LineFilter, DataLemmas

(***************************************************************************)
(* THE LINE OPERATORS.                                                     *)
(***************************************************************************)

\* What Write's search for the first newline finds.
LEMMA LineEndIs ==
  ASSUME work \in Seq(Bytes)
  PROVE  /\ LineEnd \in 0..Len(work)
         /\ LineEnd = 0 => \A k \in 1..Len(work) : work[k] # "nl"
         /\ LineEnd # 0 => /\ work[LineEnd] = "nl"
                           /\ \A k \in 1..(LineEnd - 1) : work[k] # "nl"
<1> DEFINE I == {i \in 1..Len(work) : work[i] = "nl"}
<1>1. Len(work) \in Nat
  OBVIOUS
<1>2. LineEnd = IF I # {} THEN Min(I) ELSE 0
  BY DEF LineEnd, SelectInSeq
<1>3. CASE I # {}
  <2>1. I \subseteq Nat
    OBVIOUS
  <2> HIDE DEF I
  <2>2. PICK x \in I : \A y \in I : x <= y
    BY <1>3, <2>1, LeastNatural
  <2>3. LineEnd \in I /\ \A y \in I : LineEnd <= y
    BY <1>2, <1>3, <2>2 DEF Min
  <2>4. LineEnd \in 1..Len(work) /\ work[LineEnd] = "nl"
    BY <2>3 DEF I
  <2>5. ASSUME NEW k \in 1..(LineEnd - 1) PROVE work[k] # "nl"
    <3>1. k \in 1..Len(work) /\ ~(LineEnd <= k)
      BY <1>1, <2>4
    <3> QED
      BY <2>3, <3>1 DEF I
  <2> QED
    BY <1>1, <2>4, <2>5
<1>4. CASE I = {}
  BY <1>1, <1>2, <1>4
<1> QED
  BY <1>3, <1>4

\* No control byte, and no part of a rune without the other.
Clean(s) ==
  \A i \in 1..Len(s) :
    /\ s[i] # "ctl"
    /\ s[i] = "lead" => i < Len(s) /\ s[i + 1] = "cont"
    /\ s[i] = "cont" => i > 1 /\ s[i - 1] = "lead"

\* sanitizeControlBytes keeps the length and makes any line clean.
LEMMA SanitizedIsClean ==
  ASSUME NEW s \in Seq(Bytes)
  PROVE  /\ sanitizeControlBytes(s) \in Seq(Bytes)
         /\ Len(sanitizeControlBytes(s)) = Len(s)
         /\ Clean(sanitizeControlBytes(s))
<1> DEFINE t == sanitizeControlBytes(s)
<1>1. Len(s) \in Nat /\ DOMAIN s = 1..Len(s) /\ \A i \in 1..Len(s) : s[i] \in Bytes
  OBVIOUS
<1>2. t = [i \in 1..Len(s) |->
            IF \/ s[i] = "ctl"
               \/ s[i] = "lead" /\ (i = Len(s) \/ s[i + 1] # "cont")
               \/ s[i] = "cont" /\ (i = 1 \/ s[i - 1] # "lead")
            THEN "esc" ELSE s[i]]
  BY <1>1 DEF sanitizeControlBytes
<1> HIDE DEF t
<1>3. t \in Seq(Bytes) /\ Len(t) = Len(s)
  <2>1. \A i \in 1..Len(s) : t[i] \in Bytes
    BY <1>1, <1>2 DEF Bytes
  <2>2. t \in [1..Len(s) -> Bytes]
    BY <1>2, <2>1
  <2> QED
    BY <1>1, <2>2
<1>4. Clean(t)
  <2> SUFFICES ASSUME NEW i \in 1..Len(s)
               PROVE  /\ t[i] # "ctl"
                      /\ t[i] = "lead" => i < Len(s) /\ t[i + 1] = "cont"
                      /\ t[i] = "cont" => i > 1 /\ t[i - 1] = "lead"
    BY <1>3 DEF Clean
  <2>1. t[i] # "ctl"
    BY <1>2
  <2>2. ASSUME t[i] = "lead" PROVE i < Len(s) /\ t[i + 1] = "cont"
    <3>1. s[i] = "lead" /\ i # Len(s) /\ s[i + 1] = "cont"
      BY <1>2, <2>2
    <3>2. i + 1 \in 1..Len(s) /\ i + 1 # 1 /\ (i + 1) - 1 = i /\ i < Len(s)
      <4> DEFINE n == Len(s)
      <4> HIDE DEF n
      <4>1. n \in Nat /\ i \in 1..n /\ i # n
        BY <1>1, <3>1 DEF n
      <4>2. i + 1 \in 1..n /\ i + 1 # 1 /\ (i + 1) - 1 = i /\ i < n
        BY <4>1
      <4> QED
        BY <4>2 DEF n
    <3> QED
      BY <1>2, <3>1, <3>2
  <2>3. ASSUME t[i] = "cont" PROVE i > 1 /\ t[i - 1] = "lead"
    <3>1. s[i] = "cont" /\ i # 1 /\ s[i - 1] = "lead"
      BY <1>2, <2>3
    <3>2. i - 1 \in 1..Len(s) /\ i - 1 # Len(s) /\ (i - 1) + 1 = i
      BY <1>1, <3>1
    <3> QED
      BY <1>2, <3>1, <3>2
  <2> QED
    BY <2>1, <2>2, <2>3
<1> QED
  BY <1>3, <1>4 DEF t

\* Clean lines one after the other are clean.
LEMMA CleanConcat ==
  ASSUME NEW s \in Seq(Bytes), NEW t \in Seq(Bytes), Clean(s), Clean(t)
  PROVE  Clean(s \o t)
<1>1. /\ s \o t \in Seq(Bytes) /\ Len(s \o t) = Len(s) + Len(t)
      /\ \A i \in 1..Len(s) : (s \o t)[i] = s[i]
      /\ \A i \in 1..Len(t) : (s \o t)[Len(s) + i] = t[i]
  OBVIOUS
<1> SUFFICES ASSUME NEW m \in Nat, m = Len(s), NEW n \in Nat, n = Len(t),
                    NEW u \in Seq(Bytes), u = s \o t, NEW i \in 1..(m + n)
             PROVE  /\ u[i] # "ctl"
                    /\ u[i] = "lead" => i < m + n /\ u[i + 1] = "cont"
                    /\ u[i] = "cont" => i > 1 /\ u[i - 1] = "lead"
  BY <1>1 DEF Clean
<1>2. /\ \A k \in 1..m : u[k] = s[k]
      /\ \A k \in 1..n : u[m + k] = t[k]
  BY <1>1
<1>3. CASE i <= m
  <2>1. u[i] = s[i] /\ i \in 1..m
    BY <1>2, <1>3
  <2>2. /\ s[i] # "ctl"
        /\ s[i] = "lead" => i < m /\ s[i + 1] = "cont"
        /\ s[i] = "cont" => i > 1 /\ s[i - 1] = "lead"
    BY <2>1 DEF Clean
  <2>3. s[i] = "lead" => u[i + 1] = s[i + 1]
    BY <1>2, <2>1, <2>2
  <2>4. s[i] = "cont" => u[i - 1] = s[i - 1]
    BY <1>2, <2>1, <2>2
  <2> QED
    BY <2>1, <2>2, <2>3, <2>4
<1>4. CASE i > m
  <2>1. PICK j \in 1..n : i = m + j
    <3>1. i - m \in 1..n /\ i = m + (i - m)
      BY <1>4
    <3> QED
      BY <3>1
  <2>2. u[i] = t[j]
    BY <1>2, <2>1
  <2>3. /\ t[j] # "ctl"
        /\ t[j] = "lead" => j < n /\ t[j + 1] = "cont"
        /\ t[j] = "cont" => j > 1 /\ t[j - 1] = "lead"
    BY <2>1 DEF Clean
  <2>4. t[j] = "lead" => u[i + 1] = t[j + 1]
    <3> SUFFICES ASSUME t[j] = "lead" PROVE u[i + 1] = t[j + 1]
      OBVIOUS
    <3>1. j + 1 \in 1..n /\ i + 1 = m + (j + 1)
      BY <2>1, <2>3
    <3> QED
      BY <1>2, <3>1
  <2>5. t[j] = "cont" => u[i - 1] = t[j - 1]
    <3> SUFFICES ASSUME t[j] = "cont" PROVE u[i - 1] = t[j - 1]
      OBVIOUS
    <3>1. j - 1 \in 1..n /\ i - 1 = m + (j - 1)
      BY <2>1, <2>3
    <3> QED
      BY <1>2, <3>1
  <2> QED
    BY <2>1, <2>2, <2>3, <2>4, <2>5
<1> QED
  BY <1>3, <1>4

\* Where a line begins: after the newline before byte i.
LEMMA LineStartIs ==
  ASSUME NEW s \in Seq(Bytes), NEW i \in 1..Len(s)
  PROVE  /\ LineStart(s, i) \in 1..i
         /\ LineStart(s, i) > 1 => s[LineStart(s, i) - 1] = "nl"
         /\ \A k \in LineStart(s, i)..(i - 1) : s[k] # "nl"
<1> DEFINE T == {0} \union {k \in 1..(i - 1) : s[k] = "nl"}
<1>1. i \in Nat \ {0}
  OBVIOUS
<1>2. i - 1 \in Nat /\ T \subseteq 0..(i - 1) /\ T # {} /\ T \subseteq Nat
  BY <1>1
<1>3. PICK x \in T : \A y \in T : y <= x
  <2> HIDE DEF T
  <2> QED
    BY <1>2, GreatestNatural
<1>4. Max(T) = x
  <2> HIDE DEF T
  <2> QED
    BY <1>2, <1>3, MaxIs
<1>5. LineStart(s, i) = 1 + x
  BY <1>4 DEF LineStart
<1>6. x \in Nat /\ x <= i - 1 /\ (x # 0 => s[x] = "nl")
  BY <1>1, <1>2
<1>7. ASSUME NEW k \in (1 + x)..(i - 1) PROVE s[k] # "nl"
  <2>1. k \in 1..(i - 1) /\ ~(k <= x)
    BY <1>1, <1>6
  <2> QED
    BY <1>3, <2>1
<1>8. (1 + x) \in 1..i /\ (1 + x) - 1 = x /\ ((1 + x) > 1 => x # 0)
  BY <1>1, <1>6
<1> QED
  BY <1>5, <1>6, <1>7, <1>8

\* Where a line ends: at the first newline from byte i on, or at the end.
LEMMA LineStopIs ==
  ASSUME NEW s \in Seq(Bytes), NEW i \in 1..Len(s)
  PROVE  /\ LineStop(s, i) \in i..Len(s)
         /\ LineStop(s, i) < Len(s) => s[LineStop(s, i)] = "nl"
         /\ \A k \in i..(LineStop(s, i) - 1) : s[k] # "nl"
<1> DEFINE T == {Len(s)} \union {k \in i..Len(s) : s[k] = "nl"}
<1>1. i \in Nat \ {0} /\ Len(s) \in Nat /\ i <= Len(s)
  OBVIOUS
<1>2. T # {} /\ T \subseteq Nat /\ T \subseteq i..Len(s)
  BY <1>1
<1>3. PICK x \in T : \A y \in T : x <= y
  <2> HIDE DEF T
  <2> QED
    BY <1>2, LeastNatural
<1>4. Min(T) = x
  <2> HIDE DEF T
  <2> QED
    BY <1>2, <1>3, MinIs
<1>5. LineStop(s, i) = x
  BY <1>4 DEF LineStop
<1>6. x \in i..Len(s) /\ (x < Len(s) => s[x] = "nl")
  BY <1>1, <1>2
<1>7. ASSUME NEW k \in i..(x - 1) PROVE s[k] # "nl"
  <2>1. k \in i..Len(s) /\ ~(x <= k)
    BY <1>1, <1>6
  <2> QED
    BY <1>3, <2>1
<1> QED
  BY <1>5, <1>6, <1>7

\* These facts determine the line.
LEMMA LineStartUnique ==
  ASSUME NEW s \in Seq(Bytes), NEW i \in 1..Len(s), NEW a \in 1..i,
         a > 1 => s[a - 1] = "nl", \A k \in a..(i - 1) : s[k] # "nl"
  PROVE  LineStart(s, i) = a
<1> SUFFICES ASSUME NEW b \in 1..i, b = LineStart(s, i), b # a PROVE FALSE
  BY LineStartIs
<1>1. (b > 1 => s[b - 1] = "nl") /\ \A k \in b..(i - 1) : s[k] # "nl"
  BY LineStartIs
<1>2. CASE a < b
  <2>1. b - 1 \in a..(i - 1) /\ b > 1
    BY <1>2
  <2> QED
    BY <1>1, <2>1
<1>3. CASE b < a
  <2>1. a - 1 \in b..(i - 1) /\ a > 1
    BY <1>3
  <2> QED
    BY <1>1, <2>1
<1> QED
  BY <1>2, <1>3

\* The same for where it ends.
LEMMA LineStopUnique ==
  ASSUME NEW s \in Seq(Bytes), NEW i \in 1..Len(s), NEW a \in i..Len(s),
         a < Len(s) => s[a] = "nl", \A k \in i..(a - 1) : s[k] # "nl"
  PROVE  LineStop(s, i) = a
<1> SUFFICES ASSUME NEW b \in i..Len(s), b = LineStop(s, i), b # a PROVE FALSE
  BY LineStopIs
<1>1. (b < Len(s) => s[b] = "nl") /\ \A k \in i..(b - 1) : s[k] # "nl"
  BY LineStopIs
<1>0. Len(s) \in Nat
  OBVIOUS
<1>2. CASE a < b
  <2>1. a \in i..(b - 1) /\ a < Len(s)
    BY <1>0, <1>2
  <2> QED
    BY <1>1, <2>1
<1>3. CASE b < a
  <2>1. b \in i..(a - 1) /\ b < Len(s)
    BY <1>0, <1>3
  <2> QED
    BY <1>1, <2>1
<1> QED
  BY <1>2, <1>3

\* s ends where a line ends.
Whole(s) == s = <<>> \/ s[Len(s)] = "nl"

\* What is written after a whole line does not change how s is cleaned.
LEMMA CleanedByteLeft ==
  ASSUME NEW s \in Seq(Bytes), NEW t \in Seq(Bytes), Whole(s), NEW i \in 1..Len(s)
  PROVE  CleanedByte(s \o t, i) = CleanedByte(s, i)
<1>1. /\ s \o t \in Seq(Bytes) /\ Len(s \o t) = Len(s) + Len(t)
      /\ \A k \in 1..Len(s) : (s \o t)[k] = s[k]
      /\ Len(s) \in Nat /\ Len(t) \in Nat
  OBVIOUS
<1> SUFFICES ASSUME NEW m \in Nat, m = Len(s), NEW n \in Nat, n = Len(t), i \in 1..m,
                    NEW u \in Seq(Bytes), u = s \o t, Len(u) = m + n,
                    \A k \in 1..m : u[k] = s[k]
             PROVE  CleanedByte(u, i) = CleanedByte(s, i)
  BY <1>1
<1>2. i \in 1..Len(u)
  OBVIOUS
<1>3. s[m] = "nl"
  BY DEF Whole
<1>4. PICK a \in 1..i : /\ a = LineStart(s, i) /\ (a > 1 => s[a - 1] = "nl")
                        /\ \A k \in a..(i - 1) : s[k] # "nl"
  BY LineStartIs
<1>5. LineStart(u, i) = a
  <2>1. a > 1 => u[a - 1] = "nl"
    <3>1. a > 1 => a - 1 \in 1..m
      OBVIOUS
    <3> QED
      BY <1>4, <3>1
  <2>2. ASSUME NEW k \in a..(i - 1) PROVE u[k] # "nl"
    <3>1. k \in 1..m
      OBVIOUS
    <3> QED
      BY <1>4, <3>1
  <2> QED
    BY <1>2, <2>1, <2>2, LineStartUnique
<1>6. PICK b \in i..m : /\ b = LineStop(s, i) /\ (b < m => s[b] = "nl")
                        /\ \A k \in i..(b - 1) : s[k] # "nl"
  BY LineStopIs
<1>7. LineStop(u, i) = b
  <2>1. b \in i..Len(u) /\ u[b] = "nl"
    <3>1. b \in 1..m /\ (b < m \/ b = m)
      OBVIOUS
    <3> QED
      BY <1>3, <1>6, <3>1
  <2>2. ASSUME NEW k \in i..(b - 1) PROVE u[k] # "nl"
    <3>1. k \in 1..m
      OBVIOUS
    <3> QED
      BY <1>6, <3>1
  <2> QED
    BY <1>2, <2>1, <2>2, LineStopUnique
<1>8. SubSeq(u, a, b) = SubSeq(s, a, b)
  <2>1. a \in 1..Len(s) /\ b \in 1..Len(s)
    OBVIOUS
  <2> QED
    BY <2>1, SubSeqOfConcat1
<1> QED
  BY <1>4, <1>5, <1>6, <1>7, <1>8 DEF CleanedByte

\* Nor does a whole line before t change how t is cleaned.
LEMMA CleanedByteRight ==
  ASSUME NEW s \in Seq(Bytes), NEW t \in Seq(Bytes), Whole(s), NEW i \in 1..Len(t)
  PROVE  CleanedByte(s \o t, Len(s) + i) = CleanedByte(t, i)
<1>1. /\ s \o t \in Seq(Bytes) /\ Len(s \o t) = Len(s) + Len(t)
      /\ \A k \in 1..Len(s) : (s \o t)[k] = s[k]
      /\ \A k \in 1..Len(t) : (s \o t)[Len(s) + k] = t[k]
      /\ Len(s) \in Nat /\ Len(t) \in Nat
  OBVIOUS
<1> SUFFICES ASSUME NEW m \in Nat, m = Len(s), NEW n \in Nat, n = Len(t), i \in 1..n,
                    NEW u \in Seq(Bytes), u = s \o t, Len(u) = m + n,
                    \A k \in 1..m : u[k] = s[k], \A k \in 1..n : u[m + k] = t[k]
             PROVE  CleanedByte(u, m + i) = CleanedByte(t, i)
  BY <1>1
<1>2. m + i \in 1..Len(u)
  OBVIOUS
<1>3. m > 0 => u[m] = "nl"
  BY DEF Whole
<1>4. PICK a \in 1..i : /\ a = LineStart(t, i) /\ (a > 1 => t[a - 1] = "nl")
                        /\ \A k \in a..(i - 1) : t[k] # "nl"
  BY LineStartIs
<1>5. LineStart(u, m + i) = m + a
  <2> SUFFICES ASSUME NEW p \in 1..Len(u), p = m + i, NEW q \in 1..p, q = m + a
               PROVE  LineStart(u, p) = q
    <3>1. m + a \in 1..(m + i)
      OBVIOUS
    <3> QED
      BY <1>2, <3>1
  <2>1. q > 1 => u[q - 1] = "nl"
    <3>1. CASE a > 1
      <4>1. a - 1 \in 1..n /\ q - 1 = m + (a - 1)
        BY <3>1
      <4> QED
        BY <1>4, <3>1, <4>1
    <3>2. CASE a = 1
      BY <1>3, <3>2
    <3> QED
      BY <3>1, <3>2
  <2>2. ASSUME NEW k \in q..(p - 1) PROVE u[k] # "nl"
    <3>1. PICK j \in a..(i - 1) : k = m + j
      <4>1. k - m \in a..(i - 1) /\ k = m + (k - m)
        OBVIOUS
      <4> QED
        BY <4>1
    <3>2. j \in 1..n
      OBVIOUS
    <3> QED
      BY <1>4, <3>1, <3>2
  <2> QED
    BY <2>1, <2>2, LineStartUnique
<1>6. PICK b \in i..n : /\ b = LineStop(t, i) /\ (b < n => t[b] = "nl")
                        /\ \A k \in i..(b - 1) : t[k] # "nl"
  BY LineStopIs
<1>7. LineStop(u, m + i) = m + b
  <2> SUFFICES ASSUME NEW p \in 1..Len(u), p = m + i, NEW q \in p..Len(u), q = m + b
               PROVE  LineStop(u, p) = q
    <3>1. m + b \in (m + i)..Len(u)
      OBVIOUS
    <3> QED
      BY <1>2, <3>1
  <2>1. q < Len(u) => u[q] = "nl"
    <3>1. b \in 1..n /\ (q < Len(u) => b < n)
      OBVIOUS
    <3> QED
      BY <1>6, <3>1
  <2>2. ASSUME NEW k \in p..(q - 1) PROVE u[k] # "nl"
    <3>1. PICK j \in i..(b - 1) : k = m + j
      <4>1. k - m \in i..(b - 1) /\ k = m + (k - m)
        OBVIOUS
      <4> QED
        BY <4>1
    <3>2. j \in 1..n
      OBVIOUS
    <3> QED
      BY <1>6, <3>1, <3>2
  <2> QED
    BY <2>1, <2>2, LineStopUnique
<1>8. SubSeq(u, m + a, m + b) = SubSeq(t, a, b)
  <2>1. m + a \in (m + 1)..(m + n) /\ m + b \in (m + 1)..(m + n) /\ (m + a) - m = a /\ (m + b) - m = b
    OBVIOUS
  <2> QED
    BY <2>1, SubSeqOfConcat2
<1>9. (m + i) + 1 - (m + a) = i + 1 - a
  OBVIOUS
<1> QED
  BY <1>4, <1>5, <1>6, <1>7, <1>8, <1>9 DEF CleanedByte

\* Cleaning a byte gives bytes.
LEMMA CleanedByteType ==
  ASSUME NEW s \in Seq(Bytes), NEW i \in 1..Len(s)
  PROVE  CleanedByte(s, i) \in Seq(Bytes)
<1>1. PICK a \in 1..i : a = LineStart(s, i)
  BY LineStartIs
<1>2. PICK b \in i..Len(s) : b = LineStop(s, i)
  BY LineStopIs
<1> DEFINE line == SubSeq(s, a, b)
<1>3. line \in Seq(Bytes) /\ Len(line) = b - a + 1
  <2>1. a \in 1..Len(s) /\ b \in 1..Len(s) /\ a <= b
    OBVIOUS
  <2> QED
    BY <2>1
<1> HIDE DEF line
<1>4. i + 1 - a \in 1..Len(line)
  BY <1>3
<1>5. <<sanitizeControlBytes(line)[i + 1 - a]>> \in Seq(Bytes)
  <2>1. sanitizeControlBytes(line) \in Seq(Bytes) /\ Len(sanitizeControlBytes(line)) = Len(line)
    BY <1>3, SanitizedIsClean
  <2>2. sanitizeControlBytes(line)[i + 1 - a] \in Bytes
    BY <1>4, <2>1
  <2> QED
    BY <2>2
<1>6. CleanedByte(s, i) = IF shouldFilterLine(line) THEN <<>>
                          ELSE <<sanitizeControlBytes(line)[i + 1 - a]>>
  BY <1>1, <1>2 DEF CleanedByte, line
<1>7. <<>> \in Seq(Bytes)
  OBVIOUS
<1> QED
  BY <1>5, <1>6, <1>7

\* Cleaned works line by line: what follows a whole line is cleaned on its own.
LEMMA CleanedConcat ==
  ASSUME NEW s \in Seq(Bytes), NEW t \in Seq(Bytes), Whole(s)
  PROVE  Cleaned(s \o t) = Cleaned(s) \o Cleaned(t)
<1>0. s \o t \in Seq(Bytes) /\ Len(s \o t) = Len(s) + Len(t) /\ Len(s) \in Nat /\ Len(t) \in Nat
  OBVIOUS
<1> SUFFICES ASSUME NEW m \in Nat, m = Len(s), NEW n \in Nat, n = Len(t),
                    NEW u \in Seq(Bytes), u = s \o t, Len(u) = m + n
             PROVE  Cleaned(u) = Cleaned(s) \o Cleaned(t)
  BY <1>0
<1> DEFINE f == [i \in 1..m |-> CleanedByte(s, i)]
           g == [i \in 1..n |-> CleanedByte(t, i)]
           h == [i \in 1..(m + n) |-> CleanedByte(u, i)]
<1>1. f \in Seq(Seq(Bytes)) /\ Len(f) = m
  BY CleanedByteType
<1>2. g \in Seq(Seq(Bytes)) /\ Len(g) = n
  BY CleanedByteType
<1>3. ASSUME NEW i \in 1..m PROVE h[i] = f[i]
  <2>1. h[i] = CleanedByte(u, i) /\ f[i] = CleanedByte(s, i)
    OBVIOUS
  <2> QED
    BY <2>1, CleanedByteLeft
<1>4. ASSUME NEW i \in 1..n PROVE h[m + i] = g[i]
  <2>1. h[m + i] = CleanedByte(u, m + i) /\ g[i] = CleanedByte(t, i)
    OBVIOUS
  <2> QED
    BY <2>1, CleanedByteRight
<1>5. Cleaned(s) = FlattenSeq(f) /\ Cleaned(t) = FlattenSeq(g) /\ Cleaned(u) = FlattenSeq(h)
  BY DEF Cleaned
<1>6. h \in Seq(Seq(Bytes)) /\ Len(h) = m + n
  <2>1. \A i \in 1..(m + n) : CleanedByte(u, i) \in Seq(Bytes)
    BY CleanedByteType
  <2>2. m + n \in Nat
    OBVIOUS
  <2> QED
    BY <2>1, <2>2
<1> HIDE DEF f, g, h
<1>7. h = f \o g
  <2> DEFINE S == Seq(Bytes)
  <2>1. f \in Seq(S) /\ g \in Seq(S) /\ h \in Seq(S)
    BY <1>1, <1>2, <1>6
  <2>2. Len(h) = Len(f) + Len(g)
    BY <1>1, <1>2, <1>6
  <2>3. \A i \in 1..Len(f) : h[i] = f[i]
    BY <1>1, <1>3
  <2>4. \A i \in 1..Len(g) : h[Len(f) + i] = g[i]
    BY <1>1, <1>2, <1>4
  <2> HIDE DEF S
  <2> QED
    BY <2>1, <2>2, <2>3, <2>4, ConcatIs
<1>8. FlattenSeq(f \o g) = FlattenSeq(f) \o FlattenSeq(g)
  BY <1>1, <1>2, FlattenConcat
<1> QED
  BY <1>5, <1>7, <1>8

\* One line is dropped whole or sanitized whole.
LEMMA CleanedLine ==
  ASSUME NEW l \in Seq(Bytes), \A k \in 1..(Len(l) - 1) : l[k] # "nl"
  PROVE  Cleaned(l) = IF shouldFilterLine(l) THEN <<>> ELSE sanitizeControlBytes(l)
<1> SUFFICES ASSUME NEW m \in Nat, m = Len(l)
             PROVE  Cleaned(l) = IF shouldFilterLine(l) THEN <<>> ELSE sanitizeControlBytes(l)
  OBVIOUS
<1> DEFINE san == sanitizeControlBytes(l)
<1>1. ASSUME NEW i \in 1..m
      PROVE  CleanedByte(l, i) = IF shouldFilterLine(l) THEN <<>> ELSE <<san[i]>>
  <2>1. LineStart(l, i) = 1
    <3>1. 1 \in 1..i /\ (1 > 1 => l[1 - 1] = "nl") /\ \A k \in 1..(i - 1) : l[k] # "nl"
      OBVIOUS
    <3> QED
      BY <3>1, LineStartUnique
  <2>2. LineStop(l, i) = m
    <3>1. m \in i..m /\ (m < m => l[m] = "nl") /\ \A k \in i..(m - 1) : l[k] # "nl"
      OBVIOUS
    <3> QED
      BY <3>1, LineStopUnique
  <2>3. SubSeq(l, 1, m) = l
    BY SubSeqFull
  <2>4. i + 1 - 1 = i
    OBVIOUS
  <2> QED
    BY <2>1, <2>2, <2>3, <2>4 DEF CleanedByte
<1>2. san \in Seq(Bytes) /\ Len(san) = m
  BY SanitizedIsClean
<1>3. CASE shouldFilterLine(l)
  <2>1. [i \in 1..m |-> CleanedByte(l, i)] = [i \in 1..m |-> <<>>]
    BY <1>1, <1>3
  <2>2. Cleaned(l) = FlattenSeq([i \in 1..m |-> <<>>])
    BY <2>1 DEF Cleaned
  <2> QED
    BY <1>3, <2>2, FlattenEmpties
<1>4. CASE ~shouldFilterLine(l)
  <2>1. [i \in 1..m |-> CleanedByte(l, i)] = [i \in 1..m |-> <<san[i]>>]
    BY <1>1, <1>4
  <2>2. Cleaned(l) = FlattenSeq([i \in 1..m |-> <<san[i]>>])
    BY <2>1 DEF Cleaned
  <2> HIDE DEF san
  <2>3. Cleaned(l) = san
    BY <1>2, <2>2, FlattenSingletons
  <2> QED
    BY <1>4, <2>3 DEF san
<1> QED
  BY <1>3, <1>4

\* Cleaning gives bytes.
LEMMA CleanedType ==
  ASSUME NEW s \in Seq(Bytes)
  PROVE  Cleaned(s) \in Seq(Bytes)
<1>1. [i \in 1..Len(s) |-> CleanedByte(s, i)] \in Seq(Seq(Bytes))
  BY CleanedByteType
<1> QED
  BY <1>1, FlattenType DEF Cleaned

\* Concatenation may be bracketed at will.
LEMMA Regroup ==
  ASSUME NEW a \in Seq(Bytes), NEW b \in Seq(Bytes), NEW c \in Seq(Bytes)
  PROVE  (a \o b) \o c = a \o (b \o c)
BY ConcatAssociative

\* A line holds no newline before its last byte.
IsLine(l) == \A k \in 1..(Len(l) - 1) : l[k] # "nl"

\* emit keeps the log clean and, if it held the cleaned lines, faithful.
LEMMA EmitTells ==
  ASSUME NEW line \in Seq(Bytes), NEW next, next # "failed", emit(line, next),
         out \in Seq(Bytes), passed \in Seq(Bytes), Clean(out)
  PROVE  /\ passed' = passed \o line /\ passed' \in Seq(Bytes)
         /\ Len(passed') = Len(passed) + Len(line)
         /\ out' \in Seq(Bytes) /\ Clean(out')
         /\ pc' \in {next, "failed"}
         /\ pc' = "failed" => out' = out
         /\ IsLine(line) /\ Whole(passed) /\ out = Cleaned(passed) /\ pc' # "failed"
              => out' = Cleaned(passed')
<1> DEFINE san == sanitizeControlBytes(line)
<1>1. san \in Seq(Bytes) /\ Clean(san)
  BY SanitizedIsClean
<1>2. passed' = passed \o line /\ pc' \in {next, "failed"} /\ (pc' = "failed" => out' = out)
  BY DEF emit
<1>3. passed' \in Seq(Bytes) /\ Len(passed') = Len(passed) + Len(line)
  BY <1>2
<1>4. out' = out \/ out' = out \o san
  BY DEF emit
<1>5. out' \in Seq(Bytes) /\ Clean(out')
  <2> HIDE DEF san
  <2>1. out \o san \in Seq(Bytes) /\ Clean(out \o san)
    BY <1>1, CleanConcat
  <2> QED
    BY <1>4, <2>1
<1>6. ASSUME IsLine(line), Whole(passed), out = Cleaned(passed), pc' # "failed"
      PROVE  out' = Cleaned(passed')
  <2>1. Cleaned(passed') = out \o Cleaned(line)
    BY <1>2, <1>6, CleanedConcat
  <2>2. Cleaned(line) = IF shouldFilterLine(line) THEN <<>> ELSE san
    BY <1>6, CleanedLine DEF IsLine
  <2>3. out' = IF shouldFilterLine(line) THEN out ELSE out \o san
    BY <1>6 DEF emit
  <2>4. out \o <<>> = out
    OBVIOUS
  <2> QED
    BY <2>1, <2>2, <2>3, <2>4
<1> QED
  BY <1>2, <1>3, <1>5, <1>6

(***************************************************************************)
(* THE INDUCTIVE INVARIANT.                                                *)
(***************************************************************************)

\* Types; Len(stream) bounds everything else through SizeInv.
TypeInv ==
  /\ stream \in Seq(Bytes) /\ work \in Seq(Bytes) /\ buf \in Seq(Bytes)
  /\ out \in Seq(Bytes) /\ passed \in Seq(Bytes)
  /\ pos \in 0..Len(stream)
  /\ pc \in {"idle", "loop", "failed", "done"}
  /\ floods \in Nat

\* Write's buffer lives in Write; between two writes there is a partial line only.
PlaceInv ==
  /\ pc # "loop" => work = <<>>
  /\ pc # "idle" => buf = <<>>
  /\ \A k \in 1..Len(buf) : buf[k] # "nl"
  /\ Len(buf) <= MaxLineBytes

\* Nothing is made up, and every flood has passed on a byte at least.
SizeInv ==
  /\ Len(passed) + Len(work) + Len(buf) <= pos
  /\ floods <= Len(passed)

\* Until the first flood, the log holds the lines that have passed, cleaned.
ToldInv ==
  floods = 0 =>
    /\ pc \in {"idle", "loop"} => out = Cleaned(passed) /\ Whole(passed)
    /\ pc = "done" => out = Cleaned(passed)
    /\ pc = "failed" => IsPrefix(out, Cleaned(Fed))

\* What every step keeps.
IndInv ==
  /\ TypeInv /\ PlaceInv /\ SizeInv /\ EveryByteJudged
  /\ Clean(out) /\ ToldInv

\* It holds when the filter is made.
LEMMA InitInv == Init => IndInv
<1> SUFFICES ASSUME Init PROVE IndInv
  OBVIOUS
<1> USE DEF Init
<1>1. stream \in Seq(Bytes) /\ Len(stream) \in Nat
  BY StreamsAssumption
<1>2. TypeInv
  BY <1>1 DEF TypeInv
<1>3. Len(<<>>) = 0 /\ <<>> \o <<>> = <<>>
  OBVIOUS
<1>4. PlaceInv /\ SizeInv
  BY <1>3, CapAssumption DEF PlaceInv, SizeInv
<1>5. EveryByteJudged
  <2>1. SubSeq(stream, 1, 0) = <<>>
    BY <1>1
  <2> QED
    BY <1>3, <2>1 DEF EveryByteJudged, Fed
<1>6. Clean(out)
  BY <1>3 DEF Clean
<1>7. ToldInv
  <2>1. [i \in 1..Len(<<>>) |-> CleanedByte(<<>>, i)] = <<>>
    BY <1>3
  <2>2. Cleaned(<<>>) = <<>>
    BY <2>1, FlattenEmpty DEF Cleaned
  <2> QED
    BY <2>2 DEF ToldInv, Whole
<1> QED
  BY <1>2, <1>4, <1>5, <1>6, <1>7 DEF IndInv

\* Write takes the partial line and the new bytes together.
LEMMA WriteInv ==
  ASSUME IndInv, NEW n \in 1..Len(stream), Write(n)
  PROVE  IndInv'
<1> USE DEF Write
<1>1. /\ stream \in Seq(Bytes) /\ work = <<>> /\ buf \in Seq(Bytes) /\ out \in Seq(Bytes)
      /\ passed \in Seq(Bytes) /\ pos \in 0..Len(stream) /\ floods \in Nat
  BY DEF IndInv, TypeInv, PlaceInv
<1>2. PICK new \in Seq(Bytes) : /\ new = SubSeq(stream, pos + 1, pos + n) /\ Len(new) = n
                                /\ Fed \in Seq(Bytes) /\ Len(Fed) = pos
                                /\ Fed \o new = Fed'
  <2>1. PICK q \in pos..Len(stream) : q = pos + n /\ q - pos = n
    <3>1. pos + n \in pos..Len(stream) /\ (pos + n) - pos = n
      BY <1>1
    <3> QED
      BY <3>1
  <2>2. /\ SubSeq(stream, 1, pos) \in Seq(Bytes) /\ SubSeq(stream, pos + 1, q) \in Seq(Bytes)
        /\ Len(SubSeq(stream, 1, pos)) = pos /\ Len(SubSeq(stream, pos + 1, q)) = q - pos
        /\ SubSeq(stream, 1, pos) \o SubSeq(stream, pos + 1, q) = SubSeq(stream, 1, q)
    BY <1>1, SubSeqSplit
  <2> QED
    BY <2>1, <2>2 DEF Fed
<1>3. passed \o buf = Fed
  <2>1. passed \o <<>> = passed
    BY <1>1
  <2> QED
    BY <1>1, <2>1 DEF IndInv, EveryByteJudged
<1>4. /\ work' = buf \o new /\ work' \in Seq(Bytes) /\ Len(work') = Len(buf) + n
      /\ buf' = <<>> /\ Len(buf') = 0
  BY <1>1, <1>2
<1>5. TypeInv'
  <2>1. pos' \in 0..Len(stream)
    BY <1>1
  <2> QED
    BY <1>1, <1>4, <2>1 DEF TypeInv
<1>6. PlaceInv'
  BY <1>4, CapAssumption DEF PlaceInv
<1>7. SizeInv'
  <2>1. Len(passed) + 0 + Len(buf) <= pos /\ floods <= Len(passed)
    BY <1>1 DEF IndInv, SizeInv
  <2>2. Len(passed) \in Nat /\ Len(buf) \in Nat
    BY <1>1
  <2>3. Len(passed) + (Len(buf) + n) + 0 <= pos + n
    BY <1>1, <2>1, <2>2
  <2> QED
    BY <1>4, <2>1, <2>3 DEF SizeInv
<1>8. EveryByteJudged'
  <2>1. passed \o (buf \o new) = (passed \o buf) \o new
    <3>1. \A c \in Seq(Bytes) : (passed \o buf) \o c = passed \o (buf \o c)
      BY <1>1, Regroup
    <3> QED
      BY <3>1
  <2>2. (passed \o work') \o <<>> = passed \o work'
    BY <1>1, <1>4
  <2> QED
    BY <1>2, <1>3, <1>4, <2>1, <2>2 DEF EveryByteJudged
<1>9. Clean(out)' /\ ToldInv'
  BY DEF IndInv, ToldInv
<1> QED
  BY <1>5, <1>6, <1>7, <1>8, <1>9 DEF IndInv

\* Write passes on the first line of its buffer, or fails to.
LEMMA WriteLineInv ==
  ASSUME IndInv, WriteLine
  PROVE  IndInv'
<1> USE DEF WriteLine
<1>1. /\ stream \in Seq(Bytes) /\ work \in Seq(Bytes) /\ buf = <<>> /\ out \in Seq(Bytes)
      /\ passed \in Seq(Bytes) /\ pos \in 0..Len(stream) /\ floods \in Nat /\ Clean(out)
  BY DEF IndInv, TypeInv, PlaceInv
<1>2. PICK e \in 1..Len(work) : /\ e = LineEnd /\ work[e] = "nl"
                                /\ \A k \in 1..(e - 1) : work[k] # "nl"
  BY <1>1, LineEndIs
<1>3. PICK line \in Seq(Bytes), rest \in Seq(Bytes) :
         /\ line = SubSeq(work, 1, e) /\ rest = SubSeq(work, e + 1, Len(work))
         /\ Len(line) = e /\ Len(rest) = Len(work) - e /\ line \o rest = work
  <2>1. e \in 0..Len(work) /\ Len(work) \in e..Len(work)
    OBVIOUS
  <2>2. SubSeq(work, 1, Len(work)) = work
    BY <1>1, SubSeqFull
  <2>3. /\ SubSeq(work, 1, e) \in Seq(Bytes) /\ SubSeq(work, e + 1, Len(work)) \in Seq(Bytes)
        /\ Len(SubSeq(work, 1, e)) = e /\ Len(SubSeq(work, e + 1, Len(work))) = Len(work) - e
        /\ SubSeq(work, 1, e) \o SubSeq(work, e + 1, Len(work)) = SubSeq(work, 1, Len(work))
    BY <1>1, <2>1, SubSeqSplit
  <2> QED
    BY <2>2, <2>3
<1>4. IsLine(line) /\ line[e] = "nl"
  <2>1. \A k \in 1..e : line[k] = work[k]
    BY <1>1, <1>3
  <2> QED
    BY <1>2, <1>3, <2>1 DEF IsLine
<1>5. emit(line, "loop")
  BY <1>2, <1>3
<1>6. /\ passed' = passed \o line /\ passed' \in Seq(Bytes) /\ Len(passed') = Len(passed) + e
      /\ out' \in Seq(Bytes) /\ Clean(out') /\ pc' \in {"loop", "failed"}
      /\ pc' = "failed" => out' = out
      /\ Whole(passed) /\ out = Cleaned(passed) /\ pc' # "failed" => out' = Cleaned(passed')
  BY <1>1, <1>3, <1>4, <1>5, EmitTells
<1>7. /\ work' = IF pc' = "failed" THEN <<>> ELSE rest
      /\ UNCHANGED <<stream, pos, buf, floods>>
  BY <1>2, <1>3
<1>8. passed \o work = Fed
  <2>1. (passed \o work) \o <<>> = passed \o work
    BY <1>1
  <2> QED
    BY <1>1, <2>1 DEF IndInv, EveryByteJudged
<1>9. TypeInv'
  <2>1. work' \in Seq(Bytes)
    <3> HIDE DEF WriteLine
    <3>1. <<>> \in Seq(Bytes)
      OBVIOUS
    <3> QED
      BY <1>3, <1>7, <3>1
  <2> QED
    BY <1>1, <1>6, <1>7, <2>1 DEF TypeInv
<1>10. PlaceInv'
  BY <1>1, <1>6, <1>7 DEF PlaceInv, IndInv
<1>11. SizeInv'
  <2>1. Len(passed) + Len(work) + 0 <= pos /\ floods <= Len(passed)
    BY <1>1 DEF IndInv, SizeInv
  <2>2. Len(passed) \in Nat /\ Len(work) \in Nat /\ Len(<<>>) = 0
    BY <1>1
  <2> HIDE DEF WriteLine
  <2>3. Len(work') = 0 \/ Len(work') = Len(work) - e
    BY <1>3, <1>7, <2>2
  <2>4. (Len(passed) + e) + Len(work') + 0 <= pos /\ floods <= Len(passed) + e
    BY <1>1, <2>1, <2>2, <2>3
  <2> QED
    BY <1>1, <1>6, <1>7, <2>2, <2>4 DEF SizeInv
<1>12. EveryByteJudged'
  <2> SUFFICES ASSUME pc' # "failed" PROVE (passed' \o work') \o buf' = Fed'
    BY DEF EveryByteJudged
  <2>1. (passed \o line) \o rest = passed \o (line \o rest)
    BY <1>1, Regroup
  <2>2. passed' \o work' = Fed
    BY <1>3, <1>6, <1>7, <1>8, <2>1
  <2>3. (passed' \o work') \o <<>> = passed' \o work'
    BY <1>6, <1>7
  <2> QED
    BY <1>1, <1>7, <2>2, <2>3 DEF Fed
<1>13. ToldInv'
  <2> SUFFICES ASSUME floods = 0
               PROVE  /\ pc' = "loop" => out' = Cleaned(passed') /\ Whole(passed')
                      /\ pc' = "failed" => IsPrefix(out', Cleaned(Fed'))
    BY <1>6, <1>7 DEF ToldInv
  <2>1. out = Cleaned(passed) /\ Whole(passed)
    BY DEF IndInv, ToldInv
  <2>2. ASSUME pc' = "loop" PROVE out' = Cleaned(passed') /\ Whole(passed')
    <3>1. (passed \o line)[Len(passed) + e] = line[e]
      BY <1>1, <1>3
    <3> QED
      BY <1>4, <1>6, <2>1, <2>2, <3>1 DEF Whole
  <2>3. ASSUME pc' = "failed" PROVE IsPrefix(out', Cleaned(Fed'))
    <3>1. Cleaned(Fed) = out \o Cleaned(work)
      BY <1>1, <1>8, <2>1, CleanedConcat
    <3>2. IsPrefix(out, out \o Cleaned(work))
      BY <1>1, CleanedType, PrefixOfConcat
    <3> QED
      BY <1>6, <1>7, <2>3, <3>1, <3>2 DEF Fed
  <2> QED
    BY <2>2, <2>3
<1> QED
  BY <1>6, <1>9, <1>10, <1>11, <1>12, <1>13 DEF IndInv

\* Write keeps what has no newline yet.
LEMMA KeepTailInv ==
  ASSUME IndInv, KeepTail
  PROVE  IndInv'
<1> USE DEF KeepTail
<1>1. /\ stream \in Seq(Bytes) /\ work \in Seq(Bytes) /\ buf = <<>> /\ out \in Seq(Bytes)
      /\ passed \in Seq(Bytes) /\ pos \in 0..Len(stream) /\ floods \in Nat
  BY DEF IndInv, TypeInv, PlaceInv
<1>2. \A k \in 1..Len(work) : work[k] # "nl"
  BY <1>1, LineEndIs
<1>3. Len(work) <= MaxLineBytes
  BY <1>1, CapAssumption DEF TooLong
<1>4. TypeInv'
  BY <1>1 DEF TypeInv
<1>5. PlaceInv'
  BY <1>2, <1>3 DEF PlaceInv
<1>6. SizeInv'
  <2>1. Len(passed) + Len(work) + 0 <= pos /\ floods <= Len(passed)
    BY <1>1 DEF IndInv, SizeInv
  <2>2. Len(passed) + 0 + Len(work) <= pos
    BY <1>1, <2>1
  <2> QED
    BY <2>1, <2>2 DEF SizeInv
<1>7. EveryByteJudged'
  <2>1. (passed \o work) \o <<>> = (passed \o <<>>) \o work
    BY <1>1
  <2> QED
    BY <1>1, <2>1 DEF IndInv, EveryByteJudged, Fed
<1>8. Clean(out)' /\ ToldInv'
  BY DEF IndInv, ToldInv
<1> QED
  BY <1>4, <1>5, <1>6, <1>7, <1>8 DEF IndInv

\* Write forces out a line beyond the cap.
LEMMA FloodInv ==
  ASSUME IndInv, Flood
  PROVE  IndInv'
<1> USE DEF Flood
<1>1. /\ stream \in Seq(Bytes) /\ work \in Seq(Bytes) /\ buf = <<>> /\ out \in Seq(Bytes)
      /\ passed \in Seq(Bytes) /\ pos \in 0..Len(stream) /\ floods \in Nat /\ Clean(out)
  BY DEF IndInv, TypeInv, PlaceInv
<1>2. /\ passed' = passed \o work /\ passed' \in Seq(Bytes)
      /\ Len(passed') = Len(passed) + Len(work)
      /\ out' \in Seq(Bytes) /\ Clean(out') /\ pc' \in {"idle", "failed"}
  BY <1>1, EmitTells
<1>3. Len(work) > 1
  BY <1>1, CapAssumption DEF TooLong
<1>4. TypeInv'
  BY <1>1, <1>2 DEF TypeInv
<1>5. PlaceInv'
  BY <1>1 DEF PlaceInv, IndInv
<1>6. SizeInv'
  <2>1. Len(passed) + Len(work) + 0 <= pos /\ floods <= Len(passed)
    BY <1>1 DEF IndInv, SizeInv
  <2>2. Len(<<>>) = 0 /\ Len(passed) \in Nat /\ Len(work) \in Nat
    BY <1>1
  <2>3. (Len(passed) + Len(work)) + 0 + 0 <= pos /\ floods + 1 <= Len(passed) + Len(work)
    BY <1>1, <1>3, <2>1, <2>2
  <2> QED
    BY <1>1, <1>2, <2>2, <2>3 DEF SizeInv
<1>7. EveryByteJudged'
  <2>1. ((passed \o work) \o <<>>) \o <<>> = (passed \o work) \o <<>>
    BY <1>1
  <2>2. pc # "failed"
    OBVIOUS
  <2> QED
    BY <1>1, <1>2, <2>1, <2>2 DEF IndInv, EveryByteJudged, Fed
<1>8. ToldInv'
  <2>1. floods' # 0
    BY <1>1
  <2> QED
    BY <2>1 DEF ToldInv
<1> QED
  BY <1>2, <1>4, <1>5, <1>6, <1>7, <1>8 DEF IndInv

\* Flush passes on the partial line, or fails to.
LEMMA FlushInv ==
  ASSUME IndInv, Flush
  PROVE  IndInv'
<1> USE DEF Flush
<1>1. /\ stream \in Seq(Bytes) /\ work = <<>> /\ buf \in Seq(Bytes) /\ out \in Seq(Bytes)
      /\ passed \in Seq(Bytes) /\ pos \in 0..Len(stream) /\ floods \in Nat /\ Clean(out)
      /\ \A k \in 1..Len(buf) : buf[k] # "nl"
  BY DEF IndInv, TypeInv, PlaceInv
<1>2. passed \o buf = Fed
  <2>1. passed \o <<>> = passed
    BY <1>1
  <2> QED
    BY <1>1, <2>1 DEF IndInv, EveryByteJudged
<1>3. IsLine(buf)
  BY <1>1 DEF IsLine
<1>4. /\ passed' = passed \o buf /\ passed' \in Seq(Bytes)
      /\ Len(passed') = Len(passed) + Len(buf)
      /\ out' \in Seq(Bytes) /\ Clean(out') /\ pc' \in {"done", "failed"}
      /\ pc' = "failed" => out' = out
      /\ Whole(passed) /\ out = Cleaned(passed) /\ pc' # "failed" => out' = Cleaned(passed')
  <2>1. CASE buf = <<>>
    <3>1. passed \o <<>> = passed /\ Len(passed) = Len(passed) + Len(<<>>)
      BY <1>1
    <3> QED
      BY <1>1, <2>1, <3>1
  <2>2. CASE buf # <<>>
    BY <1>1, <1>3, <2>2, EmitTells
  <2> QED
    BY <2>1, <2>2
<1>5. TypeInv'
  BY <1>1, <1>4 DEF TypeInv
<1>6. PlaceInv'
  BY <1>1, <1>4, CapAssumption DEF PlaceInv
<1>7. SizeInv'
  <2>1. Len(passed) + 0 + Len(buf) <= pos /\ floods <= Len(passed)
    BY <1>1 DEF IndInv, SizeInv
  <2>2. Len(<<>>) = 0 /\ Len(passed) \in Nat /\ Len(buf) \in Nat
    BY <1>1
  <2>3. (Len(passed) + Len(buf)) + 0 + 0 <= pos /\ floods <= Len(passed) + Len(buf)
    BY <1>1, <2>1, <2>2
  <2> QED
    BY <1>1, <1>4, <2>2, <2>3 DEF SizeInv
<1>8. EveryByteJudged'
  <2>1. ((passed \o buf) \o <<>>) \o <<>> = passed \o buf
    BY <1>1
  <2> QED
    BY <1>1, <1>2, <1>4, <2>1 DEF EveryByteJudged, Fed
<1>9. ToldInv'
  <2> SUFFICES ASSUME floods = 0
               PROVE  /\ pc' = "done" => out' = Cleaned(passed')
                      /\ pc' = "failed" => IsPrefix(out', Cleaned(Fed'))
    BY <1>4 DEF ToldInv
  <2>1. out = Cleaned(passed) /\ Whole(passed)
    BY DEF IndInv, ToldInv
  <2>2. ASSUME pc' = "failed" PROVE IsPrefix(out', Cleaned(Fed'))
    <3>1. Cleaned(Fed) = out \o Cleaned(buf)
      BY <1>1, <1>2, <2>1, CleanedConcat
    <3>2. IsPrefix(out, out \o Cleaned(buf))
      BY <1>1, CleanedType, PrefixOfConcat
    <3> QED
      BY <1>4, <2>2, <3>1, <3>2 DEF Fed
  <2> QED
    BY <1>4, <2>1, <2>2
<1> QED
  BY <1>4, <1>5, <1>6, <1>7, <1>8, <1>9 DEF IndInv

\* Every step keeps the invariant.
LEMMA NextInv == IndInv /\ [Next]_vars => IndInv'
<1> SUFFICES ASSUME IndInv, [Next]_vars PROVE IndInv'
  OBVIOUS
<1>1. CASE UNCHANGED vars
  BY <1>1 DEF vars, IndInv, TypeInv, PlaceInv, SizeInv, EveryByteJudged, Fed, ToldInv
<1>2. CASE Next
  BY <1>2, WriteInv, WriteLineInv, KeepTailInv, FloodInv, FlushInv DEF Next
<1> QED
  BY <1>1, <1>2

\* So it always holds.
LEMMA Invariance == Spec => []IndInv
BY InitInv, NextInv, PTL DEF Spec

(***************************************************************************)
(* THE THEOREMS.                                                           *)
(***************************************************************************)

(***************************************************************************)
(* What Write keeps between two writes is a partial line within the cap,   *)
(* whatever the child writes.                                              *)
(***************************************************************************)
THEOREM TypeCorrect == Spec => []TypeOK
<1>1. IndInv => TypeOK
  <2> SUFFICES ASSUME IndInv PROVE TypeOK
    OBVIOUS
  <2>1. /\ stream \in Seq(Bytes) /\ work \in Seq(Bytes) /\ buf \in Seq(Bytes)
        /\ out \in Seq(Bytes) /\ passed \in Seq(Bytes) /\ floods \in Nat
        /\ pos \in 0..Len(stream) /\ pc \in {"idle", "loop", "failed", "done"}
        /\ \A k \in 1..Len(buf) : buf[k] # "nl"
        /\ Len(buf) <= MaxLineBytes
    BY DEF IndInv, TypeInv, PlaceInv
  <2>2. ToSet(work) \subseteq Bytes /\ ToSet(out) \subseteq Bytes
    BY <2>1 DEF ToSet
  <2>3. ToSet(buf) \subseteq Bytes \ {"nl"}
    BY <2>1 DEF ToSet
  <2>4. floods \in 0..Len(stream)
    <3>1. Len(passed) + Len(work) + Len(buf) <= pos /\ floods <= Len(passed)
      BY DEF IndInv, SizeInv
    <3>2. /\ Len(passed) \in Nat /\ Len(work) \in Nat /\ Len(buf) \in Nat /\ Len(stream) \in Nat
          /\ pos \in Nat /\ pos <= Len(stream) /\ floods \in Nat
      BY <2>1
    <3> QED
      BY <3>1, <3>2
  <2> QED
    BY <2>1, <2>2, <2>3, <2>4 DEF TypeOK
<1> QED
  BY <1>1, Invariance, PTL

(***************************************************************************)
(* Write, Flush and the flood valve neither lose nor repeat nor move a     *)
(* byte of the child's output, as long as the sink accepts what emit       *)
(* writes.                                                                 *)
(***************************************************************************)
THEOREM EveryByteIsJudged == Spec => []EveryByteJudged
<1>1. IndInv => EveryByteJudged
  BY DEF IndInv
<1> QED
  BY <1>1, Invariance, PTL

(***************************************************************************)
(* Wherever the cap cuts a line, emit lets no control byte and no part of  *)
(* a rune into the log.                                                    *)
(***************************************************************************)
THEOREM LogStaysClean == Spec => []LogIsClean
<1>1. IndInv => LogIsClean
  <2> SUFFICES ASSUME IndInv PROVE LogIsClean
    OBVIOUS
  <2>1. Clean(out) /\ DOMAIN out = 1..Len(out)
    BY DEF IndInv, TypeInv
  <2> QED
    BY <2>1 DEF LogIsClean, Clean
<1> QED
  BY <1>1, Invariance, PTL

(***************************************************************************)
(* How the child's output is cut into writes does not show in the log, for *)
(* any output and any cap no line of it passes: Write and Flush tell what  *)
(* the whole output, cleaned line by line, would have been.                *)
(***************************************************************************)
THEOREM ChunkingIsInvisible == Spec => []ChunkingInvisible
<1>1. IndInv => ChunkingInvisible
  <2> SUFFICES ASSUME IndInv, floods = 0, pc \in {"idle", "done"}
               PROVE  out = Cleaned(SubSeq(stream, 1, pos - Len(buf)))
    BY DEF IndInv, ToldInv, ChunkingInvisible
  <2>1. /\ stream \in Seq(Bytes) /\ work = <<>> /\ buf \in Seq(Bytes)
        /\ passed \in Seq(Bytes) /\ pos \in 0..Len(stream)
    BY DEF IndInv, TypeInv, PlaceInv
  <2>2. passed \o buf = Fed
    <3>1. passed \o <<>> = passed
      BY <2>1
    <3> QED
      BY <2>1, <3>1 DEF IndInv, EveryByteJudged
  <2>3. out = Cleaned(passed)
    BY DEF IndInv, ToldInv
  <2>4. passed = SubSeq(stream, 1, pos - Len(buf))
    <3>1. PICK m \in Nat : m = Len(passed) /\ m <= pos /\ pos - Len(buf) = m
      <4>1. Len(Fed) = pos /\ Len(passed \o buf) = Len(passed) + Len(buf)
        BY <2>1 DEF Fed
      <4>2. Len(passed) \in Nat /\ Len(buf) \in Nat /\ pos \in Nat
        BY <2>1
      <4>3. Len(passed) + Len(buf) = pos
        BY <2>2, <4>1
      <4>4. Len(passed) <= pos /\ pos - Len(buf) = Len(passed)
        BY <4>2, <4>3
      <4> QED
        BY <4>2, <4>4
    <3>2. PICK s \in Seq(Bytes) : s = SubSeq(stream, 1, m) /\ Len(s) = m
      <4>1. m \in 0..Len(stream) /\ m \in m..Len(stream)
        BY <2>1, <3>1
      <4>2. SubSeq(stream, 1, m) \in Seq(Bytes) /\ Len(SubSeq(stream, 1, m)) = m
        BY <2>1, <4>1, SubSeqSplit
      <4> QED
        BY <4>2
    <3>3. \A i \in 1..m : s[i] = stream[i] /\ passed[i] = Fed[i] /\ Fed[i] = stream[i]
      <4>1. \A i \in 1..m : i \in 1..pos
        BY <2>1, <3>1
      <4>2. \A i \in 1..pos : Fed[i] = stream[i]
        BY <2>1 DEF Fed
      <4>3. \A i \in 1..m : s[i] = stream[i]
        BY <2>1, <3>1, <3>2
      <4>4. \A i \in 1..m : passed[i] = (passed \o buf)[i]
        BY <2>1, <3>1
      <4>5. \A i \in 1..m : passed[i] = Fed[i]
        BY <2>2, <4>4
      <4> QED
        BY <4>1, <4>2, <4>3, <4>5
    <3>4. s = passed
      BY <2>1, <3>1, <3>2, <3>3, SeqEqual
    <3> QED
      BY <3>1, <3>2, <3>4
  <2> QED
    BY <2>3, <2>4
<1> QED
  BY <1>1, Invariance, PTL
=============================================================================
