------------------------- MODULE ActionCaptureProofs ------------------------
(***************************************************************************)
(* Proofs about ActionCapture, for any cap, any number of warnings and any *)
(* way of cutting the child's output into writes.                          *)
(***************************************************************************)
EXTENDS ActionCapture, DataLemmas

(***************************************************************************)
(* WHAT THE CHILD WRITES.                                                  *)
(***************************************************************************)

\* The words of the child's output.
Words == {"warn", "nl", "Would", "process", "Processed", "dry", "zero", "some",
          "files", "and", "reclaimed", "1", "MB", "space"}

\* What comes before a summary mentions none.
LEMMA WarningsType ==
  ASSUME NEW long, NEW n \in Nat
  PROVE  Warnings(long, n) \in Seq({"warn", "nl"})
<1> DEFINE S == {"warn", "nl"}
<1>1. WarningLine \in Seq(S)
  BY DEF WarningLine
<1>2. [i \in 1..n |-> WarningLine] \in Seq(Seq(S))
  BY <1>1
<1>3. <<"warn", "warn", "nl">> \in Seq(S) /\ <<>> \in Seq(S)
  OBVIOUS
<1> HIDE DEF S
<1>4. FlattenSeq([i \in 1..n |-> WarningLine]) \in Seq(S)
  BY <1>2, FlattenType
<1>5. Warnings(long, n) \in Seq(S)
  BY <1>3, <1>4 DEF Warnings
<1> QED
  BY <1>5 DEF S

\* The output of a child, per stream.
LEMMA ScriptType ==
  ASSUME script \in Scripts
  PROVE  /\ script.done \in {"dry", "zero", "some"} /\ script.to \in Streams
         /\ \E a \in Seq({"warn", "nl"}) : script.out =
              [t \in Streams |-> IF t = script.to THEN a \o SummaryLine(script.done) ELSE <<>>]
         /\ \A t \in Streams : script.out[t] \in Seq(Words)
<1>1. PICK d \in {"dry", "zero", "some"}, s \in Streams, l \in BOOLEAN, n \in 0..MaxWarnings :
        script = [done |-> d, to |-> s, out |-> [t \in Streams |-> IF t = s THEN Output(l, n, d) ELSE <<>>]]
  BY DEF Scripts
<1>2. PICK a \in Seq({"warn", "nl"}) : a = Warnings(l, n)
  BY MaxWarningsAssumption, WarningsType
<1>3. Output(l, n, d) = a \o SummaryLine(d)
  BY <1>2 DEF Output
<1>4. script.done = d /\ script.to = s
      /\ script.out = [t \in Streams |-> IF t = s THEN a \o SummaryLine(d) ELSE <<>>]
  BY <1>1, <1>3
<1>5. SummaryLine(d) \in Seq(Words)
  <2>1. CASE d = "dry"
    BY <2>1 DEF SummaryLine, Words
  <2>2. CASE d # "dry"
    <3>1. SummaryLine(d) = <<"Processed", d, "files", "and", "reclaimed", "1", "MB", "space", "nl">>
      BY <2>2 DEF SummaryLine
    <3>2. d \in Words
      BY DEF Words
    <3> QED
      BY <3>1, <3>2 DEF Words
  <2> QED
    BY <2>1, <2>2
<1>6. a \in Seq(Words)
  BY DEF Words
<1>7. a \o SummaryLine(d) \in Seq(Words) /\ <<>> \in Seq(Words)
  BY <1>5, <1>6
<1>8. \A t \in Streams : script.out[t] \in Seq(Words)
  BY <1>4, <1>7
<1> QED
  BY <1>2, <1>4, <1>8

(***************************************************************************)
(* THE BUFFERS.                                                            *)
(***************************************************************************)

\* How much of n words the buffer keeps.
Kept(n) == IF StreamCap <= n THEN StreamCap ELSE n

\* A stream is what has been written and what is left; the buffer keeps its beginning.
StreamInv(t) ==
  /\ total[t] \in 0..Len(script.out[t])
  /\ left[t] = SubSeq(script.out[t], total[t] + 1, Len(script.out[t]))
  /\ buf[t] = SubSeq(script.out[t], 1, Kept(total[t]))

\* What every step keeps: StreamInv for each stream.
IndInv ==
  /\ script \in Scripts
  /\ left = [t \in Streams |-> left[t]]
  /\ buf = [t \in Streams |-> buf[t]]
  /\ total = [t \in Streams |-> total[t]]
  /\ \A t \in Streams : StreamInv(t)

\* It holds before the child writes.
LEMMA InitInv == Init => IndInv
<1> SUFFICES ASSUME Init PROVE IndInv
  OBVIOUS
<1> USE DEF Init
<1>1. \A t \in Streams : script.out[t] \in Seq(Words)
  BY ScriptType
<1>2. left = [t \in Streams |-> left[t]]
  BY ScriptType
<1>3. ASSUME NEW t \in Streams PROVE StreamInv(t)
  <2> SUFFICES ASSUME NEW s \in Seq(Words), s = script.out[t] PROVE StreamInv(t)
    BY <1>1
  <2>1. total[t] = 0 /\ buf[t] = <<>> /\ left[t] = s
    OBVIOUS
  <2>2. Kept(0) = 0
    BY StreamCapAssumption DEF Kept
  <2>3. SubSeq(s, 1, 0) = <<>> /\ SubSeq(s, 1, Len(s)) = s /\ 0 \in 0..Len(s) /\ 0 + 1 = 1
    BY SubSeqFull
  <2> QED
    BY <2>1, <2>2, <2>3 DEF StreamInv
<1> QED
  BY <1>2, <1>3 DEF IndInv

\* Buffer.Write, on the stream it is about.
Written(s, m, n0, n, rest, kept) ==
  /\ n0 + n \in 0..m
  /\ SubSeq(rest, n + 1, Len(rest)) = SubSeq(s, n0 + n + 1, m)
  /\ kept \o SubSeq(rest, 1, Min({n, StreamCap - Len(kept)})) = SubSeq(s, 1, Kept(n0 + n))

\* It keeps the buffer a beginning of the stream.
LEMMA WriteStream ==
  ASSUME NEW s \in Seq(Words), NEW m \in Nat, m = Len(s),
         NEW n0 \in 0..m, NEW n \in 1..(m - n0),
         NEW rest, rest = SubSeq(s, n0 + 1, m), NEW kept, kept = SubSeq(s, 1, Kept(n0))
  PROVE  Written(s, m, n0, n, rest, kept)
<1>1. n0 + n \in 0..m
  OBVIOUS
<1>2. PICK r \in Seq(Words) : /\ r = SubSeq(s, n0 + 1, m) /\ Len(r) = m - n0
                              /\ \A i \in 1..(m - n0) : r[i] = s[n0 + i]
  <2>1. PICK a \in 1..(m + 1) : a = n0 + 1 /\ m \in (a - 1)..m /\ m + 1 - a = m - n0
    <3>1. n0 + 1 \in 1..(m + 1) /\ m \in (n0 + 1 - 1)..m /\ m + 1 - (n0 + 1) = m - n0
      OBVIOUS
    <3> QED
      BY <3>1
  <2>2. /\ SubSeq(s, a, m) \in Seq(Words) /\ Len(SubSeq(s, a, m)) = m - n0
        /\ \A i \in 1..(m - n0) : SubSeq(s, a, m)[i] = s[a + i - 1]
    BY <2>1, SubSeqIs
  <2>3. \A i \in 1..(m - n0) : a + i - 1 = n0 + i
    BY <2>1
  <2> QED
    BY <2>1, <2>2, <2>3
\* stretches of what is left are stretches of the whole
<1>3. ASSUME NEW i \in 1..(m - n0 + 1), NEW j \in (i - 1)..(m - n0)
      PROVE  SubSeq(r, i, j) = SubSeq(s, n0 + i, n0 + j)
  <2>1. /\ SubSeq(r, i, j) \in Seq(Words) /\ Len(SubSeq(r, i, j)) = j + 1 - i
        /\ \A k \in 1..(j + 1 - i) : SubSeq(r, i, j)[k] = r[i + k - 1]
    BY <1>2, SubSeqIs
  <2>2. PICK a \in 1..(m + 1), b \in 0..m :
           a = n0 + i /\ b = n0 + j /\ b \in (a - 1)..m /\ b + 1 - a = j + 1 - i
    <3>1. n0 + i \in 1..(m + 1) /\ n0 + j \in 0..m /\ n0 + j \in (n0 + i - 1)..m /\ n0 + j + 1 - (n0 + i) = j + 1 - i
      OBVIOUS
    <3> QED
      BY <3>1
  <2>3. /\ SubSeq(s, a, b) \in Seq(Words) /\ Len(SubSeq(s, a, b)) = j + 1 - i
        /\ \A k \in 1..(j + 1 - i) : SubSeq(s, a, b)[k] = s[a + k - 1]
    BY <2>2, SubSeqIs
  <2>4. ASSUME NEW k \in 1..(j + 1 - i) PROVE r[i + k - 1] = s[a + k - 1]
    <3>1. i + k - 1 \in 1..(m - n0) /\ n0 + (i + k - 1) = a + k - 1
      BY <2>2
    <3> QED
      BY <1>2, <3>1
  <2>5. SubSeq(r, i, j) = SubSeq(s, a, b)
    BY <2>1, <2>3, <2>4, SeqEqual
  <2> QED
    BY <2>2, <2>5
<1>4. SubSeq(r, n + 1, Len(r)) = SubSeq(s, n0 + n + 1, m)
  <2>1. n + 1 \in 1..(m - n0 + 1) /\ m - n0 \in (n + 1 - 1)..(m - n0)
    OBVIOUS
  <2>2. PICK i \in 1..(m - n0 + 1) : i = n + 1 /\ m - n0 \in (i - 1)..(m - n0)
    BY <2>1
  <2>4. SubSeq(r, i, m - n0) = SubSeq(s, n0 + i, n0 + (m - n0))
    BY <1>3, <2>2
  <2>3. n0 + (n + 1) = n0 + n + 1 /\ n0 + (m - n0) = m
    OBVIOUS
  <2> QED
    BY <1>2, <2>2, <2>3, <2>4
<1>5. PICK c \in Nat : c = StreamCap
  BY StreamCapAssumption
<1>6. PICK k0 \in 0..n0 : k0 = Kept(n0) /\ k0 <= c /\ (k0 = n0 \/ k0 = c)
  BY <1>5 DEF Kept
<1>7. Len(SubSeq(s, 1, k0)) = k0
  <2>1. k0 \in 0..Len(s) /\ k0 \in k0..Len(s)
    OBVIOUS
  <2> QED
    BY <2>1, SubSeqSplit
<1>8. PICK k \in 0..n : k = Min({n, c - k0}) /\ k <= c - k0 /\ (k = n \/ k = c - k0)
  <2>1. n \in Nat /\ c - k0 \in Nat
    BY <1>6
  <2>2. Min({n, c - k0}) = IF n <= c - k0 THEN n ELSE c - k0
    BY <2>1, MinOfTwo
  <2> QED
    BY <2>1, <2>2
<1>9. SubSeq(s, 1, k0) \o SubSeq(r, 1, k) = SubSeq(s, 1, Kept(n0 + n))
  <2>1. SubSeq(r, 1, k) = SubSeq(s, n0 + 1, n0 + k)
    <3>1. 1 \in 1..(m - n0 + 1) /\ k \in (1 - 1)..(m - n0)
      OBVIOUS
    <3> QED
      BY <1>3, <3>1
  <2>2. CASE k0 = n0
    <3>1. Kept(n0 + n) = n0 + k
      <4>1. Kept(n0 + n) = IF c <= n0 + n THEN c ELSE n0 + n
        BY <1>5 DEF Kept
      <4>2. k <= c - n0 /\ (k = n \/ k = c - n0)
        BY <1>8, <2>2
      <4>3. CASE k = n
        <5>1. c <= n0 + n => c = n0 + n
          BY <4>2, <4>3
        <5> QED
          BY <4>1, <4>3, <5>1
      <4>4. CASE k = c - n0
        <5>1. c <= n0 + n /\ c = n0 + k
          BY <4>4
        <5> QED
          BY <4>1, <5>1
      <4> QED
        BY <4>2, <4>3, <4>4
    <3>2. PICK q \in n0..m : q = n0 + k
      <4>1. n0 + k \in n0..m
        OBVIOUS
      <4> QED
        BY <4>1
    <3>3. SubSeq(s, 1, n0) \o SubSeq(s, n0 + 1, q) = SubSeq(s, 1, q)
      BY SubSeqSplit
    <3> QED
      BY <2>1, <2>2, <3>1, <3>2, <3>3
  <2>3. CASE k0 # n0
    <3>1. k = 0 /\ k0 = c /\ Kept(n0 + n) = c
      BY <1>5, <1>6, <1>8, <2>3 DEF Kept
    <3>2. SubSeq(r, 1, 0) = <<>>
      BY <1>2
    <3>3. SubSeq(s, 1, k0) \in Seq(Words)
      <4>1. k0 \in 0..Len(s) /\ k0 \in k0..Len(s)
        OBVIOUS
      <4> QED
        BY <4>1, SubSeqSplit
    <3>4. SubSeq(s, 1, k0) \o <<>> = SubSeq(s, 1, k0)
      BY <3>3
    <3> QED
      BY <3>1, <3>2, <3>4
  <2> QED
    BY <2>2, <2>3
<1> QED
  BY <1>1, <1>2, <1>4, <1>5, <1>6, <1>7, <1>8, <1>9 DEF Written

\* Every write keeps it.
LEMMA NextInv == IndInv /\ [Next]_vars => IndInv'
<1> SUFFICES ASSUME IndInv, [Next]_vars PROVE IndInv'
  OBVIOUS
<1>1. CASE UNCHANGED vars
  BY <1>1 DEF vars, IndInv, StreamInv
<1>2. ASSUME NEW t \in Streams, NEW n \in 1..Len(left[t]), Write(t, n) PROVE IndInv'
  <2> USE <1>2 DEF Write
  <2>1. ASSUME NEW u \in Streams, u # t PROVE StreamInv(u)'
    BY <2>1 DEF IndInv, StreamInv
  <2>2. StreamInv(t)'
    <3> SUFFICES ASSUME NEW s \in Seq(Words), s = script.out[t] PROVE StreamInv(t)'
      BY ScriptType DEF IndInv
    <3>1. PICK n0 \in 0..Len(s) : /\ n0 = total[t] /\ left[t] = SubSeq(s, n0 + 1, Len(s))
                                  /\ buf[t] = SubSeq(s, 1, Kept(n0))
      BY DEF IndInv, StreamInv
    <3>2. Len(left[t]) = Len(s) - n0
      <4>1. Len(s) \in n0..Len(s)
        OBVIOUS
      <4>2. Len(SubSeq(s, n0 + 1, Len(s))) = Len(s) - n0
        BY <4>1, SubSeqSplit
      <4> QED
        BY <3>1, <4>2
    <3>3. n \in 1..(Len(s) - n0)
      BY <3>2
    <3>4. /\ total'[t] = n0 + n
          /\ left'[t] = SubSeq(left[t], n + 1, Len(left[t]))
          /\ buf'[t] = buf[t] \o SubSeq(left[t], 1, Min({n, StreamCap - Len(buf[t])}))
          /\ script' = script
      BY <3>1 DEF IndInv
    <3>5. /\ n0 + n \in 0..Len(s)
          /\ left'[t] = SubSeq(s, n0 + n + 1, Len(s))
          /\ buf'[t] = SubSeq(s, 1, Kept(n0 + n))
      <4>1. PICK m \in Nat : m = Len(s) /\ n0 \in 0..m /\ n \in 1..(m - n0)
        BY <3>1, <3>3
      <4>2. PICK rest, kept : rest = left[t] /\ kept = buf[t]
        OBVIOUS
      <4>3. rest = SubSeq(s, n0 + 1, m) /\ kept = SubSeq(s, 1, Kept(n0))
        BY <3>1, <4>1, <4>2
      <4>4. Written(s, m, n0, n, rest, kept)
        BY <4>1, <4>3, WriteStream
      <4> QED
        BY <3>4, <4>1, <4>2, <4>4 DEF Written
    <3> QED
      BY <3>4, <3>5 DEF StreamInv
  <2>3. script' \in Scripts /\ left' = [u \in Streams |-> left'[u]]
        /\ buf' = [u \in Streams |-> buf'[u]] /\ total' = [u \in Streams |-> total'[u]]
    BY DEF IndInv
  <2> QED
    BY <2>1, <2>2, <2>3 DEF IndInv
<1> QED
  BY <1>1, <1>2 DEF Next

\* So it always holds.
LEMMA Invariance == Spec => []IndInv
BY InitInv, NextInv, PTL DEF Spec

(***************************************************************************)
(* THE VERDICT.                                                            *)
(***************************************************************************)

\* No summary begins where one of its two words is not said.
LEMMA NoSummary ==
  ASSUME NEW s, (\A i \in DOMAIN s : s[i] # "Processed") \/ (\A i \in DOMAIN s : s[i] # "reclaimed")
  PROVE  ParseActionSummary(s) = "none"
<1>1. SummaryStarts(s) = {}
  BY DEF SummaryStarts
<1> QED
  BY <1>1 DEF ParseActionSummary

\* The beginning of an output, word by word.
LEMMA CutIs ==
  ASSUME NEW a \in Seq(Words), NEW b \in Seq(Words), NEW c \in 0..(Len(a) + Len(b))
  PROVE  /\ Len(a \o b) = Len(a) + Len(b) /\ SubSeq(a \o b, 1, c) \in Seq(Words)
         /\ Len(SubSeq(a \o b, 1, c)) = c
         /\ \A i \in 1..c : SubSeq(a \o b, 1, c)[i] = IF i <= Len(a) THEN a[i] ELSE b[i - Len(a)]
<1>1. PICK s \in Seq(Words) : /\ s = a \o b /\ Len(s) = Len(a) + Len(b)
                              /\ \A i \in 1..Len(s) : s[i] = IF i <= Len(a) THEN a[i] ELSE b[i - Len(a)]
  <2>1. PICK s : s = a \o b
    OBVIOUS
  <2>2. s \in Seq(Words) /\ Len(s) = Len(a) + Len(b)
    BY <2>1, ConcatProperties
  <2>3. \A i \in 1..(Len(a) + Len(b)) : s[i] = IF i <= Len(a) THEN a[i] ELSE b[i - Len(a)]
    BY <2>1, ConcatProperties
  <2> QED
    BY <2>1, <2>2, <2>3
<1>2. c \in 0..Len(s) /\ 1 \in 1..(Len(s) + 1) /\ c \in (1 - 1)..Len(s)
  BY <1>1
<1>3. SubSeq(s, 1, c) \in Seq(Words)
  BY <1>2
<1>4. Len(SubSeq(s, 1, c)) = c + 1 - 1 /\ \A i \in 1..(c + 1 - 1) : SubSeq(s, 1, c)[i] = s[1 + i - 1]
  BY <1>2, SubSeqIs
<1>5. c + 1 - 1 = c /\ \A i \in 1..c : 1 + i - 1 = i /\ i \in 1..Len(s)
  BY <1>2
<1>6. Len(SubSeq(s, 1, c)) = c /\ \A i \in 1..c : SubSeq(s, 1, c)[i] = s[i]
  BY <1>4, <1>5
<1> QED
  BY <1>1, <1>3, <1>5, <1>6

\* A dry run's output has no summary that counts, wherever it is cut.
LEMMA DryVerdict ==
  ASSUME NEW a \in Seq({"warn", "nl"}), NEW c \in 0..(Len(a) + Len(SummaryLine("dry")))
  PROVE  ParseActionSummary(SubSeq(a \o SummaryLine("dry"), 1, c)) = "none"
<1>1. PICK b \in Seq({"Would", "process", "nl"}) : b = SummaryLine("dry")
  <2>1. SummaryLine("dry") = <<"Would", "process", "nl">>
    BY DEF SummaryLine
  <2>2. <<"Would", "process", "nl">> \in Seq({"Would", "process", "nl"})
    OBVIOUS
  <2> QED
    BY <2>1, <2>2
<1>2. a \in Seq(Words) /\ b \in Seq(Words)
  BY DEF Words
<1>3. PICK u \in Seq(Words) : /\ u = SubSeq(a \o b, 1, c) /\ Len(u) = c
                              /\ \A i \in 1..c : u[i] = IF i <= Len(a) THEN a[i] ELSE b[i - Len(a)]
  BY <1>1, <1>2, CutIs
<1>4. ASSUME NEW i \in DOMAIN u PROVE u[i] # "Processed"
  <2>1. i \in 1..c /\ Len(a) \in Nat /\ Len(b) \in Nat /\ c <= Len(a) + Len(b)
    BY <1>1, <1>3
  <2>2. CASE i <= Len(a)
    <3>1. i \in 1..Len(a)
      BY <2>1, <2>2
    <3>2. a[i] \in {"warn", "nl"}
      BY <3>1
    <3> QED
      BY <1>3, <2>1, <2>2, <3>2
  <2>3. CASE ~(i <= Len(a))
    <3>1. i - Len(a) \in 1..Len(b)
      BY <2>1, <2>3
    <3>2. b[i - Len(a)] \in {"Would", "process", "nl"}
      BY <3>1
    <3> QED
      BY <1>3, <2>1, <2>3, <3>2
  <2> QED
    BY <2>2, <2>3
<1> QED
  BY <1>1, <1>3, <1>4, NoSummary

\* The words of a summary.
LEMMA SummaryIs ==
  ASSUME NEW d \in {"zero", "some"}
  PROVE  \E b \in Seq(Words) :
           /\ b = SummaryLine(d) /\ Len(b) = 9
           /\ b[1] = "Processed" /\ b[2] = d /\ b[5] = "reclaimed" /\ b[9] = "nl"
           /\ \A i \in 1..8 : b[i] # "nl"
           /\ \A i \in 2..9 : b[i] # "Processed"
           /\ \A i \in 1..4 : b[i] # "reclaimed"
<1>1. SummaryLine(d) = <<"Processed", d, "files", "and", "reclaimed", "1", "MB", "space", "nl">>
  BY DEF SummaryLine
<1>2. d \in Words /\ d # "nl" /\ d # "Processed" /\ d # "reclaimed"
  BY DEF Words
<1>3. SummaryLine(d) \in Seq(Words) /\ Len(SummaryLine(d)) = 9
  BY <1>1, <1>2 DEF Words
<1>4. /\ SummaryLine(d)[1] = "Processed" /\ SummaryLine(d)[2] = d
      /\ SummaryLine(d)[5] = "reclaimed" /\ SummaryLine(d)[9] = "nl"
  BY <1>1
<1>5. ASSUME NEW i \in 1..8 PROVE SummaryLine(d)[i] # "nl"
  <2>1. i = 1 \/ i = 2 \/ i = 3 \/ i = 4 \/ i = 5 \/ i = 6 \/ i = 7 \/ i = 8
    OBVIOUS
  <2> QED
    BY <1>1, <1>2, <2>1
<1>6. ASSUME NEW i \in 2..9 PROVE SummaryLine(d)[i] # "Processed"
  <2>1. i = 2 \/ i = 3 \/ i = 4 \/ i = 5 \/ i = 6 \/ i = 7 \/ i = 8 \/ i = 9
    OBVIOUS
  <2> QED
    BY <1>1, <1>2, <2>1
<1>7. ASSUME NEW i \in 1..4 PROVE SummaryLine(d)[i] # "reclaimed"
  <2>1. i = 1 \/ i = 2 \/ i = 3 \/ i = 4
    OBVIOUS
  <2> QED
    BY <1>1, <1>2, <2>1
<1>8. PICK b \in Seq(Words) : b = SummaryLine(d)
  BY <1>3
<1> QED
  BY <1>3, <1>4, <1>5, <1>6, <1>7, <1>8

\* A summary cut before "reclaimed" is none.
LEMMA UnrecognisedVerdict ==
  ASSUME NEW a \in Seq({"warn", "nl"}), NEW d \in {"zero", "some"},
         NEW c \in 0..(Len(a) + 4)
  PROVE  ParseActionSummary(SubSeq(a \o SummaryLine(d), 1, c)) = "none"
<1>1. PICK b \in Seq(Words) : b = SummaryLine(d) /\ Len(b) = 9 /\ \A i \in 1..4 : b[i] # "reclaimed"
  BY SummaryIs
<1>2. a \in Seq(Words) /\ Len(a) \in Nat
  BY DEF Words
<1>3. c \in 0..(Len(a) + Len(b))
  BY <1>1, <1>2
<1>4. PICK u \in Seq(Words) : /\ u = SubSeq(a \o b, 1, c) /\ Len(u) = c
                              /\ \A i \in 1..c : u[i] = IF i <= Len(a) THEN a[i] ELSE b[i - Len(a)]
  BY <1>2, <1>3, CutIs
<1>5. ASSUME NEW i \in DOMAIN u PROVE u[i] # "reclaimed"
  <2>1. i \in 1..c /\ c <= Len(a) + 4
    BY <1>2, <1>4
  <2>2. CASE i <= Len(a)
    <3>1. i \in 1..Len(a)
      BY <1>2, <2>1, <2>2
    <3>2. a[i] \in {"warn", "nl"}
      BY <3>1
    <3> QED
      BY <1>4, <2>1, <2>2, <3>2
  <2>3. CASE ~(i <= Len(a))
    <3>1. i - Len(a) \in 1..4
      BY <1>2, <2>1, <2>3
    <3> QED
      BY <1>1, <1>4, <2>1, <2>3, <3>1
  <2> QED
    BY <2>2, <2>3
<1> QED
  BY <1>1, <1>4, <1>5, NoSummary

\* A summary of g words after the warnings is found; its count is read off seven.
LEMMA SummaryVerdict ==
  ASSUME NEW a \in Seq({"warn", "nl"}), NEW d \in {"zero", "some"}, NEW g \in 5..9
  PROVE  ParseActionSummary(SubSeq(a \o SummaryLine(d), 1, Len(a) + g))
           = IF g < 7 THEN "zero" ELSE d
<1>1. a \in Seq(Words) /\ Len(a) \in Nat /\ \A i \in 1..Len(a) : a[i] # "Processed"
  <2>1. \A i \in 1..Len(a) : a[i] \in {"warn", "nl"}
    OBVIOUS
  <2> QED
    BY <2>1 DEF Words
<1>2. PICK b \in Seq(Words) : /\ b = SummaryLine(d) /\ Len(b) = 9
                              /\ b[1] = "Processed" /\ b[2] = d /\ b[5] = "reclaimed" /\ b[9] = "nl"
                              /\ \A i \in 1..8 : b[i] # "nl"
                              /\ \A i \in 2..9 : b[i] # "Processed"
  BY SummaryIs
<1>3. PICK m \in Nat, u \in Seq(Words) :
        /\ m = Len(a) /\ u = SubSeq(a \o b, 1, m + g) /\ Len(u) = m + g
        /\ \A i \in 1..m : u[i] = a[i]
        /\ \A i \in 1..g : u[m + i] = b[i]
  <2>1. PICK m \in Nat : m = Len(a)
    BY <1>1
  <2>2. m + g \in 0..(m + 9)
    OBVIOUS
  <2>3. m + g \in 0..(Len(a) + Len(b))
    BY <1>2, <2>1, <2>2
  <2>4. PICK u \in Seq(Words) :
          /\ u = SubSeq(a \o b, 1, m + g) /\ Len(u) = m + g
          /\ \A i \in 1..(m + g) : u[i] = IF i <= m THEN a[i] ELSE b[i - m]
    <3>1. PICK c \in 0..(Len(a) + Len(b)) : c = m + g
      BY <2>3
    <3>2. /\ SubSeq(a \o b, 1, c) \in Seq(Words) /\ Len(SubSeq(a \o b, 1, c)) = c
          /\ \A i \in 1..c : SubSeq(a \o b, 1, c)[i] = IF i <= Len(a) THEN a[i] ELSE b[i - Len(a)]
      BY <1>1, CutIs
    <3> QED
      BY <2>1, <3>1, <3>2
  <2>5. ASSUME NEW i \in 1..m PROVE u[i] = a[i]
    <3>1. i \in 1..(m + g) /\ i <= m
      OBVIOUS
    <3> QED
      BY <2>4, <3>1
  <2>6. ASSUME NEW i \in 1..g PROVE u[m + i] = b[i]
    <3>1. m + i \in 1..(m + g) /\ ~(m + i <= m) /\ (m + i) - m = i
      OBVIOUS
    <3> QED
      BY <2>4, <3>1
  <2> QED
    BY <2>1, <2>4, <2>5, <2>6
<1>4. PICK p \in Nat : p = m + 1
  OBVIOUS
<1>5. ASSUME NEW k \in p..(m + g) PROVE \E i \in 1..g : k = m + i
  <2>1. k - m \in 1..g /\ k = m + (k - m)
    BY <1>4
  <2> QED
    BY <2>1
\* the fields of the summary are on one line, which ends with them or with the capture
<1>6. ASSUME NEW j \in p..(m + g)
      PROVE  SameLine(u, p, j) <=> j <= m + 8
  <2>1. p <= j /\ j \in Nat
    OBVIOUS
  <2>2. Min({p, j}) = p
    BY <2>1, MinOfTwo
  <2>3. Max({p, j}) = j
    <3>1. {p, j} \subseteq Nat /\ \A y \in {p, j} : y <= j
      BY <2>1
    <3> QED
      BY <3>1, MaxIs
  <2>4. SameLine(u, p, j) <=> \A k \in p..j : u[k] # "nl"
    BY <2>2, <2>3 DEF SameLine
  <2>5. ASSUME j <= m + 8, NEW k \in p..j PROVE u[k] # "nl"
    <3>1. k \in p..(m + g) /\ k <= m + 8
      BY <2>1, <2>5
    <3>2. PICK i \in 1..g : k = m + i
      BY <1>5, <3>1
    <3>3. i \in 1..8
      BY <3>1, <3>2
    <3> QED
      BY <1>2, <1>3, <3>2, <3>3
  <2>6. ASSUME ~(j <= m + 8) PROVE \E k \in p..j : u[k] = "nl"
    <3>1. j = m + 9 /\ j \in p..j /\ 9 \in 1..g
      BY <2>1, <2>6
    <3>2. u[j] = "nl"
      BY <1>2, <1>3, <3>1
    <3> QED
      BY <3>1, <3>2
  <2> QED
    BY <2>4, <2>5, <2>6
<1>7. SummaryStarts(u) = {p}
  <2>1. DOMAIN u = 1..(m + g)
    BY <1>3
  <2>2. ASSUME NEW i \in DOMAIN u, u[i] = "Processed" PROVE i = p
    <3>1. ~(i \in 1..m)
      BY <1>1, <1>3, <2>2
    <3>2. i \in p..(m + g)
      BY <1>4, <2>1, <3>1
    <3>3. PICK k \in 1..g : i = m + k
      BY <1>5, <3>2
    <3>4. b[k] = "Processed"
      BY <1>3, <2>2, <3>3
    <3>5. ~(k \in 2..9)
      BY <1>2, <3>4
    <3> QED
      BY <1>4, <3>3, <3>5
  <2>3. p \in DOMAIN u /\ u[p] = "Processed"
    BY <1>2, <1>3, <1>4, <2>1
  <2>4. m + 5 \in DOMAIN u /\ u[m + 5] = "reclaimed" /\ SameLine(u, p, m + 5)
    <3>1. m + 5 \in p..(m + g) /\ m + 5 <= m + 8 /\ m + 5 \in 1..(m + g) /\ 5 \in 1..g
      BY <1>4
    <3> QED
      BY <1>2, <1>3, <1>6, <2>1, <3>1
  <2> QED
    BY <2>2, <2>3, <2>4 DEF SummaryStarts
<1>8. Min({p}) = p
  <2>1. {p} = {p, p} /\ p <= p
    OBVIOUS
  <2> QED
    BY <2>1, MinOfTwo
<1>9. PICK f \in 5..8, q \in Nat : f = (IF g = 9 THEN 8 ELSE g) /\ q = m + f
  <2>1. (IF g = 9 THEN 8 ELSE g) \in 5..8
    OBVIOUS
  <2>2. \A f \in 5..8 : m + f \in Nat
    OBVIOUS
  <2> QED
    BY <2>1, <2>2
<1>10. Fields(u, p) = SubSeq(u, p, q)
  <2> DEFINE T == {j \in p..Len(u) : SameLine(u, p, j)}
  <2>1. T = p..q
    <3>1. ASSUME NEW j \in T PROVE j \in p..q
      <4>1. j \in p..(m + g) /\ j <= m + 8
        BY <1>3, <1>6
      <4> QED
        BY <1>4, <1>9, <4>1
    <3>2. ASSUME NEW j \in p..q PROVE j \in T
      <4>1. j \in p..(m + g) /\ j <= m + 8
        BY <1>4, <1>9
      <4> QED
        BY <1>3, <1>6, <4>1
    <3> QED
      BY <3>1, <3>2
  <2>2. Max(T) = q
    <3>1. p..q \subseteq Nat /\ q \in p..q /\ \A y \in p..q : y <= q
      BY <1>4, <1>9
    <3> HIDE DEF T
    <3> QED
      BY <2>1, <3>1, MaxIs
  <2> QED
    BY <2>2 DEF Fields
<1>11. Len(SubSeq(u, p, q)) = f /\ SubSeq(u, p, q)[2] = d
  <2>1. p \in 1..(Len(u) + 1) /\ q \in (p - 1)..Len(u) /\ q + 1 - p = f /\ p + 2 - 1 = m + 2
    <3>1. Len(u) = m + g /\ f <= g
      BY <1>3, <1>9
    <3>2. /\ m + 1 \in 1..((m + g) + 1) /\ (m + f) + 1 - (m + 1) = f /\ (m + 1) + 2 - 1 = m + 2
          /\ m + f \in ((m + 1) - 1)..(m + g)
      BY <3>1
    <3> QED
      BY <1>4, <1>9, <3>1, <3>2
  <2>2. 2 \in 1..(q + 1 - p) /\ 2 \in 1..g
    BY <2>1
  <2>3. Len(SubSeq(u, p, q)) = q + 1 - p /\ SubSeq(u, p, q)[2] = u[p + 2 - 1]
    BY <2>1, <2>2, SubSeqIs
  <2>4. u[m + 2] = d
    BY <1>2, <1>3, <2>2
  <2> QED
    BY <2>1, <2>3, <2>4
<1>12. f < 7 <=> g < 7
  BY <1>9
<1>13. ParseActionSummary(u) = IF g < 7 THEN "zero" ELSE d
  BY <1>7, <1>8, <1>10, <1>11, <1>12 DEF ParseActionSummary
<1> QED
  BY <1>2, <1>3, <1>13

(***************************************************************************)
(* THE THEOREMS.                                                           *)
(***************************************************************************)

(***************************************************************************)
(* However the child's output is cut into writes, capbuf's Buffer keeps    *)
(* the first words of it up to the cap, and Truncated says if any were     *)
(* lost.                                                                   *)
(***************************************************************************)
THEOREM BufferKeepsPrefix == Spec => []CaptureIsPrefix
<1>1. IndInv => CaptureIsPrefix
  <2> SUFFICES ASSUME IndInv, NEW t \in Streams
               PROVE  /\ IsPrefix(buf[t], script.out[t])
                      /\ total[t] = Len(script.out[t]) - Len(left[t])
                      /\ Len(buf[t]) = Min({StreamCap, total[t]})
                      /\ Truncated(t) <=> Len(buf[t]) < total[t]
    BY DEF CaptureIsPrefix
  <2>1. PICK s \in Seq(Words) : s = script.out[t]
    BY ScriptType DEF IndInv
  <2>2. PICK m \in Nat : m = Len(s)
    OBVIOUS
  <2>3. PICK n \in 0..m : /\ n = total[t] /\ left[t] = SubSeq(s, n + 1, m)
                          /\ buf[t] = SubSeq(s, 1, Kept(n))
    BY <2>1, <2>2 DEF IndInv, StreamInv
  <2>4. PICK k \in 0..n : k = Kept(n) /\ (k < n <=> n > StreamCap)
    BY StreamCapAssumption DEF Kept
  <2>5. Len(left[t]) = m - n
    <3>1. n \in 0..Len(s) /\ m \in n..Len(s)
      BY <2>2
    <3>2. Len(SubSeq(s, n + 1, m)) = m - n
      BY <3>1, SubSeqSplit
    <3> QED
      BY <2>3, <3>2
  <2>6. SubSeq(s, 1, k) \in Seq(Words) /\ SubSeq(s, k + 1, m) \in Seq(Words)
        /\ Len(SubSeq(s, 1, k)) = k /\ SubSeq(s, 1, k) \o SubSeq(s, k + 1, m) = SubSeq(s, 1, m)
    <3>1. k \in 0..Len(s) /\ m \in k..Len(s)
      BY <2>2
    <3> QED
      BY <3>1, SubSeqSplit
  <2>7. IsPrefix(buf[t], s)
    <3>1. SubSeq(s, 1, m) = s
      BY <2>2, SubSeqFull
    <3>2. IsPrefix(SubSeq(s, 1, k), SubSeq(s, 1, k) \o SubSeq(s, k + 1, m))
      BY <2>6, PrefixOfConcat
    <3> QED
      BY <2>3, <2>4, <2>6, <3>1, <3>2
  <2>8. Min({StreamCap, n}) = k
    <3>1. n \in Nat
      OBVIOUS
    <3> QED
      BY <2>4, <3>1, StreamCapAssumption, MinOfTwo DEF Kept
  <2>9. Len(buf[t]) = k
    BY <2>3, <2>4, <2>6
  <2>10. n = m - (m - n)
    OBVIOUS
  <2> QED
    BY <2>1, <2>2, <2>3, <2>4, <2>5, <2>7, <2>8, <2>9, <2>10 DEF Truncated
<1> QED
  BY <1>1, Invariance, PTL

(***************************************************************************)
(* runFclonesAction's verdict, for any output and any cap: right as long   *)
(* as the summary is kept to its seventh word, a failure where it is cut   *)
(* after "reclaimed", and no failure where it is cut before.               *)
(***************************************************************************)
THEOREM VerdictIsSound == Spec => []VerdictSound
<1>1. IndInv => VerdictSound
  <2> SUFFICES ASSUME IndInv, Exited PROVE VerdictSound
    BY DEF VerdictSound
  <2>1. ASSUME NEW t \in Streams
        PROVE  /\ buf[t] = SubSeq(script.out[t], 1, Kept(Len(script.out[t])))
               /\ Kept(Len(script.out[t])) \in 0..Len(script.out[t])
    <3>1. PICK s \in Seq(Words) : s = script.out[t]
      BY ScriptType DEF IndInv
    <3>2. PICK n \in 0..Len(s) : /\ n = total[t] /\ left[t] = SubSeq(s, n + 1, Len(s))
                                 /\ buf[t] = SubSeq(s, 1, Kept(n))
      BY <3>1 DEF IndInv, StreamInv
    <3>3. n = Len(s)
      <4>1. Len(s) \in n..Len(s)
        OBVIOUS
      <4>2. Len(SubSeq(s, n + 1, Len(s))) = Len(s) - n
        BY <4>1, SubSeqSplit
      <4>3. Len(s) - n = 0
        BY <3>2, <4>2 DEF Exited
      <4> QED
        BY <4>3
    <3>4. Kept(n) \in 0..n
      BY StreamCapAssumption DEF Kept
    <3> QED
      BY <3>1, <3>2, <3>3, <3>4
  <2>2. script.done \in {"dry", "zero", "some"} /\ script.to \in Streams
    BY ScriptType DEF IndInv
  <2>3. PICK a \in Seq({"warn", "nl"}) : script.out =
          [t \in Streams |-> IF t = script.to THEN a \o SummaryLine(script.done) ELSE <<>>]
    BY ScriptType DEF IndInv
  <2>4. PICK m \in Nat : m = Len(a)
    OBVIOUS
  <2>5. PICK n \in Nat : /\ n = Len(SummaryLine(script.done)) /\ SummaryLine(script.done) \in Seq(Words)
                         /\ script.done # "dry" => n = 9
    <3>1. CASE script.done = "dry"
      <4>1. SummaryLine("dry") = <<"Would", "process", "nl">>
        BY DEF SummaryLine
      <4>2. SummaryLine("dry") \in Seq(Words) /\ Len(SummaryLine("dry")) \in Nat
        <5>1. <<"Would", "process", "nl">> \in Seq(Words)
          BY DEF Words
        <5> QED
          BY <4>1, <5>1
      <4> QED
        BY <3>1, <4>2
    <3>2. CASE script.done # "dry"
      <4>1. script.done \in {"zero", "some"} /\ 9 \in Nat
        BY <2>2, <3>2
      <4>2. SummaryLine(script.done) \in Seq(Words) /\ Len(SummaryLine(script.done)) = 9
        BY <4>1, SummaryIs
      <4> QED
        BY <4>1, <4>2
    <3> QED
      BY <3>1, <3>2
  <2>6. a \in Seq(Words)
    BY DEF Words
  <2>7. script.out[script.to] = a \o SummaryLine(script.done)
        /\ Len(script.out[script.to]) = m + n
    BY <2>2, <2>3, <2>4, <2>5, <2>6
  <2>8. PICK c \in 0..(m + n) : buf[script.to] = SubSeq(a \o SummaryLine(script.done), 1, c)
    BY <2>1, <2>2, <2>7
  <2>9. Len(buf[script.to]) = c
    BY <2>4, <2>5, <2>6, <2>8, CutIs
  <2>10. \A k \in Nat : SummaryKept(k) <=> c + n >= (m + n) + k
    BY <2>5, <2>7, <2>9 DEF SummaryKept
  <2>11. ASSUME NEW t \in Streams, t # script.to PROVE buf[t] = <<>>
    <3>1. script.out[t] = <<>> /\ Len(<<>>) = 0
      BY <2>3, <2>11
    <3>2. buf[t] = SubSeq(<<>>, 1, 0)
      BY <2>1, <3>1
    <3> QED
      BY <3>2
  <2>12. ParseActionSummary(<<>>) = "none"
    <3>1. \A i \in DOMAIN <<>> : <<>>[i] # "Processed"
      OBVIOUS
    <3> QED
      BY <3>1, NoSummary
  <2>13. PICK verdict : verdict = ParseActionSummary(buf[script.to])
    OBVIOUS
  <2>14. ActionErr <=> verdict = "zero"
    <3>1. resolveActionSummary(buf["stderr"], buf["stdout"]) = verdict
      <4>1. "stderr" \in Streams /\ "stdout" \in Streams /\ (script.to = "stderr" \/ script.to = "stdout")
        BY <2>2 DEF Streams
      <4>2. CASE script.to = "stderr"
        <5>1. buf["stdout"] = <<>>
          BY <2>11, <4>1, <4>2
        <5> QED
          BY <2>12, <2>13, <4>2, <5>1 DEF resolveActionSummary
      <4>3. CASE script.to = "stdout"
        <5>1. buf["stderr"] = <<>>
          BY <2>11, <4>1, <4>3
        <5> QED
          BY <2>12, <2>13, <4>3, <5>1 DEF resolveActionSummary
      <4> QED
        BY <4>1, <4>2, <4>3
    <3> QED
      BY <3>1 DEF ActionErr, actionAccomplishedNothing
  <2>15. CASE script.done = "dry"
    <3>1. verdict = "none"
      BY <2>4, <2>5, <2>8, <2>13, <2>15, DryVerdict
    <3> QED
      BY <2>14, <2>15, <3>1 DEF VerdictSound
  <2>16. CASE script.done # "dry" /\ c < m + 5
    <3>1. c \in 0..(Len(a) + 4) /\ script.done \in {"zero", "some"}
      BY <2>2, <2>4, <2>16
    <3>2. verdict = "none"
      BY <2>8, <2>13, <3>1, UnrecognisedVerdict
    <3>3. ~SummaryKept(7) /\ ~SummaryKept(5)
      BY <2>10, <2>16
    <3> QED
      BY <2>14, <2>16, <3>2, <3>3 DEF VerdictSound
  <2>17. CASE script.done # "dry" /\ ~(c < m + 5)
    <3>1. PICK g \in 5..9 : c = m + g
      <4>1. c - m \in 5..9 /\ c = m + (c - m)
        <5>1. n = 9
          BY <2>5, <2>17
        <5>2. c \in 0..(m + 9) /\ ~(c < m + 5)
          BY <2>17, <5>1
        <5> QED
          BY <5>2
      <4> QED
        BY <4>1
    <3>2. script.done \in {"zero", "some"}
      BY <2>2, <2>17
    <3>3. verdict = IF g < 7 THEN "zero" ELSE script.done
      BY <2>4, <2>8, <2>13, <3>1, <3>2, SummaryVerdict
    <3>4. SummaryKept(5) /\ (SummaryKept(7) <=> ~(g < 7))
      BY <2>10, <3>1
    <3> QED
      BY <2>14, <2>17, <3>2, <3>3, <3>4 DEF VerdictSound
  <2> QED
    BY <2>15, <2>16, <2>17
<1> QED
  BY <1>1, Invariance, PTL
=============================================================================
