-------------------------- MODULE BootstrapProofs ---------------------------
(***************************************************************************)
(* Bootstrap's safety properties for every set of environments.  The main  *)
(* argument is about the parser of internal/args: whatever words somebody  *)
(* meant, in whichever quoting style they were written down, are the words *)
(* Parse finds, and a value that lacks its closing quote is refused.  It   *)
(* is an induction over the runes of a word, then over the words of a      *)
(* value.                                                                  *)
(***************************************************************************)
EXTENDS Bootstrap, DataLemmas, TLAPS

(***************************************************************************)
(* THE PARSER.                                                             *)
(***************************************************************************)

\* What the parser keeps from one rune to the next.
ParserStates ==
  [args : Seq(Seq(Runes)), current : Seq(Runes), quote : {"none"} \union Quotes,
   escaped : BOOLEAN]

\* A finished token goes to the arguments unless it is empty.
LEMMA FlushType ==
  ASSUME NEW p \in ParserStates
  PROVE  /\ flushToken(p) \in ParserStates
         /\ flushToken(p).args = IF p.current = <<>> THEN p.args ELSE Append(p.args, p.current)
         /\ flushToken(p).current = <<>>
         /\ flushToken(p).quote = p.quote /\ flushToken(p).escaped = p.escaped
<1>1. CASE p.current = <<>>
  BY <1>1 DEF flushToken
<1>2. CASE p.current # <<>>
  <2>1. flushToken(p) = [args |-> Append(p.args, p.current), current |-> <<>>,
                         quote |-> p.quote, escaped |-> p.escaped]
    BY <1>2 DEF flushToken, ParserStates
  <2>2. Append(p.args, p.current) \in Seq(Seq(Runes))
    BY DEF ParserStates
  <2> QED
    BY <1>2, <2>1, <2>2 DEF ParserStates
<1> QED
  BY <1>1, <1>2

\* The fields tell parser states apart.
LEMMA SameState ==
  ASSUME NEW p \in ParserStates, NEW q \in ParserStates, p.args = q.args,
         p.current = q.current, p.quote = q.quote, p.escaped = q.escaped
  PROVE  p = q
BY DEF ParserStates

\* A rune taken as it is.
Literal(p, r) == [p EXCEPT !.current = Append(p.current, r), !.escaped = FALSE]

\* Its effect, field by field.
LEMMA LiteralIs ==
  ASSUME NEW p \in ParserStates, NEW r \in Runes
  PROVE  /\ Literal(p, r) \in ParserStates
         /\ Literal(p, r).args = p.args /\ Literal(p, r).current = Append(p.current, r)
         /\ Literal(p, r).quote = p.quote /\ Literal(p, r).escaped = FALSE
<1> SUFFICES ASSUME NEW x \in Seq(Runes), x = Append(p.current, r)
             PROVE  LET y == [p EXCEPT !.current = x, !.escaped = FALSE]
                    IN  /\ y \in ParserStates /\ y.args = p.args /\ y.current = x
                        /\ y.quote = p.quote /\ y.escaped = FALSE
  <2>1. p.current \in Seq(Runes)
    BY DEF ParserStates
  <2>2. Append(p.current, r) \in Seq(Runes)
    BY <2>1, AppendProperties
  <2> QED
    BY <2>2 DEF Literal
<1>1. [p EXCEPT !.current = x, !.escaped = FALSE] \in ParserStates
  BY DEF ParserStates
<1>2. LET y == [p EXCEPT !.current = x, !.escaped = FALSE]
      IN  y.args = p.args /\ y.current = x /\ y.quote = p.quote /\ y.escaped = FALSE
  BY DEF ParserStates
<1> QED
  BY <1>1, <1>2

\* What a rune does, case by case.
LEMMA StepIs ==
  ASSUME NEW p \in ParserStates, NEW r \in Runes
  PROVE  /\ p.escaped => step(p, r) = Literal(p, r)
         /\ ~p.escaped /\ r = "bs" => step(p, r) = [p EXCEPT !.escaped = TRUE]
         /\ ~p.escaped /\ r # "bs" /\ p.quote # "none" /\ r = p.quote
              => step(p, r) = [p EXCEPT !.quote = "none"]
         /\ ~p.escaped /\ r # "bs" /\ p.quote # "none" /\ r # p.quote => step(p, r) = Literal(p, r)
         /\ ~p.escaped /\ r # "bs" /\ p.quote = "none" /\ r \in Quotes
              => step(p, r) = [p EXCEPT !.quote = r]
         /\ ~p.escaped /\ r # "bs" /\ p.quote = "none" /\ r \notin Quotes /\ r = "sp"
              => step(p, r) = flushToken(p)
         /\ ~p.escaped /\ r # "bs" /\ p.quote = "none" /\ r \notin Quotes /\ r # "sp"
              => step(p, r) = Literal(p, r)
<1>1. [p EXCEPT !.current = Append(@, r), !.escaped = FALSE] = Literal(p, r)
  BY DEF ParserStates, Literal
<1> QED
  BY <1>1 DEF step

\* A rune leads from one parser state to another.
LEMMA StepType ==
  ASSUME NEW p \in ParserStates, NEW r \in Runes
  PROVE  step(p, r) \in ParserStates
<1>1. Literal(p, r) \in ParserStates
  BY LiteralIs
<1>2. [p EXCEPT !.escaped = TRUE] \in ParserStates
  BY DEF ParserStates
<1>3. [p EXCEPT !.quote = "none"] \in ParserStates
  BY DEF ParserStates
<1>4. r \in Quotes => [p EXCEPT !.quote = r] \in ParserStates
  BY DEF ParserStates
<1>5. flushToken(p) \in ParserStates
  BY FlushType
<1>6. p.escaped \in BOOLEAN
  BY DEF ParserStates
<1> QED
  BY <1>1, <1>2, <1>3, <1>4, <1>5, <1>6, StepIs

\* Parse's loop is a recursion by step.
LEMMA StepsRecursion ==
  ASSUME NEW p \in ParserStates, NEW s \in Seq(Runes)
  PROVE  \E f \in [0..Len(s) -> ParserStates] :
           /\ f[0] = p
           /\ \A i \in 1..Len(s) : f[i] = step(f[i - 1], s[i])
           /\ Steps(p, s) = f[Len(s)]
<1> DEFINE n == Len(s)
           D == ParserStates
           next == [d \in D \X (1..n) |-> step(d[1], s[d[2]])]
<1>1. n \in Nat /\ \A i \in 1..n : s[i] \in Runes
  OBVIOUS
<1>2. next \in [D \X (1..n) -> D]
  <2>1. \A d \in D \X (1..n) : step(d[1], s[d[2]]) \in D
    BY <1>1, StepType
  <2> QED
    BY <2>1
<1>3. PICK f : Recursion(f, n, D, p, next)
  <2> HIDE DEF n, D, next
  <2>1. p \in D
    BY DEF D
  <2> QED
    BY <1>1, <1>2, <2>1, RecursionExists
<1>4. /\ f \in [0..n -> D] /\ f[0] = p
      /\ \A i \in 1..n : f[i] = step(f[i - 1], s[i])
  <2>1. f \in [0..n -> D] /\ f[0] = p /\ \A i \in 1..n : f[i] = next[<<f[i - 1], i>>]
    BY <1>3 DEF Recursion
  <2>2. ASSUME NEW i \in 1..n PROVE f[i] = step(f[i - 1], s[i])
    <3>1. i - 1 \in 0..n
      BY <1>1
    <3>2. <<f[i - 1], i>> \in D \X (1..n)
      BY <2>1, <3>1
    <3>3. next[<<f[i - 1], i>>] = step(f[i - 1], s[i])
      BY <3>2
    <3> QED
      BY <2>1, <3>3
  <2> QED
    BY <2>1, <2>2
<1> DEFINE H(g, i) == IF i = 0 THEN p ELSE CHOOSE q \in {step(o, s[i]) : o \in {g[i - 1]}} : TRUE
           at == CHOOSE g : g = [i \in 0..n |-> H(g, i)]
<1>5. \A g, i : H(g, i) = IF i = 0 THEN p ELSE step(g[i - 1], s[i])
  OBVIOUS
<1>6. f = [i \in 0..n |-> H(f, i)]
  <2>1. ASSUME NEW i \in 0..n PROVE f[i] = H(f, i)
    <3>1. i = 0 \/ i \in 1..n
      BY <1>1
    <3> QED
      BY <1>4, <1>5, <3>1
  <2> QED
    BY <1>4, <2>1
<1>7. at = [i \in 0..n |-> H(at, i)]
  BY <1>6
<1>8. Steps(p, s) = at[n]
  BY DEF Steps
<1> HIDE DEF at
<1>9. ASSUME NEW i \in 0..n PROVE at[i] = H(at, i)
  BY <1>7
<1>10. at[n] = f[n]
  <2> DEFINE P == {k \in Nat : k <= n => at[k] = f[k]}
  <2>1. 0 \in P
    <3>1. 0 \in 0..n /\ H(at, 0) = p
      BY <1>1
    <3> QED
      BY <1>4, <1>9, <3>1
  <2>2. ASSUME NEW k \in Nat, k \in P PROVE k + 1 \in P
    <3> SUFFICES ASSUME k + 1 <= n PROVE at[k + 1] = f[k + 1]
      OBVIOUS
    <3>1. k + 1 \in 0..n /\ k + 1 \in 1..n /\ k + 1 # 0 /\ (k + 1) - 1 = k /\ k <= n
      BY <1>1
    <3>2. at[k] = f[k]
      BY <2>2, <3>1
    <3>3. at[k + 1] = H(at, k + 1)
      BY <1>9, <3>1
    <3>4. H(at, k + 1) = step(at[k], s[k + 1])
      BY <1>5, <3>1
    <3>5. f[k + 1] = step(f[k], s[k + 1])
      BY <1>4, <3>1
    <3> QED
      BY <3>2, <3>3, <3>4, <3>5
  <2> HIDE DEF P
  <2>3. Nat \subseteq P
    BY <2>1, <2>2, NatInSet
  <2>4. n \in P
    BY <1>1, <2>3
  <2> QED
    BY <1>1, <2>4 DEF P
<1> QED
  BY <1>4, <1>8, <1>10

\* No rune, no change.
LEMMA StepsEmpty ==
  ASSUME NEW p \in ParserStates
  PROVE  Steps(p, <<>>) = p
<1>0. <<>> \in Seq(Runes) /\ Len(<<>>) = 0
  OBVIOUS
<1>1. PICK s \in Seq(Runes) : s = <<>> /\ Len(s) = 0
  BY <1>0
<1>2. PICK f \in [0..Len(s) -> ParserStates] : f[0] = p /\ Steps(p, s) = f[Len(s)]
  BY StepsRecursion
<1> QED
  BY <1>1, <1>2

\* The runes of a sequence lead to parser states.
LEMMA StepsType ==
  ASSUME NEW p \in ParserStates, NEW s \in Seq(Runes)
  PROVE  Steps(p, s) \in ParserStates
<1>1. PICK f \in [0..Len(s) -> ParserStates] : Steps(p, s) = f[Len(s)]
  BY StepsRecursion
<1>2. Len(s) \in 0..Len(s)
  OBVIOUS
<1> QED
  BY <1>1, <1>2

\* One rune more, one step more.
LEMMA StepsAppend ==
  ASSUME NEW p \in ParserStates, NEW s \in Seq(Runes), NEW r \in Runes
  PROVE  Steps(p, Append(s, r)) = step(Steps(p, s), r)
<1>1. PICK n \in Nat, u \in Seq(Runes) :
         n = Len(s) /\ u = Append(s, r) /\ Len(u) = n + 1 /\ u[n + 1] = r /\ \A i \in 1..n : u[i] = s[i]
  <2>1. /\ Len(s) \in Nat /\ Append(s, r) \in Seq(Runes) /\ Len(Append(s, r)) = Len(s) + 1
        /\ Append(s, r)[Len(s) + 1] = r /\ \A i \in 1..Len(s) : Append(s, r)[i] = s[i]
    OBVIOUS
  <2> QED
    BY <2>1
<1>2. PICK f \in [0..n -> ParserStates] :
        /\ f[0] = p /\ \A i \in 1..n : f[i] = step(f[i - 1], s[i]) /\ Steps(p, s) = f[n]
  BY <1>1, StepsRecursion
<1>3. PICK g \in [0..(n + 1) -> ParserStates] :
        g[0] = p /\ (\A i \in 1..(n + 1) : g[i] = step(g[i - 1], u[i])) /\ Steps(p, u) = g[n + 1]
  <2>1. \E g \in [0..Len(u) -> ParserStates] :
          g[0] = p /\ (\A i \in 1..Len(u) : g[i] = step(g[i - 1], u[i])) /\ Steps(p, u) = g[Len(u)]
    BY StepsRecursion
  <2>2. Len(u) = n + 1
    BY <1>1
  <2> QED
    BY <2>1, <2>2
<1>4. g[n] = f[n]
  <2> DEFINE P == {k \in Nat : k <= n => g[k] = f[k]}
  <2>1. 0 \in P
    BY <1>2, <1>3
  <2>2. ASSUME NEW k \in Nat, k \in P PROVE k + 1 \in P
    <3> SUFFICES ASSUME k + 1 <= n PROVE g[k + 1] = f[k + 1]
      OBVIOUS
    <3>1. k + 1 \in 1..n /\ k + 1 \in 1..(n + 1) /\ (k + 1) - 1 = k /\ k <= n
      OBVIOUS
    <3>2. g[k] = f[k]
      BY <2>2, <3>1
    <3>3. g[k + 1] = step(g[k], u[k + 1])
      BY <1>3, <3>1
    <3>4. f[k + 1] = step(f[k], s[k + 1])
      BY <1>2, <3>1
    <3>5. u[k + 1] = s[k + 1]
      BY <1>1, <3>1
    <3> QED
      BY <3>2, <3>3, <3>4, <3>5
  <2> HIDE DEF P
  <2>3. Nat \subseteq P
    BY <2>1, <2>2, NatInSet
  <2>4. n \in P
    BY <2>3
  <2> QED
    BY <2>4 DEF P
<1>5. g[n + 1] = step(g[n], u[n + 1])
  <2>1. n + 1 \in 1..(n + 1) /\ (n + 1) - 1 = n
    OBVIOUS
  <2> QED
    BY <1>3, <2>1
<1> QED
  BY <1>1, <1>2, <1>3, <1>4, <1>5

\* The parser goes on from where it is.
LEMMA StepsConcat ==
  ASSUME NEW p \in ParserStates, NEW s \in Seq(Runes), NEW t \in Seq(Runes)
  PROVE  Steps(p, s \o t) = Steps(Steps(p, s), t)
<1> DEFINE P == {u \in Seq(Runes) : Steps(p, s \o u) = Steps(Steps(p, s), u)}
<1>0. Steps(p, s) \in ParserStates
  BY StepsType
<1>1. <<>> \in P
  <2>1. s \o <<>> = s /\ <<>> \in Seq(Runes)
    OBVIOUS
  <2> QED
    BY <1>0, <2>1, StepsEmpty
<1>2. ASSUME NEW u \in Seq(Runes), NEW x \in Runes, u \in P PROVE Append(u, x) \in P
  <2>1. s \o Append(u, x) = Append(s \o u, x) /\ s \o u \in Seq(Runes) /\ Append(u, x) \in Seq(Runes)
    OBVIOUS
  <2>2. Steps(p, Append(s \o u, x)) = step(Steps(p, s \o u), x)
    BY <2>1, StepsAppend
  <2>3. Steps(Steps(p, s), Append(u, x)) = step(Steps(Steps(p, s), u), x)
    BY <1>0, StepsAppend
  <2>4. Steps(p, s \o u) = Steps(Steps(p, s), u)
    BY <1>2
  <2> QED
    BY <2>1, <2>2, <2>3, <2>4
<1> HIDE DEF P
<1>3. Seq(Runes) \subseteq P
  BY <1>1, <1>2, SeqInSet
<1>4. t \in P
  BY <1>3
<1> QED
  BY <1>4 DEF P

\* A single rune is a single step.
LEMMA StepsOne ==
  ASSUME NEW p \in ParserStates, NEW r \in Runes
  PROVE  Steps(p, <<r>>) = step(p, r)
<1>1. <<>> \in Seq(Runes) /\ Append(<<>>, r) = <<r>>
  OBVIOUS
<1> QED
  BY <1>1, StepsAppend, StepsEmpty

(***************************************************************************)
(* WHAT IS SPELLED IS WHAT IS PARSED.                                      *)
(***************************************************************************)

Styles == {"bs"} \union Quotes

\* The parser is where a word of this style is read literally.
Inside(p, style) ==
  /\ p \in ParserStates /\ ~p.escaped
  /\ p.quote = IF style = "bs" THEN "none" ELSE style

\* The word's runes with their escapes, and without the quotes around them.
Body(word, style) == FlattenSeq([i \in DOMAIN word |-> SpellRune(word[i], style)])

\* A spelled rune is made of runes.
LEMMA SpellRuneType ==
  ASSUME NEW r \in Runes, NEW style \in Styles
  PROVE  SpellRune(r, style) \in Seq(Runes)
<1>1. "bs" \in Runes
  BY DEF Runes
<1>2. <<"bs", r>> \in Seq(Runes) /\ <<r>> \in Seq(Runes)
  BY <1>1
<1> QED
  BY <1>2 DEF SpellRune

\* It is a map of the word's runes.
LEMMA BodyIs ==
  ASSUME NEW word \in Seq(Runes), NEW style \in Styles
  PROVE  Body(word, style) = Mapped([r \in Runes |-> SpellRune(r, style)], word)
<1>1. DOMAIN word = 1..Len(word) /\ \A i \in 1..Len(word) : word[i] \in Runes
  OBVIOUS
<1>2. [i \in DOMAIN word |-> SpellRune(word[i], style)]
        = [i \in DOMAIN word |-> [r \in Runes |-> SpellRune(r, style)][word[i]]]
  BY <1>1
<1> QED
  BY <1>2 DEF Body, Mapped

\* So it is made of runes,
LEMMA BodyType ==
  ASSUME NEW word \in Seq(Runes), NEW style \in Styles
  PROVE  Body(word, style) \in Seq(Runes)
<1> DEFINE g == [x \in Runes |-> SpellRune(x, style)]
<1>1. Maps(g, Runes, Runes)
  BY SpellRuneType DEF Maps
<1>2. Body(word, style) = Mapped(g, word)
  BY BodyIs
<1> HIDE DEF g
<1> QED
  BY <1>1, <1>2, MappedType

\* and grows with the word.
LEMMA BodyAppend ==
  ASSUME NEW word \in Seq(Runes), NEW r \in Runes, NEW style \in Styles
  PROVE  Body(Append(word, r), style) = Body(word, style) \o SpellRune(r, style)
<1> DEFINE g == [x \in Runes |-> SpellRune(x, style)]
<1>1. Maps(g, Runes, Runes) /\ g[r] = SpellRune(r, style)
  BY SpellRuneType DEF Maps
<1>2. Append(word, r) \in Seq(Runes)
  OBVIOUS
<1>3. Body(word, style) = Mapped(g, word) /\ Body(Append(word, r), style) = Mapped(g, Append(word, r))
  BY <1>2, BodyIs
<1> HIDE DEF g
<1>4. Mapped(g, Append(word, r)) = Mapped(g, word) \o g[r]
  BY <1>1, MappedAppend
<1> QED
  BY <1>1, <1>3, <1>4

\* Inside a word, an escaped rune is taken as it is.
LEMMA RuneLiteral ==
  ASSUME NEW style \in Styles, NEW p, Inside(p, style), NEW r \in Runes
  PROVE  Steps(p, SpellRune(r, style)) = Literal(p, r)
<1> DEFINE special == IF style = "bs" THEN {"sp", "sq", "dq", "bs"} ELSE {style, "bs"}
<1>1. p \in ParserStates /\ ~p.escaped /\ p.quote = IF style = "bs" THEN "none" ELSE style
  BY DEF Inside
<1>2. CASE r \in special
  <2>1. SpellRune(r, style) = <<"bs", r>>
    BY <1>2 DEF SpellRune
  <2>2. "bs" \in Runes
    BY DEF Runes
  <2>3. <<"bs">> \in Seq(Runes) /\ <<"bs", r>> = Append(<<"bs">>, r)
    BY <2>2
  <2>4. PICK q \in ParserStates : /\ q = step(p, "bs") /\ q = [p EXCEPT !.escaped = TRUE]
                                  /\ q.args = p.args /\ q.current = p.current
                                  /\ q.quote = p.quote /\ q.escaped
    <3>1. step(p, "bs") = [p EXCEPT !.escaped = TRUE]
      BY <1>1, <2>2, StepIs
    <3>2. LET q == [p EXCEPT !.escaped = TRUE]
          IN  /\ q \in ParserStates /\ q.args = p.args /\ q.current = p.current
              /\ q.quote = p.quote /\ q.escaped
      BY <1>1 DEF ParserStates
    <3> QED
      BY <3>1, <3>2
  <2>5. Steps(p, <<"bs">>) = q
    BY <1>1, <2>2, <2>4, StepsOne
  <2>6. Steps(p, <<"bs", r>>) = step(q, r)
    BY <1>1, <2>3, <2>5, StepsAppend
  <2>7. step(q, r) = Literal(q, r)
    BY <2>4, StepIs
  <2>8. Literal(q, r) = Literal(p, r)
    <3>1. /\ Literal(p, r) \in ParserStates
          /\ Literal(p, r).args = p.args /\ Literal(p, r).current = Append(p.current, r)
          /\ Literal(p, r).quote = p.quote /\ Literal(p, r).escaped = FALSE
      BY <1>1, LiteralIs
    <3>2. /\ Literal(q, r) \in ParserStates
          /\ Literal(q, r).args = q.args /\ Literal(q, r).current = Append(q.current, r)
          /\ Literal(q, r).quote = q.quote /\ Literal(q, r).escaped = FALSE
      BY LiteralIs
    <3>3. PICK a \in ParserStates, b \in ParserStates : a = Literal(p, r) /\ b = Literal(q, r)
      BY <3>1, <3>2
    <3>4. b.args = a.args /\ b.current = a.current /\ b.quote = a.quote /\ b.escaped = a.escaped
      BY <2>4, <3>1, <3>2, <3>3
    <3> QED
      BY <3>3, <3>4, SameState
  <2> QED
    BY <2>1, <2>6, <2>7, <2>8
<1>3. CASE r \notin special
  <2>1. SpellRune(r, style) = <<r>>
    BY <1>3 DEF SpellRune
  <2>2. Steps(p, <<r>>) = step(p, r)
    BY <1>1, StepsOne
  <2>3. r # "bs" /\ (style = "bs" => r \notin Quotes /\ r # "sp") /\ (style # "bs" => r # style)
    BY <1>3 DEF Quotes
  <2>4. style # "bs" => style # "none"
    BY DEF Styles, Quotes
  <2>5. step(p, r) = Literal(p, r)
    BY <1>1, <2>3, <2>4, StepIs
  <2> QED
    BY <2>1, <2>2, <2>5
<1> QED
  BY <1>2, <1>3

\* The state after a word has been read.
WordRead(p, word, q) ==
  /\ q \in ParserStates /\ q.args = p.args /\ q.current = p.current \o word
  /\ q.quote = p.quote /\ ~q.escaped

\* A word's spelling, read from inside its quotes, adds the word.
LEMMA BodyLiteral ==
  ASSUME NEW style \in Styles, NEW p, Inside(p, style), NEW word \in Seq(Runes)
  PROVE  WordRead(p, word, Steps(p, Body(word, style)))
<1>a. \A c \in Seq(Runes), w \in Seq(Runes), r \in Runes :
        c \o Append(w, r) = Append(c \o w, r) /\ Append(w, r) \in Seq(Runes)
  BY ConcatAppend
<1> DEFINE P == {w \in Seq(Runes) : WordRead(p, w, Steps(p, Body(w, style)))}
<1>0. p \in ParserStates /\ ~p.escaped /\ p.current \in Seq(Runes)
  BY DEF Inside, ParserStates
<1>1. <<>> \in P
  <2>1. [i \in DOMAIN <<>> |-> SpellRune(<<>>[i], style)] = <<>> /\ <<>> \in Seq(Runes)
    OBVIOUS
  <2>2. Body(<<>>, style) = <<>>
    BY <2>1, FlattenEmpty DEF Body
  <2>3. Steps(p, <<>>) = p
    BY <1>0, StepsEmpty
  <2>4. p.current \o <<>> = p.current
    BY <1>0
  <2> QED
    BY <1>0, <2>1, <2>2, <2>3, <2>4 DEF WordRead
<1>2. ASSUME NEW w \in Seq(Runes), NEW r \in Runes, w \in P PROVE Append(w, r) \in P
  <2>1. PICK q : q = Steps(p, Body(w, style))
    OBVIOUS
  <2>2. /\ q \in ParserStates /\ q.args = p.args /\ q.current = p.current \o w
        /\ q.quote = p.quote /\ ~q.escaped
    BY <1>2, <2>1 DEF WordRead
  <2>3. Inside(q, style)
    BY <2>2 DEF Inside
  <2>4. Steps(p, Body(Append(w, r), style)) = Steps(q, SpellRune(r, style))
    <3>1. Body(w, style) \in Seq(Runes) /\ SpellRune(r, style) \in Seq(Runes)
      BY BodyType, SpellRuneType
    <3>2. Steps(p, Body(w, style) \o SpellRune(r, style)) = Steps(Steps(p, Body(w, style)), SpellRune(r, style))
      BY <1>0, <3>1, StepsConcat
    <3> QED
      BY <2>1, <3>2, BodyAppend
  <2>5. Steps(q, SpellRune(r, style)) = Literal(q, r)
    BY <2>3, RuneLiteral
  <2>6. /\ Literal(q, r) \in ParserStates
        /\ Literal(q, r).args = q.args /\ Literal(q, r).current = Append(q.current, r)
        /\ Literal(q, r).quote = q.quote /\ Literal(q, r).escaped = FALSE
    BY <2>2, LiteralIs
  <2>7. Append(p.current \o w, r) = p.current \o Append(w, r) /\ Append(w, r) \in Seq(Runes)
    BY <1>0, <1>a
  <2>8. WordRead(p, Append(w, r), Literal(q, r))
    BY <2>2, <2>6, <2>7 DEF WordRead
  <2> QED
    BY <2>4, <2>5, <2>7, <2>8
<1> HIDE DEF P
<1>3. Seq(Runes) \subseteq P
  BY <1>1, <1>2, SeqInSet
<1>4. word \in P
  BY <1>3
<1> QED
  BY <1>4 DEF P

\* Between two words, with nothing read of the next.
Between(p) == p \in ParserStates /\ ~p.escaped /\ p.quote = "none" /\ p.current = <<>>

\* A quoted word up to its closing quote.
LEMMA OpenWordRead ==
  ASSUME NEW style \in Quotes, NEW p, Between(p), NEW word \in Seq(Runes)
  PROVE  /\ <<style>> \o Body(word, style) \in Seq(Runes)
         /\ LET q == Steps(p, <<style>> \o Body(word, style))
            IN  /\ q \in ParserStates /\ q.args = p.args /\ q.current = word
                /\ q.quote = style /\ ~q.escaped
<1>0. p \in ParserStates /\ ~p.escaped /\ p.quote = "none" /\ p.current = <<>>
  BY DEF Between
<1>1. style \in Runes /\ style \in Styles /\ style # "bs" /\ style # "none"
  BY DEF Quotes, Runes, Styles
<1>2. PICK q \in ParserStates : /\ q = step(p, style) /\ q.args = p.args /\ q.current = p.current
                                /\ q.quote = style /\ ~q.escaped
  <2>1. step(p, style) = [p EXCEPT !.quote = style]
    BY <1>0, <1>1, StepIs
  <2>2. LET q == [p EXCEPT !.quote = style]
        IN  /\ q \in ParserStates /\ q.args = p.args /\ q.current = p.current
            /\ q.quote = style /\ q.escaped = p.escaped
    BY <1>0 DEF ParserStates
  <2> QED
    BY <1>0, <2>1, <2>2
<1>3. Inside(q, style)
  BY <1>1, <1>2 DEF Inside
<1>4. <<style>> \in Seq(Runes) /\ Body(word, style) \in Seq(Runes)
  BY <1>1, BodyType
<1>5. Steps(p, <<style>> \o Body(word, style)) = Steps(q, Body(word, style))
  <2>1. Steps(p, <<style>>) = q
    BY <1>0, <1>1, <1>2, StepsOne
  <2> QED
    BY <1>0, <1>4, <2>1, StepsConcat
<1>6. WordRead(q, word, Steps(q, Body(word, style)))
  BY <1>1, <1>3, BodyLiteral
<1>7. <<>> \o word = word
  OBVIOUS
<1>8. <<style>> \o Body(word, style) \in Seq(Runes)
  BY <1>4
<1> QED
  BY <1>0, <1>2, <1>5, <1>6, <1>7, <1>8 DEF WordRead

\* A whole word, in any style.
LEMMA WholeWordRead ==
  ASSUME NEW style \in Styles, NEW p, Between(p), NEW word \in Seq(Runes)
  PROVE  /\ SpellWord(word, style) \in Seq(Runes)
         /\ LET q == Steps(p, SpellWord(word, style))
            IN  /\ q \in ParserStates /\ q.args = p.args /\ q.current = word
                /\ q.quote = "none" /\ ~q.escaped
<1>0. p \in ParserStates /\ ~p.escaped /\ p.quote = "none" /\ p.current = <<>>
  BY DEF Between
<1>1. CASE style = "bs"
  <2>1. SpellWord(word, style) = Body(word, style)
    BY <1>1 DEF SpellWord, Body
  <2>2. Inside(p, style)
    BY <1>0, <1>1 DEF Inside
  <2>3. WordRead(p, word, Steps(p, Body(word, style)))
    BY <2>2, BodyLiteral
  <2>4. <<>> \o word = word /\ Body(word, style) \in Seq(Runes)
    BY BodyType
  <2> QED
    BY <1>0, <2>1, <2>3, <2>4 DEF WordRead
<1>2. CASE style # "bs"
  <2>0. style \in Quotes /\ style \in Runes /\ style # "none"
    BY <1>2 DEF Styles, Quotes, Runes
  <2>1. SpellWord(word, style) = (<<style>> \o Body(word, style)) \o <<style>>
    BY <1>2 DEF SpellWord, Body
  <2>2. PICK a \in Seq(Runes), q \in ParserStates :
          /\ a = <<style>> \o Body(word, style) /\ q = Steps(p, a) /\ q.args = p.args
          /\ q.current = word /\ q.quote = style /\ ~q.escaped
    <3>1. PICK a : a = <<style>> \o Body(word, style)
      OBVIOUS
    <3>2. /\ a \in Seq(Runes)
          /\ LET q == Steps(p, a)
             IN  /\ q \in ParserStates /\ q.args = p.args /\ q.current = word
                 /\ q.quote = style /\ ~q.escaped
      BY <2>0, <3>1, OpenWordRead
    <3> QED
      BY <3>1, <3>2
  <2>3. a \o <<style>> \in Seq(Runes) /\ a \o <<style>> = Append(a, style)
    BY <2>0
  <2>4. Steps(p, Append(a, style)) = step(q, style)
    BY <1>0, <2>0, <2>2, StepsAppend
  <2>5. step(q, style) = [q EXCEPT !.quote = "none"]
    BY <1>2, <2>0, <2>2, StepIs
  <2>6. LET r == [q EXCEPT !.quote = "none"]
        IN  /\ r \in ParserStates /\ r.args = q.args /\ r.current = q.current
            /\ r.quote = "none" /\ r.escaped = q.escaped
    BY DEF ParserStates
  <2> QED
    BY <2>1, <2>2, <2>3, <2>4, <2>5, <2>6
<1> QED
  BY <1>1, <1>2

\* A value grows by a space and the next word.
LEMMA SpellWordsAppend ==
  ASSUME NEW words \in Seq(Seq(Runes)), NEW w \in Seq(Runes), NEW style \in Styles
  PROVE  /\ SpellWords(words, style) \in Seq(Runes)
         /\ SpellWords(Append(words, w), style)
              = SpellWords(words, style) \o (<<"sp">> \o SpellWord(w, style))
<1> DEFINE T == Seq(Runes)
           g == [x \in T |-> <<"sp">> \o SpellWord(x, style)]
<1>0. Between(Start)
  BY DEF Between, Start, ParserStates
<1>1. \A x \in T : SpellWord(x, style) \in Seq(Runes)
  BY <1>0, WholeWordRead
<1>2. \A x \in T : <<"sp">> \o SpellWord(x, style) \in Seq(Runes)
  <2>1. "sp" \in Runes
    BY DEF Runes
  <2> QED
    BY <1>1, <2>1
<1>3. Maps(g, T, Runes) /\ g[w] = <<"sp">> \o SpellWord(w, style)
  BY <1>2 DEF Maps
<1>4. ASSUME NEW v \in Seq(T) PROVE SpellWords(v, style) = Mapped(g, v)
  <2>1. DOMAIN v = 1..Len(v) /\ \A i \in 1..Len(v) : v[i] \in T
    OBVIOUS
  <2>2. [i \in DOMAIN v |-> <<"sp">> \o SpellWord(v[i], style)] = [i \in DOMAIN v |-> g[v[i]]]
    BY <2>1
  <2> QED
    BY <2>2 DEF SpellWords, Mapped
<1>5. words \in Seq(T) /\ w \in T /\ Append(words, w) \in Seq(T)
  OBVIOUS
<1> HIDE DEF g, T
<1>6. Mapped(g, words) \in Seq(Runes)
  BY <1>3, <1>5, MappedType
<1>7. Mapped(g, Append(words, w)) = Mapped(g, words) \o g[w]
  <2>1. \A v \in Seq(T), x \in T : Mapped(g, Append(v, x)) = Mapped(g, v) \o g[x]
    BY <1>3, MappedAppend
  <2> QED
    BY <1>5, <2>1
<1> QED
  BY <1>3, <1>4, <1>5, <1>6, <1>7

\* A word more is kept unless it is empty.
LEMMA NonEmptyAppend ==
  ASSUME NEW words \in Seq(Seq(Runes)), NEW w \in Seq(Runes)
  PROVE  /\ NonEmpty(words) \in Seq(Seq(Runes))
         /\ NonEmpty(Append(words, w)) = IF w = <<>> THEN NonEmpty(words)
                                         ELSE Append(NonEmpty(words), w)
<1> DEFINE T == Seq(Runes)
           g == [x \in T |-> IF x = <<>> THEN <<>> ELSE <<x>>]
<1>1. Maps(g, T, T) /\ g[w] = IF w = <<>> THEN <<>> ELSE <<w>>
  BY DEF Maps
<1>2. ASSUME NEW v \in Seq(T) PROVE NonEmpty(v) = Mapped(g, v)
  <2>1. DOMAIN v = 1..Len(v) /\ \A i \in 1..Len(v) : v[i] \in T
    OBVIOUS
  <2>2. [i \in DOMAIN v |-> IF v[i] = <<>> THEN <<>> ELSE <<v[i]>>] = [i \in DOMAIN v |-> g[v[i]]]
    BY <2>1
  <2> QED
    BY <2>2 DEF NonEmpty, Mapped
<1>3. words \in Seq(T) /\ w \in T /\ Append(words, w) \in Seq(T)
  OBVIOUS
<1> HIDE DEF g, T
<1>4. Mapped(g, words) \in Seq(T)
  BY <1>1, <1>3, MappedType
<1>5. Mapped(g, Append(words, w)) = Mapped(g, words) \o g[w]
  <2>1. \A v \in Seq(T), x \in T : Mapped(g, Append(v, x)) = Mapped(g, v) \o g[x]
    BY <1>1, MappedAppend
  <2> QED
    BY <1>3, <2>1
<1>6. NonEmpty(words) = Mapped(g, words) /\ NonEmpty(Append(words, w)) = Mapped(g, Append(words, w))
  BY <1>2, <1>3
<1>7. NonEmpty(words) \o <<>> = NonEmpty(words) /\ NonEmpty(words) \o <<w>> = Append(NonEmpty(words), w)
  <2>1. ASSUME NEW S, NEW s \in Seq(S), NEW x \in S PROVE s \o <<>> = s /\ s \o <<x>> = Append(s, x)
    OBVIOUS
  <2> QED
    BY <1>3, <1>4, <1>6, <2>1
<1> QED
  BY <1>1, <1>4, <1>5, <1>6, <1>7 DEF T

\* The parser starts between two words.
LEMMA StartBetween == Between(Start) /\ Start \in ParserStates /\ Start.args = <<>>
BY DEF Between, Start, ParserStates

\* A space and a word after it.
LEMMA NextWordRead ==
  ASSUME NEW style \in Styles, NEW p \in ParserStates, ~p.escaped, p.quote = "none",
         NEW w \in Seq(Runes)
  PROVE  /\ <<"sp">> \o SpellWord(w, style) \in Seq(Runes)
         /\ Between(step(p, "sp")) /\ step(p, "sp") = flushToken(p)
         /\ Steps(p, <<"sp">> \o SpellWord(w, style)) = Steps(flushToken(p), SpellWord(w, style))
<1>1. "sp" \in Runes /\ "sp" # "bs" /\ "sp" \notin Quotes
  BY DEF Runes, Quotes
<1>2. step(p, "sp") = flushToken(p)
  BY <1>1, StepIs
<1>3. Between(flushToken(p))
  BY FlushType DEF Between
<1>4. SpellWord(w, style) \in Seq(Runes)
  BY <1>3, WholeWordRead
<1>5. <<"sp">> \in Seq(Runes)
  BY <1>1
<1>6. Steps(p, <<"sp">>) = flushToken(p)
  BY <1>1, <1>2, StepsOne
<1>7. Steps(p, <<"sp">> \o SpellWord(w, style)) = Steps(Steps(p, <<"sp">>), SpellWord(w, style))
  BY <1>4, <1>5, StepsConcat
<1>8. <<"sp">> \o SpellWord(w, style) \in Seq(Runes)
  BY <1>4, <1>5
<1> QED
  BY <1>2, <1>3, <1>6, <1>7, <1>8

\* The parser is at the end of a word, and has read these.
Read(words, q) ==
  /\ q \in ParserStates /\ ~q.escaped /\ q.quote = "none"
  /\ flushToken(q).args = NonEmpty(words)

\* All words, in any style.
LEMMA WordsRead ==
  ASSUME NEW words \in Seq(Seq(Runes)), NEW style \in Styles
  PROVE  Read(words, Steps(Start, SpellWords(words, style)))
<1> DEFINE T == Seq(Runes)
           P == {ws \in Seq(T) : Read(ws, Steps(Start, SpellWords(ws, style)))}
<1>1. <<>> \in P
  <2>1. /\ [i \in DOMAIN <<>> |-> <<"sp">> \o SpellWord(<<>>[i], style)] = <<>>
        /\ [i \in DOMAIN <<>> |-> IF <<>>[i] = <<>> THEN <<>> ELSE << <<>>[i] >>] = <<>>
        /\ <<>> \in Seq(T)
    OBVIOUS
  <2>2. SpellWords(<<>>, style) = <<>> /\ NonEmpty(<<>>) = <<>>
    BY <2>1, FlattenEmpty DEF SpellWords, NonEmpty
  <2>3. Steps(Start, <<>>) = Start
    BY StartBetween, StepsEmpty
  <2>4. flushToken(Start).args = <<>>
    BY StartBetween, FlushType DEF Between
  <2> QED
    BY <2>1, <2>2, <2>3, <2>4, StartBetween DEF Read, Between
<1>2. ASSUME NEW ws \in Seq(T), NEW w \in T, ws \in P PROVE Append(ws, w) \in P
  <2>0. ws \in Seq(Seq(Runes)) /\ w \in Seq(Runes)
    OBVIOUS
  <2>1. PICK q \in ParserStates : /\ q = Steps(Start, SpellWords(ws, style))
                                  /\ ~q.escaped /\ q.quote = "none"
                                  /\ flushToken(q).args = NonEmpty(ws)
    BY <1>2 DEF Read
  <2>2. PICK f \in ParserStates : /\ f = flushToken(q) /\ f.args = NonEmpty(ws) /\ Between(f)
    <3>1. flushToken(q) \in ParserStates /\ Between(flushToken(q))
      BY <2>1, FlushType DEF Between
    <3> QED
      BY <2>1, <3>1
  <2>3. PICK r \in ParserStates : /\ r = Steps(f, SpellWord(w, style)) /\ r.args = f.args
                                  /\ r.current = w /\ r.quote = "none" /\ ~r.escaped
    BY <2>0, <2>2, WholeWordRead
  <2>4. Steps(Start, SpellWords(Append(ws, w), style)) = r
    <3>1. PICK a \in Seq(Runes), b \in Seq(Runes) :
            a = SpellWords(ws, style) /\ b = <<"sp">> \o SpellWord(w, style)
      BY <2>0, <2>1, SpellWordsAppend, NextWordRead
    <3>2. SpellWords(Append(ws, w), style) = a \o b
      BY <2>0, <3>1, SpellWordsAppend
    <3>3. Steps(Start, a \o b) = Steps(q, b)
      BY <2>1, <3>1, StartBetween, StepsConcat
    <3>4. Steps(q, b) = Steps(f, SpellWord(w, style))
      BY <2>0, <2>1, <2>2, <3>1, NextWordRead
    <3> QED
      BY <2>3, <3>2, <3>3, <3>4
  <2>5. flushToken(r).args = NonEmpty(Append(ws, w))
    <3>1. flushToken(r).args = IF w = <<>> THEN f.args ELSE Append(f.args, w)
      BY <2>3, FlushType
    <3>2. NonEmpty(Append(ws, w)) = IF w = <<>> THEN NonEmpty(ws) ELSE Append(NonEmpty(ws), w)
      BY <2>0, NonEmptyAppend
    <3> QED
      BY <2>2, <3>1, <3>2
  <2>6. Append(ws, w) \in Seq(T)
    OBVIOUS
  <2> QED
    BY <2>3, <2>4, <2>5, <2>6 DEF Read
<1>3. words \in Seq(T)
  OBVIOUS
<1> HIDE DEF P, T
<1>4. Seq(T) \subseteq P
  BY <1>1, <1>2, SeqInSet
<1>5. words \in P
  BY <1>3, <1>4
<1> QED
  BY <1>5 DEF P

\* What was written is what Parse finds.
LEMMA ParseSpelled ==
  ASSUME NEW words \in Seq(Seq(Runes)), NEW style \in Styles
  PROVE  /\ Parse(SpellWords(words, style)).ok
         /\ Parse(SpellWords(words, style)).args = NonEmpty(words)
<1>1. PICK q : q = Steps(Start, SpellWords(words, style)) /\ Read(words, q)
  BY WordsRead
<1>2. Parse(SpellWords(words, style)) = [ok |-> TRUE, args |-> flushToken(q).args]
  BY <1>1 DEF Parse, Read
<1> QED
  BY <1>1, <1>2 DEF Read

\* Without its closing quote, the last word never ends.
LEMMA ParseCut ==
  ASSUME NEW words \in Seq(Seq(Runes)), words # <<>>, NEW style \in Quotes
  PROVE  ~Parse(Front(SpellWords(words, style))).ok
<1>0. style \in Styles /\ style # "bs" /\ style \in Runes /\ style # "none"
  BY DEF Styles, Quotes, Runes
<1>1. PICK ws \in Seq(Seq(Runes)), w \in Seq(Runes) : words = Append(ws, w)
  <2> DEFINE T == Seq(Runes)
  <2> HIDE DEF T
  <2>1. \A v \in Seq(T) : v # <<>> => \E t \in Seq(T), x \in T : v = Append(t, x)
    BY SequenceEmptyOrAppend
  <2>2. words \in Seq(T)
    BY DEF T
  <2>3. \E t \in Seq(T), x \in T : words = Append(t, x)
    BY <2>1, <2>2
  <2> QED
    BY <2>3 DEF T
<1>2. PICK q \in ParserStates : /\ q = Steps(Start, SpellWords(ws, style))
                                /\ ~q.escaped /\ q.quote = "none"
  BY <1>0, WordsRead DEF Read
<1>3. PICK a \in Seq(Runes) : a = SpellWords(ws, style)
  BY <1>0, <1>1, SpellWordsAppend
<1>4. PICK f \in ParserStates : f = flushToken(q) /\ Between(f) /\ f = step(q, "sp")
  BY <1>0, <1>2, FlushType, NextWordRead
<1>5. PICK b \in Seq(Runes), r \in ParserStates :
        b = <<style>> \o Body(w, style) /\ r = Steps(f, b) /\ r.quote = style
  <2>1. PICK b : b = <<style>> \o Body(w, style)
    OBVIOUS
  <2>2. /\ b \in Seq(Runes)
        /\ LET r == Steps(f, b)
           IN  /\ r \in ParserStates /\ r.args = f.args /\ r.current = w
               /\ r.quote = style /\ ~r.escaped
    BY <1>4, <2>1, OpenWordRead
  <2> QED
    BY <2>1, <2>2
<1>6. PICK c \in Seq(Runes) : c = <<"sp">> /\ Steps(q, c) = f
  <2>1. "sp" \in Runes
    BY DEF Runes
  <2>2. <<"sp">> \in Seq(Runes)
    BY <2>1
  <2> QED
    BY <1>2, <1>4, <2>1, <2>2, StepsOne
<1>7. PICK d \in Seq(Runes) : d = a \o (c \o b) /\ Steps(Start, d) = r
  <2>1. c \o b \in Seq(Runes) /\ a \o (c \o b) \in Seq(Runes)
    OBVIOUS
  <2>2. Steps(q, c \o b) = Steps(Steps(q, c), b)
    BY StepsConcat
  <2>3. PICK e \in Seq(Runes) : e = c \o b
    BY <2>1
  <2>4. Steps(Start, a \o e) = Steps(Steps(Start, a), e)
    BY StartBetween, StepsConcat
  <2>5. Steps(Start, a) = q
    BY <1>2, <1>3
  <2>6. Steps(Start, a \o e) = r
    BY <1>5, <1>6, <2>2, <2>3, <2>4, <2>5
  <2> QED
    BY <2>1, <2>3, <2>6
<1>8. SpellWords(words, style) = Append(d, style)
  <2>1. SpellWord(w, style) = b \o <<style>>
    BY <1>0, <1>5 DEF SpellWord, Body
  <2>2. SpellWords(words, style) = a \o (c \o SpellWord(w, style))
    BY <1>0, <1>1, <1>3, <1>6, SpellWordsAppend
  <2>3. b \o <<style>> = Append(b, style)
    BY <1>0
  <2>4. c \o Append(b, style) = Append(c \o b, style) /\ c \o b \in Seq(Runes)
    BY <1>0, ConcatAppend
  <2>5. a \o Append(c \o b, style) = Append(a \o (c \o b), style)
    <3>1. \A e \in Seq(Runes), x \in Runes : a \o Append(e, x) = Append(a \o e, x)
      BY ConcatAppend
    <3> QED
      BY <1>0, <2>4, <3>1
  <2> QED
    BY <1>7, <2>1, <2>2, <2>3, <2>4, <2>5
<1>9. Front(SpellWords(words, style)) = d
  BY <1>0, <1>8, FrontAppend
<1>10. Parse(d) = [ok |-> FALSE, args |-> <<>>]
  BY <1>0, <1>5, <1>7 DEF Parse
<1> QED
  BY <1>9, <1>10

\* An argument variable parses if no quote was left out, and then to its words.
LEMMA ParseValue ==
  ASSUME NEW v \in ArgValues
  PROVE  /\ Parse(Spell(v)).ok <=> ~v.cut
         /\ ~v.cut => Parse(Spell(v)).args = NonEmpty(v.words)
<1>1. /\ v.words \in Seq(Seq(Runes)) /\ v.style \in Styles /\ v.cut \in BOOLEAN
      /\ v.cut => v.words # <<>> /\ v.style \in Quotes
  BY DEF ArgValues, Styles
<1>2. CASE v.cut
  <2>1. Spell(v) = Front(SpellWords(v.words, v.style))
    BY <1>2 DEF Spell
  <2> QED
    BY <1>1, <1>2, <2>1, ParseCut
<1>3. CASE ~v.cut
  <2>1. Spell(v) = SpellWords(v.words, v.style)
    BY <1>3 DEF Spell
  <2> QED
    BY <1>1, <1>3, <2>1, ParseSpelled
<1> QED
  BY <1>2, <1>3

\* The default of FCLONES_SCAN_PATHS is one path.
LEMMA ParseDefaultPath ==
  Parse(<<"path">>).ok /\ Parse(<<"path">>).args = <<<<"path">>>>
<1>1. "path" \in Runes /\ "path" # "bs" /\ "path" # "sp" /\ "path" \notin Quotes
  BY DEF Runes, Quotes
<1>2. /\ Start \in ParserStates /\ ~Start.escaped /\ Start.quote = "none" /\ Start.current = <<>>
      /\ Start.args = <<>>
  BY StartBetween DEF Between
<1>3. Steps(Start, <<"path">>) = step(Start, "path") /\ step(Start, "path") = Literal(Start, "path")
  BY <1>1, <1>2, StepsOne, StepIs
<1>4. PICK q \in ParserStates :
        /\ q = Steps(Start, <<"path">>) /\ q.args = <<>> /\ q.current = Append(<<>>, "path")
        /\ q.quote = "none" /\ q.escaped = FALSE
  <2>1. /\ Literal(Start, "path") \in ParserStates
        /\ Literal(Start, "path").args = Start.args
        /\ Literal(Start, "path").current = Append(Start.current, "path")
        /\ Literal(Start, "path").quote = Start.quote /\ Literal(Start, "path").escaped = FALSE
    BY <1>1, <1>2, LiteralIs
  <2> QED
    BY <1>2, <1>3, <2>1
<1>5. Append(<<>>, "path") = <<"path">> /\ <<"path">> # <<>> /\ Append(<<>>, <<"path">>) = <<<<"path">>>>
  OBVIOUS
<1>6. flushToken(q).args = <<<<"path">>>>
  <2>1. flushToken(q).args = IF q.current = <<>> THEN q.args ELSE Append(q.args, q.current)
    BY FlushType
  <2> QED
    BY <1>4, <1>5, <2>1
<1>7. Parse(<<"path">>) = [ok |-> TRUE, args |-> flushToken(q).args]
  BY <1>4 DEF Parse
<1> QED
  BY <1>6, <1>7

(***************************************************************************)
(* THE ENVIRONMENT AND THE GATES.                                          *)
(***************************************************************************)

\* The fields of an environment, meant and read.
LEMMA RawIs ==
  ASSUME env \in Environments
  PROVE  /\ env.args \in ArgValues /\ env.actionArgs \in ArgValues /\ env.scanPaths \in ArgValues
         /\ env.action \in Actions \union {"unset", "bogus"} /\ env.unsafe \in BOOLEAN
         /\ env.timeout \in Durations /\ env.interval \in Durations \union {"off"}
         /\ Raw.args = Spell(env.args) /\ Raw.actionArgs = Spell(env.actionArgs)
         /\ Raw.scanPaths = Spell(env.scanPaths)
         /\ Raw.action = env.action /\ Raw.unsafe = env.unsafe
         /\ Raw.timeout = env.timeout /\ Raw.interval = env.interval
<1>1. /\ env.args \in ArgValues /\ env.actionArgs \in ArgValues /\ env.scanPaths \in ArgValues
      /\ env.action \in Actions \union {"unset", "bogus"} /\ env.unsafe \in BOOLEAN
      /\ env.timeout \in Durations /\ env.interval \in Durations \union {"off"}
  BY DEF Environments
<1>2. \A x, y, z :
        LET r == [env EXCEPT !.args = x, !.actionArgs = y, !.scanPaths = z]
        IN  /\ r.args = x /\ r.actionArgs = y /\ r.scanPaths = z
            /\ r.action = env.action /\ r.unsafe = env.unsafe
            /\ r.timeout = env.timeout /\ r.interval = env.interval
  BY DEF Environments
<1>3. Raw = [env EXCEPT !.args = Spell(env.args), !.actionArgs = Spell(env.actionArgs),
                        !.scanPaths = Spell(env.scanPaths)]
  BY DEF Raw, Environments
<1> QED
  BY <1>1, <1>2, <1>3

\* The fields of the configuration.
LEMMA ConfigIs ==
  ASSUME NEW raw
  PROVE  /\ loadConfig(raw).mode = parseInterval(raw.interval)
         /\ loadConfig(raw).timeout = loadScanTimeout(raw.timeout)
         /\ loadConfig(raw).action = parseAction(raw.action)
         /\ loadConfig(raw).args = raw.args /\ loadConfig(raw).actionArgs = raw.actionArgs
         /\ loadConfig(raw).scanPaths = ScanPaths(raw)
BY DEF loadConfig

\* An accepted configuration has a mode, a timeout and an action the code knows.
LEMMA ConfigType ==
  ASSUME env \in Environments, ConfigAccepted(Raw)
  PROVE  LET c == loadConfig(Raw)
         IN  /\ c.mode \in {"builtin", "external", "once"} /\ c.timeout \in {"zero", "positive"}
             /\ c.action \in Actions
BY RawIs, ConfigIs DEF ConfigAccepted, TimeoutAccepted, loadScanTimeout, parseInterval, Durations

\* What an accepted argument string went through.
LEMMA Accepted ==
  ASSUME NEW raw, ConfigAccepted(raw)
  PROVE  /\ \A r \in {raw.args, raw.actionArgs, ScanPaths(raw)} :
              Parse(r).ok /\ (~raw.unsafe => ~Mentions(r, DangerousFlags))
         /\ ~Mentions(raw.args, OwnedFlags)
         /\ rejectPositionalArgs(raw.args) /\ rejectPositionalArgs(raw.actionArgs)
BY DEF ConfigAccepted, validateArgEnvs, rejectDangerousArgs, rejectWrapperOwnedArgs, parseArgString

\* Nothing at all parses, to no token.
LEMMA ParseNothing == Parse(<<>>).ok
<1>1. Steps(Start, <<>>) = Start /\ Start.quote = "none" /\ ~Start.escaped
  BY StartBetween, StepsEmpty DEF Between
<1> QED
  BY <1>1 DEF Parse

\* The tokens of an accepted configuration are the words that were meant.
LEMMA AcceptedWords ==
  ASSUME env \in Environments, ConfigAccepted(Raw)
  PROVE  LET paths == IF Spell(env.scanPaths) = <<>> THEN <<<<"path">>>>
                      ELSE NonEmpty(env.scanPaths.words)
         IN  /\ ~env.args.cut /\ ~env.actionArgs.cut /\ ~env.scanPaths.cut
             /\ Parse(Raw.args).args = NonEmpty(env.args.words)
             /\ Parse(Raw.actionArgs).args = NonEmpty(env.actionArgs.words)
             /\ Parse(ScanPaths(Raw)).args = paths
<1>1. /\ env.args \in ArgValues /\ env.actionArgs \in ArgValues /\ env.scanPaths \in ArgValues
      /\ Raw.args = Spell(env.args) /\ Raw.actionArgs = Spell(env.actionArgs)
      /\ Raw.scanPaths = Spell(env.scanPaths)
  BY RawIs
<1>2. Parse(Spell(env.args)).ok /\ Parse(Spell(env.actionArgs)).ok /\ Parse(ScanPaths(Raw)).ok
  BY <1>1, Accepted
<1>3. ~env.args.cut /\ Parse(Spell(env.args)).args = NonEmpty(env.args.words)
  BY <1>1, <1>2, ParseValue
<1>4. ~env.actionArgs.cut /\ Parse(Spell(env.actionArgs)).args = NonEmpty(env.actionArgs.words)
  BY <1>1, <1>2, ParseValue
<1>5. CASE Spell(env.scanPaths) = <<>>
  <2>1. ScanPaths(Raw) = <<"path">>
    BY <1>1, <1>5 DEF ScanPaths
  <2>2. ~env.scanPaths.cut
    BY <1>1, <1>5, ParseNothing, ParseValue
  <2> QED
    BY <1>1, <1>3, <1>4, <1>5, <2>1, <2>2, ParseDefaultPath
<1>6. CASE Spell(env.scanPaths) # <<>>
  <2>1. ScanPaths(Raw) = Spell(env.scanPaths)
    BY <1>1, <1>6 DEF ScanPaths
  <2>2. ~env.scanPaths.cut /\ Parse(Spell(env.scanPaths)).args = NonEmpty(env.scanPaths.words)
    BY <1>1, <1>2, <2>1, ParseValue
  <2> QED
    BY <1>1, <1>3, <1>4, <1>6, <2>1, <2>2
<1> QED
  BY <1>5, <1>6

(***************************************************************************)
(* THE INDUCTIVE INVARIANT.                                                *)
(***************************************************************************)

\* Past loadConfig the configuration is the accepted environment's,
ConfigKept ==
  main \in {"verify", "ready", "scan", "act"} => ConfigAccepted(Raw) /\ cfg = loadConfig(Raw)

\* the command lines are made of it,
CommandsBuilt ==
  /\ scanArgv = IF main \in {"scan", "act"} THEN buildScanArgs(cfg) ELSE <<>>
  /\ actionArgv = IF main = "act" THEN buildActionArgs(cfg) ELSE <<>>

\* and the directory was written to before the container started.
ProbeKept ==
  /\ probe \in {"off", "mkdir", "create", "remove", "ok", "failed"}
  /\ testFile \in BOOLEAN /\ denied \in BOOLEAN
  /\ probe = "ok" => (testFile => denied)
  /\ main \in {"ready", "scan", "act"} => probe = "ok"

IndInv ==
  /\ env \in Settings
  /\ main \in {"load", "verify", "refused", "exited", "ready", "scan", "act"}
  /\ ConfigKept /\ CommandsBuilt /\ ProbeKept

\* It holds at the start,
LEMMA Initially == Init => IndInv
BY DEF Init, IndInv, ConfigKept, CommandsBuilt, ProbeKept

\* no step of main or of the probe breaks it,
LEMMA Preserved == IndInv /\ [Next]_vars => IndInv'
<1> SUFFICES ASSUME IndInv, [Next]_vars PROVE IndInv'
  OBVIOUS
<1> USE DEF IndInv
<1>0. env' = env => Raw' = Raw
  BY DEF Raw
<1>1. CASE Load
  <2>1. CASE ConfigAccepted(Raw)
    <3>1. /\ main = "load" /\ main' = "verify" /\ cfg' = loadConfig(Raw) /\ probe' = "mkdir"
          /\ UNCHANGED <<env, testFile, denied, scanArgv, actionArgv>>
      BY <1>1, <2>1 DEF Load
    <3> QED
      BY <1>0, <2>1, <3>1 DEF ConfigKept, CommandsBuilt, ProbeKept
  <2>2. CASE ~ConfigAccepted(Raw)
    <3>1. /\ main = "load" /\ main' = "refused"
          /\ UNCHANGED <<env, cfg, probe, testFile, denied, scanArgv, actionArgv>>
      BY <1>1, <2>2 DEF Load
    <3> QED
      BY <3>1 DEF ConfigKept, CommandsBuilt, ProbeKept
  <2> QED
    BY <2>1, <2>2
<1>2. CASE VerifyDone
  BY <1>0, <1>2 DEF VerifyDone, ConfigKept, CommandsBuilt, ProbeKept
<1>3. CASE VerifyTimeout
  BY <1>3 DEF VerifyTimeout, ConfigKept, CommandsBuilt, ProbeKept
<1>4. CASE Exit
  BY <1>4 DEF Exit, ConfigKept, CommandsBuilt, ProbeKept
<1>5. CASE BuildScan
  BY <1>0, <1>5 DEF BuildScan, ConfigKept, CommandsBuilt, ProbeKept
<1>6. CASE BuildAction
  BY <1>0, <1>6 DEF BuildAction, ConfigKept, CommandsBuilt, ProbeKept
<1>7. CASE Mkdir
  BY <1>0, <1>7 DEF Mkdir, ProbeRuns, ConfigKept, CommandsBuilt, ProbeKept
<1>8. CASE Create
  BY <1>0, <1>8 DEF Create, ProbeRuns, ConfigKept, CommandsBuilt, ProbeKept
<1>9. CASE RemoveTest
  BY <1>0, <1>9 DEF RemoveTest, ProbeRuns, ConfigKept, CommandsBuilt, ProbeKept
<1>10. CASE UNCHANGED vars
  BY <1>0, <1>10 DEF vars, ConfigKept, CommandsBuilt, ProbeKept
<1> QED
  BY <1>1, <1>2, <1>3, <1>4, <1>5, <1>6, <1>7, <1>8, <1>9, <1>10 DEF Next, MainStep

\* so it always holds.
LEMMA Invariant == Spec => []IndInv
BY Initially, Preserved, PTL DEF Spec

\* With the assumption on the settings, what a state knows of its environment.
LEMMA StartedConfig ==
  ASSUME IndInv
  PROVE  /\ env \in Environments
         /\ main \in {"verify", "ready", "scan", "act"} => ConfigAccepted(Raw) /\ cfg = loadConfig(Raw)
BY SettingsAssumption DEF IndInv, ConfigKept

(***************************************************************************)
(* THE THEOREMS.                                                           *)
(***************************************************************************)

\* Control points and configuration keep their types: past loadConfig the mode, the
\* timeout and the action are ones the code has cases for (main.go bootstrap).
THEOREM TypeCorrect == Spec => []TypeOK
<1>1. IndInv => TypeOK
  <2> SUFFICES ASSUME IndInv PROVE TypeOK
    OBVIOUS
  <2>1. main \notin {"load", "refused", "exited"} =>
          /\ cfg.mode \in {"builtin", "external", "once"}
          /\ cfg.timeout \in {"zero", "positive"}
          /\ cfg.action \in Actions
    <3>1. main \notin {"load", "refused", "exited"} => main \in {"verify", "ready", "scan", "act"}
      BY DEF IndInv
    <3> QED
      BY <3>1, StartedConfig, ConfigType
  <2> QED
    BY <2>1 DEF TypeOK, IndInv, ProbeKept
<1> QED
  BY <1>1, Invariant, PTL

\* Whatever verifyDirWithProbe's timer does, a container that starts has written to the
\* cache directory, and leaves its test file only where it may not remove it.
THEOREM StartsOnWritable == Spec => []StartedMeansWritable
<1>1. IndInv => StartedMeansWritable
  BY DEF IndInv, ProbeKept, StartedMeansWritable, Started
<1> QED
  BY <1>1, Invariant, PTL

\* The health probe, which reads the environment by itself, arms its deadline exactly
\* for a container with a built-in schedule and a bounded phase.
THEOREM ProbeFollowsMode == Spec => []ProbeAgrees
<1>1. IndInv => ProbeAgrees
  <2> SUFFICES ASSUME IndInv, Started PROVE probeOptions(Raw) <=> cfg.mode = "builtin" /\ cfg.timeout = "positive"
    BY DEF ProbeAgrees
  <2>1. ConfigAccepted(Raw) /\ cfg = loadConfig(Raw)
    BY StartedConfig DEF Started
  <2>2. cfg.mode = parseInterval(Raw.interval) /\ cfg.timeout = loadScanTimeout(Raw.timeout)
    BY <2>1, ConfigIs
  <2>3. TimeoutAccepted(Raw.timeout)
    BY <2>1 DEF ConfigAccepted
  <2> QED
    BY <2>2, <2>3 DEF TimeoutAccepted, loadScanTimeout, probeOptions
<1> QED
  BY <1>1, Invariant, PTL

\* In every environment fclones runs with the words that were meant, whichever quoting
\* style they were written in; a value with an open quote does not get past loadConfig.
THEOREM CommandIsAsWritten == Spec => []CommandAsWritten
<1>1. IndInv => CommandAsWritten
  <2> SUFFICES ASSUME IndInv PROVE CommandAsWritten
    OBVIOUS
  <2>1. env \in Environments
    BY StartedConfig
  <2>2. CASE ~Started
    BY <2>2 DEF CommandAsWritten, Started
  <2>3. CASE Started
    <3>1. ConfigAccepted(Raw) /\ cfg = loadConfig(Raw)
      BY <2>3, StartedConfig DEF Started
    <3>2. PICK paths : paths = IF Spell(env.scanPaths) = <<>> THEN <<<<"path">>>>
                               ELSE NonEmpty(env.scanPaths.words)
      OBVIOUS
    <3>3. /\ ~env.args.cut /\ ~env.actionArgs.cut /\ ~env.scanPaths.cut
          /\ Parse(Raw.args).args = NonEmpty(env.args.words)
          /\ Parse(Raw.actionArgs).args = NonEmpty(env.actionArgs.words)
          /\ Parse(ScanPaths(Raw)).args = paths
      BY <2>1, <3>1, <3>2, AcceptedWords
    <3>4. /\ cfg.args = Raw.args /\ cfg.actionArgs = Raw.actionArgs
          /\ cfg.scanPaths = ScanPaths(Raw)
      BY <3>1, ConfigIs
    <3>5. main \in {"scan", "act"} =>
            scanArgv = <<<<"group">>>> \o paths \o NonEmpty(env.args.words) \o OwnTokens
      BY <3>3, <3>4 DEF IndInv, CommandsBuilt, buildScanArgs
    <3>6. main = "act" /\ cfg.action # "group" => Tail(actionArgv) = NonEmpty(env.actionArgs.words)
      <4> SUFFICES ASSUME main = "act", cfg.action # "group"
                   PROVE  Tail(actionArgv) = NonEmpty(env.actionArgs.words)
        OBVIOUS
      <4>1. actionArgv = <<<<cfg.action>>>> \o NonEmpty(env.actionArgs.words)
        BY <3>3, <3>4 DEF IndInv, CommandsBuilt, buildActionArgs
      <4>2. NonEmpty(env.actionArgs.words) \in Seq(Seq(Runes))
        <5>1. env.actionArgs.words \in Seq(Seq(Runes)) /\ <<>> \in Seq(Runes)
          BY <2>1, RawIs DEF ArgValues
        <5> QED
          BY <5>1, NonEmptyAppend
      <4>3. \A T : \A s \in Seq(T) : \A x : Tail(<<x>> \o s) = s
        OBVIOUS
      <4> QED
        BY <4>1, <4>2, <4>3
    <3> QED
      BY <3>2, <3>3, <3>5, <3>6 DEF CommandAsWritten
  <2> QED
    BY <2>2, <2>3
<1> QED
  BY <1>1, Invariant, PTL

\* Tokens of a command line none of which begins with a dangerous option.
Harmless(S, tokens) ==
  tokens \in Seq(S) /\ \A i \in DOMAIN tokens : Head(tokens[i]) \notin DangerousFlags

\* They stay harmless side by side.
LEMMA HarmlessConcat ==
  ASSUME NEW S, NEW s, NEW t, Harmless(S, s), Harmless(S, t)
  PROVE  Harmless(S, s \o t)
<1>1. s \in Seq(S) /\ t \in Seq(S)
  BY DEF Harmless
<1>2. /\ s \o t \in Seq(S) /\ Len(s \o t) = Len(s) + Len(t)
      /\ \A i \in 1..(Len(s) + Len(t)) :
           (s \o t)[i] = IF i <= Len(s) THEN s[i] ELSE t[i - Len(s)]
  BY <1>1, ConcatProperties
<1>3. DOMAIN s = 1..Len(s) /\ DOMAIN t = 1..Len(t) /\ Len(s) \in Nat /\ Len(t) \in Nat
  BY <1>1
<1>4. DOMAIN (s \o t) = 1..(Len(s) + Len(t))
  BY <1>2
<1>5. ASSUME NEW i \in 1..(Len(s) + Len(t)) PROVE Head((s \o t)[i]) \notin DangerousFlags
  <2>1. CASE i <= Len(s)
    <3>1. i \in DOMAIN s /\ (s \o t)[i] = s[i]
      BY <1>2, <1>3, <2>1
    <3> QED
      BY <3>1 DEF Harmless
  <2>2. CASE ~(i <= Len(s))
    <3>1. i - Len(s) \in DOMAIN t /\ (s \o t)[i] = t[i - Len(s)]
      BY <1>2, <1>3, <2>2
    <3> QED
      BY <3>1 DEF Harmless
  <2> QED
    BY <2>1, <2>2
<1> QED
  BY <1>2, <1>4, <1>5 DEF Harmless

\* All that a command line can be made of.
Tokens == Seq(Runes \union {"group", "link", "cache", "json"})

\* The words of a value are among them.
LEMMA TokensType ==
  ASSUME NEW s \in Seq(Seq(Runes))
  PROVE  s \in Seq(Tokens)
BY DEF Tokens

\* The wrapper's own words are harmless.
LEMMA OwnHarmless ==
  /\ Harmless(Tokens, <<<<"group">>>>) /\ Harmless(Tokens, <<<<"link">>>>)
  /\ Harmless(Tokens, OwnTokens) /\ Harmless(Tokens, <<>>)
<1>1. \A x : Head(<<x>>) = x
  OBVIOUS
<1>2. \A x \in Tokens : Head(x) \notin DangerousFlags => Harmless(Tokens, <<x>>)
  BY DEF Harmless
<1>3. \A r \in {"group", "link", "cache", "format", "json"} :
         <<r>> \in Tokens /\ Head(<<r>>) \notin DangerousFlags
  BY <1>1 DEF Tokens, Runes, Flags, OwnedFlags, DangerousFlags
<1>4. OwnTokens \in Seq(Tokens) /\ DOMAIN OwnTokens = 1..3
      /\ OwnTokens[1] = <<"cache">> /\ OwnTokens[2] = <<"format">> /\ OwnTokens[3] = <<"json">>
  BY <1>3 DEF OwnTokens
<1>5. \A i \in 1..3 : i = 1 \/ i = 2 \/ i = 3
  OBVIOUS
<1>6. Harmless(Tokens, OwnTokens)
  BY <1>3, <1>4, <1>5 DEF Harmless
<1>7. Harmless(Tokens, <<>>)
  BY DEF Harmless
<1> QED
  BY <1>2, <1>3, <1>6, <1>7

\* A string that does not mention a dangerous option.
LEMMA NotMentioned ==
  ASSUME NEW raw, Parse(raw).args \in Seq(Seq(Runes)), ~Mentions(raw, DangerousFlags)
  PROVE  Harmless(Tokens, Parse(raw).args)
BY TokensType DEF Mentions, Harmless

(***************************************************************************)
(* What the gates of validateArgEnvs let through keeps each variable's     *)
(* contract: no option of the wrapper's own in FCLONES_ARGS, no word       *)
(* without a flag right before it in FCLONES_ARGS or FCLONES_ACTION_ARGS,  *)
(* and in safe mode no dangerous option on a command line, whichever       *)
(* variable, FCLONES_SCAN_PATHS included, it was written in.               *)
(***************************************************************************)
THEOREM CommandKeepsContract == Spec => []CommandWithinContract
<1>1. IndInv => CommandWithinContract
  <2> SUFFICES ASSUME IndInv, Started PROVE CommandWithinContract
    BY DEF CommandWithinContract
  <2>1. env \in Environments /\ ConfigAccepted(Raw) /\ cfg = loadConfig(Raw)
    BY StartedConfig DEF Started
  <2>2. /\ Parse(Raw.args).args = NonEmpty(env.args.words)
        /\ Parse(Raw.actionArgs).args = NonEmpty(env.actionArgs.words)
        /\ Parse(ScanPaths(Raw)).args = IF Spell(env.scanPaths) = <<>> THEN <<<<"path">>>>
                                        ELSE NonEmpty(env.scanPaths.words)
    BY <2>1, AcceptedWords
  <2>3. /\ \A r \in {Raw.args, Raw.actionArgs, ScanPaths(Raw)} :
             Parse(r).ok /\ (~Raw.unsafe => ~Mentions(r, DangerousFlags))
        /\ ~Mentions(Raw.args, OwnedFlags)
        /\ rejectPositionalArgs(Raw.args) /\ rejectPositionalArgs(Raw.actionArgs)
    BY <2>1, Accepted
  <2>4. Raw.unsafe = env.unsafe
    BY <2>1, RawIs
  <2>5. PICK args : args = NonEmpty(env.args.words) /\ args = Parse(Raw.args).args
    BY <2>2
  <2>6. \A i \in DOMAIN args : Head(args[i]) \notin OwnedFlags
    BY <2>3, <2>5 DEF Mentions
  <2>7. FlagBeforeWord(args) /\ FlagBeforeWord(NonEmpty(env.actionArgs.words))
    BY <2>2, <2>3, <2>5 DEF FlagBeforeWord, rejectPositionalArgs
  <2>8. /\ Parse(Raw.args).args \in Seq(Seq(Runes)) /\ Parse(Raw.actionArgs).args \in Seq(Seq(Runes))
        /\ Parse(ScanPaths(Raw)).args \in Seq(Seq(Runes))
    <3>1. /\ env.args.words \in Seq(Seq(Runes)) /\ env.actionArgs.words \in Seq(Seq(Runes))
          /\ env.scanPaths.words \in Seq(Seq(Runes)) /\ <<>> \in Seq(Runes)
      BY <2>1, RawIs DEF ArgValues
    <3>2. \A ws \in Seq(Seq(Runes)) : NonEmpty(ws) \in Seq(Seq(Runes))
      BY <3>1, NonEmptyAppend
    <3>3. <<<<"path">>>> \in Seq(Seq(Runes))
      BY DEF Runes
    <3> QED
      BY <2>2, <3>1, <3>2, <3>3
  <2>9. ASSUME ~env.unsafe
        PROVE  /\ \A i \in DOMAIN scanArgv : Head(scanArgv[i]) \notin DangerousFlags
               /\ \A i \in DOMAIN actionArgv : Head(actionArgv[i]) \notin DangerousFlags
    <3>1. /\ Harmless(Tokens, Parse(Raw.args).args) /\ Harmless(Tokens, Parse(Raw.actionArgs).args)
          /\ Harmless(Tokens, Parse(ScanPaths(Raw)).args)
      BY <2>3, <2>4, <2>8, <2>9, NotMentioned
    <3>2. /\ cfg.args = Raw.args /\ cfg.actionArgs = Raw.actionArgs
          /\ cfg.scanPaths = ScanPaths(Raw) /\ cfg.action \in Actions
      BY <2>1, ConfigIs, ConfigType
    <3>3. Harmless(Tokens, buildScanArgs(cfg))
      <4>1. Harmless(Tokens, <<<<"group">>>> \o Parse(ScanPaths(Raw)).args)
        BY <3>1, OwnHarmless, HarmlessConcat
      <4>2. Harmless(Tokens, (<<<<"group">>>> \o Parse(ScanPaths(Raw)).args) \o Parse(Raw.args).args)
        BY <3>1, <4>1, HarmlessConcat
      <4>3. Harmless(Tokens, ((<<<<"group">>>> \o Parse(ScanPaths(Raw)).args) \o Parse(Raw.args).args) \o OwnTokens)
        BY <4>2, OwnHarmless, HarmlessConcat
      <4> QED
        BY <3>2, <4>3 DEF buildScanArgs
    <3>4. Harmless(Tokens, buildActionArgs(cfg))
      <4>1. CASE cfg.action = "group"
        BY <4>1, OwnHarmless DEF buildActionArgs
      <4>2. CASE cfg.action = "link"
        <5>1. Harmless(Tokens, <<<<"link">>>> \o Parse(Raw.actionArgs).args)
          BY <3>1, OwnHarmless, HarmlessConcat
        <5> QED
          BY <3>2, <4>2, <5>1 DEF buildActionArgs
      <4> QED
        BY <3>2, <4>1, <4>2 DEF Actions
    <3>5. Harmless(Tokens, scanArgv) /\ Harmless(Tokens, actionArgv)
      BY <3>3, <3>4, OwnHarmless DEF IndInv, CommandsBuilt
    <3> QED
      BY <3>5 DEF Harmless
  <2> QED
    BY <2>5, <2>6, <2>7, <2>9 DEF CommandWithinContract
<1> QED
  BY <1>1, Invariant, PTL
=============================================================================
