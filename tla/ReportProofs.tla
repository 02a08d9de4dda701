---------------------------- MODULE ReportProofs ----------------------------
(***************************************************************************)
(* Report's properties for documents of any length and all caps.  The      *)
(* document is only ever read at its end, so every fact about it (where    *)
(* its tokens stand, which of them are inside an array, what its groups    *)
(* and their pairs are) is carried from one token to the next and needs no *)
(* induction of its own; what FlattenSeq and Total compute comes from      *)
(* DataLemmas.                                                             *)
(***************************************************************************)
EXTENDS Report, DataLemmas, FiniteSetTheorems, TLAPS

(***************************************************************************)
(* THE DOCUMENT.                                                           *)
(***************************************************************************)

\* All tokens a document is made of.
Tokens ==
  HeaderTokens \union GroupTokens
    \union {Token(kind) : kind \in {"unknown", "[", "]", "}", "junk", "eof"}}

\* Only the groups are called groups, only the headers headers.
LEMMA TokenKinds ==
  ASSUME NEW t \in Tokens
  PROVE  /\ t.kind = "group" <=> t \in GroupTokens
         /\ t.kind = "header" <=> t \in HeaderTokens
<1>1. t \in GroupTokens => t.kind = "group"
  BY DEF GroupTokens
<1>2. t \in HeaderTokens => t.kind = "header"
  BY DEF HeaderTokens
<1>3. t \notin HeaderTokens \union GroupTokens => t.kind \in {"unknown", "[", "]", "}", "junk", "eof"}
  <2> SUFFICES ASSUME t \notin HeaderTokens \union GroupTokens
               PROVE  t.kind \in {"unknown", "[", "]", "}", "junk", "eof"}
    OBVIOUS
  <2>1. PICK kind \in {"unknown", "[", "]", "}", "junk", "eof"} : t = [kind |-> kind]
    BY DEF Tokens, Token
  <2> QED
    BY <2>1
<1> QED
  BY <1>1, <1>2, <1>3

\* The tokens the decoder's actions read.
LEMMA TokenTypes ==
  /\ HeaderTokens \subseteq Tokens /\ GroupTokens \subseteq Tokens
  /\ \A kind \in {"unknown", "[", "]", "}", "junk", "eof"} :
       Token(kind) \in Tokens /\ Token(kind).kind = kind
BY DEF Tokens, Token

\* A read token is at the end of the document, all else is where it was.
LEMMA ReadIs ==
  ASSUME doc \in Seq(Tokens), NEW t \in Tokens, Read(t)
  PROVE  /\ doc' \in Seq(Tokens) /\ Len(doc) \in Nat /\ Len(doc') = Len(doc) + 1
         /\ doc'[Len(doc) + 1] = t /\ \A i \in 1..Len(doc) : doc'[i] = doc[i]
         /\ DOMAIN doc = 1..Len(doc) /\ DOMAIN doc' = 1..(Len(doc) + 1)
<1>1. doc' = Append(doc, t)
  BY DEF Read
<1>2. /\ Append(doc, t) \in Seq(Tokens) /\ Len(Append(doc, t)) = Len(doc) + 1
      /\ Append(doc, t)[Len(doc) + 1] = t /\ \A i \in 1..Len(doc) : Append(doc, t)[i] = doc[i]
  BY AppendProperties
<1>3. Len(doc) \in Nat /\ DOMAIN doc = 1..Len(doc)
  OBVIOUS
<1>4. doc' \in Seq(Tokens) => DOMAIN doc' = 1..Len(doc')
  OBVIOUS
<1> QED
  BY <1>1, <1>2, <1>3, <1>4

\* It has the last place of its kind.
LEMMA PlacesRead ==
  ASSUME doc \in Seq(Tokens), NEW t \in Tokens, Read(t)
  PROVE  \A k : Places(k)' = IF t.kind = k THEN Places(k) \union {Len(doc) + 1} ELSE Places(k)
<1>1. /\ Len(doc) \in Nat /\ doc'[Len(doc) + 1] = t /\ \A i \in 1..Len(doc) : doc'[i] = doc[i]
      /\ DOMAIN doc = 1..Len(doc) /\ DOMAIN doc' = 1..(Len(doc) + 1)
  BY ReadIs
<1>2. PICK n \in Nat : n = Len(doc)
  BY <1>1
<1>3. \A i : i \in 1..(n + 1) <=> i = n + 1 \/ i \in 1..n
  OBVIOUS
<1>4. ASSUME NEW k
      PROVE  {i \in DOMAIN doc' : doc'[i].kind = k} =
               IF t.kind = k THEN {i \in DOMAIN doc : doc[i].kind = k} \union {n + 1}
               ELSE {i \in DOMAIN doc : doc[i].kind = k}
  BY <1>1, <1>2, <1>3
<1> QED
  BY <1>2, <1>4 DEF Places

\* Places are places of the document.
LEMMA PlacesFinite ==
  ASSUME doc \in Seq(Tokens), NEW k
  PROVE  /\ Places(k) \subseteq 1..Len(doc) /\ IsFiniteSet(Places(k))
         /\ Cardinality(Places(k)) \in Nat
<1>1. Places(k) \subseteq 1..Len(doc) /\ Len(doc) \in Nat
  BY DEF Places
<1>2. IsFiniteSet(1..Len(doc))
  BY <1>1, FS_Interval
<1>3. IsFiniteSet(Places(k))
  BY <1>1, <1>2, FS_Subset
<1> QED
  BY <1>1, <1>3, FS_CardinalityType

\* Reading counts.
LEMMA CountRead ==
  ASSUME doc \in Seq(Tokens), NEW t \in Tokens, Read(t), NEW k
  PROVE  Cardinality(Places(k)') =
           IF t.kind = k THEN Cardinality(Places(k)) + 1 ELSE Cardinality(Places(k))
<1>1. Places(k)' = IF t.kind = k THEN Places(k) \union {Len(doc) + 1} ELSE Places(k)
  BY PlacesRead
<1>2. Places(k) \subseteq 1..Len(doc) /\ IsFiniteSet(Places(k)) /\ Len(doc) \in Nat
  BY PlacesFinite
<1>3. Len(doc) + 1 \notin Places(k)
  BY <1>2
<1>4. Cardinality(Places(k) \union {Len(doc) + 1}) = Cardinality(Places(k)) + 1
  BY <1>2, <1>3, FS_AddElement
<1> QED
  BY <1>1, <1>4

\* What stood before a token still does, and all stands before the new one.
LEMMA BeforeRead ==
  ASSUME doc \in Seq(Tokens), NEW t \in Tokens, Read(t), NEW k
  PROVE  /\ \A i \in 1..Len(doc) : Before(k, i)' = Before(k, i)
         /\ \A i : i = Len(doc) + 1 => Before(k, i)' = Places(k)
<1>1. Places(k)' = IF t.kind = k THEN Places(k) \union {Len(doc) + 1} ELSE Places(k)
  BY PlacesRead
<1>2. Places(k) \subseteq 1..Len(doc) /\ Len(doc) \in Nat
  BY PlacesFinite
<1>3. ASSUME NEW i \in 1..(Len(doc) + 1)
      PROVE  {j \in Places(k)' : j < i} = {j \in Places(k) : j < i}
  <2>1. ~(Len(doc) + 1 < i)
    BY <1>2
  <2> QED
    BY <1>1, <2>1
<1>4. ASSUME NEW i \in 1..Len(doc) PROVE Before(k, i)' = Before(k, i)
  <2>1. i \in 1..(Len(doc) + 1)
    BY <1>2
  <2> QED
    BY <1>3, <2>1 DEF Before
<1>5. ASSUME NEW i, i = Len(doc) + 1 PROVE Before(k, i)' = Places(k)
  <2>1. i \in 1..(Len(doc) + 1)
    BY <1>2, <1>5
  <2>2. {j \in Places(k) : j < i} = Places(k)
    BY <1>2, <1>5
  <2>3. {j \in Places(k)' : j < i} = Places(k)
    BY <1>3, <2>1, <2>2
  <2> QED
    BY <2>3 DEF Before
<1> QED
  BY <1>4, <1>5

\* The groups of the document are groups, and a read group is the last of them.
LEMMA GroupsRead ==
  ASSUME doc \in Seq(Tokens)
  PROVE  /\ DocGroups \in Seq(GroupTokens)
         /\ \A t \in Tokens : Read(t) =>
              DocGroups' = IF t.kind = "group" THEN Append(DocGroups, t) ELSE DocGroups
<1> DEFINE g == [x \in Tokens |-> IF x.kind = "group" THEN <<x>> ELSE <<>>]
           F(v) == FlattenSeq([i \in DOMAIN v |-> IF v[i].kind = "group" THEN <<v[i]>> ELSE <<>>])
<1>1. Maps(g, Tokens, GroupTokens)
  <2>1. \A x \in Tokens : g[x] \in Seq(GroupTokens)
    BY TokenKinds
  <2> QED
    BY <2>1 DEF Maps
<1>2. ASSUME NEW v \in Seq(Tokens) PROVE F(v) = Mapped(g, v)
  <2>1. DOMAIN v = 1..Len(v) /\ \A i \in 1..Len(v) : v[i] \in Tokens
    OBVIOUS
  <2>2. [i \in DOMAIN v |-> IF v[i].kind = "group" THEN <<v[i]>> ELSE <<>>] = [i \in DOMAIN v |-> g[v[i]]]
    BY <2>1
  <2> QED
    BY <2>2 DEF Mapped
<1>3. DocGroups = F(doc) /\ DocGroups' = F(doc')
  BY DEF DocGroups
<1>4. \A x \in Tokens : g[x] = IF x.kind = "group" THEN <<x>> ELSE <<>>
  OBVIOUS
<1> HIDE DEF g, F
<1>5. Mapped(g, doc) \in Seq(GroupTokens)
  BY <1>1, MappedType
<1>6. ASSUME NEW t \in Tokens, Read(t)
      PROVE  DocGroups' = IF t.kind = "group" THEN Append(DocGroups, t) ELSE DocGroups
  <2>1. doc' = Append(doc, t) /\ doc' \in Seq(Tokens)
    BY <1>6, ReadIs DEF Read
  <2>2. Mapped(g, Append(doc, t)) = Mapped(g, doc) \o g[t]
    BY <1>1, MappedAppend
  <2>3. PICK a \in Seq(GroupTokens) : a = Mapped(g, doc) /\ DocGroups = a
    BY <1>2, <1>3, <1>5
  <2>4. DocGroups' = a \o g[t]
    BY <1>2, <1>3, <2>1, <2>2, <2>3
  <2>5. a \o <<>> = a /\ (t \in GroupTokens => a \o <<t>> = Append(a, t))
    OBVIOUS
  <2> QED
    BY <1>4, <2>3, <2>4, <2>5, TokenKinds
<1> QED
  BY <1>2, <1>3, <1>5, <1>6

(***************************************************************************)
(* THE STRICTNESS CONTRACT.                                                *)
(***************************************************************************)

\* More groups arrays were opened than closed before a place.
Inside(i) == Cardinality(Before("[", i)) > Cardinality(Before("]", i))

\* The tokens so far are the beginning of a report,
ShapeSoFar ==
  /\ Places("junk") = {} /\ Places("eof") = {}
  /\ Places("}") = IF at = "closed" THEN {Len(doc)} ELSE {}
  /\ at = "groups" => Cardinality(Places("[")) = Cardinality(Places("]")) + 1
  /\ at # "groups" => Cardinality(Places("[")) = Cardinality(Places("]"))
  /\ \A i \in DOMAIN doc : Inside(i) <=> doc[i].kind \in {"group", "]"}

\* and the decoder's variables tell what they mean.
MeaningSoFar ==
  /\ header <=> Places("header") # {}
  /\ header => stats = doc[Max(Places("header"))].stats
  /\ groupsSeen <=> Places("[") # {}
  /\ totalGroups = Cardinality(Places("group"))
  /\ \A i \in Places("group") : doc[i].files >= 2 /\ ~doc[i].negative

\* Both hold while the document is read; how it ended is the contract.
StrictInv ==
  /\ doc \in Seq(Tokens)
  /\ at \in {"object", "groups", "closed", "refused", "log", "summary", "done"}
  /\ Reading => ShapeSoFar /\ MeaningSoFar
  /\ StrictContract

\* A read token is inside if the last array is open.
LEMMA InsideRead ==
  ASSUME doc \in Seq(Tokens), NEW t \in Tokens, Read(t)
  PROVE  /\ \A i \in 1..Len(doc) : Inside(i)' <=> Inside(i)
         /\ \A i : i = Len(doc) + 1 =>
              (Inside(i)' <=> Cardinality(Places("[")) > Cardinality(Places("]")))
<1>1. /\ \A i \in 1..Len(doc) : Before("[", i)' = Before("[", i)
      /\ \A i : i = Len(doc) + 1 => Before("[", i)' = Places("[")
  BY BeforeRead
<1>2. /\ \A i \in 1..Len(doc) : Before("]", i)' = Before("]", i)
      /\ \A i : i = Len(doc) + 1 => Before("]", i)' = Places("]")
  BY BeforeRead
<1> QED
  BY <1>1, <1>2 DEF Inside

\* While the report goes on, a token is inside if the array is open.
LEMMA LastInside ==
  ASSUME doc \in Seq(Tokens), NEW t \in Tokens, Read(t), ShapeSoFar
  PROVE  \A i : i = Len(doc) + 1 => (Inside(i)' <=> at = "groups")
<1>1. Cardinality(Places("[")) \in Nat /\ Cardinality(Places("]")) \in Nat
  BY PlacesFinite
<1>2. Cardinality(Places("[")) > Cardinality(Places("]")) <=> at = "groups"
  <2>1. PICK a \in Nat, b \in Nat : a = Cardinality(Places("[")) /\ b = Cardinality(Places("]"))
    BY <1>1
  <2>2. (at = "groups" => a = b + 1) /\ (at # "groups" => a = b)
    BY <2>1 DEF ShapeSoFar
  <2>3. a > b <=> at = "groups"
    BY <2>2
  <2> QED
    BY <2>1, <2>3
<1> QED
  BY <1>2, InsideRead

\* A token in its place keeps the brackets right.
LEMMA BracketsRead ==
  ASSUME doc \in Seq(Tokens), NEW t \in Tokens, Read(t), ShapeSoFar,
         t.kind \in {"group", "]"} <=> at = "groups"
  PROVE  \A i \in DOMAIN doc' : Inside(i)' <=> doc'[i].kind \in {"group", "]"}
<1>1. /\ Len(doc) \in Nat /\ doc'[Len(doc) + 1] = t /\ \A i \in 1..Len(doc) : doc'[i] = doc[i]
      /\ DOMAIN doc = 1..Len(doc) /\ DOMAIN doc' = 1..(Len(doc) + 1)
  BY ReadIs
<1> SUFFICES ASSUME NEW i \in DOMAIN doc' PROVE Inside(i)' <=> doc'[i].kind \in {"group", "]"}
  OBVIOUS
<1>2. i = Len(doc) + 1 \/ i \in 1..Len(doc)
  BY <1>1
<1>3. CASE i = Len(doc) + 1
  BY <1>1, <1>3, LastInside
<1>4. CASE i \in 1..Len(doc)
  <2>1. Inside(i)' <=> Inside(i)
    BY <1>4, InsideRead
  <2>2. Inside(i) <=> doc[i].kind \in {"group", "]"}
    BY <1>1, <1>4 DEF ShapeSoFar
  <2> QED
    BY <1>1, <1>4, <2>1, <2>2
<1> QED
  BY <1>2, <1>3, <1>4

\* The last header, if there is one.
LEMMA LastHeader ==
  ASSUME doc \in Seq(Tokens), Places("header") # {}
  PROVE  Max(Places("header")) \in Places("header")
<1>1. Places("header") \subseteq 1..Len(doc) /\ Len(doc) \in Nat
  BY PlacesFinite
<1>2. Places("header") \subseteq 0..Len(doc) /\ Places("header") \subseteq Nat
  BY <1>1
<1>3. PICK x \in Places("header") : \A y \in Places("header") : y <= x
  BY <1>1, <1>2, GreatestNatural
<1>4. Max(Places("header")) = x
  BY <1>2, <1>3, MaxIs
<1> QED
  BY <1>4

\* A token that is no header leaves the last one what it was.
LEMMA HeaderStays ==
  ASSUME doc \in Seq(Tokens), NEW t \in Tokens, Read(t), t.kind # "header",
         Places("header") # {}
  PROVE  doc'[Max(Places("header")')] = doc[Max(Places("header"))]
<1>1. Places("header")' = Places("header")
  BY PlacesRead
<1>2. Max(Places("header")) \in 1..Len(doc)
  BY LastHeader, PlacesFinite
<1>3. \A i \in 1..Len(doc) : doc'[i] = doc[i]
  BY ReadIs
<1> QED
  BY <1>1, <1>2, <1>3

\* A read header is the last one.
LEMMA HeaderRead ==
  ASSUME doc \in Seq(Tokens), NEW t \in Tokens, Read(t), t.kind = "header"
  PROVE  doc'[Max(Places("header")')] = t
<1>1. Places("header")' = Places("header") \union {Len(doc) + 1}
  BY PlacesRead
<1>2. Places("header") \subseteq 1..Len(doc) /\ Len(doc) \in Nat
  BY PlacesFinite
<1>3. PICK n \in Nat, T \in SUBSET Nat : n = Len(doc) + 1 /\ T = Places("header")'
  <2>1. Places("header")' \subseteq Nat
    BY <1>1, <1>2
  <2> QED
    BY <1>2, <2>1
<1>4. T \subseteq Nat /\ n \in T /\ \A y \in T : y <= n
  BY <1>1, <1>2, <1>3
<1>5. Max(T) = n
  BY <1>4, MaxIs
<1>6. doc'[Len(doc) + 1] = t
  BY ReadIs
<1> QED
  BY <1>3, <1>5, <1>6

\* A token that is no group leaves the groups what they were.
LEMMA GroupsStay ==
  ASSUME doc \in Seq(Tokens), NEW t \in Tokens, Read(t),
         \A i \in Places("group") : doc[i].files >= 2 /\ ~doc[i].negative,
         t.kind = "group" => t.files >= 2 /\ ~t.negative
  PROVE  \A i \in Places("group")' : doc'[i].files >= 2 /\ ~doc'[i].negative
<1>1. Places("group")' = IF t.kind = "group" THEN Places("group") \union {Len(doc) + 1} ELSE Places("group")
  BY PlacesRead
<1>2. Places("group") \subseteq 1..Len(doc)
  BY PlacesFinite
<1>3. doc'[Len(doc) + 1] = t /\ \A i \in 1..Len(doc) : doc'[i] = doc[i]
  BY ReadIs
<1> QED
  BY <1>1, <1>2, <1>3

\* A token in its place: the report goes on.
LEMMA GoesOn ==
  ASSUME doc \in Seq(Tokens), Reading, ShapeSoFar, NEW t \in Tokens, Read(t),
         t.kind \in {"group", "]"} <=> at = "groups", t.kind \notin {"junk", "eof"},
         at # "closed", at' \in {"object", "groups", "closed"},
         at' = "closed" <=> t.kind = "}",
         at' = "groups" <=> t.kind \in {"[", "group"}
  PROVE  ShapeSoFar'
<1>1. \A k : Places(k)' = IF t.kind = k THEN Places(k) \union {Len(doc) + 1} ELSE Places(k)
  BY PlacesRead
<1>2. Places("junk")' = {} /\ Places("eof")' = {}
  BY <1>1 DEF ShapeSoFar
<1>3. Len(doc') = Len(doc) + 1
  BY ReadIs
<1>4. Places("}")' = IF at' = "closed" THEN {Len(doc')} ELSE {}
  BY <1>1, <1>3 DEF ShapeSoFar
<1>5. /\ Cardinality(Places("[")') =
           IF t.kind = "[" THEN Cardinality(Places("[")) + 1 ELSE Cardinality(Places("["))
      /\ Cardinality(Places("]")') =
           IF t.kind = "]" THEN Cardinality(Places("]")) + 1 ELSE Cardinality(Places("]"))
  BY CountRead
<1>6. Cardinality(Places("[")) \in Nat /\ Cardinality(Places("]")) \in Nat
  BY PlacesFinite
<1>7. /\ at = "groups" => Cardinality(Places("[")) = Cardinality(Places("]")) + 1
      /\ at # "groups" => Cardinality(Places("[")) = Cardinality(Places("]"))
  BY DEF ShapeSoFar
<1>8. PICK a \in Nat, b \in Nat : a = Cardinality(Places("[")) /\ b = Cardinality(Places("]"))
  BY <1>6
<1>9. /\ at' = "groups" => Cardinality(Places("[")') = Cardinality(Places("]")') + 1
      /\ at' # "groups" => Cardinality(Places("[")') = Cardinality(Places("]")')
  <2>1. CASE t.kind = "["
    BY <1>5, <1>7, <1>8, <2>1
  <2>2. CASE t.kind = "]"
    BY <1>5, <1>7, <1>8, <2>2
  <2>3. CASE t.kind \notin {"[", "]"}
    <3>1. Cardinality(Places("[")') = a /\ Cardinality(Places("]")') = b
      BY <1>5, <1>8, <2>3
    <3>2. at' = "groups" <=> at = "groups"
      BY <2>3
    <3> QED
      BY <1>7, <1>8, <3>1, <3>2
  <2> QED
    BY <2>1, <2>2, <2>3
<1>10. \A i \in DOMAIN doc' : Inside(i)' <=> doc'[i].kind \in {"group", "]"}
  BY BracketsRead
<1> QED
  BY <1>2, <1>4, <1>9, <1>10 DEF ShapeSoFar

\* A token that is no header keeps the decoder's variables true.
LEMMA MeaningStays ==
  ASSUME doc \in Seq(Tokens), MeaningSoFar, NEW t \in Tokens, Read(t), t.kind # "header",
         header' = header, stats' = stats, groupsSeen' <=> groupsSeen \/ t.kind = "[",
         totalGroups' = IF t.kind = "group" THEN totalGroups + 1 ELSE totalGroups,
         t.kind = "group" => t.files >= 2 /\ ~t.negative
  PROVE  MeaningSoFar'
<1>1. \A k : Places(k)' = IF t.kind = k THEN Places(k) \union {Len(doc) + 1} ELSE Places(k)
  BY PlacesRead
<1>2. header' <=> Places("header")' # {}
  BY <1>1 DEF MeaningSoFar
<1>3. header' => stats' = doc'[Max(Places("header")')].stats
  BY HeaderStays DEF MeaningSoFar
<1>4. groupsSeen' <=> Places("[")' # {}
  BY <1>1 DEF MeaningSoFar
<1>5. totalGroups' = Cardinality(Places("group")')
  BY CountRead DEF MeaningSoFar
<1>6. \A i \in Places("group")' : doc'[i].files >= 2 /\ ~doc'[i].negative
  BY GroupsStay DEF MeaningSoFar
<1> QED
  BY <1>2, <1>3, <1>4, <1>5, <1>6 DEF MeaningSoFar

\* A header becomes the one that counts.
LEMMA MeaningHeader ==
  ASSUME doc \in Seq(Tokens), MeaningSoFar, NEW t \in Tokens, Read(t), t.kind = "header",
         header' = TRUE, stats' = t.stats, groupsSeen' = groupsSeen, totalGroups' = totalGroups
  PROVE  MeaningSoFar'
<1>1. \A k : Places(k)' = IF t.kind = k THEN Places(k) \union {Len(doc) + 1} ELSE Places(k)
  BY PlacesRead
<1>2. Places("header")' # {}
  BY <1>1
<1>3. stats' = doc'[Max(Places("header")')].stats
  BY HeaderRead
<1>4. groupsSeen' <=> Places("[")' # {}
  BY <1>1 DEF MeaningSoFar
<1>5. totalGroups' = Cardinality(Places("group")')
  BY <1>1 DEF MeaningSoFar
<1>6. \A i \in Places("group")' : doc'[i].files >= 2 /\ ~doc'[i].negative
  BY GroupsStay DEF MeaningSoFar
<1> QED
  BY <1>2, <1>3, <1>4, <1>5, <1>6 DEF MeaningSoFar

\* A token out of its place, a group that is none or an early end: no report.
LEMMA BadIsNoReport ==
  ASSUME doc \in Seq(Tokens), ShapeSoFar, ReadBad
  PROVE  doc' \in Seq(Tokens) /\ ~(WellFormed' /\ Sound')
<1>0. Reading
  BY DEF ReadBad
<1>1. ASSUME NEW t \in Tokens, Read(t)
      PROVE  /\ doc' \in Seq(Tokens) /\ Len(doc) \in Nat /\ Len(doc') = Len(doc) + 1
             /\ DOMAIN doc' = 1..(Len(doc) + 1) /\ doc'[Len(doc) + 1] = t
             /\ \A k : Places(k)' = IF t.kind = k THEN Places(k) \union {Len(doc) + 1} ELSE Places(k)
             /\ \A i : i = Len(doc) + 1 => (Inside(i)' <=> at = "groups")
  BY <1>1, ReadIs, PlacesRead, LastInside
<1>2. CASE Read(Token("eof")) /\ at # "closed"
  <2>1. doc' \in Seq(Tokens) /\ Places("}")' = Places("}")
    BY <1>1, <1>2, TokenTypes
  <2>2. Places("}")' = {}
    BY <1>2, <2>1 DEF ShapeSoFar
  <2> QED
    BY <2>1, <2>2 DEF WellFormed
<1>3. CASE Read(Token("junk"))
  <2>1. doc' \in Seq(Tokens) /\ Places("junk")' = Places("junk") \union {Len(doc) + 1}
    BY <1>1, <1>3, TokenTypes
  <2> QED
    BY <2>1 DEF WellFormed
<1>4. CASE at # "groups" /\ Read(Token("]"))
  <2>1. /\ doc' \in Seq(Tokens) /\ Places("]")' = Places("]") \union {Len(doc) + 1}
        /\ \A i : i = Len(doc) + 1 => ~Inside(i)'
    BY <1>1, <1>4, TokenTypes
  <2> QED
    BY <2>1 DEF WellFormed, Inside
<1>5. CASE at # "object" /\ Read(Token("}"))
  <2>1. /\ doc' \in Seq(Tokens) /\ Places("}")' = Places("}") \union {Len(doc) + 1}
        /\ Places("group")' = Places("group") /\ Places("]")' = Places("]")
        /\ \A i : i = Len(doc) + 1 => (Inside(i)' <=> at = "groups")
        /\ DOMAIN doc' = 1..(Len(doc) + 1) /\ Len(doc) \in Nat /\ Len(doc') = Len(doc) + 1
    BY <1>1, <1>5, TokenTypes
  <2>2. CASE at = "groups"
    <3>1. Places("group") \subseteq 1..Len(doc) /\ Places("]") \subseteq 1..Len(doc)
      BY PlacesFinite
    <3>2. PICK i \in DOMAIN doc' : i = Len(doc) + 1 /\ i \notin Places("group") \union Places("]")
      <4>1. \A n \in Nat : n + 1 \in 1..(n + 1) /\ n + 1 \notin 1..n
        OBVIOUS
      <4>2. Len(doc) + 1 \in DOMAIN doc' /\ Len(doc) + 1 \notin 1..Len(doc)
        BY <2>1, <4>1
      <4> QED
        BY <3>1, <4>2
    <3>3. Inside(i)'
      BY <2>1, <2>2, <3>2
    <3> QED
      BY <2>1, <3>2, <3>3 DEF WellFormed, Inside
  <2>3. CASE at = "closed"
    <3>1. Places("}")' = {Len(doc), Len(doc) + 1}
      BY <2>1, <2>3 DEF ShapeSoFar
    <3>2. Places("}")' # {Len(doc') - 1}
      <4>1. PICK n \in Nat : n = Len(doc) /\ n + 1 = Len(doc')
        BY <2>1
      <4>2. Len(doc') - 1 = Len(doc) /\ Len(doc) # Len(doc) + 1
        BY <4>1
      <4> QED
        BY <3>1, <4>2
    <3> QED
      BY <2>1, <3>2 DEF WellFormed
  <2> QED
    BY <1>0, <1>5, <2>2, <2>3 DEF Reading
<1>6. CASE \E t \in GroupTokens : ~Valid(t) /\ Read(t)
  <2>1. PICK t \in GroupTokens : ~Valid(t) /\ Read(t)
    BY <1>6
  <2>2. t \in Tokens /\ t.kind = "group"
    BY TokenTypes DEF GroupTokens
  <2>3. /\ doc' \in Seq(Tokens) /\ Places("group")' = Places("group") \union {Len(doc) + 1}
        /\ doc'[Len(doc) + 1] = t
    BY <1>1, <2>1, <2>2
  <2>4. ~(t.files >= 2 /\ ~t.negative)
    BY <2>1 DEF Valid
  <2> QED
    BY <2>3, <2>4 DEF Sound
<1> QED
  BY <1>2, <1>3, <1>4, <1>5, <1>6 DEF ReadBad

\* The end of a whole document: a report exactly if the counts agree.
LEMMA EndIsReport ==
  ASSUME doc \in Seq(Tokens), ShapeSoFar, MeaningSoFar, ReadEnd
  PROVE  doc' \in Seq(Tokens) /\ WellFormed' /\ (Sound' <=> Agrees)
<1>0. at = "closed" /\ Read(Token("eof")) /\ Token("eof") \in Tokens /\ Token("eof").kind = "eof"
  BY TokenTypes DEF ReadEnd
<1>1. PICK t \in Tokens : Read(t) /\ t.kind = "eof"
  BY <1>0
<1>2. /\ doc' \in Seq(Tokens) /\ Len(doc) \in Nat /\ Len(doc') = Len(doc) + 1
      /\ DOMAIN doc' = 1..(Len(doc) + 1) /\ doc'[Len(doc) + 1] = t
  BY <1>1, ReadIs
<1>3. \A k : Places(k)' = IF t.kind = k THEN Places(k) \union {Len(doc) + 1} ELSE Places(k)
  BY <1>1, PlacesRead
<1>4. WellFormed'
  <2>1. Places("junk")' = {} /\ Places("}")' = {Len(doc') - 1} /\ Places("eof")' = {Len(doc')}
    <3>1. \A n \in Nat : n + 1 - 1 = n
      OBVIOUS
    <3>2. Len(doc') - 1 = Len(doc)
      BY <1>2, <3>1
    <3>3. /\ Places("junk")' = Places("junk") /\ Places("}")' = Places("}")
          /\ Places("eof")' = Places("eof") \union {Len(doc) + 1}
      BY <1>1, <1>3
    <3>4. Places("junk") = {} /\ Places("}") = {Len(doc)} /\ Places("eof") = {}
      BY <1>0 DEF ShapeSoFar
    <3> QED
      BY <1>2, <3>2, <3>3, <3>4
  <2>2. \A i \in DOMAIN doc' : Inside(i)' <=> doc'[i].kind \in {"group", "]"}
    BY <1>0, <1>1, BracketsRead
  <2>3. \A i \in DOMAIN doc' : i \in Places("group")' \union Places("]")' <=> doc'[i].kind \in {"group", "]"}
    BY DEF Places
  <2>4. Places("group")' \union Places("]")' \subseteq DOMAIN doc'
    BY DEF Places
  <2>5. /\ \A i \in Places("group")' \union Places("]")' : Inside(i)'
        /\ \A i \in DOMAIN doc' \ (Places("group")' \union Places("]")') : ~Inside(i)'
    BY <2>2, <2>3, <2>4
  <2> QED
    BY <2>1, <2>5 DEF WellFormed, Inside
<1>5. Places("header")' = Places("header") /\ Places("[")' = Places("[") /\ Places("group")' = Places("group")
  BY <1>1, <1>3
<1>6. \A i \in Places("group")' : doc'[i].files >= 2 /\ ~doc'[i].negative
  BY <1>1, GroupsStay DEF MeaningSoFar
<1>7. PICK c \in Nat : c = Cardinality(Places("group")) /\ c = totalGroups
  BY PlacesFinite DEF MeaningSoFar
<1>8. header => doc'[Max(Places("header")')].stats = stats
  BY <1>1, HeaderStays DEF MeaningSoFar
<1>9. ASSUME header PROVE stats = <<c>> <=> stats # <<>> /\ stats[1] = c
  <2>1. stats = doc[Max(Places("header"))].stats /\ Places("header") # {}
    BY <1>9 DEF MeaningSoFar
  <2>2. PICK i \in 1..Len(doc) : i = Max(Places("header")) /\ doc[i].kind = "header"
    BY <2>1, LastHeader, PlacesFinite DEF Places
  <2>3. doc[i] \in HeaderTokens
    BY <2>2, TokenKinds
  <2>4. stats \in {<<>>} \union {<<n>> : n \in 0..MaxCount}
    BY <2>1, <2>2, <2>3 DEF HeaderTokens
  <2>5. stats = <<>> \/ \E n \in 0..MaxCount : stats = <<n>>
    BY <2>4
  <2> QED
    BY <2>5
<1>10. Sound' <=> header /\ groupsSeen /\ doc'[Max(Places("header")')].stats = <<c>>
  BY <1>5, <1>6, <1>7 DEF Sound, MeaningSoFar
<1>11. Agrees <=> header /\ stats # <<>> /\ groupsSeen /\ stats[1] = c
  BY <1>7 DEF Agrees, Complete
<1> QED
  BY <1>2, <1>4, <1>8, <1>9, <1>10, <1>11

\* Every step keeps the contract.
LEMMA StrictStep == StrictInv /\ [Next]_vars => StrictInv'
<1> SUFFICES ASSUME StrictInv, [Next]_vars PROVE StrictInv'
  OBVIOUS
<1>0. doc \in Seq(Tokens) /\ (Reading => ShapeSoFar /\ MeaningSoFar) /\ StrictContract
  BY DEF StrictInv
<1>a. ASSUME doc' \in Seq(Tokens), at' \in {"object", "groups", "closed"}, ShapeSoFar', MeaningSoFar'
      PROVE  StrictInv'
  BY <1>a DEF StrictInv, StrictContract, Accepted
<1>1. ASSUME NEW token \in HeaderTokens, ReadHeader(token) PROVE StrictInv'
  <2>1. /\ at = "object" /\ at' = "object" /\ Read(token) /\ header' = TRUE /\ stats' = token.stats
        /\ groupsSeen' = groupsSeen /\ totalGroups' = totalGroups
    BY <1>1 DEF ReadHeader, report
  <2>2. token \in Tokens /\ token.kind = "header"
    BY TokenTypes DEF HeaderTokens
  <2>3. Reading /\ doc' \in Seq(Tokens)
    BY <1>0, <2>1, <2>2, ReadIs DEF Reading
  <2>4. ShapeSoFar'
    BY <1>0, <2>1, <2>2, <2>3, GoesOn
  <2>5. MeaningSoFar'
    BY <1>0, <2>1, <2>2, <2>3, MeaningHeader
  <2> QED
    BY <1>a, <2>1, <2>3, <2>4, <2>5
<1>2. ASSUME NEW token \in GroupTokens, ReadGroup(token) PROVE StrictInv'
  <2>1. /\ at = "groups" /\ at' = "groups" /\ Read(token) /\ header' = header /\ stats' = stats
        /\ groupsSeen' = groupsSeen /\ totalGroups' = totalGroups + 1
        /\ token.files >= 2 /\ ~token.negative
    BY <1>2 DEF ReadGroup, fields, Valid
  <2>2. token \in Tokens /\ token.kind = "group"
    BY TokenTypes DEF GroupTokens
  <2>3. Reading /\ doc' \in Seq(Tokens)
    BY <1>0, <2>1, <2>2, ReadIs DEF Reading
  <2>4. ShapeSoFar'
    BY <1>0, <2>1, <2>2, <2>3, GoesOn
  <2>5. MeaningSoFar'
    BY <1>0, <2>1, <2>2, <2>3, MeaningStays
  <2> QED
    BY <1>a, <2>1, <2>3, <2>4, <2>5
<1>b. ASSUME NEW k \in {"unknown", "[", "]", "}"}, Read(Token(k)), Reading, at # "closed",
             k = "]" <=> at = "groups", at' \in {"object", "groups", "closed"},
             at' = "closed" <=> k = "}", at' = "groups" <=> k = "[",
             header' = header, stats' = stats, groupsSeen' <=> groupsSeen \/ k = "[",
             totalGroups' = totalGroups
      PROVE  StrictInv'
  <2>1. PICK t \in Tokens : t = Token(k) /\ t.kind = k /\ Read(t)
    BY <1>b, TokenTypes
  <2>3. doc' \in Seq(Tokens)
    BY <1>0, <2>1, ReadIs
  <2>4. ShapeSoFar'
    BY <1>0, <1>b, <2>1, GoesOn
  <2>5. MeaningSoFar'
    BY <1>0, <1>b, <2>1, MeaningStays
  <2> QED
    BY <1>a, <1>b, <2>3, <2>4, <2>5
<1>3. CASE ReadUnknown
  <2>1. /\ Read(Token("unknown")) /\ at = "object" /\ at' = "object" /\ Reading
        /\ header' = header /\ stats' = stats /\ groupsSeen' = groupsSeen /\ totalGroups' = totalGroups
    BY <1>3 DEF ReadUnknown, Reading, fields, report
  <2> QED
    BY <1>b, <2>1
<1>4. CASE OpenGroups
  <2>1. /\ Read(Token("[")) /\ at = "object" /\ at' = "groups" /\ Reading
        /\ header' = header /\ stats' = stats /\ groupsSeen' = TRUE /\ totalGroups' = totalGroups
    BY <1>4 DEF OpenGroups, Reading, report
  <2> QED
    BY <1>b, <2>1
<1>5. CASE CloseGroups
  <2>1. /\ Read(Token("]")) /\ at = "groups" /\ at' = "object" /\ Reading
        /\ header' = header /\ stats' = stats /\ groupsSeen' = groupsSeen /\ totalGroups' = totalGroups
    BY <1>5 DEF CloseGroups, Reading, fields, report
  <2> QED
    BY <1>b, <2>1
<1>6. CASE CloseObject
  <2>1. /\ Read(Token("}")) /\ at = "object" /\ at' = "closed" /\ Reading
        /\ header' = header /\ stats' = stats /\ groupsSeen' = groupsSeen /\ totalGroups' = totalGroups
    BY <1>6 DEF CloseObject, Reading, fields, report
  <2> QED
    BY <1>b, <2>1
<1>7. CASE ReadBad
  <2>1. Reading /\ at' = "refused"
    BY <1>7 DEF ReadBad, Refuse
  <2>2. doc' \in Seq(Tokens) /\ ~(WellFormed' /\ Sound')
    BY <1>0, <1>7, <2>1, BadIsNoReport
  <2> QED
    BY <2>1, <2>2 DEF StrictInv, StrictContract, Accepted, Reading
<1>8. CASE ReadEnd
  <2>1. Reading
    BY <1>8 DEF ReadEnd, Reading
  <2>2. doc' \in Seq(Tokens) /\ WellFormed' /\ (Sound' <=> Agrees)
    BY <1>0, <1>8, <2>1, EndIsReport
  <2>3. (~Agrees /\ at' = "refused") \/ (Agrees /\ at' \in {"log", "done"})
    BY <1>8 DEF ReadEnd, Refuse
  <2> QED
    BY <2>2, <2>3 DEF StrictInv, StrictContract, Accepted, Reading
<1>9. CASE LogPair \/ LogByteCap \/ LogPairsEnd \/ LogSummary
  <2>1. /\ doc' = doc /\ at \in {"log", "summary"} /\ at' \in {"log", "summary", "done"}
    BY <1>9 DEF LogPair, LogByteCap, LogPairsEnd, LogSummary
  <2>2. WellFormed /\ Sound
    BY <1>0, <2>1 DEF StrictContract, Accepted
  <2>3. \A k : Places(k)' = Places(k)
    BY <2>1 DEF Places
  <2>4. \A k, i : Before(k, i)' = Before(k, i)
    BY <2>3 DEF Before
  <2>5. WellFormed'
    BY <2>1, <2>2, <2>3, <2>4 DEF WellFormed
  <2>6. Sound'
    BY <2>1, <2>2, <2>3 DEF Sound
  <2> QED
    BY <1>0, <2>1, <2>5, <2>6 DEF StrictInv, StrictContract, Accepted, Reading
<1>10. CASE UNCHANGED vars
  <2>1. /\ doc' = doc /\ at' = at /\ header' = header /\ stats' = stats /\ groupsSeen' = groupsSeen
        /\ totalGroups' = totalGroups
    BY <1>10 DEF vars, fields, report
  <2>3. \A k : Places(k)' = Places(k)
    BY <2>1 DEF Places
  <2>4. \A k, i : Before(k, i)' = Before(k, i)
    BY <2>3 DEF Before
  <2>5. (WellFormed' <=> WellFormed) /\ (Sound' <=> Sound)
    BY <2>1, <2>3, <2>4 DEF WellFormed, Sound
  <2>6. ShapeSoFar => ShapeSoFar'
    BY <2>1, <2>3, <2>4 DEF ShapeSoFar, Inside
  <2>7. MeaningSoFar => MeaningSoFar'
    BY <2>1, <2>3 DEF MeaningSoFar
  <2> QED
    BY <2>1, <2>5, <2>6, <2>7 DEF StrictInv, StrictContract, Accepted, Reading
<1> QED
  BY <1>1, <1>2, <1>3, <1>4, <1>5, <1>6, <1>7, <1>8, <1>9, <1>10 DEF Next

(***************************************************************************)
(* PAIRS.                                                                  *)
(***************************************************************************)

\* A pair of one of the first n groups.
PairOf(n) == (1..n) \X Nat

\* The pairs of one group.
Row(token, i) == [j \in 1..(token.files - 1) |-> <<i, j>>]

\* A group has one pair for each file but the keeper.
LEMMA RowIs ==
  ASSUME NEW t \in GroupTokens, NEW n \in Nat, NEW i \in 1..n
  PROVE  /\ Row(t, i) \in Seq(PairOf(n))
         /\ t.files >= 2 => Len(Row(t, i)) = t.files - 1
         /\ \A j \in 1..Len(Row(t, i)) : Row(t, i)[j][1] = i
<1>1. t.files \in 0..MaxFiles /\ MaxFiles \in Nat
  BY BoundsAssumption DEF GroupTokens
<1>2. PICK m \in Nat : 1..(t.files - 1) = 1..m /\ (t.files >= 2 => m = t.files - 1)
  <2>1. CASE t.files = 0
    BY <1>1, <2>1
  <2>2. CASE t.files # 0
    BY <1>1, <2>2
  <2> QED
    BY <2>1, <2>2
<1>3. Row(t, i) = [j \in 1..m |-> <<i, j>>]
  BY <1>2 DEF Row
<1>4. [j \in 1..m |-> <<i, j>>] \in Seq(PairOf(n)) /\ Len([j \in 1..m |-> <<i, j>>]) = m
  BY DEF PairOf
<1> QED
  BY <1>2, <1>3, <1>4

\* The rows of some groups.
Rows(groups) == [i \in DOMAIN groups |-> Row(groups[i], i)]

\* Every row is one of pairs.
LEMMA RowsType ==
  ASSUME NEW groups \in Seq(GroupTokens), NEW n \in Nat, Len(groups) <= n
  PROVE  Rows(groups) \in Seq(Seq(PairOf(n)))
<1>1. DOMAIN groups = 1..Len(groups) /\ Len(groups) \in Nat /\ \A i \in 1..Len(groups) : groups[i] \in GroupTokens
  OBVIOUS
<1>2. \A i \in 1..Len(groups) : i \in 1..n
  BY <1>1
<1>3. \A i \in 1..Len(groups) : Row(groups[i], i) \in Seq(PairOf(n))
  BY <1>1, <1>2, RowIs
<1> QED
  BY <1>1, <1>3 DEF Rows

\* Pairs are pairs of the groups they come from.
LEMMA PairsType ==
  ASSUME NEW groups \in Seq(GroupTokens), NEW n \in Nat, Len(groups) <= n
  PROVE  Pairs(groups) \in Seq(PairOf(n))
<1>1. Pairs(groups) = FlattenSeq(Rows(groups))
  BY DEF Pairs, Rows, Row
<1>2. Rows(groups) \in Seq(Seq(PairOf(n)))
  BY RowsType
<1> QED
  BY <1>1, <1>2, FlattenType

\* No groups, no pairs.
LEMMA PairsEmpty == Pairs(<<>>) = <<>>
<1>1. Pairs(<<>>) = FlattenSeq(Rows(<<>>))
  BY DEF Pairs, Rows, Row
<1>2. Rows(<<>>) = <<>>
  BY DEF Rows
<1> QED
  BY <1>1, <1>2, FlattenEmpty

\* A group more brings its row.
LEMMA PairsAppend ==
  ASSUME NEW groups \in Seq(GroupTokens), NEW t \in GroupTokens
  PROVE  Pairs(Append(groups, t)) = Pairs(groups) \o Row(t, Len(groups) + 1)
<1>1. PICK n \in Nat, u \in Seq(GroupTokens) :
        /\ n = Len(groups) /\ u = Append(groups, t) /\ Len(u) = n + 1 /\ u[n + 1] = t
        /\ \A i \in 1..n : u[i] = groups[i]
  <2>1. /\ Len(groups) \in Nat /\ Append(groups, t) \in Seq(GroupTokens)
        /\ Len(Append(groups, t)) = Len(groups) + 1 /\ Append(groups, t)[Len(groups) + 1] = t
        /\ \A i \in 1..Len(groups) : Append(groups, t)[i] = groups[i]
    BY AppendProperties
  <2> QED
    BY <2>1
<1>2. PICK m \in Nat : m = n + 1 /\ m \in 1..m /\ n <= m
  OBVIOUS
<1>3. Rows(groups) \in Seq(Seq(PairOf(m))) /\ Rows(u) \in Seq(Seq(PairOf(m)))
  <2>1. Len(groups) <= m /\ Len(u) <= m
    BY <1>1, <1>2
  <2> QED
    BY <2>1, RowsType
<1>4. Row(t, m) \in Seq(PairOf(m))
  BY <1>2, RowIs
<1>5. Rows(u) = Append(Rows(groups), Row(t, m))
  <2> DEFINE T == Seq(PairOf(m))
             a == Rows(groups)
             b == Rows(u)
             x == Row(t, m)
  <2>1. DOMAIN groups = 1..n /\ DOMAIN u = 1..m
    BY <1>1, <1>2
  <2>2. /\ Len(a) = n /\ Len(b) = m /\ \A i \in 1..n : a[i] = Row(groups[i], i)
        /\ \A i \in 1..m : b[i] = Row(u[i], i)
    BY <2>1, <1>3 DEF Rows
  <2>3. a \in Seq(T) /\ b \in Seq(T) /\ x \in T
    BY <1>3, <1>4
  <2>4. /\ Append(a, x) \in Seq(T) /\ Len(Append(a, x)) = n + 1
        /\ Append(a, x)[n + 1] = x /\ \A i \in 1..n : Append(a, x)[i] = a[i]
    <3> HIDE DEF T, a, b, x
    <3> QED
      BY <2>2, <2>3, AppendProperties
  <2>5. \A i \in 1..m : b[i] = Append(a, x)[i]
    <3>1. \A i \in 1..m : i = n + 1 \/ i \in 1..n
      BY <1>2
    <3>2. \A i \in 1..n : i \in 1..m
      BY <1>2
    <3> HIDE DEF a, b
    <3> QED
      BY <1>1, <1>2, <2>2, <2>4, <3>1, <3>2
  <2> HIDE DEF T, a, b, x
  <2>6. b = Append(a, x)
    BY <1>2, <2>2, <2>3, <2>4, <2>5, SeqEqual
  <2> QED
    BY <2>6 DEF a, b, x
<1>6. FlattenSeq(Append(Rows(groups), Row(t, m))) = FlattenSeq(Rows(groups)) \o Row(t, m)
  BY <1>3, <1>4, FlattenAppend
<1>7. Pairs(u) = FlattenSeq(Rows(u)) /\ Pairs(groups) = FlattenSeq(Rows(groups))
  BY DEF Pairs, Rows, Row
<1> QED
  BY <1>1, <1>2, <1>5, <1>6, <1>7

(***************************************************************************)
(* THE FIRST GROUPS, AND THEIR PAIRS.                                      *)
(***************************************************************************)

\* k is what is kept of the groups d if m of them are.
FirstGroups(k, d, m) ==
  /\ k \in Seq(GroupTokens) /\ d \in Seq(GroupTokens)
  /\ Len(d) <= m => k = d
  /\ Len(d) > m => Len(k) = m
  /\ \A i \in 1..Len(k) : k[i] = d[i]

\* Its pairs are the first pairs, and those of groups past the limit follow.
FirstPairs(k, d, m) ==
  /\ Len(Pairs(k)) <= Len(Pairs(d))
  /\ \A i \in 1..Len(Pairs(k)) : Pairs(k)[i] = Pairs(d)[i]
  /\ \A i \in 1..Len(Pairs(d)) : i > Len(Pairs(k)) => Pairs(d)[i][1] > m

\* No more is kept than there is, nor than may be.
LEMMA FirstLength ==
  ASSUME NEW k, NEW d, NEW m \in Nat, FirstGroups(k, d, m)
  PROVE  Len(k) \in Nat /\ Len(d) \in Nat /\ Len(k) <= m /\ Len(k) <= Len(d)
<1>1. k \in Seq(GroupTokens) /\ d \in Seq(GroupTokens)
  BY DEF FirstGroups
<1>2. PICK a \in Nat, b \in Nat : a = Len(k) /\ b = Len(d)
  BY <1>1
<1>3. (b <= m => a = b) /\ (b > m => a = m)
  BY <1>2 DEF FirstGroups
<1>4. a <= m /\ a <= b
  BY <1>3
<1> QED
  BY <1>2, <1>4

\* A group more is kept while there is room.
LEMMA FirstGroupsAppend ==
  ASSUME NEW k, NEW d, NEW m \in Nat, FirstGroups(k, d, m), NEW t \in GroupTokens
  PROVE  FirstGroups(IF Len(k) < m THEN Append(k, t) ELSE k, Append(d, t), m)
<1>1. k \in Seq(GroupTokens) /\ d \in Seq(GroupTokens)
  BY DEF FirstGroups
<1>2. PICK a \in Nat, b \in Nat : a = Len(k) /\ b = Len(d) /\ a <= m /\ a <= b
  BY FirstLength
<1>3. PICK e \in Seq(GroupTokens) :
        e = Append(d, t) /\ Len(e) = b + 1 /\ \A i \in 1..b : e[i] = d[i]
  <2>1. /\ Append(d, t) \in Seq(GroupTokens) /\ Len(Append(d, t)) = Len(d) + 1
        /\ \A i \in 1..Len(d) : Append(d, t)[i] = d[i]
    BY <1>1, AppendProperties
  <2> QED
    BY <1>2, <2>1
<1>4. CASE a < m
  <2>1. k = d
    <3>1. b <= m
      BY <1>2, <1>4 DEF FirstGroups
    <3> QED
      BY <1>2, <3>1 DEF FirstGroups
  <2>2. b = a /\ Len(e) <= m
    BY <1>2, <1>3, <1>4, <2>1
  <2> QED
    BY <1>2, <1>3, <1>4, <2>1, <2>2 DEF FirstGroups
<1>5. CASE ~(a < m)
  <2>1. a = m /\ Len(e) > m
    BY <1>2, <1>3, <1>5
  <2>2. \A i \in 1..a : e[i] = k[i]
    <3>1. \A i \in 1..a : i \in 1..b /\ k[i] = d[i]
      BY <1>2 DEF FirstGroups
    <3> QED
      BY <1>3, <3>1
  <2>3. ~(Len(e) <= m)
    BY <1>3, <2>1
  <2> QED
    BY <1>1, <1>2, <1>3, <1>5, <2>1, <2>2, <2>3 DEF FirstGroups
<1> QED
  BY <1>4, <1>5

\* And so are its pairs.
LEMMA FirstPairsAppend ==
  ASSUME NEW k, NEW d, NEW m \in Nat, FirstGroups(k, d, m), FirstPairs(k, d, m),
         NEW t \in GroupTokens
  PROVE  FirstPairs(IF Len(k) < m THEN Append(k, t) ELSE k, Append(d, t), m)
<1>1. k \in Seq(GroupTokens) /\ d \in Seq(GroupTokens)
  BY DEF FirstGroups
<1>2. PICK a \in Nat, b \in Nat : a = Len(k) /\ b = Len(d) /\ a <= m /\ a <= b
  BY FirstLength
<1>3. CASE a < m
  <2>1. k = d
    <3>1. b <= m
      BY <1>2, <1>3 DEF FirstGroups
    <3> QED
      BY <1>2, <3>1 DEF FirstGroups
  <2>2. Append(d, t) \in Seq(GroupTokens)
    BY <1>1, AppendProperties
  <2>3. PICK c \in Nat : Len(Append(d, t)) <= c
    <3>1. Len(Append(d, t)) \in Nat /\ Len(Append(d, t)) <= Len(Append(d, t))
      BY <2>2
    <3> QED
      BY <3>1
  <2>4. PICK p \in Seq(PairOf(c)) : p = Pairs(Append(d, t)) /\ Len(p) \in Nat
    <3>1. Pairs(Append(d, t)) \in Seq(PairOf(c))
      BY <2>2, <2>3, PairsType
    <3> QED
      BY <3>1
  <2>5. \A i \in 1..Len(p) : ~(i > Len(p))
    BY <2>4
  <2>6. FirstPairs(Append(d, t), Append(d, t), m)
    BY <2>4, <2>5 DEF FirstPairs
  <2> QED
    BY <1>2, <1>3, <2>1, <2>6
<1>4. CASE ~(a < m)
  <2>0. PICK c \in Nat : c = b + 1 /\ c > m /\ c \in 1..c /\ b <= c /\ a <= c
    BY <1>2, <1>4
  <2>1. PICK p \in Seq(PairOf(c)), q \in Seq(PairOf(c)), r \in Seq(PairOf(c)) :
          /\ p = Pairs(d) /\ q = Pairs(k) /\ r = Row(t, c) /\ \A j \in 1..Len(r) : r[j][1] = c
    <3>1. Pairs(d) \in Seq(PairOf(c)) /\ Pairs(k) \in Seq(PairOf(c))
      BY <1>1, <1>2, <2>0, PairsType
    <3>2. Row(t, c) \in Seq(PairOf(c)) /\ \A j \in 1..Len(Row(t, c)) : Row(t, c)[j][1] = c
      BY <2>0, RowIs
    <3> QED
      BY <3>1, <3>2
  <2>2. Pairs(Append(d, t)) = p \o r
    BY <1>1, <1>2, <2>0, <2>1, PairsAppend
  <2>3. PICK x \in Nat, y \in Nat, z \in Nat : x = Len(p) /\ y = Len(r) /\ z = Len(q)
    BY <2>1
  <2>4. PICK s \in Seq(PairOf(c)) : /\ s = p \o r /\ Len(s) = x + y
                        /\ \A i \in 1..(x + y) : s[i] = IF i <= x THEN p[i] ELSE r[i - x]
    <3>1. /\ p \o r \in Seq(PairOf(c)) /\ Len(p \o r) = Len(p) + Len(r)
          /\ \A i \in 1..(Len(p) + Len(r)) : (p \o r)[i] = IF i <= Len(p) THEN p[i] ELSE r[i - Len(p)]
      BY ConcatProperties
    <3> QED
      BY <2>3, <3>1
  <2>5. /\ z <= x /\ \A i \in 1..z : q[i] = p[i]
        /\ \A i \in 1..x : i > z => p[i][1] > m
    BY <2>1, <2>3 DEF FirstPairs
  <2>6. z <= x + y /\ \A i \in 1..z : q[i] = s[i]
    <3>1. \A i \in 1..z : i \in 1..(x + y) /\ i <= x
      BY <2>5
    <3> QED
      BY <2>4, <2>5, <3>1
  <2>7. ASSUME NEW i \in 1..(x + y), i > z PROVE s[i][1] > m
    <3>1. CASE i <= x
      <4>1. i \in 1..x /\ s[i] = p[i]
        BY <2>4, <3>1
      <4> QED
        BY <2>5, <2>7, <4>1
    <3>2. CASE ~(i <= x)
      <4>1. i - x \in 1..y /\ s[i] = r[i - x]
        BY <2>4, <3>2
      <4> QED
        BY <2>0, <2>1, <2>3, <4>1
    <3> QED
      BY <3>1, <3>2
  <2>8. FirstPairs(k, Append(d, t), m)
    BY <2>1, <2>2, <2>3, <2>4, <2>6, <2>7 DEF FirstPairs
  <2> QED
    BY <1>2, <1>4, <2>8
<1> QED
  BY <1>3, <1>4

\* A group more makes as many pairs more as it has duplicates.
LEMMA PairsCount ==
  ASSUME NEW d \in Seq(GroupTokens), NEW t \in GroupTokens, t.files >= 2
  PROVE  /\ Len(Pairs(d)) \in Nat
         /\ Len(Pairs(Append(d, t))) = Len(Pairs(d)) + (t.files - 1)
<1>1. PICK c \in Nat : c = Len(d) + 1 /\ c \in 1..c /\ Len(d) <= c
  OBVIOUS
<1>2. Pairs(d) \in Seq(PairOf(c))
  BY <1>1, PairsType
<1>3. Row(t, c) \in Seq(PairOf(c)) /\ Len(Row(t, c)) = t.files - 1
  BY <1>1, RowIs
<1>4. Len(Pairs(d) \o Row(t, c)) = Len(Pairs(d)) + Len(Row(t, c))
  BY <1>2, <1>3, ConcatProperties
<1> QED
  BY <1>1, <1>2, <1>3, <1>4, PairsAppend

(***************************************************************************)
(* BYTES.                                                                  *)
(***************************************************************************)

\* A total is a recursion by addition.
LEMMA TotalRecursion ==
  ASSUME NEW w \in Seq(Nat)
  PROVE  \E f \in [0..Len(w) -> Nat] :
           /\ f[0] = 0
           /\ \A i \in 1..Len(w) : f[i] = f[i - 1] + w[i]
           /\ Total(w) = f[Len(w)]
<1> DEFINE n == Len(w)
           next == [d \in Nat \X (1..n) |-> d[1] + w[d[2]]]
<1>1. n \in Nat /\ \A i \in 1..n : w[i] \in Nat
  OBVIOUS
<1>2. next \in [Nat \X (1..n) -> Nat]
  <2>1. \A d \in Nat \X (1..n) : d[1] + w[d[2]] \in Nat
    BY <1>1
  <2> QED
    BY <2>1
<1>3. PICK f : Recursion(f, n, Nat, 0, next)
  <2> HIDE DEF n, next
  <2> QED
    BY <1>1, <1>2, RecursionExists
<1>4. /\ f \in [0..n -> Nat] /\ f[0] = 0
      /\ \A i \in 1..n : f[i] = f[i - 1] + w[i]
  <2>1. f \in [0..n -> Nat] /\ f[0] = 0 /\ \A i \in 1..n : f[i] = next[<<f[i - 1], i>>]
    BY <1>3 DEF Recursion
  <2>2. ASSUME NEW i \in 1..n PROVE f[i] = f[i - 1] + w[i]
    <3>1. i - 1 \in 0..n
      BY <1>1
    <3>2. <<f[i - 1], i>> \in Nat \X (1..n)
      BY <2>1, <3>1
    <3>3. next[<<f[i - 1], i>>] = f[i - 1] + w[i]
      BY <3>2
    <3> QED
      BY <2>1, <3>3
  <2> QED
    BY <2>1, <2>2
<1> DEFINE H(g, i) == IF i = 0 THEN 0 ELSE g[i - 1] + w[i]
           at0 == CHOOSE g : g = [i \in 0..n |-> H(g, i)]
<1>6. f = [i \in 0..n |-> H(f, i)]
  <2>1. ASSUME NEW i \in 0..n PROVE f[i] = H(f, i)
    <3>1. i = 0 \/ i \in 1..n
      BY <1>1
    <3> QED
      BY <1>4, <3>1
  <2> QED
    BY <1>4, <2>1
<1>7. at0 = [i \in 0..n |-> H(at0, i)]
  BY <1>6
<1>8. Total(w) = at0[n]
  BY DEF Total
<1> HIDE DEF at0
<1>9. ASSUME NEW i \in 0..n PROVE at0[i] = H(at0, i)
  BY <1>7
<1>10. at0[n] = f[n]
  <2> DEFINE P == {k \in Nat : k <= n => at0[k] = f[k]}
  <2>1. 0 \in P
    <3>1. 0 \in 0..n /\ H(at0, 0) = 0
      BY <1>1
    <3> QED
      BY <1>4, <1>9, <3>1
  <2>2. ASSUME NEW k \in Nat, k \in P PROVE k + 1 \in P
    <3> SUFFICES ASSUME k + 1 <= n PROVE at0[k + 1] = f[k + 1]
      OBVIOUS
    <3>1. k + 1 \in 0..n /\ k + 1 \in 1..n /\ k + 1 # 0 /\ (k + 1) - 1 = k /\ k <= n
      BY <1>1
    <3>2. at0[k] = f[k]
      BY <2>2, <3>1
    <3>3. at0[k + 1] = H(at0, k + 1)
      BY <1>9, <3>1
    <3>4. H(at0, k + 1) = at0[k] + w[k + 1]
      BY <3>1
    <3>5. f[k + 1] = f[k] + w[k + 1]
      BY <1>4, <3>1
    <3> QED
      BY <3>2, <3>3, <3>4, <3>5
  <2> HIDE DEF P
  <2>3. Nat \subseteq P
    BY <2>1, <2>2, NatInSet
  <2>4. n \in P
    BY <1>1, <2>3
  <2> QED
    BY <1>1, <2>4 DEF P
<1> QED
  BY <1>4, <1>8, <1>10

\* Totals of naturals are naturals.
LEMMA TotalType ==
  ASSUME NEW w \in Seq(Nat)
  PROVE  Total(w) \in Nat
<1>1. PICK f \in [0..Len(w) -> Nat] : Total(w) = f[Len(w)]
  BY TotalRecursion
<1>2. Len(w) \in 0..Len(w)
  OBVIOUS
<1> QED
  BY <1>1, <1>2

\* Nothing adds up to nothing.
LEMMA TotalEmpty == Total(<<>>) = 0
<1>1. PICK w \in Seq(Nat) : w = <<>> /\ Len(w) = 0
  <2>1. <<>> \in Seq(Nat) /\ Len(<<>>) = 0
    OBVIOUS
  <2> QED
    BY <2>1
<1>2. PICK f \in [0..Len(w) -> Nat] : f[0] = 0 /\ Total(w) = f[Len(w)]
  BY TotalRecursion
<1> QED
  BY <1>1, <1>2

\* One number more.
LEMMA TotalAppend ==
  ASSUME NEW w \in Seq(Nat), NEW x \in Nat
  PROVE  Total(Append(w, x)) = Total(w) + x
<1>1. PICK n \in Nat, u \in Seq(Nat) :
         n = Len(w) /\ u = Append(w, x) /\ Len(u) = n + 1 /\ u[n + 1] = x /\ \A i \in 1..n : u[i] = w[i]
  <2>1. /\ Len(w) \in Nat /\ Append(w, x) \in Seq(Nat) /\ Len(Append(w, x)) = Len(w) + 1
        /\ Append(w, x)[Len(w) + 1] = x /\ \A i \in 1..Len(w) : Append(w, x)[i] = w[i]
    BY AppendProperties
  <2> QED
    BY <2>1
<1>2. PICK f \in [0..n -> Nat] :
        /\ f[0] = 0 /\ \A i \in 1..n : f[i] = f[i - 1] + w[i]
        /\ Total(w) = f[n]
  BY <1>1, TotalRecursion
<1>3. PICK g \in [0..(n + 1) -> Nat] :
        g[0] = 0 /\ (\A i \in 1..(n + 1) : g[i] = g[i - 1] + u[i]) /\ Total(u) = g[n + 1]
  <2>1. \E g \in [0..Len(u) -> Nat] :
          g[0] = 0 /\ (\A i \in 1..Len(u) : g[i] = g[i - 1] + u[i]) /\ Total(u) = g[Len(u)]
    BY TotalRecursion
  <2>2. Len(u) = n + 1
    BY <1>1
  <2> QED
    BY <2>1, <2>2
<1>4. g[n] = f[n]
  <2> DEFINE P == {k \in Nat : k <= n => g[k] = f[k]}
  <2>1. 0 \in P
    BY <1>2, <1>3
  <2>2. ASSUME NEW k \in Nat, k \in P PROVE k + 1 \in P
    <3> SUFFICES ASSUME k + 1 <= n PROVE g[k + 1] = f[k + 1]
      OBVIOUS
    <3>1. k + 1 \in 1..n /\ k + 1 \in 1..(n + 1) /\ (k + 1) - 1 = k /\ k <= n
      OBVIOUS
    <3>2. g[k] = f[k]
      BY <2>2, <3>1
    <3>3. g[k + 1] = g[k] + u[k + 1]
      BY <1>3, <3>1
    <3>4. f[k + 1] = f[k] + w[k + 1]
      BY <1>2, <3>1
    <3>5. u[k + 1] = w[k + 1]
      BY <1>1, <3>1
    <3> QED
      BY <3>2, <3>3, <3>4, <3>5
  <2> HIDE DEF P
  <2>3. Nat \subseteq P
    BY <2>1, <2>2, NatInSet
  <2>4. n \in P
    BY <2>3
  <2> QED
    BY <2>4 DEF P
<1>5. g[n + 1] = g[n] + u[n + 1]
  <2>1. n + 1 \in 1..(n + 1) /\ (n + 1) - 1 = n
    OBVIOUS
  <2> QED
    BY <1>3, <2>1
<1> QED
  BY <1>1, <1>2, <1>3, <1>4, <1>5

\* The bytes of some pairs of given groups.
BytesOf(groups, pairs) == Total([i \in DOMAIN pairs |-> groups[pairs[i][1]].width])

\* The widths are numbers,
LEMMA WidthsType ==
  ASSUME NEW d \in Seq(GroupTokens), NEW s \in Seq(PairOf(Len(d)))
  PROVE  /\ [i \in DOMAIN s |-> d[s[i][1]].width] \in Seq(Nat)
         /\ \A p \in PairOf(Len(d)) : d[p[1]].width \in Nat /\ d[p[1]].width <= MaxWidth
<1>1. DOMAIN s = 1..Len(s) /\ Len(s) \in Nat /\ \A i \in 1..Len(s) : s[i] \in PairOf(Len(d))
  OBVIOUS
<1>2. ASSUME NEW p \in PairOf(Len(d)) PROVE d[p[1]].width \in Nat /\ d[p[1]].width <= MaxWidth
  <2>1. p[1] \in 1..Len(d)
    BY DEF PairOf
  <2>2. d[p[1]] \in GroupTokens
    BY <2>1
  <2> QED
    BY <2>2, BoundsAssumption DEF GroupTokens
<1>3. \A i \in 1..Len(s) : d[s[i][1]].width \in Nat
  BY <1>1, <1>2
<1> QED
  BY <1>1, <1>2, <1>3

\* so a pair more adds its own.
LEMMA BytesAppend ==
  ASSUME NEW d \in Seq(GroupTokens), NEW s \in Seq(PairOf(Len(d))), NEW p \in PairOf(Len(d))
  PROVE  /\ BytesOf(d, s) \in Nat
         /\ BytesOf(d, Append(s, p)) = BytesOf(d, s) + d[p[1]].width
<1>1. PICK n \in Nat, u \in Seq(PairOf(Len(d))) :
        n = Len(s) /\ u = Append(s, p) /\ Len(u) = n + 1 /\ u[n + 1] = p /\ \A i \in 1..n : u[i] = s[i]
  <2>1. /\ Len(s) \in Nat /\ Append(s, p) \in Seq(PairOf(Len(d))) /\ Len(Append(s, p)) = Len(s) + 1
        /\ Append(s, p)[Len(s) + 1] = p /\ \A i \in 1..Len(s) : Append(s, p)[i] = s[i]
    BY AppendProperties
  <2> QED
    BY <2>1
<1>2. PICK w \in Seq(Nat), v \in Seq(Nat), x \in Nat :
        /\ w = [i \in DOMAIN s |-> d[s[i][1]].width] /\ v = [i \in DOMAIN u |-> d[u[i][1]].width]
        /\ x = d[p[1]].width
  BY WidthsType
<1>3. DOMAIN s = 1..n /\ DOMAIN u = 1..(n + 1)
  BY <1>1
<1>4. Len(w) = n /\ Len(v) = n + 1
  BY <1>2, <1>3
<1>5. /\ Append(w, x) \in Seq(Nat) /\ Len(Append(w, x)) = n + 1 /\ Append(w, x)[n + 1] = x
      /\ \A i \in 1..n : Append(w, x)[i] = w[i]
  BY <1>4, AppendProperties
<1>6. \A i \in 1..(n + 1) : v[i] = Append(w, x)[i]
  <2>1. \A i \in 1..(n + 1) : i = n + 1 \/ i \in 1..n
    OBVIOUS
  <2>2. v[n + 1] = x
    BY <1>1, <1>2, <1>3
  <2>3. ASSUME NEW i \in 1..n PROVE v[i] = w[i]
    <3>1. i \in 1..(n + 1)
      OBVIOUS
    <3> QED
      BY <1>1, <1>2, <1>3, <3>1
  <2> QED
    BY <1>5, <2>1, <2>2, <2>3
<1>7. v = Append(w, x)
  BY <1>4, <1>5, <1>6, SeqEqual
<1>8. Total(Append(w, x)) = Total(w) + x /\ Total(w) \in Nat
  BY TotalAppend, TotalType
<1>9. BytesOf(d, s) = Total(w) /\ BytesOf(d, u) = Total(v)
  BY <1>2 DEF BytesOf
<1> QED
  BY <1>1, <1>2, <1>7, <1>8, <1>9

\* No pairs, no bytes.
LEMMA BytesEmpty ==
  ASSUME NEW d
  PROVE  BytesOf(d, <<>>) = 0
<1>1. [i \in DOMAIN <<>> |-> d[<<>>[i][1]].width] = <<>>
  OBVIOUS
<1> QED
  BY <1>1, TotalEmpty DEF BytesOf

(***************************************************************************)
(* THE INDUCTIVE INVARIANT.                                                *)
(***************************************************************************)
\* The types of the fields met.
FieldTypes ==
  /\ header \in BOOLEAN
  /\ stats \in {<<>>} \union {<<n>> : n \in 0..MaxCount}
  /\ groupsSeen \in BOOLEAN

\* Unless it was refused, the report counts the groups read and keeps the first.
TotalsKept ==
  /\ at # "refused" =>
       /\ totalGroups = Len(DocGroups) /\ totalDuplicates = Len(Pairs(DocGroups))
       /\ FirstGroups(kept, DocGroups, KeepGroups) /\ FirstPairs(kept, DocGroups, KeepGroups)
  /\ at = "refused" => kept = <<>> /\ totalGroups = 0 /\ totalDuplicates = 0

\* Why the loops of the log ended.
LogEnded ==
  \/ Len(logged) = Len(Pairs(kept))
  \/ Len(logged) >= MaxPairs
  \/ Len(logged) < Len(Pairs(kept)) /\ Bytes(logged) + kept[NextPair[1]].width > CapBytes

\* The log holds the first pairs of what was kept, within the caps.
LogState ==
  /\ logged \in Seq(PairOf(Len(kept))) /\ Len(logged) <= Len(Pairs(kept)) /\ Len(logged) <= MaxPairs
  /\ \A i \in 1..Len(logged) : logged[i] = Pairs(kept)[i]
  /\ Bytes(logged) <= CapBytes
  /\ detailBytes \in 0..(CapBytes + MaxWidth)
  /\ at = "log" => detailBytes = Bytes(logged)
  /\ at \notin {"log", "summary", "done"} => logged = <<>> /\ detailBytes = 0
  /\ at # "done" => truncated = <<>>
  /\ at \in {"summary", "done"} => LogEnded
  /\ at = "done" => truncated = IF Len(logged) < totalDuplicates THEN <<TruncationLine>> ELSE <<>>

\* Together they are inductive.
IndInv == StrictInv /\ FieldTypes /\ TotalsKept /\ LogState

\* The kept groups are groups in every state.
LEMMA KeptType ==
  ASSUME TotalsKept
  PROVE  /\ kept \in Seq(GroupTokens) /\ Len(kept) \in Nat /\ Len(kept) <= KeepGroups
         /\ Pairs(kept) \in Seq(PairOf(Len(kept))) /\ Len(Pairs(kept)) \in Nat
<1>0. KeepGroups \in Nat
  BY BoundsAssumption
<1>1. kept \in Seq(GroupTokens)
  <2>1. <<>> \in Seq(GroupTokens)
    OBVIOUS
  <2> QED
    BY <2>1 DEF TotalsKept, FirstGroups
<1>2. Len(kept) \in Nat /\ Len(kept) <= Len(kept)
  BY <1>1
<1>3. Len(kept) <= KeepGroups
  <2>1. CASE at = "refused"
    <3>1. Len(<<>>) = 0
      OBVIOUS
    <3> QED
      BY <1>0, <2>1, <3>1 DEF TotalsKept
  <2>2. CASE at # "refused"
    BY <1>0, <2>2, FirstLength DEF TotalsKept
  <2> QED
    BY <2>1, <2>2
<1>4. Pairs(kept) \in Seq(PairOf(Len(kept)))
  BY <1>1, <1>2, PairsType
<1>5. Len(Pairs(kept)) \in Nat
  BY <1>4
<1> QED
  BY <1>1, <1>2, <1>3, <1>4, <1>5

\* Nothing is logged while the document is read.
LEMMA NothingLogged ==
  ASSUME kept' \in Seq(GroupTokens), logged' = <<>>, detailBytes' = 0, truncated' = <<>>,
         at' \notin {"summary", "done"}
  PROVE  LogState'
<1>0. CapBytes \in Nat /\ MaxPairs \in Nat /\ MaxWidth \in Nat
  BY BoundsAssumption
<1>1. Len(kept') \in Nat /\ Len(kept') <= Len(kept')
  OBVIOUS
<1>2. Pairs(kept') \in Seq(PairOf(Len(kept')))
  BY <1>1, PairsType
<1>3. PICK n \in Nat : n = Len(Pairs(kept'))
  BY <1>2
<1>4. <<>> \in Seq(PairOf(Len(kept'))) /\ Len(<<>>) = 0
  OBVIOUS
<1>5. Bytes(logged)' = 0
  <2>1. Bytes(logged)' = BytesOf(DocGroups', logged')
    BY DEF Bytes, BytesOf
  <2> QED
    BY <2>1, BytesEmpty
<1>6. Len(logged') <= Len(Pairs(kept')) /\ Len(logged') <= MaxPairs /\ 1..Len(logged') = {}
  BY <1>0, <1>3, <1>4
<1>7. detailBytes' \in 0..(CapBytes + MaxWidth) /\ Bytes(logged)' <= CapBytes
  BY <1>0, <1>5
<1> QED
  BY <1>4, <1>5, <1>6, <1>7 DEF LogState

\* Reading what is not a group changes neither the report nor the log.
LEMMA OtherRead ==
  ASSUME doc \in Seq(Tokens), TotalsKept, LogState, Reading, NEW t \in Tokens, Read(t), t.kind # "group",
         kept' = kept, totalGroups' = totalGroups, totalDuplicates' = totalDuplicates,
         logged' = logged, detailBytes' = detailBytes, truncated' = truncated,
         at' \in {"object", "groups", "closed", "log"}
  PROVE  TotalsKept' /\ LogState'
<1>1. DocGroups' = DocGroups
  BY GroupsRead
<1>2. at # "refused" /\ at \notin {"log", "summary", "done"}
  BY DEF Reading
<1>3. TotalsKept'
  BY <1>1, <1>2 DEF TotalsKept
<1>4. kept' \in Seq(GroupTokens) /\ logged' = <<>> /\ detailBytes' = 0 /\ truncated' = <<>>
  BY <1>2, KeptType DEF LogState
<1> QED
  BY <1>3, <1>4, NothingLogged

\* A group is counted, and kept while there is room.
LEMMA GroupCounted ==
  ASSUME doc \in Seq(Tokens), TotalsKept, LogState, NEW token \in GroupTokens, ReadGroup(token)
  PROVE  TotalsKept' /\ LogState'
<1>0. KeepGroups \in Nat
  BY BoundsAssumption
<1>1. /\ at = "groups" /\ at' = "groups" /\ Read(token) /\ token.files >= 2
      /\ kept' = IF Len(kept) < KeepGroups THEN Append(kept, token) ELSE kept
      /\ totalGroups' = totalGroups + 1 /\ totalDuplicates' = totalDuplicates + (token.files - 1)
      /\ logged' = logged /\ detailBytes' = detailBytes /\ truncated' = truncated
  BY DEF ReadGroup, Valid, Retains, Duplicates, log
<1>2. token \in Tokens /\ token.kind = "group"
  BY TokenTypes DEF GroupTokens
<1>3. DocGroups \in Seq(GroupTokens) /\ DocGroups' = Append(DocGroups, token)
  BY <1>1, <1>2, GroupsRead
<1>4. PICK d \in Seq(GroupTokens) : d = DocGroups /\ DocGroups' = Append(d, token)
  BY <1>3
<1>5. /\ totalGroups = Len(d) /\ totalDuplicates = Len(Pairs(d))
      /\ FirstGroups(kept, d, KeepGroups) /\ FirstPairs(kept, d, KeepGroups)
  BY <1>1, <1>4 DEF TotalsKept
<1>6. totalGroups' = Len(DocGroups')
  <2>1. Len(Append(d, token)) = Len(d) + 1
    BY AppendProperties
  <2> QED
    BY <1>1, <1>4, <1>5, <2>1
<1>7. totalDuplicates' = Len(Pairs(DocGroups'))
  BY <1>1, <1>4, <1>5, PairsCount
<1>8. FirstGroups(kept', DocGroups', KeepGroups)
  BY <1>0, <1>1, <1>4, <1>5, FirstGroupsAppend
<1>9. FirstPairs(kept', DocGroups', KeepGroups)
  BY <1>0, <1>1, <1>4, <1>5, FirstPairsAppend
<1>10. TotalsKept'
  <2>1. totalDuplicates' = Len(Pairs(DocGroups)')
    BY <1>7 DEF Pairs
  <2> QED
    BY <1>1, <1>6, <1>7, <1>8, <1>9 DEF TotalsKept
<1>11. kept' \in Seq(GroupTokens) /\ logged' = <<>> /\ detailBytes' = 0 /\ truncated' = <<>>
  BY <1>1, <1>8 DEF LogState, FirstGroups
<1>12. LogState'
  BY <1>1, <1>11, NothingLogged
<1> QED
  BY <1>10, <1>12

\* A refused document leaves nothing.
LEMMA RefusedIsEmpty ==
  ASSUME LogState, Reading, Refuse
  PROVE  TotalsKept' /\ LogState'
<1>1. /\ at' = "refused" /\ kept' = <<>> /\ totalGroups' = 0 /\ totalDuplicates' = 0
      /\ logged' = <<>> /\ detailBytes' = 0 /\ truncated' = <<>>
  BY DEF Refuse, Reading, LogState, log
<1>2. <<>> \in Seq(GroupTokens)
  OBVIOUS
<1> QED
  BY <1>1, <1>2, NothingLogged DEF TotalsKept

\* A report without groups has nothing to log.
LEMMA EmptyReport ==
  ASSUME doc \in Seq(Tokens), TotalsKept, LogState, Reading, NEW t \in Tokens, Read(t), t.kind # "group",
         kept' = kept, totalGroups' = totalGroups, totalDuplicates' = totalDuplicates,
         logged' = logged, detailBytes' = detailBytes, truncated' = truncated,
         at' = "done", ~(totalGroups > 0)
  PROVE  TotalsKept' /\ LogState'
<1>0. CapBytes \in Nat /\ MaxPairs \in Nat /\ MaxWidth \in Nat /\ KeepGroups \in Nat
  BY BoundsAssumption
<1>1. DocGroups' = DocGroups /\ DocGroups \in Seq(GroupTokens)
  BY GroupsRead
<1>2. at # "refused" /\ at \notin {"log", "summary", "done"}
  BY DEF Reading
<1>3. TotalsKept'
  BY <1>1, <1>2 DEF TotalsKept
<1>4. PICK d \in Seq(GroupTokens) : d = DocGroups /\ Len(d) = 0
  <2>1. totalGroups = Len(DocGroups) /\ Len(DocGroups) \in Nat
    BY <1>1, <1>2 DEF TotalsKept
  <2> QED
    BY <1>1, <2>1
<1>5. d = <<>>
  BY <1>4
<1>6. FirstGroups(kept, d, KeepGroups) /\ totalDuplicates = Len(Pairs(d))
  BY <1>2, <1>4 DEF TotalsKept
<1>7. kept = <<>>
  BY <1>0, <1>4, <1>5, <1>6 DEF FirstGroups
<1>8. Len(<<>>) = 0 /\ <<>> \in Seq(PairOf(Len(<<>>)))
  OBVIOUS
<1>9. totalDuplicates' = 0 /\ Pairs(kept') = <<>> /\ kept' = <<>>
  BY <1>5, <1>6, <1>7, <1>8, PairsEmpty
<1>10. logged' = <<>> /\ detailBytes' = 0 /\ truncated' = <<>>
  BY <1>2 DEF LogState
<1>11. Bytes(logged)' = 0
  <2>1. Bytes(logged)' = BytesOf(DocGroups', logged')
    BY DEF Bytes, BytesOf
  <2> QED
    BY <1>10, <2>1, BytesEmpty
<1>12. Len(logged') = Len(Pairs(kept')) /\ Len(logged') = 0 /\ 1..Len(logged') = {}
  BY <1>8, <1>9, <1>10
<1>13. LogEnded'
  BY <1>12 DEF LogEnded
<1>14. detailBytes' \in 0..(CapBytes + MaxWidth) /\ Bytes(logged)' <= CapBytes
       /\ Len(logged') <= Len(Pairs(kept')) /\ Len(logged') <= MaxPairs /\ ~(Len(logged') < totalDuplicates')
  BY <1>0, <1>9, <1>10, <1>11, <1>12
<1>15. LogState'
  BY <1>8, <1>9, <1>10, <1>12, <1>13, <1>14 DEF LogState
<1> QED
  BY <1>3, <1>15

(***************************************************************************)
(* THE LOG.                                                                *)
(***************************************************************************)

\* A pair of a kept group is a pair of the same group of the document.
LEMMA KeptInDocument ==
  ASSUME doc \in Seq(Tokens), TotalsKept, at # "refused"
  PROVE  /\ DocGroups \in Seq(GroupTokens) /\ Len(DocGroups) \in Nat
         /\ PairOf(Len(kept)) \subseteq PairOf(Len(DocGroups))
         /\ \A p \in PairOf(Len(kept)) : kept[p[1]] = DocGroups[p[1]]
<1>1. DocGroups \in Seq(GroupTokens) /\ Len(DocGroups) \in Nat
  BY GroupsRead
<1>2. FirstGroups(kept, DocGroups, KeepGroups) /\ KeepGroups \in Nat
  BY BoundsAssumption DEF TotalsKept
<1>3. PICK a \in Nat, b \in Nat : a = Len(kept) /\ b = Len(DocGroups) /\ a <= b
  BY <1>2, FirstLength
<1>4. 1..a \subseteq 1..b
  BY <1>3
<1>5. \A p \in PairOf(a) : p[1] \in 1..a
  BY DEF PairOf
<1>6. PairOf(a) \subseteq PairOf(b)
  BY <1>4 DEF PairOf
<1> QED
  BY <1>1, <1>2, <1>3, <1>5, <1>6 DEF FirstGroups

\* The next pair to be logged, and what it adds.
LEMMA NextPairIs ==
  ASSUME doc \in Seq(Tokens), TotalsKept, LogState, at # "refused", Len(logged) < Len(Pairs(kept))
  PROVE  /\ NextPair \in PairOf(Len(kept)) /\ NextPair \in PairOf(Len(DocGroups))
         /\ logged \in Seq(PairOf(Len(DocGroups)))
         /\ kept[NextPair[1]].width \in Nat /\ kept[NextPair[1]].width <= MaxWidth
         /\ Bytes(logged) \in Nat
         /\ BytesOf(DocGroups, Append(logged, NextPair)) = Bytes(logged) + kept[NextPair[1]].width
<1>1. /\ DocGroups \in Seq(GroupTokens) /\ Len(DocGroups) \in Nat
      /\ PairOf(Len(kept)) \subseteq PairOf(Len(DocGroups))
      /\ \A p \in PairOf(Len(kept)) : kept[p[1]] = DocGroups[p[1]]
  BY KeptInDocument
<1>2. PICK n \in Nat, m \in Nat, s \in Seq(PairOf(Len(kept))) :
        n = Len(logged) /\ s = Pairs(kept) /\ m = Len(s) /\ n < m
  <2>1. Pairs(kept) \in Seq(PairOf(Len(kept))) /\ Len(Pairs(kept)) \in Nat
    BY KeptType
  <2>2. Len(logged) \in Nat
    BY DEF LogState
  <2> QED
    BY <2>1, <2>2
<1>3. n + 1 \in 1..m
  BY <1>2
<1>4. s[n + 1] \in PairOf(Len(kept))
  BY <1>2, <1>3
<1>5. NextPair \in PairOf(Len(kept))
  BY <1>2, <1>4 DEF NextPair
<1>a. PICK d \in Seq(GroupTokens) : d = DocGroups
  BY <1>1
<1>6. PICK l \in Seq(PairOf(Len(d))), p \in PairOf(Len(d)) : l = logged /\ p = NextPair
  <2>1. logged \in Seq(PairOf(Len(d)))
    BY <1>1, <1>a DEF LogState
  <2> QED
    BY <1>1, <1>5, <1>a, <2>1
<1>7. BytesOf(d, l) \in Nat /\ BytesOf(d, Append(l, p)) = BytesOf(d, l) + d[p[1]].width
  BY BytesAppend
<1>8. d[p[1]].width \in Nat /\ d[p[1]].width <= MaxWidth
  BY WidthsType
<1>9. kept[NextPair[1]] = d[p[1]]
  BY <1>1, <1>5, <1>6, <1>a
<1>10. Bytes(logged) = BytesOf(d, l)
  BY <1>6, <1>a DEF Bytes, BytesOf
<1> QED
  BY <1>5, <1>6, <1>7, <1>8, <1>9, <1>10, <1>a

\* A step of the log leaves the report alone.
LEMMA ReportStays ==
  ASSUME TotalsKept, doc' = doc, kept' = kept, totalGroups' = totalGroups,
         totalDuplicates' = totalDuplicates, at \in {"log", "summary"}, at' # "refused"
  PROVE  TotalsKept' /\ DocGroups' = DocGroups
<1>1. DocGroups' = DocGroups
  BY DEF DocGroups
<1> QED
  BY <1>1 DEF TotalsKept

\* A logged pair is the next one, within the caps.
LEMMA PairLogged ==
  ASSUME doc \in Seq(Tokens), TotalsKept, LogState, LogPair
  PROVE  TotalsKept' /\ LogState'
<1>0. CapBytes \in Nat /\ MaxPairs \in Nat /\ MaxWidth \in Nat
  BY BoundsAssumption
<1>1. /\ at = "log" /\ at' = "log" /\ doc' = doc /\ kept' = kept /\ totalGroups' = totalGroups
      /\ totalDuplicates' = totalDuplicates /\ truncated' = truncated
      /\ Len(logged) < Len(Pairs(kept)) /\ ~(Len(logged) >= MaxPairs)
      /\ NextBytes <= CapBytes /\ logged' = Append(logged, NextPair) /\ detailBytes' = NextBytes
  BY DEF LogPair, More, PairCapReached, report
<1>2. TotalsKept' /\ DocGroups' = DocGroups
  BY <1>1, ReportStays
<1>3. /\ NextPair \in PairOf(Len(kept)) /\ Bytes(logged) \in Nat
      /\ kept[NextPair[1]].width \in Nat
      /\ BytesOf(DocGroups, Append(logged, NextPair)) = Bytes(logged) + kept[NextPair[1]].width
  BY <1>1, NextPairIs
<1>4. NextBytes = Bytes(logged) + kept[NextPair[1]].width
  BY <1>1 DEF NextBytes, LogState
<1>5. Bytes(logged)' = NextBytes
  <2>1. Bytes(logged)' = BytesOf(DocGroups', logged')
    BY DEF Bytes, BytesOf
  <2> QED
    BY <1>1, <1>2, <1>3, <1>4, <2>1
<1>6. PICK n \in Nat, m \in Nat : n = Len(logged) /\ m = Len(Pairs(kept))
  BY KeptType DEF LogState
<1>7. /\ Append(logged, NextPair) \in Seq(PairOf(Len(kept)))
      /\ Len(Append(logged, NextPair)) = n + 1 /\ Append(logged, NextPair)[n + 1] = NextPair
      /\ \A i \in 1..n : Append(logged, NextPair)[i] = logged[i]
  <2>1. logged \in Seq(PairOf(Len(kept)))
    BY DEF LogState
  <2> QED
    BY <1>3, <1>6, <2>1, AppendProperties
<1>8. \A i \in 1..(n + 1) : logged'[i] = Pairs(kept')[i]
  <2>1. \A i \in 1..(n + 1) : i = n + 1 \/ i \in 1..n
    OBVIOUS
  <2>2. NextPair = Pairs(kept)[n + 1] /\ \A i \in 1..n : logged[i] = Pairs(kept)[i]
    BY <1>6 DEF NextPair, LogState
  <2> QED
    BY <1>1, <1>7, <2>1, <2>2
<1>9. n + 1 <= m /\ n + 1 <= MaxPairs
  BY <1>0, <1>1, <1>6
<1>10. NextBytes \in 0..(CapBytes + MaxWidth)
  <2>1. PICK a \in Nat, b \in Nat : NextBytes = a + b
    BY <1>3, <1>4
  <2>2. a + b <= CapBytes
    BY <1>1, <2>1
  <2> QED
    BY <1>0, <2>1, <2>2
<1>11. truncated' = <<>>
  BY <1>1 DEF LogState
<1>12. /\ logged' \in Seq(PairOf(Len(kept'))) /\ Len(logged') = n + 1
       /\ Len(logged') <= Len(Pairs(kept')) /\ Len(logged') <= MaxPairs
  BY <1>1, <1>6, <1>7, <1>9
<1>13. LogState'
  BY <1>1, <1>5, <1>8, <1>10, <1>11, <1>12 DEF LogState
<1> QED
  BY <1>2, <1>13

\* The loops end for one of the reasons there are.
LEMMA LoopsEnded ==
  ASSUME doc \in Seq(Tokens), TotalsKept, LogState, LogByteCap \/ LogPairsEnd
  PROVE  TotalsKept' /\ LogState'
<1>0. CapBytes \in Nat /\ MaxPairs \in Nat /\ MaxWidth \in Nat
  BY BoundsAssumption
<1>1. /\ at = "log" /\ at' = "summary" /\ doc' = doc /\ kept' = kept /\ totalGroups' = totalGroups
      /\ totalDuplicates' = totalDuplicates /\ truncated' = truncated /\ logged' = logged
  BY DEF LogByteCap, LogPairsEnd, report, log
<1>2. TotalsKept' /\ DocGroups' = DocGroups
  BY <1>1, ReportStays
<1>3. Bytes(logged)' = Bytes(logged) /\ NextPair' = NextPair
  BY <1>1, <1>2 DEF Bytes, NextPair
<1>4. PICK n \in Nat, m \in Nat : n = Len(logged) /\ m = Len(Pairs(kept)) /\ n <= m
  BY KeptType DEF LogState
<1>5. LogEnded /\ detailBytes' \in 0..(CapBytes + MaxWidth)
  <2>1. CASE LogByteCap
    <3>1. Len(logged) < Len(Pairs(kept)) /\ NextBytes > CapBytes /\ detailBytes' = NextBytes
      BY <2>1 DEF LogByteCap, More
    <3>2. kept[NextPair[1]].width \in Nat /\ kept[NextPair[1]].width <= MaxWidth /\ Bytes(logged) \in Nat
      BY <1>1, <3>1, NextPairIs
    <3>3. NextBytes = Bytes(logged) + kept[NextPair[1]].width /\ Bytes(logged) <= CapBytes
      BY <1>1 DEF NextBytes, LogState
    <3>4. NextBytes \in 0..(CapBytes + MaxWidth)
      BY <1>0, <3>2, <3>3
    <3> QED
      BY <3>1, <3>3, <3>4 DEF LogEnded
  <2>2. CASE LogPairsEnd
    <3>1. ~(n < m) \/ Len(logged) >= MaxPairs
      BY <1>4, <2>2 DEF LogPairsEnd, More, PairCapReached
    <3>2. LogEnded
      BY <1>4, <3>1 DEF LogEnded
    <3>3. detailBytes' = detailBytes
      BY <2>2 DEF LogPairsEnd, log
    <3> QED
      BY <3>2, <3>3 DEF LogState
  <2> QED
    BY <2>1, <2>2
<1>6. LogEnded'
  BY <1>1, <1>3, <1>5 DEF LogEnded
<1>7. /\ logged' \in Seq(PairOf(Len(kept'))) /\ Len(logged') <= Len(Pairs(kept')) /\ Len(logged') <= MaxPairs
      /\ \A i \in 1..Len(logged') : logged'[i] = Pairs(kept')[i]
      /\ Bytes(logged)' <= CapBytes /\ truncated' = <<>>
  BY <1>1, <1>3 DEF LogState
<1>8. LogState'
  BY <1>1, <1>5, <1>6, <1>7 DEF LogState
<1> QED
  BY <1>2, <1>8

\* The last line counts what is missing.
LEMMA SummaryLogged ==
  ASSUME TotalsKept, LogState, LogSummary
  PROVE  TotalsKept' /\ LogState'
<1>1. /\ at = "summary" /\ at' = "done" /\ doc' = doc /\ kept' = kept /\ totalGroups' = totalGroups
      /\ totalDuplicates' = totalDuplicates /\ logged' = logged /\ detailBytes' = detailBytes
      /\ truncated' = IF Len(logged) < totalDuplicates THEN <<TruncationLine>> ELSE <<>>
  BY DEF LogSummary, report
<1>2. TotalsKept' /\ DocGroups' = DocGroups
  BY <1>1, ReportStays
<1>3. Bytes(logged)' = Bytes(logged) /\ NextPair' = NextPair /\ TruncationLine' = TruncationLine
  BY <1>1, <1>2 DEF Bytes, NextPair, TruncationLine
<1>4. LogEnded'
  <2>1. LogEnded
    BY <1>1 DEF LogState
  <2> QED
    BY <1>1, <1>3, <2>1 DEF LogEnded
<1>7. /\ logged' \in Seq(PairOf(Len(kept'))) /\ Len(logged') <= Len(Pairs(kept')) /\ Len(logged') <= MaxPairs
      /\ \A i \in 1..Len(logged') : logged'[i] = Pairs(kept')[i]
      /\ Bytes(logged)' <= CapBytes /\ detailBytes' \in 0..(CapBytes + MaxWidth)
  BY <1>1, <1>3 DEF LogState
<1>8. LogState'
  BY <1>1, <1>3, <1>4, <1>7 DEF LogState
<1> QED
  BY <1>2, <1>8

\* It holds of an empty document,
LEMMA Initially == Init => IndInv
<1> SUFFICES ASSUME Init PROVE IndInv
  OBVIOUS
<1>0. KeepGroups \in Nat /\ CapBytes \in Nat /\ MaxPairs \in Nat /\ MaxWidth \in Nat
  BY BoundsAssumption
<1>1. /\ at = "object" /\ doc = <<>> /\ header = FALSE /\ stats = <<>> /\ groupsSeen = FALSE
      /\ kept = <<>> /\ totalGroups = 0 /\ totalDuplicates = 0
      /\ logged = <<>> /\ detailBytes = 0 /\ truncated = <<>>
  BY DEF Init
<1>2. <<>> \in Seq(Tokens) /\ DOMAIN <<>> = {} /\ Len(<<>>) = 0 /\ <<>> \in Seq(GroupTokens)
      /\ <<>> \in Seq(PairOf(0))
  OBVIOUS
<1>3. \A k : Places(k) = {}
  BY <1>1, <1>2 DEF Places
<1>4. StrictInv
  <2>1. Cardinality({}) = 0
    BY FS_EmptySet
  <2>2. ShapeSoFar
    BY <1>1, <1>2, <1>3 DEF ShapeSoFar
  <2>3. MeaningSoFar
    BY <1>1, <1>3, <2>1 DEF MeaningSoFar
  <2> QED
    BY <1>1, <1>2, <2>2, <2>3 DEF StrictInv, StrictContract, Accepted
<1>5. DocGroups = <<>>
  <2>1. [i \in DOMAIN <<>> |-> IF <<>>[i].kind = "group" THEN <<(<<>>[i])>> ELSE <<>>] = <<>>
    OBVIOUS
  <2> QED
    BY <1>1, <2>1, FlattenEmpty DEF DocGroups
<1>6. TotalsKept
  <2>1. 1..0 = {} /\ 0 <= KeepGroups
    BY <1>0
  <2>2. FirstGroups(<<>>, <<>>, KeepGroups)
    BY <1>0, <1>2, <2>1 DEF FirstGroups
  <2>3. FirstPairs(<<>>, <<>>, KeepGroups)
    BY <1>2, <2>1, PairsEmpty DEF FirstPairs
  <2> QED
    BY <1>1, <1>2, <1>5, <2>2, <2>3, PairsEmpty DEF TotalsKept
<1>7. Bytes(logged) = 0
  <2>1. Bytes(logged) = BytesOf(DocGroups, logged)
    BY DEF Bytes, BytesOf
  <2> QED
    BY <1>1, <2>1, BytesEmpty
<1>8. LogState
  <2>1. 1..0 = {} /\ 0 <= MaxPairs /\ 0 <= CapBytes /\ 0 \in 0..(CapBytes + MaxWidth)
    BY <1>0
  <2> QED
    BY <1>1, <1>2, <1>7, <2>1, PairsEmpty DEF LogState
<1>9. FieldTypes
  BY <1>1 DEF FieldTypes
<1> QED
  BY <1>4, <1>6, <1>8, <1>9 DEF IndInv

\* the report and the log keep it in every step,
LEMMA CountsStep ==
  ASSUME IndInv, [Next]_vars
  PROVE  TotalsKept' /\ LogState'
<1>0. doc \in Seq(Tokens) /\ TotalsKept /\ LogState
  BY DEF IndInv, StrictInv
<1>1. ASSUME NEW token \in HeaderTokens, ReadHeader(token) PROVE TotalsKept' /\ LogState'
  <2>1. /\ at' = "object" /\ Reading /\ Read(token) /\ kept' = kept /\ totalGroups' = totalGroups
        /\ totalDuplicates' = totalDuplicates /\ logged' = logged
        /\ detailBytes' = detailBytes /\ truncated' = truncated
    BY <1>1 DEF ReadHeader, Reading, report, log
  <2>2. token \in Tokens /\ token.kind # "group"
    BY TokenTypes DEF HeaderTokens
  <2> QED
    BY <1>0, <2>1, <2>2, OtherRead
<1>2. ASSUME NEW token \in GroupTokens, ReadGroup(token) PROVE TotalsKept' /\ LogState'
  BY <1>0, <1>2, GroupCounted
<1>3. CASE ReadUnknown \/ OpenGroups \/ CloseGroups \/ CloseObject
  <2>1. /\ Reading /\ at' \in {"object", "groups", "closed"} /\ kept' = kept /\ totalGroups' = totalGroups
        /\ totalDuplicates' = totalDuplicates /\ logged' = logged
        /\ detailBytes' = detailBytes /\ truncated' = truncated
    BY <1>3 DEF ReadUnknown, OpenGroups, CloseGroups, CloseObject, Reading, report, log
  <2>2. \E k \in {"unknown", "[", "]", "}"} : Read(Token(k))
    BY <1>3 DEF ReadUnknown, OpenGroups, CloseGroups, CloseObject
  <2>3. PICK t \in Tokens : Read(t) /\ t.kind # "group"
    <3>1. PICK k \in {"unknown", "[", "]", "}"} : Read(Token(k))
      BY <2>2
    <3>2. Token(k) \in Tokens /\ Token(k).kind = k
      BY TokenTypes
    <3>3. Token(k).kind # "group"
      BY <3>2
    <3> QED
      BY <3>1, <3>2, <3>3
  <2> QED
    BY <1>0, <2>1, <2>3, OtherRead
<1>4. CASE ReadBad
  BY <1>0, <1>4, RefusedIsEmpty DEF ReadBad
<1>5. CASE ReadEnd
  <2>0. Reading
    BY <1>5 DEF ReadEnd, Reading
  <2>1. CASE Refuse
    BY <1>0, <2>0, <2>1, RefusedIsEmpty
  <2>2. CASE ~Refuse
    <3>1. /\ at' = (IF totalGroups > 0 THEN "log" ELSE "done") /\ kept' = kept /\ totalGroups' = totalGroups
          /\ totalDuplicates' = totalDuplicates /\ logged' = logged
          /\ detailBytes' = detailBytes /\ truncated' = truncated
      BY <1>5, <2>2 DEF ReadEnd, report, log
    <3>2. PICK t \in Tokens : Read(t) /\ t.kind # "group"
      <4>1. Token("eof") \in Tokens /\ Token("eof").kind = "eof"
        BY TokenTypes
      <4> QED
        BY <1>5, <4>1 DEF ReadEnd
    <3>3. CASE totalGroups > 0
      BY <1>0, <2>0, <3>1, <3>2, <3>3, OtherRead
    <3>4. CASE ~(totalGroups > 0)
      BY <1>0, <2>0, <3>1, <3>2, <3>4, EmptyReport
    <3> QED
      BY <3>3, <3>4
  <2> QED
    BY <2>1, <2>2
<1>6. CASE LogPair
  BY <1>0, <1>6, PairLogged
<1>7. CASE LogByteCap \/ LogPairsEnd
  BY <1>0, <1>7, LoopsEnded
<1>8. CASE LogSummary
  BY <1>0, <1>8, SummaryLogged
<1>9. CASE UNCHANGED vars
  <2>1. /\ doc' = doc /\ at' = at /\ kept' = kept /\ totalGroups' = totalGroups
        /\ totalDuplicates' = totalDuplicates /\ logged' = logged
        /\ detailBytes' = detailBytes /\ truncated' = truncated
    BY <1>9 DEF vars, report, log
  <2>2. DocGroups' = DocGroups
    BY <2>1 DEF DocGroups
  <2>3. Bytes(logged)' = Bytes(logged) /\ NextPair' = NextPair /\ TruncationLine' = TruncationLine
    BY <2>1, <2>2 DEF Bytes, NextPair, TruncationLine
  <2>4. LogEnded' <=> LogEnded
    BY <2>1, <2>3 DEF LogEnded
  <2>5. TotalsKept'
    BY <1>0, <2>1, <2>2 DEF TotalsKept
  <2>6. LogState'
    BY <1>0, <2>1, <2>3, <2>4 DEF LogState
  <2> QED
    BY <2>5, <2>6
<1> QED
  BY <1>1, <1>2, <1>3, <1>4, <1>5, <1>6, <1>7, <1>8, <1>9 DEF Next

\* and so do the fields.
LEMMA FieldsStep ==
  ASSUME IndInv, [Next]_vars
  PROVE  FieldTypes'
<1>0. FieldTypes
  BY DEF IndInv
<1>1. ASSUME NEW token \in HeaderTokens, ReadHeader(token) PROVE FieldTypes'
  <2>1. token.stats \in {<<>>} \union {<<n>> : n \in 0..MaxCount}
    BY DEF HeaderTokens
  <2>2. header' = TRUE /\ stats' = token.stats /\ groupsSeen' = groupsSeen
    BY <1>1 DEF ReadHeader
  <2> QED
    BY <1>0, <2>1, <2>2 DEF FieldTypes
<1>2. CASE OpenGroups
  <2>1. header' = header /\ stats' = stats /\ groupsSeen' = TRUE
    BY <1>2 DEF OpenGroups
  <2> QED
    BY <1>0, <2>1 DEF FieldTypes
<1>3. ASSUME UNCHANGED fields PROVE FieldTypes'
  <2>1. header' = header /\ stats' = stats /\ groupsSeen' = groupsSeen
    BY <1>3 DEF fields
  <2> QED
    BY <1>0, <2>1 DEF FieldTypes
<1>4. \/ \E token \in HeaderTokens : ReadHeader(token)
      \/ OpenGroups
      \/ UNCHANGED fields
  <2>1. ASSUME NEW token \in GroupTokens, ReadGroup(token) PROVE UNCHANGED fields
    BY <2>1 DEF ReadGroup
  <2>2. ReadUnknown \/ CloseGroups \/ CloseObject => UNCHANGED fields
    BY DEF ReadUnknown, CloseGroups, CloseObject
  <2>3. ReadBad \/ ReadEnd => UNCHANGED fields
    BY DEF ReadBad, ReadEnd, Refuse
  <2>4. LogPair \/ LogByteCap \/ LogPairsEnd \/ LogSummary => UNCHANGED fields
    BY DEF LogPair, LogByteCap, LogPairsEnd, LogSummary
  <2>5. UNCHANGED vars => UNCHANGED fields
    BY DEF vars
  <2> QED
    BY <2>1, <2>2, <2>3, <2>4, <2>5 DEF Next
<1> QED
  BY <1>1, <1>2, <1>3, <1>4

\* So it always holds.
LEMMA Invariant == Spec => []IndInv
<1>1. IndInv /\ [Next]_vars => IndInv'
  BY StrictStep, CountsStep, FieldsStep DEF IndInv
<1> QED
  BY <1>1, Initially, PTL DEF Spec

\* The decoder and the log keep their types: at most maxLoggedGroups groups are retained
\* and the byte count never runs further than one pair past its cap.
THEOREM TypeCorrect == Spec => []TypeOK
<1>1. IndInv => TypeOK
  <2> SUFFICES ASSUME IndInv PROVE TypeOK
    OBVIOUS
  <2>1. kept \in Seq(GroupTokens) /\ Len(kept) <= KeepGroups
    BY KeptType DEF IndInv
  <2>2. totalGroups \in Nat /\ totalDuplicates \in Nat
    <3>1. CASE at = "refused"
      BY <3>1 DEF IndInv, TotalsKept
    <3>2. CASE at # "refused"
      <4>1. DocGroups \in Seq(GroupTokens) /\ Len(DocGroups) \in Nat /\ Len(DocGroups) <= Len(DocGroups)
        BY GroupsRead DEF IndInv, StrictInv
      <4>2. Pairs(DocGroups) \in Seq(PairOf(Len(DocGroups)))
        BY <4>1, PairsType
      <4>3. Len(Pairs(DocGroups)) \in Nat
        BY <4>2
      <4> QED
        BY <3>2, <4>1, <4>3 DEF IndInv, TotalsKept
    <3> QED
      BY <3>1, <3>2
  <2>3. Len(truncated) <= 1
    <3>1. truncated = <<>> \/ truncated = <<TruncationLine>>
      BY DEF IndInv, LogState
    <3>2. CASE truncated = <<>>
      BY <3>2
    <3>3. CASE truncated = <<TruncationLine>>
      <4>1. \A x : Len(<<x>>) = 1
        OBVIOUS
      <4>2. Len(truncated) = 1
        BY <3>3, <4>1
      <4> QED
        BY <4>2
    <3> QED
      BY <3>1, <3>2, <3>3
  <2>4. detailBytes \in 0..(CapBytes + MaxWidth)
    BY DEF IndInv, LogState
  <2>5. at \in {"object", "groups", "closed", "refused", "log", "summary", "done"}
    BY DEF IndInv, StrictInv
  <2> QED
    BY <2>1, <2>2, <2>3, <2>4, <2>5 DEF TypeOK, IndInv, FieldTypes
<1> QED
  BY <1>1, Invariant, PTL

\* DecodeReport accepts exactly the whole, consistent reports, whatever the order and the
\* number of headers, arrays and unknown fields, and however long the document.
THEOREM DecoderIsStrict == Spec => []StrictContract
<1>1. IndInv => StrictContract
  BY DEF IndInv, StrictInv
<1> QED
  BY <1>1, Invariant, PTL

\* The totals of an accepted report are those of all its groups, and the groups it retains
\* are the first maxLoggedGroups of the document.
THEOREM ReportIsTheDocuments == Spec => []ReportTellsDocument
<1>1. IndInv => ReportTellsDocument
  <2> SUFFICES ASSUME IndInv, Accepted
               PROVE  /\ totalGroups = Len(DocGroups)
                      /\ totalDuplicates = DocPairs
                      /\ kept = SubSeq(DocGroups, 1, Min({KeepGroups, Len(DocGroups)}))
    BY DEF ReportTellsDocument
  <2>1. /\ totalGroups = Len(DocGroups) /\ totalDuplicates = Len(Pairs(DocGroups))
        /\ FirstGroups(kept, DocGroups, KeepGroups)
    BY DEF IndInv, TotalsKept, Accepted
  <2>2. PICK d \in Seq(GroupTokens), k \in Seq(GroupTokens) : d = DocGroups /\ k = kept
    BY <2>1 DEF FirstGroups
  <2>3. PICK m \in Nat : m = KeepGroups
    BY BoundsAssumption
  <2>4. PICK b \in Nat, a \in Nat : b = Len(d) /\ a = Len(k)
    OBVIOUS
  <2>5. /\ b <= m => k = d
        /\ b > m => a = m
        /\ \A i \in 1..a : k[i] = d[i]
    BY <2>1, <2>2, <2>3, <2>4 DEF FirstGroups
  <2>6. Min({m, b}) = a
    <3>1. Min({m, b}) = IF m <= b THEN m ELSE b
      BY MinOfTwo
    <3>2. a = IF m <= b THEN m ELSE b
      BY <2>4, <2>5
    <3> QED
      BY <3>1, <3>2
  <2>7. k = SubSeq(d, 1, a)
    <3>1. a <= b
      BY <2>4, <2>5
    <3>2. 1 \in 1..(Len(d) + 1) /\ a \in (1 - 1)..Len(d)
      BY <2>4, <3>1
    <3>3. /\ SubSeq(d, 1, a) \in Seq(GroupTokens) /\ Len(SubSeq(d, 1, a)) = a + 1 - 1
          /\ \A i \in 1..(a + 1 - 1) : SubSeq(d, 1, a)[i] = d[1 + i - 1]
      BY <3>2, SubSeqIs
    <3>4. a + 1 - 1 = a /\ \A i \in 1..a : 1 + i - 1 = i
      OBVIOUS
    <3>5. Len(SubSeq(d, 1, a)) = Len(k) /\ \A i \in 1..Len(k) : SubSeq(d, 1, a)[i] = k[i]
      BY <2>4, <2>5, <3>3, <3>4
    <3> QED
      BY <3>3, <3>5, SeqEqual
  <2> QED
    BY <2>1, <2>2, <2>3, <2>4, <2>6, <2>7 DEF DocPairs
<1> QED
  BY <1>1, Invariant, PTL

\* What the end of the log has in common with the document.
LEMMA LogIs ==
  ASSUME IndInv, at = "done"
  PROVE  /\ Pairs(DocGroups) \in Seq(PairOf(Len(DocGroups)))
         /\ DocGroups \in Seq(GroupTokens)
         /\ logged \in Seq(PairOf(Len(DocGroups)))
         /\ Len(logged) <= Len(Pairs(DocGroups))
         /\ \A i \in 1..Len(logged) : logged[i] = Pairs(DocGroups)[i]
<1>1. doc \in Seq(Tokens) /\ TotalsKept /\ LogState
  BY DEF IndInv, StrictInv
<1>2. /\ DocGroups \in Seq(GroupTokens) /\ Len(DocGroups) \in Nat
      /\ PairOf(Len(kept)) \subseteq PairOf(Len(DocGroups))
  BY <1>1, KeptInDocument
<1>3. Len(DocGroups) <= Len(DocGroups)
  BY <1>2
<1>4. Pairs(DocGroups) \in Seq(PairOf(Len(DocGroups)))
  BY <1>2, <1>3, PairsType
<1>5. logged \in Seq(PairOf(Len(kept)))
  BY <1>1 DEF LogState
<1>6. logged \in Seq(PairOf(Len(DocGroups)))
  BY <1>2, <1>5
<1>7. PICK n \in Nat, m \in Nat, k \in Nat :
        n = Len(logged) /\ m = Len(Pairs(DocGroups)) /\ k = Len(Pairs(kept))
  BY <1>1, <1>4, <1>5, KeptType
<1>8. /\ n <= k /\ \A i \in 1..n : logged[i] = Pairs(kept)[i]
  BY <1>1, <1>7 DEF LogState
<1>9. k <= m /\ \A i \in 1..k : Pairs(kept)[i] = Pairs(DocGroups)[i]
  BY <1>1, <1>7 DEF TotalsKept, FirstPairs
<1>10. n <= m /\ \A i \in 1..n : logged[i] = Pairs(DocGroups)[i]
  <2>1. \A i \in 1..n : i \in 1..k
    BY <1>8
  <2> QED
    BY <1>8, <1>9, <2>1
<1> QED
  BY <1>2, <1>4, <1>6, <1>7, <1>10

\* logDuplicateGroups logs the document's pairs in order and, if it leaves any out, says so
\* in a line with the document's totals.
THEOREM LogIsTheDocuments == Spec => []LogTellsDocument
<1>1. IndInv => LogTellsDocument
  <2> SUFFICES ASSUME IndInv, at = "done"
               PROVE  /\ IsPrefix(logged, Pairs(DocGroups))
                      /\ IF logged = Pairs(DocGroups) THEN truncated = <<>>
                         ELSE /\ Len(truncated) = 1
                              /\ truncated[1].loggedPairs = Len(logged)
                              /\ truncated[1].totalPairs = DocPairs
                              /\ truncated[1].totalGroups = Len(DocGroups)
    BY DEF LogTellsDocument
  <2>0. PICK S : S = PairOf(Len(DocGroups))
    OBVIOUS
  <2>1. PICK p \in Seq(S), l \in Seq(S) : p = Pairs(DocGroups) /\ l = logged
    BY <2>0, LogIs
  <2>2. Len(l) <= Len(p) /\ \A i \in 1..Len(l) : l[i] = p[i]
    BY <2>1, LogIs
  <2>3. PICK n \in Nat, m \in Nat : n = Len(l) /\ m = Len(p)
    OBVIOUS
  <2>4. IsPrefix(l, p)
    <3>1. /\ 1 \in 1..(Len(l) + 1) /\ n \in (1 - 1)..Len(l)
          /\ 1 \in 1..(Len(p) + 1) /\ n \in (1 - 1)..Len(p)
      BY <2>2, <2>3
    <3>2. /\ SubSeq(l, 1, n) \in Seq(S) /\ Len(SubSeq(l, 1, n)) = n + 1 - 1
          /\ \A i \in 1..(n + 1 - 1) : SubSeq(l, 1, n)[i] = l[1 + i - 1]
      BY <3>1, SubSeqIs
    <3>3. /\ SubSeq(p, 1, n) \in Seq(S) /\ Len(SubSeq(p, 1, n)) = n + 1 - 1
          /\ \A i \in 1..(n + 1 - 1) : SubSeq(p, 1, n)[i] = p[1 + i - 1]
      BY <3>1, SubSeqIs
    <3>4. n + 1 - 1 = n /\ \A i \in 1..n : 1 + i - 1 = i
      OBVIOUS
    <3>5. \A i \in 1..n : SubSeq(l, 1, n)[i] = SubSeq(p, 1, n)[i]
      BY <2>2, <2>3, <3>2, <3>3, <3>4
    <3>6. SubSeq(l, 1, n) = SubSeq(p, 1, n)
      BY <3>2, <3>3, <3>4, <3>5, SeqEqual
    <3> QED
      BY <2>2, <2>3, <3>6 DEF IsPrefix
  <2>5. /\ truncated = (IF Len(logged) < totalDuplicates THEN <<TruncationLine>> ELSE <<>>)
        /\ totalDuplicates = m /\ totalGroups = Len(DocGroups)
    BY <2>1, <2>3 DEF IndInv, LogState, TotalsKept
  <2>6. CASE l = p
    <3>1. ~(n < m)
      BY <2>3, <2>6
    <3> QED
      BY <2>1, <2>3, <2>4, <2>5, <2>6, <3>1
  <2>7. CASE l # p
    <3>1. n # m
      BY <2>2, <2>3, <2>7, SeqEqual
    <3>2. n < m
      BY <2>2, <2>3, <3>1
    <3>3. truncated = <<TruncationLine>>
      BY <2>1, <2>3, <2>5, <3>2
    <3>4. Len(truncated) = 1 /\ truncated[1] = TruncationLine
      BY <3>3
    <3>5. /\ TruncationLine.loggedPairs = Len(logged) /\ TruncationLine.totalPairs = totalDuplicates
          /\ TruncationLine.totalGroups = totalGroups
      BY DEF TruncationLine
    <3> QED
      BY <2>1, <2>3, <2>4, <2>5, <2>7, <3>4, <3>5 DEF DocPairs
  <2> QED
    BY <2>6, <2>7
<1> QED
  BY <1>1, Invariant, PTL

\* What the log may hold.
Within(pairs) ==
  /\ Len(pairs) <= MaxPairs /\ Bytes(pairs) <= CapBytes
  /\ \A i \in DOMAIN pairs : pairs[i][1] <= KeepGroups

\* The log keeps within its three caps and is cut nowhere else: one more line would pass
\* maxLoggedGroups, maxLoggedPairs or logDetailCapBytes.
THEOREM LogEndsAtACap == Spec => []LogCutAtCaps
<1>1. IndInv => LogCutAtCaps
  <2> SUFFICES ASSUME IndInv, at = "done"
               PROVE  /\ Within(logged)
                      /\ Len(logged) < Len(Pairs(DocGroups)) =>
                           ~Within(SubSeq(Pairs(DocGroups), 1, Len(logged) + 1))
    BY DEF LogCutAtCaps, Within
  <2>0. doc \in Seq(Tokens) /\ TotalsKept /\ LogState /\ at # "refused"
    BY DEF IndInv, StrictInv
  <2>1. Within(logged)
    <3>1. Len(kept) \in Nat /\ Len(kept) <= KeepGroups /\ KeepGroups \in Nat
      BY <2>0, KeptType, BoundsAssumption
    <3>2. logged \in Seq(PairOf(Len(kept))) /\ Len(logged) <= MaxPairs /\ Bytes(logged) <= CapBytes
      BY <2>0 DEF LogState
    <3>3. ASSUME NEW i \in DOMAIN logged PROVE logged[i][1] <= KeepGroups
      <4>1. logged[i] \in PairOf(Len(kept))
        BY <3>2
      <4>2. logged[i][1] \in 1..Len(kept)
        BY <4>1 DEF PairOf
      <4> QED
        BY <3>1, <4>2
    <3> QED
      BY <3>2, <3>3 DEF Within
  <2>2. ASSUME Len(logged) < Len(Pairs(DocGroups))
        PROVE  ~Within(SubSeq(Pairs(DocGroups), 1, Len(logged) + 1))
    <3>0. PICK S : S = PairOf(Len(DocGroups))
      OBVIOUS
    <3>1. PICK p \in Seq(S), l \in Seq(S) : p = Pairs(DocGroups) /\ l = logged
      BY <3>0, LogIs
    <3>2. PICK n \in Nat, m \in Nat : n = Len(l) /\ m = Len(p) /\ n < m
      BY <2>2, <3>1
    <3>3. \A i \in 1..n : l[i] = p[i]
      BY <3>1, <3>2, LogIs
    <3>4. PICK c \in Nat : c = n + 1 /\ c \in 1..m
      BY <3>2
    <3>5. PICK s \in Seq(S) : /\ s = SubSeq(p, 1, c) /\ Len(s) = c /\ \A i \in 1..c : s[i] = p[i]
      <4>1. 1 \in 1..(Len(p) + 1) /\ c \in (1 - 1)..Len(p)
        BY <3>2, <3>4
      <4>2. /\ SubSeq(p, 1, c) \in Seq(S) /\ Len(SubSeq(p, 1, c)) = c + 1 - 1
            /\ \A i \in 1..(c + 1 - 1) : SubSeq(p, 1, c)[i] = p[1 + i - 1]
        BY <4>1, SubSeqIs
      <4>3. c + 1 - 1 = c /\ \A i \in 1..c : 1 + i - 1 = i
        OBVIOUS
      <4> QED
        BY <4>2, <4>3
    <3>6. SubSeq(Pairs(DocGroups), 1, Len(logged) + 1) = s
      BY <3>1, <3>2, <3>4, <3>5
    <3>7. c \in DOMAIN s /\ s[c] = p[c] /\ p[c] \in S
      BY <3>2, <3>4, <3>5
    <3>8. LogEnded
      BY <2>0 DEF LogState
    <3>9. CASE Len(logged) = Len(Pairs(kept))
      <4>1. \A i \in 1..Len(Pairs(DocGroups)) : i > Len(Pairs(kept)) => Pairs(DocGroups)[i][1] > KeepGroups
        BY <2>0 DEF TotalsKept, FirstPairs
      <4>2. c > n
        BY <3>4
      <4>3. s[c][1] > KeepGroups
        BY <3>1, <3>2, <3>4, <3>7, <3>9, <4>1, <4>2
      <4>4. s[c][1] \in Nat /\ KeepGroups \in Nat
        <5>1. p[c][1] \in 1..Len(DocGroups)
          BY <3>0, <3>7 DEF PairOf
        <5> QED
          BY <3>7, <5>1, BoundsAssumption
      <4>5. ~(s[c][1] <= KeepGroups)
        BY <4>3, <4>4
      <4> QED
        BY <3>6, <3>7, <4>5 DEF Within
    <3>10. CASE Len(logged) >= MaxPairs
      <4>1. MaxPairs \in Nat
        BY BoundsAssumption
      <4>2. ~(Len(s) <= MaxPairs)
        BY <3>1, <3>2, <3>4, <3>5, <3>10, <4>1
      <4> QED
        BY <3>6, <4>2 DEF Within
    <3>11. CASE Len(logged) < Len(Pairs(kept)) /\ Bytes(logged) + kept[NextPair[1]].width > CapBytes
      <4>1. /\ NextPair \in S /\ kept[NextPair[1]].width \in Nat /\ Bytes(logged) \in Nat
            /\ BytesOf(DocGroups, Append(logged, NextPair)) = Bytes(logged) + kept[NextPair[1]].width
        BY <2>0, <3>0, <3>11, NextPairIs
      <4>2. NextPair = p[c]
        <5>1. NextPair = Pairs(kept)[c]
          BY <3>1, <3>2, <3>4 DEF NextPair
        <5>2. \A i \in 1..Len(Pairs(kept)) : Pairs(kept)[i] = Pairs(DocGroups)[i]
          BY <2>0 DEF TotalsKept, FirstPairs
        <5>3. c \in 1..Len(Pairs(kept))
          <6>1. PICK k \in Nat : k = Len(Pairs(kept))
            BY <2>0, KeptType
          <6>2. n < k
            BY <3>1, <3>2, <3>11, <6>1
          <6> QED
            BY <3>4, <6>1, <6>2
        <5> QED
          BY <3>1, <5>1, <5>2, <5>3
      <4>3. s = Append(l, p[c])
        <5>1. /\ Append(l, p[c]) \in Seq(S) /\ Len(Append(l, p[c])) = n + 1
              /\ Append(l, p[c])[n + 1] = p[c] /\ \A i \in 1..n : Append(l, p[c])[i] = l[i]
          BY <3>2, <3>7, AppendProperties
        <5>2. \A i \in 1..c : i = n + 1 \/ i \in 1..n
          BY <3>4
        <5>3. \A i \in 1..c : s[i] = Append(l, p[c])[i]
          BY <3>3, <3>4, <3>5, <5>1, <5>2
        <5> QED
          BY <3>4, <3>5, <5>1, <5>3, SeqEqual
      <4>4. Bytes(s) = Bytes(logged) + kept[NextPair[1]].width
        <5>1. Bytes(s) = BytesOf(DocGroups, s)
          BY DEF Bytes, BytesOf
        <5> QED
          BY <3>1, <4>1, <4>2, <4>3, <5>1
      <4>5. CapBytes \in Nat
        BY BoundsAssumption
      <4>6. ~(Bytes(s) <= CapBytes)
        BY <3>11, <4>1, <4>4, <4>5
      <4> QED
        BY <3>6, <4>6 DEF Within
    <3> QED
      BY <3>8, <3>9, <3>10, <3>11 DEF LogEnded
  <2> QED
    BY <2>1, <2>2
<1> QED
  BY <1>1, Invariant, PTL
=============================================================================
