------------------------------- MODULE Report -------------------------------
(***************************************************************************)
(* The report of a scan (internal/parsing DecodeReport, scheduler.go       *)
(* logDuplicateGroups): decoded strictly, token by token, without ever     *)
(* being held as a whole, and then logged pair by pair under three caps.   *)
(*                                                                         *)
(* The document is what has been read of it.  Tokens are whole values      *)
(* where the decoder takes them whole: a header, known by its stats (<<n>> *)
(* with the group count n, or <<>> if header or stats are null or absent), *)
(* a group, known by its number of files, the sign of its file_len and the *)
(* bytes its paths take in a log line, an unknown field, the brackets of   *)
(* the groups array and of the document, "junk" for whatever does not      *)
(* decode, and "eof".                                                      *)
(***************************************************************************)
EXTENDS Naturals, Sequences, SequencesExt, FiniteSetsExt

CONSTANTS
  KeepGroups,  \* maxLoggedGroups
  MaxPairs,    \* maxLoggedPairs
  CapBytes,    \* logDetailCapBytes
  MaxTokens,   \* bound on the tokens of a document before its end
  MaxCount,    \* bound on the count a header claims
  MaxFiles,    \* bound on the files of a group
  MaxWidth     \* bound on the bytes of one pair

ASSUME BoundsAssumption ==
  \A bound \in {KeepGroups, MaxPairs, CapBytes, MaxTokens, MaxCount, MaxFiles, MaxWidth} :
    bound \in Nat

VARIABLES
  at,              \* control point
  doc,             \* the tokens read so far
  header,          \* a header was met
  stats,           \* the stats of the last one
  groupsSeen,      \* a "groups" field was met
  kept,            \* report.Groups
  totalGroups,     \* report.TotalGroups
  totalDuplicates, \* report.TotalDuplicates
  logged,          \* the "duplicate file" lines, as <<group, duplicate>>
  detailBytes,     \* the bytes counted against the cap
  truncated        \* the "duplicate pairs truncated" line, if any

report == <<kept, totalGroups, totalDuplicates>>
log == <<logged, detailBytes, truncated>>
fields == <<header, stats, groupsSeen>>
vars == <<at, doc, fields, report, log>>

Token(kind) == [kind |-> kind]
HeaderTokens == [kind : {"header"}, stats : {<<>>} \union {<<n>> : n \in 0..MaxCount}]
GroupTokens ==
  [kind : {"group"}, files : 0..MaxFiles, negative : BOOLEAN, width : 1..MaxWidth]

Init ==
  /\ at = "object"
  /\ doc = <<>>
  /\ header = FALSE
  /\ stats = <<>>
  /\ groupsSeen = FALSE
  /\ kept = <<>> /\ totalGroups = 0 /\ totalDuplicates = 0
  /\ logged = <<>> /\ detailBytes = 0 /\ truncated = <<>>

Reading == at \in {"object", "groups", "closed"}

Read(token) == doc' = Append(doc, token)

\* Tokens are left for a document that goes on.
Room == Len(doc) < MaxTokens

\* field, "header": a new header replaces the one before it.
ReadHeader(token) ==
  /\ at = "object" /\ Room
  /\ Read(token)
  /\ header' = TRUE
  /\ stats' = token.stats
  /\ UNCHANGED <<at, groupsSeen, report, log>>

\* field, default: an unknown field is skipped.
ReadUnknown ==
  /\ at = "object" /\ Room
  /\ Read(Token("unknown"))
  /\ UNCHANGED <<at, fields, report, log>>

\* field, "groups": the array is opened; a second one goes on counting.
OpenGroups ==
  /\ at = "object" /\ Room
  /\ Read(Token("["))
  /\ at' = "groups"
  /\ groupsSeen' = TRUE
  /\ UNCHANGED <<header, stats, report, log>>

\* decodeGroups: a keeper and a duplicate at least, and a length.
Valid(token) == token.files >= 2 /\ ~token.negative

\* A mutant: one group too many is retained.
RetainsOffByOne == Len(kept) <= KeepGroups

\* decodeGroups: the first groups of the document are retained.
Retains == Len(kept) < KeepGroups

\* A mutant: the keeper is counted as well.
DuplicatesAndKeeper(token) == token.files

\* decodeGroups: all but the keeper.
Duplicates(token) == token.files - 1

\* decodeGroups: one group is decoded, counted, and retained or let go.
ReadGroup(token) ==
  /\ at = "groups" /\ Room
  /\ Valid(token)
  /\ Read(token)
  /\ kept' = IF Retains THEN Append(kept, token) ELSE kept
  /\ totalGroups' = totalGroups + 1
  /\ totalDuplicates' = totalDuplicates + Duplicates(token)
  /\ UNCHANGED <<at, fields, log>>

CloseGroups ==
  /\ at = "groups" /\ Room
  /\ Read(Token("]"))
  /\ at' = "object"
  /\ UNCHANGED <<fields, report, log>>

CloseObject ==
  /\ at = "object" /\ Room
  /\ Read(Token("}"))
  /\ at' = "closed"
  /\ UNCHANGED <<fields, report, log>>

\* An error: DecodeReport returns an empty report beside it.
Refuse ==
  /\ at' = "refused"
  /\ kept' = <<>> /\ totalGroups' = 0 /\ totalDuplicates' = 0
  /\ UNCHANGED <<fields, log>>

\* A token that cannot come here, a group that is none, or the end too soon.
ReadBad ==
  /\ Reading
  /\ \/ Read(Token("eof")) /\ at # "closed"
     \/ Room /\ Read(Token("junk"))
     \/ Room /\ at # "groups" /\ Read(Token("]"))
     \/ Room /\ at # "object" /\ Read(Token("}"))
     \/ Room /\ at = "groups" /\ \E token \in GroupTokens : ~Valid(token) /\ Read(token)
  /\ Refuse

(***************************************************************************)
(* The document ends: d.End, and the cross-checks of DecodeReport.         *)
(***************************************************************************)
Complete == header /\ stats # <<>> /\ groupsSeen

\* A mutant: a document that claims more groups than it has is accepted.
AgreesAtLeast == Complete /\ stats[1] >= totalGroups

\* The header's group count is the number of groups read.
Agrees == Complete /\ stats[1] = totalGroups

ReadEnd ==
  /\ at = "closed"
  /\ Read(Token("eof"))
  /\ \/ ~Agrees /\ Refuse
     \/ /\ Agrees
        /\ at' = IF totalGroups > 0 THEN "log" ELSE "done"
        /\ UNCHANGED <<fields, report, log>>

(***************************************************************************)
(* logDuplicateGroups over the retained groups.                            *)
(***************************************************************************)
\* The pairs of some groups in the order of the two loops.
Pairs(groups) ==
  FlattenSeq([i \in DOMAIN groups |-> [j \in 1..(groups[i].files - 1) |-> <<i, j>>]])

\* A mutant: the pair cap lets one more through.
PairCapReachedLate == Len(logged) > MaxPairs

\* pairsEmitted >= maxLoggedPairs
PairCapReached == Len(logged) >= MaxPairs

More == Len(logged) < Len(Pairs(kept)) /\ ~PairCapReached
NextPair == Pairs(kept)[Len(logged) + 1]
NextBytes == detailBytes + kept[NextPair[1]].width

LogPair ==
  /\ at = "log" /\ More /\ NextBytes <= CapBytes
  /\ logged' = Append(logged, NextPair)
  /\ detailBytes' = NextBytes
  /\ UNCHANGED <<at, doc, fields, report, truncated>>

\* The byte cap ends the loops with the pair that would pass it.
LogByteCap ==
  /\ at = "log" /\ More /\ NextBytes > CapBytes
  /\ detailBytes' = NextBytes
  /\ at' = "summary"
  /\ UNCHANGED <<doc, fields, report, logged, truncated>>

\* The pairs or their cap are used up.
LogPairsEnd ==
  /\ at = "log" /\ ~More
  /\ at' = "summary"
  /\ UNCHANGED <<doc, fields, report, log>>

TruncationLine ==
  [loggedPairs |-> Len(logged), totalPairs |-> totalDuplicates,
   loggedGroups |-> Len(kept), totalGroups |-> totalGroups]

\* A mutant: pairs of groups that were not retained do not count.
LogSummaryOfKept ==
  /\ at = "summary"
  /\ at' = "done"
  /\ truncated' = IF Len(logged) < Len(Pairs(kept)) THEN <<TruncationLine>> ELSE <<>>
  /\ UNCHANGED <<doc, fields, report, logged, detailBytes>>

\* What was left out is told with the totals of the whole document.
LogSummary ==
  /\ at = "summary"
  /\ at' = "done"
  /\ truncated' = IF Len(logged) < totalDuplicates THEN <<TruncationLine>> ELSE <<>>
  /\ UNCHANGED <<doc, fields, report, logged, detailBytes>>

Next ==
  \/ \E token \in HeaderTokens : ReadHeader(token)
  \/ \E token \in GroupTokens : ReadGroup(token)
  \/ ReadUnknown \/ OpenGroups \/ CloseGroups \/ CloseObject \/ ReadBad \/ ReadEnd
  \/ LogPair \/ LogByteCap \/ LogPairsEnd \/ LogSummary

Spec == Init /\ [][Next]_vars

(***************************************************************************)
(* PROPERTIES, over the document and never over what the decoder counted.  *)
(***************************************************************************)
Accepted == at \in {"log", "summary", "done"}

Places(kind) == {i \in DOMAIN doc : doc[i].kind = kind}
Before(kind, i) == {k \in Places(kind) : k < i}

\* The groups of the document, and how many pairs they make.
DocGroups ==
  FlattenSeq([i \in DOMAIN doc |-> IF doc[i].kind = "group" THEN <<doc[i]>> ELSE <<>>])
DocPairs == Len(Pairs(DocGroups))

\* The bytes some pairs of the document take in the log.
Total(numbers) ==
  LET sum[i \in 0..Len(numbers)] == IF i = 0 THEN 0 ELSE sum[i - 1] + numbers[i]
  IN  sum[Len(numbers)]
Bytes(pairs) == Total([i \in DOMAIN pairs |-> DocGroups[pairs[i][1]].width])

\* The shape of a JSON report, by the positions of its tokens.
WellFormed ==
  LET inside(i) == Cardinality(Before("[", i)) > Cardinality(Before("]", i))
  IN  /\ Places("junk") = {}
      /\ Places("}") = {Len(doc) - 1} /\ Places("eof") = {Len(doc)}
      /\ \A i \in Places("group") \union Places("]") : inside(i)
      /\ \A i \in DOMAIN doc \ (Places("group") \union Places("]")) : ~inside(i)

\* What the report must hold: the last header counts, the groups add up.
Sound ==
  /\ Places("header") # {} /\ Places("[") # {}
  /\ doc[Max(Places("header"))].stats = <<Cardinality(Places("group"))>>
  /\ \A i \in Places("group") : doc[i].files >= 2 /\ ~doc[i].negative

TypeOK ==
  /\ at \in {"object", "groups", "closed", "refused", "log", "summary", "done"}
  /\ header \in BOOLEAN
  /\ stats \in {<<>>} \union {<<n>> : n \in 0..MaxCount}
  /\ groupsSeen \in BOOLEAN
  /\ kept \in Seq(GroupTokens) /\ Len(kept) <= KeepGroups
  /\ totalGroups \in Nat /\ totalDuplicates \in Nat
  /\ detailBytes \in 0..(CapBytes + MaxWidth)
  /\ Len(truncated) <= 1

(***************************************************************************)
(* The strictness contract, both ways: a document is accepted exactly if   *)
(* it is a whole report and its header agrees with its groups, wherever    *)
(* the header stands, however the groups are spread and whatever unknown   *)
(* fields come with them.                                                  *)
(***************************************************************************)
StrictContract ==
  /\ Accepted => WellFormed /\ Sound
  /\ at = "refused" => ~(WellFormed /\ Sound)

(***************************************************************************)
(* An accepted report tells the whole document: the totals are those of    *)
(* all its groups, and the retained groups are its first ones.             *)
(***************************************************************************)
ReportTellsDocument ==
  Accepted =>
    /\ totalGroups = Len(DocGroups)
    /\ totalDuplicates = DocPairs
    /\ kept = SubSeq(DocGroups, 1, Min({KeepGroups, Len(DocGroups)}))

(***************************************************************************)
(* The log tells every pair of the document in order, or says in a line    *)
(* with the document's totals that it does not.                            *)
(***************************************************************************)
LogTellsDocument ==
  at = "done" =>
    /\ IsPrefix(logged, Pairs(DocGroups))
    /\ IF logged = Pairs(DocGroups) THEN truncated = <<>>
       ELSE /\ Len(truncated) = 1
            /\ truncated[1].loggedPairs = Len(logged)
            /\ truncated[1].totalPairs = DocPairs
            /\ truncated[1].totalGroups = Len(DocGroups)

(***************************************************************************)
(* The log is cut at a cap and nowhere else: it keeps within all three,    *)
(* and one more line would pass one of them.                               *)
(***************************************************************************)
LogCutAtCaps ==
  LET within(pairs) == /\ Len(pairs) <= MaxPairs /\ Bytes(pairs) <= CapBytes
                       /\ \A i \in DOMAIN pairs : pairs[i][1] <= KeepGroups
  IN  at = "done" =>
        /\ within(logged)
        /\ Len(logged) < Len(Pairs(DocGroups)) =>
             ~within(SubSeq(Pairs(DocGroups), 1, Len(logged) + 1))
=============================================================================
