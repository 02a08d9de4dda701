---------------------------- MODULE ActionCapture ---------------------------
(***************************************************************************)
(* The verdict on a finished action (scheduler.go, runFclonesAction): the  *)
(* child's two streams go through capped buffers (internal/capbuf) and the *)
(* summary is searched for in what they kept (internal/parsing).           *)
(*                                                                         *)
(* Output is a sequence of words; "nl" ends a line.  The cap counts words  *)
(* where the code counts bytes, so a cut falls between words only.         *)
(***************************************************************************)
EXTENDS JobOutcome, Naturals, Sequences, FiniteSetsExt, SequencesExt

CONSTANTS
  StreamCap,     \* words a buffer keeps (streamCapBytes, 1 MB)
  MaxWarnings    \* bound: warning lines the child prints before its summary

ASSUME StreamCapAssumption == StreamCap \in Nat
ASSUME MaxWarningsAssumption == MaxWarnings \in Nat

Streams == {"stderr", "stdout"}

VARIABLES
  left,    \* what the child has still to write, per stream
  buf,     \* what each capped buffer keeps
  total,   \* words ever written to each buffer
  script   \* the child's whole output and what it did; constant

vars == <<left, buf, total, script>>

(***************************************************************************)
(* The child: a warning for every file it could not open, the first one a  *)
(* longer one or not, then a summary.  A dry run words its summary         *)
(* differently.  (External: fclones.)                                      *)
(***************************************************************************)
WarningLine == <<"warn", "nl">>
SummaryLine(done) ==
  CASE done = "dry"  -> <<"Would", "process", "nl">>
    [] OTHER -> <<"Processed", done, "files", "and", "reclaimed", "1", "MB", "space", "nl">>

Warnings(long, n) ==
  (IF long THEN <<"warn", "warn", "nl">> ELSE <<>>) \o FlattenSeq([i \in 1..n |-> WarningLine])

Output(long, n, done) == Warnings(long, n) \o SummaryLine(done)

\* An action that did nothing warned about each duplicate it left alone.
Scripts ==
  {[done |-> d, to |-> s, out |-> [t \in Streams |-> IF t = s THEN Output(l, n, d) ELSE <<>>]] :
     d \in {"dry", "zero", "some"}, s \in Streams, l \in BOOLEAN, n \in 0..MaxWarnings}

Init ==
  /\ script \in Scripts
  /\ left = script.out
  /\ buf = [t \in Streams |-> <<>>]
  /\ total = [t \in Streams |-> 0]

\* A mutant: a chunk that does not fit is dropped as a whole.
WriteWholeOrNothing(t, n) ==
  /\ n \in 1..Len(left[t])
  /\ left' = [left EXCEPT ![t] = SubSeq(@, n + 1, Len(@))]
  /\ total' = [total EXCEPT ![t] = @ + n]
  /\ buf' = [buf EXCEPT ![t] = IF n <= StreamCap - Len(@)
                               THEN @ \o SubSeq(left[t], 1, n) ELSE @]
  /\ UNCHANGED script

\* Buffer.Write: a chunk of n words arrives; what fits under the cap is kept.
Write(t, n) ==
  /\ n \in 1..Len(left[t])
  /\ left' = [left EXCEPT ![t] = SubSeq(@, n + 1, Len(@))]
  /\ total' = [total EXCEPT ![t] = @ + n]
  /\ buf' = [buf EXCEPT ![t] = @ \o SubSeq(left[t], 1, Min({n, StreamCap - Len(@)}))]
  /\ UNCHANGED script

Exited == \A t \in Streams : left[t] = <<>>
Next == \/ \E t \in Streams : \E n \in 1..Len(left[t]) : Write(t, n)
        \/ Exited /\ UNCHANGED vars

Spec == Init /\ [][Next]_vars

(***************************************************************************)
(* THE VERDICT.                                                            *)
(***************************************************************************)
Truncated(t) == total[t] > StreamCap

\* Positions i and j of `words` are on the same line.
SameLine(words, i, j) == \A k \in Min({i, j})..Max({i, j}) : words[k] # "nl"

\* Where a summary begins: "Processed" on a line that also says "reclaimed".
SummaryStarts(words) ==
  {i \in DOMAIN words : words[i] = "Processed" /\
     \E j \in DOMAIN words : words[j] = "reclaimed" /\ SameLine(words, i, j)}

\* The fields from position i to the end of its line.
Fields(words, i) ==
  SubSeq(words, i, Max({j \in i..Len(words) : SameLine(words, i, j)}))

\* A mutant: the count is read only off a line with one field more.
ParseActionSummaryOffByOne(words) ==
  LET starts == SummaryStarts(words)
  IN  IF starts = {} THEN "none"
      ELSE LET fields == Fields(words, Min(starts))
           IN  IF Len(fields) < 8 THEN "zero" ELSE fields[2]

(***************************************************************************)
(* ParseActionSummary: the first line with "Processed" and "reclaimed" is  *)
(* the summary.  reclaimedMetrics reads no count off fewer than 7 fields,  *)
(* and the summary then counts as recognised with zero files.              *)
(***************************************************************************)
ParseActionSummary(words) ==
  LET starts == SummaryStarts(words)
  IN  IF starts = {} THEN "none"
      ELSE LET fields == Fields(words, Min(starts))
           IN  IF Len(fields) < 7 THEN "zero" ELSE fields[2]

\* resolveActionSummary: stderr's summary, else stdout's.
resolveActionSummary(stderr, stdout) ==
  LET summary == ParseActionSummary(stderr)
  IN  IF summary # "none" THEN summary ELSE ParseActionSummary(stdout)

ActionErr == actionAccomplishedNothing(resolveActionSummary(buf["stderr"], buf["stdout"]))

(***************************************************************************)
(* However the output is cut into writes, a buffer keeps exactly the first *)
(* words of it that fit, and Truncated says whether any were lost.         *)
(***************************************************************************)
CaptureIsPrefix ==
  \A t \in Streams :
    /\ IsPrefix(buf[t], script.out[t])
    /\ total[t] = Len(script.out[t]) - Len(left[t])
    /\ Len(buf[t]) = Min({StreamCap, total[t]})
    /\ Truncated(t) <=> Len(buf[t]) < total[t]

\* The capture holds the first k words of the summary at least.
SummaryKept(k) ==
  Len(buf[script.to]) + Len(SummaryLine(script.done)) >= Len(script.out[script.to]) + k

(***************************************************************************)
(* The verdict on an action, wherever the cap cuts its output.  As long as *)
(* the summary is kept to its seventh word, the run fails exactly if the   *)
(* action processed nothing.  Cut between "reclaimed", the fifth, and that *)
(* word, it counts as a summary of zero files and the run fails, whatever  *)
(* the action did; cut before "reclaimed" it is no summary and the run     *)
(* passes.  A dry run never fails.                                         *)
(***************************************************************************)
VerdictSound ==
  Exited =>
    IF script.done = "dry" THEN ~ActionErr
    ELSE ActionErr <=> (IF SummaryKept(7) THEN script.done = "zero" ELSE SummaryKept(5))

(***************************************************************************)
(* What docs/how-it-works.md says: "an action that found duplicates and    *)
(* processed none of them fails the run".                                  *)
(***************************************************************************)
NoOpActionFails == Exited /\ script.done = "zero" => ActionErr
=============================================================================
