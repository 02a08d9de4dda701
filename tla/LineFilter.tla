----------------------------- MODULE LineFilter -----------------------------
(***************************************************************************)
(* The filter between fclones' standard error and the container log        *)
(* (internal/linefilter): the child's output comes in writes of any size,  *)
(* lines are put together, noise is dropped, unsafe bytes are made         *)
(* visible, and a line without end is forced out at a cap.                 *)
(*                                                                         *)
(* A byte is a member of a small alphabet.  The words the filter looks for *)
(* count as one byte each: "fc" is "fclones:", "info", "warn" and "err"    *)
(* are levels with their colon, "scan" is a progress phrase, "fs" and      *)
(* "fiemap" frame the FIEMAP notice.  "lead" and "cont" are the two bytes  *)
(* of a rune, "ctl" is a control byte, "esc" a byte written as \xNN.       *)
(***************************************************************************)
EXTENDS Naturals, SequencesExt

CONSTANTS
  Streams,      \* what fclones may write to its standard error
  MaxLineBytes  \* cap of the partial-line buffer

Bytes == {"nl", "ctl", "esc", "lead", "cont", "fc", "info", "warn", "err",
          "scan", "fs", "fiemap", "txt"}

ASSUME CapAssumption == MaxLineBytes \in Nat \ {0}
ASSUME StreamsAssumption == \A s \in Streams : s \in Seq(Bytes)

VARIABLES
  stream,  \* what this child writes
  pos,     \* how much of it has been written
  pc,      \* "idle", "loop" in Write, "failed" after a sink error, "done"
  work,    \* Write's local buffer
  buf,     \* the partial line kept between writes
  floods,  \* how often the cap forced a line out
  out,     \* what the log has received
  passed   \* history: what emit has dealt with, as it was

vars == <<stream, pos, pc, work, buf, floods, out, passed>>

Fed == SubSeq(stream, 1, pos)

Init ==
  /\ stream \in Streams
  /\ pos = 0
  /\ pc = "idle"
  /\ work = <<>> /\ buf = <<>> /\ out = <<>> /\ passed = <<>>
  /\ floods = 0

(***************************************************************************)
(* The level is what follows the first "fclones:" of the line; a marker    *)
(* counts in the message of a line of its own level only, and the FIEMAP   *)
(* one only where the message begins with fclones' own framing.            *)
(***************************************************************************)
shouldFilterLine(line) ==
  \E i \in DOMAIN line :
    /\ line[i] = "fc" /\ ~Contains(SubSeq(line, 1, i - 1), "fc")
    /\ i + 2 <= Len(line)
    /\ LET body == SubSeq(line, i + 2, Len(line))
       IN  \/ line[i + 1] = "info" /\ Contains(body, "scan")
           \/ line[i + 1] = "warn" /\ body[1] = "fs" /\ Contains(body, "fiemap")

\* A mutant: control bytes are escaped, broken runes are not.
sanitizeControlBytesOnly(line) ==
  [i \in DOMAIN line |-> IF line[i] = "ctl" THEN "esc" ELSE line[i]]

\* Control bytes, and bytes that are not part of a whole rune, are escaped.
sanitizeControlBytes(line) ==
  LET broken(i) ==
        \/ line[i] = "ctl"
        \/ line[i] = "lead" /\ (i = Len(line) \/ line[i + 1] # "cont")
        \/ line[i] = "cont" /\ (i = 1 \/ line[i - 1] # "lead")
  IN  [i \in DOMAIN line |-> IF broken(i) THEN "esc" ELSE line[i]]

(***************************************************************************)
(* emit: noise is dropped, anything else is sanitized and written to the   *)
(* sink.  next is where Write or Flush goes on; a sink error ends it.      *)
(***************************************************************************)
emit(line, next) ==
  /\ passed' = passed \o line
  /\ \/ shouldFilterLine(line) /\ pc' = next /\ UNCHANGED out
     \/ /\ ~shouldFilterLine(line)
        /\ pc' = next
        /\ out' = out \o sanitizeControlBytes(line)
     \/ ~shouldFilterLine(line) /\ pc' = "failed" /\ UNCHANGED out

\* Write(p): the partial line and the n new bytes become the working buffer.
Write(n) ==
  /\ pc = "idle" /\ pos + n <= Len(stream)
  /\ work' = buf \o SubSeq(stream, pos + 1, pos + n)
  /\ buf' = <<>>
  /\ pos' = pos + n
  /\ pc' = "loop"
  /\ UNCHANGED <<stream, floods, out, passed>>

\* A mutant: the line ends at the last newline of the buffer.
LineEndLast == SelectLastInSeq(work, LAMBDA b : b = "nl")

\* Where the first line of the working buffer ends, 0 if it does not.
LineEnd == SelectInSeq(work, LAMBDA b : b = "nl")

\* Write: the first line of the buffer goes out; after an error the rest is lost.
WriteLine ==
  /\ pc = "loop" /\ LineEnd # 0
  /\ emit(SubSeq(work, 1, LineEnd), "loop")
  /\ work' = IF pc' = "failed" THEN <<>> ELSE SubSeq(work, LineEnd + 1, Len(work))
  /\ UNCHANGED <<stream, pos, buf, floods>>

\* A mutant: the buffer may grow one byte past the cap.
TooLongOffByOne == Len(work) > MaxLineBytes + 1

TooLong == Len(work) > MaxLineBytes

\* Write: what is left without a newline is kept for the next write.
KeepTail ==
  /\ pc = "loop" /\ LineEnd = 0 /\ ~TooLong
  /\ buf' = work
  /\ work' = <<>>
  /\ pc' = "idle"
  /\ UNCHANGED <<stream, pos, floods, out, passed>>

\* A mutant: a line beyond the cap is thrown away.
FloodDrops ==
  /\ pc = "loop" /\ LineEnd = 0 /\ TooLong
  /\ floods' = floods + 1
  /\ pc' = "idle"
  /\ work' = <<>>
  /\ UNCHANGED <<stream, pos, buf, out, passed>>

\* Write: a partial line beyond the cap is forced out as if it were a line.
Flood ==
  /\ pc = "loop" /\ LineEnd = 0 /\ TooLong
  /\ floods' = floods + 1
  /\ emit(work, "idle")
  /\ work' = <<>>
  /\ UNCHANGED <<stream, pos, buf>>

\* The child is gone, wherever it was in its output: Flush.
Flush ==
  /\ pc = "idle"
  /\ IF buf = <<>> THEN pc' = "done" /\ UNCHANGED <<out, passed>>
                   ELSE emit(buf, "done")
  /\ buf' = <<>>
  /\ UNCHANGED <<stream, pos, work, floods>>

Next ==
  \/ \E n \in 1..Len(stream) : Write(n)
  \/ WriteLine \/ KeepTail \/ Flood \/ Flush

Spec == Init /\ [][Next]_vars

(***************************************************************************)
(* PROPERTIES.                                                             *)
(***************************************************************************)

(***************************************************************************)
(* Types, and the bound on memory: what is kept between two writes is a    *)
(* partial line within the cap.                                            *)
(***************************************************************************)
TypeOK ==
  /\ pos \in 0..Len(stream)
  /\ pc \in {"idle", "loop", "failed", "done"}
  /\ ToSet(work) \subseteq Bytes /\ ToSet(out) \subseteq Bytes
  /\ ToSet(buf) \subseteq Bytes \ {"nl"}
  /\ Len(buf) <= MaxLineBytes
  /\ floods \in 0..Len(stream)

\* Where the line that byte i of s belongs to begins, and where it ends.
LineStart(s, i) == 1 + Max({0} \union {k \in 1..(i - 1) : s[k] = "nl"})
LineStop(s, i) == Min({Len(s)} \union {k \in i..Len(s) : s[k] = "nl"})

(***************************************************************************)
(* What the log should receive of s, were it written in one piece: each    *)
(* byte as its whole line decides.                                         *)
(***************************************************************************)
CleanedByte(s, i) ==
  LET line == SubSeq(s, LineStart(s, i), LineStop(s, i))
  IN  IF shouldFilterLine(line) THEN <<>>
      ELSE <<sanitizeControlBytes(line)[i + 1 - LineStart(s, i)]>>

Cleaned(s) == FlattenSeq([i \in 1..Len(s) |-> CleanedByte(s, i)])

(***************************************************************************)
(* How the child's output is cut into writes does not show: as long as no  *)
(* line passes the cap, the log receives line by line what it would have   *)
(* received of the whole, up to the partial line at hand, and after a sink *)
(* error a beginning of it.                                                *)
(***************************************************************************)
ChunkingInvisible ==
  floods = 0 =>
    /\ pc \in {"idle", "done"} => out = Cleaned(SubSeq(stream, 1, pos - Len(buf)))
    /\ pc = "failed" => IsPrefix(out, Cleaned(Fed))

(***************************************************************************)
(* No byte is lost, repeated or moved on the way to the filter, floods     *)
(* included, until the sink fails.                                         *)
(***************************************************************************)
EveryByteJudged == pc # "failed" => passed \o work \o buf = Fed

(***************************************************************************)
(* Whatever the cap cuts in two, the log receives no control byte and no   *)
(* part of a rune.                                                         *)
(***************************************************************************)
LogIsClean ==
  \A i \in DOMAIN out :
    /\ out[i] # "ctl"
    /\ out[i] = "lead" => i < Len(out) /\ out[i + 1] = "cont"
    /\ out[i] = "cont" => i > 1 /\ out[i - 1] = "lead"
=============================================================================
