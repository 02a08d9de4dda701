----------------------------- MODULE ArgsParse ------------------------------
(***************************************************************************)
(* internal/args: an argument string becomes tokens.  A rune is a space    *)
(* "sp", a quote "sq" or "dq", a backslash "bs", or anything else; what an *)
(* option is called counts as one rune.  A token is a sequence of runes.   *)
(***************************************************************************)
EXTENDS Naturals, Sequences

Quotes == {"sq", "dq"}

\* An empty token leaves no trace, quoted or not.
flushToken(p) ==
  IF p.current = <<>> THEN p
  ELSE [p EXCEPT !.args = Append(@, p.current), !.current = <<>>]

\* A mutant: as in a shell, a backslash stands for itself in single quotes.
stepPosix(p, r) ==
  LET literal == [p EXCEPT !.current = Append(@, r), !.escaped = FALSE]
  IN  IF p.escaped THEN literal
      ELSE IF r = "bs" /\ p.quote # "sq" THEN [p EXCEPT !.escaped = TRUE]
      ELSE IF p.quote # "none" THEN IF r = p.quote THEN [p EXCEPT !.quote = "none"] ELSE literal
      ELSE IF r \in Quotes THEN [p EXCEPT !.quote = r]
      ELSE IF r = "sp" THEN flushToken(p) ELSE literal

\* A backslash makes the next rune literal everywhere, in quotes as well.
step(p, r) ==
  LET literal == [p EXCEPT !.current = Append(@, r), !.escaped = FALSE]
  IN  IF p.escaped THEN literal
      ELSE IF r = "bs" THEN [p EXCEPT !.escaped = TRUE]
      ELSE IF p.quote # "none" THEN IF r = p.quote THEN [p EXCEPT !.quote = "none"] ELSE literal
      ELSE IF r \in Quotes THEN [p EXCEPT !.quote = r]
      ELSE IF r = "sp" THEN flushToken(p) ELSE literal

\* The runes one after the other.  (The singleton makes TLC work out each step once.)
Steps(p, raw) ==
  LET at[i \in 0..Len(raw)] == IF i = 0 THEN p
        ELSE CHOOSE q \in {step(o, raw[i]) : o \in {at[i - 1]}} : TRUE
  IN  at[Len(raw)]

Start == [args |-> <<>>, current |-> <<>>, quote |-> "none", escaped |-> FALSE]

\* Parse: refused inside a quote or after a backslash, else the tokens.
Parse(raw) ==
  LET end == Steps(Start, raw)
  IN  IF end.quote # "none" \/ end.escaped THEN [ok |-> FALSE, args |-> <<>>]
      ELSE [ok |-> TRUE, args |-> flushToken(end).args]
=============================================================================
