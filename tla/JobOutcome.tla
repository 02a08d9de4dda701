----------------------------- MODULE JobOutcome -----------------------------
(***************************************************************************)
(* The pure decision functions of the wrapper (outcome.go, health.go and   *)
(* the decision helpers of scheduler.go).  An error value is a BOOLEAN:    *)
(* TRUE stands for a non-nil error.  A context is known by the same: ctxErr*)
(* is TRUE once the context is done.                                       *)
(***************************************************************************)

\* The classes of a finished subprocess (type phaseOutcome).
PhaseOutcomes == {"success", "timeout", "shutdown", "exec_error"}

\* A mutant: a phase that ran into its deadline counts as interrupted.
classifyExecOutcomeAnyDone(ctxErr, deadlineExceeded, runErr) ==
  IF ~runErr THEN "success"
  ELSE IF deadlineExceeded \/ ctxErr THEN "shutdown"
  ELSE "exec_error"

(***************************************************************************)
(* The three-way classification both phases share.  deadlineExceeded is    *)
(* errors.Is(phaseCtx.Err(), DeadlineExceeded): it stays TRUE when the     *)
(* parent is cancelled after the deadline has passed.                      *)
(***************************************************************************)
classifyExecOutcome(ctxErr, deadlineExceeded, runErr) ==
  IF ~runErr THEN "success"
  ELSE IF deadlineExceeded /\ ~ctxErr THEN "timeout"
  ELSE IF ctxErr THEN "shutdown"
  ELSE "exec_error"

\* What a phase does with its class: go on (done = FALSE) or return err.
classifyAndLogOutcome(ctxErr, deadlineExceeded, runErr) ==
  LET outcome == classifyExecOutcome(ctxErr, deadlineExceeded, runErr)
  IN  [done |-> outcome # "success",
       err  |-> outcome \in {"timeout", "exec_error"}]

\* The action phase runs unless the mode is report-only or nothing is duplicated.
shouldRunAction(action, hasDuplicates) == action # "group" /\ hasDuplicates

(***************************************************************************)
(* Whether a finished action left every duplicate in place.  A summary is  *)
(* "none" (no recognised summary line), "zero" (recognised, no file        *)
(* processed) or "some".                                                   *)
(***************************************************************************)
actionAccomplishedNothing(summary) == summary = "zero"

\* The marker decision of a run that was not a lock skip.
markerAction(ctxErr, runErr) ==
  [set |-> ~ctxErr, healthy |-> ~ctxErr /\ ~runErr]

(***************************************************************************)
(* The marker decision of any finished job: a lock skip and an interrupted *)
(* run write nothing.                                                      *)
(***************************************************************************)
jobHealthSignal(ctxErr, ran, runErr) ==
  IF ~ran /\ ~runErr THEN [set |-> FALSE, healthy |-> FALSE]
                     ELSE markerAction(ctxErr, runErr)

\* A mutant: a run-once job that was interrupted counts as done.
classifyRunOnceOutcomeNoCtx(ran, runErr, ctxErr) ==
  IF runErr THEN "failed" ELSE IF ~ran THEN "skipped" ELSE "ok"

\* How a run-once job ended, in the code's order of precedence.
classifyRunOnceOutcome(ran, runErr, ctxErr) ==
  IF runErr THEN "failed"
  ELSE IF ~ran THEN "skipped"
  ELSE IF ctxErr THEN "interrupted"
  ELSE "ok"
=============================================================================
