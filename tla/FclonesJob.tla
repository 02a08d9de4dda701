----------------------------- MODULE FclonesJob -----------------------------
(***************************************************************************)
(* The scan+action job of scheduler.go (runFclonesJob, runFclonesAction)   *)
(* and the startup sweep (cleanStaleReports), run by several wrapper       *)
(* processes that share one /cache volume: the container's daemon, a       *)
(* manual `docker run`, a second container.  They meet in two places only, *)
(* the advisory flock and the report files under /cache.                   *)
(*                                                                         *)
(* Each process runs one job at a time: in a daemon the executor goroutine *)
(* sees to that (module Daemon), in run-once mode there is one job.        *)
(***************************************************************************)
EXTENDS JobOutcome, FiniteSets

CONSTANTS
  Procs,    \* wrapper processes (containers) sharing /cache
  Files,    \* names os.CreateTemp can give a report; bounds the orphans
  NoProc,   \* no holder of the flock
  NoFile,   \* no report
  Configs   \* the configurations a process may be started with

(***************************************************************************)
(* A configuration: run-once or not, the action ("group" is report-only),  *)
(* and whether a phase has a deadline (SCAN_TIMEOUT > 0).                  *)
(***************************************************************************)
ConfigType == [once : BOOLEAN, action : {"group", "mutate"}, deadline : BOOLEAN]

ASSUME ProcsAssumption == NoProc \notin Procs
ASSUME FilesAssumption == NoFile \notin Files
ASSUME ConfigsAssumption == Configs \subseteq ConfigType /\ Configs # {}

VARIABLES
  lock,      \* holder of the flock on /cache
  disk,      \* what each report file on /cache holds
  pc,        \* control point of each process
  cfg,       \* configuration each process was started with
  ctx,       \* processes whose root context is cancelled (SIGTERM, SIGINT)
  expired,   \* processes whose current phase context ran into its deadline
  tmp,       \* report file of each process's job
  todo,      \* glob matches a sweeping process has still to remove
  runErr,    \* processes whose last cmd.Run returned an error
  res,       \* (ran, err) of the last job; "none" before the first
  failed,    \* history: processes in whose current job something failed
  lost,      \* history: reports abandoned by a crash or a refused os.Remove
  kept       \* history: reports the current sweep did not manage to remove

vars == <<lock, disk, pc, cfg, ctx, expired, tmp, todo, runErr, res,
          failed, lost, kept>>

(***************************************************************************)
(* Content of a report: "partial" from CreateTemp until the scan has       *)
(* written it, "garbled" is anything the strict decoder refuses.           *)
(***************************************************************************)
Written  == {"partial", "garbled", "nodups", "dups"}
Content  == {"absent"} \union Written
Decodable == {"nodups", "dups"}

\* The (ran, err) pairs runFclonesJob returns, and "no job yet".
Returned == [ran : BOOLEAN, err : BOOLEAN]
NoResult == [ran |-> FALSE, err |-> TRUE]
RetSkip  == [ran |-> FALSE, err |-> FALSE]
RetErr   == [ran |-> TRUE, err |-> TRUE]
RetNil   == [ran |-> TRUE, err |-> FALSE]

Bootup == {"boot", "trysweep", "sweep", "unlocksweep"}
ScanPcs == {"begin", "scan", "scandone"}
ReportPcs == {"decode", "decide", "opening"}
ActPcs == {"act", "actdone"}
\* Control points at which the job's report is on disk and in use.
Live == ScanPcs \union ReportPcs \union ActPcs \union {"remove"}
\* Control points at which the process holds the flock.
Holding == Live \union {"create", "unlock", "sweep", "unlocksweep"}
PcType == {"down", "idle", "start"} \union Bootup \union Holding

\* Reports on disk; the phase context of p is done.
OnDisk == {f \in Files : disk[f] # "absent"}
PhaseDone(p) == p \in ctx \/ p \in expired

(***************************************************************************)
(* Every variable has its type, and a process has a report file exactly    *)
(* while it is between os.CreateTemp and the deferred os.Remove.           *)
(***************************************************************************)
TypeOK ==
  /\ lock \in Procs \union {NoProc}
  /\ disk \in [Files -> Content]
  /\ pc \in [Procs -> PcType]
  /\ cfg \in [Procs -> ConfigType]
  /\ ctx \subseteq Procs
  /\ expired \subseteq Procs
  /\ tmp \in [Procs -> Files \union {NoFile}]
  /\ todo \in [Procs -> SUBSET Files]
  /\ runErr \subseteq Procs
  /\ res \in [Procs -> Returned]
  /\ failed \subseteq Procs
  /\ lost \subseteq Files
  /\ kept \subseteq Files
  /\ \A p \in Procs : tmp[p] \in Files <=> pc[p] \in Live

Init ==
  /\ lock = NoProc
  /\ disk = [f \in Files |-> "absent"]
  /\ pc = [p \in Procs |-> "down"]
  /\ cfg \in [Procs -> Configs]
  /\ ctx = {}
  /\ expired = {}
  /\ tmp = [p \in Procs |-> NoFile]
  /\ todo = [p \in Procs |-> {}]
  /\ runErr = {}
  /\ res = [p \in Procs |-> NoResult]
  /\ failed = {}
  /\ lost = {}
  /\ kept = {}

\* Everything outside the job's own results.
outside == <<lock, disk, cfg, ctx, expired, tmp, todo, lost, kept>>

Goto(p, from, to) == pc[p] = from /\ pc' = [pc EXCEPT ![p] = to]

\* A step that only moves p on.
Move(p, from, to) == Goto(p, from, to) /\ UNCHANGED <<outside, runErr, res, failed>>

\* A step in which p's job goes wrong and returns (true, err).
Fail(p, from, to) ==
  /\ Goto(p, from, to)
  /\ res' = [res EXCEPT ![p] = RetErr]
  /\ failed' = failed \union {p}
  /\ UNCHANGED <<outside, runErr>>

\* A step in which cmd.Run returns an error without having started a child.
RunFails(p, from, to) ==
  /\ Goto(p, from, to)
  /\ runErr' = runErr \union {p}
  /\ failed' = failed \union {p}
  /\ UNCHANGED <<outside, res>>

(***************************************************************************)
(* STARTUP: run(), bootstrap and cleanStaleReports.                        *)
(***************************************************************************)

\* A container is started; its configuration is fixed for its life.
Boot(p) ==
  /\ Goto(p, "down", "boot")
  /\ \E c \in Configs : cfg' = [cfg EXCEPT ![p] = c]
  /\ UNCHANGED <<lock, disk, ctx, expired, tmp, todo, runErr, res, failed, lost, kept>>

\* bootstrap: the configuration or the cache directory is refused, or both hold.
Bootstrap(p) == Move(p, "boot", "down") \/ Move(p, "boot", "trysweep")

\* scheduler.TryLock answered "held elsewhere" or failed: no sweep this time.
SweepSkip(p) == Move(p, "trysweep", "idle")

\* A mutant: the sweep does not take the scan lock.
SweepStartUnlocked(p) ==
  /\ Goto(p, "trysweep", "sweep")
  /\ todo' = [todo EXCEPT ![p] = OnDisk]
  /\ kept' = {}
  /\ UNCHANGED <<lock, disk, cfg, ctx, expired, tmp, runErr, res, failed, lost>>

\* The lock is ours: glob the reports.  Glob hides an unreadable directory.
SweepStart(p) ==
  /\ lock = NoProc
  /\ lock' = p
  /\ Goto(p, "trysweep", "sweep")
  /\ \/ todo' = [todo EXCEPT ![p] = OnDisk] /\ kept' = {}
     \/ todo' = [todo EXCEPT ![p] = {}] /\ kept' = OnDisk
  /\ UNCHANGED <<disk, cfg, ctx, expired, tmp, runErr, res, failed, lost>>

\* One turn of the removal loop; os.Remove may be refused, and the loop goes on.
SweepRemove(p) ==
  /\ pc[p] = "sweep"
  /\ \E f \in todo[p] :
       /\ todo' = [todo EXCEPT ![p] = @ \ {f}]
       /\ \/ /\ disk' = [disk EXCEPT ![f] = "absent"]
             /\ lost' = lost \ {f}
             /\ UNCHANGED kept
          \/ /\ kept' = kept \union {f}
             /\ UNCHANGED <<disk, lost>>
  /\ UNCHANGED <<lock, pc, cfg, ctx, expired, tmp, runErr, res, failed>>

\* A mutant: the sweep stops at the first file it cannot remove.
SweepEndEarly(p) ==
  /\ Goto(p, "sweep", "unlocksweep")
  /\ todo[p] = {} \/ kept # {}
  /\ todo' = [todo EXCEPT ![p] = {}]
  /\ UNCHANGED <<lock, disk, cfg, ctx, expired, tmp, runErr, res, failed, lost, kept>>

SweepEnd(p) == todo[p] = {} /\ Move(p, "sweep", "unlocksweep")

\* The deferred Unlock of cleanStaleReports; only then are signals handled.
SweepUnlock(p) ==
  /\ Goto(p, "unlocksweep", "idle")
  /\ lock' = NoProc
  /\ UNCHANGED <<disk, cfg, ctx, expired, tmp, todo, runErr, res, failed, lost, kept>>

(***************************************************************************)
(* THE JOB: runFclonesJob up to the report.                                *)
(***************************************************************************)

(***************************************************************************)
(* A trigger reaches the process.  The daemon's executor does not start a  *)
(* run once its context is done, but the signal may come between that test *)
(* and the lock; run-once runs its single job whatever its context says.   *)
(***************************************************************************)
StartRun(p) ==
  /\ Goto(p, "idle", "start")
  /\ IF cfg[p].once THEN res[p] = NoResult ELSE p \notin ctx
  /\ res' = [res EXCEPT ![p] = NoResult]
  /\ runErr' = runErr \ {p}
  /\ failed' = failed \ {p}
  /\ UNCHANGED outside

\* TryLock itself failed (open or flock error): an error, with ran = true.
LockError(p) == Fail(p, "start", "idle")

\* Another process holds the flock: the overlapping request is skipped.
LockSkip(p) ==
  /\ lock # NoProc
  /\ Goto(p, "start", "idle")
  /\ res' = [res EXCEPT ![p] = RetSkip]
  /\ UNCHANGED <<outside, runErr, failed>>

\* A mutant: the overlap check is lost, the job goes on without the lock.
LockTakeAlways(p) ==
  /\ lock' = p
  /\ Goto(p, "start", "create")
  /\ UNCHANGED <<disk, cfg, ctx, expired, tmp, todo, runErr, res, failed, lost, kept>>

LockTake(p) ==
  /\ lock = NoProc
  /\ lock' = p
  /\ Goto(p, "start", "create")
  /\ UNCHANGED <<disk, cfg, ctx, expired, tmp, todo, runErr, res, failed, lost, kept>>

\* A mutant: the removal is deferred before os.CreateTemp is known to succeed.
StartErrorRemoves(p) == Fail(p, "create", "remove")

\* buildScanArgs or os.CreateTemp failed: only the Unlock is deferred so far.
StartError(p) == Fail(p, "create", "unlock")

\* os.CreateTemp gives a name not in use; phaseContext starts the scan's clock.
CreateReport(p) ==
  /\ Goto(p, "create", "begin")
  /\ \E f \in Files \ OnDisk :
       /\ tmp' = [tmp EXCEPT ![p] = f]
       /\ disk' = [disk EXCEPT ![f] = "partial"]
  /\ expired' = expired \ {p}
  /\ UNCHANGED <<lock, cfg, ctx, todo, runErr, res, failed, lost, kept>>

\* The deadline of the current phase passes before its parent is cancelled.
Expire(p) ==
  /\ pc[p] \in ScanPcs \union ActPcs \union {"opening"}
  /\ cfg[p].deadline
  /\ ~PhaseDone(p)
  /\ expired' = expired \union {p}
  /\ UNCHANGED <<lock, disk, pc, cfg, ctx, tmp, todo, runErr, res, failed, lost, kept>>

\* cmd.Run starts `fclones group`; os/exec starts nothing under a done context.
ScanStart(p) == ~PhaseDone(p) /\ Move(p, "begin", "scan")

\* The scan's child is not started: fork or exec failed, or the context is done.
ScanNotStarted(p) == RunFails(p, "begin", "scandone")

(***************************************************************************)
(* The scan ends (by itself, or by the SIGTERM and the kill that follow    *)
(* the end of its context).  It wrote its report through the open file: a  *)
(* name that was unlinked meanwhile stays unlinked.                        *)
(***************************************************************************)
ScanExit(p) ==
  /\ Goto(p, "scan", "scandone")
  /\ \/ /\ runErr' = runErr \ {p}
        /\ \E c \in Written \ {"partial"} :
             disk' = [disk EXCEPT ![tmp[p]] = IF @ = "absent" THEN @ ELSE c]
        /\ UNCHANGED failed
     \/ /\ runErr' = runErr \union {p}
        /\ failed' = failed \union {p}
        /\ UNCHANGED disk
  /\ UNCHANGED <<lock, cfg, ctx, expired, tmp, todo, res, lost, kept>>

\* classifyAndLogOutcome of the scan: return, or go on to the report.
ScanClassify(p) ==
  LET o == classifyAndLogOutcome(p \in ctx, p \in expired, p \in runErr)
  IN  /\ Goto(p, "scandone", IF o.done THEN "remove" ELSE "decode")
      /\ res' = IF o.done THEN [res EXCEPT ![p] = [ran |-> TRUE, err |-> o.err]]
                          ELSE res
      /\ UNCHANGED <<outside, runErr, failed>>

\* The report is opened and the strict decoder accepts it.
DecodeOK(p) ==
  Move(p, "decode", "decide") /\ disk[tmp[p]] \in Decodable

\* The report cannot be opened, read or decoded: the run fails.
DecodeError(p) == Fail(p, "decode", "remove")

(***************************************************************************)
(* THE ACTION: shouldRunAction and runFclonesAction.                       *)
(***************************************************************************)

\* Report-only mode, a report without duplicates, or a shutdown: no action.
NoAction(p) ==
  /\ Goto(p, "decide", "remove")
  /\ \/ ~shouldRunAction(cfg[p].action, disk[tmp[p]] = "dups")
     \/ p \in ctx
  /\ res' = [res EXCEPT ![p] = RetNil]
  /\ UNCHANGED <<outside, runErr, failed>>

\* The action phase begins, under a context of its own with a full timeout.
ActionBegin(p) ==
  /\ Goto(p, "decide", "opening")
  /\ shouldRunAction(cfg[p].action, disk[tmp[p]] = "dups")
  /\ p \notin ctx
  /\ expired' = expired \ {p}
  /\ UNCHANGED <<lock, disk, cfg, ctx, tmp, todo, runErr, res, failed, lost, kept>>

\* The report cannot be opened a second time: the run fails.
ActionOpenError(p) == Fail(p, "opening", "remove")

\* The report is opened as stdin and the mutating child starts.
ActionStart(p) ==
  Move(p, "opening", "act") /\ disk[tmp[p]] # "absent" /\ ~PhaseDone(p)

\* The report is opened but actionCmd.Run fails before the child exists.
ActionNotStarted(p) ==
  RunFails(p, "opening", "actdone") /\ disk[tmp[p]] # "absent"

ActionExit(p) ==
  /\ Goto(p, "act", "actdone")
  /\ \/ runErr' = runErr \ {p} /\ UNCHANGED failed
     \/ runErr' = runErr \union {p} /\ failed' = failed \union {p}
  /\ UNCHANGED <<outside, res>>

\* classifyAndLogOutcome of the action, then the no-op verdict on its summary.
ActionClassify(p) ==
  LET o == classifyAndLogOutcome(p \in ctx, p \in expired, p \in runErr)
  IN  /\ Goto(p, "actdone", "remove")
      /\ \/ /\ o.done
            /\ res' = [res EXCEPT ![p] = [ran |-> TRUE, err |-> o.err]]
            /\ UNCHANGED failed
         \/ /\ ~o.done
            /\ \E summary \in {"none", "zero", "some"} :
                 /\ res' = [res EXCEPT ![p] =
                              IF actionAccomplishedNothing(summary) THEN RetErr ELSE RetNil]
                 /\ failed' = IF summary = "zero" THEN failed \union {p} ELSE failed
      /\ UNCHANGED <<outside, runErr>>

(***************************************************************************)
(* THE DEFERRED CLEANUP, in its LIFO order: os.Remove, then Unlock.        *)
(***************************************************************************)

\* A mutant: the report is left behind.
RemoveReportNever(p) ==
  /\ Goto(p, "remove", "unlock")
  /\ tmp' = [tmp EXCEPT ![p] = NoFile]
  /\ UNCHANGED <<lock, disk, cfg, ctx, expired, todo, runErr, res, failed, lost, kept>>

\* The error of os.Remove is ignored: a refused removal orphans the report.
RemoveReport(p) ==
  /\ Goto(p, "remove", "unlock")
  /\ tmp' = [tmp EXCEPT ![p] = NoFile]
  /\ \/ disk' = [disk EXCEPT ![tmp[p]] = "absent"] /\ UNCHANGED lost
     \/ disk[tmp[p]] # "absent" /\ lost' = lost \union {tmp[p]} /\ UNCHANGED disk
  /\ UNCHANGED <<lock, cfg, ctx, expired, todo, runErr, res, failed, kept>>

\* A mutant: the lock is not released on the way out.
UnlockNever(p) == Move(p, "unlock", "idle")

Unlock(p) ==
  /\ Goto(p, "unlock", "idle")
  /\ lock' = NoProc
  /\ UNCHANGED <<disk, cfg, ctx, expired, tmp, todo, runErr, res, failed, lost, kept>>

(***************************************************************************)
(* THE END OF A PROCESS.                                                   *)
(***************************************************************************)

\* SIGTERM or SIGINT, once signal.NotifyContext is installed.
Signal(p) ==
  /\ pc[p] \notin {"down"} \union Bootup
  /\ p \notin ctx
  /\ ctx' = ctx \union {p}
  /\ UNCHANGED <<lock, disk, pc, cfg, expired, tmp, todo, runErr, res, failed, lost, kept>>

\* What a new life of p starts without.
Forget(p) ==
  /\ pc' = [pc EXCEPT ![p] = "down"]
  /\ ctx' = ctx \ {p}
  /\ expired' = expired \ {p}
  /\ tmp' = [tmp EXCEPT ![p] = NoFile]
  /\ todo' = [todo EXCEPT ![p] = {}]
  /\ runErr' = runErr \ {p}
  /\ res' = [res EXCEPT ![p] = NoResult]
  /\ failed' = failed \ {p}

\* Run-once returns after its job, a daemon when its context is done.
Exit(p) ==
  /\ pc[p] = "idle"
  /\ IF cfg[p].once THEN res[p] # NoResult ELSE p \in ctx
  /\ Forget(p)
  /\ UNCHANGED <<lock, disk, cfg, lost, kept>>

(***************************************************************************)
(* SIGKILL, OOM kill or power loss: the wrapper is PID 1, so its child     *)
(* dies with it; the kernel drops the flock; the report stays on /cache.   *)
(***************************************************************************)
Crash(p) ==
  /\ pc[p] # "down"
  /\ Forget(p)
  /\ lock' = IF lock = p THEN NoProc ELSE lock
  /\ lost' = lost \union (OnDisk \intersect {tmp[p]})
  /\ UNCHANGED <<disk, cfg, kept>>

StartupStep(p) ==
  \/ Bootstrap(p) \/ SweepSkip(p) \/ SweepStart(p)
  \/ SweepRemove(p) \/ SweepEnd(p) \/ SweepUnlock(p)

ChildExit(p) == ScanExit(p) \/ ActionExit(p)

JobStep(p) ==
  \/ LockError(p) \/ LockSkip(p) \/ LockTake(p)
  \/ StartError(p) \/ CreateReport(p)
  \/ ScanStart(p) \/ ScanNotStarted(p) \/ ScanClassify(p)
  \/ DecodeOK(p) \/ DecodeError(p)
  \/ NoAction(p) \/ ActionBegin(p) \/ ActionOpenError(p)
  \/ ActionStart(p) \/ ActionNotStarted(p) \/ ActionClassify(p)
  \/ RemoveReport(p) \/ Unlock(p)

Next == \E p \in Procs :
  \/ Boot(p) \/ StartupStep(p)
  \/ StartRun(p) \/ JobStep(p) \/ ChildExit(p) \/ Expire(p)
  \/ Signal(p) \/ Exit(p) \/ Crash(p)

Spec == Init /\ [][Next]_vars

(***************************************************************************)
(* Fairness.  The code of a process runs on; a phase that has a deadline   *)
(* reaches it; a child whose phase context is done ends, by the SIGTERM    *)
(* and, after the grace period, the SIGKILL of the command runner.  A      *)
(* child under a live context owes nothing, and neither do signals,        *)
(* triggers, starts and crashes.                                           *)
(***************************************************************************)
Fairness == \A p \in Procs :
  /\ WF_vars(StartupStep(p))
  /\ WF_vars(JobStep(p))
  /\ WF_vars(Expire(p))
  /\ WF_vars(PhaseDone(p) /\ ChildExit(p))

FairSpec == Spec /\ Fairness

(***************************************************************************)
(* PROPERTIES.                                                             *)
(***************************************************************************)

(***************************************************************************)
(* The flock is held by the process that is inside the critical section    *)
(* and by no other: no early return of the job or of the sweep, and no     *)
(* crash, leaves it held or releases another's.                            *)
(***************************************************************************)
LockOwned == \A p \in Procs : pc[p] \in Holding <=> lock = p

(***************************************************************************)
(* The flock keeps the jobs of all processes apart: at most one process    *)
(* has an fclones child running, and no sweep runs beside it.              *)
(***************************************************************************)
OneScanAtATime ==
  \A p, q \in Procs :
    p # q /\ pc[p] \in Live => pc[q] \notin Live \union {"sweep"}

(***************************************************************************)
(* The report of a job in progress is on disk and is no other job's, and   *)
(* the mutating child only ever reads a report with duplicates that was    *)
(* decoded in the same job: no sweep, job or crash elsewhere disturbs it.  *)
(***************************************************************************)
LiveReportIntact ==
  \A p \in Procs :
    /\ pc[p] \in Live => disk[tmp[p]] # "absent"
    /\ pc[p] \in {"opening"} \union ActPcs =>
         disk[tmp[p]] = "dups" /\ cfg[p].action # "group"

(***************************************************************************)
(* A job that is over tells the truth about itself: unless the process was *)
(* told to stop, it returns an error exactly if something in it failed (a  *)
(* phase, the report, or an action that processed nothing).                *)
(***************************************************************************)
ResultTellsFailure ==
  \A p \in Procs :
    pc[p] \in {"idle", "remove", "unlock"} /\ res[p].ran =>
      (res[p].err <=> p \in failed) \/ (p \in ctx /\ ~res[p].err)

(***************************************************************************)
(* Every report on /cache is that of a job in progress or was orphaned by  *)
(* a crash or by a removal the system refused; nothing else leaks a file.  *)
(***************************************************************************)
OrphansAccounted ==
  /\ OnDisk = lost \union {tmp[p] : p \in {q \in Procs : pc[q] \in Live}}
  /\ \A p \in Procs : tmp[p] \notin lost

(***************************************************************************)
(* A sweep misses nothing: what is on disk when it is over is what it could*)
(* not read or remove, although other processes may start meanwhile.       *)
(***************************************************************************)
SweepComplete ==
  \A p \in Procs :
    /\ pc[p] = "sweep" => OnDisk = todo[p] \union kept
    /\ pc[p] = "unlocksweep" => OnDisk = kept

(***************************************************************************)
(* The lock is not kept for ever: a process that holds it gives it back,   *)
(* provided its phases have a deadline or it has been told to stop.        *)
(***************************************************************************)
LockReleased ==
  \A p \in Procs :
    lock = p /\ (cfg[p].deadline \/ p \in ctx) ~> lock # p

(***************************************************************************)
(* The refinement mapping to ExclusiveRun: the session is the lock's, and  *)
(* its stage is read off the control point of the process that holds it.   *)
(***************************************************************************)
StageOf(control) ==
  CASE control \in {"create", "begin", "sweep"} -> "entered"
    [] control \in {"scan", "scandone"} -> "scanning"
    [] control \in ReportPcs -> "scanned"
    [] control \in ActPcs -> "acting"
    [] OTHER -> "closing"

Session == INSTANCE ExclusiveRun WITH
  Users <- Procs, Nobody <- NoProc, user <- lock,
  stage <- IF lock = NoProc THEN "free" ELSE StageOf(pc[lock])

(***************************************************************************)
(* The job implements ExclusiveRun: seen through the lock, every step of   *)
(* any process is a step of one session or leaves the session alone.       *)
(***************************************************************************)
ImplementsExclusiveRun == Session!Spec
=============================================================================
