------------------------------- MODULE Daemon -------------------------------
(***************************************************************************)
(* One container over any number of lives, each in one of its three modes  *)
(* (main.go run and runOnce, daemon.go, client.go): PID 1 that runs one    *)
(* job and exits, or that serves with its executor, its interval ticker    *)
(* and one handler per `scan` client until an orderly stop or a crash.     *)
(*                                                                         *)
(* The job itself is module FclonesJob; here it is what that module        *)
(* guarantees of its result.  The queue, the socket server, the health     *)
(* latch, the loop and the stamp are libraries outside the repository and  *)
(* are modelled from the use daemon.go makes of them.                      *)
(***************************************************************************)
EXTENDS JobOutcome, Naturals, Sequences, FiniteSets

CONSTANTS
  Clients,        \* `scan` invocations that may be pending at once
  Ticker,         \* the requester of scheduled runs
  QueueCapacity   \* pending requests the queue holds (16 in the code)

ASSUME TickerAssumption == Ticker \notin Clients
ASSUME CapacityAssumption == QueueCapacity \in Nat \ {0}

VARIABLES
  main,     \* control point of the main goroutine (what it does next)
  mode,     \* "builtin", "external" or "once"
  ctx,      \* root context: "live", or "done" after SIGTERM or SIGINT
  latch,    \* health.Latch: "open", or "draining" after BeginDrain
  marker,   \* the marker file: "healthy" or "none"; it survives a crash
  queue,    \* accepted requests, by requester
  exec,     \* control point of the executor goroutine
  cur,      \* requester of the run in hand
  fate,     \* what became of that run
  tick,     \* control point of the ticker goroutine
  handler,  \* control point of each client's connection handler
  client,   \* state of each `scan` client process
  stamp,    \* the last-run record on /cache; it survives a crash
  last,     \* history: last run of this life that completed
  sched,    \* history: last scheduled run that completed, in any life
  told      \* history: what became of each client's request

vars == <<main, mode, ctx, latch, marker, queue, exec, cur, fate, tick,
          handler, client, stamp, last, sched, told>>

Requesters == Clients \union {Ticker}

(***************************************************************************)
(* What a run can come to.  A "clean" or "failed" run completed; "skipped" *)
(* is the cross-container lock skip; "interrupted" is a run a shutdown cut *)
(* short, which returns no error.                                          *)
(***************************************************************************)
Fates == {"clean", "failed", "skipped", "interrupted"}
Ran(f) == f # "skipped"
Err(f) == f = "failed"
Completed == {"clean", "failed"}

Modes == {"builtin", "external", "once"}
\* The process is over, with its exit code.
Exited == {"exit0", "exit1"}
\* runOnce, up to its return with or without an error.
OncePcs == {"once", "oncejob", "oncemark", "onceclass", "oncenil", "onceerr"}
MainPcs == {"down", "boot", "listen", "serving", "closeln", "closequeue",
            "waitexec", "waittick", "waitsrv"} \union OncePcs \union Exited

\* The listener is bound until ln.Close.
LnOpen == main \in {"serving", "closeln"}

\* A mutant: the queue is closed only after the wait for the executor.
QueueOpenTooLong == main \in {"serving", "closeln", "closequeue", "waitexec"}

\* The queue takes requests until queue.Close, which comes before the waits.
QueueOpen == main \in {"serving", "closeln", "closequeue"}

TypeOK ==
  /\ main \in MainPcs
  /\ mode \in Modes
  /\ ctx \in {"live", "done"}
  /\ latch \in {"open", "draining"}
  /\ marker \in {"healthy", "none"}
  /\ queue \in Seq(Requesters)
  /\ Len(queue) <= QueueCapacity
  /\ exec \in {"off", "idle", "job", "returned", "set", "stamp", "answer", "exited"}
  /\ cur \in Requesters
  /\ fate \in Fates
  /\ tick \in {"off", "startup", "loop", "wait", "done"}
  /\ handler \in [Clients -> {"none", "accepted", "queued", "ok", "fail"}]
  /\ client \in [Clients -> {"idle", "waiting", "exit0", "exit1"}]
  /\ stamp \in {"none", "ok", "failed"}
  /\ last \in {"none"} \union Completed
  /\ sched \in {"none", "lost"} \union Completed
  /\ told \in [Clients -> {"none", "rejected", "cancelled", "unreachable",
                           "abandoned", "lost"} \union Fates]

\* The first life begins: no marker, no record, nobody waiting.
Init ==
  /\ main = "down"
  /\ mode \in Modes
  /\ ctx = "live"
  /\ latch = "open"
  /\ marker = "none"
  /\ queue = <<>>
  /\ exec = "off"
  /\ cur = Ticker
  /\ fate = "clean"
  /\ tick = "off"
  /\ handler = [c \in Clients |-> "none"]
  /\ client = [c \in Clients |-> "idle"]
  /\ stamp = "none"
  /\ last = "none"
  /\ sched = "none"
  /\ told = [c \in Clients |-> "none"]

procs == <<queue, exec, cur, fate, tick>>
clients == <<handler, client, told>>

(***************************************************************************)
(* THE MAIN GOROUTINE.                                                     *)
(***************************************************************************)

\* A container starts with a mode; the marker of a killed life is still there.
Boot ==
  /\ main \in {"down"} \union Exited
  /\ main' = "boot"
  /\ mode' \in Modes
  /\ ctx' = "live"
  /\ latch' = "open"
  /\ exec' = "off"
  /\ tick' = "off"
  /\ last' = "none"
  /\ UNCHANGED <<marker, queue, cur, fate, clients, stamp, sched>>

\* bootstrap failed: clear the marker, clean up, exit non-zero.
BootFail ==
  /\ main = "boot"
  /\ main' = "exit1"
  /\ marker' = "none"
  /\ UNCHANGED <<mode, ctx, latch, procs, clients, stamp, last, sched>>

\* bootstrap and the sweep are over and signals are handled from here on.
BootOK ==
  /\ main = "boot"
  /\ main' = IF mode = "once" THEN "once" ELSE "listen"
  /\ UNCHANGED <<mode, ctx, latch, marker, procs, clients, stamp, last, sched>>

\* The socket cannot be bound: clear the marker, clean up, exit non-zero.
ListenFail ==
  /\ main = "listen"
  /\ main' = "exit1"
  /\ marker' = "none"
  /\ UNCHANGED <<mode, ctx, latch, procs, clients, stamp, last, sched>>

\* A mutant: any fresh record boots healthy, whatever its outcome.
builtinBootStateAnyRecord(record, elapsed) ==
  LET due == record = "none" \/ elapsed
  IN  [due |-> due, healthy |-> ~due]

(***************************************************************************)
(* A completed scan holds its slot for an interval, but only a successful  *)
(* one proves health.  elapsed: the record is at least one interval old.   *)
(***************************************************************************)
builtinBootState(record, elapsed) ==
  LET due == record = "none" \/ elapsed
  IN  [due |-> due, healthy |-> ~due /\ record = "ok"]

(***************************************************************************)
(* The socket is bound, the boot state goes to the marker, and executor,   *)
(* server and ticker start.  The boot state is read off the record as it   *)
(* is at this moment; the ticker keeps startupDue.                         *)
(***************************************************************************)
Start ==
  /\ main = "listen"
  /\ main' = "serving"
  /\ \E elapsed \in BOOLEAN :
       LET boot == builtinBootState(stamp, elapsed)
           healthy == IF mode = "builtin" THEN boot.healthy ELSE TRUE
       IN  /\ marker' = IF healthy THEN "healthy" ELSE "none"
           /\ tick' = IF mode = "external" THEN "done"
                      ELSE IF boot.due THEN "startup" ELSE "loop"
  /\ exec' = "idle"
  /\ UNCHANGED <<mode, ctx, latch, queue, cur, fate, clients, stamp, last, sched>>

\* SIGTERM or SIGINT.
Signal ==
  /\ main \notin {"down", "boot"} \union Exited
  /\ ctx = "live"
  /\ ctx' = "done"
  /\ UNCHANGED <<main, mode, latch, marker, procs, clients, stamp, last, sched>>

\* A mutant: the marker is cleared on the way down, but not latched.
BeginDrainUnlatched ==
  /\ main = "serving" /\ ctx = "done"
  /\ main' = "closeln"
  /\ marker' = "none"
  /\ UNCHANGED <<mode, ctx, latch, procs, clients, stamp, last, sched>>

\* The context is done: latch unhealthy before the run in hand resolves.
BeginDrain ==
  /\ main = "serving" /\ ctx = "done"
  /\ main' = "closeln"
  /\ latch' = "draining"
  /\ marker' = "none"
  /\ UNCHANGED <<mode, ctx, procs, clients, stamp, last, sched>>

\* One of the steps of the stop that only move the main goroutine on.
MainStep(from, to) ==
  /\ main = from
  /\ main' = to
  /\ UNCHANGED <<mode, ctx, latch, marker, procs, clients, stamp, last, sched>>

CloseListener == MainStep("closeln", "closequeue")
CloseQueue == MainStep("closequeue", "waitexec")
ExecutorDone == exec = "exited" /\ MainStep("waitexec", "waittick")
TickerDone == tick = "done" /\ MainStep("waittick", "waitsrv")

\* A mutant: the stop does not wait for the handlers to deliver.
SrvWaitSkipped ==
  /\ main = "waitsrv"
  /\ main' = "exit0"
  /\ marker' = "none"
  /\ UNCHANGED <<mode, ctx, latch, procs, clients, stamp, last, sched>>

\* srv.Wait returns when no handler is left; the deferred Cleanup follows.
SrvWait ==
  /\ main = "waitsrv"
  /\ \A c \in Clients : handler[c] = "none"
  /\ main' = "exit0"
  /\ marker' = "none"
  /\ UNCHANGED <<mode, ctx, latch, procs, clients, stamp, last, sched>>

(***************************************************************************)
(* RUN ONCE: the job in the main goroutine, its marker and its exit code.  *)
(***************************************************************************)

\* runOnce begins unhealthy, whatever an earlier life left.
OnceStart ==
  /\ main = "once"
  /\ main' = "oncejob"
  /\ marker' = "none"
  /\ UNCHANGED <<mode, ctx, latch, procs, clients, stamp, last, sched>>

\* What runFclonesJob can come to: only a stop signal interrupts it.
JobFates == IF ctx = "done" THEN Fates ELSE Fates \ {"interrupted"}

\* runFclonesJob returns; a run-once job leaves no record.
OnceReturn ==
  /\ main = "oncejob"
  /\ main' = "oncemark"
  /\ \E f \in JobFates :
       /\ fate' = f
       /\ last' = IF f \in Completed THEN f ELSE last
  /\ UNCHANGED <<mode, ctx, latch, marker, queue, exec, cur, tick, clients, stamp, sched>>

\* The marker follows jobHealthSignal on a first read of the context.
OnceMark ==
  LET signal == jobHealthSignal(ctx = "done", Ran(fate), Err(fate))
  IN  /\ main = "oncemark"
      /\ main' = "onceclass"
      /\ marker' = IF signal.set THEN IF signal.healthy THEN "healthy" ELSE "none"
                    ELSE marker
      /\ UNCHANGED <<mode, ctx, latch, procs, clients, stamp, last, sched>>

\* The result follows a second read; a skip clears the marker as well.
OnceClassify ==
  LET outcome == classifyRunOnceOutcome(Ran(fate), Err(fate), ctx = "done")
  IN  /\ main = "onceclass"
      /\ main' = IF outcome = "ok" THEN "oncenil" ELSE "onceerr"
      /\ marker' = IF outcome = "skipped" THEN "none" ELSE marker
      /\ UNCHANGED <<mode, ctx, latch, procs, clients, stamp, last, sched>>

\* run's deferred Cleanup, and the exit code of dispatch.
OnceExit ==
  /\ main \in {"oncenil", "onceerr"}
  /\ main' = IF main = "oncenil" THEN "exit0" ELSE "exit1"
  /\ marker' = "none"
  /\ UNCHANGED <<mode, ctx, latch, procs, clients, stamp, last, sched>>

(***************************************************************************)
(* THE EXECUTOR: trigger.Execute and its callback daemon.run.              *)
(***************************************************************************)

\* A mutant: the queue holds one request too many.
AdmitsOffByOne == QueueOpen /\ Len(queue) <= QueueCapacity

\* Queue.Submit: refused when the queue is full or closed.
Admits == QueueOpen /\ Len(queue) < QueueCapacity

(***************************************************************************)
(* The result of r's request is delivered: the ticker's wait ends, a       *)
(* client's handler has something to write.                                *)
(***************************************************************************)
Deliver(r, ok) ==
  /\ tick' = IF r = Ticker /\ tick = "wait" THEN "loop" ELSE tick
  /\ handler' = [c \in Clients |-> IF c = r THEN IF ok THEN "ok" ELSE "fail"
                                            ELSE handler[c]]

\* What the client behind r is told by the daemon, if it is still there.
Told(r, what) ==
  told' = [c \in Clients |-> IF c = r /\ client[c] = "waiting" THEN what ELSE told[c]]

\* The executor takes the oldest request and runs it.
TakeRun ==
  /\ exec = "idle" /\ queue # <<>> /\ ctx = "live"
  /\ cur' = Head(queue)
  /\ queue' = Tail(queue)
  /\ exec' = "job"
  /\ UNCHANGED <<main, mode, ctx, latch, marker, fate, tick, clients, stamp, last, sched>>

\* After the stop signal a queued request is answered as cancelled, not run.
TakeCancelled ==
  /\ exec = "idle" /\ queue # <<>> /\ ctx = "done"
  /\ queue' = Tail(queue)
  /\ Deliver(Head(queue), FALSE)
  /\ Told(Head(queue), "cancelled")
  /\ UNCHANGED <<main, mode, ctx, latch, marker, exec, cur, fate, client, stamp, last, sched>>

(***************************************************************************)
(* runFclonesJob returns.  By FclonesJob's ResultTellsFailure it hides a   *)
(* failure only under a cancelled context; a run cut short is interrupted. *)
(***************************************************************************)
JobReturn ==
  /\ exec = "job"
  /\ exec' = "returned"
  /\ \E f \in JobFates :
       /\ fate' = f
       /\ last' = IF f \in Completed THEN f ELSE last
       /\ sched' = IF f \in Completed /\ cur = Ticker THEN f ELSE sched
       /\ Told(cur, f)
  /\ UNCHANGED <<main, mode, ctx, latch, marker, queue, cur, tick, handler, client, stamp>>

\* The outcome of a scheduled run that completed is not going to be recorded.
LoseRecord == sched' = IF cur = Ticker /\ fate \in Completed THEN "lost" ELSE sched

\* A mutant: the marker follows the run although the context is done.
ReadSignalIgnoringCtx ==
  /\ exec = "returned"
  /\ IF jobHealthSignal(FALSE, Ran(fate), Err(fate)).set
     THEN exec' = "set" /\ UNCHANGED sched
     ELSE exec' = "answer" /\ LoseRecord
  /\ UNCHANGED <<main, mode, ctx, latch, marker, queue, cur, fate, tick, clients, stamp, last>>

\* run reads ctx.Err() once more, and recordOutcome decides on that.
ReadSignal ==
  /\ exec = "returned"
  /\ IF jobHealthSignal(ctx = "done", Ran(fate), Err(fate)).set
     THEN exec' = "set" /\ UNCHANGED sched
     ELSE exec' = "answer" /\ LoseRecord
  /\ UNCHANGED <<main, mode, ctx, latch, marker, queue, cur, fate, tick, clients, stamp, last>>

(***************************************************************************)
(* recordOutcome: the marker through the latch, which a drain has closed   *)
(* to a healthy write; then, for a scheduled run, the record.              *)
(***************************************************************************)
HealthSet ==
  /\ exec = "set"
  /\ marker' = IF ~Err(fate) /\ latch = "open" THEN "healthy" ELSE "none"
  /\ exec' = IF cur = Ticker THEN "stamp" ELSE "answer"
  /\ UNCHANGED <<main, mode, ctx, latch, queue, cur, fate, tick, clients, stamp, last, sched>>

\* stamp.Record: the outcome replaces the record, or the old record stays.
StampRecord ==
  /\ exec = "stamp"
  /\ \/ stamp' = (IF Err(fate) THEN "failed" ELSE "ok") /\ UNCHANGED sched
     \/ UNCHANGED stamp /\ LoseRecord
  /\ exec' = "answer"
  /\ UNCHANGED <<main, mode, ctx, latch, marker, queue, cur, fate, tick, clients, last>>

\* A mutant: every run is answered as a success.
AnswerAlwaysOK ==
  /\ exec = "answer"
  /\ exec' = "idle"
  /\ Deliver(cur, TRUE)
  /\ UNCHANGED <<main, mode, ctx, latch, marker, queue, cur, fate, client, told,
                 stamp, last, sched>>

\* The Outcome, OK when the job returned no error, goes to the requester.
Answer ==
  /\ exec = "answer"
  /\ exec' = "idle"
  /\ Deliver(cur, ~Err(fate))
  /\ UNCHANGED <<main, mode, ctx, latch, marker, queue, cur, fate, client, told,
                 stamp, last, sched>>

\* Execute returns when the queue is closed and empty.
ExecutorExit ==
  /\ exec = "idle" /\ ~QueueOpen /\ queue = <<>>
  /\ exec' = "exited"
  /\ UNCHANGED <<main, mode, ctx, latch, marker, queue, cur, fate, tick, clients,
                 stamp, last, sched>>

ExecutorStep ==
  \/ TakeRun \/ TakeCancelled \/ ReadSignal \/ HealthSet
  \/ StampRecord \/ Answer \/ ExecutorExit

(***************************************************************************)
(* THE TICKER: startTicker, tick and the library's RunLoop.                *)
(***************************************************************************)

\* A mutant: the ticker does not wait for the result of its run.
TickNoWait ==
  /\ IF Admits THEN queue' = Append(queue, Ticker) ELSE UNCHANGED queue
  /\ tick' = "loop"
  /\ UNCHANGED <<main, mode, ctx, latch, marker, exec, cur, fate, clients, stamp, last, sched>>

\* A mutant: the ticker waits for a result although its run was refused.
TickWaitsAlways ==
  /\ IF Admits THEN queue' = Append(queue, Ticker) ELSE UNCHANGED queue
  /\ tick' = "wait"
  /\ UNCHANGED <<main, mode, ctx, latch, marker, exec, cur, fate, clients, stamp, last, sched>>

\* tick: a scheduled run is submitted and waited for, or skipped if refused.
Tick ==
  /\ IF Admits THEN queue' = Append(queue, Ticker) /\ tick' = "wait"
               ELSE UNCHANGED queue /\ tick' = "loop"
  /\ UNCHANGED <<main, mode, ctx, latch, marker, exec, cur, fate, clients, stamp, last, sched>>

StartupTick == tick = "startup" /\ Tick
\* The loop fires; its timer may win against a context that is just done.
IntervalTick == tick = "loop" /\ Tick

\* RunLoop returns when the context is done.
TickerExit ==
  /\ tick = "loop" /\ ctx = "done"
  /\ tick' = "done"
  /\ UNCHANGED <<main, mode, ctx, latch, marker, queue, exec, cur, fate, clients,
                 stamp, last, sched>>

(***************************************************************************)
(* THE CLIENTS (runClient) AND THEIR HANDLERS (trigger.Server).            *)
(***************************************************************************)
daemon == <<main, mode, ctx, latch, marker, exec, cur, fate, tick, stamp, last, sched>>

\* `scan` connects and sends its request; a handler takes the connection.
Connect(c) ==
  /\ client[c] = "idle" /\ handler[c] = "none" /\ LnOpen
  /\ client' = [client EXCEPT ![c] = "waiting"]
  /\ handler' = [handler EXCEPT ![c] = "accepted"]
  /\ told' = [told EXCEPT ![c] = "none"]
  /\ UNCHANGED <<daemon, queue>>

\* `scan` finds nobody listening.
Unreachable(c) ==
  /\ client[c] = "idle" /\ ~LnOpen
  /\ client' = [client EXCEPT ![c] = "exit1"]
  /\ told' = [told EXCEPT ![c] = "unreachable"]
  /\ UNCHANGED <<daemon, queue, handler>>

\* The handler submits the request and waits for its result.
HandlerSubmit(c) ==
  /\ handler[c] = "accepted" /\ Admits
  /\ handler' = [handler EXCEPT ![c] = "queued"]
  /\ queue' = Append(queue, c)
  /\ UNCHANGED <<daemon, client, told>>

\* The queue is full or closed: the handler answers with the reason at once.
HandlerReject(c) ==
  /\ handler[c] = "accepted" /\ ~Admits
  /\ handler' = [handler EXCEPT ![c] = "fail"]
  /\ Told(c, "rejected")
  /\ UNCHANGED <<daemon, queue, client>>

\* The client was gone before its request was complete.
HandlerDrop(c) ==
  /\ handler[c] = "accepted" /\ client[c] # "waiting"
  /\ handler' = [handler EXCEPT ![c] = "none"]
  /\ UNCHANGED <<daemon, queue, client, told>>

\* The handler writes the final event; finishResult makes it the exit code.
HandlerReply(c) ==
  /\ handler[c] \in {"ok", "fail"}
  /\ handler' = [handler EXCEPT ![c] = "none"]
  /\ client' = [client EXCEPT ![c] =
       IF @ # "waiting" THEN @ ELSE IF handler[c] = "ok" THEN "exit0" ELSE "exit1"]
  /\ UNCHANGED <<daemon, queue, told>>

\* Ctrl-C on the client: it exits 1, its request goes on in the daemon.
Interrupt(c) ==
  /\ client[c] = "waiting"
  /\ client' = [client EXCEPT ![c] = "exit1"]
  /\ told' = [told EXCEPT ![c] = "abandoned"]
  /\ UNCHANGED <<daemon, queue, handler>>

\* The client process is gone; another `scan` may be started.
Again(c) ==
  /\ client[c] \in {"exit0", "exit1"} /\ handler[c] = "none"
  /\ client' = [client EXCEPT ![c] = "idle"]
  /\ told' = [told EXCEPT ![c] = "none"]
  /\ UNCHANGED <<daemon, queue, handler>>

HandlerStep(c) ==
  HandlerSubmit(c) \/ HandlerReject(c) \/ HandlerDrop(c) \/ HandlerReply(c)

(***************************************************************************)
(* SIGKILL, OOM kill or power loss.  The queue, the goroutines and the     *)
(* connections are gone; the marker and the record stay as they are, and a *)
(* scheduled run that had completed may be left unrecorded.                *)
(***************************************************************************)
Crash ==
  /\ main \notin {"down"} \union Exited
  /\ main' = "down"
  /\ queue' = <<>>
  /\ exec' = "off"
  /\ tick' = "off"
  /\ handler' = [c \in Clients |-> "none"]
  /\ client' = [c \in Clients |-> IF client[c] = "waiting" THEN "exit1" ELSE client[c]]
  /\ told' = [c \in Clients |-> IF client[c] = "waiting" THEN "lost" ELSE told[c]]
  /\ IF exec \in {"returned", "set", "stamp"} THEN LoseRecord ELSE UNCHANGED sched
  /\ UNCHANGED <<mode, ctx, latch, marker, cur, fate, stamp, last>>

MainNext ==
  \/ BootFail \/ BootOK \/ ListenFail \/ Start \/ BeginDrain
  \/ CloseListener \/ CloseQueue \/ ExecutorDone \/ TickerDone \/ SrvWait
  \/ OnceStart \/ OnceMark \/ OnceClassify \/ OnceExit

ClientNext(c) == Connect(c) \/ Unreachable(c) \/ Interrupt(c) \/ Again(c)

Next ==
  \/ Boot \/ MainNext \/ Signal \/ Crash
  \/ ExecutorStep \/ JobReturn \/ OnceReturn
  \/ StartupTick \/ IntervalTick \/ TickerExit
  \/ \E c \in Clients : HandlerStep(c) \/ ClientNext(c)

Spec == Init /\ [][Next]_vars

(***************************************************************************)
(* Fairness.  Goroutines run on: the main goroutine, the executor, the     *)
(* handlers, the ticker's startup run and its reaction to a done context.  *)
(* A job returns once the context is done (the command runner then ends    *)
(* the child; FclonesJob's LockReleased); that it returns in service is    *)
(* not taken for granted.  Boots, signals, ticks, crashes and clients are  *)
(* free.                                                                   *)
(***************************************************************************)
Fairness ==
  /\ WF_vars(MainNext)
  /\ WF_vars(ExecutorStep)
  /\ WF_vars(ctx = "done" /\ (JobReturn \/ OnceReturn))
  /\ WF_vars(StartupTick)
  /\ WF_vars(TickerExit)
  /\ \A c \in Clients : WF_vars(HandlerStep(c))

FairSpec == Spec /\ Fairness

(***************************************************************************)
(* PROPERTIES.                                                             *)
(***************************************************************************)

(***************************************************************************)
(* Once the drain has begun the marker stays unhealthy, whatever run is    *)
(* still on its way to recordOutcome: a result judged before the signal    *)
(* must not be written after BeginDrain.                                   *)
(***************************************************************************)
DrainStaysUnhealthy ==
  main \in {"closeln", "closequeue", "waitexec", "waittick", "waitsrv"} \union Exited =>
    marker = "none"

(***************************************************************************)
(* While the container serves, the marker is that of the last run that     *)
(* completed in this life or, before the first, of the boot rule: healthy  *)
(* in external mode, and in built-in mode only if the last scheduled run   *)
(* of an earlier life was clean (or its record was lost on the way).       *)
(***************************************************************************)
MarkerHonest ==
  main = "serving" /\ ctx = "live" /\ exec \notin {"returned", "set"} =>
    /\ last # "none" => (marker = "healthy" <=> last = "clean")
    /\ last = "none" /\ mode = "external" => marker = "healthy"
    /\ last = "none" /\ marker = "healthy" => mode = "external" \/ sched \in {"clean", "lost"}

(***************************************************************************)
(* The record on /cache is about the last scheduled run that completed,    *)
(* over crashes, restarts and triggered runs: it contradicts that run only *)
(* where its recording was cut short.                                      *)
(***************************************************************************)
StampTellsLastScheduled ==
  sched # "lost" /\ ~(cur = Ticker /\ exec \in {"returned", "set", "stamp"}) =>
    /\ stamp = "ok" => sched = "clean"
    /\ stamp = "failed" => sched = "failed"
    /\ stamp = "none" => sched = "none"

(***************************************************************************)
(* A `scan` client's exit code tells what became of its own request: 0     *)
(* only for a run that took place or was skipped for the lock, 1 for one   *)
(* that failed, was refused or cancelled, or that the client did not see   *)
(* the end of.                                                             *)
(***************************************************************************)
ExitCodeHonest ==
  \A c \in Clients :
    /\ client[c] = "exit0" => told[c] \in {"clean", "skipped", "interrupted"}
    /\ client[c] = "exit1" => told[c] \notin {"none", "clean", "skipped", "interrupted"}

(***************************************************************************)
(* A run-once process answers for its one job: it returns no error, with a *)
(* healthy marker, only if the job was clean; it returns an error over a   *)
(* clean job, or beside a healthy marker, only if the stop signal came     *)
(* after the job; and no stale marker shows while the job runs.            *)
(***************************************************************************)
OnceVerdict ==
  /\ main = "oncejob" => marker = "none"
  /\ main = "oncenil" => fate = "clean" /\ marker = "healthy"
  /\ main = "onceerr" /\ (fate = "clean" \/ marker = "healthy") =>
       fate = "clean" /\ ctx = "done"
  /\ main = "exit0" /\ mode = "once" => fate = "clean"

\* How often r's request is in the queue or in the executor's hands.
InHand(r) == IF cur = r /\ exec \notin {"off", "idle", "exited"} THEN 1 ELSE 0
Queued(r) == Cardinality({i \in DOMAIN queue : queue[i] = r})

(***************************************************************************)
(* Whoever waits for a result is owed exactly one: a waiting handler or    *)
(* ticker has one request in the queue or in hand, anyone else has none.   *)
(***************************************************************************)
WaitersOwedOne ==
  /\ Queued(Ticker) + InHand(Ticker) = IF tick = "wait" THEN 1 ELSE 0
  /\ \A c \in Clients : Queued(c) + InHand(c) = IF handler[c] = "queued" THEN 1 ELSE 0

(***************************************************************************)
(* An orderly stop leaves nothing behind: no queued or running request, no *)
(* handler with an undelivered result, no client still waiting.            *)
(***************************************************************************)
CleanStop ==
  main \in Exited =>
    /\ queue = <<>> /\ exec \in {"off", "exited"} /\ tick \in {"off", "done"}
    /\ \A c \in Clients : handler[c] = "none" /\ client[c] # "waiting"

(***************************************************************************)
(* After a stop signal the process ends, in any mode, whatever is queued,  *)
(* running or waiting, and even if the phases have no deadline.            *)
(***************************************************************************)
ShutdownCompletes == ctx = "done" ~> main \in Exited \union {"down"}

(***************************************************************************)
(* If no run goes on for ever (phase deadlines see to it), everyone who    *)
(* waits is answered: a `scan` client comes back, and the ticker gets to   *)
(* its next interval, in service and across a stop.                        *)
(***************************************************************************)
EveryoneAnswered ==
  []<>(exec # "job") =>
    /\ \A c \in Clients : client[c] = "waiting" ~> client[c] # "waiting"
    /\ tick = "wait" ~> tick # "wait"
=============================================================================
