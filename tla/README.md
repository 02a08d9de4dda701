# A TLA+ model of docker-fclones-scheduler

docker-fclones-scheduler is a container whose main process runs the duplicate
finder fclones: on a built-in interval, on request of `wrapper scan`, or once.
This directory models the wrapper (Go, about 2400 lines under `src/`), checks
the models with TLC and proves their safety properties with TLAPS. Paths below
are relative to `src/`.

## The system

| Part | State | Operations | Hard part |
|---|---|---|---|
| Scan and action job (`scheduler.go`) | flock on `/cache`, one report file, the phase contexts, the result `(ran, err)` | `runFclonesJob`, `runFclonesAction` | several processes on one volume; deadline, signal and child exit racing; crash with a report on disk |
| Stale-report sweep (`scheduler.go`) | the glob's matches | `cleanStaleReports`, `sweepStaleReports` | another process's live report |
| Outcome decisions (`outcome.go`, `health.go`, `scheduler.go`) | none | `classifyExecOutcome`, `classifyAndLogOutcome`, `jobHealthSignal`, ... | precedence of shutdown, timeout and error |
| Daemon (`daemon.go`) | queue, health latch and marker, last-run record on `/cache`, executor, ticker and handler goroutines | `runDaemon`, `startTicker`, `tick`, `run`, `recordOutcome`, `builtinBootState` | order of the stop; context read twice; marker and record outlive a crash |
| Trigger client (`client.go`) | exit code | `runClient`, `finishResult` | leaves, or loses the daemon, before its result |
| Action capture (`internal/capbuf`, `internal/parsing`) | two capped buffers | `Buffer.Write`, `ParseActionSummary`, `resolveActionSummary` | the verdict needs the last line, the buffer keeps the first megabyte |
| Entry and modes (`main.go`) | marker, mode | `run`, `bootstrap`, `runOnce` | stale marker; exit code against marker |
| Built-in schedule (`daemon.go`) | the timer, the record on `/cache` | `startTicker`, `tick`, `builtinBootState` | a restart between two scans; a record that is lost or turns due while it is read |
| Health probe (`health.go`) | the marker's age | `probeOptions` | a lease that outlasts the longest live cycle and no more; the environment parsed a second time by another process |
| Report decoder and duplicate log (`internal/parsing`, `scheduler.go`) | counters, retained groups, three caps | `DecodeReport`, `logDuplicateGroups` | strict although it streams; which cap cuts the log, and whether the log says so |
| Configuration gates (`config.go`, `internal/args`) | the write probe's goroutine | `loadConfig`, `validateArgEnvs`, `verifyCacheDir`, `args.Parse` | quoting; what a bare token is; a hung file system at startup |
| Line filter (`internal/linefilter`) | one partial line | `Write`, `Flush` | chunk borders, flood cap, sink error |
| Flag snapshot, packaging, alerts, licences | none | build time only | none |

Processes on one volume meet in the flock and in the report files, nowhere
else. Inside a container the executor runs one request at a time; the ticker and
the handlers submit to its bounded queue and wait for the result; the executor
alone writes the marker (through a latch the stop closes) and the record.

What makes each part correct:

* job and sweep: runs exclude each other across processes; the lock is released
  on every path; a live report is disturbed by nobody; only a crash or a refused
  removal leaves a report behind; the result tells what happened;
* daemon: everyone who waits gets exactly one answer; marker and record agree
  with the last run over any number of lives; the stop ends and leaves nothing
  behind;
* client: the exit code is that of its own request;
* capture: a prefix is kept, and the verdict on an action is the right one as far
  as what was kept can tell;
* schedule and probe: a restart adds no scan and keeps the cadence; the
  healthcheck never calls a working container dead and always a hung one;
* report: what is accepted is whole and consistent, and the log tells all of it
  or that it does not;
* configuration: fclones runs with the words that were written, within the
  wrapper's contracts; startup ends;
* line filter: how the output is cut into writes does not show, memory is
  bounded, and the log stays clean.

## The modules

* `JobOutcome`: the pure decisions. An error is a Boolean, a context is known by
  whether it is done.
* `FclonesJob`: the job and the sweep, run by a set `Procs` of processes over
  report names `Files`. One action per step of the code between two points at
  which another process, a signal or a crash can be noticed; every early return
  is an action (`LockError`, `LockSkip`, `StartError`, `DecodeError`, `NoAction`,
  `ActionOpenError`, ...), and the deferred calls run in their LIFO order
  (`RemoveReport`, then `Unlock`). `lost`, `kept` and `failed` are history.
* `ExclusiveRun`: what the lock promises, as sessions: entered, scanning,
  scanned, acting, closing. `FclonesJob` implements it (`Session`,
  `ImplementsExclusiveRun`); the mapping reads the session's owner off the lock
  and its stage off the owner's control point. A sweep is a session without a
  scan.
* `Daemon`: one container over any number of lives, each in one of the three
  modes: main goroutine (`run`, `runOnce`, `runDaemon`), executor, ticker, one
  handler per client, the clients, marker and record. The job is one step here, whose results are those that
  `FclonesJob`'s `ResultTellsFailure` leaves possible. `last`, `sched` and `told`
  are history.
* `ActionCapture`: the two capped buffers and the verdict on an action.
* `Schedule`: the built-in schedule in exact time, over any number of lives. The
  ticker goroutine goes from boot to a startup scan if one is due, then into the
  loop (`Arm`, with the first delay read off the record a second time), asleep,
  queued, and on; the executor runs its ticks and clients' runs, each for up to
  two deadlines and an overhead; `Elapse` is a unit of time. Instants are kept as
  ages, cut off just above what they are compared with, so that behaviours are
  endless and the state space is finite. `since`, `lost`, `missed` and `entry` are
  history; `entry` tells what the first delay of a life was read off.
* `Report`: `DecodeReport` token by token and `logDuplicateGroups` pair by pair.
  The document is what has been read so far; the properties read that document
  and never what the decoder counted.
* `ArgsParse`: the tokenizer. `ConfigGates`: the gates, the configuration, the
  healthcheck's own reading of the environment and the two command lines, as
  operators. `Bootstrap` composes them: from an environment, given as the words
  somebody meant and the way they were quoted, over the gates and the write probe
  of the cache directory (a goroutine racing a timer) to a refusal or to the
  command lines.
* `LineFilter`: the writer between fclones' stderr and the log: writes of any
  size, lines, the flood cap, a sink that may fail, and the final flush.
* `FclonesJobProofs`, `DaemonProofs`, `ScheduleProofs`, `ActionCaptureProofs`,
  `LineFilterProofs`, `BootstrapProofs`, `ReportProofs`: the theorems about each
  module. `DataLemmas`: induction and recursion over numbers and sequences, which
  the last four rest on. `MCFclonesJob`, `MCDaemon`, `MCBootstrap`, `MCLineFilter`:
  constants, inputs and symmetry for TLC.

How they fit together: `FclonesJob` is the job that `Daemon` sees as one step and
`Schedule` as a stretch of time; `Report` is the decode step of `FclonesJob`,
`ActionCapture` its verdict on the action, `LineFilter` the error stream of its
children, and `Bootstrap` comes before all of them and yields the configuration
they run under.

An operator marked "A mutant" stands before the definition it is a plausible
mistake in. No specification uses it: it is there to confirm that the property
it belongs to would notice that mistake.

### How the code is abstracted

* Log wording and sizes in bytes are left out, and so are argument strings
  outside `Bootstrap`. `buildScanArgs` and
  `buildActionArgs` fail only on strings `validateArgEnvs` has refused at start
  (`CommandAsWritten`), so their error returns share `StartError` in `FclonesJob`
  and need no action of their own in the action phase.
* A report is partial, garbled (anything the strict decoder refuses), without
  duplicates or with some. A child may exit 0 even though its context is done,
  because it may have finished first; a child whose context is done is not
  started.
* The two reads of the parent context in `classifyExecOutcome` and the step that
  acts on them are one action: whatever lies between the reads, the result is
  that of a single read at the time of the last one.
* A crash takes the child along, since the wrapper is PID 1 of its container; the
  kernel drops the flock.
* `filepath.Glob` hides a directory it cannot read; a sweep may then see nothing.
* Time, outside `Schedule`: a phase with a deadline may reach it at any moment, a tick may come at
  any moment, and a record may be found due or not at any boot.
* `FclonesJob` starts a job whenever its process is idle; when the daemon does
  so is `Daemon`'s matter. A run-once process starts one job in its life.
* The queue, the socket server, the latch, the loop and the record are libraries
  outside the repository, modelled from how `daemon.go` and `client.go` use them:
  a queue that refuses when full or closed, an executor that answers what it
  finds after the signal as cancelled and returns when the closed queue is empty,
  a latch that lets no healthy write through once draining, a record that is
  replaced as a whole or not at all.
* In `ActionCapture` the cap counts words, so a cut never falls inside a word. A
  warning never says both "Processed" and "reclaimed", as a path in it could: what
  `ParseActionSummary` makes of such a line, the first to match, is left out, and
  `VerdictSound` rests on that.
* In `LineFilter` a word the filter looks for is one byte, so that a cut inside it is
  left out, and a rune is two. A sink that fails takes nothing of the line at hand;
  a line written in part, and the error that then reaches the child's `Run`, are
  left out.
* In `Bootstrap` a cancelled parent context, which would end the wait for the write
  probe as well (`config.go:418`), is taken together with the timeout: both refuse
  the start, and `run` installs its signal handler only later.
* In `ArgsParse` an option's name is one rune; in `ConfigGates` a token is told by
  its first rune, and the spellings a gate folds together (case, `--flag=value`,
  `-fjson`) are one token. A duration is unset, unparseable, negative, zero or
  positive.
* In `Schedule` a unit of time is longer than the start of a goroutine; the ticker
  may enter its loop one unit after boot, so that a record can turn due between
  its two reads. `scheduler.RunLoop` is outside the repository: after a tick the
  next one is at most an interval away, and a first delay of zero may mean no wait
  or an interval. An overhead (lock, kill grace, decode, log) bounds what a run
  spends outside its two phases; that it is below an interval is an assumption the
  code does not enforce, and the lease depends on it. A wedged run hangs where no deadline reaches it.
* In `Report` the pairs of one group take equally many bytes.

## The runs

| Run | Instance | Shows |
|---|---|---|
| `job_safety` | 2 processes, 2 reports, 5 configurations | `LockOwned`, `OneScanAtATime`, `LiveReportIntact`, `ResultTellsFailure`, `OrphansAccounted`, `SweepComplete`, over every interleaving, failure and crash, and that the job implements `ExclusiveRun` (0.8 million states) |
| `job_live` | 2 processes, 1 report, 3 configurations | the lock is given back (`LockReleased`) |
| `daemon_safety` | 2 clients, queue of 2 | `DrainStaysUnhealthy`, `MarkerHonest`, `StampTellsLastScheduled`, `ExitCodeHonest`, `WaitersOwedOne`, `CleanStop`, `OnceVerdict`: marker, record, exit codes, the queue's accounts and the stop, in every mode (1.3 million states) |
| `daemon_live` | 1 client, queue of 1, no deadlines | the stop ends (`ShutdownCompletes`); everyone waiting is answered unless a job runs for ever (`EveryoneAnswered`) |
| `capture` | 12 words kept, up to 5 warnings | the capture is a prefix (`CaptureIsPrefix`); the verdict wherever the summary is cut (`VerdictSound`) |
| `capture_noop` | the same | **violated**: see below |
| `schedule` | interval 3, timeout 4, overhead 2 | the lease outlasts a live schedule (`LiveScheduleFresh`), restarts keep the cadence to the unit, with the exceptions below (`RestartKeepsCadence`), a hang is noticed (`WedgeNoticed`) |
| `schedule_stale` | the same, no overhead | **violated**: see below |
| `report` | documents of 7 tokens, groups of up to 3 files, caps of 2 groups, 3 pairs and 5 bytes | `StrictContract`, `ReportTellsDocument`, `LogTellsDocument`, `LogCutAtCaps` (2 million states) |
| `linefilter` | any three of eight lines, cap of 4 bytes | `ChunkingInvisible`, `EveryByteJudged`, `LogIsClean`, over every cut into writes |
| `bootstrap` | up to 3 words per variable, three quoting styles | `CommandAsWritten`, `CommandWithinContract`, `ProbeAgrees`, `StartedMeansWritable`, `BootstrapEnds` |
| `bootstrap_positional` | the same | **violated**: see below |

Why these bounds suffice. The properties of the job relate at most two processes
and one report; with two processes and two names there is a live report beside
an orphan, a volume with no name left, and a third party is no different from
the second (the proofs cover any number). The five configurations show every two
settings in all their values. With two clients, the ticker and a
queue of two, the queue can be full with the executor busy, a client can be
refused, and a tick can find the queue full; one client and one slot already give
each of these in the liveness runs, where symmetry is not used. With twelve
words kept, and warnings of zero to thirteen words, the capture ends after every
one of the nine words of a summary, before it, and not at all.
In `Schedule` the overhead is as long as its assumption allows, a timeout is
longer than an interval and no multiple of it, so that ticks fall due while a run
goes on (the proofs cover all values). Seven tokens hold a header and an array of
three groups, one more than is retained; four pairs exceed the pair cap and three
of two bytes the byte cap, so each of the three caps is the one that cuts. In
`LineFilter` the cap is shorter than the streams, and falls on either side of
both bytes of a rune. Three words hold an option, its value and a stray word; one
variable of the environment takes all its values at a time, because the gates
judge each variable by itself.

Fairness, and why the code justifies it:

* goroutines run on: weak fairness of the steps of startup, job, main goroutine,
  executor and handlers, of the ticker's startup run and of its reaction to a
  done context;
* a phase that has a deadline reaches it (`context.WithTimeout`);
* a child whose context is done ends: the command runner sends SIGTERM and, after
  its grace period, SIGKILL. A child under a live context without a deadline owes
  nothing, which is why `LockReleased` and the answers depend on a deadline or a
  signal;
* in `Daemon` a job returns once the context is done; this is `FclonesJob`'s
  `LockReleased`, seen from outside. `EveryoneAnswered` takes as its premise that
  no job runs for ever, which a phase deadline would guarantee;
* in `Schedule` time passes and the ticker runs on, while a run that hangs owes
  nothing; in `Bootstrap` the main goroutine runs on and its timer fires, while a
  call on a hung file system may never return.

Starts, signals, ticks, clients and crashes are never forced. Deadlock is checked
but where the program ends: a document, a stream or a bootstrap comes to its end.

### What the runs found

`docs/how-it-works.md:19` says that an action "that found duplicates and processed
none of them fails the run". `capture_noop` shows the exception: fclones warns
about each file it cannot open and prints its summary last, while
`capbuf.Buffer` keeps the first megabyte. When the warnings fill it, the summary is lost,
`ParseActionSummary` matches nothing, and `runFclonesAction` reports success with
a truncation warning (`scheduler.go:504`). `VerdictSound` is what does hold,
wherever the cap falls: as long as the summary is kept to its seventh word the
verdict is right; cut between "reclaimed" and that word it counts as a summary of
zero files and the run fails, even if the action did its work; cut before, the run
passes.

`docs/how-it-works.md:47` says of the marker that "a file older than that means
the schedule has stopped". `schedule_stale` shows the exception: a tick that finds
the lock taken by another container writes no marker (`health.go:48`), and after
enough of them the lease runs out on a schedule that ticks on.
`LiveScheduleFresh` is what does hold: as long as every tick leads to a run, the
lease is long enough.

The comment of `rejectPositionalArgs` (`config.go:325`) says that "a bare token is
accepted only as a flag's value" and that "--" is rejected; `docs/configuration.md:60`
says the same. `bootstrap_positional` shows that the gate looks only at whether the
token before begins with a dash. So `--` comes through after any option (TLC's trace
has `--transform --`, under `ALLOW_UNSAFE_ARGS`), and a word after an option that
takes no value (`--hidden word`); fclones then reads the word, or what the wrapper
itself appends after `--`, as paths. `CommandWithinContract` is what does hold:
every word of `FCLONES_ARGS` and `FCLONES_ACTION_ARGS` is a flag or has one right
before it.

One comment holds up to an exception that the repository alone cannot settle.
`daemon.go:168` says that "a restart neither adds a scan nor delays the cadence", and
`docs/how-it-works.md:27` says so too. The record is read twice, by
`builtinBootState` and for `FirstDelay`. If it turns due between the two, there is no
startup scan and the first delay is zero. Whether `scheduler.RunLoop` takes a zero as
"now" or as "not given" is the library's affair, so `Remaining` allows both, and
`RestartKeepsCadence` says what follows: the tick is on time, or exactly one interval
late.

## The proofs

Every invariant a passing run checks is stated by a theorem, and so is the
refinement of `ExclusiveRun`. The theorems hold for any sets and bounds; the
assumptions are those the modules name:

* `NoProc` is not a process, `NoFile` not a report name, `Configs` is a non-empty
  set of configurations (`FclonesJob`);
* the ticker is not a client, the queue's capacity is positive (`Daemon`);
* a timeout is positive, and the overhead of a run is below an interval
  (`Schedule`);
* caps and counts are natural numbers (`Report`, `ActionCapture`), the cap of a
  line is positive (`LineFilter`);
* what a child writes is a finite sequence over the alphabet (`LineFilter`), and a
  setting is an environment: any number of words of any length in each variable,
  in one of the three quoting styles (`Bootstrap`).

`FclonesJobProofs` proves every safety property of the job. The inductive
invariant `IndInv` is the conjunction of

* `TypeOK`, which also ties the existence of a report to the control point;
* `LockOwned`: inductive with `TypeOK`, and mutual exclusion follows from it,
  which is not inductive by itself: it says nothing of a process that holds the
  lock without a report yet;
* `LiveReportIntact`, inductive with `LockOwned`: whoever removes files holds the
  lock, so no other report is live;
* `OrphansAccounted`: a removal needs to know that the name is the process's own;
* `SweepTracked`: `SweepComplete`, and what is still to be removed has not been
  given up already;
* `FailureTracked`: `ResultTellsFailure`, and nothing has failed where the job
  goes on, while before classification `runErr` is the only failure.

`Refinement` shows, from `IndInv`, that every step maps to a step of
`ExclusiveRun` or leaves it alone.

`DaemonProofs` proves every safety property of the daemon. Its `IndInv` is
`TypeOK` (with the queue's bound) and seven strengthenings:

* `DrainInv`, for `DrainStaysUnhealthy`: while the executor can still write, the
  latch is closed; later nobody is left to write, because the stop waits for the
  executor first;
* `StampInv`, for `StampTellsLastScheduled`: a completed scheduled run on its way
  to the record is the one `sched` speaks of, and an interrupted run never gets
  there, because it returned under a done context and `recordOutcome` reads the
  context again;
* `OnceInv`, for `OnceVerdict`: between `runOnce`'s two reads of the context the
  marker is already that of the job, and a run-once process never gets to serve;
* `StopInv`, for `CleanStop`: an executor that has left saw the queue closed and
  empty, a client that waits has a handler, and the last two steps of the stop
  find the executor and the ticker gone;
* `OwedInv`, for `WaitersOwedOne`: the counts the property speaks of are not
  inductive for a queue of any length. In their place stand the facts that no
  requester is queued twice, and that one who waits is queued or in hand and never
  both;
* `MarkerInv`, for `MarkerHonest`: between the return of a job and the write of the
  marker, the run at hand is the last one; elsewhere the marker is that of `last`.
  It takes `StampInv` to know what the record said at boot;
* `AnswerInv`, for `ExitCodeHonest`: an answer on its way, in the executor's hand or
  in the handler, is that of the client's own request. It takes `OwedInv`: a result
  could reach the wrong client only if a requester were in hand and queued as well.

`ScheduleProofs` proves `TypeOK`, `LiveScheduleFresh` and `RestartKeepsCadence` for
every interval, timeout and overhead. The lease's bound on an age says nothing of
how the age came about, so `FreshInv` bounds it at every point of the cycle: the
marker is new at boot and after a tick, at most one unit old where the loop is
entered; asleep, its age and the time left make at most an interval and one unit;
a queued tick adds as much as the run at hand has lasted. Two deadlines and an
overhead on top are within the lease exactly because the overhead is below an
interval: this is what the second interval of the lease is for.

`RestartKeepsCadence` makes three exceptions: the record of the last scan was lost
(not written, cut off by a crash, or gone with `/cache`); the startup scan was due
and made no scan, because the queue was full or the lock taken; the record turned due
between its two reads. The first two leave open when the first tick comes; the third
allows two instants, an interval apart. The inductive `CadenceInv` says why there is
no other. `RecordTrue`: while no record was lost, the record's age is the time since
the last scheduled scan. `PastStartup`: entering the loop, a life has
its startup scan behind it. `NotEntered`: only entering the loop finds a record
turned due. `JustDue`: a life that makes no exception comes to the loop with a record
of the last scan that is less than an interval old, or an interval old after the one
unit it may take to get there, so that the extra interval is exactly one.

### Data

The remaining components compute over sequences of any length, and what they
compute is shown by induction. The library's induction theorems take a predicate as
an operator, which the provers cannot instantiate. `DataLemmas` therefore derives
first-order forms from `NatLessThanWellFounded` and `WFMin`: a set with 0 that is
closed under successor holds every natural number (`NatInSet`), one with `<<>>` that
is closed under `Append` every sequence (`SeqInSet`), and a recursion over `0..n` has
a solution (`RecursionExists`). What `FlattenSeq` computes follows, and each proof
states its claim as a set of the numbers or sequences it holds for.

`LineFilterProofs`: `IndInv` says where bytes may be (`PlaceInv`: a partial line
has no newline and is within the cap), that nothing is made up (`SizeInv`), that
every byte fed is passed, at work or kept (`EveryByteJudged`), that what was logged
is clean, and, until the first flood, that the log is `Cleaned` of what has passed
(`ToldInv`). `Cleaned` decides each byte of a stream by its whole line; `CleanedConcat`
shows that it may be applied piece by piece wherever the first piece ends with a
newline, which is why the cuts do not show. `LogIsClean` needs that
`sanitizeControlBytes` leaves whole runes only, so that two clean pieces make a clean
log (`CleanConcat`).

`ActionCaptureProofs`: `IndInv` says of each stream that what is left to write is
the rest of the output and that the buffer is its first `Kept(total)` words. Once
the child has exited the capture is therefore the output up to some word, and
`VerdictSound` follows by reading any number of warnings and a summary up to every
word of it (`CutIs`): warnings never match the pattern (`NoSummary`), nor does a
summary before its fifth word (`UnrecognisedVerdict`), and its count is read from the
seventh on (`SummaryVerdict`). A dry run's never matches (`DryVerdict`).

`BootstrapProofs`: `IndInv` says that past `loadConfig` the configuration is that of
an accepted environment, that the command lines are built from it, and that nobody
starts before the write probe succeeded. `CommandAsWritten` is then a fact about the
tokenizer alone, by two inductions. Over the runes of a word: from inside its
quoting, the tokenizer takes a spelled rune as itself (`RuneLiteral`, `BodyLiteral`).
Over the words: from between two words it comes back there with one more token, or
none for an empty word (`WordsRead`). A value without its closing quote ends inside
the quote and is refused (`ParseCut`). `CommandWithinContract` adds that the wrapper's
own tokens are harmless and that the gates judged the same tokens the command line has.
Its contracts are those of `validateArgEnvs`, variable by variable:
`FCLONES_SCAN_PATHS` is gated for dangerous options only, so an option of the wrapper
or a bare word written there does reach the scan command.

`ReportProofs`: `IndInv` has four parts. `StrictInv` is the contract, and, while the
document is read, what the decoder's variables mean: the tokens so far are the
beginning of a report (`ShapeSoFar`), and `header`, `stats`, `groupsSeen` and the
count are those of the document (`MeaningSoFar`); the last `[` has not been closed
exactly if the decoder is in a group array. `TotalsKept` ties the totals to all
groups read and the retained ones to the first of them, also pair by pair, because
the log is read pair by pair. `LogState` says that what was logged is a beginning of
the pairs, what `detailBytes` counts, and why the loops ended (`LogEnded`): the byte
counter itself cannot tell, as it also counts the pair it dropped. `FieldTypes` has
the types that the other three leave open.

### Only model-checked

`LockReleased`, `ShutdownCompletes`, `EveryoneAnswered`, `WedgeNoticed` and
`BootstrapEnds`: liveness under fairness is out of the prover's reach. The three
violated runs need no proof: a counterexample is one.

## Not modelled

* What fclones does to the user's files, and its hash cache.
* The wording of log lines, `HumanBytes` and `parseHumanBytes`, the log level, and
  the routing of subcommands in `main.go`: no state depends on them.
* Time inside `FclonesJob` and `Daemon`, and the goroutines inside `Schedule`: the
  two views are kept apart, as their product would be out of TLC's reach.
* The flag snapshot (a build-time comparison of help texts), the Dockerfile,
  alerts and licences: nothing of them runs in the wrapper.

## Plan

Done, in this order: `JobOutcome`, `FclonesJob` with `ExclusiveRun`, their
proofs; `Daemon` (run-once mode included) and its first proofs; `ActionCapture`;
`Schedule` and its proofs; `LineFilter`; `ArgsParse`, `ConfigGates` and
`Bootstrap`; `Report`.

The proofs of the daemon's remaining invariants; `DataLemmas` and the proofs of
`ActionCapture`, `LineFilter`, `Bootstrap` and `Report`.

Next: the transitions the invariants leave implicit, as action properties with
proofs (what a boot may do to the marker and the record; that an answer, once given,
is not taken back), and shorter proofs where lemmas of `DataLemmas` can take over.
