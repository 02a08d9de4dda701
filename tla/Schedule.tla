------------------------------ MODULE Schedule ------------------------------
(***************************************************************************)
(* The built-in schedule in time (daemon.go startTicker, tick and          *)
(* builtinBootState; health.go probeOptions): over any number of lives of  *)
(* a container, when scheduled scans start, what the record on /cache      *)
(* makes of a restart, and what the healthcheck makes of the marker's age. *)
(*                                                                         *)
(* Module Daemon has the goroutines without time; here the goroutines are  *)
(* coarse and time is exact.  No clock is kept: every instant the code     *)
(* compares is an age, cut off just above the largest value it is compared *)
(* with, so the behaviours are endless and the state space is finite.      *)
(***************************************************************************)
EXTENDS Naturals

CONSTANTS
  Interval,   \* SCAN_INTERVAL
  Timeout,    \* SCAN_TIMEOUT, the deadline of one phase
  Overhead    \* bound on the time a run spends outside its two phases

ASSUME TimeoutAssumption == Timeout \in Nat \ {0}
\* A unit of time is longer than the start of a goroutine.
ASSUME SlackAssumption == Interval \in Nat /\ Overhead \in Nat /\ Overhead + 1 <= Interval

VARIABLES
  loop,       \* control point of the ticker goroutine, "down" with the process
  turn,       \* which tick of this life is next or in hand
  timer,      \* time to the next tick, while the loop sleeps
  job,        \* what the executor runs: "none", "tick" or "client"
  jobAge,     \* how long it has run
  wedged,     \* the run hangs where no deadline reaches it
  marker,     \* the marker file: "healthy" or "none"
  markerAge,  \* time since it was written
  record,     \* the last-run record: "none", "ok" or "failed"
  recordAge,  \* time since the instant it holds
  since,      \* history: time since a scheduled scan last completed
  lost,       \* history: that scan is not the one in the record
  missed,     \* history: a tick made no scan since the marker was written
  entry       \* history: what this life's first delay was read off, see Arm

vars == <<loop, turn, timer, job, jobAge, wedged, marker, markerAge, record,
          recordAge, since, lost, missed, entry>>

\* A mutant: the lease spans one interval.
MaxAgeOneCycle == Interval + 2 * Timeout

\* health.Lease: two cycles of the interval and two attempts of the timeout.
MaxAge == 2 * Interval + 2 * Timeout

\* A run is two phases under a deadline each, and what lies around them.
LongestRun == 2 * Timeout + Overhead

\* A mutant: the probe stats the marker and never looks at its age.
ProbeUnhealthyAnyAge == marker = "none"

\* `wrapper health`: no marker, or a marker older than the lease.
ProbeUnhealthy == marker = "none" \/ markerAge > MaxAge

TypeOK ==
  /\ loop \in {"down", "startup", "queued", "arm", "late", "sleep"}
  /\ turn \in {"startup", "first", "later"}
  /\ timer \in 0..Interval
  /\ job \in {"none", "tick", "client"}
  /\ jobAge \in 0..LongestRun
  /\ wedged \in BOOLEAN
  /\ marker \in {"healthy", "none"}
  /\ markerAge \in 0..(MaxAge + 1)
  /\ record \in {"none", "ok", "failed"}
  /\ recordAge \in 0..Interval
  /\ since \in 0..(2 * Interval)
  /\ lost \in BOOLEAN
  /\ missed \in BOOLEAN
  /\ entry \in {"phased", "turnedDue", "unscanned"}

\* Before the first life: an empty /cache.
Init ==
  /\ loop = "down"
  /\ turn = "startup"
  /\ timer = 0
  /\ job = "none"
  /\ jobAge = 0
  /\ wedged = FALSE
  /\ marker = "none"
  /\ markerAge = 0
  /\ record = "none"
  /\ recordAge = Interval
  /\ since = 2 * Interval
  /\ lost = FALSE
  /\ missed = FALSE
  /\ entry = "phased"

run == <<job, jobAge, wedged>>
cache == <<record, recordAge, since, lost>>

\* A mutant: a failed scan does not hold its slot.
DueRetriesFailed == record # "ok" \/ recordAge >= Interval

\* stamp.Due under CountFailed: any completed scan holds its slot.
Due == record = "none" \/ recordAge >= Interval

\* A life begins: builtinBootState on the record, and its marker.
Boot ==
  /\ loop = "down"
  /\ loop' = IF Due THEN "startup" ELSE "arm"
  /\ turn' = IF Due THEN "startup" ELSE "first"
  /\ marker' = IF ~Due /\ record = "ok" THEN "healthy" ELSE "none"
  /\ markerAge' = 0
  /\ missed' = FALSE
  /\ entry' = "phased"
  /\ UNCHANGED <<timer, run, cache>>

\* A mutant: the age of the record is added to the interval.
RemainingAdds == {Interval + recordAge}

(***************************************************************************)
(* stamp.Remaining as RunLoop's FirstDelay.  Without a record it is one    *)
(* interval.  A record that is due leaves no time, which the loop may take *)
(* as no wait or as a FirstDelay that was not given: both are allowed.     *)
(***************************************************************************)
Remaining ==
  IF record = "none" THEN {Interval}
  ELSE IF recordAge < Interval THEN {Interval - recordAge}
  ELSE {0, Interval}

\* The loop is entered with its first delay, read off the record once more; since
\* boot, or since the startup scan, that record may have turned due.
Arm ==
  /\ loop \in {"arm", "late"}
  /\ timer' \in Remaining
  /\ loop' = "sleep"
  /\ entry' = IF entry = "phased" /\ Due THEN "turnedDue" ELSE entry
  /\ UNCHANGED <<turn, run, marker, markerAge, cache, missed>>

\* The ticker's turn, at once for the startup scan or when its timer ends.
Fires == loop = "startup" \/ (loop = "sleep" /\ timer = 0)

(***************************************************************************)
(* tick returns.  After the startup scan comes the loop; in the loop the   *)
(* next tick is at most an interval away (RunLoop may count from this tick *)
(* or from its end).                                                       *)
(***************************************************************************)
AfterTick(soonest) ==
  IF turn = "startup"
  THEN loop' = "arm" /\ turn' = "first" /\ UNCHANGED timer
  ELSE loop' = "sleep" /\ turn' = "later" /\ timer' \in soonest..Interval

\* A tick ends without a scan; the startup scan of a life is not made up for.
NoScan ==
  /\ missed' = TRUE
  /\ entry' = IF turn = "startup" THEN "unscanned" ELSE entry

\* tick: the run is accepted and waited for.
Submit ==
  /\ Fires
  /\ loop' = "queued"
  /\ UNCHANGED <<turn, timer, run, marker, markerAge, cache, missed, entry>>

\* tick: the queue is full of triggered runs, the tick is skipped.
Refused ==
  /\ Fires /\ job = "client"
  /\ AfterTick(1)
  /\ NoScan
  /\ UNCHANGED <<run, marker, markerAge, cache>>

\* The executor takes the scheduled run, or one that a client asked for.
Take(kind) ==
  /\ job = "none" /\ loop # "down"
  /\ kind = "tick" => loop = "queued"
  /\ job' = kind
  /\ jobAge' = 0
  /\ UNCHANGED <<loop, turn, timer, wedged, marker, markerAge, cache, missed, entry>>

(***************************************************************************)
(* The lock is taken elsewhere: the run ends at once and writes nothing.   *)
(***************************************************************************)
Skip ==
  /\ job # "none" /\ jobAge = 0 /\ ~wedged
  /\ job' = "none"
  /\ IF job = "tick" THEN AfterTick(0) /\ NoScan
                     ELSE UNCHANGED <<loop, turn, timer, missed, entry>>
  /\ UNCHANGED <<jobAge, wedged, marker, markerAge, cache>>

(***************************************************************************)
(* A run completes and recordOutcome writes the marker.  A scheduled one   *)
(* is recorded as well, unless the record cannot be written.               *)
(***************************************************************************)
Finish(ok) ==
  /\ job # "none" /\ ~wedged
  /\ job' = "none"
  /\ marker' = IF ok THEN "healthy" ELSE "none"
  /\ markerAge' = 0
  /\ missed' = FALSE
  /\ IF job = "tick"
     THEN /\ since' = 0
          /\ AfterTick(0)
          /\ \/ /\ record' = IF ok THEN "ok" ELSE "failed"
                /\ recordAge' = 0
                /\ lost' = FALSE
             \/ lost' = TRUE /\ UNCHANGED <<record, recordAge>>
     ELSE UNCHANGED <<loop, turn, timer, cache>>
  /\ UNCHANGED <<jobAge, wedged, entry>>

\* The run hangs in a call that neither a deadline nor a signal ends.
Wedge ==
  /\ job # "none" /\ ~wedged
  /\ wedged' = TRUE
  /\ UNCHANGED <<loop, turn, timer, job, jobAge, marker, markerAge, cache, missed, entry>>

Down ==
  /\ loop # "down"
  /\ loop' = "down"
  /\ job' = "none"
  /\ wedged' = FALSE
  /\ UNCHANGED <<turn, timer, jobAge, markerAge, record, recordAge, missed, entry>>

\* An orderly stop interrupts the run, which records nothing, and cleans up.
Stop ==
  /\ ~wedged
  /\ Down
  /\ marker' = "none"
  /\ UNCHANGED <<since, lost>>

\* A crash may hit a scheduled run after its end and before its record.
Crash ==
  /\ Down
  /\ UNCHANGED marker
  /\ \/ UNCHANGED <<since, lost>>
     \/ job = "tick" /\ since' = 0 /\ lost' = TRUE

\* The container is recreated without its /cache.
CacheGone ==
  /\ loop = "down" /\ record # "none"
  /\ record' = "none"
  /\ lost' = TRUE
  /\ UNCHANGED <<loop, turn, timer, run, marker, markerAge, recordAge, since, missed, entry>>

Older(age, bound) == IF age < bound THEN age + 1 ELSE bound

(***************************************************************************)
(* Time passes.  It waits for a goroutine that has work, but the ticker    *)
(* may enter its loop one unit after boot; a run ends by its deadlines.    *)
(***************************************************************************)
Elapse ==
  /\ loop \notin {"startup", "late"}
  /\ loop = "sleep" => timer > 0
  /\ loop = "queued" => job # "none"
  /\ job # "none" => wedged \/ jobAge < LongestRun
  /\ loop' = IF loop = "arm" THEN "late" ELSE loop
  /\ timer' = IF loop = "sleep" THEN timer - 1 ELSE timer
  /\ jobAge' = IF job # "none" /\ ~wedged THEN jobAge + 1 ELSE jobAge
  /\ markerAge' = Older(markerAge, MaxAge + 1)
  /\ recordAge' = Older(recordAge, Interval)
  /\ since' = Older(since, 2 * Interval)
  /\ UNCHANGED <<turn, job, wedged, marker, record, lost, missed, entry>>

Next ==
  \/ Boot \/ Arm \/ Submit \/ Refused \/ Skip \/ Wedge \/ Stop \/ Crash
  \/ CacheGone \/ Elapse
  \/ \E kind \in {"tick", "client"} : Take(kind)
  \/ \E ok \in BOOLEAN : Finish(ok)

Spec == Init /\ [][Next]_vars

(***************************************************************************)
(* Fairness: time passes, and the ticker goroutine runs on.                *)
(***************************************************************************)
FairSpec ==
  /\ Spec
  /\ WF_vars(Elapse)
  /\ WF_vars(Submit \/ Refused)
  /\ WF_vars(Arm)

(***************************************************************************)
(* PROPERTIES.                                                             *)
(***************************************************************************)

(***************************************************************************)
(* The lease never calls a live schedule dead.  While the container is up  *)
(* and every tick led to a run that took place, the marker is younger than *)
(* the lease, whatever runs clients ask for, however long the runs take    *)
(* within their deadlines, and across restarts; the second interval of the *)
(* lease pays for what lies outside the phases.                            *)
(***************************************************************************)
LiveScheduleFresh ==
  loop # "down" /\ ~wedged /\ ~missed => markerAge <= MaxAge

(***************************************************************************)
(* A restart neither adds a scheduled scan nor delays one.  A life begins  *)
(* with a startup scan only if no scheduled scan completed for an          *)
(* interval; otherwise, and after a startup scan, its first tick comes one *)
(* interval after the last scan, to the unit.  There are three exceptions. *)
(* The record of the last scan was lost.  The startup scan was due and     *)
(* made no scan.  The record turned due between builtinBootState and       *)
(* startTicker, which both read it: the tick is then on time or, depending *)
(* on how the loop takes a delay of zero, exactly one interval late.       *)
(***************************************************************************)
RestartKeepsCadence ==
  ~lost =>
    /\ turn = "startup" /\ loop \in {"startup", "queued"} => since >= Interval
    /\ turn = "first" /\ loop = "sleep" =>
         /\ entry = "phased" => since + timer = Interval
         /\ entry = "turnedDue" => since + timer \in {Interval, 2 * Interval}

(***************************************************************************)
(* "A file older than that means the schedule has stopped" (docs/          *)
(* how-it-works.md).  Not so: ticks that find the lock taken by another    *)
(* container write no marker, and the lease runs out on a live schedule.   *)
(***************************************************************************)
StaleMeansStopped ==
  loop # "down" /\ marker = "healthy" /\ markerAge > MaxAge => wedged

(***************************************************************************)
(* A run that hangs is noticed: the healthcheck comes to report it, unless *)
(* the container is stopped first.                                         *)
(***************************************************************************)
WedgeNoticed == wedged ~> (~wedged \/ ProbeUnhealthy)
=============================================================================
