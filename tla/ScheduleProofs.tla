--------------------------- MODULE ScheduleProofs ---------------------------
(***************************************************************************)
(* Proofs about Schedule, for every interval, every timeout and every      *)
(* overhead below an interval.                                             *)
(***************************************************************************)
EXTENDS Schedule, TLAPS

USE TimeoutAssumption, SlackAssumption DEF run, cache

\* The lease and the longest run are lengths of time.
LEMMA Lengths == MaxAge \in Nat /\ LongestRun \in Nat /\ Interval >= 1
  BY DEF MaxAge, LongestRun

\* The variables are well typed before the first life.
LEMMA TypeInit == Init => TypeOK
<1> SUFFICES ASSUME Init PROVE TypeOK
  OBVIOUS
<1>1. wedged \in BOOLEAN /\ lost \in BOOLEAN /\ missed \in BOOLEAN
  BY Zenon DEF Init
<1>2. timer = 0 /\ jobAge = 0 /\ markerAge = 0 /\ recordAge = Interval /\ since = 2 * Interval
  BY DEF Init
<1> QED
  BY <1>1, <1>2, Lengths DEF Init, TypeOK

\* Every step keeps the types: no run outlives its deadlines, and no delay
\* is longer than an interval.
LEMMA TypeNext == TypeOK /\ [Next]_vars => TypeOK'
<1> SUFFICES ASSUME TypeOK, [Next]_vars PROVE TypeOK'
  OBVIOUS
<1> USE DEF TypeOK
<1>1. CASE UNCHANGED vars
  BY <1>1, Lengths DEF vars
<1>2. CASE Boot
  <2>1. missed' \in BOOLEAN
    BY <1>2, Zenon DEF Boot
  <2>2. /\ entry' = "phased"
        /\ loop' \in {"startup", "arm"} /\ turn' \in {"startup", "first"}
        /\ marker' \in {"healthy", "none"} /\ markerAge' = 0
        /\ UNCHANGED <<timer, run, cache>>
    BY <1>2 DEF Boot
  <2> QED
    BY <2>1, <2>2, Lengths
<1>3. CASE Arm
  BY <1>3, Lengths DEF Arm, Remaining
<1>4. CASE Submit
  BY <1>4, Lengths DEF Submit, Fires
<1>5. CASE Refused
  BY <1>5, Lengths DEF Refused, Fires, AfterTick, NoScan
<1>6. CASE Skip
  BY <1>6, Lengths DEF Skip, AfterTick, NoScan
<1>7. CASE Wedge
  BY <1>7, Lengths DEF Wedge
<1>8. CASE Stop
  BY <1>8, Lengths DEF Stop, Down
<1>9. CASE Crash
  <2>1. lost' \in BOOLEAN
    BY <1>9, Zenon DEF Crash
  <2>2. wedged' \in BOOLEAN
    BY <1>9, Zenon DEF Crash, Down
  <2>3. since' \in 0..(2 * Interval)
    BY <1>9 DEF Crash
  <2>4. /\ loop' = "down" /\ job' = "none"
        /\ UNCHANGED <<turn, timer, jobAge, marker, markerAge, record, recordAge, missed, entry>>
    BY <1>9 DEF Crash, Down
  <2> QED
    BY <2>1, <2>2, <2>3, <2>4
<1>10. CASE CacheGone
  BY <1>10, Lengths DEF CacheGone
<1>11. CASE Elapse
  BY <1>11, Lengths DEF Elapse, Older
<1>12. ASSUME NEW kind \in {"tick", "client"}, Take(kind) PROVE TypeOK'
  BY <1>12, Lengths DEF Take
<1>13. ASSUME NEW ok \in BOOLEAN, Finish(ok) PROVE TypeOK'
  <2>1. missed' \in BOOLEAN /\ lost' \in BOOLEAN
    BY <1>13, Zenon DEF Finish, cache
  <2>2. /\ job' = "none" /\ marker' \in {"healthy", "none"} /\ markerAge' = 0
        /\ UNCHANGED <<jobAge, wedged, entry>>
    BY <1>13 DEF Finish
  <2>3. /\ since' \in 0..(2 * Interval) /\ recordAge' \in 0..Interval
        /\ record' \in {"none", "ok", "failed"}
    BY <1>13, Lengths DEF Finish
  <2>4. /\ loop' \in {"down", "startup", "queued", "arm", "late", "sleep"}
        /\ turn' \in {"startup", "first", "later"} /\ timer' \in 0..Interval
    BY <1>13, Lengths DEF Finish, AfterTick
  <2> QED
    BY <2>1, <2>2, <2>3, <2>4, Lengths
<1> QED
  BY <1>1, <1>2, <1>3, <1>4, <1>5, <1>6, <1>7, <1>8, <1>9, <1>10, <1>11, <1>12, <1>13 DEF Next

\* The state of the schedule is well typed: a run ends by its deadlines
\* (phaseContext) and the loop never sleeps longer than an interval.
THEOREM TypeCorrect == Spec => []TypeOK
<1>1. QED
  BY TypeInit, TypeNext, PTL DEF Spec

(***************************************************************************)
(* THE LEASE.                                                              *)
(*                                                                         *)
(* LiveScheduleFresh bounds an age, and is inductive only with a bound at  *)
(* every point of the cycle.  Alive is its premise: then the marker is     *)
(* fresh at boot and after a tick, and one unit old at most where the loop *)
(* is entered; asleep, its age and the time left make an interval and one; *)
(* and a queued tick waits as long as the run before it and its own take.  *)
(***************************************************************************)
Alive == loop # "down" /\ ~wedged /\ ~missed

BusyFor == IF job = "none" THEN 0 ELSE jobAge

FreshAtPoint ==
  /\ loop \in {"startup", "arm"} => markerAge = 0
  /\ loop = "late" => markerAge <= 1
  /\ loop = "sleep" => markerAge + timer <= Interval + 1
  /\ loop = "queued" => markerAge <= Interval + 1 + BusyFor

FreshInv == Alive => FreshAtPoint

\* The loop is entered one unit late at most.
LEMMA OneLate ==
  ASSUME NEW age \in Nat, age <= 1, NEW delay \in 0..Interval
  PROVE  age + delay <= Interval + 1
  OBVIOUS

\* Nothing is alive before the first life.
LEMMA FreshInit == Init => FreshInv
  BY DEF Init, FreshInv, Alive

\* Every step keeps the bound of the point it leads to; only boot and the
\* end of a run make a schedule alive, and both write the marker.
LEMMA FreshNext == TypeOK /\ FreshInv /\ [Next]_vars => FreshInv'
<1> SUFFICES ASSUME TypeOK, FreshInv, [Next]_vars PROVE FreshInv'
  OBVIOUS
<1> USE DEF TypeOK, FreshInv, Alive, FreshAtPoint, BusyFor
<1>1. CASE UNCHANGED vars
  BY <1>1, Lengths DEF vars
<1>2. CASE Boot
  BY <1>2, Lengths DEF Boot, Due
<1>3. CASE Arm
  <2>1. timer' \in 0..Interval
    BY <1>3, Lengths DEF Arm, Remaining
  <2>2. CASE Alive
    <3>1. markerAge <= 1 /\ markerAge \in Nat
      BY <1>3, <2>2, Lengths DEF Arm
    <3>2. loop' = "sleep" /\ markerAge' = markerAge
      BY <1>3 DEF Arm
    <3>3. markerAge' + timer' <= Interval + 1
      BY <2>1, <3>1, <3>2, OneLate
    <3> QED
      BY <3>2, <3>3
  <2>3. CASE ~Alive
    BY <1>3, <2>3 DEF Arm
  <2> QED
    BY <2>2, <2>3
<1>4. CASE Submit
  BY <1>4, Lengths DEF Submit, Fires
<1>5. CASE Refused
  BY <1>5, Lengths DEF Refused, Fires, AfterTick, NoScan
<1>6. CASE Skip
  BY <1>6, Lengths DEF Skip, AfterTick, NoScan
<1>7. CASE Wedge
  BY <1>7, Lengths DEF Wedge
<1>8. CASE Stop
  BY <1>8, Lengths DEF Stop, Down
<1>9. CASE Crash
  BY <1>9, Lengths DEF Crash, Down
<1>10. CASE CacheGone
  BY <1>10, Lengths DEF CacheGone
<1>11. CASE Elapse
  BY <1>11, Lengths DEF Elapse, Older
<1>12. ASSUME NEW kind \in {"tick", "client"}, Take(kind) PROVE FreshInv'
  BY <1>12, Lengths DEF Take
<1>13. ASSUME NEW ok \in BOOLEAN, Finish(ok) PROVE FreshInv'
  BY <1>13, Lengths DEF Finish, AfterTick
<1> QED
  BY <1>1, <1>2, <1>3, <1>4, <1>5, <1>6, <1>7, <1>8, <1>9, <1>10, <1>11, <1>12, <1>13 DEF Next

\* The bounds are within the lease: an interval and one unit for the sleep,
\* the two phases of a run, and its overhead, which is below an interval.
LEMMA FreshEnough == TypeOK /\ FreshInv => LiveScheduleFresh
  BY DEF TypeOK, FreshInv, Alive, FreshAtPoint, BusyFor, LiveScheduleFresh, MaxAge, LongestRun

\* The healthcheck's lease (probeOptions) never calls a container dead whose
\* ticks all led to runs, for any interval, timeout and overhead below an
\* interval, over any number of lives and whatever clients ask for.
THEOREM LeaseSuffices == Spec => []LiveScheduleFresh
<1>1. Init => TypeOK /\ FreshInv
  BY TypeInit, FreshInit
<1>2. (TypeOK /\ FreshInv) /\ [Next]_vars => (TypeOK /\ FreshInv)'
  BY TypeNext, FreshNext
<1>3. TypeOK /\ FreshInv => LiveScheduleFresh
  BY FreshEnough
<1> QED
  BY <1>1, <1>2, <1>3, PTL DEF Spec

(***************************************************************************)
(* THE CADENCE.                                                            *)
(*                                                                         *)
(* While no record was lost, the record's age is the time since the last   *)
(* scheduled scan as far as it goes; a life that is past its startup scan  *)
(* is not in it; before the loop is entered nothing has turned due; and a  *)
(* life that found its record in time, or has made its startup scan, comes *)
(* to its loop one unit late at most, with a record just due and never     *)
(* overdue.  That last part is what bounds the delay by one interval.      *)
(***************************************************************************)
RecordTrue ==
  ~lost =>
    /\ record = "none" => since >= Interval
    /\ record # "none" => recordAge = IF since < Interval THEN since ELSE Interval

PastStartup == loop \in {"arm", "late", "sleep"} => turn # "startup"

NotEntered ==
  /\ job # "none" => loop # "down"
  /\ loop # "down" /\ turn = "startup" => entry = "phased"
  /\ loop \in {"arm", "late"} => entry # "turnedDue"

JustDue ==
  ~lost /\ entry = "phased" =>
    /\ loop = "arm" => since < Interval /\ record # "none"
    /\ loop = "late" => since <= Interval /\ record # "none"

CadenceInv == RecordTrue /\ PastStartup /\ NotEntered /\ JustDue /\ RestartKeepsCadence

\* An empty volume counts as an interval without a scan.
LEMMA CadenceInit == Init => CadenceInv
  BY DEF Init, CadenceInv, RecordTrue, PastStartup, NotEntered, JustDue, RestartKeepsCadence

\* Boot and the entry of the loop read the record, and since is its age;
\* asleep, the delay and since move together.
LEMMA CadenceNext == TypeOK /\ CadenceInv /\ [Next]_vars => CadenceInv'
<1> SUFFICES ASSUME TypeOK, CadenceInv, [Next]_vars PROVE CadenceInv'
  OBVIOUS
<1> USE DEF TypeOK, CadenceInv, RecordTrue, PastStartup, NotEntered, JustDue, RestartKeepsCadence
<1>1. CASE UNCHANGED vars
  BY <1>1, Lengths DEF vars
<1>2. CASE Boot
  BY <1>2, Lengths DEF Boot, Due
<1>3. CASE Arm
  <2>1. /\ loop \in {"arm", "late"} /\ loop' = "sleep" /\ timer' \in Remaining
        /\ job' = job /\ turn' = turn /\ lost' = lost /\ record' = record /\ recordAge' = recordAge
        /\ since' = since /\ entry' = IF entry = "phased" /\ Due THEN "turnedDue" ELSE entry
    BY <1>3 DEF Arm
  <2>2. RecordTrue' /\ PastStartup' /\ NotEntered' /\ JustDue'
    BY <2>1
  <2>3. CASE lost \/ entry # "phased"
    <3>1. lost \/ entry = "unscanned" \/ entry = "turnedDue"
      BY <2>3
    <3>2. entry # "turnedDue"
      BY <2>1
    <3> QED
      BY <2>1, <2>2, <3>1, <3>2
  <2>4. CASE ~lost /\ entry = "phased" /\ since < Interval
    <3>1. record # "none" /\ recordAge = since
      BY <2>1, <2>4
    <3>2. timer' = Interval - since /\ entry' = "phased"
      BY <2>1, <2>4, <3>1 DEF Remaining, Due
    <3> QED
      BY <2>1, <2>2, <2>4, <3>2
  <2>5. CASE ~lost /\ entry = "phased" /\ ~(since < Interval)
    <3>1. record # "none" /\ recordAge = Interval /\ since = Interval
      BY <2>1, <2>5
    <3>2. timer' \in {0, Interval} /\ entry' = "turnedDue"
      BY <2>1, <2>5, <3>1 DEF Remaining, Due
    <3>3. since' = Interval /\ (timer' = 0 \/ timer' = Interval)
      BY <2>1, <3>1, <3>2
    <3>4. since' + timer' \in {Interval, 2 * Interval}
      BY <3>3, Lengths
    <3>5. RestartKeepsCadence'
      BY <2>1, <2>5, <3>2, <3>4
    <3> QED
      BY <2>2, <3>5
  <2> QED
    BY <2>3, <2>4, <2>5
<1>4. CASE Submit
  BY <1>4, Lengths DEF Submit, Fires
<1>5. CASE Refused
  BY <1>5, Lengths DEF Refused, Fires, AfterTick, NoScan
<1>6. CASE Skip
  BY <1>6, Lengths DEF Skip, AfterTick, NoScan
<1>7. CASE Wedge
  BY <1>7, Lengths DEF Wedge
<1>8. CASE Stop
  BY <1>8, Lengths DEF Stop, Down
<1>9. CASE Crash
  BY <1>9, Lengths DEF Crash, Down
<1>10. CASE CacheGone
  BY <1>10, Lengths DEF CacheGone
<1>11. CASE Elapse
  BY <1>11, Lengths DEF Elapse, Older
<1>12. ASSUME NEW kind \in {"tick", "client"}, Take(kind) PROVE CadenceInv'
  BY <1>12, Lengths DEF Take
<1>13. ASSUME NEW ok \in BOOLEAN, Finish(ok) PROVE CadenceInv'
  <2>1. CASE job # "tick"
    BY <1>13, <2>1, Lengths DEF Finish
  <2>2. CASE job = "tick"
    <3>1. /\ since' = 0 /\ entry' = entry
          /\ lost' \/ (record' # "none" /\ recordAge' = 0 /\ ~lost')
      BY <1>13, <2>2 DEF Finish
    <3>2. \/ turn = "startup" /\ loop' = "arm" /\ turn' = "first"
          \/ turn # "startup" /\ loop' = "sleep" /\ turn' = "later"
      BY <1>13, <2>2 DEF Finish, AfterTick
    <3>3. RecordTrue' /\ PastStartup' /\ JustDue'
      BY <3>1, <3>2, Lengths
    <3>4. job' = "none" /\ loop # "down"
      BY <1>13, <2>2 DEF Finish
    <3>5. NotEntered' /\ RestartKeepsCadence'
      BY <3>1, <3>2, <3>4, Lengths
    <3> QED
      BY <3>3, <3>5
  <2> QED
    BY <2>1, <2>2
<1> QED
  BY <1>1, <1>2, <1>3, <1>4, <1>5, <1>6, <1>7, <1>8, <1>9, <1>10, <1>11, <1>12, <1>13 DEF Next

(***************************************************************************)
(* A restart (builtinBootState, startTicker) adds no scheduled scan, and   *)
(* its first tick comes one interval after the last scan to the unit, over *)
(* any number of stops and crashes, unless the record of that scan was     *)
(* lost or a startup scan was due and not made.  Where the record turns    *)
(* due between its two reads, the tick is on time or one interval late.    *)
(***************************************************************************)
THEOREM CadenceSurvivesRestarts == Spec => []RestartKeepsCadence
<1>1. Init => TypeOK /\ CadenceInv
  BY TypeInit, CadenceInit
<1>2. (TypeOK /\ CadenceInv) /\ [Next]_vars => (TypeOK /\ CadenceInv)'
  BY TypeNext, CadenceNext
<1>3. CadenceInv => RestartKeepsCadence
  BY DEF CadenceInv
<1> QED
  BY <1>1, <1>2, <1>3, PTL DEF Spec
=============================================================================
