-------------------------- MODULE FclonesJobProofs --------------------------
(***************************************************************************)
(* Proofs about FclonesJob, for any processes, report names and            *)
(* configurations.                                                         *)
(***************************************************************************)
EXTENDS FclonesJob, TLAPS

USE DEF Goto, Move, Fail, RunFails, outside, Live, Holding, ScanPcs, ReportPcs, ActPcs,
        Bootup

\* What classifyAndLogOutcome decides: an error ends the phase, and counts as
\* one unless the process was told to stop.
LEMMA Classify ==
  ASSUME NEW p
  PROVE  LET o == classifyAndLogOutcome(p \in ctx, p \in expired, p \in runErr)
         IN  /\ o.done \in BOOLEAN /\ o.err \in BOOLEAN
             /\ o.done <=> p \in runErr
             /\ o.err <=> p \in runErr /\ p \notin ctx
<1> DEFINE o == classifyAndLogOutcome(p \in ctx, p \in expired, p \in runErr)
<1>1. o.done \in BOOLEAN /\ o.err \in BOOLEAN
  BY DEF classifyAndLogOutcome, classifyExecOutcome
<1>2. o.done <=> p \in runErr
  BY DEF classifyAndLogOutcome, classifyExecOutcome
<1>3. o.err <=> p \in runErr /\ p \notin ctx
  BY DEF classifyAndLogOutcome, classifyExecOutcome
<1> QED
  BY <1>1, <1>2, <1>3

\* The control points, names and results are well typed before the first start.
LEMMA TypeInit == Init => TypeOK
  BY ProcsAssumption, FilesAssumption, ConfigsAssumption
  DEF Init, TypeOK, PcType, Content, Returned, NoResult

\* The results a job is given are (ran, err) pairs.
LEMMA Results == {NoResult, RetSkip, RetErr, RetNil} \subseteq Returned
  BY DEF NoResult, RetSkip, RetErr, RetNil, Returned

\* Every step keeps the types and the link between control point and report.
LEMMA TypeNext == TypeOK /\ [Next]_vars => TypeOK'
<1> SUFFICES ASSUME TypeOK, [Next]_vars PROVE TypeOK'
  OBVIOUS
<1> USE ProcsAssumption, FilesAssumption, ConfigsAssumption, Results
    DEF TypeOK, PcType, Content, Written, OnDisk
<1>1. CASE UNCHANGED vars
  BY <1>1 DEF vars
<1>2. ASSUME NEW p \in Procs, Boot(p) PROVE TypeOK'
  BY <1>2 DEF Boot
<1>3. ASSUME NEW p \in Procs, StartupStep(p) PROVE TypeOK'
  <2>1. CASE Bootstrap(p)
    BY <2>1 DEF Bootstrap
  <2>2. CASE SweepSkip(p)
    BY <2>2 DEF SweepSkip
  <2>3. CASE SweepStart(p)
    BY <2>3 DEF SweepStart
  <2>4. CASE SweepRemove(p)
    BY <2>4 DEF SweepRemove
  <2>5. CASE SweepEnd(p)
    BY <2>5 DEF SweepEnd
  <2>6. CASE SweepUnlock(p)
    BY <2>6 DEF SweepUnlock
  <2> QED
    BY <1>3, <2>1, <2>2, <2>3, <2>4, <2>5, <2>6 DEF StartupStep
<1>4. ASSUME NEW p \in Procs, StartRun(p) PROVE TypeOK'
  BY <1>4 DEF StartRun
<1>5. ASSUME NEW p \in Procs, JobStep(p) PROVE TypeOK'
  <2>1. CASE LockError(p)
    BY <2>1 DEF LockError
  <2>2. CASE LockSkip(p)
    BY <2>2 DEF LockSkip
  <2>3. CASE LockTake(p)
    BY <2>3 DEF LockTake
  <2>4. CASE StartError(p)
    BY <2>4 DEF StartError
  <2>5. CASE CreateReport(p)
    BY <2>5 DEF CreateReport
  <2>6. CASE ScanStart(p)
    BY <2>6 DEF ScanStart
  <2>7. CASE ScanNotStarted(p)
    BY <2>7 DEF ScanNotStarted
  <2>8. CASE ScanClassify(p)
    <3> DEFINE o == classifyAndLogOutcome(p \in ctx, p \in expired, p \in runErr)
    <3>1. [ran |-> TRUE, err |-> o.err] \in Returned
      BY Classify DEF Returned
    <3> HIDE DEF o
    <3> QED
      BY <2>8, <3>1 DEF ScanClassify, o
  <2>9. CASE DecodeOK(p)
    BY <2>9 DEF DecodeOK
  <2>10. CASE DecodeError(p)
    BY <2>10 DEF DecodeError
  <2>11. CASE NoAction(p)
    BY <2>11 DEF NoAction
  <2>12. CASE ActionBegin(p)
    BY <2>12 DEF ActionBegin
  <2>13. CASE ActionOpenError(p)
    BY <2>13 DEF ActionOpenError
  <2>14. CASE ActionStart(p)
    BY <2>14 DEF ActionStart
  <2>15. CASE ActionNotStarted(p)
    BY <2>15 DEF ActionNotStarted
  <2>16. CASE ActionClassify(p)
    <3> DEFINE o == classifyAndLogOutcome(p \in ctx, p \in expired, p \in runErr)
    <3>1. [ran |-> TRUE, err |-> o.err] \in Returned
      BY Classify DEF Returned
    <3> HIDE DEF o
    <3>2. \E r \in Returned : res' = [res EXCEPT ![p] = r]
      <4>1. CASE o.done
        BY <2>16, <3>1, <4>1 DEF ActionClassify, o
      <4>2. CASE ~o.done
        BY <2>16, <4>2 DEF ActionClassify, o
      <4> QED
        BY <4>1, <4>2
    <3>3. failed' \subseteq Procs
      BY <2>16 DEF ActionClassify
    <3>4. res' \in [Procs -> Returned]
      BY <3>2
    <3> QED
      BY <2>16, <3>3, <3>4 DEF ActionClassify
  <2>17. CASE RemoveReport(p)
    BY <2>17 DEF RemoveReport
  <2>18. CASE Unlock(p)
    BY <2>18 DEF Unlock
  <2> QED
    BY <1>5, <2>1, <2>2, <2>3, <2>4, <2>5, <2>6, <2>7, <2>8, <2>9, <2>10, <2>11, <2>12,
       <2>13, <2>14, <2>15, <2>16, <2>17, <2>18 DEF JobStep
<1>6. ASSUME NEW p \in Procs, ChildExit(p) PROVE TypeOK'
  <2>1. CASE ScanExit(p)
    BY <2>1 DEF ScanExit
  <2>2. CASE ActionExit(p)
    BY <2>2 DEF ActionExit
  <2> QED
    BY <1>6, <2>1, <2>2 DEF ChildExit
<1>7. ASSUME NEW p \in Procs, Expire(p) PROVE TypeOK'
  BY <1>7 DEF Expire
<1>8. ASSUME NEW p \in Procs, Signal(p) PROVE TypeOK'
  BY <1>8 DEF Signal
<1>9. ASSUME NEW p \in Procs, Exit(p) PROVE TypeOK'
  BY <1>9 DEF Exit, Forget
<1>10. ASSUME NEW p \in Procs, Crash(p) PROVE TypeOK'
  BY <1>10 DEF Crash, Forget
<1> QED
  BY <1>1, <1>2, <1>3, <1>4, <1>5, <1>6, <1>7, <1>8, <1>9, <1>10 DEF Next

\* The lock is held exactly from TryLock to Unlock, whatever the step.
LEMMA LockNext ==
  TypeOK /\ LockOwned /\ [Next]_vars => LockOwned'
<1> SUFFICES ASSUME TypeOK, LockOwned, [Next]_vars PROVE LockOwned'
  OBVIOUS
<1> USE ProcsAssumption DEF TypeOK, LockOwned, PcType
<1>1. CASE UNCHANGED vars
  BY <1>1 DEF vars
<1>2. ASSUME NEW p \in Procs, Boot(p) PROVE LockOwned'
  BY <1>2 DEF Boot
<1>3. ASSUME NEW p \in Procs, StartupStep(p) PROVE LockOwned'
  <2>1. CASE Bootstrap(p)
    BY <2>1 DEF Bootstrap
  <2>2. CASE SweepSkip(p)
    BY <2>2 DEF SweepSkip
  <2>3. CASE SweepStart(p)
    BY <2>3 DEF SweepStart
  <2>4. CASE SweepRemove(p)
    BY <2>4 DEF SweepRemove
  <2>5. CASE SweepEnd(p)
    BY <2>5 DEF SweepEnd
  <2>6. CASE SweepUnlock(p)
    BY <2>6 DEF SweepUnlock
  <2> QED
    BY <1>3, <2>1, <2>2, <2>3, <2>4, <2>5, <2>6 DEF StartupStep
<1>4. ASSUME NEW p \in Procs, StartRun(p) PROVE LockOwned'
  BY <1>4 DEF StartRun
<1>5. ASSUME NEW p \in Procs, JobStep(p) PROVE LockOwned'
  <2>1. CASE LockError(p)
    BY <2>1 DEF LockError
  <2>2. CASE LockSkip(p)
    BY <2>2 DEF LockSkip
  <2>3. CASE LockTake(p)
    BY <2>3 DEF LockTake
  <2>4. CASE StartError(p)
    BY <2>4 DEF StartError
  <2>5. CASE CreateReport(p)
    BY <2>5 DEF CreateReport
  <2>6. CASE ScanStart(p)
    BY <2>6 DEF ScanStart
  <2>7. CASE ScanNotStarted(p)
    BY <2>7 DEF ScanNotStarted
  <2>8. CASE ScanClassify(p)
    BY <2>8 DEF ScanClassify
  <2>9. CASE DecodeOK(p)
    BY <2>9 DEF DecodeOK
  <2>10. CASE DecodeError(p)
    BY <2>10 DEF DecodeError
  <2>11. CASE NoAction(p)
    BY <2>11 DEF NoAction
  <2>12. CASE ActionBegin(p)
    BY <2>12 DEF ActionBegin
  <2>13. CASE ActionOpenError(p)
    BY <2>13 DEF ActionOpenError
  <2>14. CASE ActionStart(p)
    BY <2>14 DEF ActionStart
  <2>15. CASE ActionNotStarted(p)
    BY <2>15 DEF ActionNotStarted
  <2>16. CASE ActionClassify(p)
    BY <2>16 DEF ActionClassify
  <2>17. CASE RemoveReport(p)
    BY <2>17 DEF RemoveReport
  <2>18. CASE Unlock(p)
    BY <2>18 DEF Unlock
  <2> QED
    BY <1>5, <2>1, <2>2, <2>3, <2>4, <2>5, <2>6, <2>7, <2>8, <2>9, <2>10, <2>11, <2>12,
       <2>13, <2>14, <2>15, <2>16, <2>17, <2>18 DEF JobStep
<1>6. ASSUME NEW p \in Procs, ChildExit(p) PROVE LockOwned'
  <2>1. CASE ScanExit(p)
    BY <2>1 DEF ScanExit
  <2>2. CASE ActionExit(p)
    BY <2>2 DEF ActionExit
  <2> QED
    BY <1>6, <2>1, <2>2 DEF ChildExit
<1>7. ASSUME NEW p \in Procs, Expire(p) PROVE LockOwned'
  BY <1>7 DEF Expire
<1>8. ASSUME NEW p \in Procs, Signal(p) PROVE LockOwned'
  BY <1>8 DEF Signal
<1>9. ASSUME NEW p \in Procs, Exit(p) PROVE LockOwned'
  BY <1>9 DEF Exit, Forget
<1>10. ASSUME NEW p \in Procs, Crash(p) PROVE LockOwned'
  BY <1>10 DEF Crash, Forget
<1> QED
  BY <1>1, <1>2, <1>3, <1>4, <1>5, <1>6, <1>7, <1>8, <1>9, <1>10 DEF Next

\* No step of any process disturbs the report of a job in progress.
LEMMA ReportNext ==
  TypeOK /\ LockOwned /\ LiveReportIntact /\ [Next]_vars => LiveReportIntact'
<1> SUFFICES ASSUME TypeOK, LockOwned, LiveReportIntact, [Next]_vars PROVE LiveReportIntact'
  OBVIOUS
<1> USE ProcsAssumption, FilesAssumption DEF TypeOK, LockOwned, LiveReportIntact,
   PcType, Content, Written
<1>1. CASE UNCHANGED vars
  BY <1>1 DEF vars
<1>2. ASSUME NEW p \in Procs, Boot(p) PROVE LiveReportIntact'
  BY <1>2 DEF Boot
<1>3. ASSUME NEW p \in Procs, StartupStep(p) PROVE LiveReportIntact'
  <2>1. CASE Bootstrap(p)
    BY <2>1 DEF Bootstrap
  <2>2. CASE SweepSkip(p)
    BY <2>2 DEF SweepSkip
  <2>3. CASE SweepStart(p)
    BY <2>3 DEF SweepStart
  <2>4. CASE SweepRemove(p)
    BY <2>4 DEF SweepRemove
  <2>5. CASE SweepEnd(p)
    BY <2>5 DEF SweepEnd
  <2>6. CASE SweepUnlock(p)
    BY <2>6 DEF SweepUnlock
  <2> QED
    BY <1>3, <2>1, <2>2, <2>3, <2>4, <2>5, <2>6 DEF StartupStep
<1>4. ASSUME NEW p \in Procs, StartRun(p) PROVE LiveReportIntact'
  BY <1>4 DEF StartRun
<1>5. ASSUME NEW p \in Procs, JobStep(p) PROVE LiveReportIntact'
  <2>1. CASE LockError(p)
    BY <2>1 DEF LockError
  <2>2. CASE LockSkip(p)
    BY <2>2 DEF LockSkip
  <2>3. CASE LockTake(p)
    BY <2>3 DEF LockTake
  <2>4. CASE StartError(p)
    BY <2>4 DEF StartError
  <2>5. CASE CreateReport(p)
    BY <2>5 DEF CreateReport, OnDisk
  <2>6. CASE ScanStart(p)
    BY <2>6 DEF ScanStart
  <2>7. CASE ScanNotStarted(p)
    BY <2>7 DEF ScanNotStarted
  <2>8. CASE ScanClassify(p)
    BY <2>8 DEF ScanClassify
  <2>9. CASE DecodeOK(p)
    BY <2>9 DEF DecodeOK
  <2>10. CASE DecodeError(p)
    BY <2>10 DEF DecodeError
  <2>11. CASE NoAction(p)
    BY <2>11 DEF NoAction, shouldRunAction
  <2>12. CASE ActionBegin(p)
    BY <2>12 DEF ActionBegin, shouldRunAction
  <2>13. CASE ActionOpenError(p)
    BY <2>13 DEF ActionOpenError
  <2>14. CASE ActionStart(p)
    BY <2>14 DEF ActionStart
  <2>15. CASE ActionNotStarted(p)
    BY <2>15 DEF ActionNotStarted
  <2>16. CASE ActionClassify(p)
    BY <2>16 DEF ActionClassify
  <2>17. CASE RemoveReport(p)
    BY <2>17 DEF RemoveReport
  <2>18. CASE Unlock(p)
    BY <2>18 DEF Unlock
  <2> QED
    BY <1>5, <2>1, <2>2, <2>3, <2>4, <2>5, <2>6, <2>7, <2>8, <2>9, <2>10, <2>11, <2>12,
       <2>13, <2>14, <2>15, <2>16, <2>17, <2>18 DEF JobStep
<1>6. ASSUME NEW p \in Procs, ChildExit(p) PROVE LiveReportIntact'
  <2>1. CASE ScanExit(p)
    BY <2>1 DEF ScanExit
  <2>2. CASE ActionExit(p)
    BY <2>2 DEF ActionExit
  <2> QED
    BY <1>6, <2>1, <2>2 DEF ChildExit
<1>7. ASSUME NEW p \in Procs, Expire(p) PROVE LiveReportIntact'
  BY <1>7 DEF Expire
<1>8. ASSUME NEW p \in Procs, Signal(p) PROVE LiveReportIntact'
  BY <1>8 DEF Signal
<1>9. ASSUME NEW p \in Procs, Exit(p) PROVE LiveReportIntact'
  BY <1>9 DEF Exit, Forget
<1>10. ASSUME NEW p \in Procs, Crash(p) PROVE LiveReportIntact'
  BY <1>10 DEF Crash, Forget
<1> QED
  BY <1>1, <1>2, <1>3, <1>4, <1>5, <1>6, <1>7, <1>8, <1>9, <1>10 DEF Next

\* Only crashes and refused removals leave a report behind.
LEMMA OrphansNext ==
  TypeOK /\ LockOwned /\ LiveReportIntact /\ OrphansAccounted /\ [Next]_vars => OrphansAccounted'
<1> SUFFICES ASSUME TypeOK, LockOwned, LiveReportIntact, OrphansAccounted, [Next]_vars PROVE OrphansAccounted'
  OBVIOUS
<1> USE ProcsAssumption, FilesAssumption DEF TypeOK, LockOwned, LiveReportIntact,
   OrphansAccounted, PcType, OnDisk
<1>1. CASE UNCHANGED vars
  BY <1>1 DEF vars
<1>2. ASSUME NEW p \in Procs, Boot(p) PROVE OrphansAccounted'
  BY <1>2 DEF Boot
<1>3. ASSUME NEW p \in Procs, StartupStep(p) PROVE OrphansAccounted'
  <2>1. CASE Bootstrap(p)
    BY <2>1 DEF Bootstrap
  <2>2. CASE SweepSkip(p)
    BY <2>2 DEF SweepSkip
  <2>3. CASE SweepStart(p)
    BY <2>3 DEF SweepStart
  <2>4. CASE SweepRemove(p)
    BY <2>4 DEF SweepRemove
  <2>5. CASE SweepEnd(p)
    BY <2>5 DEF SweepEnd
  <2>6. CASE SweepUnlock(p)
    BY <2>6 DEF SweepUnlock
  <2> QED
    BY <1>3, <2>1, <2>2, <2>3, <2>4, <2>5, <2>6 DEF StartupStep
<1>4. ASSUME NEW p \in Procs, StartRun(p) PROVE OrphansAccounted'
  BY <1>4 DEF StartRun
<1>5. ASSUME NEW p \in Procs, JobStep(p) PROVE OrphansAccounted'
  <2>1. CASE LockError(p)
    BY <2>1 DEF LockError
  <2>2. CASE LockSkip(p)
    BY <2>2 DEF LockSkip
  <2>3. CASE LockTake(p)
    BY <2>3 DEF LockTake
  <2>4. CASE StartError(p)
    BY <2>4 DEF StartError
  <2>5. CASE CreateReport(p)
    BY <2>5 DEF CreateReport
  <2>6. CASE ScanStart(p)
    BY <2>6 DEF ScanStart
  <2>7. CASE ScanNotStarted(p)
    BY <2>7 DEF ScanNotStarted
  <2>8. CASE ScanClassify(p)
    BY <2>8 DEF ScanClassify
  <2>9. CASE DecodeOK(p)
    BY <2>9 DEF DecodeOK
  <2>10. CASE DecodeError(p)
    BY <2>10 DEF DecodeError
  <2>11. CASE NoAction(p)
    BY <2>11 DEF NoAction
  <2>12. CASE ActionBegin(p)
    BY <2>12 DEF ActionBegin
  <2>13. CASE ActionOpenError(p)
    BY <2>13 DEF ActionOpenError
  <2>14. CASE ActionStart(p)
    BY <2>14 DEF ActionStart
  <2>15. CASE ActionNotStarted(p)
    BY <2>15 DEF ActionNotStarted
  <2>16. CASE ActionClassify(p)
    BY <2>16 DEF ActionClassify
  <2>17. CASE RemoveReport(p)
    BY <2>17 DEF RemoveReport
  <2>18. CASE Unlock(p)
    BY <2>18 DEF Unlock
  <2> QED
    BY <1>5, <2>1, <2>2, <2>3, <2>4, <2>5, <2>6, <2>7, <2>8, <2>9, <2>10, <2>11, <2>12,
       <2>13, <2>14, <2>15, <2>16, <2>17, <2>18 DEF JobStep
<1>6. ASSUME NEW p \in Procs, ChildExit(p) PROVE OrphansAccounted'
  <2>1. CASE ScanExit(p)
    <3>1. OnDisk' = OnDisk
      BY <2>1 DEF ScanExit, Written
    <3> QED
      BY <2>1, <3>1 DEF ScanExit
  <2>2. CASE ActionExit(p)
    BY <2>2 DEF ActionExit
  <2> QED
    BY <1>6, <2>1, <2>2 DEF ChildExit
<1>7. ASSUME NEW p \in Procs, Expire(p) PROVE OrphansAccounted'
  BY <1>7 DEF Expire
<1>8. ASSUME NEW p \in Procs, Signal(p) PROVE OrphansAccounted'
  BY <1>8 DEF Signal
<1>9. ASSUME NEW p \in Procs, Exit(p) PROVE OrphansAccounted'
  BY <1>9 DEF Exit, Forget
<1>10. ASSUME NEW p \in Procs, Crash(p) PROVE OrphansAccounted'
  BY <1>10 DEF Crash, Forget
<1> QED
  BY <1>1, <1>2, <1>3, <1>4, <1>5, <1>6, <1>7, <1>8, <1>9, <1>10 DEF Next

(***************************************************************************)
(* The strengthening of SweepComplete: a report the sweep has given up on  *)
(* is not tried again.                                                     *)
(***************************************************************************)
SweepTracked ==
  /\ SweepComplete
  /\ \A p \in Procs : pc[p] = "sweep" => todo[p] \intersect kept = {}

\* While a process sweeps, reports come and go by its own hand only.
LEMMA SweepNext ==
  TypeOK /\ LockOwned /\ SweepTracked /\ [Next]_vars => SweepTracked'
<1> SUFFICES ASSUME TypeOK, LockOwned, SweepTracked, [Next]_vars PROVE SweepTracked'
  OBVIOUS
<1> USE ProcsAssumption, FilesAssumption DEF TypeOK, LockOwned, SweepTracked,
   SweepComplete, PcType, OnDisk
<1>1. CASE UNCHANGED vars
  BY <1>1 DEF vars
<1>2. ASSUME NEW p \in Procs, Boot(p) PROVE SweepTracked'
  BY <1>2 DEF Boot
<1>3. ASSUME NEW p \in Procs, StartupStep(p) PROVE SweepTracked'
  <2>1. CASE Bootstrap(p)
    BY <2>1 DEF Bootstrap
  <2>2. CASE SweepSkip(p)
    BY <2>2 DEF SweepSkip
  <2>3. CASE SweepStart(p)
    BY <2>3 DEF SweepStart
  <2>4. CASE SweepRemove(p)
    <3>1. PICK f \in todo[p] :
            /\ todo' = [todo EXCEPT ![p] = @ \ {f}]
            /\ \/ disk' = [disk EXCEPT ![f] = "absent"] /\ kept' = kept
               \/ disk' = disk /\ kept' = kept \union {f}
      BY <2>4 DEF SweepRemove
    <3>2. pc' = pc /\ \A q \in Procs : pc[q] \in {"sweep", "unlocksweep"} => q = p
      BY <2>4 DEF SweepRemove
    <3>3. OnDisk' = todo'[p] \union kept'
      <4>1. CASE disk' = [disk EXCEPT ![f] = "absent"] /\ kept' = kept
        BY <2>4, <3>1, <4>1 DEF SweepRemove
      <4>2. CASE disk' = disk /\ kept' = kept \union {f}
        BY <2>4, <3>1, <4>2 DEF SweepRemove
      <4> QED
        BY <3>1, <4>1, <4>2
    <3> QED
      BY <2>4, <3>1, <3>2, <3>3 DEF SweepRemove
  <2>5. CASE SweepEnd(p)
    BY <2>5 DEF SweepEnd
  <2>6. CASE SweepUnlock(p)
    BY <2>6 DEF SweepUnlock
  <2> QED
    BY <1>3, <2>1, <2>2, <2>3, <2>4, <2>5, <2>6 DEF StartupStep
<1>4. ASSUME NEW p \in Procs, StartRun(p) PROVE SweepTracked'
  BY <1>4 DEF StartRun
<1>5. ASSUME NEW p \in Procs, JobStep(p) PROVE SweepTracked'
  <2>1. CASE LockError(p)
    BY <2>1 DEF LockError
  <2>2. CASE LockSkip(p)
    BY <2>2 DEF LockSkip
  <2>3. CASE LockTake(p)
    BY <2>3 DEF LockTake
  <2>4. CASE StartError(p)
    BY <2>4 DEF StartError
  <2>5. CASE CreateReport(p)
    BY <2>5 DEF CreateReport
  <2>6. CASE ScanStart(p)
    BY <2>6 DEF ScanStart
  <2>7. CASE ScanNotStarted(p)
    BY <2>7 DEF ScanNotStarted
  <2>8. CASE ScanClassify(p)
    BY <2>8 DEF ScanClassify
  <2>9. CASE DecodeOK(p)
    BY <2>9 DEF DecodeOK
  <2>10. CASE DecodeError(p)
    BY <2>10 DEF DecodeError
  <2>11. CASE NoAction(p)
    BY <2>11 DEF NoAction
  <2>12. CASE ActionBegin(p)
    BY <2>12 DEF ActionBegin
  <2>13. CASE ActionOpenError(p)
    BY <2>13 DEF ActionOpenError
  <2>14. CASE ActionStart(p)
    BY <2>14 DEF ActionStart
  <2>15. CASE ActionNotStarted(p)
    BY <2>15 DEF ActionNotStarted
  <2>16. CASE ActionClassify(p)
    BY <2>16 DEF ActionClassify
  <2>17. CASE RemoveReport(p)
    BY <2>17 DEF RemoveReport
  <2>18. CASE Unlock(p)
    BY <2>18 DEF Unlock
  <2> QED
    BY <1>5, <2>1, <2>2, <2>3, <2>4, <2>5, <2>6, <2>7, <2>8, <2>9, <2>10, <2>11, <2>12,
       <2>13, <2>14, <2>15, <2>16, <2>17, <2>18 DEF JobStep
<1>6. ASSUME NEW p \in Procs, ChildExit(p) PROVE SweepTracked'
  <2>1. CASE ScanExit(p)
    BY <2>1 DEF ScanExit
  <2>2. CASE ActionExit(p)
    BY <2>2 DEF ActionExit
  <2> QED
    BY <1>6, <2>1, <2>2 DEF ChildExit
<1>7. ASSUME NEW p \in Procs, Expire(p) PROVE SweepTracked'
  BY <1>7 DEF Expire
<1>8. ASSUME NEW p \in Procs, Signal(p) PROVE SweepTracked'
  BY <1>8 DEF Signal
<1>9. ASSUME NEW p \in Procs, Exit(p) PROVE SweepTracked'
  BY <1>9 DEF Exit, Forget
<1>10. ASSUME NEW p \in Procs, Crash(p) PROVE SweepTracked'
  BY <1>10 DEF Crash, Forget
<1> QED
  BY <1>1, <1>2, <1>3, <1>4, <1>5, <1>6, <1>7, <1>8, <1>9, <1>10 DEF Next

(***************************************************************************)
(* The strengthening of ResultTellsFailure: nothing has failed yet where   *)
(* the job goes on, and between the end of a child and its classification  *)
(* the error of cmd.Run is the only failure.                               *)
(***************************************************************************)
FailureTracked ==
  /\ ResultTellsFailure
  /\ \A p \in Procs :
       /\ pc[p] \in {"down"} \union Bootup => ~res[p].ran
       /\ pc[p] \in {"start", "create", "begin", "scan", "act"} \union ReportPcs =>
            p \notin failed
       /\ pc[p] \in {"scandone", "actdone"} => (p \in failed <=> p \in runErr)

\* Every return of the job agrees with what happened in it.
LEMMA ResultNext ==
  TypeOK /\ FailureTracked /\ [Next]_vars => FailureTracked'
<1> SUFFICES ASSUME TypeOK, FailureTracked, [Next]_vars PROVE FailureTracked'
  OBVIOUS
<1> USE DEF TypeOK, FailureTracked, ResultTellsFailure, PcType, Returned, NoResult,
   RetSkip, RetErr, RetNil
<1>1. CASE UNCHANGED vars
  BY <1>1 DEF vars
<1>2. ASSUME NEW p \in Procs, Boot(p) PROVE FailureTracked'
  BY <1>2 DEF Boot
<1>3. ASSUME NEW p \in Procs, StartupStep(p) PROVE FailureTracked'
  <2>1. CASE Bootstrap(p)
    BY <2>1 DEF Bootstrap
  <2>2. CASE SweepSkip(p)
    BY <2>2 DEF SweepSkip
  <2>3. CASE SweepStart(p)
    BY <2>3 DEF SweepStart
  <2>4. CASE SweepRemove(p)
    BY <2>4 DEF SweepRemove
  <2>5. CASE SweepEnd(p)
    BY <2>5 DEF SweepEnd
  <2>6. CASE SweepUnlock(p)
    BY <2>6 DEF SweepUnlock
  <2> QED
    BY <1>3, <2>1, <2>2, <2>3, <2>4, <2>5, <2>6 DEF StartupStep
<1>4. ASSUME NEW p \in Procs, StartRun(p) PROVE FailureTracked'
  BY <1>4 DEF StartRun
<1>5. ASSUME NEW p \in Procs, JobStep(p) PROVE FailureTracked'
  <2>1. CASE LockError(p)
    BY <2>1 DEF LockError
  <2>2. CASE LockSkip(p)
    BY <2>2 DEF LockSkip
  <2>3. CASE LockTake(p)
    BY <2>3 DEF LockTake
  <2>4. CASE StartError(p)
    BY <2>4 DEF StartError
  <2>5. CASE CreateReport(p)
    BY <2>5 DEF CreateReport
  <2>6. CASE ScanStart(p)
    BY <2>6 DEF ScanStart
  <2>7. CASE ScanNotStarted(p)
    BY <2>7 DEF ScanNotStarted
  <2>8. CASE ScanClassify(p)
    BY <2>8, Classify DEF ScanClassify
  <2>9. CASE DecodeOK(p)
    BY <2>9 DEF DecodeOK
  <2>10. CASE DecodeError(p)
    BY <2>10 DEF DecodeError
  <2>11. CASE NoAction(p)
    BY <2>11 DEF NoAction
  <2>12. CASE ActionBegin(p)
    BY <2>12 DEF ActionBegin
  <2>13. CASE ActionOpenError(p)
    BY <2>13 DEF ActionOpenError
  <2>14. CASE ActionStart(p)
    BY <2>14 DEF ActionStart
  <2>15. CASE ActionNotStarted(p)
    BY <2>15 DEF ActionNotStarted
  <2>16. CASE ActionClassify(p)
    BY <2>16, Classify DEF ActionClassify, actionAccomplishedNothing
  <2>17. CASE RemoveReport(p)
    BY <2>17 DEF RemoveReport
  <2>18. CASE Unlock(p)
    BY <2>18 DEF Unlock
  <2> QED
    BY <1>5, <2>1, <2>2, <2>3, <2>4, <2>5, <2>6, <2>7, <2>8, <2>9, <2>10, <2>11, <2>12,
       <2>13, <2>14, <2>15, <2>16, <2>17, <2>18 DEF JobStep
<1>6. ASSUME NEW p \in Procs, ChildExit(p) PROVE FailureTracked'
  <2>1. CASE ScanExit(p)
    BY <2>1 DEF ScanExit
  <2>2. CASE ActionExit(p)
    BY <2>2 DEF ActionExit
  <2> QED
    BY <1>6, <2>1, <2>2 DEF ChildExit
<1>7. ASSUME NEW p \in Procs, Expire(p) PROVE FailureTracked'
  BY <1>7 DEF Expire
<1>8. ASSUME NEW p \in Procs, Signal(p) PROVE FailureTracked'
  BY <1>8 DEF Signal
<1>9. ASSUME NEW p \in Procs, Exit(p) PROVE FailureTracked'
  BY <1>9 DEF Exit, Forget
<1>10. ASSUME NEW p \in Procs, Crash(p) PROVE FailureTracked'
  BY <1>10 DEF Crash, Forget
<1> QED
  BY <1>1, <1>2, <1>3, <1>4, <1>5, <1>6, <1>7, <1>8, <1>9, <1>10 DEF Next

(***************************************************************************)
(* The inductive invariant.  LockOwned carries the rest: what one process  *)
(* does to /cache inside the critical section, no other can do meanwhile.  *)
(***************************************************************************)
IndInv == /\ TypeOK /\ LockOwned /\ LiveReportIntact /\ OrphansAccounted
          /\ SweepTracked /\ FailureTracked

\* The inductive invariant holds before the first start.
LEMMA IndInvInit == Init => IndInv
<1> SUFFICES ASSUME Init PROVE IndInv
  OBVIOUS
<1> USE ProcsAssumption DEF Init
<1>1. TypeOK
  BY TypeInit
<1>2. LockOwned /\ LiveReportIntact
  BY DEF LockOwned, LiveReportIntact
<1>3. OrphansAccounted
  BY FilesAssumption DEF OrphansAccounted, OnDisk
<1>4. SweepTracked /\ FailureTracked
  BY DEF SweepTracked, SweepComplete, FailureTracked, ResultTellsFailure, NoResult
<1> QED
  BY <1>1, <1>2, <1>3, <1>4 DEF IndInv

\* Every step preserves it, each conjunct by its own lemma.
LEMMA IndInvNext == IndInv /\ [Next]_vars => IndInv'
  BY TypeNext, LockNext, ReportNext, OrphansNext, SweepNext, ResultNext DEF IndInv

\* It therefore holds in every reachable state.
LEMMA IndInvHolds == Spec => []IndInv
  BY IndInvInit, IndInvNext, PTL DEF Spec

\* Every variable keeps its type, and a process has a report file exactly
\* between os.CreateTemp and the deferred os.Remove.
THEOREM TypeCorrect == Spec => []TypeOK
  BY IndInvHolds, PTL DEF IndInv

\* No early return of runFclonesJob or cleanStaleReports leaks the flock.
THEOREM LockNotLeaked == Spec => []LockOwned
  BY IndInvHolds, PTL DEF IndInv

\* Two jobs, or a job and a sweep, never run at the same time on one /cache.
THEOREM MutualExclusion == Spec => []OneScanAtATime
<1>1. IndInv => OneScanAtATime
  BY DEF IndInv, LockOwned, OneScanAtATime
<1> QED
  BY IndInvHolds, <1>1, PTL

\* The report a mutating action reads is the one its own scan wrote.
THEOREM ReportSafety == Spec => []LiveReportIntact
  BY IndInvHolds, PTL DEF IndInv

\* Only crashes and refused removals orphan a report.
THEOREM NoReportLeaks == Spec => []OrphansAccounted
  BY IndInvHolds, PTL DEF IndInv

\* A finished sweep leaves only what it could not read or remove.
THEOREM SweepReclaims == Spec => []SweepComplete
  BY IndInvHolds, PTL DEF IndInv, SweepTracked

\* runFclonesJob hides a failure only under a cancelled context.
THEOREM HonestResult == Spec => []ResultTellsFailure
  BY IndInvHolds, PTL DEF IndInv, FailureTracked

(***************************************************************************)
(* A step of FclonesJob, seen through the refinement mapping.              *)
(***************************************************************************)
SessionStep ==
  \/ Session!Next
  \/ UNCHANGED <<lock, IF lock = NoProc THEN "free" ELSE StageOf(pc[lock])>>

\* Every step is a step of the lock holder's session, or leaves it alone.
LEMMA SessionNext ==
  TypeOK /\ LockOwned /\ [Next]_vars => SessionStep
<1> SUFFICES ASSUME TypeOK, LockOwned, [Next]_vars PROVE SessionStep
  OBVIOUS
<1> USE ProcsAssumption DEF TypeOK, LockOwned, PcType, SessionStep, StageOf,
   Session!Next, Session!Enter, Session!Advance, Session!Scan, Session!Scanned,
   Session!Act, Session!Close, Session!Leave, Session!Stages
<1>1. CASE UNCHANGED vars
  BY <1>1 DEF vars
<1>2. ASSUME NEW p \in Procs, Boot(p) PROVE SessionStep
  BY <1>2 DEF Boot
<1>3. ASSUME NEW p \in Procs, StartupStep(p) PROVE SessionStep
  <2>1. CASE Bootstrap(p)
    BY <2>1 DEF Bootstrap
  <2>2. CASE SweepSkip(p)
    BY <2>2 DEF SweepSkip
  <2>3. CASE SweepStart(p)
    BY <2>3 DEF SweepStart
  <2>4. CASE SweepRemove(p)
    BY <2>4 DEF SweepRemove
  <2>5. CASE SweepEnd(p)
    BY <2>5 DEF SweepEnd
  <2>6. CASE SweepUnlock(p)
    BY <2>6 DEF SweepUnlock
  <2> QED
    BY <1>3, <2>1, <2>2, <2>3, <2>4, <2>5, <2>6 DEF StartupStep
<1>4. ASSUME NEW p \in Procs, StartRun(p) PROVE SessionStep
  BY <1>4 DEF StartRun
<1>5. ASSUME NEW p \in Procs, JobStep(p) PROVE SessionStep
  <2>1. CASE LockError(p)
    BY <2>1 DEF LockError
  <2>2. CASE LockSkip(p)
    BY <2>2 DEF LockSkip
  <2>3. CASE LockTake(p)
    BY <2>3 DEF LockTake
  <2>4. CASE StartError(p)
    BY <2>4 DEF StartError
  <2>5. CASE CreateReport(p)
    BY <2>5 DEF CreateReport
  <2>6. CASE ScanStart(p)
    BY <2>6 DEF ScanStart
  <2>7. CASE ScanNotStarted(p)
    BY <2>7 DEF ScanNotStarted
  <2>8. CASE ScanClassify(p)
    BY <2>8 DEF ScanClassify
  <2>9. CASE DecodeOK(p)
    BY <2>9 DEF DecodeOK
  <2>10. CASE DecodeError(p)
    BY <2>10 DEF DecodeError
  <2>11. CASE NoAction(p)
    BY <2>11 DEF NoAction
  <2>12. CASE ActionBegin(p)
    BY <2>12 DEF ActionBegin
  <2>13. CASE ActionOpenError(p)
    BY <2>13 DEF ActionOpenError
  <2>14. CASE ActionStart(p)
    BY <2>14 DEF ActionStart
  <2>15. CASE ActionNotStarted(p)
    BY <2>15 DEF ActionNotStarted
  <2>16. CASE ActionClassify(p)
    BY <2>16 DEF ActionClassify
  <2>17. CASE RemoveReport(p)
    BY <2>17 DEF RemoveReport
  <2>18. CASE Unlock(p)
    BY <2>18 DEF Unlock
  <2> QED
    BY <1>5, <2>1, <2>2, <2>3, <2>4, <2>5, <2>6, <2>7, <2>8, <2>9, <2>10, <2>11, <2>12,
       <2>13, <2>14, <2>15, <2>16, <2>17, <2>18 DEF JobStep
<1>6. ASSUME NEW p \in Procs, ChildExit(p) PROVE SessionStep
  <2>1. CASE ScanExit(p)
    BY <2>1 DEF ScanExit
  <2>2. CASE ActionExit(p)
    BY <2>2 DEF ActionExit
  <2> QED
    BY <1>6, <2>1, <2>2 DEF ChildExit
<1>7. ASSUME NEW p \in Procs, Expire(p) PROVE SessionStep
  BY <1>7 DEF Expire
<1>8. ASSUME NEW p \in Procs, Signal(p) PROVE SessionStep
  BY <1>8 DEF Signal
<1>9. ASSUME NEW p \in Procs, Exit(p) PROVE SessionStep
  BY <1>9 DEF Exit, Forget
<1>10. ASSUME NEW p \in Procs, Crash(p) PROVE SessionStep
  BY <1>10 DEF Crash, Forget
<1> QED
  BY <1>1, <1>2, <1>3, <1>4, <1>5, <1>6, <1>7, <1>8, <1>9, <1>10 DEF Next

\* The job, seen through the lock, is a sequence of exclusive sessions.
THEOREM Refinement == Spec => ImplementsExclusiveRun
<1>1. Init => Session!Init
  BY DEF Init, Session!Init
<1>2. IndInv /\ [Next]_vars => SessionStep
  BY SessionNext DEF IndInv
<1> QED
  BY IndInvHolds, <1>1, <1>2, PTL DEF Spec, ImplementsExclusiveRun, Session!Spec, SessionStep
=============================================================================
