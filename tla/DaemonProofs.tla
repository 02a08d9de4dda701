---------------------------- MODULE DaemonProofs ----------------------------
(***************************************************************************)
(* Proofs about Daemon, for any number of clients and any queue capacity.  *)
(***************************************************************************)
EXTENDS Daemon, FiniteSetTheorems, TLAPS

USE DEF procs, clients, daemon, Requesters, Fates, JobFates, Completed, MainPcs, OncePcs,
        Exited, Modes, LnOpen, QueueOpen

\* The variables are well typed in the first life.
LEMMA TypeInit == Init => TypeOK
  BY CapacityAssumption DEF Init, TypeOK

\* A request that is admitted fits: the queue stays within its capacity.
LEMMA AppendFits ==
  ASSUME NEW q \in Seq(Requesters), Len(q) < QueueCapacity, NEW r \in Requesters
  PROVE  Append(q, r) \in Seq(Requesters) /\ Len(Append(q, r)) <= QueueCapacity
  BY CapacityAssumption

\* A scheduled run, admitted or refused, keeps the types.
LEMMA TickType ==
  ASSUME TypeOK, Tick
  PROVE  TypeOK'
<1>1. queue' \in Seq(Requesters) /\ Len(queue') <= QueueCapacity
  <2>1. CASE Admits
    <3>1. queue' = Append(queue, Ticker) /\ Len(queue) < QueueCapacity
      BY <2>1 DEF Tick, Admits
    <3>2. Append(queue, Ticker) \in Seq(Requesters)
            /\ Len(Append(queue, Ticker)) <= QueueCapacity
      BY <3>1, AppendFits DEF TypeOK
    <3> QED
      BY <3>1, <3>2
  <2>2. CASE ~Admits
    BY <2>2 DEF Tick, TypeOK
  <2> QED
    BY <2>1, <2>2
<1>2. tick' \in {"wait", "loop"}
  BY DEF Tick
<1> QED
  BY <1>1, <1>2 DEF Tick, TypeOK

\* Every step keeps the types, and the queue within its capacity.
LEMMA TypeNext ==
  TypeOK /\ [Next]_vars => TypeOK'
<1> SUFFICES ASSUME TypeOK, [Next]_vars PROVE TypeOK'
  OBVIOUS
<1> USE CapacityAssumption, TickerAssumption DEF TypeOK, Admits
<1>1. CASE UNCHANGED vars
  BY <1>1 DEF vars
<1>2. CASE Boot
  BY <1>2 DEF Boot
<1>3. CASE MainNext
  <2>1. CASE BootFail
    BY <2>1 DEF BootFail
  <2>2. CASE BootOK
    BY <2>2 DEF BootOK
  <2>3. CASE ListenFail
    BY <2>3 DEF ListenFail
  <2>4. CASE Start
    BY <2>4 DEF Start, builtinBootState
  <2>5. CASE BeginDrain
    BY <2>5 DEF BeginDrain
  <2>6. CASE CloseListener
    BY <2>6 DEF CloseListener, MainStep
  <2>7. CASE CloseQueue
    BY <2>7 DEF CloseQueue, MainStep
  <2>8. CASE ExecutorDone
    BY <2>8 DEF ExecutorDone, MainStep
  <2>9. CASE TickerDone
    BY <2>9 DEF TickerDone, MainStep
  <2>10. CASE SrvWait
    BY <2>10 DEF SrvWait
  <2>11. CASE OnceStart
    BY <2>11 DEF OnceStart
  <2>12. CASE OnceMark
    BY <2>12 DEF OnceMark
  <2>13. CASE OnceClassify
    BY <2>13 DEF OnceClassify
  <2>14. CASE OnceExit
    BY <2>14 DEF OnceExit
  <2> QED
    BY <1>3, <2>1, <2>2, <2>3, <2>4, <2>5, <2>6, <2>7, <2>8, <2>9, <2>10, <2>11, <2>12,
       <2>13, <2>14 DEF MainNext
<1>4. CASE Signal
  BY <1>4 DEF Signal
<1>5. CASE Crash
  BY <1>5 DEF Crash, LoseRecord
<1>6. CASE ExecutorStep
  <2>1. CASE TakeRun
    BY <2>1 DEF TakeRun
  <2>2. CASE TakeCancelled
    BY <2>2 DEF TakeCancelled, Deliver, Told
  <2>3. CASE ReadSignal
    BY <2>3 DEF ReadSignal, LoseRecord
  <2>4. CASE HealthSet
    BY <2>4 DEF HealthSet
  <2>5. CASE StampRecord
    BY <2>5 DEF StampRecord, LoseRecord
  <2>6. CASE Answer
    BY <2>6 DEF Answer, Deliver
  <2>7. CASE ExecutorExit
    BY <2>7 DEF ExecutorExit
  <2> QED
    BY <1>6, <2>1, <2>2, <2>3, <2>4, <2>5, <2>6, <2>7 DEF ExecutorStep
<1>7. CASE JobReturn
  BY <1>7 DEF JobReturn, Told
<1>8. CASE StartupTick
  BY <1>8, TickType DEF StartupTick
<1>9. CASE IntervalTick
  BY <1>9, TickType DEF IntervalTick
<1>10. CASE TickerExit
  BY <1>10 DEF TickerExit
<1>11. ASSUME NEW c \in Clients, HandlerStep(c) PROVE TypeOK'
  <2>1. CASE HandlerSubmit(c)
    BY <2>1 DEF HandlerSubmit
  <2>2. CASE HandlerReject(c)
    BY <2>2 DEF HandlerReject, Told
  <2>3. CASE HandlerDrop(c)
    BY <2>3 DEF HandlerDrop
  <2>4. CASE HandlerReply(c)
    BY <2>4 DEF HandlerReply
  <2> QED
    BY <1>11, <2>1, <2>2, <2>3, <2>4 DEF HandlerStep
<1>12. ASSUME NEW c \in Clients, ClientNext(c) PROVE TypeOK'
  <2>1. CASE Connect(c)
    BY <2>1 DEF Connect
  <2>2. CASE Unreachable(c)
    BY <2>2 DEF Unreachable
  <2>3. CASE Interrupt(c)
    BY <2>3 DEF Interrupt
  <2>4. CASE Again(c)
    BY <2>4 DEF Again
  <2> QED
    BY <1>12, <2>1, <2>2, <2>3, <2>4 DEF ClientNext
<1>13. CASE OnceReturn
  BY <1>13 DEF OnceReturn
<1> QED
  BY <1>1, <1>2, <1>3, <1>4, <1>5, <1>6, <1>7, <1>8, <1>9, <1>10, <1>11, <1>12, <1>13
     DEF Next

(***************************************************************************)
(* The strengthening of DrainStaysUnhealthy.  Until the executor has       *)
(* exited the latch keeps a late healthy write out; after that nobody is   *)
(* left to write.  The order of the waits in runDaemon is what makes the   *)
(* second half true when the marker has been cleaned up.                   *)
(***************************************************************************)
DrainInv ==
  /\ DrainStaysUnhealthy
  /\ main \in {"closeln", "closequeue", "waitexec"} => latch = "draining"
  /\ main \in {"waittick", "waitsrv"} => exec = "exited"
  /\ main \in {"boot", "listen"} \union OncePcs => exec = "off"
  /\ main \in Exited => exec \in {"off", "exited"}

\* No step ends the drain or lets a run write a healthy marker in it.
LEMMA DrainNext ==
  TypeOK /\ DrainInv /\ [Next]_vars => DrainInv'
<1> SUFFICES ASSUME TypeOK, DrainInv, [Next]_vars PROVE DrainInv'
  OBVIOUS
<1> USE DEF TypeOK, DrainInv, DrainStaysUnhealthy
<1>1. CASE UNCHANGED vars
  BY <1>1 DEF vars
<1>2. CASE Boot
  BY <1>2 DEF Boot
<1>3. CASE MainNext
  <2>1. CASE BootFail
    BY <2>1 DEF BootFail
  <2>2. CASE BootOK
    BY <2>2 DEF BootOK
  <2>3. CASE ListenFail
    BY <2>3 DEF ListenFail
  <2>4. CASE Start
    BY <2>4 DEF Start, builtinBootState
  <2>5. CASE BeginDrain
    BY <2>5 DEF BeginDrain
  <2>6. CASE CloseListener
    BY <2>6 DEF CloseListener, MainStep
  <2>7. CASE CloseQueue
    BY <2>7 DEF CloseQueue, MainStep
  <2>8. CASE ExecutorDone
    BY <2>8 DEF ExecutorDone, MainStep
  <2>9. CASE TickerDone
    BY <2>9 DEF TickerDone, MainStep
  <2>10. CASE SrvWait
    BY <2>10 DEF SrvWait
  <2>11. CASE OnceStart
    BY <2>11 DEF OnceStart
  <2>12. CASE OnceMark
    BY <2>12 DEF OnceMark
  <2>13. CASE OnceClassify
    BY <2>13 DEF OnceClassify
  <2>14. CASE OnceExit
    BY <2>14 DEF OnceExit
  <2> QED
    BY <1>3, <2>1, <2>2, <2>3, <2>4, <2>5, <2>6, <2>7, <2>8, <2>9, <2>10, <2>11, <2>12,
       <2>13, <2>14 DEF MainNext
<1>4. CASE Signal
  BY <1>4 DEF Signal
<1>5. CASE Crash
  BY <1>5 DEF Crash, LoseRecord
<1>6. CASE ExecutorStep
  <2>1. CASE TakeRun
    BY <2>1 DEF TakeRun
  <2>2. CASE TakeCancelled
    BY <2>2 DEF TakeCancelled, Deliver, Told
  <2>3. CASE ReadSignal
    BY <2>3 DEF ReadSignal, LoseRecord
  <2>4. CASE HealthSet
    BY <2>4 DEF HealthSet
  <2>5. CASE StampRecord
    BY <2>5 DEF StampRecord, LoseRecord
  <2>6. CASE Answer
    BY <2>6 DEF Answer, Deliver
  <2>7. CASE ExecutorExit
    BY <2>7 DEF ExecutorExit
  <2> QED
    BY <1>6, <2>1, <2>2, <2>3, <2>4, <2>5, <2>6, <2>7 DEF ExecutorStep
<1>7. CASE JobReturn
  BY <1>7 DEF JobReturn, Told
<1>8. CASE StartupTick
  BY <1>8 DEF StartupTick, Tick
<1>9. CASE IntervalTick
  BY <1>9 DEF IntervalTick, Tick
<1>10. CASE TickerExit
  BY <1>10 DEF TickerExit
<1>11. ASSUME NEW c \in Clients, HandlerStep(c) PROVE DrainInv'
  <2>1. CASE HandlerSubmit(c)
    BY <2>1 DEF HandlerSubmit
  <2>2. CASE HandlerReject(c)
    BY <2>2 DEF HandlerReject, Told
  <2>3. CASE HandlerDrop(c)
    BY <2>3 DEF HandlerDrop
  <2>4. CASE HandlerReply(c)
    BY <2>4 DEF HandlerReply
  <2> QED
    BY <1>11, <2>1, <2>2, <2>3, <2>4 DEF HandlerStep
<1>12. ASSUME NEW c \in Clients, ClientNext(c) PROVE DrainInv'
  <2>1. CASE Connect(c)
    BY <2>1 DEF Connect
  <2>2. CASE Unreachable(c)
    BY <2>2 DEF Unreachable
  <2>3. CASE Interrupt(c)
    BY <2>3 DEF Interrupt
  <2>4. CASE Again(c)
    BY <2>4 DEF Again
  <2> QED
    BY <1>12, <2>1, <2>2, <2>3, <2>4 DEF ClientNext
<1>13. CASE OnceReturn
  BY <1>13 DEF OnceReturn
<1> QED
  BY <1>1, <1>2, <1>3, <1>4, <1>5, <1>6, <1>7, <1>8, <1>9, <1>10, <1>11, <1>12, <1>13
     DEF Next

(***************************************************************************)
(* The strengthening of StampTellsLastScheduled: a scheduled run on its    *)
(* way to the record is the one sched speaks of, and only completed runs   *)
(* reach it, because an interrupted one returns under a done context and   *)
(* recordOutcome reads that context again.                                 *)
(***************************************************************************)
RecordTrue ==
  sched # "lost" =>
    /\ stamp = "ok" => sched = "clean"
    /\ stamp = "failed" => sched = "failed"
    /\ stamp = "none" => sched = "none"

OnItsWay == cur = Ticker /\ exec \in {"returned", "set", "stamp"} /\ fate \in Completed

StampInv ==
  /\ IF OnItsWay THEN sched = fate ELSE RecordTrue
  /\ exec = "returned" /\ fate = "interrupted" => ctx = "done"
  /\ exec \in {"set", "stamp"} => fate \in Completed
  /\ exec = "stamp" => cur = Ticker
  /\ main \in {"down", "boot", "listen"} \union OncePcs => exec = "off"
  /\ main \in Exited => exec \in {"off", "exited"}
  /\ main \in {"waittick", "waitsrv"} => exec = "exited"

\* No step separates the record from the run it is about.
LEMMA StampNext ==
  TypeOK /\ StampInv /\ [Next]_vars => StampInv'
<1> SUFFICES ASSUME TypeOK, StampInv, [Next]_vars PROVE StampInv'
  OBVIOUS
<1> USE DEF TypeOK, StampInv, RecordTrue, OnItsWay
<1>1. CASE UNCHANGED vars
  BY <1>1 DEF vars
<1>2. CASE Boot
  BY <1>2 DEF Boot
<1>3. CASE MainNext
  <2>1. CASE BootFail
    BY <2>1 DEF BootFail
  <2>2. CASE BootOK
    BY <2>2 DEF BootOK
  <2>3. CASE ListenFail
    BY <2>3 DEF ListenFail
  <2>4. CASE Start
    BY <2>4 DEF Start, builtinBootState
  <2>5. CASE BeginDrain
    BY <2>5 DEF BeginDrain
  <2>6. CASE CloseListener
    BY <2>6 DEF CloseListener, MainStep
  <2>7. CASE CloseQueue
    BY <2>7 DEF CloseQueue, MainStep
  <2>8. CASE ExecutorDone
    BY <2>8 DEF ExecutorDone, MainStep
  <2>9. CASE TickerDone
    BY <2>9 DEF TickerDone, MainStep
  <2>10. CASE SrvWait
    BY <2>10 DEF SrvWait
  <2>11. CASE OnceStart
    BY <2>11 DEF OnceStart
  <2>12. CASE OnceMark
    BY <2>12 DEF OnceMark
  <2>13. CASE OnceClassify
    BY <2>13 DEF OnceClassify
  <2>14. CASE OnceExit
    BY <2>14 DEF OnceExit
  <2> QED
    BY <1>3, <2>1, <2>2, <2>3, <2>4, <2>5, <2>6, <2>7, <2>8, <2>9, <2>10, <2>11, <2>12,
       <2>13, <2>14 DEF MainNext
<1>4. CASE Signal
  BY <1>4 DEF Signal
<1>5. CASE Crash
  BY <1>5 DEF Crash, LoseRecord
<1>6. CASE ExecutorStep
  <2>1. CASE TakeRun
    BY <2>1 DEF TakeRun
  <2>2. CASE TakeCancelled
    BY <2>2 DEF TakeCancelled, Deliver, Told
  <2>3. CASE ReadSignal
    BY <2>3 DEF ReadSignal, LoseRecord, jobHealthSignal, markerAction, Ran, Err
  <2>4. CASE HealthSet
    BY <2>4 DEF HealthSet
  <2>5. CASE StampRecord
    BY <2>5 DEF StampRecord, LoseRecord, Err
  <2>6. CASE Answer
    BY <2>6 DEF Answer, Deliver
  <2>7. CASE ExecutorExit
    BY <2>7 DEF ExecutorExit
  <2> QED
    BY <1>6, <2>1, <2>2, <2>3, <2>4, <2>5, <2>6, <2>7 DEF ExecutorStep
<1>7. CASE JobReturn
  BY <1>7 DEF JobReturn, Told
<1>8. CASE StartupTick
  BY <1>8 DEF StartupTick, Tick
<1>9. CASE IntervalTick
  BY <1>9 DEF IntervalTick, Tick
<1>10. CASE TickerExit
  BY <1>10 DEF TickerExit
<1>11. ASSUME NEW c \in Clients, HandlerStep(c) PROVE StampInv'
  <2>1. CASE HandlerSubmit(c)
    BY <2>1 DEF HandlerSubmit
  <2>2. CASE HandlerReject(c)
    BY <2>2 DEF HandlerReject, Told
  <2>3. CASE HandlerDrop(c)
    BY <2>3 DEF HandlerDrop
  <2>4. CASE HandlerReply(c)
    BY <2>4 DEF HandlerReply
  <2> QED
    BY <1>11, <2>1, <2>2, <2>3, <2>4 DEF HandlerStep
<1>12. ASSUME NEW c \in Clients, ClientNext(c) PROVE StampInv'
  <2>1. CASE Connect(c)
    BY <2>1 DEF Connect
  <2>2. CASE Unreachable(c)
    BY <2>2 DEF Unreachable
  <2>3. CASE Interrupt(c)
    BY <2>3 DEF Interrupt
  <2>4. CASE Again(c)
    BY <2>4 DEF Again
  <2> QED
    BY <1>12, <2>1, <2>2, <2>3, <2>4 DEF ClientNext
<1>13. CASE OnceReturn
  BY <1>13 DEF OnceReturn
<1> QED
  BY <1>1, <1>2, <1>3, <1>4, <1>5, <1>6, <1>7, <1>8, <1>9, <1>10, <1>11, <1>12, <1>13
     DEF Next

(***************************************************************************)
(* The strengthening of OnceVerdict: between the two reads of the context  *)
(* the marker is already that of the job, an interrupted job is known by   *)
(* its context, and a run-once process never gets to serve.                *)
(***************************************************************************)
OnceInv ==
  /\ OnceVerdict
  /\ main \in {"oncemark", "onceclass"} /\ fate = "interrupted" => ctx = "done"
  /\ main = "oncemark" => marker = "none"
  /\ main = "onceclass" /\ marker = "healthy" => fate = "clean"
  /\ main = "onceclass" /\ fate = "clean" /\ ctx = "live" => marker = "healthy"
  /\ mode = "once" => main \in {"down", "boot"} \union OncePcs \union Exited

\* No step separates a run-once job from its verdict.
LEMMA OnceNext ==
  TypeOK /\ DrainInv /\ OnceInv /\ [Next]_vars => OnceInv'
<1> SUFFICES ASSUME TypeOK, DrainInv, OnceInv, [Next]_vars PROVE OnceInv'
  OBVIOUS
<1> USE DEF TypeOK, DrainInv, OnceInv, OnceVerdict
<1>1. CASE UNCHANGED vars
  BY <1>1 DEF vars
<1>2. CASE Boot
  BY <1>2 DEF Boot
<1>3. CASE MainNext
  <2>1. CASE BootFail
    BY <2>1 DEF BootFail
  <2>2. CASE BootOK
    BY <2>2 DEF BootOK
  <2>3. CASE ListenFail
    BY <2>3 DEF ListenFail
  <2>4. CASE Start
    BY <2>4 DEF Start, builtinBootState
  <2>5. CASE BeginDrain
    BY <2>5 DEF BeginDrain
  <2>6. CASE CloseListener
    BY <2>6 DEF CloseListener, MainStep
  <2>7. CASE CloseQueue
    BY <2>7 DEF CloseQueue, MainStep
  <2>8. CASE ExecutorDone
    BY <2>8 DEF ExecutorDone, MainStep
  <2>9. CASE TickerDone
    BY <2>9 DEF TickerDone, MainStep
  <2>10. CASE SrvWait
    BY <2>10 DEF SrvWait
  <2>11. CASE OnceStart
    BY <2>11 DEF OnceStart
  <2>12. CASE OnceMark
    BY <2>12 DEF OnceMark, jobHealthSignal, markerAction, Ran, Err
  <2>13. CASE OnceClassify
    BY <2>13 DEF OnceClassify, classifyRunOnceOutcome, Ran, Err
  <2>14. CASE OnceExit
    BY <2>14 DEF OnceExit
  <2> QED
    BY <1>3, <2>1, <2>2, <2>3, <2>4, <2>5, <2>6, <2>7, <2>8, <2>9, <2>10, <2>11, <2>12,
       <2>13, <2>14 DEF MainNext
<1>4. CASE Signal
  BY <1>4 DEF Signal
<1>5. CASE Crash
  BY <1>5 DEF Crash, LoseRecord
<1>6. CASE ExecutorStep
  <2>1. CASE TakeRun
    BY <2>1 DEF TakeRun
  <2>2. CASE TakeCancelled
    BY <2>2 DEF TakeCancelled, Deliver, Told
  <2>3. CASE ReadSignal
    BY <2>3 DEF ReadSignal, LoseRecord
  <2>4. CASE HealthSet
    BY <2>4 DEF HealthSet
  <2>5. CASE StampRecord
    BY <2>5 DEF StampRecord, LoseRecord
  <2>6. CASE Answer
    BY <2>6 DEF Answer, Deliver
  <2>7. CASE ExecutorExit
    BY <2>7 DEF ExecutorExit
  <2> QED
    BY <1>6, <2>1, <2>2, <2>3, <2>4, <2>5, <2>6, <2>7 DEF ExecutorStep
<1>7. CASE JobReturn
  BY <1>7 DEF JobReturn, Told
<1>8. CASE StartupTick
  BY <1>8 DEF StartupTick, Tick
<1>9. CASE IntervalTick
  BY <1>9 DEF IntervalTick, Tick
<1>10. CASE TickerExit
  BY <1>10 DEF TickerExit
<1>11. ASSUME NEW c \in Clients, HandlerStep(c) PROVE OnceInv'
  <2>1. CASE HandlerSubmit(c)
    BY <2>1 DEF HandlerSubmit
  <2>2. CASE HandlerReject(c)
    BY <2>2 DEF HandlerReject, Told
  <2>3. CASE HandlerDrop(c)
    BY <2>3 DEF HandlerDrop
  <2>4. CASE HandlerReply(c)
    BY <2>4 DEF HandlerReply
  <2> QED
    BY <1>11, <2>1, <2>2, <2>3, <2>4 DEF HandlerStep
<1>12. ASSUME NEW c \in Clients, ClientNext(c) PROVE OnceInv'
  <2>1. CASE Connect(c)
    BY <2>1 DEF Connect
  <2>2. CASE Unreachable(c)
    BY <2>2 DEF Unreachable
  <2>3. CASE Interrupt(c)
    BY <2>3 DEF Interrupt
  <2>4. CASE Again(c)
    BY <2>4 DEF Again
  <2> QED
    BY <1>12, <2>1, <2>2, <2>3, <2>4 DEF ClientNext
<1>13. CASE OnceReturn
  BY <1>13 DEF OnceReturn
<1> QED
  BY <1>1, <1>2, <1>3, <1>4, <1>5, <1>6, <1>7, <1>8, <1>9, <1>10, <1>11, <1>12, <1>13
     DEF Next

(***************************************************************************)
(* The strengthening of CleanStop.  Outside the serving part of a life     *)
(* there is no work and no connection; an executor that is gone has left   *)
(* an empty queue that takes nothing in; the waits of runDaemon come one   *)
(* after the other; and a client that waits has a handler that knows it.   *)
(***************************************************************************)
Quiet == {"down", "boot", "listen"} \union OncePcs \union Exited

StopInv ==
  /\ main \in Quiet =>
       /\ queue = <<>> /\ exec \in {"off", "exited"} /\ tick \in {"off", "done"}
       /\ \A c \in Clients : handler[c] = "none"
  /\ \A c \in Clients : client[c] = "waiting" => handler[c] # "none"
  /\ exec = "exited" => queue = <<>> /\ ~QueueOpen
  /\ main \in {"waittick", "waitsrv"} => exec = "exited"
  /\ main = "waitsrv" => tick = "done"

\* No step of the stop leaves work, or somebody who waits for it, behind.
LEMMA StopNext ==
  TypeOK /\ StopInv /\ [Next]_vars => StopInv'
<1> SUFFICES ASSUME TypeOK, StopInv, [Next]_vars PROVE StopInv'
  OBVIOUS
<1> USE DEF TypeOK, StopInv, Quiet, Admits
<1>1. CASE UNCHANGED vars
  BY <1>1 DEF vars
<1>2. CASE Boot
  BY <1>2 DEF Boot
<1>3. CASE MainNext
  <2>1. CASE BootFail
    BY <2>1 DEF BootFail
  <2>2. CASE BootOK
    BY <2>2 DEF BootOK
  <2>3. CASE ListenFail
    BY <2>3 DEF ListenFail
  <2>4. CASE Start
    BY <2>4 DEF Start, builtinBootState
  <2>5. CASE BeginDrain
    BY <2>5 DEF BeginDrain
  <2>6. CASE CloseListener
    BY <2>6 DEF CloseListener, MainStep
  <2>7. CASE CloseQueue
    BY <2>7 DEF CloseQueue, MainStep
  <2>8. CASE ExecutorDone
    BY <2>8 DEF ExecutorDone, MainStep
  <2>9. CASE TickerDone
    BY <2>9 DEF TickerDone, MainStep
  <2>10. CASE SrvWait
    BY <2>10 DEF SrvWait
  <2>11. CASE OnceStart
    BY <2>11 DEF OnceStart
  <2>12. CASE OnceMark
    BY <2>12 DEF OnceMark
  <2>13. CASE OnceClassify
    BY <2>13 DEF OnceClassify
  <2>14. CASE OnceExit
    BY <2>14 DEF OnceExit
  <2> QED
    BY <1>3, <2>1, <2>2, <2>3, <2>4, <2>5, <2>6, <2>7, <2>8, <2>9, <2>10, <2>11, <2>12, <2>13,
       <2>14 DEF MainNext
<1>4. CASE Signal
  BY <1>4 DEF Signal
<1>5. CASE Crash
  BY <1>5 DEF Crash, LoseRecord
<1>6. CASE ExecutorStep
  <2>1. CASE TakeRun
    BY <2>1 DEF TakeRun
  <2>2. CASE TakeCancelled
    BY <2>2 DEF TakeCancelled, Deliver, Told
  <2>3. CASE ReadSignal
    BY <2>3 DEF ReadSignal, LoseRecord
  <2>4. CASE HealthSet
    BY <2>4 DEF HealthSet
  <2>5. CASE StampRecord
    BY <2>5 DEF StampRecord, LoseRecord
  <2>6. CASE Answer
    BY <2>6 DEF Answer, Deliver
  <2>7. CASE ExecutorExit
    BY <2>7 DEF ExecutorExit
  <2> QED
    BY <1>6, <2>1, <2>2, <2>3, <2>4, <2>5, <2>6, <2>7 DEF ExecutorStep
<1>7. CASE JobReturn
  BY <1>7 DEF JobReturn, Told
<1>8. CASE StartupTick
  BY <1>8 DEF StartupTick, Tick
<1>9. CASE IntervalTick
  BY <1>9 DEF IntervalTick, Tick
<1>10. CASE TickerExit
  BY <1>10 DEF TickerExit
<1>11. ASSUME NEW c \in Clients, HandlerStep(c) PROVE StopInv'
  <2>1. CASE HandlerSubmit(c)
    BY <2>1 DEF HandlerSubmit
  <2>2. CASE HandlerReject(c)
    BY <2>2 DEF HandlerReject, Told
  <2>3. CASE HandlerDrop(c)
    BY <2>3 DEF HandlerDrop
  <2>4. CASE HandlerReply(c)
    BY <2>4 DEF HandlerReply
  <2> QED
    BY <1>11, <2>1, <2>2, <2>3, <2>4 DEF HandlerStep
<1>12. ASSUME NEW c \in Clients, ClientNext(c) PROVE StopInv'
  <2>1. CASE Connect(c)
    BY <2>1 DEF Connect
  <2>2. CASE Unreachable(c)
    BY <2>2 DEF Unreachable
  <2>3. CASE Interrupt(c)
    BY <2>3 DEF Interrupt
  <2>4. CASE Again(c)
    BY <2>4 DEF Again
  <2> QED
    BY <1>12, <2>1, <2>2, <2>3, <2>4 DEF ClientNext
<1>13. CASE OnceReturn
  BY <1>13 DEF OnceReturn
<1> QED
  BY <1>1, <1>2, <1>3, <1>4, <1>5, <1>6, <1>7, <1>8, <1>9, <1>10, <1>11, <1>12, <1>13
     DEF Next

(***************************************************************************)
(* The strengthening of WaitersOwedOne, without counting: no requester is  *)
(* in the queue twice, and one waits exactly if its request is either in   *)
(* the queue or in the executor's hands.                                   *)
(***************************************************************************)
In(q, r) == \E i \in 1..Len(q) : q[i] = r
NoRepeat(q) == \A i, j \in 1..Len(q) : q[i] = q[j] => i = j
Busy(r) == cur = r /\ exec \notin {"off", "idle", "exited"}
Waits(r) == IF r = Ticker THEN tick = "wait" ELSE handler[r] = "queued"

OwedInv ==
  /\ NoRepeat(queue)
  /\ \A r \in Requesters : /\ Waits(r) <=> In(queue, r) \/ Busy(r)
                           /\ ~(In(queue, r) /\ Busy(r))

\* Submit adds one requester; one that was not there is still there once.
LEMMA InAppend ==
  ASSUME NEW q \in Seq(Requesters), NEW x \in Requesters
  PROVE  /\ \A r : In(Append(q, x), r) <=> In(q, r) \/ r = x
         /\ NoRepeat(q) /\ ~In(q, x) => NoRepeat(Append(q, x))
<1>1. Len(Append(q, x)) = Len(q) + 1 /\ Len(q) \in Nat
  OBVIOUS
<1>2. \A i \in 1..(Len(q) + 1) : Append(q, x)[i] = IF i = Len(q) + 1 THEN x ELSE q[i]
  OBVIOUS
<1> QED
  BY <1>1, <1>2 DEF In, NoRepeat

\* Taking the oldest request removes its requester and no other.
LEMMA InTail ==
  ASSUME NEW q \in Seq(Requesters), q # <<>>, NoRepeat(q)
  PROVE  /\ Head(q) \in Requesters /\ In(q, Head(q))
         /\ \A r : In(Tail(q), r) <=> In(q, r) /\ r # Head(q)
         /\ NoRepeat(Tail(q))
<1>1. Len(q) \in Nat \ {0} /\ Len(Tail(q)) = Len(q) - 1 /\ Head(q) = q[1]
  OBVIOUS
<1>2. \A i \in 1..(Len(q) - 1) : Tail(q)[i] = q[i + 1]
  OBVIOUS
<1>3. Head(q) \in Requesters /\ In(q, Head(q))
  BY <1>1 DEF In
<1>4. NoRepeat(Tail(q))
  BY <1>1, <1>2 DEF NoRepeat
<1>5. ASSUME NEW r, In(Tail(q), r) PROVE In(q, r) /\ r # Head(q)
  BY <1>1, <1>2, <1>5 DEF In, NoRepeat
<1>6. ASSUME NEW r, In(q, r), r # Head(q) PROVE In(Tail(q), r)
  <2>1. PICK i \in 1..Len(q) : q[i] = r
    BY <1>6 DEF In
  <2>2. i - 1 \in 1..(Len(q) - 1) /\ Tail(q)[i - 1] = r
    BY <1>1, <1>2, <1>6, <2>1
  <2> QED
    BY <1>1, <2>2 DEF In
<1> QED
  BY <1>3, <1>4, <1>5, <1>6

\* A ticker that does not wait submits one run, or none if it is refused.
LEMMA TickOwed ==
  ASSUME TypeOK, OwedInv, tick # "wait", Tick
  PROVE  OwedInv'
<1>1. CASE Admits
  <2>1. Ticker \in Requesters /\ ~In(queue, Ticker) /\ ~Busy(Ticker)
    BY DEF OwedInv, Waits
  <2>2. queue' = Append(queue, Ticker) /\ tick' = "wait"
    BY <1>1 DEF Tick
  <2>3. NoRepeat(queue') /\ \A r : In(queue', r) <=> In(queue, r) \/ r = Ticker
    BY <2>1, <2>2, InAppend DEF TypeOK, OwedInv
  <2> QED
    BY <2>1, <2>2, <2>3 DEF OwedInv, Waits, Busy, Tick
<1>2. CASE ~Admits
  BY <1>2 DEF Tick, OwedInv, Waits, Busy, In, NoRepeat
<1> QED
  BY <1>1, <1>2

\* No step makes a requester wait for nothing, or owes it two results.
LEMMA OwedNext ==
  TypeOK /\ StopInv /\ OwedInv /\ [Next]_vars => OwedInv'
<1> SUFFICES ASSUME TypeOK, StopInv, OwedInv, [Next]_vars PROVE OwedInv'
  OBVIOUS
<1> USE DEF TypeOK, StopInv, Quiet, OwedInv
<1>1. CASE UNCHANGED vars
  BY <1>1 DEF vars, Waits, Busy, In, NoRepeat
<1>2. CASE Boot
  BY <1>2 DEF Boot, Waits, Busy, In, NoRepeat
<1>3. CASE MainNext
  <2>1. CASE BootFail
    BY <2>1 DEF BootFail, Waits, Busy, In, NoRepeat
  <2>2. CASE BootOK
    BY <2>2 DEF BootOK, Waits, Busy, In, NoRepeat
  <2>3. CASE ListenFail
    BY <2>3 DEF ListenFail, Waits, Busy, In, NoRepeat
  <2>4. CASE Start
    BY <2>4 DEF Start, builtinBootState, Waits, Busy, In, NoRepeat
  <2>5. CASE BeginDrain
    BY <2>5 DEF BeginDrain, Waits, Busy, In, NoRepeat
  <2>6. CASE CloseListener
    BY <2>6 DEF CloseListener, MainStep, Waits, Busy, In, NoRepeat
  <2>7. CASE CloseQueue
    BY <2>7 DEF CloseQueue, MainStep, Waits, Busy, In, NoRepeat
  <2>8. CASE ExecutorDone
    BY <2>8 DEF ExecutorDone, MainStep, Waits, Busy, In, NoRepeat
  <2>9. CASE TickerDone
    BY <2>9 DEF TickerDone, MainStep, Waits, Busy, In, NoRepeat
  <2>10. CASE SrvWait
    BY <2>10 DEF SrvWait, Waits, Busy, In, NoRepeat
  <2>11. CASE OnceStart
    BY <2>11 DEF OnceStart, Waits, Busy, In, NoRepeat
  <2>12. CASE OnceMark
    BY <2>12 DEF OnceMark, Waits, Busy, In, NoRepeat
  <2>13. CASE OnceClassify
    BY <2>13 DEF OnceClassify, Waits, Busy, In, NoRepeat
  <2>14. CASE OnceExit
    BY <2>14 DEF OnceExit, Waits, Busy, In, NoRepeat
  <2> QED
    BY <1>3, <2>1, <2>2, <2>3, <2>4, <2>5, <2>6, <2>7, <2>8, <2>9, <2>10, <2>11, <2>12, <2>13,
       <2>14 DEF MainNext
<1>4. CASE Signal
  BY <1>4 DEF Signal, Waits, Busy, In, NoRepeat
<1>5. CASE Crash
  BY <1>5 DEF Crash, LoseRecord, Waits, Busy, In, NoRepeat
<1>6. CASE ExecutorStep
  <2>1. CASE TakeRun
    <3>1. \A r \in Requesters : ~Busy(r)
      BY <2>1 DEF TakeRun, Busy
    <3>2. \A r \in Requesters : Busy(r)' <=> r = Head(queue)
      BY <2>1 DEF TakeRun, Busy
    <3>3. NoRepeat(queue') /\ \A r : In(queue', r) <=> In(queue, r) /\ r # Head(queue)
      BY <2>1, InTail DEF TakeRun
    <3>4. In(queue, Head(queue))
      BY <2>1, InTail DEF TakeRun
    <3>5. \A r \in Requesters : Waits(r)' <=> Waits(r)
      BY <2>1 DEF TakeRun, Waits
    <3> QED
      BY <3>1, <3>2, <3>3, <3>4, <3>5
  <2>2. CASE TakeCancelled
    <3>1. \A r \in Requesters : ~Busy(r) /\ ~Busy(r)'
      BY <2>2 DEF TakeCancelled, Busy
    <3>2. /\ NoRepeat(queue') /\ \A r : In(queue', r) <=> In(queue, r) /\ r # Head(queue)
          /\ Head(queue) \in Requesters /\ In(queue, Head(queue))
      BY <2>2, InTail DEF TakeCancelled
    <3>3. Waits(Head(queue))
      BY <3>2
    <3>4. ASSUME NEW r \in Requesters PROVE Waits(r)' <=> Waits(r) /\ r # Head(queue)
      BY <2>2, <3>2, <3>3, TickerAssumption DEF TakeCancelled, Deliver, Waits
    <3> QED
      BY <3>1, <3>2, <3>4
  <2>3. CASE ReadSignal
    BY <2>3 DEF ReadSignal, LoseRecord, Waits, Busy, In, NoRepeat
  <2>4. CASE HealthSet
    BY <2>4 DEF HealthSet, Waits, Busy, In, NoRepeat
  <2>5. CASE StampRecord
    BY <2>5 DEF StampRecord, LoseRecord, Waits, Busy, In, NoRepeat
  <2>6. CASE Answer
    BY <2>6 DEF Answer, Deliver, Waits, Busy, In, NoRepeat
  <2>7. CASE ExecutorExit
    BY <2>7 DEF ExecutorExit, Waits, Busy, In, NoRepeat
  <2> QED
    BY <1>6, <2>1, <2>2, <2>3, <2>4, <2>5, <2>6, <2>7 DEF ExecutorStep
<1>7. CASE JobReturn
  BY <1>7 DEF JobReturn, Told, Waits, Busy, In, NoRepeat
<1>8. CASE StartupTick
  BY <1>8, TickOwed DEF StartupTick
<1>9. CASE IntervalTick
  BY <1>9, TickOwed DEF IntervalTick
<1>10. CASE TickerExit
  BY <1>10 DEF TickerExit, Waits, Busy, In, NoRepeat
<1>11. ASSUME NEW c \in Clients, HandlerStep(c) PROVE OwedInv'
  <2>1. CASE HandlerSubmit(c)
    <3>1. c \in Requesters /\ c # Ticker /\ ~In(queue, c) /\ ~Busy(c)
      BY <2>1, TickerAssumption DEF HandlerSubmit, Waits
    <3>2. NoRepeat(queue') /\ \A r : In(queue', r) <=> In(queue, r) \/ r = c
      BY <2>1, <3>1, InAppend DEF HandlerSubmit
    <3>3. \A r \in Requesters : Waits(r)' <=> Waits(r) \/ r = c
      BY <2>1, <3>1, TickerAssumption DEF HandlerSubmit, Waits
    <3>4. \A r \in Requesters : Busy(r)' <=> Busy(r)
      BY <2>1 DEF HandlerSubmit, Busy
    <3> QED
      BY <3>1, <3>2, <3>3, <3>4
  <2>2. CASE HandlerReject(c)
    <3>1. \A r \in Requesters : (Waits(r)' <=> Waits(r)) /\ (Busy(r)' <=> Busy(r))
      BY <2>2, TickerAssumption DEF HandlerReject, Waits, Busy
    <3>2. UNCHANGED queue
      BY <2>2 DEF HandlerReject
    <3> QED
      BY <3>1, <3>2 DEF In, NoRepeat
  <2>3. CASE HandlerDrop(c)
    <3>1. \A r \in Requesters : (Waits(r)' <=> Waits(r)) /\ (Busy(r)' <=> Busy(r))
      BY <2>3, TickerAssumption DEF HandlerDrop, Waits, Busy
    <3>2. UNCHANGED queue
      BY <2>3 DEF HandlerDrop
    <3> QED
      BY <3>1, <3>2 DEF In, NoRepeat
  <2>4. CASE HandlerReply(c)
    <3>1. \A r \in Requesters : (Waits(r)' <=> Waits(r)) /\ (Busy(r)' <=> Busy(r))
      BY <2>4, TickerAssumption DEF HandlerReply, Waits, Busy
    <3>2. UNCHANGED queue
      BY <2>4 DEF HandlerReply
    <3> QED
      BY <3>1, <3>2 DEF In, NoRepeat
  <2> QED
    BY <1>11, <2>1, <2>2, <2>3, <2>4 DEF HandlerStep
<1>12. ASSUME NEW c \in Clients, ClientNext(c) PROVE OwedInv'
  <2>1. CASE Connect(c)
    <3>1. \A r \in Requesters : (Waits(r)' <=> Waits(r)) /\ (Busy(r)' <=> Busy(r))
      BY <2>1, TickerAssumption DEF Connect, Waits, Busy
    <3>2. UNCHANGED queue
      BY <2>1 DEF Connect
    <3> QED
      BY <3>1, <3>2 DEF In, NoRepeat
  <2>2. CASE Unreachable(c)
    BY <2>2 DEF Unreachable, Waits, Busy, In, NoRepeat
  <2>3. CASE Interrupt(c)
    BY <2>3 DEF Interrupt, Waits, Busy, In, NoRepeat
  <2>4. CASE Again(c)
    BY <2>4 DEF Again, Waits, Busy, In, NoRepeat
  <2> QED
    BY <1>12, <2>1, <2>2, <2>3, <2>4 DEF ClientNext
<1>13. CASE OnceReturn
  BY <1>13 DEF OnceReturn, Waits, Busy, In, NoRepeat
<1> QED
  BY <1>1, <1>2, <1>3, <1>4, <1>5, <1>6, <1>7, <1>8, <1>9, <1>10, <1>11, <1>12, <1>13
     DEF Next

\* The client whose run is in hand has a handler that waits for the result.
LEMMA InHandWaits ==
  ASSUME OwedInv, NEW c \in Clients, cur = c, exec \notin {"off", "idle", "exited"}
  PROVE  handler[c] = "queued"
<1>1. c \in Requesters /\ c # Ticker /\ Busy(c)
  BY TickerAssumption DEF Busy
<1>2. Waits(c)
  BY <1>1 DEF OwedInv
<1> QED
  BY <1>1, <1>2 DEF Waits

(***************************************************************************)
(* The strengthening of MarkerHonest: between the job's return and the     *)
(* write of the marker, `last` is the run in hand (a lock skip leaves the  *)
(* marker as honest as it was), and the latch is open until the drain.     *)
(***************************************************************************)
Honest ==
  /\ last # "none" => (marker = "healthy" <=> last = "clean")
  /\ last = "none" /\ mode = "external" => marker = "healthy"
  /\ last = "none" /\ marker = "healthy" => mode = "external" \/ sched \in {"clean", "lost"}

MarkerInv ==
  /\ main = "serving" /\ ctx = "live" =>
       IF exec \in {"returned", "set"} /\ fate \in Completed THEN last = fate ELSE Honest
  /\ main \in {"boot", "listen", "serving"} => latch = "open"
  /\ main \in {"boot", "listen"} => last = "none"

\* No step in service separates the marker from the last completed run.
LEMMA MarkerNext ==
  TypeOK /\ DrainInv /\ StampInv /\ OnceInv /\ MarkerInv /\ [Next]_vars => MarkerInv'
<1> SUFFICES ASSUME TypeOK, DrainInv, StampInv, OnceInv, MarkerInv, [Next]_vars PROVE MarkerInv'
  OBVIOUS
<1> USE DEF TypeOK, DrainInv, StampInv, RecordTrue, OnItsWay, MarkerInv, Honest
<1>1. CASE UNCHANGED vars
  BY <1>1 DEF vars
<1>2. CASE Boot
  BY <1>2 DEF Boot
<1>3. CASE MainNext
  <2>1. CASE BootFail
    BY <2>1 DEF BootFail
  <2>2. CASE BootOK
    BY <2>2 DEF BootOK
  <2>3. CASE ListenFail
    BY <2>3 DEF ListenFail
  <2>4. CASE Start
    <3>1. mode \in {"builtin", "external"} /\ exec = "off" /\ last = "none"
      BY <2>4 DEF Start, OnceInv
    <3>2. mode = "external" => marker' = "healthy"
      BY <2>4, <3>1 DEF Start
    <3>3. mode = "builtin" /\ marker' = "healthy" => stamp = "ok"
      BY <2>4 DEF Start, builtinBootState
    <3>4. stamp = "ok" => sched \in {"clean", "lost"}
      BY <3>1
    <3> QED
      BY <2>4, <3>1, <3>2, <3>3, <3>4 DEF Start
  <2>5. CASE BeginDrain
    BY <2>5 DEF BeginDrain
  <2>6. CASE CloseListener
    BY <2>6 DEF CloseListener, MainStep
  <2>7. CASE CloseQueue
    BY <2>7 DEF CloseQueue, MainStep
  <2>8. CASE ExecutorDone
    BY <2>8 DEF ExecutorDone, MainStep
  <2>9. CASE TickerDone
    BY <2>9 DEF TickerDone, MainStep
  <2>10. CASE SrvWait
    BY <2>10 DEF SrvWait
  <2>11. CASE OnceStart
    BY <2>11 DEF OnceStart
  <2>12. CASE OnceMark
    BY <2>12 DEF OnceMark
  <2>13. CASE OnceClassify
    BY <2>13 DEF OnceClassify
  <2>14. CASE OnceExit
    BY <2>14 DEF OnceExit
  <2> QED
    BY <1>3, <2>1, <2>2, <2>3, <2>4, <2>5, <2>6, <2>7, <2>8, <2>9, <2>10, <2>11, <2>12, <2>13,
       <2>14 DEF MainNext
<1>4. CASE Signal
  BY <1>4 DEF Signal
<1>5. CASE Crash
  BY <1>5 DEF Crash, LoseRecord
<1>6. CASE ExecutorStep
  <2>1. CASE TakeRun
    BY <2>1 DEF TakeRun
  <2>2. CASE TakeCancelled
    BY <2>2 DEF TakeCancelled, Deliver, Told
  <2>3. CASE ReadSignal
    BY <2>3 DEF ReadSignal, LoseRecord, jobHealthSignal, markerAction, Ran, Err
  <2>4. CASE HealthSet
    BY <2>4 DEF HealthSet, Err
  <2>5. CASE StampRecord
    BY <2>5 DEF StampRecord, LoseRecord, Err
  <2>6. CASE Answer
    BY <2>6 DEF Answer, Deliver
  <2>7. CASE ExecutorExit
    BY <2>7 DEF ExecutorExit
  <2> QED
    BY <1>6, <2>1, <2>2, <2>3, <2>4, <2>5, <2>6, <2>7 DEF ExecutorStep
<1>7. CASE JobReturn
  BY <1>7 DEF JobReturn, Told
<1>8. CASE StartupTick
  BY <1>8 DEF StartupTick, Tick
<1>9. CASE IntervalTick
  BY <1>9 DEF IntervalTick, Tick
<1>10. CASE TickerExit
  BY <1>10 DEF TickerExit
<1>11. ASSUME NEW c \in Clients, HandlerStep(c) PROVE MarkerInv'
  <2>1. CASE HandlerSubmit(c)
    BY <2>1 DEF HandlerSubmit
  <2>2. CASE HandlerReject(c)
    BY <2>2 DEF HandlerReject, Told
  <2>3. CASE HandlerDrop(c)
    BY <2>3 DEF HandlerDrop
  <2>4. CASE HandlerReply(c)
    BY <2>4 DEF HandlerReply
  <2> QED
    BY <1>11, <2>1, <2>2, <2>3, <2>4 DEF HandlerStep
<1>12. ASSUME NEW c \in Clients, ClientNext(c) PROVE MarkerInv'
  <2>1. CASE Connect(c)
    BY <2>1 DEF Connect
  <2>2. CASE Unreachable(c)
    BY <2>2 DEF Unreachable
  <2>3. CASE Interrupt(c)
    BY <2>3 DEF Interrupt
  <2>4. CASE Again(c)
    BY <2>4 DEF Again
  <2> QED
    BY <1>12, <2>1, <2>2, <2>3, <2>4 DEF ClientNext
<1>13. CASE OnceReturn
  BY <1>13 DEF OnceReturn
<1> QED
  BY <1>1, <1>2, <1>3, <1>4, <1>5, <1>6, <1>7, <1>8, <1>9, <1>10, <1>11, <1>12, <1>13
     DEF Next

(***************************************************************************)
(* The strengthening of ExitCodeHonest: what a handler is about to write   *)
(* agrees with what became of the request, and from the job's return to    *)
(* the answer that is the fate of the run in hand.                         *)
(***************************************************************************)
Good == {"clean", "skipped", "interrupted"}

AnswerInv ==
  /\ ExitCodeHonest
  /\ \A c \in Clients : client[c] = "waiting" =>
       /\ handler[c] = "ok" => told[c] \in Good
       /\ handler[c] = "fail" => told[c] \notin Good \union {"none"}
       /\ cur = c /\ exec \in {"returned", "set", "stamp", "answer"} => told[c] = fate

\* No step hands a client the result of a run that was not its own.
LEMMA AnswerNext ==
  TypeOK /\ StampInv /\ OwedInv /\ AnswerInv /\ [Next]_vars => AnswerInv'
<1> SUFFICES ASSUME TypeOK, StampInv, OwedInv, AnswerInv, [Next]_vars PROVE AnswerInv'
  OBVIOUS
<1> USE DEF TypeOK, AnswerInv, ExitCodeHonest, Good
<1>1. CASE UNCHANGED vars
  BY <1>1 DEF vars
<1>2. CASE Boot
  BY <1>2 DEF Boot
<1>3. CASE MainNext
  <2>1. CASE BootFail
    BY <2>1 DEF BootFail
  <2>2. CASE BootOK
    BY <2>2 DEF BootOK
  <2>3. CASE ListenFail
    BY <2>3 DEF ListenFail
  <2>4. CASE Start
    BY <2>4 DEF Start, builtinBootState
  <2>5. CASE BeginDrain
    BY <2>5 DEF BeginDrain
  <2>6. CASE CloseListener
    BY <2>6 DEF CloseListener, MainStep
  <2>7. CASE CloseQueue
    BY <2>7 DEF CloseQueue, MainStep
  <2>8. CASE ExecutorDone
    BY <2>8 DEF ExecutorDone, MainStep
  <2>9. CASE TickerDone
    BY <2>9 DEF TickerDone, MainStep
  <2>10. CASE SrvWait
    BY <2>10 DEF SrvWait
  <2>11. CASE OnceStart
    BY <2>11 DEF OnceStart
  <2>12. CASE OnceMark
    BY <2>12 DEF OnceMark
  <2>13. CASE OnceClassify
    BY <2>13 DEF OnceClassify
  <2>14. CASE OnceExit
    BY <2>14 DEF OnceExit
  <2> QED
    BY <1>3, <2>1, <2>2, <2>3, <2>4, <2>5, <2>6, <2>7, <2>8, <2>9, <2>10, <2>11, <2>12, <2>13,
       <2>14 DEF MainNext
<1>4. CASE Signal
  BY <1>4 DEF Signal
<1>5. CASE Crash
  BY <1>5 DEF Crash, LoseRecord
<1>6. CASE ExecutorStep
  <2>1. CASE TakeRun
    BY <2>1 DEF TakeRun
  <2>2. CASE TakeCancelled
    BY <2>2 DEF TakeCancelled, Deliver, Told
  <2>3. CASE ReadSignal
    BY <2>3 DEF ReadSignal, LoseRecord
  <2>4. CASE HealthSet
    BY <2>4 DEF HealthSet
  <2>5. CASE StampRecord
    BY <2>5 DEF StampRecord, LoseRecord
  <2>6. CASE Answer
    BY <2>6 DEF Answer, Deliver, Err
  <2>7. CASE ExecutorExit
    BY <2>7 DEF ExecutorExit
  <2> QED
    BY <1>6, <2>1, <2>2, <2>3, <2>4, <2>5, <2>6, <2>7 DEF ExecutorStep
<1>7. CASE JobReturn
  BY <1>7, InHandWaits DEF JobReturn, Told
<1>8. CASE StartupTick
  BY <1>8 DEF StartupTick, Tick
<1>9. CASE IntervalTick
  BY <1>9 DEF IntervalTick, Tick
<1>10. CASE TickerExit
  BY <1>10 DEF TickerExit
<1>11. ASSUME NEW c \in Clients, HandlerStep(c) PROVE AnswerInv'
  <2>1. CASE HandlerSubmit(c)
    BY <2>1 DEF HandlerSubmit
  <2>2. CASE HandlerReject(c)
    BY <2>2, InHandWaits DEF HandlerReject, Told
  <2>3. CASE HandlerDrop(c)
    BY <2>3 DEF HandlerDrop
  <2>4. CASE HandlerReply(c)
    BY <2>4 DEF HandlerReply
  <2> QED
    BY <1>11, <2>1, <2>2, <2>3, <2>4 DEF HandlerStep
<1>12. ASSUME NEW c \in Clients, ClientNext(c) PROVE AnswerInv'
  <2>1. CASE Connect(c)
    BY <2>1, InHandWaits DEF Connect
  <2>2. CASE Unreachable(c)
    BY <2>2 DEF Unreachable
  <2>3. CASE Interrupt(c)
    BY <2>3 DEF Interrupt
  <2>4. CASE Again(c)
    BY <2>4 DEF Again
  <2> QED
    BY <1>12, <2>1, <2>2, <2>3, <2>4 DEF ClientNext
<1>13. CASE OnceReturn
  BY <1>13 DEF OnceReturn, StampInv
<1> QED
  BY <1>1, <1>2, <1>3, <1>4, <1>5, <1>6, <1>7, <1>8, <1>9, <1>10, <1>11, <1>12, <1>13
     DEF Next

IndInv ==
  /\ TypeOK /\ DrainInv /\ StampInv /\ OnceInv
  /\ StopInv /\ OwedInv /\ MarkerInv /\ AnswerInv

\* The inductive invariant: the types and the strengthenings, in every state.
LEMMA IndInvHolds == Spec => []IndInv
<1>1. Init => IndInv
  BY TypeInit
  DEF Init, IndInv, DrainInv, DrainStaysUnhealthy, StampInv, RecordTrue, OnItsWay,
      OnceInv, OnceVerdict, StopInv, Quiet, OwedInv, NoRepeat, In, Busy, Waits, MarkerInv,
      Honest, AnswerInv, ExitCodeHonest
<1>2. IndInv /\ [Next]_vars => IndInv'
  BY TypeNext, DrainNext, StampNext, OnceNext, StopNext, OwedNext, MarkerNext, AnswerNext
     DEF IndInv
<1> QED
  BY <1>1, <1>2, PTL DEF Spec

\* Every variable keeps its type, and the queue its bound, in every life.
THEOREM TypeCorrect == Spec => []TypeOK
  BY IndInvHolds, PTL DEF IndInv

\* From BeginDrain to the end of the process the marker is never healthy.
THEOREM DrainIsLatched == Spec => []DrainStaysUnhealthy
  BY IndInvHolds, PTL DEF IndInv, DrainInv

\* The /cache record never contradicts the last scheduled run it was told of.
THEOREM RecordIsTrue == Spec => []StampTellsLastScheduled
<1>1. IndInv => StampTellsLastScheduled
  <2> SUFFICES ASSUME IndInv PROVE StampTellsLastScheduled
    OBVIOUS
  <2> QED
    BY DEF IndInv, StampInv, OnItsWay, RecordTrue, StampTellsLastScheduled
<1> QED
  BY IndInvHolds, <1>1, PTL

(***************************************************************************)
(* A run-once process returns no error only over a clean job with a healthy*)
(* marker, and an error over a clean job only after a stop signal.         *)
(***************************************************************************)
THEOREM RunOnceAnswers == Spec => []OnceVerdict
  BY IndInvHolds, PTL DEF IndInv, OnceInv

\* An orderly stop leaves no request, no handler and no waiting client.
THEOREM StopIsClean == Spec => []CleanStop
<1>1. IndInv => CleanStop
  BY DEF IndInv, StopInv, Quiet, CleanStop
<1> QED
  BY IndInvHolds, <1>1, PTL

(***************************************************************************)
(* While the container serves, the marker tells the last completed run or, *)
(* before the first one, what the boot rule may conclude from the record.  *)
(***************************************************************************)
THEOREM MarkerIsHonest == Spec => []MarkerHonest
<1>1. IndInv => MarkerHonest
  BY DEF IndInv, MarkerInv, Honest, MarkerHonest
<1> QED
  BY IndInvHolds, <1>1, PTL

\* A client's exit code tells what became of its own request.
THEOREM ExitCodeIsHonest == Spec => []ExitCodeHonest
  BY IndInvHolds, PTL DEF IndInv, AnswerInv

\* A requester that is in the queue at most once is counted once or not at all.
LEMMA CountOnce ==
  ASSUME TypeOK, OwedInv, NEW r \in Requesters
  PROVE  Queued(r) = IF In(queue, r) THEN 1 ELSE 0
<1>1. DOMAIN queue = 1..Len(queue)
  BY DEF TypeOK
<1>2. CASE In(queue, r)
  <2>1. PICK i \in 1..Len(queue) : queue[i] = r
    BY <1>2 DEF In
  <2>2. {k \in DOMAIN queue : queue[k] = r} = {i}
    BY <1>1, <2>1 DEF OwedInv, NoRepeat
  <2> QED
    BY <1>2, <2>2, FS_Singleton DEF Queued
<1>3. CASE ~In(queue, r)
  <2>1. {k \in DOMAIN queue : queue[k] = r} = {}
    BY <1>1, <1>3 DEF In
  <2> QED
    BY <1>3, <2>1, FS_EmptySet DEF Queued
<1> QED
  BY <1>2, <1>3

(***************************************************************************)
(* A waiting handler or ticker has exactly one request in the queue or in  *)
(* hand, and anyone else has none.                                         *)
(***************************************************************************)
THEOREM WaitersAreOwedOne == Spec => []WaitersOwedOne
<1>1. IndInv => WaitersOwedOne
  <2> SUFFICES ASSUME IndInv PROVE WaitersOwedOne
    OBVIOUS
  <2>1. ASSUME NEW r \in Requesters
        PROVE  Queued(r) + InHand(r) = IF Waits(r) THEN 1 ELSE 0
    <3>1. Queued(r) = IF In(queue, r) THEN 1 ELSE 0
      BY CountOnce DEF IndInv
    <3>2. InHand(r) = IF Busy(r) THEN 1 ELSE 0
      BY DEF InHand, Busy
    <3> QED
      BY <3>1, <3>2 DEF IndInv, OwedInv
  <2> QED
    BY <2>1, TickerAssumption DEF WaitersOwedOne, Waits
<1> QED
  BY IndInvHolds, <1>1, PTL
=============================================================================
