------------------------- MODULE RecorderLoopProofs -------------------------
(* What the recorder loop promises for any number of reconnects.              *)
EXTENDS RecorderLoop, TLAPS

(* The groups of variables an action leaves alone are always expanded. *)
USE DEF loopVars, goroutines, ends

\* TypeOK without its flags, which no property here depends on; in the steps
\* that work on an attempt there is one.
LoopOK ==
    /\ loop \in {"waitReady", "open", "start", "publish", "watch", "select",
                 "lost", "sleep", "cancelled", "returned"}
    /\ attempt \in 0..MaxAttempts
    /\ stream \in [Attempts -> {"none", "open", "lost", "broken", "closed"}]
    /\ pump \in [Attempts -> {"none", "top", "read", "done"}]
    /\ watchdog \in [Attempts -> {"none", "watching", "stopping", "ended"}]
    /\ recStop \subseteq Attempts
    /\ lostDone \subseteq Attempts
    /\ slot \in 0..MaxAttempts
    /\ loop \in {"start", "publish", "watch", "select", "lost", "cancelled"}
          => attempt \in Attempts

FlagsOK ==
    /\ daemonUp \in BOOLEAN
    /\ ready \in BOOLEAN
    /\ verified \in BOOLEAN
    /\ ctxDone \in BOOLEAN

Closed(a) == stream[a] \in {"none", "closed"}

\* The inductive invariant: only the current attempt may have a running pump or
\* an open stream, and not even that one where the loop has given it up or has
\* not begun it; and the slot.
LoopInv ==
    /\ \A a \in Attempts : a # attempt => Closed(a) /\ ~Running(a)
    /\ loop \in {"waitReady", "open", "start", "lost", "sleep"} =>
          \A a \in Attempts : ~Running(a)
    /\ loop \in {"waitReady", "open", "lost", "sleep", "cancelled", "returned"} =>
          \A a \in Attempts : Closed(a)
    /\ slot \in {0, attempt}
    /\ loop \in {"waitReady", "open", "start", "publish", "sleep", "returned"} =>
          slot = 0

\* Flags stay flags.
LEMMA FlagsStep == FlagsOK /\ [Next]_vars => FlagsOK'
<1> SUFFICES ASSUME FlagsOK, [Next]_vars PROVE FlagsOK'
  OBVIOUS
<1> USE DEF FlagsOK, pulse
<1>1. CASE LoopStep
  <2>1. CASE WaitReady BY <2>1 DEF WaitReady
  <2>2. CASE OpenCancelled BY <2>2 DEF OpenCancelled
  <2>3. CASE Open BY <2>3 DEF Open
  <2>4. CASE Start BY <2>4 DEF Start
  <2>5. CASE Publish BY <2>5 DEF Publish
  <2>6. CASE Watch BY <2>6 DEF Watch
  <2>7. CASE PumpEnded BY <2>7 DEF PumpEnded
  <2>8. CASE Unpublish BY <2>8 DEF Unpublish
  <2>9. CASE Sleep BY <2>9 DEF Sleep
  <2>10. CASE Cancelled BY <2>10 DEF Cancelled
  <2> QED BY <1>1, <2>1, <2>2, <2>3, <2>4, <2>5, <2>6, <2>7, <2>8, <2>9, <2>10
             DEF LoopStep
<1>2. CASE \E a \in Attempts : Goroutine(a)
  <2>1. PICK a \in Attempts : Goroutine(a)
    BY <1>2
  <2>2. CASE PumpTop(a) BY <2>2 DEF PumpTop
  <2>3. CASE PumpRead(a) BY <2>3 DEF PumpRead
  <2>4. CASE WatchdogEnds(a) BY <2>4 DEF WatchdogEnds
  <2>5. CASE WatchdogTick(a) BY <2>5 DEF WatchdogTick
  <2>6. CASE WatchdogCloses(a) BY <2>6 DEF WatchdogCloses
  <2> QED BY <2>1, <2>2, <2>3, <2>4, <2>5, <2>6 DEF Goroutine
<1>3. CASE Environment
  <2>1. CASE DaemonServes BY <2>1 DEF DaemonServes, Daemon!Serve
  <2>2. CASE DaemonVerified BY <2>2 DEF DaemonVerified, Daemon!Verify
  <2>3. CASE BecomesReady BY <2>3 DEF BecomesReady, Daemon!Report
  <2>4. CASE DaemonDies BY <2>4 DEF DaemonDies, Daemon!Die
  <2>5. CASE LossNoticed BY <2>5 DEF LossNoticed, Daemon!Notice
  <2>6. CASE Cancel BY <2>6 DEF Cancel, Daemon!Stop
  <2> QED BY <1>3, <2>1, <2>2, <2>3, <2>4, <2>5, <2>6 DEF Environment
<1>4. CASE UNCHANGED vars
  BY <1>4 DEF vars
<1> QED BY <1>1, <1>2, <1>3, <1>4 DEF Next

\* Labels, attempts and the per-attempt states keep their types.
LEMMA LoopOKStep == LoopOK /\ [Next]_vars => LoopOK'
<1> SUFFICES ASSUME LoopOK, [Next]_vars PROVE LoopOK'
  OBVIOUS
<1> USE RecorderLoopAssumption DEF LoopOK, Attempts, pulse
<1>1. CASE LoopStep
  <2>1. CASE WaitReady BY <2>1 DEF WaitReady
  <2>2. CASE OpenCancelled BY <2>2 DEF OpenCancelled
  <2>3. CASE Open BY <2>3 DEF Open
  <2>4. CASE Start BY <2>4 DEF Start
  <2>5. CASE Publish BY <2>5 DEF Publish
  <2>6. CASE Watch BY <2>6 DEF Watch
  <2>7. CASE PumpEnded BY <2>7 DEF PumpEnded
  <2>8. CASE Unpublish BY <2>8 DEF Unpublish
  <2>9. CASE Sleep BY <2>9 DEF Sleep
  <2>10. CASE Cancelled BY <2>10 DEF Cancelled
  <2> QED BY <1>1, <2>1, <2>2, <2>3, <2>4, <2>5, <2>6, <2>7, <2>8, <2>9, <2>10
             DEF LoopStep
<1>2. CASE \E a \in Attempts : Goroutine(a)
  <2>1. PICK a \in Attempts : Goroutine(a)
    BY <1>2
  <2>2. CASE PumpTop(a) BY <2>2 DEF PumpTop
  <2>3. CASE PumpRead(a) BY <2>3 DEF PumpRead
  <2>4. CASE WatchdogEnds(a) BY <2>4 DEF WatchdogEnds
  <2>5. CASE WatchdogTick(a) BY <2>5 DEF WatchdogTick
  <2>6. CASE WatchdogCloses(a) BY <2>6 DEF WatchdogCloses
  <2> QED BY <2>1, <2>2, <2>3, <2>4, <2>5, <2>6 DEF Goroutine
<1>3. CASE Environment
  <2>1. CASE DaemonServes BY <2>1 DEF DaemonServes, Daemon!Serve
  <2>2. CASE DaemonVerified BY <2>2 DEF DaemonVerified, Daemon!Verify
  <2>3. CASE BecomesReady BY <2>3 DEF BecomesReady, Daemon!Report
  <2>4. CASE DaemonDies BY <2>4 DEF DaemonDies, Daemon!Die
  <2>5. CASE LossNoticed BY <2>5 DEF LossNoticed, Daemon!Notice
  <2>6. CASE Cancel BY <2>6 DEF Cancel, Daemon!Stop
  <2> QED BY <1>3, <2>1, <2>2, <2>3, <2>4, <2>5, <2>6 DEF Environment
<1>4. CASE UNCHANGED vars
  BY <1>4 DEF vars
<1> QED BY <1>1, <1>2, <1>3, <1>4 DEF Next

\* Both halves hold in every reachable state.
LEMMA TypesAlways == Spec => [](LoopOK /\ FlagsOK)
<1>1. Init => LoopOK
  BY RecorderLoopAssumption DEF Init, LoopOK, Attempts
<1>2. Init => FlagsOK
  BY DEF Init, FlagsOK, Daemon!Init
<1> QED BY <1>1, <1>2, FlagsStep, LoopOKStep, PTL DEF Spec

\* Type correctness of the recorder loop's state (every action).
THEOREM TypeCorrect == Spec => []TypeOK
<1>1. LoopOK /\ FlagsOK => TypeOK
  BY DEF LoopOK, FlagsOK, TypeOK
<1> QED BY <1>1, TypesAlways, PTL

\* The invariant holds initially.
LEMMA LoopInit == Init => LoopInv
BY RecorderLoopAssumption DEF Init, LoopInv, Closed, Running, Attempts

\* Every step keeps the invariant.
LEMMA LoopInvStep == LoopOK /\ LoopInv /\ [Next]_vars => LoopInv'
<1> SUFFICES ASSUME LoopOK, LoopInv, [Next]_vars PROVE LoopInv'
  OBVIOUS
<1> USE RecorderLoopAssumption
        DEF LoopOK, LoopInv, Closed, Running, Attempts, pulse
<1>1. CASE LoopStep
  <2>1. CASE WaitReady BY <2>1 DEF WaitReady
  <2>2. CASE OpenCancelled BY <2>2 DEF OpenCancelled
  <2>3. CASE Open BY <2>3 DEF Open
  <2>4. CASE Start BY <2>4 DEF Start
  <2>5. CASE Publish BY <2>5 DEF Publish
  <2>6. CASE Watch BY <2>6 DEF Watch
  <2>7. CASE PumpEnded BY <2>7 DEF PumpEnded
  <2>8. CASE Unpublish BY <2>8 DEF Unpublish
  <2>9. CASE Sleep BY <2>9 DEF Sleep
  <2>10. CASE Cancelled BY <2>10 DEF Cancelled
  <2> QED BY <1>1, <2>1, <2>2, <2>3, <2>4, <2>5, <2>6, <2>7, <2>8, <2>9, <2>10
             DEF LoopStep
<1>2. CASE \E a \in Attempts : Goroutine(a)
  <2>1. PICK a \in Attempts : Goroutine(a)
    BY <1>2
  <2>2. CASE PumpTop(a) BY <2>2 DEF PumpTop
  <2>3. CASE PumpRead(a) BY <2>3 DEF PumpRead
  <2>4. CASE WatchdogEnds(a) BY <2>4 DEF WatchdogEnds
  <2>5. CASE WatchdogTick(a) BY <2>5 DEF WatchdogTick
  <2>6. CASE WatchdogCloses(a) BY <2>6 DEF WatchdogCloses
  <2> QED BY <2>1, <2>2, <2>3, <2>4, <2>5, <2>6 DEF Goroutine
<1>3. CASE Environment
  <2>1. CASE DaemonServes BY <2>1 DEF DaemonServes, Daemon!Serve
  <2>2. CASE DaemonVerified BY <2>2 DEF DaemonVerified, Daemon!Verify
  <2>3. CASE BecomesReady BY <2>3 DEF BecomesReady, Daemon!Report
  <2>4. CASE DaemonDies BY <2>4 DEF DaemonDies, Daemon!Die
  <2>5. CASE LossNoticed BY <2>5 DEF LossNoticed, Daemon!Notice
  <2>6. CASE Cancel BY <2>6 DEF Cancel, Daemon!Stop
  <2> QED BY <1>3, <2>1, <2>2, <2>3, <2>4, <2>5, <2>6 DEF Environment
<1>4. CASE UNCHANGED vars
  BY <1>4 DEF vars
<1> QED BY <1>1, <1>2, <1>3, <1>4 DEF Next

\* LoopInv holds in every reachable state, however many streams are opened.
THEOREM LoopInvAlways == Spec => []LoopInv
BY LoopInit, LoopInvStep, TypesAlways, PTL DEF Spec

\* At most one pump runs (runRecorder waits for rec.Done before it reconnects).
THEOREM OnePumpAlways == Spec => []OnePump
<1>1. LoopInv => OnePump
  BY DEF LoopInv, OnePump
<1> QED BY <1>1, LoopInvAlways, PTL

\* The slot is nil or the current attempt, and nil between attempts (slot.set).
THEOREM SlotIsCurrentAlways == Spec => []SlotIsCurrent
<1>1. LoopInv => SlotIsCurrent
  BY DEF LoopInv, SlotIsCurrent
<1> QED BY <1>1, LoopInvAlways, PTL

\* No stream stays open once the loop has given it up (stream.Close on every way
\* out of the select).
THEOREM StreamsClosedAlways == Spec => []StreamsClosed
<1>1. LoopInv => StreamsClosed
  BY DEF LoopInv, Closed, StreamsClosed
<1> QED BY <1>1, LoopInvAlways, PTL

-----------------------------------------------------------------------------
(* The pump is never left alone with a silent stream.                         *)

\* A watchdog that was told of the loss has nothing left to guard: lostDone is
\* closed only behind a pump that has ended, for an attempt that was made.
LostInv ==
    /\ \A a \in lostDone : Closed(a) /\ a <= attempt
    /\ loop = "cancelled" => ctxDone

\* Every step keeps LostInv.
LEMMA LostStep == LoopOK /\ LoopInv /\ LostInv /\ [Next]_vars => LostInv'
<1> SUFFICES ASSUME LoopOK, LoopInv, LostInv, [Next]_vars PROVE LostInv'
  OBVIOUS
<1> USE RecorderLoopAssumption
        DEF LoopOK, LoopInv, LostInv, Closed, Running, Attempts, pulse
<1>1. CASE LoopStep
  <2>1. CASE WaitReady BY <2>1 DEF WaitReady
  <2>2. CASE OpenCancelled BY <2>2 DEF OpenCancelled
  <2>3. CASE Open BY <2>3 DEF Open
  <2>4. CASE Start BY <2>4 DEF Start
  <2>5. CASE Publish BY <2>5 DEF Publish
  <2>6. CASE Watch BY <2>6 DEF Watch
  <2>7. CASE PumpEnded BY <2>7 DEF PumpEnded
  <2>8. CASE Unpublish BY <2>8 DEF Unpublish
  <2>9. CASE Sleep BY <2>9 DEF Sleep
  <2>10. CASE Cancelled BY <2>10 DEF Cancelled
  <2> QED BY <1>1, <2>1, <2>2, <2>3, <2>4, <2>5, <2>6, <2>7, <2>8, <2>9, <2>10
             DEF LoopStep
<1>2. CASE \E a \in Attempts : Goroutine(a)
  <2>1. PICK a \in Attempts : Goroutine(a)
    BY <1>2
  <2>2. CASE PumpTop(a) BY <2>2 DEF PumpTop
  <2>3. CASE PumpRead(a) BY <2>3 DEF PumpRead
  <2>4. CASE WatchdogEnds(a) BY <2>4 DEF WatchdogEnds
  <2>5. CASE WatchdogTick(a) BY <2>5 DEF WatchdogTick
  <2>6. CASE WatchdogCloses(a) BY <2>6 DEF WatchdogCloses
  <2> QED BY <2>1, <2>2, <2>3, <2>4, <2>5, <2>6 DEF Goroutine
<1>3. CASE Environment
  <2>1. CASE DaemonServes BY <2>1 DEF DaemonServes, Daemon!Serve
  <2>2. CASE DaemonVerified BY <2>2 DEF DaemonVerified, Daemon!Verify
  <2>3. CASE BecomesReady BY <2>3 DEF BecomesReady, Daemon!Report
  <2>4. CASE DaemonDies BY <2>4 DEF DaemonDies, Daemon!Die
  <2>5. CASE LossNoticed BY <2>5 DEF LossNoticed, Daemon!Notice
  <2>6. CASE Cancel BY <2>6 DEF Cancel, Daemon!Stop
  <2> QED BY <1>3, <2>1, <2>2, <2>3, <2>4, <2>5, <2>6 DEF Environment
<1>4. CASE UNCHANGED vars
  BY <1>4 DEF vars
<1> QED BY <1>1, <1>2, <1>3, <1>4 DEF Next

\* Every step keeps the guard on the pump.
LEMMA WatchedStep ==
    LoopOK /\ LoopInv /\ LostInv /\ BlockedIsWatched /\ [Next]_vars => BlockedIsWatched'
<1> SUFFICES ASSUME LoopOK, LoopInv, LostInv, BlockedIsWatched, [Next]_vars
             PROVE  BlockedIsWatched'
  OBVIOUS
<1> USE RecorderLoopAssumption
        DEF LoopOK, LoopInv, LostInv, BlockedIsWatched, Closed, Running, Attempts, pulse
<1>1. CASE LoopStep
  <2>1. CASE WaitReady BY <2>1 DEF WaitReady
  <2>2. CASE OpenCancelled BY <2>2 DEF OpenCancelled
  <2>3. CASE Open BY <2>3 DEF Open
  <2>4. CASE Start BY <2>4 DEF Start
  <2>5. CASE Publish BY <2>5 DEF Publish
  <2>6. CASE Watch BY <2>6 DEF Watch
  <2>7. CASE PumpEnded BY <2>7 DEF PumpEnded
  <2>8. CASE Unpublish BY <2>8 DEF Unpublish
  <2>9. CASE Sleep BY <2>9 DEF Sleep
  <2>10. CASE Cancelled BY <2>10 DEF Cancelled
  <2> QED BY <1>1, <2>1, <2>2, <2>3, <2>4, <2>5, <2>6, <2>7, <2>8, <2>9, <2>10
             DEF LoopStep
<1>2. CASE \E a \in Attempts : Goroutine(a)
  <2>1. PICK a \in Attempts : Goroutine(a)
    BY <1>2
  <2>2. CASE PumpTop(a) BY <2>2 DEF PumpTop
  <2>3. CASE PumpRead(a) BY <2>3 DEF PumpRead
  <2>4. CASE WatchdogEnds(a) BY <2>4 DEF WatchdogEnds
  <2>5. CASE WatchdogTick(a) BY <2>5 DEF WatchdogTick
  <2>6. CASE WatchdogCloses(a) BY <2>6 DEF WatchdogCloses
  <2> QED BY <2>1, <2>2, <2>3, <2>4, <2>5, <2>6 DEF Goroutine
<1>3. CASE Environment
  <2>1. CASE DaemonServes BY <2>1 DEF DaemonServes, Daemon!Serve
  <2>2. CASE DaemonVerified BY <2>2 DEF DaemonVerified, Daemon!Verify
  <2>3. CASE BecomesReady BY <2>3 DEF BecomesReady, Daemon!Report
  <2>4. CASE DaemonDies BY <2>4 DEF DaemonDies, Daemon!Die
  <2>5. CASE LossNoticed BY <2>5 DEF LossNoticed, Daemon!Notice
  <2>6. CASE Cancel BY <2>6 DEF Cancel, Daemon!Stop
  <2> QED BY <1>3, <2>1, <2>2, <2>3, <2>4, <2>5, <2>6 DEF Environment
<1>4. CASE UNCHANGED vars
  BY <1>4 DEF vars
<1> QED BY <1>1, <1>2, <1>3, <1>4 DEF Next

\* LoopInv and LostInv hold in every reachable state.
LEMMA LostAlways == Spec => [](LoopOK /\ LoopInv /\ LostInv)
<1>1. Init => LostInv
  BY DEF Init, LostInv
<1> QED BY <1>1, LostStep, LoopInvAlways, TypesAlways, PTL DEF Spec

\* A running pump on a stream that may fall silent always has somebody who will
\* close the stream (the watchdog and the select of runRecorder).
THEOREM BlockedIsWatchedAlways == Spec => []BlockedIsWatched
<1>1. Init => BlockedIsWatched
  BY DEF Init, BlockedIsWatched, Running
<1> QED BY <1>1, WatchedStep, LostAlways, PTL DEF Spec

-----------------------------------------------------------------------------
(* RecorderLoop implements AudioSource.  A step is the interface's Start,     *)
(* Publish, PumpEnds, Unpublish or Stop, or no consumer can see it.           *)

\* Every step is a step of AudioSource or leaves its five variables alone.
LEMMA SourceStep ==
    LoopOK /\ LoopInv /\ LostInv /\ [Next]_vars => [Source!Next]_(Source!sourceVars)
<1> SUFFICES ASSUME LoopOK, LoopInv, LostInv, [Next]_vars
             PROVE  Source!Next \/ UNCHANGED Source!sourceVars
  OBVIOUS
<1> USE RecorderLoopAssumption
        DEF LoopOK, LoopInv, LostInv, Running, Attempts, pulse, Source!sourceVars,
        Source!Next, Source!Start, Source!Publish, Source!PumpEnds,
        Source!Unpublish, Source!Stop
<1>1. CASE LoopStep
  <2>1. CASE WaitReady BY <2>1 DEF WaitReady
  <2>2. CASE OpenCancelled BY <2>2 DEF OpenCancelled
  <2>3. CASE Open BY <2>3 DEF Open
  <2>4. CASE Start BY <2>4 DEF Start
  <2>5. CASE Publish BY <2>5 DEF Publish
  <2>6. CASE Watch BY <2>6 DEF Watch
  <2>7. CASE PumpEnded BY <2>7 DEF PumpEnded
  <2>8. CASE Unpublish BY <2>8 DEF Unpublish
  <2>9. CASE Sleep BY <2>9 DEF Sleep
  <2>10. CASE Cancelled BY <2>10 DEF Cancelled
  <2> QED BY <1>1, <2>1, <2>2, <2>3, <2>4, <2>5, <2>6, <2>7, <2>8, <2>9, <2>10
             DEF LoopStep
<1>2. CASE \E a \in Attempts : Goroutine(a)
  <2>1. PICK a \in Attempts : Goroutine(a)
    BY <1>2
  <2>2. CASE PumpTop(a) BY <2>2 DEF PumpTop
  <2>3. CASE PumpRead(a) BY <2>3 DEF PumpRead
  <2>4. CASE WatchdogEnds(a) BY <2>4 DEF WatchdogEnds
  <2>5. CASE WatchdogTick(a) BY <2>5 DEF WatchdogTick
  <2>6. CASE WatchdogCloses(a) BY <2>6 DEF WatchdogCloses
  <2> QED BY <2>1, <2>2, <2>3, <2>4, <2>5, <2>6 DEF Goroutine
<1>3. CASE Environment
  <2>1. CASE DaemonServes BY <2>1 DEF DaemonServes, Daemon!Serve
  <2>2. CASE DaemonVerified BY <2>2 DEF DaemonVerified, Daemon!Verify
  <2>3. CASE BecomesReady BY <2>3 DEF BecomesReady, Daemon!Report
  <2>4. CASE DaemonDies BY <2>4 DEF DaemonDies, Daemon!Die
  <2>5. CASE LossNoticed BY <2>5 DEF LossNoticed, Daemon!Notice
  <2>6. CASE Cancel BY <2>6 DEF Cancel, Daemon!Stop
  <2> QED BY <1>3, <2>1, <2>2, <2>3, <2>4, <2>5, <2>6 DEF Environment
<1>4. CASE UNCHANGED vars
  BY <1>4 DEF vars
<1> QED BY <1>1, <1>2, <1>3, <1>4 DEF Next

\* runRecorder implements the interface that the HTTP server's source callback
\* relies on, however many streams break, fall silent or are closed.
THEOREM SourceImplemented == Spec => ImplementsAudioSource
<1>1. Init => Source!Init
  BY RecorderLoopAssumption DEF Init, Daemon!Init, Source!Init, Attempts
<1> QED BY <1>1, SourceStep, LostAlways, PTL DEF Spec, ImplementsAudioSource, Source!Spec
=============================================================================
