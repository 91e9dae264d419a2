-------------------------- MODULE PulseDaemonProofs --------------------------
(* What PulseDaemon promises for any number of bring-ups.                     *)
EXTENDS PulseDaemon, TLAPS

\* The two halves of TypeOK: flags, and labels and the attempt counter.
FlagsOK ==
    /\ ready \in BOOLEAN
    /\ stopping \in BOOLEAN
    /\ socket \in BOOLEAN
    /\ pidFile \in BOOLEAN
    /\ ctxDone \in BOOLEAN

LabelsOK ==
    /\ run \in RunLabels
    /\ stop \in StopLabels
    /\ attempt \in 0..MaxAttempts
    /\ health \in {"unset", "ok", "pulseaudio_not_ready"}
    /\ launcher \in {"none", "running", "forked", "ok", "failed"}
    /\ daemon \in {"none", "booting", "up", "exiting"}

\* The inductive invariant.  On readiness: what Run's labels say of ready until
\* Stop interferes.  On the daemon: one that lives has its PID file, so that the
\* probe sees it; only a bring-up that still waits for its socket has a launcher
\* that may fork; and from the probe that found the daemon gone to the next
\* spawn there is none.
PulseInv ==
    /\ stop # "idle" => stopping
    /\ NotReadyWhileRestarting
    /\ run = "unhealthy" => ~ready
    /\ run = "healthy" /\ ~stopping => ready
    /\ HealthTracksReady
    /\ daemon # "none" => pidFile
    /\ launcher = "running" => run = "waitSocket" /\ ~socket /\ daemon = "none"
    /\ run \in {"down", "backoff", "check", "clean", "spawn"} => daemon = "none"
    /\ run = "spawn" => ~socket

\* Flags stay flags.
LEMMA FlagsStep == FlagsOK /\ [Next]_vars => FlagsOK'
<1> SUFFICES ASSUME FlagsOK, [Next]_vars PROVE FlagsOK'
  OBVIOUS
<1> USE DEF FlagsOK, external, RunTo, StopTo, PactlExitOk, PactlExitFails
<1>1. CASE RunStep
  <2>1. CASE Check BY <2>1 DEF Check
  <2>2. CASE Clean BY <2>2 DEF Clean
  <2>3. CASE Spawn BY <2>3 DEF Spawn
  <2>4. CASE SocketFound BY <2>4 DEF SocketFound
  <2>5. CASE DaemonizeFailed BY <2>5 DEF DaemonizeFailed
  <2>6. CASE SocketTimeout BY <2>6 DEF SocketTimeout
  <2>7. CASE SinkReady BY <2>7 DEF SinkReady
  <2>8. CASE SetDefault BY <2>8 DEF SetDefault
  <2>9. CASE Shutdown BY <2>9 DEF Shutdown
  <2>10. CASE Failed BY <2>10 DEF Failed
  <2>11. CASE Unhealthy BY <2>11 DEF Unhealthy
  <2>12. CASE Started BY <2>12 DEF Started
  <2>13. CASE Healthy BY <2>13 DEF Healthy
  <2>14. CASE Probe BY <2>14 DEF Probe
  <2>15. CASE Down BY <2>15 DEF Down
  <2>16. CASE Backoff BY <2>16 DEF Backoff
  <2> QED BY <1>1, <2>1, <2>2, <2>3, <2>4, <2>5, <2>6, <2>7, <2>8, <2>9,
             <2>10, <2>11, <2>12, <2>13, <2>14, <2>15, <2>16 DEF RunStep
<1>2. CASE StopStep
  <2>1. CASE StopCall BY <2>1 DEF StopCall
  <2>2. CASE StopNotReady BY <2>2 DEF StopNotReady
  <2>3. CASE StopExit BY <2>3 DEF StopExit
  <2>4. CASE StopGone BY <2>4 DEF StopGone
  <2>5. CASE StopKill BY <2>5 DEF StopKill
  <2>6. CASE StopKilled BY <2>6 DEF StopKilled
  <2> QED BY <1>2, <2>1, <2>2, <2>3, <2>4, <2>5, <2>6 DEF StopStep
<1>3. CASE Environment
  <2>1. CASE Fork BY <2>1 DEF Fork
  <2>2. CASE Serve BY <2>2 DEF Serve
  <2>3. CASE LauncherFails BY <2>3 DEF LauncherFails
  <2>4. CASE Crash BY <2>4 DEF Crash
  <2>5. CASE Exits BY <2>5 DEF Exits
  <2>6. CASE Cancel BY <2>6 DEF Cancel
  <2> QED BY <1>3, <2>1, <2>2, <2>3, <2>4, <2>5, <2>6 DEF Environment
<1>4. CASE UNCHANGED vars
  BY <1>4 DEF vars
<1> QED BY <1>1, <1>2, <1>3, <1>4 DEF Next

\* Labels stay labels, and attempts stay within their bound.
LEMMA LabelsStep == LabelsOK /\ [Next]_vars => LabelsOK'
<1> SUFFICES ASSUME LabelsOK, [Next]_vars PROVE LabelsOK'
  OBVIOUS
<1> USE PulseAssumption DEF LabelsOK, RunLabels, StopLabels, Starting, external,
        RunTo, StopTo, PactlExitOk, PactlExitFails
<1>1. CASE RunStep
  <2>1. CASE Check BY <2>1 DEF Check
  <2>2. CASE Clean BY <2>2 DEF Clean
  <2>3. CASE Spawn BY <2>3 DEF Spawn
  <2>4. CASE SocketFound BY <2>4 DEF SocketFound
  <2>5. CASE DaemonizeFailed BY <2>5 DEF DaemonizeFailed
  <2>6. CASE SocketTimeout BY <2>6 DEF SocketTimeout
  <2>7. CASE SinkReady BY <2>7 DEF SinkReady
  <2>8. CASE SetDefault BY <2>8 DEF SetDefault
  <2>9. CASE Shutdown BY <2>9 DEF Shutdown
  <2>10. CASE Failed BY <2>10 DEF Failed
  <2>11. CASE Unhealthy BY <2>11 DEF Unhealthy
  <2>12. CASE Started BY <2>12 DEF Started
  <2>13. CASE Healthy BY <2>13 DEF Healthy
  <2>14. CASE Probe BY <2>14 DEF Probe
  <2>15. CASE Down BY <2>15 DEF Down
  <2>16. CASE Backoff BY <2>16 DEF Backoff
  <2> QED BY <1>1, <2>1, <2>2, <2>3, <2>4, <2>5, <2>6, <2>7, <2>8, <2>9,
             <2>10, <2>11, <2>12, <2>13, <2>14, <2>15, <2>16 DEF RunStep
<1>2. CASE StopStep
  <2>1. CASE StopCall BY <2>1 DEF StopCall
  <2>2. CASE StopNotReady BY <2>2 DEF StopNotReady
  <2>3. CASE StopExit BY <2>3 DEF StopExit
  <2>4. CASE StopGone BY <2>4 DEF StopGone
  <2>5. CASE StopKill BY <2>5 DEF StopKill
  <2>6. CASE StopKilled BY <2>6 DEF StopKilled
  <2> QED BY <1>2, <2>1, <2>2, <2>3, <2>4, <2>5, <2>6 DEF StopStep
<1>3. CASE Environment
  <2>1. CASE Fork BY <2>1 DEF Fork
  <2>2. CASE Serve BY <2>2 DEF Serve
  <2>3. CASE LauncherFails BY <2>3 DEF LauncherFails
  <2>4. CASE Crash BY <2>4 DEF Crash
  <2>5. CASE Exits BY <2>5 DEF Exits
  <2>6. CASE Cancel BY <2>6 DEF Cancel
  <2> QED BY <1>3, <2>1, <2>2, <2>3, <2>4, <2>5, <2>6 DEF Environment
<1>4. CASE UNCHANGED vars
  BY <1>4 DEF vars
<1> QED BY <1>1, <1>2, <1>3, <1>4 DEF Next

\* Type correctness of the daemon supervision's state (every action).
THEOREM TypeCorrect == Spec => []TypeOK
<1>1. Init => FlagsOK
  BY DEF Init, FlagsOK
<1>2. Init => LabelsOK
  BY PulseAssumption DEF Init, LabelsOK, RunLabels, StopLabels
<1>3. FlagsOK /\ LabelsOK => TypeOK
  BY DEF FlagsOK, LabelsOK, TypeOK
<1> QED BY <1>1, <1>2, <1>3, FlagsStep, LabelsStep, PTL DEF Spec

\* The invariant holds initially.
LEMMA PulseInit == Init => PulseInv
BY DEF Init, PulseInv, NotReadyWhileRestarting, HealthTracksReady, Starting

\* Every step keeps the invariant.
LEMMA PulseStep == PulseInv /\ [Next]_vars => PulseInv'
<1> SUFFICES ASSUME PulseInv, [Next]_vars PROVE PulseInv'
  OBVIOUS
<1> USE DEF PulseInv, NotReadyWhileRestarting, HealthTracksReady, Starting, Alive,
        external, RunTo, StopTo, PactlExitOk, PactlExitFails
<1>1. CASE RunStep
  <2>1. CASE Check BY <2>1 DEF Check
  <2>2. CASE Clean BY <2>2 DEF Clean
  <2>3. CASE Spawn BY <2>3 DEF Spawn
  <2>4. CASE SocketFound BY <2>4 DEF SocketFound
  <2>5. CASE DaemonizeFailed BY <2>5 DEF DaemonizeFailed
  <2>6. CASE SocketTimeout BY <2>6 DEF SocketTimeout
  <2>7. CASE SinkReady BY <2>7 DEF SinkReady
  <2>8. CASE SetDefault BY <2>8 DEF SetDefault
  <2>9. CASE Shutdown BY <2>9 DEF Shutdown
  <2>10. CASE Failed BY <2>10 DEF Failed
  <2>11. CASE Unhealthy BY <2>11 DEF Unhealthy
  <2>12. CASE Started BY <2>12 DEF Started
  <2>13. CASE Healthy BY <2>13 DEF Healthy
  <2>14. CASE Probe BY <2>14 DEF Probe
  <2>15. CASE Down BY <2>15 DEF Down
  <2>16. CASE Backoff BY <2>16 DEF Backoff
  <2> QED BY <1>1, <2>1, <2>2, <2>3, <2>4, <2>5, <2>6, <2>7, <2>8, <2>9,
             <2>10, <2>11, <2>12, <2>13, <2>14, <2>15, <2>16 DEF RunStep
<1>2. CASE StopStep
  <2>1. CASE StopCall BY <2>1 DEF StopCall
  <2>2. CASE StopNotReady BY <2>2 DEF StopNotReady
  <2>3. CASE StopExit BY <2>3 DEF StopExit
  <2>4. CASE StopGone BY <2>4 DEF StopGone
  <2>5. CASE StopKill BY <2>5 DEF StopKill
  <2>6. CASE StopKilled BY <2>6 DEF StopKilled
  <2> QED BY <1>2, <2>1, <2>2, <2>3, <2>4, <2>5, <2>6 DEF StopStep
<1>3. CASE Environment
  <2>1. CASE Fork BY <2>1 DEF Fork
  <2>2. CASE Serve BY <2>2 DEF Serve
  <2>3. CASE LauncherFails BY <2>3 DEF LauncherFails
  <2>4. CASE Crash BY <2>4 DEF Crash
  <2>5. CASE Exits BY <2>5 DEF Exits
  <2>6. CASE Cancel BY <2>6 DEF Cancel
  <2> QED BY <1>3, <2>1, <2>2, <2>3, <2>4, <2>5, <2>6 DEF Environment
<1>4. CASE UNCHANGED vars
  BY <1>4 DEF vars
<1> QED BY <1>1, <1>2, <1>3, <1>4 DEF Next

\* PulseInv holds in every reachable state, however often the daemon fails.
THEOREM PulseInvAlways == Spec => []PulseInv
BY PulseInit, PulseStep, PTL DEF Spec

\* Ready is false from the handling of a loss to the verified sink (Run).
THEOREM NotReadyWhileRestartingAlways == Spec => []NotReadyWhileRestarting
<1>1. PulseInv => NotReadyWhileRestarting
  BY DEF PulseInv
<1> QED BY <1>1, PulseInvAlways, PTL

\* While Run probes and nobody stops it, health and readiness agree (Run).
THEOREM HealthTracksReadyAlways == Spec => []HealthTracksReady
<1>1. PulseInv => HealthTracksReady
  BY DEF PulseInv
<1> QED BY <1>1, PulseInvAlways, PTL

\* No launcher is spawned beside a living daemon (Run, startDaemon).
THEOREM OneDaemonAlways == Spec => OneDaemon
<1>1. PulseInv => [run = "spawn" /\ launcher' = "running" => daemon = "none"]_vars
  BY DEF PulseInv
<1> QED BY <1>1, PulseInvAlways, PTL DEF OneDaemon

-----------------------------------------------------------------------------
(* PulseDaemon implements AudioDaemon.  A step is the interface's Serve,      *)
(* Verify, Report, Die, Notice or Stop, or it is invisible through Ready.     *)

\* What the mapping needs besides PulseInv: a daemon that still boots is not yet
\* seen by anyone, its launcher lives no longer than that, and Stop runs only
\* after the cancellation.
BootInv ==
    /\ run = "failed" => ~ready
    /\ daemon = "booting" =>
          ~socket /\ ~ready /\ run \in {"waitSocket", "failed", "unhealthy", "probe", "returned"}
    /\ launcher \in {"running", "forked"} => daemon \in {"none", "booting"}
    /\ stop # "idle" => ctxDone

\* Every step keeps BootInv.
LEMMA BootStep == FlagsOK /\ PulseInv /\ BootInv /\ [Next]_vars => BootInv'
<1> SUFFICES ASSUME FlagsOK, PulseInv, BootInv, [Next]_vars PROVE BootInv'
  OBVIOUS
<1> USE DEF FlagsOK, PulseInv, BootInv, NotReadyWhileRestarting, Starting, Alive,
        external, RunTo, StopTo, PactlExitOk, PactlExitFails
<1>1. CASE RunStep
  <2>1. CASE Check BY <2>1 DEF Check
  <2>2. CASE Clean BY <2>2 DEF Clean
  <2>3. CASE Spawn BY <2>3 DEF Spawn
  <2>4. CASE SocketFound BY <2>4 DEF SocketFound
  <2>5. CASE DaemonizeFailed BY <2>5 DEF DaemonizeFailed
  <2>6. CASE SocketTimeout BY <2>6 DEF SocketTimeout
  <2>7. CASE SinkReady BY <2>7 DEF SinkReady
  <2>8. CASE SetDefault BY <2>8 DEF SetDefault
  <2>9. CASE Shutdown BY <2>9 DEF Shutdown
  <2>10. CASE Failed BY <2>10 DEF Failed
  <2>11. CASE Unhealthy BY <2>11 DEF Unhealthy
  <2>12. CASE Started BY <2>12 DEF Started
  <2>13. CASE Healthy BY <2>13 DEF Healthy
  <2>14. CASE Probe BY <2>14 DEF Probe
  <2>15. CASE Down BY <2>15 DEF Down
  <2>16. CASE Backoff BY <2>16 DEF Backoff
  <2> QED BY <1>1, <2>1, <2>2, <2>3, <2>4, <2>5, <2>6, <2>7, <2>8, <2>9,
             <2>10, <2>11, <2>12, <2>13, <2>14, <2>15, <2>16 DEF RunStep
<1>2. CASE StopStep
  <2>1. CASE StopCall BY <2>1 DEF StopCall
  <2>2. CASE StopNotReady BY <2>2 DEF StopNotReady
  <2>3. CASE StopExit BY <2>3 DEF StopExit
  <2>4. CASE StopGone BY <2>4 DEF StopGone
  <2>5. CASE StopKill BY <2>5 DEF StopKill
  <2>6. CASE StopKilled BY <2>6 DEF StopKilled
  <2> QED BY <1>2, <2>1, <2>2, <2>3, <2>4, <2>5, <2>6 DEF StopStep
<1>3. CASE Environment
  <2>1. CASE Fork BY <2>1 DEF Fork
  <2>2. CASE Serve BY <2>2 DEF Serve
  <2>3. CASE LauncherFails BY <2>3 DEF LauncherFails
  <2>4. CASE Crash BY <2>4 DEF Crash
  <2>5. CASE Exits BY <2>5 DEF Exits
  <2>6. CASE Cancel BY <2>6 DEF Cancel
  <2> QED BY <1>3, <2>1, <2>2, <2>3, <2>4, <2>5, <2>6 DEF Environment
<1>4. CASE UNCHANGED vars
  BY <1>4 DEF vars
<1> QED BY <1>1, <1>2, <1>3, <1>4 DEF Next

\* What the mapping uses holds in every reachable state.
LEMMA MappedAlways == Spec => [](FlagsOK /\ PulseInv /\ BootInv)
<1>1. Init => FlagsOK
  BY DEF Init, FlagsOK
<1>2. Init => BootInv
  BY DEF Init, BootInv
<1> QED BY <1>1, <1>2, FlagsStep, PulseInit, PulseStep, BootStep, PTL DEF Spec

\* Every step is a step of AudioDaemon or leaves its four variables alone.
LEMMA DaemonStep ==
    FlagsOK /\ PulseInv /\ BootInv /\ [Next]_vars => [Daemon!Next]_(Daemon!daemonVars)
<1> SUFFICES ASSUME FlagsOK, PulseInv, BootInv, [Next]_vars
             PROVE  Daemon!Next \/ UNCHANGED Daemon!daemonVars
  OBVIOUS
<1> USE DEF FlagsOK, PulseInv, BootInv, NotReadyWhileRestarting, Starting, Alive,
        external, RunTo, StopTo, PactlExitOk, PactlExitFails, Daemon!daemonVars,
        Daemon!Next, Daemon!Serve, Daemon!Verify, Daemon!Report, Daemon!Die,
        Daemon!Notice, Daemon!Stop
<1>1. CASE RunStep
  <2>1. CASE Check BY <2>1 DEF Check
  <2>2. CASE Clean BY <2>2 DEF Clean
  <2>3. CASE Spawn BY <2>3 DEF Spawn
  <2>4. CASE SocketFound BY <2>4 DEF SocketFound
  <2>5. CASE DaemonizeFailed BY <2>5 DEF DaemonizeFailed
  <2>6. CASE SocketTimeout BY <2>6 DEF SocketTimeout
  <2>7. CASE SinkReady BY <2>7 DEF SinkReady
  <2>8. CASE SetDefault BY <2>8 DEF SetDefault
  <2>9. CASE Shutdown BY <2>9 DEF Shutdown
  <2>10. CASE Failed BY <2>10 DEF Failed
  <2>11. CASE Unhealthy BY <2>11 DEF Unhealthy
  <2>12. CASE Started BY <2>12 DEF Started
  <2>13. CASE Healthy BY <2>13 DEF Healthy
  <2>14. CASE Probe BY <2>14 DEF Probe
  <2>15. CASE Down BY <2>15 DEF Down
  <2>16. CASE Backoff BY <2>16 DEF Backoff
  <2> QED BY <1>1, <2>1, <2>2, <2>3, <2>4, <2>5, <2>6, <2>7, <2>8, <2>9,
             <2>10, <2>11, <2>12, <2>13, <2>14, <2>15, <2>16 DEF RunStep
<1>2. CASE StopStep
  <2>1. CASE StopCall BY <2>1 DEF StopCall
  <2>2. CASE StopNotReady BY <2>2 DEF StopNotReady
  <2>3. CASE StopExit BY <2>3 DEF StopExit
  <2>4. CASE StopGone BY <2>4 DEF StopGone
  <2>5. CASE StopKill BY <2>5 DEF StopKill
  <2>6. CASE StopKilled BY <2>6 DEF StopKilled
  <2> QED BY <1>2, <2>1, <2>2, <2>3, <2>4, <2>5, <2>6 DEF StopStep
<1>3. CASE Environment
  <2>1. CASE Fork BY <2>1 DEF Fork
  <2>2. CASE Serve BY <2>2 DEF Serve
  <2>3. CASE LauncherFails BY <2>3 DEF LauncherFails
  <2>4. CASE Crash BY <2>4 DEF Crash
  <2>5. CASE Exits BY <2>5 DEF Exits
  <2>6. CASE Cancel BY <2>6 DEF Cancel
  <2> QED BY <1>3, <2>1, <2>2, <2>3, <2>4, <2>5, <2>6 DEF Environment
<1>4. CASE UNCHANGED vars
  BY <1>4 DEF vars
<1> QED BY <1>1, <1>2, <1>3, <1>4 DEF Next

\* Run, startDaemon and Stop implement the interface their callers rely on.
THEOREM DaemonImplemented == Spec => ImplementsAudioDaemon
<1>1. Init => Daemon!Init
  BY DEF Init, Daemon!Init
<1> QED BY <1>1, MappedAlways, DaemonStep, PTL DEF Spec, ImplementsAudioDaemon, Daemon!Spec
=============================================================================
