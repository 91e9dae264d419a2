---------------------------- MODULE PulseDaemon ----------------------------
(* internal/audio/pulse.go: the goroutine in PulseAudio.Run brings the daemon *)
(* up, probes it and restarts it; Stop, which main defers, shuts it down from *)
(* another goroutine.  They share p.mu's ready and stopping.  The launcher,   *)
(* the daemon it forks and the daemon's socket and PID file are external.     *)
(* A daemon writes its PID file first and its socket when it serves.          *)
EXTENDS Integers

CONSTANT MaxAttempts   \* bound: how many bring-ups Run makes

ASSUME PulseAssumption == MaxAttempts \in Nat \ {0}

VARIABLES
    run,        \* where Run is
    stop,       \* where Stop is
    attempt,    \* PulseAudio.attempt
    ready,      \* PulseAudio.ready
    stopping,   \* PulseAudio.stopping
    health,     \* the last reason given to Health
    launcher,   \* the current launcher, see TypeOK
    daemon,     \* "none", "booting", "up", "exiting"
    socket,     \* the native socket exists
    pidFile,    \* the PID file exists
    ctxDone     \* ctx is cancelled

external == <<launcher, daemon, socket, pidFile>>
vars == <<run, stop, attempt, ready, stopping, health, external, ctxDone>>

\* Inside startDaemon.
Starting == {"clean", "spawn", "waitSocket", "waitSink", "setDefault", "shutdown"}

RunLabels == Starting \cup
    {"check", "failed", "unhealthy", "started", "healthy", "probe", "down",
     "backoff", "returned"}

StopLabels == {"idle", "called", "pactlExit", "waitGone", "kill", "waitKilled", "done"}

TypeOK ==
    /\ run \in RunLabels
    /\ stop \in StopLabels
    /\ attempt \in 0..MaxAttempts
    /\ health \in {"unset", "ok", "pulseaudio_not_ready"}
    /\ launcher \in {"none", "running", "forked", "ok", "failed"}
    /\ daemon \in {"none", "booting", "up", "exiting"}
    /\ {ready, stopping, socket, pidFile, ctxDone} \subseteq BOOLEAN

Init ==
    /\ run = "check" /\ stop = "idle" /\ attempt = 0
    /\ ready = FALSE /\ stopping = FALSE /\ health = "unset"
    /\ launcher = "none" /\ daemon = "none"
    /\ socket = FALSE /\ pidFile = FALSE /\ ctxDone = FALSE

\* daemonAlive: the PID file names a running pulseaudio.
Alive == pidFile /\ daemon # "none"

-----------------------------------------------------------------------------
(* External: the launcher, the daemon and the signal that ends the program. *)

\* The launcher forks a daemon, once; the daemon writes its PID file.
Fork ==
    /\ launcher = "running" /\ daemon = "none"
    /\ launcher' = "forked"
    /\ daemon' = "booting"
    /\ pidFile' = TRUE
    /\ UNCHANGED <<run, stop, attempt, ready, stopping, health, socket, ctxDone>>

\* The daemon has loaded its modules; it serves, and the launcher exits 0.
Serve ==
    /\ daemon = "booting"
    /\ daemon' = "up"
    /\ socket' = TRUE
    /\ launcher' = "ok"
    /\ UNCHANGED <<run, stop, attempt, ready, stopping, health, pidFile, ctxDone>>

LauncherFails ==
    /\ launcher \in {"running", "forked"} /\ attempt < MaxAttempts
    /\ launcher' = "failed"
    /\ daemon' = "none"
    /\ pidFile' = FALSE
    /\ UNCHANGED <<run, stop, attempt, ready, stopping, health, socket, ctxDone>>

\* A crash leaves socket and PID file behind; the last daemon lives (bound).
Crash ==
    /\ daemon \in {"booting", "up"} /\ attempt < MaxAttempts
    /\ daemon' = "none"
    /\ launcher' = IF launcher = "forked" THEN "failed" ELSE launcher
    /\ UNCHANGED <<run, stop, attempt, ready, stopping, health, socket, pidFile,
                   ctxDone>>

\* A daemon that was asked to exit does so and removes its files.
Exits ==
    /\ daemon = "exiting"
    /\ daemon' = "none" /\ socket' = FALSE /\ pidFile' = FALSE
    /\ UNCHANGED <<run, stop, attempt, ready, stopping, health, launcher, ctxDone>>

Cancel ==
    /\ ~ctxDone
    /\ ctxDone' = TRUE
    /\ UNCHANGED <<run, stop, attempt, ready, stopping, health, external>>

\* pactl exit reaches only a serving daemon, and may fail on it.
PactlExitOk == daemon = "up" /\ daemon' = "exiting" /\ UNCHANGED <<launcher, socket, pidFile>>
PactlExitFails == UNCHANGED external

-----------------------------------------------------------------------------
(* Run and startDaemon. *)

RunTo(label) == run' = label

Check ==
    /\ run = "check"
    /\ \/ /\ ctxDone \/ stopping
          /\ RunTo("returned")
          /\ UNCHANGED attempt
       \/ /\ ~ctxDone /\ ~stopping /\ attempt < MaxAttempts
          /\ attempt' = attempt + 1
          /\ RunTo("clean")
    /\ UNCHANGED <<stop, ready, stopping, health, external, ctxDone>>

\* removeStaleRuntime.
Clean ==
    /\ run = "clean"
    /\ socket' = FALSE /\ pidFile' = FALSE
    /\ RunTo("spawn")
    /\ UNCHANGED <<stop, attempt, ready, stopping, health, launcher, daemon, ctxDone>>

Spawn ==
    /\ run = "spawn"
    /\ \/ launcher' = "running" /\ RunTo("waitSocket")
       \/ launcher' = "none" /\ attempt < MaxAttempts /\ RunTo("failed")
    /\ UNCHANGED <<stop, attempt, ready, stopping, health, daemon, socket,
                   pidFile, ctxDone>>

SocketFound ==
    /\ run = "waitSocket" /\ socket
    /\ RunTo("waitSink")
    /\ UNCHANGED <<stop, attempt, ready, stopping, health, external, ctxDone>>

DaemonizeFailed ==
    /\ run = "waitSocket" /\ launcher = "failed"
    /\ RunTo("failed")
    /\ UNCHANGED <<stop, attempt, ready, stopping, health, external, ctxDone>>

\* errSocketTimeout: nothing is shut down.  A launcher that has not forked by
\* now is taken never to do so.
SocketTimeout ==
    /\ run = "waitSocket" /\ ~socket
    /\ launcher' = IF daemon = "none" THEN "none" ELSE launcher
    /\ RunTo("failed")
    /\ UNCHANGED <<stop, attempt, ready, stopping, health, daemon, socket,
                   pidFile, ctxDone>>

\* pactl list sinks: succeeds on a serving daemon, or its retries run out.
SinkReady ==
    /\ run = "waitSink"
    /\ \/ daemon = "up" /\ RunTo("setDefault")
       \/ (daemon # "up" \/ attempt < MaxAttempts) /\ RunTo("shutdown")
    /\ UNCHANGED <<stop, attempt, ready, stopping, health, external, ctxDone>>

SetDefault ==
    /\ run = "setDefault"
    /\ \/ daemon = "up" /\ RunTo("started")
       \/ (daemon # "up" \/ attempt < MaxAttempts) /\ RunTo("shutdown")
    /\ UNCHANGED <<stop, attempt, ready, stopping, health, external, ctxDone>>

\* shutdownBestEffort.
Shutdown ==
    /\ run = "shutdown"
    /\ PactlExitOk \/ PactlExitFails
    /\ RunTo("failed")
    /\ UNCHANGED <<stop, attempt, ready, stopping, health, ctxDone>>

\* Bug variant: a failed start goes straight to the backoff.
FailedSkipsProbe ==
    /\ run = "failed"
    /\ ready' = FALSE
    /\ RunTo("backoff")
    /\ UNCHANGED <<stop, attempt, stopping, health, external, ctxDone>>

\* setReady(false), then setHealth(PulseNotReady).
Failed ==
    /\ run = "failed"
    /\ ready' = FALSE
    /\ RunTo("unhealthy")
    /\ UNCHANGED <<stop, attempt, stopping, health, external, ctxDone>>

\* Bug variant: the error's text is reported instead of the fixed reason.
UnhealthyErrorText ==
    /\ run = "unhealthy"
    /\ health' = IF launcher = "failed" THEN "daemonize failed" ELSE "timeout"
    /\ RunTo("probe")
    /\ UNCHANGED <<stop, attempt, ready, stopping, external, ctxDone>>

\* setHealth(PulseNotReady), after p.mu is released.
Unhealthy ==
    /\ run = "unhealthy"
    /\ health' = "pulseaudio_not_ready"
    /\ RunTo("probe")
    /\ UNCHANGED <<stop, attempt, ready, stopping, external, ctxDone>>

Started ==
    /\ run = "started"
    /\ ready' = TRUE
    /\ RunTo("healthy")
    /\ UNCHANGED <<stop, attempt, stopping, health, external, ctxDone>>

\* Bug variant: only the first daemon is reported.
HealthyForgotten ==
    /\ run = "healthy"
    /\ health' = IF health = "unset" THEN "ok" ELSE health
    /\ RunTo("probe")
    /\ UNCHANGED <<stop, attempt, ready, stopping, external, ctxDone>>

\* setHealth(""), after p.mu is released.
Healthy ==
    /\ run = "healthy"
    /\ health' = "ok"
    /\ RunTo("probe")
    /\ UNCHANGED <<stop, attempt, ready, stopping, external, ctxDone>>

\* Bug variant: the probe trusts the PID file a crashed daemon leaves behind.
ProbePidFileOnly ==
    /\ run = "probe"
    /\ \/ (ctxDone \/ stopping) /\ RunTo("returned")
       \/ ~stopping /\ ~pidFile /\ RunTo("down")
    /\ UNCHANGED <<stop, attempt, ready, stopping, health, external, ctxDone>>

\* A tick of waitDaemonDown, or ctx.Done().
Probe ==
    /\ run = "probe"
    /\ \/ (ctxDone \/ stopping) /\ RunTo("returned")
       \/ ~stopping /\ ~Alive /\ RunTo("down")
    /\ UNCHANGED <<stop, attempt, ready, stopping, health, external, ctxDone>>

\* Bug variant: ready is not cleared.
DownStaysReady ==
    /\ run = "down"
    /\ health' = "pulseaudio_not_ready"
    /\ RunTo(IF stopping THEN "returned" ELSE "backoff")
    /\ UNCHANGED <<stop, attempt, ready, stopping, external, ctxDone>>

\* The daemon is gone: unless Stop came first, not ready, report, back off.
Down ==
    /\ run = "down"
    /\ \/ /\ stopping
          /\ RunTo("returned")
          /\ UNCHANGED <<ready, health>>
       \/ /\ ~stopping
          /\ ready' = FALSE
          /\ health' = "pulseaudio_not_ready"
          /\ RunTo("backoff")
    /\ UNCHANGED <<stop, attempt, stopping, external, ctxDone>>

Backoff ==
    /\ run = "backoff"
    /\ RunTo(IF ctxDone THEN "returned" ELSE "check")
    /\ UNCHANGED <<stop, attempt, ready, stopping, health, external, ctxDone>>

-----------------------------------------------------------------------------
(* Stop, deferred by main: it runs once ctx is cancelled. *)

StopTo(label) == stop' = label

StopCall ==
    /\ stop = "idle" /\ ctxDone
    /\ stopping' = TRUE
    /\ StopTo("called")
    /\ UNCHANGED <<run, attempt, ready, health, external, ctxDone>>

StopNotReady ==
    /\ stop = "called"
    /\ ready' = FALSE
    /\ StopTo("pactlExit")
    /\ UNCHANGED <<run, attempt, stopping, health, external, ctxDone>>

StopExit ==
    /\ stop = "pactlExit"
    /\ \/ PactlExitOk /\ StopTo("waitGone")
       \/ PactlExitFails /\ StopTo("kill")
    /\ UNCHANGED <<run, attempt, ready, stopping, health, ctxDone>>

\* waitDaemonGone after pactl exit: gone, or the grace has passed.
StopGone ==
    /\ stop = "waitGone"
    /\ StopTo(IF Alive THEN "kill" ELSE "done")
    /\ UNCHANGED <<run, attempt, ready, stopping, health, external, ctxDone>>

\* SIGTERM and SIGKILL to the process the PID file names.
StopKill ==
    /\ stop = "kill"
    /\ daemon' = IF pidFile THEN "none" ELSE daemon
    /\ launcher' = IF pidFile /\ launcher = "forked" THEN "failed" ELSE launcher
    /\ StopTo("waitKilled")
    /\ UNCHANGED <<run, attempt, ready, stopping, health, socket, pidFile, ctxDone>>

\* Bug variant: Stop waits for the daemon without the grace period.
StopKilledWaits ==
    /\ stop = "waitKilled" /\ ~pidFile
    /\ StopTo("done")
    /\ UNCHANGED <<run, attempt, ready, stopping, health, external, ctxDone>>

StopKilled ==
    /\ stop = "waitKilled"
    /\ StopTo("done")
    /\ UNCHANGED <<run, attempt, ready, stopping, health, external, ctxDone>>

-----------------------------------------------------------------------------

RunStep ==
    \/ Check \/ Clean \/ Spawn \/ SocketFound \/ DaemonizeFailed
    \/ SocketTimeout \/ SinkReady \/ SetDefault \/ Shutdown \/ Failed
    \/ Unhealthy \/ Started \/ Healthy \/ Probe \/ Down \/ Backoff

StopStep ==
    \/ StopCall \/ StopNotReady \/ StopExit \/ StopGone \/ StopKill \/ StopKilled

Environment ==
    \/ Fork \/ Serve \/ LauncherFails \/ Crash \/ Exits \/ Cancel

Next == RunStep \/ StopStep \/ Environment

Spec == Init /\ [][Next]_vars

(* Both goroutines are scheduled and their waits are bounded; a booting       *)
(* daemon serves in the end and one that was asked to exit does.              *)
Fairness ==
    /\ WF_vars(RunStep) /\ WF_vars(StopStep)
    /\ WF_vars(Serve) /\ WF_vars(Exits)

FairSpec == Spec /\ Fairness

-----------------------------------------------------------------------------
(* Properties. *)

\* A bring-up never runs beside a daemon of an earlier one: a launcher is
\* spawned only after the previous daemon is gone, also when it came up too late
\* for its own bring-up (Run waits in waitDaemonDown after a failed start too).
OneDaemon == [][run = "spawn" /\ launcher' = "running" => daemon = "none"]_vars

\* Ready is false through every restart, from the moment the loss is handled
\* until the new daemon's sink is verified: what the recorder's watchdog and its
\* wait for the daemon rely on.
NotReadyWhileRestarting ==
    run \in Starting \cup {"backoff", "check", "started"} => ~ready

\* While Run watches a daemon and nobody stops it, Ready and the last reason that
\* Run itself reported agree, though they are set one after the other and a
\* bring-up may fail at any point.  (What /healthz shows may be the reason of
\* another component: module Shim.)
HealthTracksReady ==
    run = "probe" /\ ~stopping => (ready <=> health = "ok")

\* Seen through Ready, the supervision is the interface AudioDaemon: whatever
\* crashes, late starts, failing pactl calls and Stop do, a daemon is ready only
\* after its own verification and the next one serves only after that is undone.
Daemon == INSTANCE AudioDaemon WITH
    up <- daemon = "up", ready <- ready, verified <- run = "started",
    stopped <- ctxDone

\* Run, startDaemon and Stop implement what their callers may rely on.
ImplementsAudioDaemon == Daemon!Spec

\* A lost daemon does not stay ready: the probe finds it, whatever stale files
\* it left.  (After a cancellation Run no longer looks.)
LossNoticed == (ready /\ daemon = "none") ~> (~ready \/ ctxDone)

\* A cancelled program ends: Run returns, also out of a bring-up that ignores
\* the context, and Stop finishes whatever pactl and the daemon do.
ShutdownEnds == ctxDone ~> (run = "returned" /\ stop = "done")
=============================================================================
