# TLA+ verification of the Teddycloud Spotify radio shim

The shim lets a Toniebox play Spotify through Teddycloud. It runs a Spotify
client (Soloist) as a subprocess, lets it play into a PulseAudio null sink,
records that sink and serves the audio as a WAV stream over HTTP; figurine
events of Teddycloud become `play`, `pause` and skip commands for Soloist. This
directory holds TLA+ models of its components, the TLC configurations that check
them on small instances and proofs that TLAPS checks for every value of the
constants. Every definition is translated from the Go source; `PROJECT.json`
gives the lines each one stands for.

## The system

All components run in one Go process, wired in `cmd/shim/main.go`.

| Component | State | Operations | Talks to | Must be right |
|---|---|---|---|---|
| Stream handler (`server/stream.go`) | `streamID`, `streamCancel` under `streamMu`; `active`; per request its id, context, channel | `handleStream`, `flushStalePreFill`, `streamChunks` | recorder slot and `Flush`; Soloist's `play`; its client | the newest request wins; no stale audio; every older request gets out |
| HTTP server, `/healthz` (`server/server.go`, `healthz.go`) | one health reason | `SetUnhealthy`, `handleHealthz`, `Run` | every component writes the reason | the reason tells the truth; shutdown ends |
| Soloist supervisor (`soloist/supervisor.go`, `process/process.go`) | process, `waitCh`, connection, backoff | `Run`, `runOnce`, `waitWSAddr`, `handleExit`, `wsConsume` | Soloist by exit code, `ws.port` file and WebSocket; connector; health | one process at a time, restarts, final stop on expiry, clean shutdown |
| Command connector (`soloist/connector.go`) | `conn` under a mutex | `attach`, `detach`, `write` behind `Play`, `Pause`, `SkipNext`, `SkipPrev` | supervisor, stream handler, event listener | no command goes to a dead connection; no writer blocks another for ever |
| Pairing, session check, binary (`soloist/pair.go`, `session.go`, `binary.go`) | session directory, binary, pair process | `Check`, `Pair`, `Drive`, `Resolve`, `download`, `DeleteBinary` | supervisor, health | only tested binaries run; hand over with a session and without a second Soloist |
| PulseAudio daemon (`audio/pulse.go`) | `ready`, `stopping` under `mu`; PID file, socket | `Run`, `startDaemon`, `Stop`, `Ready` | launcher, `pactl`, health, recorder loop | one daemon; readiness tracks it; a loss is repaired |
| Recorder (`audio/recorder.go`) | chunk channel, `stop`, counters | `Start`, `Stop`, `Flush`, `Chunks`, pump | monitor stream, stream handler, telemetry | no audio lost uncounted; one pump |
| Recorder loop (`main.go`, `audio/monitor.go`) | `recorderSlot`, stream, watchdog, `lostDone` | `runRecorder` | PulseAudio, recorder, handler | recording resumes; nothing stale published; no leaks |
| Event listener (`sselistener/listener.go`) | subscription, idle timer | `Run`, `subscribeOnce`, `consume`, `readLoop`, `dispatch` | connector, Teddycloud | commands in event order, reconnects |
| Telemetry (`telemetry/telemetry.go`, `runTelemetry`) | last sample | `Sample` | recorder slot, server | rates survive a new recorder |
| Configuration, static tone, mock Teddycloud | none shared | | | |

What makes it hard, component by component (`PROJECT.json`, "hazards", has the
lines):

- Stream handler: two or more requests interleave at every step; `play` is sent
  outside the lock; `select` chooses at random among ready cases; cleanups run
  late; the channel belongs to one recorder while the recorder loop makes others.
- Supervisor: an exit, the port file, a timeout and a cancellation race in three
  different selects over a channel that holds one result; exit code 0 arrives as
  a nil error; files outlive the process that wrote them.
- Control path: the connector holds its mutex during a network write, so a Soloist
  that stops reading stalls the reader of Teddycloud's events, the stream handler
  and the supervisor's `detach` together; listener and supervisor reconnect
  independently of each other.
- Start: a crash in a download leaves half a file that the next start finds; the
  expiry of a build shows only as exit code 10; a session may be stored while the
  pair process dies; four components write one health reason.
- PulseAudio: a bring-up ignores the context; a daemon may come up after its
  bring-up timed out; a crash leaves socket and PID file; `Stop` runs beside `Run`.
- Recorder and telemetry: short reads, errors that come with data, a full channel,
  `Flush` in parallel with pump and receivers; counters that start again at zero
  between or within two samples.
- Recorder loop: a daemon that dies silently leaves the pump in `Read`; loop,
  pump and watchdog stop and close the same stream.

## Modules

| Module | Models | Main variables and the code behind them |
|---|---|---|
| `PlaybackSlot` | abstract specification: what the `/stream` handlers promise together | `phase` of each request, `owner` whom the next one stops |
| `StreamServer` | `handleStream`, its slot, flush, play and copy loop; the pump and the slot as the handler sees them | `pc[r]` the handler goroutine of request r; `streamID`, `streamCancel`, `active` as in `Server`; `chan[g]` the channel of recorder g; `slot`, `pump` from `main.go` |
| `MCStreamServer` | interchangeable requests (symmetry) for TLC | |
| `SoloistSupervisor` | `Supervisor.Run`, `runOnce`, `waitWSAddr`, `handleExit`, the session; the process and its waiter | `pc`; `proc`, `exitCode`; `waitCh`; `portFile` is `ws.port`; `wsAddr`; `attached` is the connector's `conn`; `health`, `binary` |
| `SoloistLife` | interface between supervisor and the rest of the shim: which process is started when, what an exit code leads to, when a session is open | `where` Run is, the wait for `ws.port` apart from the loop; `soloist` the process, or its exit code until a select has received it |
| `ControlPath` | `Listener.Run` with its reader goroutine and idle timer; `CommandConnector` with its three kinds of writers; the session loop of the supervisor | `run`, `reader[s]`; `sse[s]` and `wire[s]` the body of subscription s; `lock`, `conn`; `ws[c]` connection c; `sup`; `handler` a `/stream` handler in `Play` |
| `Shim` | `main` from start to exit, again and again on one disk; `Resolve`, `download`, the smoke test, `Check`, `Pair`, `Drive`, `pairThenSupervisor`, the supervisor in outline, `/healthz` | `outside`, `dataBin`, `session` the disk; `main`, `gate` goroutines; `path` is `binPath`; `pair`, `soloist` processes; `health` is `unhealthyReason` |
| `PulseDaemon` | `PulseAudio.Run`, `startDaemon`, its waits, the probe, `Stop` | `run`, `stop` the two goroutines; `ready`, `stopping`, `attempt`; `launcher`, `daemon`, `socket`, `pidFile` external |
| `Recorder` | `PulseRecorder`: pump, `Start`, `Stop`, `Flush`, `Chunks`, the counters | `acc` is `len(acc)`, `buffered` is `len(chunkCh)`; `stop`, `stopped`, `started` |
| `Telemetry` | extends `Recorder`: `runTelemetry`, `Sampler.Sample`, and `runRecorder` replacing the recorder | `slot`; `held`, `counted`, `snapChunks` the tick in progress, whose reads of slot, `ChunksSent` and `Dropped` are separate steps; `prevChunks`, `prevDropped`, `set` as in `Sampler` |
| `AudioDaemon` | interface between PulseAudio and its users: what `PulseAudio.Run` and `Stop` promise to whoever asks `Ready` | `up` a daemon serves; `ready` is `Ready()`; `verified` between pactl and `setReady(true)` |
| `AudioSource` | interface between recorder loop and consumers: what `runRecorder` promises to whoever calls `recorderSlot.get` | `running` the recorder whose pump runs; `published` is `recorderSlot.src`; `opened`, `fresh` |
| `RecorderLoop` | `runRecorder`, its watchdog, `recorderSlot`, the life of a monitor stream | `loop`; per attempt `stream`, `pump`, `watchdog`; `recStop`, `lostDone`, `slot`; `daemonUp`, `ready` external |
| `...Proofs` | the theorems about each module | |

Each action is one step of one goroutine between two points where another
goroutine can observe or interfere: a critical section is one action, an
unlocked sequence of shared accesses is several. Operators marked "Bug variant"
are used by no specification; each is a plausible mistake in the action below it
with which one of the properties must fail.

Data are abstracted to what the properties tell apart: a chunk is the set of
requests for which it is pre-fill; audio in `Recorder` is a count of bytes; exit
codes are 0, 10 and one for all others; an event is its number and 0 a line that
`dispatch` ignores; a binary is absent, broken, good or expired; a process, a
port, a recorder or a stream is the number of the attempt that made it.

### How the modules fit together

Three interfaces are specifications of their own, and each is used twice: the
component that provides it is shown to implement it, and the component that needs
it has no other environment than its actions (`INSTANCE`, so the two cannot drift
apart). Each link is a refinement that TLAPS proves and, but for `Telemetry`'s, a run
checks.

    PulseDaemon --implements--> AudioDaemon --environment of--> RecorderLoop
    RecorderLoop --implements--> AudioSource --environment of--> StreamServer
    SoloistSupervisor --implements--> SoloistLife --environment of--> Shim
    Telemetry --implements--> AudioSource          StreamServer --implements--> PlaybackSlot

- `AudioDaemon` says that a daemon is ready only after its own verification, that
  `setReady(true)` may also come for a daemon that has died since, and that the next
  one serves only after the readiness of the last is undone. Where PulseAudio does
  less than its documentation says (a late daemon that serves and is never made
  ready), the interface allows it. `RecorderLoop` adds what a crash does to streams
  and one assumption about time, `WatchdogsTicked`.
- `AudioSource` says that a recorder starts only when no other pump runs and none is
  published, is published once, and is taken back behind a pump that has ended or
  on the way out. `StreamServer` adds the channel: bounded, drained under `Flush`'s
  mutex, never closed, as `Recorder` has it. Shutdown is left out there
  (`stopped <- FALSE`).
- `RecorderLoop` has the pump of `Recorder` in two steps. `Telemetry` is `Recorder`
  with the loop's replacements, which stay within `AudioSource`, and a reader.
- `SoloistLife` says that a process is followed by a backoff and another one, that
  exit code 10 alone ends it for good, that a session is opened with a process that
  lives or has just died, and that exit code 0 can be taken for an address. A
  code that no select received stays visible, and only two steps leave one behind:
  the timeout of the wait for `ws.port` (a phase of its own, `port`) and a
  cancellation. So a select of the loop, a failed dial or a lost session that
  received a code and did nothing with it would be no step of the interface. It has
  two kinds of process the supervisor does not tell apart; in `Shim` they are builds
  that had or had not expired when they were started. `Shim` adds what the steps do
  to disk and health, and which codes a build exits with.
- `ControlPath` has the supervisor in the steps of the connection;
  `SoloistSupervisor` has the process around them.
- `StreamServer` implements `PlaybackSlot` under the mapping `phase <- Phase`,
  `owner <- streamCancel`.

## Runs

Passing runs:

| Run | Instance | Shows |
|---|---|---|
| `stream` | 2 requests, 1 recorder, buffer 2, batch 1 | `OnlyNewestLives`: exactly the newest request is alive. `LiveEdge`: nobody is fed audio from before its flush. `ImplementsPlaybackSlot`: the goroutines, ids and late cleanups together are one slot that is taken over in one step. `SupersededStreamEnds`, `NewStreamStarts` under `FairSpec`. |
| `supervisor` | 3 spawns | `SingleInstance`, `CrashNotLost`; `ImplementsSoloistLife`: whichever select receives an exit code acts on it, once, an expiry is final, and no code is left behind except by a port timeout or a cancellation; `CrashRestarts`, `SessionRestored`, `ShutdownCompletes` |
| `pulse` | 3 bring-ups | `OneDaemon`; `ImplementsAudioDaemon`: whatever crashes, late starts, failing pactl calls and `Stop` do, readiness belongs to the daemon that was verified; `HealthTracksReady`: `Ready` and the last reason `Run` reported agree; `LossNoticed`, `ShutdownEnds` |
| `recorder` | 2 recorders one after the other, each with 4 bytes in chunks of 2 and a buffer of 1; differences modulo 8 | `SentAccounted`; `BytesAccounted`: every byte is counted, and a pump that ends leaves less than a chunk; `NeverOverreports`; `StopClosedEndsPump` |
| `recorder_loop` | 3 attempts, every behaviour of `AudioDaemon` | `OnePump`; `ImplementsAudioSource`: no recorder is started beside another's pump or published behind another's back, none stays published; `RecordingResumes`, `ShutdownEnds` |
| `shim` | 2 starts, every state of both binaries and of the session | `OnlyTestedRuns`, `PairingEndsFirst`; `PairedStartsSoloist`, `ExpiredIsDeleted`, `ShutdownEnds` |
| `control` | 2 events, 2 lines in flight, 2 subscriptions, 2 sessions | `OneWriter`, `EventOrder`; `BrokenResubscribes`, `ShutdownEnds` |

Every passing run also checks the type invariant of its module.

Runs that must find a violation; each states what a document or a comment says
and the code does not do ("findings" quotes the lines):

| Run | Property | What TLC finds |
|---|---|---|
| `stream_last_play` | `LastPlayIsCurrent` | Request 1 takes the slot, then request 2; request 2 calls `play`, then request 1, already cancelled, calls `play` with its own URI. Request 2 streams the wrong title. |
| `stream_dead_recorder` | `StreamFollowsRecorder` | The pump ends, its channel stays open and empty; the request that reads it stays in its `select` beside a working new recorder until its client gives up. |
| `supervisor_stale_port` | `SessionOpens` | A crashed Soloist leaves `ws.port`; the next wait reads it at its first tick; the dead port is dialled for ever while the new process serves another one. |
| `shim_unpaired` | `UnpairedReported` | Pairing has begun and `/healthz` says `soloist_unpaired`; PulseAudio becomes ready and clears the one reason; `/healthz` says ok without a session. |
| `sse_idle` | `SilentResubscribes` | Teddycloud falls silent while the reader is in `Scan`; the idle timer fires, nobody receives from it, and the subscription stays for ever. |

### Bounds, and why they are enough

- Requests: with 2, a request enters, supersedes and is superseded, and an old
  cleanup meets a newer holder; the slot compares one id with one other. The
  theorems, the refinement included, hold for any set of requests.
- `MaxRecorders` 1 in `stream`: a request never changes its channel, so requests
  on different recorders do not share one; `stream_dead_recorder` uses 2.
- `BufferLen` 2 in `StreamServer` is the least with a chunk in front of another;
  `Batch` 1 has both outcomes of the batching test, for the counter runs from 0 to
  `Batch`.
- `MaxStarts` 3: a first process, a successor that meets what it left, and one
  that meets what the successor left. A port timeout is not taken for the last
  process and every other failure of it is, so a run is never cut off in a state
  that asks for one more spawn; liveness at the bound says what holds for a
  process that is not the last of a series.
- `MaxAttempts` 3 in `PulseDaemon` and `RecorderLoop` likewise; the last daemon
  of `RecorderLoop` does not die, so that "recording resumes" has something to
  resume on.
- `MaxBytes` 4 with chunks of 2 and a buffer of 1: the channel fills, the second
  chunk is dropped or fits after a receive, and odd reads leave a byte over.
  `MaxRecorders` 2 has a replacement between two samples and between any two reads of one, with
  either counter of the successor below or above. `Modulus` 8 stands for 2^64:
  larger than any count, so that a wrapped difference shows.
- `MaxLives` 2 in `Shim`: every disk a first life can leave, and every disk at
  all as its initial state, is met by a second life.
- `ControlPath`: 2 events to be swapped or repeated, 2 subscriptions for a reader
  that survives its own, 2 sessions for a write that outlives its own. When all
  lines are read a line without a command may follow (the second disjunct of
  `Emit`); more of them at once would only repeat its step. `readLoop` looks at
  context and idle timer before each line: that look is part of the step that ends
  the line before (`Looked`), since nothing happens in between but the blocking
  `Scan`.

`CHECK_DEADLOCK FALSE` is set where the system really stops: all requests
served, `Run` returned, the program shut down or not started again, the last
recorder done.

### Fairness, and why the code justifies it

- Handlers, loops and waiters are goroutines the Go scheduler runs: weak
  fairness of each goroutine's steps.
- `select` with several ready cases picks at random: `StopStream` and the loop's
  steps are strongly fair, for a case that is ready again and again is chosen.
- `Drain` of `Flush` is strongly fair at each channel length. One receive takes
  microseconds and the pump needs 46 ms to make a chunk, so the drain gets more
  than one turn for each send.
- `WriteReturns`, `Leave`: a client reads or hangs up. The server sets no write
  timeout, so this is an assumption about clients, not about the code.
- Supervisor: `Spawn`, `DialOk` and `Activate` are strongly fair: a tested binary
  does not fail to start for ever, a port that is served does not refuse for ever,
  and not every new connection breaks before its first write. Nothing forces
  Soloist to publish, to exit or to drop a connection.
- Control path: a mutex that becomes free again and again is given to each waiter
  (Go hands it to the longest waiting): strong fairness of `SupStep`,
  `ReaderSends`, `HandlerSent`. A GET is answered or refused and not refused for
  ever, and a stalled connection does not stay stalled: Soloist reads again or
  dies. Nothing forces an event, a broken connection or a cancellation.
- Shim: a download ends (`WF(Main)`; `http.Get` has no timeout, so this is an
  assumption), pair processes that have a session do not all die within their
  first two seconds, spawns do not fail for ever, an expired build says so and
  not always at the moment of a port timeout, and a process that has died is not
  connected to again and again (it can be once, on a connection that was open).
  `Crash`, `Restart`, `Expire`, `StoreSession` and `Terminate` are never forced.
- PulseAudio: a booting daemon serves in the end and one asked to exit exits;
  Run's and Stop's waits are bounded by timers. Nothing forces a launcher to fork.
- Recorder: the pump runs and its source answers. Nothing is assumed of the
  telemetry, whose property is a safety property.
- Recorder loop: the loop and, for a daemon that lives, `DaemonVerified` and
  `BecomesReady` are strongly fair: the daemon does not crash each time just before
  it is verified, reported or found. A daemon that comes up too late for its
  bring-up (observations) is left out of the fairness on purpose, not of the safety.
  `DaemonServes` waits until the watchdogs of the lost daemon have ticked: the
  backoff before a restart is at least 5 s, their period 250 ms.

## Proofs

TLAPS checks these for all constants that satisfy the named assumptions of the
modules (non-empty bounds; `None` is not a request; a modulus above `MaxBytes`).
Each follows `Init => IInv`, `IInv /\ [Next]_vars => IInv'`, `IInv => Inv`.

| Module | Theorems | Inductive invariant and why it is needed |
|---|---|---|
| `StreamServerProofs` | `TypeCorrect`, `OnlyNewestLivesAlways`, `CancelReachableAlways`, `LiveEdgeAlways`, `ActiveBalancedAlways`, `SlotImplemented` | `SlotInv`: ids of requests in the handler are distinct and at most `streamID`, and a set `streamCancel` belongs to the holder of `streamID`; without it a late cleanup could match a newer id. `EdgeInv`: marks of pre-fill in a channel belong to a request that is draining this channel; a drain ends on an empty channel, so no mark survives it. `ActiveInv`: `active` is the number of requests between increment and decrement (finite sets of requests only). |
| `SoloistSupervisorProofs` | `TypeCorrect`, `SingleInstanceAlways`, `LifeImplemented`, `NoOrphanAlways`, `CrashNotLostAlways`, `ExpiredIsFinalAlways`, `AttachedInSessionAlways` | `SupInv`: outside a run no process runs; a result in `waitCh` is the code of a reaped process; a reaped non-zero code is in `waitCh` throughout the wait and the loop. The wait for the port is included because a crash there must survive the step into the loop. `LifeInv`: a run has a process; within a run the one exit that is in no channel is a code 0 the wait has taken for an address, and with that address no session is opened. |
| `PulseDaemonProofs` | `TypeCorrect`, `OneDaemonAlways`, `DaemonImplemented`, `NotReadyWhileRestartingAlways`, `HealthTracksReadyAlways` | `PulseInv`: a daemon has a PID file, a running launcher means Run waits for the socket and no daemon lives, and before each spawn daemon and socket are gone; together they carry "no second daemon" around the loop. `BootInv`: while a daemon boots nobody is ready, wherever Run has gone meanwhile. |
| `RecorderProofs` | `TypeCorrect`, `NoChunkLeftAlways`, `SentAccountedAlways`, `BytesAccountedAlways`, `OneShotAlways` (of one recorder) | `CountsOK`: the pump reads only with less than a chunk left over, so the accumulator is bounded, and there is no pump before `Start`. `BytesAccounted` is its byte count together with `NoChunkLeft`. |
| `TelemetryProofs` | `TelemetryTypeCorrect`, `NeverOverreportsAlways`, `BytesAccountedAcross`, `SentAccountedAcross` (of a series of recorders), `TelemetrySource` | `ReportInv`: sums and last sample together stay below what was counted, with a case for each recorder a tick can hold: the latest, whose counters only grow, a replaced one, whose counters stay what they are, or none, before and after its chunks are read. `BytesAccounted` bounds the counters by `MaxBytes`, hence by the modulus, so that an accepted difference is exact. |
| `RecorderLoopProofs` | `TypeCorrect`, `OnePumpAlways`, `SourceImplemented`, `BlockedIsWatchedAlways`, `SlotIsCurrentAlways`, `StreamsClosedAlways` | `LoopInv`: every attempt but the current one has a closed stream and no running pump, and at which labels the current one too. `LostInv`: `lostDone` is closed only behind a pump that has ended, so a watchdog that ends for it leaves nothing unguarded. |
| `ShimProofs` | `TypeCorrect`, `OnlyTestedRunsAlways`, `PairingEndsFirstAlways`, `UnpairedIsPastAlways`, `GoodIsKeptAlways` | `ShimInv`: which labels of main and of the gate go with which processes, and that past the smoke test `binPath` names a file that is good or has expired since. A file may become older at any time but is deleted only by the goroutine whose process has ended. `ExpiryInv`: a download writes only where no file was, and a waiting code 10 was said by a build that had expired. |
| `ControlPathProofs` | `TypeCorrect`, `OneWriterAlways`, `HolderCanReturnAlways`, `EventOrderAlways` | `WriterInv`: a writer holds the mutex, the connector has a connection exactly between attach and detach. `ReadersInv`: only the current subscription has a reader, and none when an uncancelled listener opens the next; a cancelled `consume` does leave its reader behind. `OrderInv`: the lines of a subscription ascend and are later than every command delivered while its reader lives. |

The refinements. Each maps the initial state and then every action, one step of
the proof per action, to one abstract action or to a stutter.

- `SlotImplemented`: `Enter` is `Take`: `SlotInv` says that the one request that is
  alive is the one whose cancel function is called, so that the single assignment
  to `cancelled` is the abstract step that stops every live request. A refused
  `Arrive` is `Refuse`, `Cleanup` is `End`: it clears `streamCancel` exactly when it
  is its own, which again needs `SlotInv`.
- `DaemonImplemented`: `Serve` may come from a bring-up that has long failed; that
  neither `ready` nor the verified label `started` is left then is `BootInv`.
  `Crash`, `Exits`, `StopExit` and `StopKill` are all `Die`; `Failed`, `Down` and
  `StopNotReady` are `Notice` or leave `ready` false.
- `SourceImplemented`: an attempt counts as opened once its pump was started. That
  `Start` finds no running pump is `LoopInv`; `Unpublish` behind `PumpEnded` finds
  the pump ended and on the other way out the context cancelled.
- `LifeImplemented`: a process that died stays visible as its code until a select
  has received it, first from the process, then from `waitCh`, so that the waiter is
  a stutter. Each of the four receives is `HandleExit` or, in the wait for the port,
  `Swallow`; `LifeInv` is what makes the received code the one the interface shows.
  `WaitTimeout` is the only `PortTimeout`. `Activate` is `Connect`: `LifeInv` gives
  it a process.
- `TelemetrySource`: `Replace` only makes the next recorder (a stutter), its `Start`
  is the interface's; a recorder is in the slot only after that (`SlotStarted`).

What the safety theorems do not need: no proof about `RecorderLoop` expands
`WatchdogsTicked`, so `OnePump` and the interface towards the consumers hold
however fast a daemon comes back; the timing matters to `RecordingResumes` only.

Safety halves of liveness properties. That a hang always has a way out can be
proved although that it is taken cannot: `BlockedIsWatched` for `RecordingResumes`
(the pump in `Read` is never alone), `HolderCanReturn` for `ShutdownEnds` of
`ControlPath` (the holder of the mutex is in `WriteMessage`, and when the peer does
not read, the supervisor is where a cancellation closes the connection under it).

Only model-checked: the liveness properties themselves (they need fairness, which
these provers do not handle) and the violations. Proved, but in no run: `CancelReachable`
(the refinement says more), `NotReadyWhileRestarting`, `SlotIsCurrent` and `ExpiredIsFinal` (the three
interfaces say more), `ActiveBalanced`, `NoOrphan`, `AttachedInSession`
(`OneWriter` says more), `UnpairedIsPast`, `NoChunkLeft` (part of `BytesAccounted`), `OneShot`,
`StreamsClosed`, `BlockedIsWatched`, `HolderCanReturn`, `GoodIsKept` and the interface of
`Telemetry`; TLC found no violation of them on the instances above.

## Not modelled, and why

- Static tone and mock Teddycloud: a test source and a development harness without
  state shared with anything.
- Configuration: `config.Load` is success or failure of a start; the parsing of a
  variable keeps no state.
- WAV header bytes, log lines, the division by elapsed time in the telemetry,
  backoff durations: no property is about them. Where a duration decides an order
  it is a named assumption (above). That the backoffs of the listener and of the
  recorder loop are never reset after a success is therefore invisible here.
- The stdout pipe of Soloist, which the supervisor never reads, and the client
  library of PulseAudio are external.
- A half-dead WebSocket whose reads fail while writes still block would keep
  `detach` waiting for the mutex until Soloist dies; in the model a connection
  whose reads fail fails its writes too.
- The moment between the kill of a pair process and its death: `PairingEndsFirst`
  is about processes nobody has killed.
- `PulseAudio.Start` is called only by tests; it is `startDaemon` with the same
  assignments as in `Run`. Of `PulseAudio.Stop` at the end of `main` only
  `PulseDaemon` speaks.

## Observations without a run

Disagreements between documents and code, each visible in a model:

- Exit code 10 of a binary at `SOLOIST_BIN` or on `PATH` deletes the one in the data
  dir, which may be good, and the next start finds the expired one again
  (`binary.go:196`); `GoodIsKept` is therefore about the other case.
- Soloist exits with 0 before `ws.port` was read: `waitWSAddr` returns `""` and a
  nil error, the only exit result is consumed, and the empty URL is dialled for
  ever (`supervisor.go:247`; DESIGN.md's exit-code table says restart with
  backoff). `CrashRestarts` is therefore about the other exit codes.
- A PulseAudio daemon that comes up after the socket timeout is probed as alive
  and never made ready (`pulse.go:190`; `audio.go:27` says that Ready reports a
  running daemon).
- `PulseAudio.Stop` may return before a bring-up in progress, which does not look
  at the context, forks its daemon (`pulse.go:158`; STRUCTURE.md says the daemon
  is gone), and `Run` may set `Ready` once more after `Stop` has cleared it: the
  interface allows both, so no property excludes them.
- A code 10 that arrives together with the port timeout is dropped; the expired
  build is started once more and says it again.
- `Snapshot.Chunks` is commented as chunks captured (`telemetry.go:13`); it is
  `ChunksSent`, without those dropped, which is what the rates expect.
- A replacement recorder that has overtaken both counters of its predecessor by
  the next sample is not noticed: the report is too low, never too high.
- `Stop` before `Start` uses up the one close of a recorder's stop channel (no
  caller does that), and the watchdog can close a fresh stream while the restarted
  daemon is not yet `Ready` (it costs one more backoff).

## Plan

1. The session loop of `ControlPath` over an interface of the connection that
   `SoloistSupervisor` implements, as a fourth link.
2. Timing of the daemon's restart as an explicit clock, which would turn
   `WatchdogsTicked` into a result for `RecordingResumes`.
3. `NextBackoff` and the WAV header as operators against reference definitions.
