---------------------------- MODULE RecorderLoop ----------------------------
(* runRecorder of cmd/shim/main.go: the loop that opens the monitor stream,   *)
(* runs a fresh PulseRecorder on it, publishes it in recorderSlot and opens   *)
(* another when the pump ends, and the watchdog that forces a stream closed   *)
(* while PulseAudio is not ready.  An attempt has its own stream, recorder,   *)
(* pump and watchdog, named by its number.  PulseAudio and ctx are external:  *)
(* all that is known of them is the interface AudioDaemon.                    *)
EXTENDS Integers

CONSTANT MaxAttempts   \* bound: how many streams are opened

ASSUME RecorderLoopAssumption == MaxAttempts \in Nat \ {0}

VARIABLES
    loop,       \* where runRecorder is
    attempt,    \* the current attempt, 0 before the first
    stream,     \* per attempt, the monitor stream
    pump,       \* per attempt, the pump goroutine
    watchdog,   \* per attempt, the watchdog goroutine
    recStop,    \* attempts whose PulseRecorder was stopped
    lostDone,   \* attempts whose lostDone channel is closed
    slot,       \* recorderSlot.src: an attempt, or 0 for nil
    daemonUp,   \* a daemon with the virtual_out sink serves
    ready,      \* pa.Ready()
    verified,   \* pactl succeeded, Ready does not say so yet
    ctxDone

pulse == <<daemonUp, ready, verified>>
goroutines == <<stream, pump, watchdog>>
ends == <<recStop, lostDone>>
loopVars == <<loop, attempt, goroutines, ends, slot>>
vars == <<loopVars, pulse, ctxDone>>

Attempts == 1..MaxAttempts

\* A stream is "lost" when its daemon died and its pipe just stays silent, and
\* "broken" when Read reports an error.
TypeOK ==
    /\ loop \in {"waitReady", "open", "start", "publish", "watch", "select",
                 "lost", "sleep", "cancelled", "returned"}
    /\ attempt \in 0..MaxAttempts
    /\ stream \in [Attempts -> {"none", "open", "lost", "broken", "closed"}]
    /\ pump \in [Attempts -> {"none", "top", "read", "done"}]
    /\ watchdog \in [Attempts -> {"none", "watching", "stopping", "ended"}]
    /\ recStop \subseteq Attempts
    /\ lostDone \subseteq Attempts
    /\ slot \in 0..MaxAttempts
    /\ {daemonUp, ready, verified, ctxDone} \subseteq BOOLEAN

\* PulseAudio and the signal, as PulseDaemon implements them.
Daemon == INSTANCE AudioDaemon WITH
    up <- daemonUp, ready <- ready, verified <- verified, stopped <- ctxDone

Init ==
    /\ loop = "waitReady" /\ attempt = 0
    /\ stream = [a \in Attempts |-> "none"]
    /\ pump = [a \in Attempts |-> "none"]
    /\ watchdog = [a \in Attempts |-> "none"]
    /\ recStop = {} /\ lostDone = {} /\ slot = 0
    /\ Daemon!Init

Running(a) == pump[a] \in {"top", "read"}

-----------------------------------------------------------------------------
(* External: what PulseAudio and the signal do, and what it does to streams.  *)

\* A daemon is restarted only after the loss of the last one was handled, at
\* least the 5 s start backoff earlier: 20 periods of the watchdog's ticker.
WatchdogsTicked ==
    /\ \A a \in Attempts : watchdog[a] \notin {"watching", "stopping"}
    /\ loop \notin {"start", "publish", "watch"}

DaemonServes == Daemon!Serve /\ WatchdogsTicked /\ UNCHANGED loopVars

DaemonVerified == Daemon!Verify /\ UNCHANGED loopVars

BecomesReady == Daemon!Report /\ UNCHANGED loopVars

\* The streams of a dead daemon break or go silent; the last lives (bound).
DaemonDies ==
    /\ Daemon!Die /\ attempt < MaxAttempts
    /\ \E end \in {"lost", "broken"} :
          stream' = [a \in Attempts |->
                        IF stream[a] = "open" THEN end ELSE stream[a]]
    /\ UNCHANGED <<loop, attempt, pump, watchdog, ends, slot>>

LossNoticed == Daemon!Notice /\ UNCHANGED loopVars

Cancel == Daemon!Stop /\ UNCHANGED loopVars

-----------------------------------------------------------------------------
(* The pump of PulseRecorder, as module Recorder has it. *)

PumpTop(a) ==
    /\ pump[a] = "top"
    /\ pump' = [pump EXCEPT ![a] =
                   IF ctxDone \/ a \in recStop THEN "done" ELSE "read"]
    /\ UNCHANGED <<loop, attempt, stream, watchdog, ends, slot, pulse, ctxDone>>

\* Read returns data from an open stream, io.EOF from a closed one and blocks
\* on one that went silent.
PumpRead(a) ==
    /\ pump[a] = "read" /\ stream[a] # "lost"
    /\ pump' = [pump EXCEPT ![a] = IF stream[a] = "open" THEN "top" ELSE "done"]
    /\ UNCHANGED <<loop, attempt, stream, watchdog, ends, slot, pulse, ctxDone>>

-----------------------------------------------------------------------------
(* The watchdog. *)

\* Bug variant: only lostDone ends the watchdog.
WatchdogEndsLostOnly(a) ==
    /\ watchdog[a] = "watching"
    /\ a \in lostDone
    /\ watchdog' = [watchdog EXCEPT ![a] = "ended"]
    /\ UNCHANGED <<loop, attempt, stream, pump, ends, slot, pulse, ctxDone>>

WatchdogEnds(a) ==
    /\ watchdog[a] = "watching"
    /\ ctxDone \/ a \in lostDone
    /\ watchdog' = [watchdog EXCEPT ![a] = "ended"]
    /\ UNCHANGED <<loop, attempt, stream, pump, ends, slot, pulse, ctxDone>>

\* A tick that finds PulseAudio not ready stops the recorder ...
WatchdogTick(a) ==
    /\ watchdog[a] = "watching" /\ ~ready
    /\ recStop' = recStop \cup {a}
    /\ watchdog' = [watchdog EXCEPT ![a] = "stopping"]
    /\ UNCHANGED <<loop, attempt, stream, pump, lostDone, slot, pulse, ctxDone>>

\* Bug variant: the watchdog stops the recorder, whose pump stays in Read.
WatchdogStopsOnly(a) ==
    /\ watchdog[a] = "stopping"
    /\ watchdog' = [watchdog EXCEPT ![a] = "ended"]
    /\ UNCHANGED <<loop, attempt, stream, pump, ends, slot, pulse, ctxDone>>

\* ... and closes the stream, so that a blocked Read returns.
WatchdogCloses(a) ==
    /\ watchdog[a] = "stopping"
    /\ stream' = [stream EXCEPT ![a] = "closed"]
    /\ watchdog' = [watchdog EXCEPT ![a] = "ended"]
    /\ UNCHANGED <<loop, attempt, pump, ends, slot, pulse, ctxDone>>

-----------------------------------------------------------------------------
(* runRecorder. *)

WaitReady ==
    /\ loop = "waitReady"
    /\ \/ ready /\ loop' = "open"
       \/ ctxDone /\ loop' = "returned"
    /\ UNCHANGED <<attempt, goroutines, ends, slot, pulse, ctxDone>>

\* ctx.Err() at the head of the loop or in openMonitorStream.
OpenCancelled ==
    /\ loop = "open" /\ ctxDone
    /\ loop' = "returned"
    /\ UNCHANGED <<attempt, goroutines, ends, slot, pulse, ctxDone>>

\* openMonitorStream: a serving daemon with the sink is enough, Ready is not
\* asked again (the last stream is opened on a ready one: bound).
Open ==
    /\ loop = "open" /\ daemonUp /\ attempt < MaxAttempts
    /\ ready \/ attempt + 1 < MaxAttempts
    /\ attempt' = attempt + 1
    /\ stream' = [stream EXCEPT ![attempt + 1] = "open"]
    /\ loop' = "start"
    /\ UNCHANGED <<pump, watchdog, ends, slot, pulse, ctxDone>>

Start ==
    /\ loop = "start"
    /\ pump' = [pump EXCEPT ![attempt] = "top"]
    /\ loop' = "publish"
    /\ UNCHANGED <<attempt, stream, watchdog, ends, slot, pulse, ctxDone>>

\* Bug variant: the slot is set from the counter that was already advanced.
PublishNext ==
    /\ loop = "publish"
    /\ slot' = attempt + 1
    /\ loop' = "watch"
    /\ UNCHANGED <<attempt, goroutines, ends, pulse, ctxDone>>

Publish ==
    /\ loop = "publish"
    /\ slot' = attempt
    /\ loop' = "watch"
    /\ UNCHANGED <<attempt, goroutines, ends, pulse, ctxDone>>

Watch ==
    /\ loop = "watch"
    /\ watchdog' = [watchdog EXCEPT ![attempt] = "watching"]
    /\ loop' = "select"
    /\ UNCHANGED <<attempt, stream, pump, ends, slot, pulse, ctxDone>>

\* Bug variant: the loop goes on as soon as the stream is gone, not when the
\* pump has ended.
PumpEndedEarly ==
    /\ loop = "select" /\ (stream[attempt] # "open" \/ pump[attempt] = "done")
    /\ lostDone' = lostDone \cup {attempt}
    /\ recStop' = recStop \cup {attempt}
    /\ stream' = [stream EXCEPT ![attempt] = "closed"]
    /\ loop' = "lost"
    /\ UNCHANGED <<attempt, pump, watchdog, slot, pulse, ctxDone>>

\* rec.Done(): end the watchdog, stop the recorder, close the stream.
PumpEnded ==
    /\ loop = "select" /\ pump[attempt] = "done"
    /\ lostDone' = lostDone \cup {attempt}
    /\ recStop' = recStop \cup {attempt}
    /\ stream' = [stream EXCEPT ![attempt] = "closed"]
    /\ loop' = "lost"
    /\ UNCHANGED <<attempt, pump, watchdog, slot, pulse, ctxDone>>

\* Bug variant: the dead recorder stays published.
UnpublishForgotten ==
    /\ loop \in {"lost", "cancelled"}
    /\ loop' = IF loop = "lost" THEN "sleep" ELSE "returned"
    /\ UNCHANGED <<attempt, goroutines, ends, slot, pulse, ctxDone>>

\* slot.set(nil), on both ways out of the select.
Unpublish ==
    /\ loop \in {"lost", "cancelled"}
    /\ slot' = 0
    /\ loop' = IF loop = "lost" THEN "sleep" ELSE "returned"
    /\ UNCHANGED <<attempt, goroutines, ends, pulse, ctxDone>>

Sleep ==
    /\ loop = "sleep"
    /\ \/ ctxDone /\ loop' = "returned"
       \/ loop' = "open"
    /\ UNCHANGED <<attempt, goroutines, ends, slot, pulse, ctxDone>>

\* ctx.Done(): stop the recorder and close the stream.
Cancelled ==
    /\ loop = "select" /\ ctxDone
    /\ recStop' = recStop \cup {attempt}
    /\ stream' = [stream EXCEPT ![attempt] = "closed"]
    /\ loop' = "cancelled"
    /\ UNCHANGED <<attempt, pump, watchdog, lostDone, slot, pulse, ctxDone>>

-----------------------------------------------------------------------------

LoopStep ==
    \/ WaitReady \/ OpenCancelled \/ Open \/ Start \/ Publish \/ Watch
    \/ PumpEnded \/ Unpublish \/ Sleep \/ Cancelled

Goroutine(a) ==
    PumpTop(a) \/ PumpRead(a) \/ WatchdogEnds(a) \/ WatchdogTick(a) \/ WatchdogCloses(a)

Environment ==
    DaemonServes \/ DaemonVerified \/ BecomesReady \/ DaemonDies \/ LossNoticed \/ Cancel

Next == LoopStep \/ (\E a \in Attempts : Goroutine(a)) \/ Environment

Spec == Init /\ [][Next]_vars

(* The goroutines are scheduled, each on its own; a ticker's tick is taken    *)
(* while Ready stays false.  PulseAudio brings a lost daemon back and reports  *)
(* what it has verified and lost (module PulseDaemon shows where it does not). *)
(* A daemon does not always crash before it is verified, before that is       *)
(* reported or before the loop's next poll finds it: those are strongly fair. *)
Fairness ==
    /\ SF_vars(LoopStep)
    /\ \A a \in Attempts :
          /\ WF_vars(PumpTop(a) \/ PumpRead(a))
          /\ WF_vars(WatchdogEnds(a) \/ WatchdogTick(a) \/ WatchdogCloses(a))
    /\ WF_vars(DaemonServes) /\ SF_vars(DaemonVerified)
    /\ WF_vars(BecomesReady) /\ SF_vars(daemonUp /\ BecomesReady)
    /\ WF_vars(LossNoticed)

FairSpec == Spec /\ Fairness

-----------------------------------------------------------------------------
(* Properties. *)

\* Two pumps never run at once: the pump of an attempt has ended before the next
\* attempt starts its own, whether the stream broke, went silent and was closed
\* by the watchdog, or was closed under a pump that was reading.
OnePump == \A a, b \in Attempts : Running(a) /\ Running(b) => a = b

\* A consumer is never handed the recorder of an attempt that was given up: in
\* the backoff, while opening and after the return the slot is nil, and else it
\* names the current attempt.
SlotIsCurrent ==
    /\ slot \in {0, attempt}
    /\ loop \in {"waitReady", "open", "sleep", "returned"} => slot = 0

\* For its consumers the loop is the interface AudioSource: one pump at a time,
\* a recorder is published once, after its start, and taken back when its pump
\* has ended or the program stops.  (Before its Start an attempt is not opened.)
Source == INSTANCE AudioSource WITH
    running   <- IF attempt \in Attempts /\ Running(attempt) THEN attempt ELSE 0,
    published <- slot,
    opened    <- IF loop = "start" THEN attempt - 1 ELSE attempt,
    fresh     <- loop = "publish",
    stopped   <- ctxDone

\* runRecorder implements what server.New's callback may rely on.
ImplementsAudioSource == Source!Spec

\* Somebody will end a pump that reads a stream: the watchdog watches it, or is
\* about to close it, or the loop has not started the watchdog yet, or the
\* program stops.  A pump is never left alone with a stream that fell silent.
BlockedIsWatched ==
    \A a \in Attempts :
        Running(a) /\ stream[a] \in {"open", "lost"} =>
            \/ a = attempt /\ loop \in {"publish", "watch"}
            \/ watchdog[a] \in {"watching", "stopping"}
            \/ ctxDone

\* No monitor stream is left open: all are closed when the loop has given the
\* attempt up, so that clients do not pile up on the daemon.
StreamsClosed ==
    loop \in {"open", "sleep", "returned"} =>
        \A a \in Attempts : stream[a] \in {"none", "closed"}

\* Recording always comes back: a daemon that dies silently, at whatever point
\* of an attempt, does not leave the pump blocked for good.
RecordingResumes ==
    ~ctxDone ~> (ctxDone \/ (loop = "select" /\ stream[attempt] = "open"
                               /\ Running(attempt) /\ slot = attempt))

\* Cancelling ctx ends the loop and every goroutine it started.
ShutdownEnds ==
    ctxDone ~> /\ loop = "returned"
               /\ \A a \in Attempts : ~Running(a) /\ watchdog[a] \in {"none", "ended"}
=============================================================================
