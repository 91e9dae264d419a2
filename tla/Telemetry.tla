------------------------------ MODULE Telemetry ------------------------------
(* The pipeline telemetry on top of the recorder: runTelemetry of             *)
(* cmd/shim/main.go reads the counters of whatever recorder recorderSlot has  *)
(* and telemetry.Sampler turns two readings into rates, while runRecorder     *)
(* replaces the recorder, whose counters then start again at zero.  The       *)
(* variables of Recorder are those of the latest recorder.  The bytes         *)
(* delivered come from one counter of the server that only grows; they and    *)
(* the division by the elapsed time are left out.                             *)
EXTENDS Recorder

CONSTANTS MaxRecorders,  \* bound: how many recorders are made
          Modulus        \* 2^64 in the code: differences are taken modulo this

ASSUME TelemetryAssumption ==
    /\ MaxRecorders \in Nat \ {0}
    /\ Modulus \in Nat /\ Modulus > MaxBytes

VARIABLES
    epoch,        \* recorders made so far
    slot,         \* recorderSlot: before, while and after it has the latest one
    pastChunks, pastDropped,  \* history: what the earlier recorders counted
    held,         \* the recorder that runTelemetry reads, "no" between two ticks
    counted,      \* snap.Chunks is set
    snapChunks,   \* snap.Chunks
    lastChunks, lastDropped,  \* the counters of a held recorder that was replaced
    set, prevChunks, prevDropped,  \* Sampler.set and Sampler.prev
    sumChunks, sumDropped     \* history: the sums of the reported differences

loopVars == <<epoch, slot, pastChunks, pastDropped>>
prevVars == <<set, prevChunks, prevDropped>>
sums == <<sumChunks, sumDropped>>
reading == <<held, counted, snapChunks, lastChunks, lastDropped>>
allVars == <<vars, loopVars, reading, prevVars, sums>>

TelemetryTypeOK ==
    /\ TypeOK
    /\ epoch \in 1..MaxRecorders
    /\ slot \in {"unset", "set", "cleared"}
    /\ held \in {"no", "latest", "replaced", "nil"}
    /\ {set, counted} \subseteq BOOLEAN
    /\ {pastChunks, pastDropped, snapChunks, lastChunks, lastDropped, prevChunks,
        prevDropped, sumChunks, sumDropped} \subseteq Nat

TelemetryInit ==
    /\ Init
    /\ epoch = 1 /\ slot = "unset"
    /\ pastChunks = 0 /\ pastDropped = 0
    /\ held = "no" /\ counted = FALSE /\ snapChunks = 0
    /\ lastChunks = 0 /\ lastDropped = 0
    /\ set = FALSE /\ prevChunks = 0 /\ prevDropped = 0
    /\ sumChunks = 0 /\ sumDropped = 0

-----------------------------------------------------------------------------
(* runRecorder. *)

\* slot.set(rec), after rec.Start.
Publish ==
    /\ started /\ slot = "unset"
    /\ slot' = "set"
    /\ UNCHANGED <<vars, epoch, pastChunks, pastDropped, reading, prevVars, sums>>

\* slot.set(nil): the pump has ended or the context is cancelled.
Unpublish ==
    /\ slot = "set" /\ (pump = "done" \/ ctxDone)
    /\ slot' = "cleared"
    /\ UNCHANGED <<vars, epoch, pastChunks, pastDropped, reading, prevVars, sums>>

\* A PulseRecorder that was just made.
Fresh ==
    /\ started' = FALSE /\ stop' = "nil" /\ stopped' = FALSE /\ pump' = "none"
    /\ read' = 0 /\ sourceErr' = FALSE /\ acc' = 0 /\ buffered' = 0
    /\ chunksSent' = 0 /\ dropped' = 0
    /\ received' = 0 /\ flushed' = 0 /\ flushing' = FALSE

\* After the backoff the loop makes a fresh recorder; the counters of the last
\* one, whose pump has ended, stay what they are.
Replace ==
    /\ slot = "cleared" /\ pump = "done" /\ ~ctxDone /\ epoch < MaxRecorders
    /\ Fresh /\ UNCHANGED ctxDone
    /\ epoch' = epoch + 1
    /\ slot' = "unset"
    /\ pastChunks' = pastChunks + chunksSent
    /\ pastDropped' = pastDropped + dropped
    /\ held' = IF held = "latest" THEN "replaced" ELSE held
    /\ IF held = "latest"
       THEN lastChunks' = chunksSent /\ lastDropped' = dropped
       ELSE UNCHANGED <<lastChunks, lastDropped>>
    /\ UNCHANGED <<counted, snapChunks, prevVars, sums>>

-----------------------------------------------------------------------------
(* runTelemetry. *)

\* A tick: slot.metrics().  Of no recorder both counts stay zero.
Fetch ==
    /\ held = "no"
    /\ \/ slot = "set" /\ held' = "latest" /\ counted' = FALSE
       \/ slot # "set" /\ held' = "nil" /\ counted' = TRUE
    /\ UNCHANGED <<vars, loopVars, snapChunks, lastChunks, lastDropped, prevVars,
                   sums>>

\* ChunksSent of the recorder that metrics returned, replaced by now or not.
ReadChunks ==
    /\ held \in {"latest", "replaced"} /\ ~counted
    /\ snapChunks' = IF held = "latest" THEN chunksSent ELSE lastChunks
    /\ counted' = TRUE
    /\ UNCHANGED <<vars, loopVars, held, lastChunks, lastDropped, prevVars, sums>>

\* Dropped of the same recorder, which may have been replaced by now.
SnapDropped ==
    CASE held = "latest"   -> dropped
      [] held = "replaced" -> lastDropped
      [] OTHER             -> 0

\* The difference of two uint64.
Difference(a, b) == (a - b) % Modulus

\* Bug variant: only the chunks are compared with the last sample.
BackwardsChunksOnly == snapChunks < prevChunks

\* A counter lower than the last time is that of another recorder, or of none.
Backwards == snapChunks < prevChunks \/ SnapDropped < prevDropped

\* Sampler.Sample: report the differences, or only take a new baseline.
Sample ==
    /\ held # "no" /\ counted
    /\ IF ~set \/ Backwards
       THEN UNCHANGED sums
       ELSE /\ sumChunks' = sumChunks + Difference(snapChunks, prevChunks)
            /\ sumDropped' = sumDropped + Difference(SnapDropped, prevDropped)
    /\ set' = TRUE
    /\ prevChunks' = snapChunks /\ prevDropped' = SnapDropped
    /\ held' = "no" /\ counted' = FALSE /\ snapChunks' = 0
    /\ lastChunks' = 0 /\ lastDropped' = 0
    /\ UNCHANGED <<vars, loopVars>>

-----------------------------------------------------------------------------

RecorderStep == Next /\ UNCHANGED <<loopVars, reading, prevVars, sums>>

TelemetryNext ==
    \/ RecorderStep \/ Publish \/ Unpublish \/ Replace
    \/ Fetch \/ ReadChunks \/ Sample

TelemetrySpec == TelemetryInit /\ [][TelemetryNext]_allVars

\* The pump as in Recorder; nothing else has to happen.
TelemetryFairSpec ==
    /\ TelemetrySpec
    /\ WF_allVars(Pump /\ UNCHANGED <<loopVars, reading, prevVars, sums>>)

-----------------------------------------------------------------------------
(* Properties. *)

\* The telemetry never reports more chunks, sent or dropped, than recorders have
\* counted: however a replacement falls between two samples or into the middle of
\* one, no difference is taken below zero and nothing is reported twice (Sample's
\* baseline, runTelemetry's reads of slot and counters).
NeverOverreports ==
    /\ sumChunks <= pastChunks + chunksSent
    /\ sumDropped <= pastDropped + dropped

\* What runTelemetry reads is the recorder loop as its other readers know it: the
\* life of slot and recorders here stays within the interface AudioSource.
Source == INSTANCE AudioSource WITH
    running   <- IF pump \in {"top", "read", "emit", "count"} THEN epoch ELSE 0,
    published <- IF slot = "set" THEN epoch ELSE 0,
    opened    <- IF started THEN epoch ELSE epoch - 1,
    fresh     <- started /\ slot = "unset",
    stopped   <- ctxDone

\* recorderSlot.metrics sees a recorder only between its set and its removal.
ImplementsAudioSource == Source!Spec
=============================================================================
