------------------------------ MODULE Recorder ------------------------------
(* audio.PulseRecorder (internal/audio/recorder.go) under every order of its  *)
(* calls: the pump goroutine cuts what the source returns into chunks for a   *)
(* buffered channel while others call Start, Stop and Flush and receive.      *)
(* Audio is abstracted to byte counts, the channel to its length.             *)
EXTENDS Integers

CONSTANTS ChunkSize,   \* PulseRecorder.ChunkSize, in bytes
          BufferLen,   \* PulseRecorder.BufferLen, in chunks
          MaxBytes     \* bound: how many bytes the source has

ASSUME RecorderAssumption ==
    /\ ChunkSize \in Nat \ {0}
    /\ BufferLen \in Nat \ {0}
    /\ MaxBytes \in Nat

VARIABLES
    started,     \* the sync.Once was used
    stop,        \* the stop channel: "nil", "open" or "closed"
    stopped,     \* PulseRecorder.stopped
    ctxDone,     \* the context given to Start is done
    pump,        \* where the pump goroutine is
    read,        \* bytes the source has returned
    acc,         \* len(acc)
    sourceErr,   \* the last Read returned an error
    buffered,    \* len(chunkCh)
    chunksSent, dropped,
    received,    \* chunks received by consumers
    flushed,     \* chunks discarded by Flush
    flushing     \* a Flush is draining and holds p.mu

control == <<started, stop, stopped, ctxDone>>
source == <<read, sourceErr>>
counters == <<chunksSent, dropped>>
taken == <<received, flushed>>
vars == <<control, pump, source, acc, buffered, counters, taken, flushing>>

TypeOK ==
    /\ {started, stopped, ctxDone, sourceErr, flushing} \subseteq BOOLEAN
    /\ stop \in {"nil", "open", "closed"}
    /\ pump \in {"none", "top", "read", "emit", "count", "done"}
    /\ read \in 0..MaxBytes
    /\ acc \in 0..(2 * ChunkSize - 1)
    /\ buffered \in 0..BufferLen
    /\ {chunksSent, dropped, received, flushed} \subseteq Nat

Init ==
    /\ started = FALSE /\ stop = "nil" /\ stopped = FALSE
    /\ ctxDone = FALSE /\ pump = "none"
    /\ read = 0 /\ sourceErr = FALSE /\ acc = 0
    /\ buffered = 0 /\ chunksSent = 0 /\ dropped = 0
    /\ received = 0 /\ flushed = 0 /\ flushing = FALSE

-----------------------------------------------------------------------------
(* The callers.  Start, Stop and Flush need p.mu. *)

\* The first Start makes a new stop channel and spawns the pump.
Start ==
    /\ ~flushing
    /\ started' = TRUE
    /\ IF started THEN UNCHANGED <<stop, pump>> ELSE stop' = "open" /\ pump' = "top"
    /\ UNCHANGED <<stopped, ctxDone, source, acc, buffered, counters, taken,
                   flushing>>

\* The first Stop closes the stop channel there is, or one it makes.
Stop ==
    /\ ~flushing
    /\ stop' = IF stopped THEN stop ELSE "closed"
    /\ stopped' = TRUE
    /\ UNCHANGED <<started, ctxDone, pump, source, acc, buffered, counters,
                   taken, flushing>>

Cancel ==
    /\ ~ctxDone
    /\ ctxDone' = TRUE
    /\ UNCHANGED <<started, stop, stopped, pump, source, acc, buffered,
                   counters, taken, flushing>>

Receive ==
    /\ buffered > 0
    /\ buffered' = buffered - 1
    /\ received' = received + 1
    /\ UNCHANGED <<control, pump, source, acc, counters, flushed, flushing>>

BeginFlush ==
    /\ ~flushing
    /\ flushing' = TRUE
    /\ UNCHANGED <<control, pump, source, acc, buffered, counters, taken>>

FlushOne ==
    /\ flushing /\ buffered > 0
    /\ buffered' = buffered - 1
    /\ flushed' = flushed + 1
    /\ UNCHANGED <<control, pump, source, acc, counters, received, flushing>>

EndFlush ==
    /\ flushing /\ buffered = 0
    /\ flushing' = FALSE
    /\ UNCHANGED <<control, pump, source, acc, buffered, counters, taken>>

-----------------------------------------------------------------------------
(* The pump. *)

\* Bug variant: the stop channel is not watched.
PumpTopIgnoresStop ==
    /\ pump = "top"
    /\ pump' = IF ctxDone THEN "done" ELSE "read"
    /\ UNCHANGED <<control, source, acc, buffered, counters, taken, flushing>>

PumpTop ==
    /\ pump = "top"
    /\ pump' = IF ctxDone \/ stop = "closed" THEN "done" ELSE "read"
    /\ UNCHANGED <<control, source, acc, buffered, counters, taken, flushing>>

\* Bug variant: data that comes with an error is kept but not cut up.
PumpReadErrorFirst ==
    /\ pump = "read"
    /\ \E n \in 0..ChunkSize, err \in BOOLEAN :
          /\ read + n <= MaxBytes
          /\ n > 0 \/ err \/ read = MaxBytes
          /\ read' = read + n
          /\ acc' = acc + n
          /\ sourceErr' = err
          /\ pump' = IF err THEN "done" ELSE "emit"
    /\ UNCHANGED <<control, buffered, counters, taken, flushing>>

\* Source.Read fills at most a chunk; it may return bytes and an error at once.
\* A source at its bound returns nothing more, so that it need not end.
PumpRead ==
    /\ pump = "read"
    /\ \E n \in 0..ChunkSize, err \in BOOLEAN :
          /\ read + n <= MaxBytes
          /\ n > 0 \/ err \/ read = MaxBytes
          /\ read' = read + n
          /\ acc' = acc + n
          /\ sourceErr' = err
    /\ pump' = "emit"
    /\ UNCHANGED <<control, buffered, counters, taken, flushing>>

\* Bug variant: a chunk for a full channel is dropped without a count.
PumpEmitDropsUncounted ==
    /\ pump = "emit" /\ acc >= ChunkSize
    /\ acc' = acc - ChunkSize
    /\ \/ /\ buffered < BufferLen
          /\ buffered' = buffered + 1
          /\ pump' = "count"
       \/ /\ buffered = BufferLen
          /\ UNCHANGED <<buffered, pump>>
    /\ UNCHANGED <<control, source, counters, taken, flushing>>

\* Bug variant: a dropped chunk is counted as sent.
PumpEmitCountsAll ==
    /\ pump = "emit" /\ acc >= ChunkSize
    /\ acc' = acc - ChunkSize
    /\ buffered' = IF buffered < BufferLen THEN buffered + 1 ELSE buffered
    /\ pump' = "count"
    /\ UNCHANGED <<control, source, counters, taken, flushing>>

\* The non-blocking send of one chunk; its default branch drops the chunk.
PumpEmit ==
    /\ pump = "emit" /\ acc >= ChunkSize
    /\ acc' = acc - ChunkSize
    /\ \/ /\ buffered < BufferLen
          /\ buffered' = buffered + 1
          /\ pump' = "count"
          /\ UNCHANGED dropped
       \/ /\ buffered = BufferLen
          /\ dropped' = dropped + 1
          /\ UNCHANGED <<buffered, pump>>
    /\ UNCHANGED <<control, source, chunksSent, taken, flushing>>

\* chunksSent.Add(1), after the send: a consumer may have the chunk by now.
PumpCount ==
    /\ pump = "count"
    /\ chunksSent' = chunksSent + 1
    /\ pump' = "emit"
    /\ UNCHANGED <<control, source, acc, buffered, dropped, taken, flushing>>

\* Bug variant: the pump goes round with complete chunks still in acc.
PumpEmittedEarly ==
    /\ pump = "emit"
    /\ pump' = IF sourceErr THEN "done" ELSE "top"
    /\ UNCHANGED <<control, source, acc, buffered, counters, taken, flushing>>

\* No complete chunk is left: return on a read error, else go round.
PumpEmitted ==
    /\ pump = "emit" /\ acc < ChunkSize
    /\ pump' = IF sourceErr THEN "done" ELSE "top"
    /\ UNCHANGED <<control, source, acc, buffered, counters, taken, flushing>>

-----------------------------------------------------------------------------

Pump == PumpTop \/ PumpRead \/ PumpEmit \/ PumpCount \/ PumpEmitted

Next ==
    \/ Start \/ Stop \/ Cancel \/ Receive \/ BeginFlush \/ FlushOne \/ EndFlush
    \/ Pump

Spec == Init /\ [][Next]_vars

(* The pump goroutine runs and its source answers; runRecorder closes a       *)
(* source that does not (module RecorderLoop).                                *)
FairSpec == Spec /\ WF_vars(Pump)

-----------------------------------------------------------------------------
(* Properties. *)

\* Chunks the consumers or Flush took are those the channel was sent, whatever
\* the interleaving of pump, Flush and receives; the counter the telemetry reads
\* trails the send by at most the one step the pump is in.
SentAccounted ==
    buffered + received + flushed =
        chunksSent + (IF pump = "count" THEN 1 ELSE 0)

\* Every byte the source returned is in a chunk that was sent or counted as
\* dropped, or waits in acc.
BytesCounted ==
    read = (chunksSent + dropped + (IF pump = "count" THEN 1 ELSE 0)) * ChunkSize
           + acc

\* When the pump goes round or ends at most a partial chunk waits in acc.
NoChunkLeft == pump \in {"top", "done"} => acc < ChunkSize

\* No audio disappears unseen: every byte is counted, and what the end of the
\* pump leaves behind is less than a chunk, through short reads, a full channel
\* and a final Read with data and io.EOF, which is cut up before pump returns.
BytesAccounted == BytesCounted /\ NoChunkLeft

\* Start is one-shot: a pump that has ended is never followed by another on the
\* same recorder, whose done channel is closed; "none" is a recorder made afresh
\* (module Telemetry).
OneShot == [][pump = "done" => pump' \in {"done", "none"}]_vars

\* A stop channel that is closed while the pump has it ends the pump.  (That is
\* weaker than the comment of Stop: a Stop before Start uses up the one close, and
\* the channel Start then makes is never closed; no caller does that.)
StopClosedEndsPump == (stop = "closed" /\ started) ~> pump = "done"
=============================================================================
