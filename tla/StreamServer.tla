---------------------------- MODULE StreamServer ----------------------------
(* The /stream handler of internal/server/stream.go: concurrent requests that *)
(* hot-swap one consumer slot, flush the recorder's stale pre-fill, send play *)
(* and copy chunks to their client.  Each request is a goroutine with a pc;   *)
(* the recorder it reads was published by runRecorder (cmd/shim/main.go), of  *)
(* which the interface AudioSource is all that is known, up to the shutdown.  *)
(* A chunk is abstracted to the set of requests for which it is pre-fill:     *)
(* those that began their Flush while the chunk was already in the channel.   *)
EXTENDS Integers, Sequences

CONSTANTS Requests,      \* the /stream requests that may arrive
          None,          \* nil, for streamCancel and for "no play yet"
          MaxRecorders,  \* bound: how many recorders runRecorder opens
          BufferLen,     \* PulseRecorder.BufferLen, in chunks
          Batch          \* streamFlushThreshold, in chunks

ASSUME StreamServerAssumption ==
    /\ None \notin Requests
    /\ MaxRecorders \in Nat \ {0}
    /\ BufferLen \in Nat \ {0}
    /\ Batch \in Nat \ {0}

VARIABLES
    pump,          \* the recorder whose pump goroutine runs, 0 when none does
    slot,          \* recorderSlot.src: the published recorder, 0 for nil
    opened,        \* how many recorders were opened so far
    fresh,         \* the last of them is not published yet
    chan,          \* chan[g]: the buffered channel of recorder g
    pc, src, myID, buffered,      \* the handler's local state, per request
    streamID, streamCancel,       \* Server, guarded by streamMu
    active,        \* Server.active
    cancelled,     \* requests whose cancel was called by a later request
    closed,        \* requests whose client went away (r.Context() is done)
    lastPlay,      \* the request whose URI was passed to s.play last
    fed            \* history: what a request took from the channel so far

recorderVars == <<pump, slot, opened, fresh>>
swapVars == <<streamID, streamCancel, cancelled>>
serverVars == <<swapVars, active>>
locals == <<src, myID, buffered>>
observed == <<lastPlay, fed>>
handlerVars == <<serverVars, pc, locals, closed, observed>>
vars == <<recorderVars, chan, handlerVars>>

Recorders == 1..MaxRecorders

Labels == {"idle", "enter", "flush", "drain", "play", "header", "select",
           "write", "exit", "cleanup", "done", "refused"}

\* The part of the handler between its two streamMu sections.
Holding == {"flush", "drain", "play", "header", "select", "write", "exit",
            "cleanup"}

\* The part in which the request is counted by ActiveStreams.
Counted == {"select", "write", "exit"}

TypeOK ==
    /\ pump \in 0..MaxRecorders
    /\ slot \in 0..MaxRecorders
    /\ opened \in 0..MaxRecorders
    /\ fresh \in BOOLEAN
    /\ chan \in [Recorders -> Seq(SUBSET Requests)]
    /\ pc \in [Requests -> Labels]
    /\ src \in [Requests -> 0..MaxRecorders]
    /\ myID \in [Requests -> Nat]
    /\ buffered \in [Requests -> 0..Batch]
    /\ streamID \in Nat
    /\ streamCancel \in Requests \cup {None}
    /\ active \in Int
    /\ cancelled \subseteq Requests
    /\ closed \subseteq Requests
    /\ lastPlay \in Requests \cup {None}
    /\ fed \in [Requests -> {"nothing", "fresh", "stale"}]

\* The recorder loop, until the program is told to stop.
Source == INSTANCE AudioSource WITH
    running <- pump, published <- slot, opened <- opened, fresh <- fresh,
    stopped <- FALSE

Init ==
    /\ Source!Init
    /\ chan = [g \in Recorders |-> <<>>]
    /\ pc = [r \in Requests |-> "idle"]
    /\ src = [r \in Requests |-> 0]
    /\ myID = [r \in Requests |-> 0]
    /\ buffered = [r \in Requests |-> 0]
    /\ streamID = 0 /\ streamCancel = None
    /\ active = 0
    /\ cancelled = {} /\ closed = {}
    /\ lastPlay = None
    /\ fed = [r \in Requests |-> "nothing"]

GoTo(r, label) == pc' = [pc EXCEPT ![r] = label]

\* The handler's ctx is done: the client is gone or a later request cancelled it.
CtxDone(r) == r \in closed \cup cancelled

\* PulseRecorder.mu is held by a request that drains recorder g.
Flushing(g) == \E q \in Requests : pc[q] = "drain" /\ src[q] = g

-----------------------------------------------------------------------------
(* The recorder loop, as far as the handler sees it. *)

StartRecorder == Source!Start /\ opened < MaxRecorders /\ UNCHANGED <<chan, handlerVars>>

PublishRecorder == Source!Publish /\ UNCHANGED <<chan, handlerVars>>

\* The pump's non-blocking send; a chunk for a full channel is dropped.
PumpSend ==
    /\ pump # 0
    /\ Len(chan[pump]) < BufferLen
    /\ chan' = [chan EXCEPT ![pump] = Append(@, {})]
    /\ UNCHANGED <<recorderVars, serverVars, pc, locals, closed, observed>>

\* The pump returns; its channel is never closed.
PumpExit == Source!PumpEnds /\ UNCHANGED <<chan, handlerVars>>

UnpublishRecorder == Source!Unpublish /\ UNCHANGED <<chan, handlerVars>>

-----------------------------------------------------------------------------
(* The handler. *)

\* URI check and s.src(): a bad URI gives 400, a nil source 503.
Arrive(r) ==
    /\ pc[r] = "idle"
    /\ \/ GoTo(r, "refused") /\ UNCHANGED src
       \/ slot # 0 /\ GoTo(r, "enter") /\ src' = [src EXCEPT ![r] = slot]
    /\ UNCHANGED <<recorderVars, serverVars, chan, myID, buffered, closed,
                   observed>>

\* Bug variants (not part of Next): the slot is taken before its holder is
\* cancelled; the nil test of streamCancel is missing.
EnterSwappedOrder(r) ==
    /\ pc[r] = "enter"
    /\ GoTo(r, "flush")
    /\ streamID' = streamID + 1
    /\ myID' = [myID EXCEPT ![r] = streamID + 1]
    /\ streamCancel' = r
    /\ cancelled' = cancelled \cup {r}
    /\ UNCHANGED <<recorderVars, chan, src, buffered, active, closed, observed>>

EnterNilUnchecked(r) ==
    /\ pc[r] = "enter"
    /\ GoTo(r, "flush")
    /\ cancelled' = cancelled \cup {streamCancel}
    /\ streamID' = streamID + 1
    /\ myID' = [myID EXCEPT ![r] = streamID + 1]
    /\ streamCancel' = r
    /\ UNCHANGED <<recorderVars, chan, src, buffered, active, closed, observed>>

\* The streamMu section: cancel the slot's holder, then take the slot.
Enter(r) ==
    /\ pc[r] = "enter"
    /\ GoTo(r, "flush")
    /\ cancelled' = cancelled \cup ({streamCancel} \ {None})
    /\ streamID' = streamID + 1
    /\ myID' = [myID EXCEPT ![r] = streamID + 1]
    /\ streamCancel' = r
    /\ UNCHANGED <<recorderVars, chan, src, buffered, active, closed, observed>>

\* PulseRecorder.Flush takes p.mu; what is buffered now is pre-fill for r.
BeginFlush(r) ==
    /\ pc[r] = "flush"
    /\ ~Flushing(src[r])
    /\ GoTo(r, "drain")
    /\ chan' = [chan EXCEPT ![src[r]] =
                    [i \in 1..Len(@) |-> @[i] \cup {r}]]
    /\ UNCHANGED <<recorderVars, serverVars, locals, closed, observed>>

Drain(r) ==
    /\ pc[r] = "drain"
    /\ chan[src[r]] # <<>>
    /\ chan' = [chan EXCEPT ![src[r]] = Tail(@)]
    /\ UNCHANGED <<recorderVars, serverVars, pc, locals, closed, observed>>

\* Bug variants: the flush discards one chunk; it drains until a close.
EndFlushEarly(r) ==
    /\ pc[r] = "drain"
    /\ Len(chan[src[r]]) < BufferLen
    /\ GoTo(r, "play")
    /\ UNCHANGED <<recorderVars, serverVars, chan, locals, closed, observed>>

EndFlushOnClose(r) ==
    /\ pc[r] = "drain"
    /\ chan[src[r]] = <<>> /\ src[r] # pump
    /\ GoTo(r, "play")
    /\ UNCHANGED <<recorderVars, serverVars, chan, locals, closed, observed>>

\* The drain loop's default branch: the channel was found empty.
EndFlush(r) ==
    /\ pc[r] = "drain"
    /\ chan[src[r]] = <<>>
    /\ GoTo(r, "play")
    /\ UNCHANGED <<recorderVars, serverVars, chan, locals, closed, observed>>

\* s.play(uri), outside streamMu; its error is only logged.
Play(r) ==
    /\ pc[r] = "play"
    /\ lastPlay' = r
    /\ GoTo(r, "header")
    /\ UNCHANGED <<recorderVars, serverVars, chan, locals, closed, fed>>

\* The WAV header, active.Add(1) and src.Chunks(), which needs p.mu.
WriteHeader(r) ==
    /\ pc[r] = "header"
    /\ ~Flushing(src[r])
    /\ active' = active + 1
    /\ GoTo(r, "select")
    /\ UNCHANGED <<recorderVars, swapVars, chan, locals, closed, observed>>

\* streamChunks receives a chunk.  bw.Write copies it, and first writes the
\* batch to the client when the buffer is full.
Take(r) ==
    /\ pc[r] = "select"
    /\ chan[src[r]] # <<>>
    /\ chan' = [chan EXCEPT ![src[r]] = Tail(@)]
    /\ fed' = [fed EXCEPT ![r] =
                  IF r \in Head(chan[src[r]]) \/ @ = "stale" THEN "stale"
                  ELSE "fresh"]
    /\ \/ /\ buffered[r] < Batch
          /\ buffered' = [buffered EXCEPT ![r] = @ + 1]
          /\ UNCHANGED pc
       \/ /\ buffered[r] = Batch
          /\ GoTo(r, "write")
          /\ UNCHANGED buffered
    /\ UNCHANGED <<recorderVars, serverVars, src, myID, closed, lastPlay>>

\* The write to the client returns.  On a dead connection it fails, and so does
\* every later one: bufio keeps the error and its full buffer.
WriteReturns(r) ==
    /\ pc[r] = "write"
    /\ GoTo(r, "select")
    /\ buffered' = [buffered EXCEPT ![r] = IF r \in closed THEN Batch ELSE 1]
    /\ UNCHANGED <<recorderVars, serverVars, chan, src, myID, closed, observed>>

\* Bug variant: the loop watches the request context, not the cancelled one.
IgnoreCancel(r) ==
    /\ pc[r] = "select"
    /\ r \in closed
    /\ GoTo(r, "exit")
    /\ UNCHANGED <<recorderVars, serverVars, chan, locals, closed, observed>>

\* select chose ctx.Done(): leave the loop for the final bw.Flush.
StopStream(r) ==
    /\ pc[r] = "select"
    /\ CtxDone(r)
    /\ GoTo(r, "exit")
    /\ UNCHANGED <<recorderVars, serverVars, chan, locals, closed, observed>>

\* The final bw.Flush returns and the deferred active.Add(-1) runs.
Leave(r) ==
    /\ pc[r] = "exit"
    /\ active' = active - 1
    /\ GoTo(r, "cleanup")
    /\ UNCHANGED <<recorderVars, swapVars, chan, locals, closed, observed>>

\* Bug variant: the slot is cleared whoever holds it.
CleanupUnguarded(r) ==
    /\ pc[r] = "cleanup"
    /\ streamCancel' = None
    /\ GoTo(r, "done")
    /\ UNCHANGED <<recorderVars, streamID, cancelled, chan, locals, active,
                   closed, observed>>

\* The deferred streamMu section: give the slot back if it is still r's.
Cleanup(r) ==
    /\ pc[r] = "cleanup"
    /\ streamCancel' = IF streamID = myID[r] THEN None ELSE streamCancel
    /\ GoTo(r, "done")
    /\ UNCHANGED <<recorderVars, streamID, cancelled, chan, locals, active,
                   closed, observed>>

\* External: Teddycloud drops the connection, net/http cancels r.Context().
Disconnect(r) ==
    /\ pc[r] \notin {"idle", "done", "refused"}
    /\ r \notin closed
    /\ closed' = closed \cup {r}
    /\ UNCHANGED <<recorderVars, serverVars, chan, pc, locals, observed>>

-----------------------------------------------------------------------------

Request(r) ==
    \/ Arrive(r) \/ Enter(r) \/ BeginFlush(r) \/ Drain(r) \/ EndFlush(r)
    \/ Play(r) \/ WriteHeader(r) \/ Take(r) \/ WriteReturns(r)
    \/ StopStream(r) \/ Leave(r) \/ Cleanup(r) \/ Disconnect(r)

SourceStep == StartRecorder \/ PublishRecorder \/ PumpExit \/ UnpublishRecorder

Next ==
    \/ SourceStep \/ PumpSend
    \/ \E r \in Requests : Request(r)

Spec == Init /\ [][Next]_vars

(* Scheduling.  Goroutines are scheduled, so every handler step that stays    *)
(* enabled is taken.  A drain step takes microseconds and the pump needs      *)
(* 46 ms for a chunk, so whatever the channel holds the drain gets its turn   *)
(* before the pump: Drain is strongly fair at each length, and so is EndFlush.*)
(* StopStream is strongly fair: select picks among ready cases at random.     *)
(* WriteReturns and Leave assume a client that reads or hangs up: the server  *)
(* sets no write timeout.                                                     *)
HandlerStep(r) ==
    \/ Enter(r) \/ BeginFlush(r) \/ Play(r) \/ WriteHeader(r) \/ Take(r)
    \/ WriteReturns(r) \/ Leave(r) \/ Cleanup(r)

HandlerFairness(r) ==
    /\ WF_vars(HandlerStep(r))
    /\ \A n \in 1..BufferLen : SF_vars(Drain(r) /\ Len(chan[src[r]]) = n)
    /\ SF_vars(EndFlush(r))
    /\ SF_vars(StopStream(r))

Fairness ==
    /\ WF_vars(StartRecorder \/ PublishRecorder \/ UnpublishRecorder)
    /\ \A r \in Requests : HandlerFairness(r)

FairSpec == Spec /\ Fairness

-----------------------------------------------------------------------------
(* Properties. *)

\* Of the requests inside the handler exactly the newest is not cancelled: a
\* hot-swap cancels every older stream and never the one that takes the slot
\* (stream.go, the section under streamMu).
OnlyNewestLives ==
    \A r \in Requests : pc[r] \in Holding =>
        (r \notin cancelled <=> myID[r] = streamID)

\* The newest request inside the handler can still be cancelled: whatever order
\* older handlers return in, their cleanup never erases its cancel function, so
\* the next hot-swap finds it (the streamID == myID test of the deferred cleanup).
CancelReachable ==
    \A r \in Requests : pc[r] \in Holding /\ myID[r] = streamID =>
        streamCancel = r

\* Nothing a stream delivers was buffered before its Flush began: a consumer
\* starts at the live edge although the pump keeps sending and superseded
\* streams keep receiving during the drain (flushStalePreFill).
LiveEdge == \A r \in Requests : fed[r] # "stale"

\* ActiveStreams is zero whenever no request is being served: no path out of
\* the handler leaks a count into the telemetry.
ActiveBalanced ==
    (\A r \in Requests : pc[r] \in {"idle", "done", "refused"}) => active = 0

\* A superseded or abandoned request always gets out of the handler, even while
\* the pump keeps its channel full and select may keep choosing the channel.
SupersededStreamEnds ==
    \A r \in Requests :
        (pc[r] \in Holding /\ CtxDone(r)) ~> pc[r] = "done"

\* A request that takes the slot gets to its streaming loop, however long the
\* requests before it flush the same recorder.
NewStreamStarts ==
    \A r \in Requests : pc[r] = "enter" ~> pc[r] = "select"

\* The request's place in the hot-swap: it holds the slot between its two
\* streamMu sections, until a later request cancels it.
Phase(r) ==
    CASE pc[r] \in {"idle", "enter"}    -> "new"
      [] pc[r] \in {"done", "refused"}  -> "gone"
      [] pc[r] \in Holding /\ r \in cancelled    -> "stopping"
      [] pc[r] \in Holding /\ r \notin cancelled -> "live"

Slot == INSTANCE PlaybackSlot
            WITH phase <- [r \in Requests |-> Phase(r)], owner <- streamCancel

\* The handlers implement the playback slot: in whatever order older handlers
\* are cancelled, disconnect and return, each hot-swap is one take-over, and
\* nothing else starts, stops or releases a playback (handleStream).
ImplementsPlaybackSlot == Slot!Spec

-----------------------------------------------------------------------------
(* What the documents say and the code does not do. *)

\* Hot-swap plays the new URI: once the slot's holder streams, the last play
\* Soloist was sent is its own (the play step of DESIGN.md's hot-swap).
LastPlayIsCurrent ==
    \A r \in Requests :
        (streamCancel = r /\ pc[r] = "select") => lastPlay = r

\* An open stream keeps streaming: one that is left on a dead recorder while a
\* new recorder runs ends or moves to it (REQUIREMENTS.md 4.1).
StreamFollowsRecorder ==
    \A r \in Requests :
        (pc[r] = "select" /\ pump # 0 /\ src[r] # pump)
            ~> (CtxDone(r) \/ src[r] = pump)
=============================================================================
