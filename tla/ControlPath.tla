----------------------------- MODULE ControlPath -----------------------------
(* From a Teddycloud event to a command on Soloist's WebSocket: the event      *)
(* listener (sselistener/listener.go) with its reader goroutine and idle timer,*)
(* the connector that serialises commands (soloist/connector.go), its other    *)
(* writers, which are /stream handlers and the supervisor, and the supervisor's*)
(* sessions (SoloistSupervisor has the process around them).  An event is its  *)
(* number; 0 is a line without a command: a keep-alive, a comment, an event    *)
(* that dispatch ignores.                                                      *)
EXTENDS Integers, Sequences

CONSTANTS MaxEvents,   \* bound: events with a command that Teddycloud sends
          MaxLines,    \* bound: lines in flight on one subscription
          MaxSubs,     \* bound: subscriptions that are opened
          MaxConns,    \* bound: WebSocket connections that are opened
          None         \* an unlocked connector

ASSUME ControlPathAssumption ==
    /\ MaxEvents \in Nat /\ MaxLines \in Nat
    /\ MaxSubs \in Nat /\ MaxConns \in Nat
    /\ None \notin Int

Subs == 1..MaxSubs
Conns == 1..MaxConns

\* The /stream handlers, as a holder of the connector besides readLoop of each
\* subscription; the supervisor's own writes take no time (WebSocketChanges).
Handler == -1

VARIABLES
    run,        \* where Listener.Run is
    sub,        \* how many subscriptions were opened; the last is current
    sse,        \* sse[s]: the body of subscription s
    wire,       \* wire[s]: the line readLoop handles and those still to read
    reader,     \* reader[s]: where readLoop of subscription s is
    idle,       \* its idle timer has fired (that of the current subscription)
    sent,       \* events that Teddycloud has sent
    lock,       \* the holder of CommandConnector.mu
    conn,       \* CommandConnector.conn, 0 for nil
    ws,         \* ws[c]: the state of WebSocket connection c
    dialed,     \* connections opened so far; the supervisor's is the last
    sup,        \* where the supervisor is in its session loop
    handler,    \* where a /stream handler is in Play
    delivered,  \* history: the events whose commands were written, in order
    ctxDone

listener == <<run, sub, sse, wire, reader, idle>>
soloist == <<ws, dialed, sup>>
connector == <<lock, conn>>
others == <<connector, soloist, handler, delivered, ctxDone>>
vars == <<listener, sent, others>>

TypeOK ==
    /\ run \in {"connect", "consume", "sleep", "returned"}
    /\ sub \in 0..MaxSubs
    /\ sse \in [Subs -> {"none", "open", "silent", "broken"}]
    /\ wire \in [Subs -> Seq(0..MaxEvents)]
    /\ reader \in [Subs -> {"none", "scan", "want", "write", "ended"}]
    /\ idle \in BOOLEAN
    /\ sent \in 0..MaxEvents
    /\ lock \in Subs \cup {Handler, None}
    /\ conn \in 0..MaxConns
    /\ ws \in [Conns -> {"none", "open", "stalled", "broken", "closed"}]
    /\ dialed \in 0..MaxConns
    /\ sup \in {"dial", "activate", "volume", "consume", "detach", "returned"}
    /\ handler \in {"away", "write"}
    /\ delivered \in Seq(1..MaxEvents)
    /\ ctxDone \in BOOLEAN

Init ==
    /\ run = "connect" /\ sub = 0
    /\ sse = [s \in Subs |-> "none"] /\ wire = [s \in Subs |-> <<>>]
    /\ reader = [s \in Subs |-> "none"] /\ idle = FALSE
    /\ sent = 0
    /\ lock = None /\ conn = 0
    /\ ws = [c \in Conns |-> "none"] /\ dialed = 0 /\ sup = "dial"
    /\ handler = "away"
    /\ delivered = <<>>
    /\ ctxDone = FALSE

-----------------------------------------------------------------------------
(* Teddycloud, the network, Soloist and the shim's context. *)

\* The next event, or, as a bound when all others are read, a line without a
\* command.  What is sent while nobody is subscribed is lost.
Emit ==
    \/ /\ sent < MaxEvents
       /\ sent' = sent + 1
       /\ wire' = [s \in Subs |->
                     IF sse[s] = "open" THEN Append(wire[s], sent + 1) ELSE wire[s]]
       /\ \A s \in Subs : Len(wire'[s]) <= MaxLines
       /\ UNCHANGED <<run, sub, sse, reader, idle, others>>
    \/ \E s \in Subs :
       /\ sse[s] = "open" /\ wire[s] = <<>>
       /\ wire' = [wire EXCEPT ![s] = Append(@, 0)]
       /\ UNCHANGED <<run, sub, sse, reader, idle, sent, others>>

Handling(s) == reader[s] \in {"want", "write"}

\* The body ends; lines nobody has read yet may be lost with it.
BodyEnds(s) ==
    /\ sse' = [sse EXCEPT ![s] = "broken"]
    /\ \E n \in 0..Len(wire[s]) :
          /\ Handling(s) => n > 0
          /\ wire' = [wire EXCEPT ![s] = SubSeq(@, 1, n)]

\* The connection breaks.
Break(s) ==
    /\ sse[s] \in {"open", "silent"}
    /\ BodyEnds(s)
    /\ UNCHANGED <<run, sub, reader, idle, sent, others>>

\* Teddycloud hangs or vanishes: no more lines, no error either.
FallSilent(s) ==
    /\ sse[s] = "open"
    /\ sse' = [sse EXCEPT ![s] = "silent"]
    /\ UNCHANGED <<run, sub, wire, reader, idle, sent, others>>

\* Two minutes without idle.Reset.  A cancelled readLoop ends with or without it.
IdleFires ==
    /\ run = "consume" /\ ~ctxDone /\ ~idle
    /\ idle' = TRUE
    /\ UNCHANGED <<run, sub, sse, wire, reader, sent, others>>

\* Soloist stops reading until the send buffer is full, reads again, or dies.
\* The few bytes of activate and set_volume always fit a new connection.
WebSocketChanges(c) ==
    /\ \/ ws[c] = "open" /\ sup = "consume" /\ ws' = [ws EXCEPT ![c] = "stalled"]
       \/ ws[c] = "stalled" /\ ws' = [ws EXCEPT ![c] = "open"]
       \/ ws[c] \in {"open", "stalled"} /\ ws' = [ws EXCEPT ![c] = "broken"]
    /\ UNCHANGED <<listener, sent, connector, dialed, sup, handler, delivered, ctxDone>>

Cancel ==
    /\ ~ctxDone
    /\ ctxDone' = TRUE
    /\ UNCHANGED <<listener, sent, connector, soloist, handler, delivered>>

-----------------------------------------------------------------------------
(* CommandConnector.write: the mutex is held while WriteMessage runs. *)

\* Lock; with a nil connection the mutex is free again at once.
Locks(w) == lock = None /\ lock' = IF conn = 0 THEN None ELSE w

\* WriteMessage returns: it has failed unless the connection took the bytes.
WriteReturns(w) == lock = w /\ ws[conn] # "stalled" /\ lock' = None

-----------------------------------------------------------------------------
(* Listener.Run, subscribeOnce and consume.  The context is looked at after    *)
(* each attempt, in the sleep and before the next attempt.                     *)

\* The GET fails, is answered with another status, or its context is cancelled.
Refused ==
    /\ run = "connect"
    /\ run' = IF ctxDone THEN "returned" ELSE "sleep"
    /\ UNCHANGED <<sub, sse, wire, reader, idle, sent, others>>

\* 200: consume starts readLoop.
Subscribe ==
    /\ run = "connect" /\ ~ctxDone /\ sub < MaxSubs
    /\ run' = "consume"
    /\ sub' = sub + 1
    /\ sse' = [sse EXCEPT ![sub + 1] = "open"]
    /\ reader' = [reader EXCEPT ![sub + 1] = "scan"]
    /\ idle' = FALSE
    /\ UNCHANGED <<wire, sent, others>>

\* resp.Body.Close(): what the scanner has in its buffer can still be read.
Unsubscribe ==
    /\ BodyEnds(sub)
    /\ run' = IF ctxDone THEN "returned" ELSE "sleep"
    /\ UNCHANGED <<sub, reader, idle, sent, others>>

\* Bug variant: consume watches the idle timer itself and leaves its reader.
ConsumeEndsIdle ==
    /\ run = "consume"
    /\ ctxDone \/ reader[sub] = "ended" \/ idle
    /\ Unsubscribe

ConsumeEnds ==
    /\ run = "consume"
    /\ ctxDone \/ reader[sub] = "ended"
    /\ Unsubscribe

Sleep ==
    /\ run = "sleep"
    /\ run' = IF ctxDone THEN "returned" ELSE "connect"
    /\ UNCHANGED <<sub, sse, wire, reader, idle, sent, others>>

-----------------------------------------------------------------------------
(* readLoop and dispatch. *)

ReaderGoes(s, from, to) ==
    reader[s] = from /\ reader' = [reader EXCEPT ![s] = to]

\* The select before the next Scan: the idle timer is looked at nowhere else.
Looked(fired) == IF ctxDone \/ fired THEN "ended" ELSE "scan"

\* Bug variant: an event that dispatch should ignore is sent as a command.
ReaderScansAll(s) ==
    /\ wire[s] # <<>>
    /\ idle' = FALSE
    /\ ReaderGoes(s, "scan", "want")
    /\ UNCHANGED <<run, sub, sse, wire, sent, others>>

\* A line: idle.Reset drops a fired timer, dispatch looks for a command.
ReaderScans(s) ==
    /\ wire[s] # <<>>
    /\ idle' = FALSE
    /\ IF Head(wire[s]) = 0
       THEN /\ ReaderGoes(s, "scan", Looked(FALSE))
            /\ wire' = [wire EXCEPT ![s] = Tail(@)]
       ELSE ReaderGoes(s, "scan", "want") /\ UNCHANGED wire
    /\ UNCHANGED <<run, sub, sse, sent, others>>

\* Bug variant: the end of the body is taken for a pause.
ReaderEndsOnCancel(s) ==
    /\ ctxDone
    /\ ReaderGoes(s, "scan", "ended")
    /\ UNCHANGED <<run, sub, sse, wire, idle, sent, others>>

\* Scan fails: end of the body, or its context is cancelled.
ReaderEnds(s) ==
    /\ ctxDone \/ (sse[s] = "broken" /\ wire[s] = <<>>)
    /\ ReaderGoes(s, "scan", "ended")
    /\ UNCHANGED <<run, sub, sse, wire, idle, sent, others>>

\* send: a command without a session fails and is forgotten.
ReaderSends(s) ==
    /\ Locks(s)
    /\ IF conn = 0
       THEN /\ ReaderGoes(s, "want", Looked(idle))
            /\ wire' = [wire EXCEPT ![s] = Tail(@)]
       ELSE ReaderGoes(s, "want", "write") /\ UNCHANGED wire
    /\ UNCHANGED <<run, sub, sse, idle, sent, conn, soloist, handler, delivered,
                   ctxDone>>

ReaderSent(s) ==
    /\ WriteReturns(s)
    /\ ReaderGoes(s, "write", Looked(idle))
    /\ wire' = [wire EXCEPT ![s] = Tail(@)]
    /\ delivered' = IF ws[conn] = "open" THEN Append(delivered, Head(wire[s]))
                                         ELSE delivered
    /\ UNCHANGED <<run, sub, sse, idle, sent, conn, soloist, handler, ctxDone>>

-----------------------------------------------------------------------------
(* A /stream handler's play; while it waits for the mutex it is still away. *)

HandlerSends ==
    /\ handler = "away" /\ conn # 0
    /\ Locks(Handler)
    /\ handler' = "write"
    /\ UNCHANGED <<listener, sent, conn, soloist, delivered, ctxDone>>

HandlerSent ==
    /\ handler = "write"
    /\ WriteReturns(Handler)
    /\ handler' = "away"
    /\ UNCHANGED <<listener, sent, conn, soloist, delivered, ctxDone>>

-----------------------------------------------------------------------------
(* The supervisor's session loop. *)

SupGoes(from, to) == sup = from /\ sup' = to

SupCancelled ==
    /\ ctxDone
    /\ SupGoes("dial", "returned")
    /\ UNCHANGED <<listener, sent, connector, ws, dialed, handler, delivered,
                   ctxDone>>

\* A dial succeeds and the connection is attached.
Attach ==
    /\ ~ctxDone /\ dialed < MaxConns /\ lock = None
    /\ SupGoes("dial", "activate")
    /\ dialed' = dialed + 1
    /\ ws' = [ws EXCEPT ![dialed + 1] = "open"]
    /\ conn' = dialed + 1
    /\ UNCHANGED <<listener, sent, lock, handler, delivered, ctxDone>>

\* writeActivate and writeSetVolume go through the connector.  A failed activate
\* gives the connection up, a failed set_volume is logged.
SupSends ==
    /\ lock = None
    /\ \/ SupGoes("activate", "volume") /\ ws[conn] = "open"
       \/ SupGoes("activate", "detach") /\ ws[conn] # "open"
       \/ SupGoes("volume", "consume")
    /\ UNCHANGED <<listener, sent, connector, ws, dialed, handler, delivered,
                   ctxDone>>

\* Bug variant: wsConsume closes only a connection that takes no bytes, and stays
\* in ReadMessage on a healthy one.
CloseOnCancelIfStalled ==
    /\ sup = "consume" /\ ctxDone
    /\ ws[dialed] = "stalled"
    /\ ws' = [ws EXCEPT ![dialed] = "closed"]
    /\ UNCHANGED <<listener, sent, connector, dialed, sup, handler, delivered,
                   ctxDone>>

\* The goroutine of wsConsume: only a close wakes ReadMessage.
CloseOnCancel ==
    /\ sup = "consume" /\ ctxDone
    /\ ws[dialed] \in {"open", "stalled"}
    /\ ws' = [ws EXCEPT ![dialed] = "closed"]
    /\ UNCHANGED <<listener, sent, connector, dialed, sup, handler, delivered,
                   ctxDone>>

\* ReadMessage fails.
ConsumeFails ==
    /\ SupGoes("consume", "detach")
    /\ ws[dialed] \in {"broken", "closed"}
    /\ UNCHANGED <<listener, sent, connector, ws, dialed, handler, delivered,
                   ctxDone>>

\* Bug variant: the connection is closed without waiting for the connector.
DetachUnlocked ==
    /\ SupGoes("detach", "dial")
    /\ conn' = 0
    /\ ws' = [ws EXCEPT ![dialed] = "closed"]
    /\ UNCHANGED <<listener, sent, lock, dialed, handler, delivered, ctxDone>>

\* detach waits for a command in progress; then nobody else knows the
\* connection, and it is closed.
Detach ==
    /\ lock = None
    /\ SupGoes("detach", "dial")
    /\ conn' = 0
    /\ ws' = [ws EXCEPT ![dialed] = "closed"]
    /\ UNCHANGED <<listener, sent, lock, dialed, handler, delivered, ctxDone>>

-----------------------------------------------------------------------------

RunStep == Refused \/ Subscribe \/ ConsumeEnds \/ Sleep

Reader(s) == ReaderScans(s) \/ ReaderEnds(s) \/ ReaderSends(s) \/ ReaderSent(s)

SupStep == SupCancelled \/ Attach \/ SupSends \/ ConsumeFails \/ Detach

Environment ==
    \/ Emit \/ Cancel \/ IdleFires
    \/ \E s \in Subs : Break(s) \/ FallSilent(s)
    \/ \E c \in Conns : WebSocketChanges(c)

Next ==
    \/ RunStep \/ SupStep \/ CloseOnCancel \/ HandlerSends \/ HandlerSent
    \/ Environment
    \/ \E s \in Subs : Reader(s)

Spec == Init /\ [][Next]_vars

(* Scheduling.  Goroutines run, a GET is answered or refused and not refused   *)
(* for ever, timers fire.  A mutex that becomes free again and again is given   *)
(* to each that waits for it (Go hands it to the longest waiter).  A stalled    *)
(* connection does not stay so, Soloist reads again or dies, and a write        *)
(* advances whenever it reads.                                                  *)
Fairness ==
    /\ WF_vars(RunStep) /\ SF_vars(Subscribe)
    /\ WF_vars(CloseOnCancel) /\ WF_vars(IdleFires)
    /\ SF_vars(SupStep) /\ SF_vars(HandlerSent)
    /\ \A s \in Subs :
          /\ WF_vars(ReaderScans(s) \/ ReaderEnds(s))
          /\ SF_vars(ReaderSends(s) \/ ReaderSent(s))
    /\ \A c \in Conns : WF_vars(ws[c] = "stalled" /\ WebSocketChanges(c))

FairSpec == Spec /\ Fairness

-----------------------------------------------------------------------------
(* Properties. *)

Writing(w) ==
    \/ w \in Subs /\ reader[w] = "write"
    \/ w = Handler /\ handler = "write"

\* Two goroutines are never inside WriteMessage at once, and the one that is
\* writes to the connection of the current session, which only a cancelled
\* context may have closed: between attach and detach there is no window for a
\* command to a connection the supervisor has given up (connector.go).
OneWriter ==
    \A w \in Subs \cup {Handler} : Writing(w) =>
        /\ lock = w
        /\ conn = dialed /\ conn # 0
        /\ ws[conn] = "closed" => ctxDone

\* The mutex is never left behind, and never held for good: whoever has it is
\* inside WriteMessage, and where the session has stopped reading the supervisor
\* is in wsConsume, whose goroutine a cancellation lets close the connection.
HolderCanReturn ==
    lock # None =>
        /\ Writing(lock)
        /\ ws[conn] = "stalled" => sup = "consume" /\ conn = dialed

\* Commands reach Soloist in the order of their events, none of them twice,
\* across reconnects of the listener and of the session, and however long a
\* command waits for the connector (consume, dispatch).
EventOrder ==
    \A i, j \in 1..Len(delivered) : i < j => delivered[i] < delivered[j]

\* A connection that breaks is replaced, also when it breaks while a command
\* waits for a stalled session (Run, readLoop).
BrokenResubscribes ==
    \A s \in Subs : (sse[s] = "broken" /\ sub = s /\ s < MaxSubs)
                        ~> (sub > s \/ ctxDone)

\* After a cancellation listener, readers and supervisor end, although each may
\* be blocked in a read, in the mutex or in a write to a stalled connection.
ShutdownEnds ==
    ctxDone ~> /\ run = "returned" /\ sup = "returned" /\ lock = None
               /\ \A s \in Subs : reader[s] \in {"none", "ended"}

-----------------------------------------------------------------------------
(* What the comments say and the code does not do. *)

\* A silent stream is detected and reconnected (listener.go:68, :180).
SilentResubscribes ==
    \A s \in Subs : (sse[s] = "silent" /\ sub = s /\ s < MaxSubs)
                        ~> (sub > s \/ ctxDone)
=============================================================================
