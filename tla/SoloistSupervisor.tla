------------------------- MODULE SoloistSupervisor -------------------------
(* Supervisor.Run and runOnce of internal/soloist/supervisor.go: spawn        *)
(* Soloist, wait for its ws.port file, dial and activate, consume events, and *)
(* restart on exit.  Soloist itself is external: it publishes a port, drops   *)
(* connections, and exits with a code.  A process and its port are named by   *)
(* the number of the spawn; port 0 is no port, or the empty wsAddr.           *)
(* Durations, the backoff's among them, are abstracted.                       *)
EXTENDS Integers

CONSTANT MaxStarts   \* bound: how many times Soloist is spawned

ASSUME SupervisorAssumption == MaxStarts \in Nat \ {0}

VARIABLES
    pc,          \* where the supervisor goroutine is
    starts,      \* the number of the current process
    proc,        \* "none", "running", "exited", or "reaped" by its waiter
    exitCode,    \* what the current process exited with
    waitCh,      \* the buffered result of proc.Wait(), Nothing when empty
    listening,   \* the current process serves its WebSocket
    portFile,    \* ws.port: the process that wrote it, 0 when absent
    wsAddr,      \* the address waitWSAddr returned, 0 for ""
    connUp,      \* the peer of the supervisor's connection is alive
    attached,    \* CommandConnector.conn is set
    health,      \* the last reason given to Health
    binary,      \* the data-dir binary exists
    ctxDone      \* ctx is cancelled

soloistVars == <<starts, proc, exitCode, listening, portFile>>
connVars == <<connUp, attached>>
vars == <<pc, soloistVars, waitCh, wsAddr, connVars, health, binary, ctxDone>>

Nothing == -1

\* Exit codes: 1 stands for every code the supervisor treats alike, signals too.
Codes == {0, 1, 10}

\* The loop of runOnce, and in it the part with an open connection.
Session == {"activate", "volume", "consume"}
Loop == {"select", "dial", "dialFailed", "dialSleep", "attach", "lost"} \cup Session

Labels == {"top", "waitWS", "backoff", "stopped"} \cup Loop

TypeOK ==
    /\ pc \in Labels
    /\ starts \in 0..MaxStarts
    /\ proc \in {"none", "running", "exited", "reaped"}
    /\ exitCode \in Codes \cup {Nothing}
    /\ waitCh \in Codes \cup {Nothing}
    /\ listening \in BOOLEAN
    /\ portFile \in 0..MaxStarts
    /\ wsAddr \in 0..MaxStarts
    /\ connUp \in BOOLEAN
    /\ attached \in BOOLEAN
    /\ health \in {"unset", "ok", "soloist_expired"}
    /\ binary \in BOOLEAN
    /\ ctxDone \in BOOLEAN

Init ==
    /\ pc = "top" /\ starts = 0 /\ proc = "none"
    /\ exitCode = Nothing /\ waitCh = Nothing
    /\ listening = FALSE /\ portFile = 0 /\ wsAddr = 0
    /\ connUp = FALSE /\ attached = FALSE
    /\ health = "unset" /\ binary = TRUE /\ ctxDone = FALSE

-----------------------------------------------------------------------------
(* Pieces of the handlers. *)

\* The process is gone with this code, and its end of the connection with it.
\* A clean shutdown removes the ws.port it published; a crash leaves it.
Dies(code) ==
    /\ proc' = "exited"
    /\ exitCode' = code
    /\ listening' = FALSE
    /\ connUp' = FALSE
    /\ portFile' = IF code = 0 /\ listening THEN 0 ELSE portFile
    /\ UNCHANGED starts

\* Bug variant: the raw wait status is taken for the exit code.
KillRawStatus ==
    IF proc = "running" THEN Dies(137) ELSE UNCHANGED <<soloistVars, connUp>>

\* proc.Kill(): SIGKILL, without effect on a process that has exited.
Kill ==
    IF proc = "running" THEN Dies(1) ELSE UNCHANGED <<soloistVars, connUp>>

NoKill == UNCHANGED <<soloistVars, connUp>>

\* runOnce returns ("", restart) to Run.
Return(restart) ==
    /\ pc' = IF restart /\ ~ctxDone THEN "backoff" ELSE "stopped"
    /\ UNCHANGED <<health, binary>>

\* Bug variants: an expired binary is restarted like any other; a crash is not.
HandleExitRestartsExpired(code) == Return(TRUE)

HandleExitGivesUp(code) ==
    IF code = 10
    THEN /\ pc' = "stopped"
         /\ health' = "soloist_expired"
         /\ binary' = FALSE
    ELSE Return(code = 0)

\* handleExit: code 10 deletes the binary, reports expired and ends Run.
HandleExit(code) ==
    IF code = 10
    THEN /\ pc' = "stopped"
         /\ health' = "soloist_expired"
         /\ binary' = FALSE
    ELSE Return(TRUE)

-----------------------------------------------------------------------------
(* External: Soloist, its files and its waiter goroutine. *)

\* Soloist serves its WebSocket and then writes ws.port.
Publish ==
    /\ proc = "running" /\ ~listening
    /\ listening' = TRUE
    /\ portFile' = starts
    /\ UNCHANGED <<pc, starts, proc, exitCode, waitCh, wsAddr, connVars,
                   health, binary, ctxDone>>

\* The last process does not exit: a bound, so that a restart stays possible.
Exit ==
    /\ proc = "running" /\ starts < MaxStarts
    /\ \E code \in Codes : Dies(code)
    /\ UNCHANGED <<pc, waitCh, wsAddr, attached, health, binary, ctxDone>>

DropConnection ==
    /\ connUp
    /\ connUp' = FALSE
    /\ UNCHANGED <<pc, soloistVars, waitCh, wsAddr, attached, health, binary,
                   ctxDone>>

\* The goroutine in proc.Wait() puts the result in the buffered channel.
WaiterDelivers ==
    /\ proc = "exited"
    /\ proc' = "reaped"
    /\ waitCh' = exitCode
    /\ UNCHANGED <<pc, starts, exitCode, listening, portFile, wsAddr, connVars,
                   health, binary, ctxDone>>

Cancel ==
    /\ ~ctxDone
    /\ ctxDone' = TRUE
    /\ UNCHANGED <<pc, soloistVars, waitCh, wsAddr, connVars, health, binary>>

\* exec.CommandContext kills the process once ctx is cancelled.
CommandContextKills ==
    /\ ctxDone /\ proc = "running"
    /\ Dies(1)
    /\ UNCHANGED <<pc, waitCh, wsAddr, attached, health, binary, ctxDone>>

-----------------------------------------------------------------------------
(* Run, runOnce and waitWSAddr. *)

Spawn ==
    /\ pc = "top" /\ ~ctxDone /\ starts < MaxStarts
    /\ starts' = starts + 1
    /\ proc' = "running"
    /\ exitCode' = Nothing
    /\ waitCh' = Nothing
    /\ listening' = FALSE
    /\ pc' = "waitWS"
    /\ UNCHANGED <<portFile, wsAddr, connVars, health, binary, ctxDone>>

SpawnFails ==
    /\ pc = "top" /\ ~ctxDone
    /\ Return(TRUE)
    /\ UNCHANGED <<soloistVars, waitCh, wsAddr, connVars, ctxDone>>

StopAtTop ==
    /\ pc = "top" /\ ctxDone
    /\ pc' = "stopped"
    /\ UNCHANGED <<soloistVars, waitCh, wsAddr, connVars, health, binary, ctxDone>>

WaitCancelled ==
    /\ pc = "waitWS" /\ ctxDone
    /\ Kill
    /\ Return(FALSE)
    /\ UNCHANGED <<waitCh, wsAddr, attached, ctxDone>>

\* An exit during the wait.  Exit code 0 is a nil error, so runOnce goes on as
\* if waitWSAddr had returned an address.
WaitExit ==
    /\ pc = "waitWS" /\ waitCh # Nothing
    /\ waitCh' = Nothing
    /\ \/ /\ waitCh = 0
          /\ wsAddr' = 0
          /\ pc' = "select"
          /\ NoKill
          /\ UNCHANGED <<health, binary>>
       \/ /\ waitCh # 0
          /\ Kill
          /\ HandleExit(waitCh)
          /\ UNCHANGED wsAddr
    /\ UNCHANGED <<attached, ctxDone>>

\* Bug variant: the process is not killed.
WaitTimeoutNoKill ==
    /\ pc = "waitWS" /\ starts < MaxStarts
    /\ NoKill
    /\ Return(TRUE)
    /\ UNCHANGED <<waitCh, wsAddr, attached, ctxDone>>

\* No ws.port within WSPortTimeout; not for the last process (bound).
WaitTimeout ==
    /\ pc = "waitWS" /\ starts < MaxStarts
    /\ Kill
    /\ Return(TRUE)
    /\ UNCHANGED <<waitCh, wsAddr, attached, ctxDone>>

\* The ticker found a ws.port, whoever wrote it.
ReadPort ==
    /\ pc = "waitWS" /\ portFile # 0
    /\ wsAddr' = portFile
    /\ pc' = "select"
    /\ UNCHANGED <<soloistVars, waitCh, connVars, health, binary, ctxDone>>

\* The select at the head of the loop.
LoopCancelled ==
    /\ pc = "select" /\ ctxDone
    /\ Kill
    /\ Return(FALSE)
    /\ UNCHANGED <<waitCh, wsAddr, attached, ctxDone>>

LoopExit ==
    /\ pc = "select" /\ waitCh # Nothing
    /\ waitCh' = Nothing
    /\ Kill
    /\ HandleExit(waitCh)
    /\ UNCHANGED <<wsAddr, attached, ctxDone>>

LoopDefault ==
    /\ pc = "select" /\ ~ctxDone /\ waitCh = Nothing
    /\ pc' = "dial"
    /\ UNCHANGED <<soloistVars, waitCh, wsAddr, connVars, health, binary, ctxDone>>

\* Only the process that serves the address can be reached.
DialOk ==
    /\ pc = "dial" /\ ~ctxDone
    /\ wsAddr = starts /\ listening
    /\ connUp' = TRUE
    /\ pc' = "attach"
    /\ UNCHANGED <<soloistVars, waitCh, wsAddr, attached, health, binary, ctxDone>>

DialFails ==
    /\ pc = "dial"
    /\ pc' = "dialFailed"
    /\ UNCHANGED <<soloistVars, waitCh, wsAddr, connVars, health, binary, ctxDone>>

\* Bug variant: the exit is received and dropped.
DialFailedIgnoresExit ==
    /\ pc = "dialFailed"
    /\ pc' = "dialSleep"
    /\ waitCh' = Nothing
    /\ UNCHANGED <<soloistVars, wsAddr, connVars, health, binary, ctxDone>>

\* After a failed dial: an exit ends runOnce, otherwise sleep.
DialFailed ==
    /\ pc = "dialFailed"
    /\ \/ /\ waitCh # Nothing
          /\ waitCh' = Nothing
          /\ HandleExit(waitCh)
       \/ /\ waitCh = Nothing
          /\ pc' = "dialSleep"
          /\ UNCHANGED <<waitCh, health, binary>>
    /\ UNCHANGED <<soloistVars, wsAddr, connVars, ctxDone>>

DialSleep ==
    /\ pc = "dialSleep"
    /\ \/ ctxDone /\ Kill /\ Return(FALSE)
       \/ ~ctxDone /\ NoKill /\ pc' = "select" /\ UNCHANGED <<health, binary>>
    /\ UNCHANGED <<waitCh, wsAddr, attached, ctxDone>>

Attach ==
    /\ pc = "attach"
    /\ attached' = TRUE
    /\ pc' = "activate"
    /\ UNCHANGED <<soloistVars, waitCh, wsAddr, connUp, health, binary, ctxDone>>

\* activate was written (also into the buffers of a dying connection).
Activate ==
    /\ pc = "activate"
    /\ health' = "ok"
    /\ pc' = "volume"
    /\ UNCHANGED <<soloistVars, waitCh, wsAddr, connVars, binary, ctxDone>>

\* The write failed: detach, close and dial again at once.
ActivateFails ==
    /\ pc = "activate" /\ ~connUp
    /\ attached' = FALSE
    /\ pc' = "select"
    /\ UNCHANGED <<soloistVars, waitCh, wsAddr, connUp, health, binary, ctxDone>>

\* set_volume; its error is only logged.
SetVolume ==
    /\ pc = "volume"
    /\ pc' = "consume"
    /\ UNCHANGED <<soloistVars, waitCh, wsAddr, connVars, health, binary, ctxDone>>

\* Bug variant: a read error is retried instead of ending the session.
ConsumeRetriesRead ==
    /\ pc = "consume" /\ (~connUp \/ ctxDone)
    /\ connUp' = FALSE
    /\ UNCHANGED <<pc, soloistVars, waitCh, wsAddr, attached, health, binary,
                   ctxDone>>

\* wsConsume returns: the connection broke, or its goroutine closed it because
\* ctx is done.  Then detach and close.
Consume ==
    /\ pc = "consume" /\ (~connUp \/ ctxDone)
    /\ attached' = FALSE
    /\ connUp' = FALSE
    /\ pc' = "lost"
    /\ UNCHANGED <<soloistVars, waitCh, wsAddr, health, binary, ctxDone>>

\* Bug variant: with no exit pending it waits for one instead of dialling.
LostWaitsForExit ==
    /\ pc = "lost"
    /\ \/ ctxDone /\ Kill /\ Return(FALSE) /\ UNCHANGED waitCh
       \/ /\ ~ctxDone /\ waitCh # Nothing
          /\ waitCh' = Nothing
          /\ NoKill
          /\ HandleExit(waitCh)
    /\ UNCHANGED <<wsAddr, attached, ctxDone>>

\* After a session: stop, handle an exit, or dial again without a pause.
Lost ==
    /\ pc = "lost"
    /\ \/ ctxDone /\ Kill /\ Return(FALSE) /\ UNCHANGED waitCh
       \/ /\ ~ctxDone /\ waitCh # Nothing
          /\ waitCh' = Nothing
          /\ NoKill
          /\ HandleExit(waitCh)
       \/ /\ ~ctxDone /\ waitCh = Nothing
          /\ pc' = "select"
          /\ NoKill
          /\ UNCHANGED <<waitCh, health, binary>>
    /\ UNCHANGED <<wsAddr, attached, ctxDone>>

Backoff ==
    /\ pc = "backoff"
    /\ pc' = IF ctxDone THEN "stopped" ELSE "top"
    /\ UNCHANGED <<soloistVars, waitCh, wsAddr, connVars, health, binary, ctxDone>>

-----------------------------------------------------------------------------

SupervisorStep ==
    \/ Spawn \/ SpawnFails \/ StopAtTop
    \/ WaitCancelled \/ WaitExit \/ WaitTimeout \/ ReadPort
    \/ LoopCancelled \/ LoopExit \/ LoopDefault
    \/ DialOk \/ DialFails \/ DialFailed \/ DialSleep
    \/ Attach \/ Activate \/ ActivateFails \/ SetVolume \/ Consume \/ Lost
    \/ Backoff

Environment ==
    \/ Publish \/ Exit \/ DropConnection \/ WaiterDelivers \/ Cancel
    \/ CommandContextKills

Next == SupervisorStep \/ Environment

Spec == Init /\ [][Next]_vars

(* The supervisor goroutine is scheduled and every sleep ends; the waiter     *)
(* goroutine delivers.  Spawn, DialOk and Activate are strongly fair: a       *)
(* binary that passed its smoke test does not fail to fork for ever, a served *)
(* local port does not refuse for ever, and not every new connection is lost  *)
(* before its first write.                                                    *)
Fairness ==
    /\ WF_vars(SupervisorStep)
    /\ SF_vars(Spawn)
    /\ SF_vars(DialOk)
    /\ SF_vars(Activate)
    /\ WF_vars(WaiterDelivers)
    /\ WF_vars(CommandContextKills)

FairSpec == Spec /\ Fairness

-----------------------------------------------------------------------------
(* Properties. *)

\* Two Soloists never run at once: whatever ended the previous run, its process
\* is dead when the next one is spawned (every return of runOnce kills or has
\* seen the exit).
SingleInstance == [][starts' # starts => proc # "running"]_vars

\* When Run has returned no Soloist is left behind, whichever of the loop's
\* selects noticed the cancellation.
NoOrphan == pc = "stopped" => proc # "running"

\* A crash is never lost: once reaped, its code stays in waitCh until a select
\* that leaves the loop takes it (the three receives from waitCh in runOnce).
CrashNotLost ==
    (pc \in Loop /\ proc = "reaped" /\ exitCode # 0) => waitCh = exitCode

\* The connector is attached only during a session: commands fail with "not
\* connected" rather than go to a connection the supervisor gave up.
AttachedInSession == attached => pc \in Session

\* An expired binary stays halted: after exit code 10 was handled nothing starts
\* Soloist or reports healthy again.
ExpiredIsFinal ==
    ~binary => pc = "stopped" /\ health = "soloist_expired"

\* Every crash is followed by a new process, unless Run is told to stop: no
\* crash leaves the supervisor waiting for a process that is gone.
CrashRestarts ==
    (proc \in {"exited", "reaped"} /\ exitCode = 1) ~> (proc = "running" \/ ctxDone)

\* No reconnect state is a dead end: with the right address a session is opened
\* again after any loss of the connection, as long as the process lives.
SessionRestored ==
    (wsAddr = starts /\ listening) ~> (pc = "consume" \/ ~listening \/ ctxDone)

\* Cancelling ctx ends Run and Soloist from every state, also from a session
\* whose connection is healthy.
ShutdownCompletes == ctxDone ~> (pc = "stopped" /\ proc # "running")

\* What of all this pairing, disk and health can tell is the interface SoloistLife.
Inside == Loop \cup {"waitWS"}
InSession == {"volume", "consume"}

Phase ==
    CASE pc = "top"     -> "spawn"
      [] pc = "waitWS"  -> "port"
      [] pc = "backoff" -> "pause"
      [] pc = "stopped" -> IF ~binary /\ health = "soloist_expired"
                           THEN "report" ELSE "over"
      [] pc \in InSession        -> "on"
      [] pc \in Loop \ InSession -> "run"

Name(code) == CASE code = 0 -> "0" [] code = 1 -> "1" [] code = 10 -> "10"

\* A process that died stays visible as its code until Run has received it, also
\* when Run never does.
Seen ==
    CASE proc = "running" -> "runs"
      [] proc = "exited"  -> Name(exitCode)
      [] proc \in {"none", "reaped"} ->
            IF waitCh = Nothing THEN "none" ELSE Name(waitCh)

Life == INSTANCE SoloistLife WITH
    where <- Phase, soloist <- Seen, stopped <- ctxDone

\* runOnce with its three selects, retries and kills implements that life: an exit
\* code that any select receives is acted on, code 10 by deleting and reporting,
\* never by a restart; only a timeout in the wait for the port or a cancellation
\* leaves a code unreceived; a session has a process behind it, no process is
\* spawned beside another, and an expiry is final (Run, runOnce, waitWSAddr,
\* handleExit).
ImplementsSoloistLife == Life!Spec

-----------------------------------------------------------------------------
(* What the documents say and the code does not do. *)

\* A Soloist that serves its WebSocket gets a session: the shim reads the port
\* that process wrote (DESIGN.md, Soloist startup command).
SessionOpens ==
    listening ~> (pc = "consume" \/ ~listening \/ ctxDone)
=============================================================================
