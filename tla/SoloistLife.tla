----------------------------- MODULE SoloistLife -----------------------------
(* The life of Soloist processes under Supervisor.Run (soloist/supervisor.go)  *)
(* as the rest of the shim can tell it: who is started when, what an exit code *)
(* leads to, when a session is open.  No files, connections, dials or waiters. *)
(* SoloistSupervisor implements it; Shim has it between pairing and the disk.  *)

VARIABLES where,    \* "spawn", "port" in the wait for ws.port, "run" with an
                    \* address, "on" in a session, "pause" in the backoff,
                    \* "report" after an expiry, "over" when Run has returned
          soloist,  \* the process, then its exit code until Run receives it
          stopped   \* ctx is cancelled

lifeVars == <<where, soloist, stopped>>

\* Two kinds of process that the supervisor cannot tell apart.
Alive == {"runs", "stale"}

Codes == {"0", "1", "10"}

Init == where = "spawn" /\ soloist = "none" /\ stopped = FALSE

\* runOnce returns: back off, or end when ctx is cancelled.
Return == where' = IF stopped THEN "over" ELSE "pause"

\* Never beside a process that is alive; an exit code nobody received is gone.
Spawn ==
    /\ where = "spawn" /\ ~stopped
    /\ soloist \notin Alive
    /\ where' = "port"
    /\ soloist' \in Alive
    /\ UNCHANGED stopped

SpawnFails == where = "spawn" /\ ~stopped /\ Return /\ UNCHANGED <<soloist, stopped>>

StopAtSpawn ==
    /\ where = "spawn" /\ stopped
    /\ where' = "over"
    /\ UNCHANGED <<soloist, stopped>>

PortRead ==
    /\ where = "port"
    /\ where' = "run"
    /\ UNCHANGED <<soloist, stopped>>

\* A session is activated, with a process that may just have died.
Connect ==
    /\ where = "run" /\ soloist # "none"
    /\ where' = "on"
    /\ UNCHANGED <<soloist, stopped>>

Disconnect ==
    /\ where = "on"
    /\ where' = "run"
    /\ UNCHANGED <<soloist, stopped>>

\* A process exits, by itself or killed with ctx.
Exits(code) ==
    /\ soloist \in Alive
    /\ soloist' = code
    /\ UNCHANGED <<where, stopped>>

\* An exit outside a session is received: only code 10 ends Run for good, and
\* it always does.
HandleExit ==
    /\ soloist \in Codes
    /\ where = "run" \/ (where = "port" /\ soloist # "0")
    /\ soloist' = "none"
    /\ IF soloist = "10" THEN where' = "report" ELSE Return
    /\ UNCHANGED stopped

\* waitWSAddr takes exit code 0, a nil error, for an address.
Swallow ==
    /\ where = "port" /\ soloist = "0"
    /\ soloist' = "none"
    /\ where' = "run"
    /\ UNCHANGED stopped

\* Kill: without effect on a process that has exited, whose code stays.
Kill == soloist' = IF soloist \in Alive THEN "1" ELSE soloist

\* No ws.port in time.  It is the only way from a process to the backoff on
\* which its exit code, if it has one, is not received.
PortTimeout ==
    /\ where = "port"
    /\ Kill
    /\ Return
    /\ UNCHANGED stopped

Cancelled ==
    /\ where \in {"port", "run"} /\ stopped
    /\ Kill
    /\ where' = "over"
    /\ UNCHANGED stopped

\* The backoff ends with its timer, or with ctx.
Pause ==
    /\ where = "pause"
    /\ where' \in {"spawn"} \cup (IF stopped THEN {"over"} ELSE {})
    /\ UNCHANGED <<soloist, stopped>>

Stop ==
    /\ ~stopped
    /\ stopped' = TRUE
    /\ UNCHANGED <<where, soloist>>

Next ==
    \/ Spawn \/ SpawnFails \/ StopAtSpawn \/ PortRead \/ Connect \/ Disconnect
    \/ HandleExit \/ Swallow \/ PortTimeout \/ Cancelled \/ Pause \/ Stop
    \/ \E code \in Codes : Exits(code)

Spec == Init /\ [][Next]_lifeVars
=============================================================================
