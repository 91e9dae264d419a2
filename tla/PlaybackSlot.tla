----------------------------- MODULE PlaybackSlot -----------------------------
(* What the /stream handlers promise together, without goroutines, ids, mutexes *)
(* or recorders: one playback slot that the newest request takes from whoever   *)
(* has it.  StreamServer implements it (stream.go, the streamMu sections).      *)

CONSTANTS Requests,   \* the requests that may arrive
          None        \* nobody can be stopped

VARIABLES phase,      \* phase[r]: new, then live, then perhaps stopping, then gone
          owner       \* the request the next one will stop

slotVars == <<phase, owner>>

Phases == {"new", "live", "stopping", "gone"}

Init == phase = [r \in Requests |-> "new"] /\ owner = None

\* Hot-swap: in one step every live request is told to stop and r is live.
Take(r) ==
    /\ phase[r] = "new"
    /\ phase' = [q \in Requests |->
                    CASE q = r -> "live"
                      [] q # r /\ phase[q] = "live" -> "stopping"
                      [] OTHER -> phase[q]]
    /\ owner' = r

\* A bad URI, or no recorder.
Refuse(r) ==
    /\ phase[r] = "new"
    /\ phase' = [phase EXCEPT ![r] = "gone"]
    /\ UNCHANGED owner

\* A request that is over gives the slot back if nobody has taken it since.
End(r) ==
    /\ phase[r] \in {"live", "stopping"}
    /\ phase' = [phase EXCEPT ![r] = "gone"]
    /\ owner' = IF owner = r THEN None ELSE owner

Next == \E r \in Requests : Take(r) \/ Refuse(r) \/ End(r)

Spec == Init /\ [][Next]_slotVars
=============================================================================
