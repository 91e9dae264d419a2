----------------------------- MODULE AudioSource -----------------------------
(* What runRecorder promises to whoever calls recorderSlot.get: which recorder  *)
(* it may be handed and what that recorder's pump is doing, without streams,    *)
(* daemons, watchdogs or backoffs.  RecorderLoop implements it                  *)
(* (cmd/shim/main.go); StreamServer is checked and proved against it.           *)
EXTENDS Naturals

VARIABLES running,     \* the recorder whose pump runs, 0 when none does
          published,   \* recorderSlot.src, 0 for nil
          opened,      \* how many recorders were started so far
          fresh,       \* the last one is started and not published yet
          stopped      \* ctx is cancelled

sourceVars == <<running, published, opened, fresh, stopped>>

Init ==
    /\ running = 0 /\ published = 0 /\ opened = 0
    /\ fresh = FALSE /\ stopped = FALSE

\* A recorder is started on its own stream: no other pump runs, none is published.
Start ==
    /\ running = 0 /\ published = 0 /\ ~fresh
    /\ running' = opened + 1
    /\ opened' = opened + 1
    /\ fresh' = TRUE
    /\ UNCHANGED published /\ stopped' = stopped

\* It is published once, also when its pump has ended meanwhile.
Publish ==
    /\ fresh
    /\ published' = opened
    /\ fresh' = FALSE
    /\ UNCHANGED <<running, opened>> /\ stopped' = stopped

PumpEnds ==
    /\ running # 0
    /\ running' = 0
    /\ UNCHANGED <<published, opened, fresh>> /\ stopped' = stopped

\* The slot is cleared behind a pump that has ended, or on the way out.
Unpublish ==
    /\ published # 0
    /\ running = 0 \/ stopped
    /\ published' = 0
    /\ UNCHANGED <<running, opened, fresh>> /\ stopped' = stopped

Stop ==
    /\ ~stopped
    /\ stopped' = TRUE
    /\ UNCHANGED <<running, published, opened, fresh>>

Next == Start \/ Publish \/ PumpEnds \/ Unpublish \/ Stop

Spec == Init /\ [][Next]_sourceVars
=============================================================================
