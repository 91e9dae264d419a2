----------------------------- MODULE AudioDaemon -----------------------------
(* What PulseAudio.Run and Stop promise to whoever asks Ready, without labels,  *)
(* sockets, PID files or launchers: a daemon that serves is ready only after it *)
(* was verified, and one that is lost stops being ready before the next one     *)
(* serves.  PulseDaemon implements it (internal/audio/pulse.go); RecorderLoop   *)
(* is checked and proved against it.                                            *)

VARIABLES up,        \* a daemon serves
          ready,     \* PulseAudio.Ready()
          verified,  \* pactl succeeded, setReady(true) has not run yet
          stopped    \* ctx is cancelled

daemonVars == <<up, ready, verified, stopped>>

Init == up = FALSE /\ ready = FALSE /\ verified = FALSE /\ stopped = FALSE

\* A daemon serves: never while an earlier one is, or is about to be, ready.
Serve ==
    /\ ~up /\ ~ready /\ ~verified
    /\ up' = TRUE
    /\ UNCHANGED <<ready, verified, stopped>>

\* pactl has found the sink on the serving daemon and made it the default.
Verify ==
    /\ up /\ ~ready /\ ~verified
    /\ verified' = TRUE
    /\ UNCHANGED <<up, ready, stopped>>

\* setReady(true), which a daemon that died since pactl returned gets too.
Report ==
    /\ verified
    /\ ready' = TRUE
    /\ verified' = FALSE
    /\ UNCHANGED <<up, stopped>>

\* A crash, a kill or an exit that was asked for.
Die ==
    /\ up
    /\ up' = FALSE
    /\ UNCHANGED <<ready, verified, stopped>>

\* setReady(false): the loss was noticed, or the program is stopping.
Notice ==
    /\ ready
    /\ ~up \/ stopped
    /\ ready' = FALSE
    /\ UNCHANGED <<up, verified, stopped>>

Stop ==
    /\ ~stopped
    /\ stopped' = TRUE
    /\ UNCHANGED <<up, ready, verified>>

Next == Serve \/ Verify \/ Report \/ Die \/ Notice \/ Stop

Spec == Init /\ [][Next]_daemonVars
=============================================================================
