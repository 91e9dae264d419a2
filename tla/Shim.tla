-------------------------------- MODULE Shim --------------------------------
(* The shim as a program (cmd/shim/main.go) that is started again and again on *)
(* one data directory: finding, downloading and testing the Soloist binary     *)
(* (binary.go), the session check (session.go), pairing (pair.go), the         *)
(* hand-over to the supervisor, and the one health reason behind /healthz,     *)
(* which main, pairing, the supervisor and PulseAudio all write.  Of the       *)
(* supervisor the interface SoloistLife is all that is known here, of          *)
(* PulseAudio the reasons it reports; SoloistSupervisor and PulseDaemon have   *)
(* them in full.                                                               *)
EXTENDS Naturals

CONSTANT MaxLives    \* bound: how often the shim is started

ASSUME ShimAssumption == MaxLives \in Nat \ {0}

VARIABLES
    lives,      \* how often the shim was started
    outside,    \* the binary at SOLOIST_BIN or on PATH
    dataBin,    \* the file <data dir>/bin/soloist
    session,    \* does <data dir>/settings/Users exist
    main,       \* where main is
    path,       \* binPath: which of the two binaries was resolved
    gate,       \* the goroutine of pairThenSupervisor or runSupervisor
    pair,       \* the pair process, or the exit code waiting in its waitCh
    soloist,    \* the Connect-mode process, or its exit code
    health,     \* Server.unhealthyReason
    ctxDone     \* SIGINT or SIGTERM came

disk == <<outside, dataBin, session>>
processes == <<pair, soloist>>
life == <<lives, ctxDone>>
vars == <<disk, processes, life, main, path, gate, health>>

\* A binary: absent, not executable as it is (a partial download, another
\* architecture), fit, or too old to be served.
Binary == {"none", "broken", "good", "expired"}

Reasons == {"", "soloist_missing", "soloist_unpaired", "soloist_expired",
            "pulseaudio_not_ready"}

\* A process: stale when its build had expired before it was started; then the
\* exit code that waits in its waitCh.
Process == {"none", "runs", "stale", "0", "10", "1"}

Running == {"runs", "stale"}

MainLabels == {"load", "resolve", "get", "extract", "smoke", "missing",
               "check", "mark", "start", "serve", "serving", "exited"}

GateLabels == {"none", "pair", "wait", "retry", "spawn", "port", "run", "on",
               "pause", "report", "over"}

Pairing == {"pair", "wait", "retry"}

TypeOK ==
    /\ lives \in 1..MaxLives
    /\ outside \in Binary /\ dataBin \in Binary
    /\ session \in BOOLEAN
    /\ main \in MainLabels
    /\ path \in {"none", "outside", "data"}
    /\ gate \in GateLabels
    /\ pair \in Process /\ soloist \in Process
    /\ health \in Reasons
    /\ ctxDone \in BOOLEAN

\* An operator may have put a binary in either place; one in the data dir may
\* also be what an earlier shim left.
Init ==
    /\ lives = 1
    /\ outside \in Binary /\ dataBin \in Binary
    /\ session \in BOOLEAN
    /\ main = "load" /\ path = "none" /\ gate = "none"
    /\ pair = "none" /\ soloist = "none"
    /\ health = "" /\ ctxDone = FALSE

\* Supervisor.Run, as SoloistSupervisor implements it.
Life == INSTANCE SoloistLife WITH
    where <- gate, soloist <- soloist, stopped <- ctxDone

\* The file that binPath names.
Resolved == IF path = "data" THEN dataBin ELSE outside

\* What GET /healthz answers; before ListenAndServe it is refused.
Healthz ==
    IF main # "serving" THEN "refused" ELSE IF health = "" THEN "ok" ELSE health

\* The process ends, and with it everything in the container but the disk.
Halt ==
    /\ main' = "exited" /\ path' = "none" /\ gate' = "none"
    /\ pair' = "none" /\ soloist' = "none"
    /\ health' = "" /\ ctxDone' = FALSE
    /\ UNCHANGED <<disk, lives>>

-----------------------------------------------------------------------------
(* The environment. *)

Terminate ==
    /\ main # "exited" /\ ~ctxDone
    /\ ctxDone' = TRUE
    /\ UNCHANGED <<disk, processes, lives, main, path, gate, health>>

\* SIGKILL, out of memory, power: at any point, also in a download.
Crash == main # "exited" /\ Halt

Restart ==
    /\ main = "exited" /\ lives < MaxLives
    /\ lives' = lives + 1
    /\ main' = "load"
    /\ UNCHANGED <<disk, processes, ctxDone, path, gate, health>>

\* Ninety days pass.
Expire ==
    /\ \/ dataBin = "good" /\ dataBin' = "expired" /\ UNCHANGED outside
       \/ outside = "good" /\ outside' = "expired" /\ UNCHANGED dataBin
    /\ UNCHANGED <<session, processes, life, main, path, gate, health>>

\* The operator picks the device in the Spotify app.
StoreSession ==
    /\ pair = "runs" /\ ~session
    /\ session' = TRUE
    /\ UNCHANGED <<outside, dataBin, processes, life, main, path, gate, health>>

\* What a new process of the resolved build is.
Started == IF Resolved = "expired" THEN "stale" ELSE "runs"

\* Only an expired build exits with 10, and one that had expired before it was
\* started not with 0; nothing is said of when they exit.
ExitCodes(process) ==
    {"1"} \cup (IF Resolved = "expired" THEN {"10"} ELSE {})
          \cup (IF process = "stale" THEN {} ELSE {"0"})

PairExits(code) ==
    /\ pair \in Running /\ code \in ExitCodes(pair)
    /\ pair' = code
    /\ UNCHANGED <<disk, soloist, life, main, path, gate, health>>

SoloistExits(code) ==
    /\ Life!Exits(code) /\ code \in ExitCodes(soloist)
    /\ UNCHANGED <<disk, pair, life, main, path, gate, health>>

\* exec.CommandContext kills the processes of a cancelled context.
ContextKills ==
    /\ ctxDone
    /\ \/ pair \in Running /\ pair' = "1" /\ UNCHANGED soloist
       \/ Life!Exits("1") /\ UNCHANGED pair
    /\ UNCHANGED <<disk, life, main, path, gate, health>>

\* PulseAudio.Run starts before the binary is resolved and reports on its own.
PulseReports(reason) ==
    /\ main \notin {"load", "exited"}
    /\ reason \in {"", "pulseaudio_not_ready"}
    /\ health' = reason
    /\ UNCHANGED <<disk, processes, life, main, path, gate>>

-----------------------------------------------------------------------------
(* main. *)

MainGoes(from, to) == main = from /\ main' = to

\* config.Load: a missing or malformed variable ends the program.
Load ==
    \/ main = "load" /\ Halt
    \/ /\ MainGoes("load", "resolve")
       /\ UNCHANGED <<disk, processes, life, path, gate, health>>

\* Bug variant: a file in the data dir is taken without a test.
ResolveUntested ==
    /\ main = "resolve"
    /\ \/ outside # "none" /\ path' = "outside" /\ main' = "smoke"
       \/ /\ outside = "none" /\ dataBin # "none"
          /\ path' = "data" /\ main' = "check"
       \/ /\ outside = "none" /\ dataBin = "none"
          /\ main' = "get" /\ UNCHANGED path
    /\ UNCHANGED <<disk, processes, life, gate, health>>

\* Resolve: SOLOIST_BIN, PATH, data dir, download, in this order.
Resolve ==
    /\ main = "resolve"
    /\ \/ outside # "none" /\ path' = "outside" /\ main' = "smoke"
       \/ /\ outside = "none" /\ dataBin # "none"
          /\ path' = "data" /\ main' = "smoke"
       \/ /\ outside = "none" /\ dataBin = "none"
          /\ main' = "get" /\ UNCHANGED path
    /\ UNCHANGED <<disk, processes, life, gate, health>>

\* http.Get returns.  It has no context and no timeout, so neither a signal nor
\* the clock ends it.  Opening the file for the entry truncates or creates it.
Get ==
    /\ \/ MainGoes("get", "missing") /\ UNCHANGED dataBin
       \/ MainGoes("get", "extract") /\ dataBin' = "broken"
    /\ UNCHANGED <<outside, session, processes, life, path, gate, health>>

\* io.Copy ends; what an error leaves behind is not removed.
Extract ==
    /\ \/ MainGoes("extract", "missing") /\ UNCHANGED <<dataBin, path>>
       \/ MainGoes("extract", "smoke") /\ dataBin' = "good" /\ path' = "data"
    /\ UNCHANGED <<outside, session, processes, life, gate, health>>

\* soloist --version, which an expired build is taken to answer (checkAge).
SmokeTest ==
    /\ main = "smoke"
    /\ main' = IF Resolved = "broken" THEN "missing" ELSE "check"
    /\ UNCHANGED <<disk, processes, life, path, gate, health>>

\* Bug variant: the error itself becomes the reason.
MarkMissingVerbatim ==
    /\ MainGoes("missing", "serve")
    /\ health' = "download soloist: unexpected status"
    /\ UNCHANGED <<disk, processes, life, path, gate>>

MarkMissing ==
    /\ MainGoes("missing", "serve")
    /\ health' = "soloist_missing"
    /\ UNCHANGED <<disk, processes, life, path, gate>>

\* SessionChecker.Check decides between the supervisor and pairing.
CheckSession ==
    /\ main = "check"
    /\ IF session THEN main' = "serve" /\ gate' = "spawn"
                  ELSE main' = "mark" /\ UNCHANGED gate
    /\ UNCHANGED <<disk, processes, life, path, health>>

MarkUnpaired ==
    /\ MainGoes("mark", "start")
    /\ health' = "soloist_unpaired"
    /\ UNCHANGED <<disk, processes, life, path, gate>>

\* Bug variant: the reason is set once more after the goroutine has started.
StartPairingMarks ==
    \/ /\ MainGoes("start", "serve")
       /\ gate' = "pair"
       /\ UNCHANGED <<disk, processes, life, path, health>>
    \/ /\ main = "serve"
       /\ health' = "soloist_unpaired"
       /\ UNCHANGED <<disk, processes, life, path, main, gate>>

StartPairing ==
    /\ MainGoes("start", "serve")
    /\ gate' = "pair"
    /\ UNCHANGED <<disk, processes, life, path, health>>

\* ListenAndServe: the port is free, or main exits with 1.
Listen ==
    \/ main = "serve" /\ Halt
    \/ /\ MainGoes("serve", "serving")
       /\ UNCHANGED <<disk, processes, life, path, gate, health>>

\* Bug variant: main waits for the Soloist goroutine, which may not exist.
ServeReturnsLast == main = "serving" /\ ctxDone /\ gate = "over" /\ Halt

\* Shutdown makes ListenAndServe return, Run and main return with it; nobody
\* waits for the other goroutines.
ServeReturns == main = "serving" /\ ctxDone /\ Halt

-----------------------------------------------------------------------------
(* pairThenSupervisor: Drive and Pair. *)

\* exec refuses to start under a cancelled context.
StartPair ==
    /\ gate = "pair"
    /\ \/ ~ctxDone /\ gate' = "wait" /\ pair' = Started
       \/ gate' = "retry" /\ UNCHANGED pair
    /\ UNCHANGED <<disk, soloist, life, main, path, health>>

\* Kill does not wait: the signal is sent, the process is gone a little later.
KillPair == pair' = "none"

PairCancelled ==
    /\ gate = "wait" /\ ctxDone
    /\ KillPair
    /\ gate' = "over"
    /\ UNCHANGED <<disk, soloist, life, main, path, health>>

\* Exit code 0 hands over, with a warning when there is no session.
PairExited0 ==
    /\ gate = "wait" /\ pair = "0"
    /\ pair' = "none"
    /\ gate' = "spawn"
    /\ UNCHANGED <<disk, soloist, life, main, path, health>>

\* DeleteBinary removes the data dir's file, wherever binPath points.
DeleteBinary == dataBin' = "none" /\ UNCHANGED <<outside, session>>

PairExited10 ==
    /\ gate = "wait" /\ pair = "10"
    /\ pair' = "none"
    /\ DeleteBinary
    /\ gate' = "report"
    /\ UNCHANGED <<soloist, life, main, path, health>>

PairFailed ==
    /\ gate = "wait" /\ pair = "1"
    /\ pair' = "none"
    /\ gate' = "retry"
    /\ UNCHANGED <<disk, soloist, life, main, path, health>>

\* Bug variants: the pair process is left running; the session is not looked for.
PollSessionNoKill ==
    /\ gate = "wait" /\ session
    /\ gate' = "spawn"
    /\ UNCHANGED <<disk, processes, life, main, path, health>>

PollSessionNever ==
    /\ gate = "wait" /\ session /\ pair = "0"
    /\ KillPair
    /\ gate' = "spawn"
    /\ UNCHANGED <<disk, soloist, life, main, path, health>>

\* The ticker of Pair: a stored session ends pairing.
PollSession ==
    /\ gate = "wait" /\ session
    /\ KillPair
    /\ gate' = "spawn"
    /\ UNCHANGED <<disk, soloist, life, main, path, health>>

\* The timer of Drive, or its ctx.Done(): select may take either.
Retry ==
    /\ gate = "retry"
    /\ gate' \in {"pair"} \cup (IF ctxDone THEN {"over"} ELSE {})
    /\ UNCHANGED <<disk, processes, life, main, path, health>>

\* The outcome reaches pairThenSupervisor, or Supervisor.Run.
ReportExpired ==
    /\ gate = "report"
    /\ health' = "soloist_expired"
    /\ gate' = "over"
    /\ UNCHANGED <<disk, processes, life, main, path>>

-----------------------------------------------------------------------------
(* runSupervisor: the life of Soloist, with disk and health.                  *)

Spawn ==
    /\ \/ Life!Spawn /\ soloist' = Started
       \/ Life!SpawnFails
       \/ Life!StopAtSpawn
    /\ UNCHANGED <<disk, pair, lives, main, path, health>>

\* A ws.port is there, of this process or of one that crashed.
PortRead == Life!PortRead /\ UNCHANGED <<disk, pair, lives, main, path, health>>

\* dial and activate succeed: setHealth("").  A stale build gives up before that.
Connect ==
    /\ Life!Connect /\ soloist \notin {"stale", "10"}
    /\ health' = ""
    /\ UNCHANGED <<disk, pair, lives, main, path>>

Disconnect == Life!Disconnect /\ UNCHANGED <<disk, pair, lives, main, path, health>>

\* Bug variant: exit code 10 restarts like any other.
HandleExitRestarts ==
    /\ gate \in {"port", "run"} /\ soloist \in {"0", "1", "10"}
    /\ soloist' = "none"
    /\ gate' = "pause"
    /\ UNCHANGED <<disk, pair, life, main, path, health>>

HandleExit ==
    /\ Life!HandleExit
    /\ IF soloist = "10" THEN DeleteBinary ELSE UNCHANGED disk
    /\ UNCHANGED <<pair, lives, main, path, health>>

\* Exit code 0 in the wait for ws.port: nobody learns that Soloist is gone.
Swallow == Life!Swallow /\ UNCHANGED <<disk, pair, lives, main, path, health>>

PortTimeout == Life!PortTimeout /\ UNCHANGED <<disk, pair, lives, main, path, health>>

SupervisorCancelled ==
    Life!Cancelled /\ UNCHANGED <<disk, pair, lives, main, path, health>>

Pause == Life!Pause /\ UNCHANGED <<disk, pair, lives, main, path, health>>

-----------------------------------------------------------------------------

Main ==
    \/ Load \/ Resolve \/ Get \/ Extract \/ SmokeTest \/ MarkMissing
    \/ CheckSession \/ MarkUnpaired \/ StartPairing \/ Listen \/ ServeReturns

PairStep ==
    \/ StartPair \/ PairCancelled \/ PairExited0 \/ PairExited10 \/ PairFailed
    \/ PollSession \/ Retry \/ ReportExpired

SupervisorStep ==
    \/ Spawn \/ PortRead \/ Connect \/ Disconnect \/ HandleExit \/ Swallow
    \/ PortTimeout \/ SupervisorCancelled \/ Pause

Environment ==
    \/ Terminate \/ Crash \/ Restart \/ Expire \/ StoreSession \/ ContextKills
    \/ \E code \in {"0", "1", "10"} : PairExits(code) \/ SoloistExits(code)
    \/ \E reason \in Reasons : PulseReports(reason)

Next == Main \/ PairStep \/ SupervisorStep \/ Environment

Spec == Init /\ [][Next]_vars

(* Scheduling.  main and the Soloist goroutine run, a download ends in success *)
(* or error.  The two-second ticker of Pair is ready again and again while a   *)
(* pair process runs, and select chooses it in the end: pair processes that    *)
(* have a session do not all die within their first two seconds.  A spawn does *)
(* not fail for ever.  An expired build says so again and again, and not every *)
(* one of its exits falls together with the port timeout that hides it.        *)
Fairness ==
    /\ WF_vars(Main)
    /\ WF_vars(StartPair \/ PairExited0 \/ PairFailed \/ Retry)
    /\ SF_vars(StartPair /\ gate' = "wait")
    /\ SF_vars(PollSession)
    /\ SF_vars(pair = "stale" /\ PairExits("10")) /\ SF_vars(PairExited10)
    /\ WF_vars(Spawn \/ Pause)
    /\ WF_vars(soloist \notin Running /\ Disconnect) /\ SF_vars(HandleExit)
    /\ SF_vars(Spawn /\ gate' = "port")
    /\ SF_vars(soloist = "stale" /\ SoloistExits("10"))
    /\ SF_vars(HandleExit /\ soloist = "10")

FairSpec == Spec /\ Fairness

-----------------------------------------------------------------------------
(* Properties. *)

\* What runs is always a complete, executable file that this start has tested:
\* no crash in a download, no failed copy and no deletion after exit code 10
\* lets pairing or the supervisor start something else (Resolve, smokeTest,
\* DeleteBinary).
OnlyTestedRuns ==
    (pair \in Running \/ soloist \in Running) => Resolved \in {"good", "expired"}

\* A good binary in the data dir is never lost: no download truncates it, and code
\* 10 of the build that runs deletes none but that build, whatever crash came in
\* between (download, DeleteBinary).  It may delete it when the build that said
\* so is the one outside.
GoodIsKept ==
    [][(dataBin = "good" /\ path # "outside") => dataBin' \in {"good", "expired"}]_vars

\* A pair process that nobody has told to end never shares the data dir with a
\* Connect-mode Soloist (Pair kills it before it returns PairDone).
PairingEndsFirst == ~(pair \in Running /\ soloist # "none")

\* "soloist_unpaired" never outlives pairing so far as to be shown for a
\* connected Soloist: it is set before the pairing goroutine starts.
UnpairedIsPast == health = "soloist_unpaired" => gate # "on"

\* A stored session takes the shim from pairing to Connect mode without a
\* restart, unless it is told to stop, crashes, or learns that its binary expired.
PairedStartsSoloist ==
    (session /\ gate \in Pairing)
        ~> (gate \in {"port", "report", "over"} \/ main = "exited")

\* An expired binary in the data dir does not survive the life of the shim that
\* runs it: exit code 10 reaches DeleteBinary from pairing and from the
\* supervisor, so that the next start downloads.
ExpiredIsDeleted ==
    (dataBin = "expired" /\ path = "data" /\ "stale" \in {pair, soloist})
        ~> (dataBin # "expired" \/ ctxDone \/ main = "exited")

\* A signal ends the program, also one that comes during the download, provided
\* the download ends.
ShutdownEnds == ctxDone ~> main = "exited"

-----------------------------------------------------------------------------
(* What the documents say and the code does not do. *)

\* While the session is missing /healthz says soloist_unpaired
\* (STRUCTURE.md:119).
UnpairedReported ==
    (gate \in Pairing /\ ~session) => Healthz \in {"refused", "soloist_unpaired"}
=============================================================================
