----------------------------- MODULE ShimProofs -----------------------------
(* What holds of the shim however often it is started on the same disk.       *)
EXTENDS Shim, TLAPS

(* The groups of variables an action leaves alone are always expanded. *)
USE DEF disk, processes, life

\* TypeOK in two halves: names and counters, and the flags.
NamesOK ==
    /\ lives \in 1..MaxLives
    /\ outside \in Binary /\ dataBin \in Binary
    /\ main \in MainLabels
    /\ path \in {"none", "outside", "data"}
    /\ gate \in GateLabels
    /\ pair \in Process /\ soloist \in Process
    /\ health \in Reasons

FlagsOK == session \in BOOLEAN /\ ctxDone \in BOOLEAN

Fit(file) == file \in {"good", "expired"}

\* The gates at which a binary is run or about to be run.
Active == GateLabels \ {"none", "report", "over"}

\* The inductive invariant: the Soloist goroutine exists only once main is past
\* the test of the binary, the tested file stays as it is while anything may
\* still be started from it, a process belongs to the gate that waits for it,
\* and the reason of the pairing gate is older than the goroutine.
ShimInv ==
    /\ gate # "none" => main \in {"serve", "serving"}
    /\ main = "smoke" => Resolved # "none"
    /\ main \in {"check", "mark", "start"} => Fit(Resolved)
    /\ gate \in Active => Fit(Resolved)
    /\ pair # "none" => gate = "wait"
    /\ soloist \in Running => gate \in {"port", "run", "on"}
    /\ soloist # "none" => gate \in {"spawn", "port", "run", "on", "pause", "over"}
    /\ UnpairedIsPast

\* Names and counters keep their types.
LEMMA NamesStep == NamesOK /\ [Next]_vars => NamesOK'
<1> SUFFICES ASSUME NamesOK, [Next]_vars PROVE NamesOK'
  OBVIOUS
<1> USE ShimAssumption DEF NamesOK
<1>1. CASE Main
  <2>1. CASE Load
    BY <2>1
    DEF Load, MainGoes, Halt, MainLabels, GateLabels, Process, Reasons
  <2>2. CASE Resolve BY <2>2 DEF Resolve, MainLabels
  <2>3. CASE Get BY <2>3 DEF Get, MainGoes, MainLabels, Binary
  <2>4. CASE Extract BY <2>4 DEF Extract, MainGoes, MainLabels, Binary
  <2>5. CASE SmokeTest BY <2>5 DEF SmokeTest, MainLabels
  <2>6. CASE MarkMissing
    BY <2>6
    DEF MarkMissing, MainGoes, MainLabels, Reasons
  <2>7. CASE CheckSession BY <2>7 DEF CheckSession, MainLabels, GateLabels
  <2>8. CASE MarkUnpaired
    BY <2>8
    DEF MarkUnpaired, MainGoes, MainLabels, Reasons
  <2>9. CASE StartPairing
    BY <2>9
    DEF StartPairing, MainGoes, MainLabels, GateLabels
  <2>10. CASE Listen
    BY <2>10
    DEF Listen, MainGoes, Halt, MainLabels, GateLabels, Process, Reasons
  <2>11. CASE ServeReturns
    BY <2>11
    DEF ServeReturns, Halt, MainLabels, GateLabels, Process, Reasons
  <2> QED BY <1>1, <2>1, <2>2, <2>3, <2>4, <2>5, <2>6, <2>7, <2>8, <2>9,
            <2>10, <2>11
            DEF Main
<1>2. CASE PairStep
  <2>1. CASE StartPair BY <2>1 DEF StartPair, Started, Process, GateLabels
  <2>2. CASE PairCancelled
    BY <2>2
    DEF PairCancelled, KillPair, Process, GateLabels
  <2>3. CASE PairExited0 BY <2>3 DEF PairExited0, Process, GateLabels
  <2>4. CASE PairExited10
    BY <2>4
    DEF PairExited10, DeleteBinary, Process, GateLabels, Binary
  <2>5. CASE PairFailed BY <2>5 DEF PairFailed, Process, GateLabels
  <2>6. CASE PollSession
    BY <2>6
    DEF PollSession, KillPair, Process, GateLabels
  <2>7. CASE Retry BY <2>7 DEF Retry, GateLabels
  <2>8. CASE ReportExpired BY <2>8 DEF ReportExpired, Reasons, GateLabels
  <2> QED BY <1>2, <2>1, <2>2, <2>3, <2>4, <2>5, <2>6, <2>7, <2>8
            DEF PairStep
<1>3. CASE SupervisorStep
  <2>1. CASE Spawn
    BY <2>1
    DEF Spawn, Started, Life!Spawn, Life!SpawnFails, Life!StopAtSpawn,
        Life!Return, Process, GateLabels
  <2>2. CASE Connect BY <2>2 DEF Connect, Life!Connect, Reasons, GateLabels
  <2>3. CASE Disconnect BY <2>3 DEF Disconnect, Life!Disconnect, GateLabels
  <2>4. CASE HandleExit
    BY <2>4
    DEF HandleExit, DeleteBinary, Life!HandleExit, Life!Return,
        Process, GateLabels, Binary
  <2>5. CASE Swallow BY <2>5 DEF Swallow, Life!Swallow, Process, GateLabels
  <2>6. CASE PortTimeout
    BY <2>6 DEF PortTimeout, Life!PortTimeout, Life!Kill, Life!Return,
        Process, GateLabels
  <2>7. CASE SupervisorCancelled
    BY <2>7
    DEF SupervisorCancelled, Life!Cancelled, Life!Kill,
        Process, GateLabels
  <2>8. CASE Pause BY <2>8 DEF Pause, Life!Pause, GateLabels
  <2>9. CASE PortRead BY <2>9 DEF PortRead, Life!PortRead, GateLabels
  <2> QED BY <1>3, <2>1, <2>2, <2>3, <2>4, <2>5, <2>6, <2>7, <2>8, <2>9
            DEF SupervisorStep
<1>4. CASE Environment
  <2>1. CASE Terminate BY <2>1 DEF Terminate
  <2>2. CASE Crash
    BY <2>2 DEF Crash, Halt, MainLabels, GateLabels, Process, Reasons
  <2>3. CASE Restart BY <2>3 DEF Restart, MainLabels
  <2>4. CASE Expire BY <2>4 DEF Expire, Binary
  <2>5. CASE StoreSession BY <2>5 DEF StoreSession
  <2>6. CASE ContextKills BY <2>6 DEF ContextKills, Life!Exits, Process
  <2>7. CASE \E code \in {"0", "1", "10"} : PairExits(code)
    BY <2>7 DEF PairExits, Process
  <2>8. CASE \E code \in {"0", "1", "10"} : SoloistExits(code)
    BY <2>8 DEF SoloistExits, Life!Exits, Process
  <2>9. CASE \E reason \in Reasons : PulseReports(reason)
    BY <2>9 DEF PulseReports, Reasons
  <2> QED BY <1>4, <2>1, <2>2, <2>3, <2>4, <2>5, <2>6, <2>7, <2>8, <2>9
            DEF Environment
<1>5. CASE UNCHANGED vars
  BY <1>5 DEF vars
<1> QED BY <1>1, <1>2, <1>3, <1>4, <1>5 DEF Next

\* Flags stay flags.
LEMMA FlagsStep == FlagsOK /\ [Next]_vars => FlagsOK'
<1> SUFFICES ASSUME FlagsOK, [Next]_vars PROVE FlagsOK'
  OBVIOUS
<1> USE DEF FlagsOK
<1>1. CASE Main
  <2>1. CASE Load BY <2>1 DEF Load, MainGoes, Halt
  <2>2. CASE Resolve BY <2>2 DEF Resolve
  <2>3. CASE Get BY <2>3 DEF Get, MainGoes
  <2>4. CASE Extract BY <2>4 DEF Extract, MainGoes
  <2>5. CASE SmokeTest BY <2>5 DEF SmokeTest
  <2>6. CASE MarkMissing BY <2>6 DEF MarkMissing, MainGoes
  <2>7. CASE CheckSession BY <2>7 DEF CheckSession
  <2>8. CASE MarkUnpaired BY <2>8 DEF MarkUnpaired, MainGoes
  <2>9. CASE StartPairing BY <2>9 DEF StartPairing, MainGoes
  <2>10. CASE Listen BY <2>10 DEF Listen, MainGoes, Halt
  <2>11. CASE ServeReturns BY <2>11 DEF ServeReturns, Halt
  <2> QED BY <1>1, <2>1, <2>2, <2>3, <2>4, <2>5, <2>6, <2>7, <2>8, <2>9,
            <2>10, <2>11
            DEF Main
<1>2. CASE PairStep
  <2>1. CASE StartPair BY <2>1 DEF StartPair
  <2>2. CASE PairCancelled BY <2>2 DEF PairCancelled, KillPair
  <2>3. CASE PairExited0 BY <2>3 DEF PairExited0
  <2>4. CASE PairExited10 BY <2>4 DEF PairExited10, DeleteBinary
  <2>5. CASE PairFailed BY <2>5 DEF PairFailed
  <2>6. CASE PollSession BY <2>6 DEF PollSession, KillPair
  <2>7. CASE Retry BY <2>7 DEF Retry
  <2>8. CASE ReportExpired BY <2>8 DEF ReportExpired
  <2> QED BY <1>2, <2>1, <2>2, <2>3, <2>4, <2>5, <2>6, <2>7, <2>8
            DEF PairStep
<1>3. CASE SupervisorStep
  <2>1. CASE Spawn
    BY <2>1
    DEF Spawn, Life!Spawn, Life!SpawnFails, Life!StopAtSpawn,
        Life!Return
  <2>2. CASE Connect BY <2>2 DEF Connect, Life!Connect
  <2>3. CASE Disconnect BY <2>3 DEF Disconnect, Life!Disconnect
  <2>4. CASE HandleExit
    BY <2>4
    DEF HandleExit, DeleteBinary, Life!HandleExit, Life!Return
  <2>5. CASE Swallow BY <2>5 DEF Swallow, Life!Swallow
  <2>6. CASE PortTimeout
    BY <2>6 DEF PortTimeout, Life!PortTimeout, Life!Kill, Life!Return
  <2>7. CASE SupervisorCancelled
    BY <2>7 DEF SupervisorCancelled, Life!Cancelled, Life!Kill
  <2>8. CASE Pause BY <2>8 DEF Pause, Life!Pause
  <2>9. CASE PortRead BY <2>9 DEF PortRead, Life!PortRead
  <2> QED BY <1>3, <2>1, <2>2, <2>3, <2>4, <2>5, <2>6, <2>7, <2>8, <2>9
            DEF SupervisorStep
<1>4. CASE Environment
  <2>1. CASE Terminate BY <2>1 DEF Terminate
  <2>2. CASE Crash BY <2>2 DEF Crash, Halt
  <2>3. CASE Restart BY <2>3 DEF Restart
  <2>4. CASE Expire BY <2>4 DEF Expire
  <2>5. CASE StoreSession BY <2>5 DEF StoreSession
  <2>6. CASE ContextKills BY <2>6 DEF ContextKills, Life!Exits
  <2>7. CASE \E code \in {"0", "1", "10"} : PairExits(code)
    BY <2>7 DEF PairExits
  <2>8. CASE \E code \in {"0", "1", "10"} : SoloistExits(code)
    BY <2>8 DEF SoloistExits, Life!Exits
  <2>9. CASE \E reason \in Reasons : PulseReports(reason)
    BY <2>9 DEF PulseReports
  <2> QED BY <1>4, <2>1, <2>2, <2>3, <2>4, <2>5, <2>6, <2>7, <2>8, <2>9
            DEF Environment
<1>5. CASE UNCHANGED vars
  BY <1>5 DEF vars
<1> QED BY <1>1, <1>2, <1>3, <1>4, <1>5 DEF Next

\* Both halves hold in every reachable state.
LEMMA TypesAlways == Spec => [](NamesOK /\ FlagsOK)
<1>1. Init => NamesOK
  <2> SUFFICES ASSUME Init PROVE NamesOK
    OBVIOUS
  <2>1. lives \in 1..MaxLives
    <3>1. lives = 1
      BY DEF Init
    <3> QED BY <3>1, ShimAssumption
  <2>2. main \in MainLabels /\ gate \in GateLabels /\ health \in Reasons
    BY DEF Init, MainLabels, GateLabels, Reasons
  <2>3. pair \in Process /\ soloist \in Process
    BY DEF Init, Process
  <2> QED BY <2>1, <2>2, <2>3 DEF Init, NamesOK
<1>2. Init => FlagsOK
  BY DEF Init, FlagsOK
<1> QED BY <1>1, <1>2, NamesStep, FlagsStep, PTL DEF Spec

\* Every variable keeps its type: no step of main, pairing, supervisor or of the
\* environment, crashes included, leaves the states the others expect.
THEOREM TypeCorrect == Spec => []TypeOK
<1>1. NamesOK /\ FlagsOK => TypeOK
  BY DEF NamesOK, FlagsOK, TypeOK
<1> QED BY <1>1, TypesAlways, PTL

\* Every step preserves the invariant.
LEMMA ShimInvStep == NamesOK /\ ShimInv /\ [Next]_vars => ShimInv'
<1> SUFFICES ASSUME NamesOK, ShimInv, [Next]_vars PROVE ShimInv'
  OBVIOUS
<1> USE DEF NamesOK, ShimInv, UnpairedIsPast, Resolved, Fit, Active, Binary,
            GateLabels, Process, Reasons, Running, Life!Alive, Life!Codes
<1>1. CASE Main
  <2>1. CASE Load BY <2>1 DEF Load, MainGoes, Halt
  <2>2. CASE Resolve BY <2>2 DEF Resolve
  <2>3. CASE Get BY <2>3 DEF Get, MainGoes
  <2>4. CASE Extract BY <2>4 DEF Extract, MainGoes
  <2>5. CASE SmokeTest BY <2>5 DEF SmokeTest
  <2>6. CASE MarkMissing BY <2>6 DEF MarkMissing, MainGoes
  <2>7. CASE CheckSession BY <2>7 DEF CheckSession
  <2>8. CASE MarkUnpaired BY <2>8 DEF MarkUnpaired, MainGoes
  <2>9. CASE StartPairing BY <2>9 DEF StartPairing, MainGoes
  <2>10. CASE Listen BY <2>10 DEF Listen, MainGoes, Halt
  <2>11. CASE ServeReturns BY <2>11 DEF ServeReturns, Halt
  <2> QED BY <1>1, <2>1, <2>2, <2>3, <2>4, <2>5, <2>6, <2>7, <2>8, <2>9,
            <2>10, <2>11
            DEF Main
<1>2. CASE PairStep
  <2>1. CASE StartPair BY <2>1 DEF StartPair, Started
  <2>2. CASE PairCancelled BY <2>2 DEF PairCancelled, KillPair
  <2>3. CASE PairExited0 BY <2>3 DEF PairExited0
  <2>4. CASE PairExited10 BY <2>4 DEF PairExited10, DeleteBinary
  <2>5. CASE PairFailed BY <2>5 DEF PairFailed
  <2>6. CASE PollSession BY <2>6 DEF PollSession, KillPair
  <2>7. CASE Retry BY <2>7 DEF Retry
  <2>8. CASE ReportExpired BY <2>8 DEF ReportExpired
  <2> QED BY <1>2, <2>1, <2>2, <2>3, <2>4, <2>5, <2>6, <2>7, <2>8
            DEF PairStep
<1>3. CASE SupervisorStep
  <2>1. CASE Spawn
    BY <2>1
    DEF Spawn, Started, Life!Spawn, Life!SpawnFails, Life!StopAtSpawn,
        Life!Return
  <2>2. CASE Connect BY <2>2 DEF Connect, Life!Connect
  <2>3. CASE Disconnect BY <2>3 DEF Disconnect, Life!Disconnect
  <2>4. CASE HandleExit
    BY <2>4
    DEF HandleExit, DeleteBinary, Life!HandleExit, Life!Return
  <2>5. CASE Swallow BY <2>5 DEF Swallow, Life!Swallow
  <2>6. CASE PortTimeout
    BY <2>6 DEF PortTimeout, Life!PortTimeout, Life!Kill, Life!Return
  <2>7. CASE SupervisorCancelled
    BY <2>7 DEF SupervisorCancelled, Life!Cancelled, Life!Kill
  <2>8. CASE Pause BY <2>8 DEF Pause, Life!Pause
  <2>9. CASE PortRead BY <2>9 DEF PortRead, Life!PortRead
  <2> QED BY <1>3, <2>1, <2>2, <2>3, <2>4, <2>5, <2>6, <2>7, <2>8, <2>9
            DEF SupervisorStep
<1>4. CASE Environment
  <2>1. CASE Terminate BY <2>1 DEF Terminate
  <2>2. CASE Crash BY <2>2 DEF Crash, Halt
  <2>3. CASE Restart BY <2>3 DEF Restart
  <2>4. CASE Expire BY <2>4 DEF Expire
  <2>5. CASE StoreSession BY <2>5 DEF StoreSession
  <2>6. CASE ContextKills BY <2>6 DEF ContextKills, Life!Exits
  <2>7. CASE \E code \in {"0", "1", "10"} : PairExits(code)
    BY <2>7 DEF PairExits
  <2>8. CASE \E code \in {"0", "1", "10"} : SoloistExits(code)
    BY <2>8 DEF SoloistExits, Life!Exits
  <2>9. CASE \E reason \in Reasons : PulseReports(reason)
    BY <2>9 DEF PulseReports
  <2> QED BY <1>4, <2>1, <2>2, <2>3, <2>4, <2>5, <2>6, <2>7, <2>8, <2>9
            DEF Environment
<1>5. CASE UNCHANGED vars
  BY <1>5 DEF vars
<1> QED BY <1>1, <1>2, <1>3, <1>4, <1>5 DEF Next

\* The invariant holds in every reachable state.
LEMMA ShimInvAlways == Spec => []ShimInv
<1>1. Init => ShimInv
  BY DEF Init, ShimInv, UnpairedIsPast, Active, Running
<1> QED BY <1>1, ShimInvStep, TypesAlways, PTL DEF Spec

\* What runs is a complete file that this start has tested, whatever crashes,
\* failed downloads, expiries and deletions came before (Resolve, DeleteBinary).
THEOREM OnlyTestedRunsAlways == Spec => []OnlyTestedRuns
<1>1. ShimInv => OnlyTestedRuns
  BY DEF ShimInv, OnlyTestedRuns, Running, Fit, Active, GateLabels
<1> QED BY <1>1, ShimInvAlways, PTL

\* No pair process runs unasked beside a Connect-mode Soloist (Pair's Kill).
THEOREM PairingEndsFirstAlways == Spec => []PairingEndsFirst
<1>1. ShimInv => PairingEndsFirst
  BY DEF ShimInv, PairingEndsFirst, Running
<1> QED BY <1>1, ShimInvAlways, PTL

\* A connected Soloist is never reported as unpaired (main sets the reason
\* before it starts the goroutine that may clear it).
THEOREM UnpairedIsPastAlways == Spec => []UnpairedIsPast
<1>1. ShimInv => UnpairedIsPast
  BY DEF ShimInv
<1> QED BY <1>1, ShimInvAlways, PTL

-----------------------------------------------------------------------------
(* A good binary is not lost.                                                 *)

\* A download goes on only where no file was, and a code 10 that waits was said
\* by a build that had expired.
ExpiryInv ==
    /\ main = "get" => dataBin = "none"
    /\ main = "extract" => dataBin # "good" /\ path = "none"
    /\ main \in {"load", "resolve", "get", "extract", "exited"} => path = "none"
    /\ (main \in {"smoke", "check", "mark", "start"} \/ gate # "none") => path # "none"
    /\ "10" \in {pair, soloist} => Resolved = "expired"

\* Every step keeps ExpiryInv.
LEMMA ExpiryStep == NamesOK /\ ShimInv /\ ExpiryInv /\ [Next]_vars => ExpiryInv'
<1> SUFFICES ASSUME NamesOK, ShimInv, ExpiryInv, [Next]_vars PROVE ExpiryInv'
  OBVIOUS
<1> USE DEF NamesOK, ShimInv, ExpiryInv, Resolved, Fit, Active, Binary, GateLabels,
            Process
<1>1. CASE Main
  <2>1. CASE Load BY <2>1 DEF Load, MainGoes, Halt
  <2>2. CASE Resolve BY <2>2 DEF Resolve
  <2>3. CASE Get BY <2>3 DEF Get, MainGoes
  <2>4. CASE Extract BY <2>4 DEF Extract, MainGoes
  <2>5. CASE SmokeTest BY <2>5 DEF SmokeTest
  <2>6. CASE MarkMissing BY <2>6 DEF MarkMissing, MainGoes
  <2>7. CASE CheckSession BY <2>7 DEF CheckSession
  <2>8. CASE MarkUnpaired BY <2>8 DEF MarkUnpaired, MainGoes
  <2>9. CASE StartPairing BY <2>9 DEF StartPairing, MainGoes
  <2>10. CASE Listen BY <2>10 DEF Listen, MainGoes, Halt
  <2>11. CASE ServeReturns BY <2>11 DEF ServeReturns, Halt
  <2> QED BY <1>1, <2>1, <2>2, <2>3, <2>4, <2>5, <2>6, <2>7, <2>8, <2>9,
            <2>10, <2>11
            DEF Main
<1>2. CASE PairStep
  <2>1. CASE StartPair BY <2>1 DEF StartPair, Started
  <2>2. CASE PairCancelled BY <2>2 DEF PairCancelled, KillPair
  <2>3. CASE PairExited0 BY <2>3 DEF PairExited0
  <2>4. CASE PairExited10 BY <2>4 DEF PairExited10, DeleteBinary
  <2>5. CASE PairFailed BY <2>5 DEF PairFailed
  <2>6. CASE PollSession BY <2>6 DEF PollSession, KillPair
  <2>7. CASE Retry BY <2>7 DEF Retry
  <2>8. CASE ReportExpired BY <2>8 DEF ReportExpired
  <2> QED BY <1>2, <2>1, <2>2, <2>3, <2>4, <2>5, <2>6, <2>7, <2>8
            DEF PairStep
<1>3. CASE SupervisorStep
  <2>1. CASE Spawn
    BY <2>1
    DEF Spawn, Started, Life!Spawn, Life!SpawnFails, Life!StopAtSpawn,
        Life!Return
  <2>2. CASE Connect BY <2>2 DEF Connect, Life!Connect
  <2>3. CASE Disconnect BY <2>3 DEF Disconnect, Life!Disconnect
  <2>4. CASE HandleExit
    BY <2>4
    DEF HandleExit, DeleteBinary, Life!HandleExit, Life!Return
  <2>5. CASE Swallow BY <2>5 DEF Swallow, Life!Swallow
  <2>6. CASE PortTimeout
    BY <2>6 DEF PortTimeout, Life!PortTimeout, Life!Kill, Life!Return
  <2>7. CASE SupervisorCancelled
    BY <2>7 DEF SupervisorCancelled, Life!Cancelled, Life!Kill
  <2>8. CASE Pause BY <2>8 DEF Pause, Life!Pause
  <2>9. CASE PortRead BY <2>9 DEF PortRead, Life!PortRead
  <2> QED BY <1>3, <2>1, <2>2, <2>3, <2>4, <2>5, <2>6, <2>7, <2>8, <2>9
            DEF SupervisorStep
<1>4. CASE Environment
  <2>1. CASE Terminate BY <2>1 DEF Terminate
  <2>2. CASE Crash BY <2>2 DEF Crash, Halt
  <2>3. CASE Restart BY <2>3 DEF Restart
  <2>4. CASE Expire BY <2>4 DEF Expire
  <2>5. CASE StoreSession BY <2>5 DEF StoreSession
  <2>6. CASE ContextKills BY <2>6 DEF ContextKills, Life!Exits, Life!Alive, Running
  <2>7. CASE \E code \in {"0", "1", "10"} : PairExits(code)
    BY <2>7 DEF PairExits, ExitCodes, Running
  <2>8. CASE \E code \in {"0", "1", "10"} : SoloistExits(code)
    BY <2>8 DEF SoloistExits, ExitCodes, Life!Exits, Life!Alive, Running
  <2>9. CASE \E reason \in Reasons : PulseReports(reason)
    BY <2>9 DEF PulseReports
  <2> QED BY <1>4, <2>1, <2>2, <2>3, <2>4, <2>5, <2>6, <2>7, <2>8, <2>9
            DEF Environment
<1>5. CASE UNCHANGED vars
  BY <1>5 DEF vars
<1> QED BY <1>1, <1>2, <1>3, <1>4, <1>5 DEF Next

\* Every step keeps a good binary, or its successor in age.
LEMMA GoodStep ==
    NamesOK /\ ShimInv /\ ExpiryInv /\ [Next]_vars
        => [(dataBin = "good" /\ path # "outside") => dataBin' \in {"good", "expired"}]_vars
<1> SUFFICES ASSUME NamesOK, ShimInv, ExpiryInv, [Next]_vars,
                    dataBin = "good", path # "outside"
             PROVE  dataBin' \in {"good", "expired"}
  OBVIOUS
<1> USE DEF NamesOK, ShimInv, ExpiryInv, Resolved
<1>1. CASE Main
  <2>1. CASE Load BY <2>1 DEF Load, MainGoes, Halt
  <2>2. CASE Resolve BY <2>2 DEF Resolve
  <2>3. CASE Get BY <2>3 DEF Get, MainGoes
  <2>4. CASE Extract BY <2>4 DEF Extract, MainGoes
  <2>5. CASE SmokeTest BY <2>5 DEF SmokeTest
  <2>6. CASE MarkMissing BY <2>6 DEF MarkMissing, MainGoes
  <2>7. CASE CheckSession BY <2>7 DEF CheckSession
  <2>8. CASE MarkUnpaired BY <2>8 DEF MarkUnpaired, MainGoes
  <2>9. CASE StartPairing BY <2>9 DEF StartPairing, MainGoes
  <2>10. CASE Listen BY <2>10 DEF Listen, MainGoes, Halt
  <2>11. CASE ServeReturns BY <2>11 DEF ServeReturns, Halt
  <2> QED BY <1>1, <2>1, <2>2, <2>3, <2>4, <2>5, <2>6, <2>7, <2>8, <2>9,
            <2>10, <2>11
            DEF Main
<1>2. CASE PairStep
  <2>1. CASE StartPair BY <2>1 DEF StartPair, Started
  <2>2. CASE PairCancelled BY <2>2 DEF PairCancelled, KillPair
  <2>3. CASE PairExited0 BY <2>3 DEF PairExited0
  <2>4. CASE PairExited10 BY <2>4 DEF PairExited10, DeleteBinary
  <2>5. CASE PairFailed BY <2>5 DEF PairFailed
  <2>6. CASE PollSession BY <2>6 DEF PollSession, KillPair
  <2>7. CASE Retry BY <2>7 DEF Retry
  <2>8. CASE ReportExpired BY <2>8 DEF ReportExpired
  <2> QED BY <1>2, <2>1, <2>2, <2>3, <2>4, <2>5, <2>6, <2>7, <2>8
            DEF PairStep
<1>3. CASE SupervisorStep
  <2>1. CASE Spawn
    BY <2>1
    DEF Spawn, Started, Life!Spawn, Life!SpawnFails, Life!StopAtSpawn,
        Life!Return
  <2>2. CASE Connect BY <2>2 DEF Connect, Life!Connect
  <2>3. CASE Disconnect BY <2>3 DEF Disconnect, Life!Disconnect
  <2>4. CASE HandleExit
    BY <2>4
    DEF HandleExit, DeleteBinary, Life!HandleExit, Life!Return
  <2>5. CASE Swallow BY <2>5 DEF Swallow, Life!Swallow
  <2>6. CASE PortTimeout
    BY <2>6 DEF PortTimeout, Life!PortTimeout, Life!Kill, Life!Return
  <2>7. CASE SupervisorCancelled
    BY <2>7 DEF SupervisorCancelled, Life!Cancelled, Life!Kill
  <2>8. CASE Pause BY <2>8 DEF Pause, Life!Pause
  <2>9. CASE PortRead BY <2>9 DEF PortRead, Life!PortRead
  <2> QED BY <1>3, <2>1, <2>2, <2>3, <2>4, <2>5, <2>6, <2>7, <2>8, <2>9
            DEF SupervisorStep
<1>4. CASE Environment
  <2>1. CASE Terminate BY <2>1 DEF Terminate
  <2>2. CASE Crash BY <2>2 DEF Crash, Halt
  <2>3. CASE Restart BY <2>3 DEF Restart
  <2>4. CASE Expire BY <2>4 DEF Expire
  <2>5. CASE StoreSession BY <2>5 DEF StoreSession
  <2>6. CASE ContextKills BY <2>6 DEF ContextKills, Life!Exits, Life!Alive, Running
  <2>7. CASE \E code \in {"0", "1", "10"} : PairExits(code)
    BY <2>7 DEF PairExits, Running
  <2>8. CASE \E code \in {"0", "1", "10"} : SoloistExits(code)
    BY <2>8 DEF SoloistExits, Life!Exits, Life!Alive, Running
  <2>9. CASE \E reason \in Reasons : PulseReports(reason)
    BY <2>9 DEF PulseReports
  <2> QED BY <1>4, <2>1, <2>2, <2>3, <2>4, <2>5, <2>6, <2>7, <2>8, <2>9
            DEF Environment
<1>5. CASE UNCHANGED vars
  BY <1>5 DEF vars
<1> QED BY <1>1, <1>2, <1>3, <1>4, <1>5 DEF Next

\* Whatever is downloaded, crashes, expires and says so: a good binary in the data
\* dir stays (download, Resolve, DeleteBinary).
THEOREM GoodIsKeptAlways == Spec => GoodIsKept
<1>1. Init => ExpiryInv
  BY DEF Init, ExpiryInv
<1> QED BY <1>1, ExpiryStep, GoodStep, ShimInvAlways, TypesAlways, PTL
        DEF Spec, GoodIsKept
=============================================================================
