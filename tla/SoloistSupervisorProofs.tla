---------------------- MODULE SoloistSupervisorProofs ----------------------
(* What SoloistSupervisor promises for any number of restarts.               *)
EXTENDS SoloistSupervisor, TLAPS

\* The inductive invariant: outside a run the process is dead; a code in waitCh
\* is the exit code of the reaped current process; while the supervisor can
\* still receive it, a reaped process's code is in waitCh (code 0 excepted, it
\* may have been taken for an address); and the halted and the attached states.
SupInv ==
    /\ pc \in {"top", "backoff", "stopped"} => proc # "running"
    /\ proc \in {"exited", "reaped"} => exitCode \in Codes
    /\ waitCh # Nothing => proc = "reaped" /\ waitCh = exitCode
    /\ (pc \in Loop \cup {"waitWS"} /\ proc = "reaped" /\ exitCode # 0)
          => waitCh = exitCode
    /\ ExpiredIsFinal
    /\ AttachedInSession

\* The two halves of TypeOK: flags, and labels, codes and numbers.
FlagsOK ==
    /\ listening \in BOOLEAN
    /\ connUp \in BOOLEAN
    /\ attached \in BOOLEAN
    /\ binary \in BOOLEAN
    /\ ctxDone \in BOOLEAN

DataOK ==
    /\ pc \in Labels
    /\ starts \in 0..MaxStarts
    /\ proc \in {"none", "running", "exited", "reaped"}
    /\ exitCode \in Codes \cup {Nothing}
    /\ waitCh \in Codes \cup {Nothing}
    /\ portFile \in 0..MaxStarts
    /\ wsAddr \in 0..MaxStarts
    /\ health \in {"unset", "ok", "soloist_expired"}

\* Flags stay flags.
LEMMA FlagsStep == TypeOK /\ [Next]_vars => FlagsOK'
<1> SUFFICES ASSUME TypeOK, [Next]_vars PROVE FlagsOK'
  OBVIOUS
<1> USE DEF TypeOK, FlagsOK, soloistVars, connVars, NoKill, Return, HandleExit,
        Kill, Dies
<1>1. CASE Environment
  <2>1. CASE Publish BY <2>1 DEF Publish
  <2>2. CASE Exit BY <2>2 DEF Exit
  <2>3. CASE DropConnection BY <2>3 DEF DropConnection
  <2>4. CASE WaiterDelivers BY <2>4 DEF WaiterDelivers
  <2>5. CASE Cancel BY <2>5 DEF Cancel
  <2>6. CASE CommandContextKills BY <2>6 DEF CommandContextKills
  <2> QED BY <1>1, <2>1, <2>2, <2>3, <2>4, <2>5, <2>6 DEF Environment
<1>2. CASE SupervisorStep
  <2>1. CASE Spawn BY <2>1 DEF Spawn
  <2>2. CASE SpawnFails BY <2>2 DEF SpawnFails
  <2>3. CASE StopAtTop BY <2>3 DEF StopAtTop
  <2>4. CASE WaitCancelled BY <2>4 DEF WaitCancelled
  <2>5. CASE WaitExit BY <2>5 DEF WaitExit
  <2>6. CASE WaitTimeout BY <2>6 DEF WaitTimeout
  <2>7. CASE ReadPort BY <2>7 DEF ReadPort
  <2>8. CASE LoopCancelled BY <2>8 DEF LoopCancelled
  <2>9. CASE LoopExit BY <2>9 DEF LoopExit
  <2>10. CASE LoopDefault BY <2>10 DEF LoopDefault
  <2>11. CASE DialOk BY <2>11 DEF DialOk
  <2>12. CASE DialFails BY <2>12 DEF DialFails
  <2>13. CASE DialFailed BY <2>13 DEF DialFailed
  <2>14. CASE DialSleep BY <2>14 DEF DialSleep
  <2>15. CASE Attach BY <2>15 DEF Attach
  <2>16. CASE Activate BY <2>16 DEF Activate
  <2>17. CASE ActivateFails BY <2>17 DEF ActivateFails
  <2>18. CASE SetVolume BY <2>18 DEF SetVolume
  <2>19. CASE Consume BY <2>19 DEF Consume
  <2>20. CASE Lost BY <2>20 DEF Lost
  <2>21. CASE Backoff BY <2>21 DEF Backoff
  <2> QED BY <1>2, <2>1, <2>2, <2>3, <2>4, <2>5, <2>6, <2>7, <2>8, <2>9,
             <2>10, <2>11, <2>12, <2>13, <2>14, <2>15, <2>16, <2>17, <2>18,
             <2>19, <2>20, <2>21 DEF SupervisorStep
<1>3. CASE UNCHANGED vars
  BY <1>3 DEF vars
<1> QED BY <1>1, <1>2, <1>3 DEF Next

\* Labels, codes and process numbers keep their types.
LEMMA DataStep == TypeOK /\ [Next]_vars => DataOK'
<1> SUFFICES ASSUME TypeOK, [Next]_vars PROVE DataOK'
  OBVIOUS
<1> USE SupervisorAssumption DEF TypeOK, DataOK, Labels, Loop, Session, Codes,
        Nothing, soloistVars, connVars, NoKill, Return, HandleExit, Kill, Dies
<1>1. CASE Environment
  <2>1. CASE Publish BY <2>1 DEF Publish
  <2>2. CASE Exit BY <2>2 DEF Exit
  <2>3. CASE DropConnection BY <2>3 DEF DropConnection
  <2>4. CASE WaiterDelivers BY <2>4 DEF WaiterDelivers
  <2>5. CASE Cancel BY <2>5 DEF Cancel
  <2>6. CASE CommandContextKills BY <2>6 DEF CommandContextKills
  <2> QED BY <1>1, <2>1, <2>2, <2>3, <2>4, <2>5, <2>6 DEF Environment
<1>2. CASE SupervisorStep
  <2>1. CASE Spawn BY <2>1 DEF Spawn
  <2>2. CASE SpawnFails BY <2>2 DEF SpawnFails
  <2>3. CASE StopAtTop BY <2>3 DEF StopAtTop
  <2>4. CASE WaitCancelled BY <2>4 DEF WaitCancelled
  <2>5. CASE WaitExit BY <2>5 DEF WaitExit
  <2>6. CASE WaitTimeout BY <2>6 DEF WaitTimeout
  <2>7. CASE ReadPort BY <2>7 DEF ReadPort
  <2>8. CASE LoopCancelled BY <2>8 DEF LoopCancelled
  <2>9. CASE LoopExit BY <2>9 DEF LoopExit
  <2>10. CASE LoopDefault BY <2>10 DEF LoopDefault
  <2>11. CASE DialOk BY <2>11 DEF DialOk
  <2>12. CASE DialFails BY <2>12 DEF DialFails
  <2>13. CASE DialFailed BY <2>13 DEF DialFailed
  <2>14. CASE DialSleep BY <2>14 DEF DialSleep
  <2>15. CASE Attach BY <2>15 DEF Attach
  <2>16. CASE Activate BY <2>16 DEF Activate
  <2>17. CASE ActivateFails BY <2>17 DEF ActivateFails
  <2>18. CASE SetVolume BY <2>18 DEF SetVolume
  <2>19. CASE Consume BY <2>19 DEF Consume
  <2>20. CASE Lost BY <2>20 DEF Lost
  <2>21. CASE Backoff BY <2>21 DEF Backoff
  <2> QED BY <1>2, <2>1, <2>2, <2>3, <2>4, <2>5, <2>6, <2>7, <2>8, <2>9,
             <2>10, <2>11, <2>12, <2>13, <2>14, <2>15, <2>16, <2>17, <2>18,
             <2>19, <2>20, <2>21 DEF SupervisorStep
<1>3. CASE UNCHANGED vars
  BY <1>3 DEF vars
<1> QED BY <1>1, <1>2, <1>3 DEF Next

\* Type correctness of the supervisor's state (every action).
THEOREM TypeCorrect == Spec => []TypeOK
<1>1. Init => DataOK
  BY SupervisorAssumption DEF Init, DataOK, Loop, Session, Labels, Codes, Nothing
<1>2. Init => FlagsOK
  BY DEF Init, FlagsOK
<1>3. DataOK /\ FlagsOK => TypeOK
  BY DEF DataOK, FlagsOK, TypeOK
<1>4. DataOK' /\ FlagsOK' => TypeOK'
  BY DEF DataOK, FlagsOK, TypeOK
<1>5. TypeOK /\ [Next]_vars => TypeOK'
  BY <1>4, DataStep, FlagsStep
<1> QED BY <1>1, <1>2, <1>3, <1>5, PTL DEF Spec

\* Nothing runs, is attached or was reaped at first.
LEMMA SupInit == Init => SupInv
BY SupervisorAssumption
   DEF Init, SupInv, ExpiredIsFinal, AttachedInSession, Loop, Session, Nothing

\* SupInv is inductive: what leaves the loop has killed or reaped the process,
\* and what takes a code from waitCh leaves the loop with it.
LEMMA SupStep == TypeOK /\ SupInv /\ [Next]_vars => SupInv'
<1> SUFFICES ASSUME TypeOK, SupInv, [Next]_vars PROVE SupInv'
  OBVIOUS
<1> USE DEF TypeOK, SupInv, ExpiredIsFinal, AttachedInSession, Loop, Session,
        Codes, Nothing, soloistVars, connVars, NoKill, Return, HandleExit, Kill,
        Dies
<1>1. CASE Environment
  <2>1. CASE Publish BY <2>1 DEF Publish
  <2>2. CASE Exit BY <2>2 DEF Exit
  <2>3. CASE DropConnection BY <2>3 DEF DropConnection
  <2>4. CASE WaiterDelivers BY <2>4 DEF WaiterDelivers
  <2>5. CASE Cancel BY <2>5 DEF Cancel
  <2>6. CASE CommandContextKills BY <2>6 DEF CommandContextKills
  <2> QED BY <1>1, <2>1, <2>2, <2>3, <2>4, <2>5, <2>6 DEF Environment
<1>2. CASE SupervisorStep
  <2>1. CASE Spawn BY <2>1 DEF Spawn
  <2>2. CASE SpawnFails BY <2>2 DEF SpawnFails
  <2>3. CASE StopAtTop BY <2>3 DEF StopAtTop
  <2>4. CASE WaitCancelled BY <2>4 DEF WaitCancelled
  <2>5. CASE WaitExit
    <3>1. CASE waitCh = 0 BY <2>5, <3>1 DEF WaitExit
    <3>2. CASE waitCh # 0 BY <2>5, <3>2 DEF WaitExit
    <3> QED BY <3>1, <3>2
  <2>6. CASE WaitTimeout BY <2>6 DEF WaitTimeout
  <2>7. CASE ReadPort BY <2>7 DEF ReadPort
  <2>8. CASE LoopCancelled BY <2>8 DEF LoopCancelled
  <2>9. CASE LoopExit BY <2>9 DEF LoopExit
  <2>10. CASE LoopDefault BY <2>10 DEF LoopDefault
  <2>11. CASE DialOk BY <2>11 DEF DialOk
  <2>12. CASE DialFails BY <2>12 DEF DialFails
  <2>13. CASE DialFailed BY <2>13 DEF DialFailed
  <2>14. CASE DialSleep BY <2>14 DEF DialSleep
  <2>15. CASE Attach BY <2>15 DEF Attach
  <2>16. CASE Activate BY <2>16 DEF Activate
  <2>17. CASE ActivateFails BY <2>17 DEF ActivateFails
  <2>18. CASE SetVolume BY <2>18 DEF SetVolume
  <2>19. CASE Consume BY <2>19 DEF Consume
  <2>20. CASE Lost BY <2>20 DEF Lost
  <2>21. CASE Backoff BY <2>21 DEF Backoff
  <2> QED BY <1>2, <2>1, <2>2, <2>3, <2>4, <2>5, <2>6, <2>7, <2>8, <2>9, <2>10,
             <2>11, <2>12, <2>13, <2>14, <2>15, <2>16, <2>17, <2>18, <2>19,
             <2>20, <2>21 DEF SupervisorStep
<1>3. CASE UNCHANGED vars
  BY <1>3 DEF vars
<1> QED BY <1>1, <1>2, <1>3 DEF Next

\* SupInv holds in every reachable state, however often Soloist is restarted.
THEOREM SupInvAlways == Spec => []SupInv
BY SupInit, SupStep, TypeCorrect, PTL DEF Spec

\* When Run has returned, no Soloist runs (the Kill of every return path).
THEOREM NoOrphanAlways == Spec => []NoOrphan
<1>1. SupInv => NoOrphan
  BY DEF SupInv, NoOrphan
<1> QED BY <1>1, SupInvAlways, PTL

\* No receive from waitCh loses the exit code of a crash (runOnce's selects).
THEOREM CrashNotLostAlways == Spec => []CrashNotLost
<1>1. SupInv => CrashNotLost
  BY DEF SupInv, CrashNotLost
<1> QED BY <1>1, SupInvAlways, PTL

\* After exit code 10 was handled Soloist stays halted and reported (handleExit).
THEOREM ExpiredIsFinalAlways == Spec => []ExpiredIsFinal
<1>1. SupInv => ExpiredIsFinal
  BY DEF SupInv
<1> QED BY <1>1, SupInvAlways, PTL

\* Commands are attached exactly while a session runs (attach, detach).
THEOREM AttachedInSessionAlways == Spec => []AttachedInSession
<1>1. SupInv => AttachedInSession
  BY DEF SupInv
<1> QED BY <1>1, SupInvAlways, PTL

\* A new Soloist is spawned only when the previous one is dead (Run, runOnce).
THEOREM SingleInstanceAlways == Spec => SingleInstance
<1>1. TypeOK /\ SupInv /\ [Next]_vars => [starts' # starts => proc # "running"]_vars
  <2> SUFFICES ASSUME TypeOK, SupInv, Next, starts' # starts
               PROVE  proc # "running"
    BY DEF vars, soloistVars
  <2>1. Spawn
    BY DEF Next, SupervisorStep, Environment, Publish, Exit, DropConnection,
       WaiterDelivers, Cancel, CommandContextKills, SpawnFails, StopAtTop,
       WaitCancelled, WaitExit, WaitTimeout, ReadPort, LoopCancelled, LoopExit,
       LoopDefault, DialOk, DialFails, DialFailed, DialSleep, Attach, Activate,
       ActivateFails, SetVolume, Consume, Lost, Backoff, Kill, NoKill, Dies,
       soloistVars
  <2> QED BY <2>1 DEF Spawn, SupInv
<1> QED BY <1>1, SupInvAlways, TypeCorrect, PTL DEF Spec, SingleInstance

-----------------------------------------------------------------------------
(* SoloistSupervisor implements SoloistLife.                                  *)

\* What the mapping needs besides SupInv: a run has a process; its exit is in
\* waitCh unless the wait for the port has taken code 0 for an address, and
\* with the address that is then empty no connection is ever opened.
LifeInv ==
    /\ pc \in Inside => proc # "none"
    /\ proc # "none" => starts # 0
    /\ pc = "waitWS" /\ proc = "reaped" => waitCh = exitCode
    /\ pc \in Loop /\ proc = "reaped" /\ waitCh = Nothing => wsAddr = 0
    /\ pc = "attach" \/ pc \in Session => wsAddr # 0

\* Every step keeps LifeInv.
LEMMA LifeInvStep == TypeOK /\ SupInv /\ LifeInv /\ [Next]_vars => LifeInv'
<1> SUFFICES ASSUME TypeOK, SupInv, LifeInv, [Next]_vars PROVE LifeInv'
  OBVIOUS
<1> USE DEF TypeOK, SupInv, LifeInv, Inside, Loop, Session, Codes, Nothing,
        soloistVars, connVars, NoKill, Return, HandleExit, Kill, Dies
<1>1. CASE Environment
  <2>1. CASE Publish BY <2>1 DEF Publish
  <2>2. CASE Exit BY <2>2 DEF Exit
  <2>3. CASE DropConnection BY <2>3 DEF DropConnection
  <2>4. CASE WaiterDelivers BY <2>4 DEF WaiterDelivers
  <2>5. CASE Cancel BY <2>5 DEF Cancel
  <2>6. CASE CommandContextKills BY <2>6 DEF CommandContextKills
  <2> QED BY <1>1, <2>1, <2>2, <2>3, <2>4, <2>5, <2>6 DEF Environment
<1>2. CASE SupervisorStep
  <2>1. CASE Spawn BY <2>1 DEF Spawn
  <2>2. CASE SpawnFails BY <2>2 DEF SpawnFails
  <2>3. CASE StopAtTop BY <2>3 DEF StopAtTop
  <2>4. CASE WaitCancelled BY <2>4 DEF WaitCancelled
  <2>5. CASE WaitExit BY <2>5 DEF WaitExit
  <2>6. CASE WaitTimeout BY <2>6 DEF WaitTimeout
  <2>7. CASE ReadPort BY <2>7 DEF ReadPort
  <2>8. CASE LoopCancelled BY <2>8 DEF LoopCancelled
  <2>9. CASE LoopExit BY <2>9 DEF LoopExit
  <2>10. CASE LoopDefault BY <2>10 DEF LoopDefault
  <2>11. CASE DialOk BY <2>11 DEF DialOk
  <2>12. CASE DialFails BY <2>12 DEF DialFails
  <2>13. CASE DialFailed BY <2>13 DEF DialFailed
  <2>14. CASE DialSleep BY <2>14 DEF DialSleep
  <2>15. CASE Attach BY <2>15 DEF Attach
  <2>16. CASE Activate BY <2>16 DEF Activate
  <2>17. CASE ActivateFails BY <2>17 DEF ActivateFails
  <2>18. CASE SetVolume BY <2>18 DEF SetVolume
  <2>19. CASE Consume BY <2>19 DEF Consume
  <2>20. CASE Lost BY <2>20 DEF Lost
  <2>21. CASE Backoff BY <2>21 DEF Backoff
  <2> QED BY <1>2, <2>1, <2>2, <2>3, <2>4, <2>5, <2>6, <2>7, <2>8, <2>9, <2>10,
             <2>11, <2>12, <2>13, <2>14, <2>15, <2>16, <2>17, <2>18, <2>19,
             <2>20, <2>21 DEF SupervisorStep
<1>3. CASE UNCHANGED vars
  BY <1>3 DEF vars
<1> QED BY <1>1, <1>2, <1>3 DEF Next

\* What the mapping uses holds in every reachable state.
LEMMA LifeInvAlways == Spec => [](TypeOK /\ SupInv /\ LifeInv)
<1>1. Init => LifeInv
  BY DEF Init, LifeInv, Inside, Loop, Session
<1> QED BY <1>1, LifeInvStep, SupInvAlways, TypeCorrect, PTL DEF Spec

\* Every step is a step of SoloistLife or leaves its three variables alone.
LEMMA LifeStep ==
    TypeOK /\ SupInv /\ LifeInv /\ [Next]_vars => [Life!Next]_(Life!lifeVars)
<1> SUFFICES ASSUME TypeOK, SupInv, LifeInv, [Next]_vars
             PROVE  Life!Next \/ UNCHANGED Life!lifeVars
  OBVIOUS
<1> USE DEF TypeOK, SupInv, LifeInv, ExpiredIsFinal, Inside, Loop, Session,
        InSession, Codes, Nothing, soloistVars, connVars, NoKill, Return,
        HandleExit, Kill, Dies, Phase, Seen, Name, Life!lifeVars, Life!Alive,
        Life!Codes, Life!Next, Life!Return, Life!Kill, Life!Spawn, Life!SpawnFails,
        Life!StopAtSpawn, Life!PortRead, Life!Connect, Life!Disconnect, Life!Exits,
        Life!HandleExit, Life!Swallow, Life!PortTimeout, Life!Cancelled,
        Life!Pause, Life!Stop
<1>1. CASE Environment
  <2>1. CASE Publish BY <2>1 DEF Publish
  <2>2. CASE Exit BY <2>2 DEF Exit
  <2>3. CASE DropConnection BY <2>3 DEF DropConnection
  <2>4. CASE WaiterDelivers BY <2>4 DEF WaiterDelivers
  <2>5. CASE Cancel
    <3>1. Phase' = Phase /\ Seen' = Seen
      BY <2>5 DEF Cancel, Phase, Seen, Name
    <3>2. Life!Stop
      BY <2>5, <3>1 DEF Cancel, Life!Stop
    <3> QED BY <3>2 DEF Life!Next
  <2>6. CASE CommandContextKills BY <2>6 DEF CommandContextKills
  <2> QED BY <1>1, <2>1, <2>2, <2>3, <2>4, <2>5, <2>6 DEF Environment
<1>2. CASE SupervisorStep
  <2>1. CASE Spawn BY <2>1 DEF Spawn
  <2>2. CASE SpawnFails BY <2>2 DEF SpawnFails
  <2>3. CASE StopAtTop BY <2>3 DEF StopAtTop
  <2>4. CASE WaitCancelled BY <2>4 DEF WaitCancelled
  <2>5. CASE WaitExit BY <2>5 DEF WaitExit
  <2>6. CASE WaitTimeout BY <2>6 DEF WaitTimeout
  <2>7. CASE ReadPort BY <2>7 DEF ReadPort
  <2>8. CASE LoopCancelled BY <2>8 DEF LoopCancelled
  <2>9. CASE LoopExit BY <2>9 DEF LoopExit
  <2>10. CASE LoopDefault BY <2>10 DEF LoopDefault
  <2>11. CASE DialOk BY <2>11 DEF DialOk
  <2>12. CASE DialFails BY <2>12 DEF DialFails
  <2>13. CASE DialFailed BY <2>13 DEF DialFailed
  <2>14. CASE DialSleep BY <2>14 DEF DialSleep
  <2>15. CASE Attach BY <2>15 DEF Attach
  <2>16. CASE Activate BY <2>16 DEF Activate
  <2>17. CASE ActivateFails BY <2>17 DEF ActivateFails
  <2>18. CASE SetVolume BY <2>18 DEF SetVolume
  <2>19. CASE Consume BY <2>19 DEF Consume
  <2>20. CASE Lost BY <2>20 DEF Lost
  <2>21. CASE Backoff BY <2>21 DEF Backoff
  <2> QED BY <1>2, <2>1, <2>2, <2>3, <2>4, <2>5, <2>6, <2>7, <2>8, <2>9, <2>10,
             <2>11, <2>12, <2>13, <2>14, <2>15, <2>16, <2>17, <2>18, <2>19,
             <2>20, <2>21 DEF SupervisorStep
<1>3. CASE UNCHANGED vars
  BY <1>3 DEF vars
<1> QED BY <1>1, <1>2, <1>3 DEF Next

\* The supervisor, its retries and its selects implement the life of Soloist that
\* the rest of the shim relies on (Run, runOnce, handleExit).
THEOREM LifeImplemented == Spec => ImplementsSoloistLife
<1>1. Init => Life!Init
  BY DEF Init, Phase, Seen, Inside, InSession, Loop, Session, Life!Init
<1> QED BY <1>1, LifeInvAlways, LifeStep, PTL DEF Spec, ImplementsSoloistLife, Life!Spec
=============================================================================
