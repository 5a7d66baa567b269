---------------------------- MODULE DaemonProofs ----------------------------
(***************************************************************************)
(* What the Daemon module's runs show for three invocations and two polls, *)
(* proved for every number of them.                                        *)
(***************************************************************************)
EXTENDS Daemon, TLAPS

StartPCs == {"reset_failed", "systemctl_start", "start_wait", "poll",
             "poll_invocation", "poll_journal"}
StopPCs  == {"check", "restarts", "systemctl_stop", "stop_wait", "result"}
PollPCs  == {"poll", "poll_invocation", "poll_journal"}

\* The local 'cmd' goes with where the step is
CmdInv == /\ pc \in StartPCs => cmd = "start"
          /\ pc \in StopPCs => cmd = "stop"

\* What the types rest on: a live unit has a run, and a poll has polls left
TypeInv == /\ TypeOK
           /\ state \in Live => run \in Runs
           /\ pc \in {"poll_invocation", "poll_journal"} => polls < Timeout

\* Runs are numbered as they begin, and a live run has not died
RunInv == /\ first <= run
          /\ \A r \in died : r <= run
          /\ state \in Live => run \notin died

\* A unit that lives on after a death shows a restart; only between reset-failed
\* and systemctl start is that count cleared and 'first' not yet moved on
DeathInv == pc # "systemctl_start" /\ Deaths # {} /\ state \in Live => nrestarts > 0

\* stop(): what was lost at the first check reaches the comparison with "0"
StopInv == /\ pc = "restarts" /\ lost # {} => nrestarts > 0
           /\ pc \in {"systemctl_stop", "stop_wait", "result"} /\ lost # {} => restarts > 0
           /\ StopCatchesEarlierDeaths

\* start(): the systemctl job ends with the unit up, which only a death undoes
StoppingInv == state = "stopping" => pc = "stop_wait" /\ job = "running"
UpInv == pc \in PollPCs \/ (pc = "start_wait" /\ job = "done")
           => state = "active" \/ Deaths # {}
ReadInv == pc = "poll_journal" => id >= first

IInv == /\ CmdInv /\ RunInv /\ DeathInv /\ StopInv
        /\ StoppingInv /\ UpInv /\ ReadInv
        /\ StartOkMeansReady /\ StoppedFirstIsReal

-----------------------------------------------------------------------------

(* The types of the variables, with what they rest on. *)
LEMMA TypesInvariant == Spec => []TypeInv
<1>1. Init => TypeInv
  <2> SUFFICES ASSUME Init
               PROVE  TypeInv
    OBVIOUS
  <2>1. ready \in BOOLEAN
    BY Zenon DEF Init
  <2> QED
    BY <2>1, DaemonAssumption DEF Init, TypeInv, TypeOK, UnitStates, Live, Runs
<1>2. TypeInv /\ [Next]_vars => TypeInv'
  <2> SUFFICES ASSUME TypeInv, [Next]_vars
               PROVE  TypeInv'
    OBVIOUS
  <2> USE DaemonAssumption DEF TypeInv, TypeOK, UnitStates, Live, Runs, Deaths,
          unitVars, stepVars, histVars
  <2>1. CASE UnitUp
    BY <2>1 DEF UnitUp, JobEnds
  <2>2. CASE UnitLogsReady
    BY <2>2 DEF UnitLogsReady
  <2>3. CASE UnitDies
    BY <2>3 DEF UnitDies, JobEnds
  <2>4. CASE UnitExits
    BY <2>4 DEF UnitExits
  <2>5. CASE UnitRestarts
    BY <2>5 DEF UnitRestarts
  <2>6. CASE UnitStopped
    BY <2>6 DEF UnitStopped, JobEnds
  <2>7. CASE ResetFailed
    BY <2>7 DEF ResetFailed
  <2>8. CASE SystemctlStart
    BY <2>8 DEF SystemctlStart
  <2>9. CASE StartReturns
    BY <2>9 DEF StartReturns, Return, JobIsDone
  <2>10. CASE PollActiveState
    BY <2>10 DEF PollActiveState, Return, PollsLeft
  <2>11. CASE PollInvocation
    BY <2>11 DEF PollInvocation
  <2>12. CASE PollJournal
    <3>1. ready' = ready
      BY <2>12 DEF PollJournal
    <3>2. CASE InJournal /\ Return("ok") /\ UNCHANGED polls
      BY <2>12, <3>1, <3>2 DEF PollJournal, Return
    <3>3. CASE ~InJournal /\ pc' = "poll" /\ CountPoll /\ UNCHANGED <<ret, seen, job>>
      BY <2>12, <3>1, <3>3 DEF PollJournal, CountPoll
    <3> QED
      BY <2>12, <3>2, <3>3 DEF PollJournal
  <2>13. CASE PollTimeout
    BY <2>13 DEF PollTimeout, Return
  <2>14. CASE CheckRunning
    BY <2>14 DEF CheckRunning, Return
  <2>15. CASE ReadRestarts
    BY <2>15 DEF ReadRestarts
  <2>16. CASE SystemctlStop
    BY <2>16 DEF SystemctlStop
  <2>17. CASE StopReturns
    BY <2>17 DEF StopReturns
  <2>18. CASE ReadResult
    BY <2>18 DEF ReadResult, Unclean
  <2>19. CASE BeginStart
    BY <2>19 DEF BeginStart
  <2>20. CASE BeginStop
    BY <2>20 DEF BeginStop
  <2>21. CASE NextStep
    BY <2>21 DEF NextStep
  <2>22. CASE UNCHANGED vars
    BY <2>22 DEF vars
  <2> QED
    BY <2>1, <2>2, <2>3, <2>4, <2>5, <2>6, <2>7, <2>8, <2>9, <2>10, <2>11, <2>12, <2>13, <2>14, <2>15, <2>16, <2>17, <2>18, <2>19, <2>20, <2>21, <2>22 DEF Next, Unit, Step
<1> QED
  BY <1>1, <1>2, PTL DEF Spec

(* The variables of the step and of the unit it reads keep their types. *)
THEOREM TypeCorrect == Spec => []TypeOK
  BY TypesInvariant, PTL DEF TypeInv

(* The inductive invariant that ties the deaths of the unit to what the two *)
(* steps read of it.                                                        *)
THEOREM Invariant == Spec => []IInv
<1>1. Init => IInv
  BY DEF Init, IInv, CmdInv, RunInv, DeathInv, StopInv, StoppingInv, UpInv, ReadInv,
         StopCatchesEarlierDeaths, StartOkMeansReady, StoppedFirstIsReal,
         Returned, StartPCs, StopPCs, PollPCs, Live, Deaths
<1>2. TypeInv /\ TypeInv' /\ IInv /\ [Next]_vars => IInv'
  <2> SUFFICES ASSUME TypeInv, TypeInv', IInv, [Next]_vars
               PROVE  IInv'
    OBVIOUS
  <2> USE DaemonAssumption DEF TypeInv, TypeOK, IInv, CmdInv, RunInv, DeathInv, StopInv, StoppingInv,
          UpInv, ReadInv, StopCatchesEarlierDeaths, StartOkMeansReady,
          StoppedFirstIsReal, Returned, StartPCs, StopPCs, PollPCs,
          Live, Runs, Deaths, unitVars, stepVars, histVars
  <2>1. CASE UnitUp
    BY <2>1 DEF UnitUp, JobEnds
  <2>2. CASE UnitLogsReady
    BY <2>2 DEF UnitLogsReady
  <2>3. CASE UnitDies
    BY <2>3 DEF UnitDies, JobEnds
  <2>4. CASE UnitExits
    BY <2>4 DEF UnitExits
  <2>5. CASE UnitRestarts
    BY <2>5 DEF UnitRestarts
  <2>6. CASE UnitStopped
    BY <2>6 DEF UnitStopped, JobEnds
  <2>7. CASE ResetFailed
    BY <2>7 DEF ResetFailed
  <2>8. CASE SystemctlStart
    <3>1. /\ pc' = "start_wait" /\ first' = run' /\ run <= run'
          /\ died' = died /\ lost' = lost /\ seen' = seen /\ cmd' = "start"
      BY <2>8 DEF SystemctlStart
    <3>2. Deaths' # {} => state' \notin Live
      <4> SUFFICES ASSUME NEW r \in died, r >= run', state' \in Live
                   PROVE  FALSE
        BY <3>1
      <4>1. r <= run /\ run \in Int /\ run' \in Int /\ r \in Int
        OBVIOUS
      <4>2. run' = run
        BY <4>1, <3>1
      <4>3. state \in Live
        BY <2>8, <4>1, <4>2 DEF SystemctlStart
      <4> QED
        BY <4>1, <4>2, <4>3
    <3>3. RunInv'
      BY <2>8, <3>1 DEF SystemctlStart
    <3>4. StoppingInv' /\ UpInv'
      BY <2>8, <3>1 DEF SystemctlStart
    <3> QED
      BY <3>1, <3>2, <3>3, <3>4
  <2>9. CASE StartReturns
    BY <2>9 DEF StartReturns, Return, JobIsDone
  <2>10. CASE PollActiveState
    BY <2>10 DEF PollActiveState, Return, PollsLeft
  <2>11. CASE PollInvocation
    BY <2>11 DEF PollInvocation
  <2>12. CASE PollJournal
    BY <2>12 DEF PollJournal, Return, InJournal, CountPoll
  <2>13. CASE PollTimeout
    BY <2>13 DEF PollTimeout, Return
  <2>14. CASE CheckRunning
    BY <2>14 DEF CheckRunning, Return
  <2>15. CASE ReadRestarts
    BY <2>15 DEF ReadRestarts
  <2>16. CASE SystemctlStop
    BY <2>16 DEF SystemctlStop
  <2>17. CASE StopReturns
    BY <2>17 DEF StopReturns
  <2>18. CASE ReadResult
    BY <2>18 DEF ReadResult, Unclean
  <2>19. CASE BeginStart
    BY <2>19 DEF BeginStart
  <2>20. CASE BeginStop
    BY <2>20 DEF BeginStop
  <2>21. CASE NextStep
    BY <2>21 DEF NextStep
  <2>22. CASE UNCHANGED vars
    BY <2>22 DEF vars
  <2> QED
    BY <2>1, <2>2, <2>3, <2>4, <2>5, <2>6, <2>7, <2>8, <2>9, <2>10, <2>11, <2>12, <2>13, <2>14, <2>15, <2>16, <2>17, <2>18, <2>19, <2>20, <2>21, <2>22 DEF Next, Unit, Step
<1> QED
  BY <1>1, <1>2, TypesInvariant, PTL DEF Spec

(* A 'stop' that returns 0 lost no run before its first check: stop()'s     *)
(* comparison of NRestarts, read before systemctl stop, tells.              *)
THEOREM StopSafe == Spec => []StopCatchesEarlierDeaths
  BY Invariant, PTL DEF IInv, StopInv

(* A 'start' that returns 0 found the ready text in the journal of a run no *)
(* older than the one it began or found running, be it that run or one that *)
(* has replaced it since: start()'s poll of the current invocation.         *)
THEOREM StartSafe == Spec => []StartOkMeansReady
  BY Invariant, PTL DEF IInv

(* A 'start' that returns EIO waited for a unit that did end on its own.    *)
THEOREM NoFalseAlarm == Spec => []StoppedFirstIsReal
  BY Invariant, PTL DEF IInv
=============================================================================
