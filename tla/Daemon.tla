------------------------------- MODULE Daemon -------------------------------
(***************************************************************************)
(* scripts/daemon.py: the 'start' and 'stop' steps of one systemd unit,    *)
(* interleaved with the unit itself.                                       *)
(*                                                                         *)
(* Every cijoe.run() of the script is a step of its own, because the unit  *)
(* may crash, be restarted by systemd, or log its ready text between any   *)
(* two of them.  The unit and systemd are external: they are modelled by   *)
(* the properties the script reads (ActiveState, NRestarts, Result,        *)
(* InvocationID and the journal), as the script uses them.                 *)
(***************************************************************************)
EXTENDS Integers

CONSTANTS
  Timeout,   \* --timeout: the number of polls of a 'start'
  MaxRuns    \* bound: runs (systemd invocations) of the unit

ASSUME DaemonAssumption == Timeout \in Nat \ {0} /\ MaxRuns \in Nat \ {0}

VARIABLES
  \* the unit, as 'systemctl show' and journalctl give it
  state,     \* ActiveState and the sub-state systemd derives it from
  result,    \* Result
  nrestarts, \* NRestarts
  run,       \* InvocationID: runs are numbered, 0 is none yet
  logged,    \* the runs whose journal holds the ready text
  job,       \* the systemctl job the step waits for
  \* the step
  pc,        \* what the step does next
  cmd,       \* --command
  ready,     \* --ready is a text rather than ""
  polls,     \* iterations of the poll loop
  id,        \* the InvocationID journal() has read
  restarts,  \* the local of stop()
  ret,       \* what the step returns
  \* history
  first,     \* the run the last 'systemctl start' began, or found running
  died,      \* the runs that ended without having been stopped
  lost,      \* the runs since 'first' that had died when 'stop' first looked
  seen       \* the runs since 'first' that had died when the step decided

unitVars == <<state, result, nrestarts, run, logged, died>>
stepVars == <<cmd, ready, polls, id, restarts, ret>>
histVars == <<first, lost, seen>>
vars     == <<unitVars, job, pc, stepVars, histVars>>

Live       == {"starting", "active", "stopping"}
UnitStates == Live \cup {"inactive", "failed", "auto_restart"}
Runs       == 1..MaxRuns

\* The runs since the last 'systemctl start' that ended on their own
Deaths == {r \in died : r >= first}

-----------------------------------------------------------------------------
(* The unit and systemd *)

\* A clean or failed end of the job somebody waits for
JobEnds(outcome) == job' = IF job = "running" THEN outcome ELSE job

\* A notifying unit has started, or a simple unit's process has been forked
UnitUp ==
  /\ state = "starting"
  /\ state' = "active"
  /\ JobEnds("done")
  /\ UNCHANGED <<result, nrestarts, run, logged, died, pc, stepVars, histVars>>

UnitLogsReady ==
  /\ state \in {"starting", "active"}
  /\ run \notin logged
  /\ logged' = logged \cup {run}
  /\ UNCHANGED <<state, result, nrestarts, run, died, job, pc, stepVars, histVars>>

\* The unit's Restart= and start limit decide whether systemd restarts it
UnitDies ==
  /\ state \in {"starting", "active"}
  /\ state' \in {"auto_restart", "failed"}
  /\ result' = "failure"
  /\ died' = died \cup {run}
  /\ JobEnds("failed")
  /\ UNCHANGED <<nrestarts, run, logged, pc, stepVars, histVars>>

UnitExits ==
  /\ state = "active"
  /\ state' = "inactive"
  /\ died' = died \cup {run}
  /\ UNCHANGED <<result, nrestarts, run, logged, job, pc, stepVars, histVars>>

UnitRestarts ==
  /\ state = "auto_restart" /\ run < MaxRuns
  /\ state' = "starting"
  /\ result' = "success"
  /\ nrestarts' = nrestarts + 1
  /\ run' = run + 1
  /\ UNCHANGED <<logged, died, job, pc, stepVars, histVars>>

\* The stop job: SIGTERM, and SIGKILL when the unit takes too long
UnitStopped ==
  /\ state = "stopping"
  /\ \/ state' = "inactive" /\ UNCHANGED result
     \/ state' = "failed" /\ result' = "failure"
  /\ JobEnds("done")
  /\ UNCHANGED <<nrestarts, run, logged, died, pc, stepVars, histVars>>

Unit ==
  \/ UnitUp \/ UnitLogsReady \/ UnitDies \/ UnitExits
  \/ UnitRestarts \/ UnitStopped

-----------------------------------------------------------------------------
(* start() *)

BeginStart ==
  /\ pc = "idle"
  /\ pc' = "reset_failed"
  /\ cmd' = "start"
  /\ ready' \in BOOLEAN
  /\ polls' = 0
  /\ ret' = "none"
  /\ UNCHANGED <<unitVars, job, id, restarts, histVars>>

ResetFailed ==
  /\ pc = "reset_failed"
  /\ pc' = "systemctl_start"
  /\ state' = IF state = "failed" THEN "inactive" ELSE state
  /\ result' = "success"
  /\ nrestarts' = 0
  /\ UNCHANGED <<run, logged, died, job, stepVars, histVars>>

\* Starting a unit that runs already is done at once
SystemctlStart ==
  /\ pc = "systemctl_start"
  /\ pc' = "start_wait"
  /\ \/ /\ state \in {"starting", "active"}
        /\ job' = IF state = "active" THEN "done" ELSE "running"
        /\ UNCHANGED <<state, result, run>>
     \/ /\ state \in {"inactive", "failed", "auto_restart"} /\ run < MaxRuns
        /\ state' = "starting"
        /\ result' = "success"
        /\ run' = run + 1
        /\ job' = "running"
     \/ /\ job' = "failed"    \* systemctl could not start it at all
        /\ UNCHANGED <<state, result, run>>
  /\ first' = run'
  /\ UNCHANGED <<nrestarts, logged, died, stepVars, lost, seen>>

\* collect_log() and the return
Return(value) ==
  /\ pc' = "done"
  /\ ret' = value
  /\ seen' = Deaths
  /\ job' = "none"

\* Mutant of JobIsDone: systemctl start --no-block, which waits for nothing
JobIsQueued == job \in {"running", "done"}

JobIsDone == job = "done"

StartReturns ==
  /\ pc = "start_wait"
  /\ \/ JobIsDone /\ pc' = "poll" /\ job' = "none" /\ UNCHANGED <<ret, seen>>
     \/ job = "failed" /\ Return("error")
  /\ UNCHANGED <<unitVars, cmd, ready, polls, id, restarts, first, lost>>

PollsLeft == polls < Timeout

PollActiveState ==
  /\ pc = "poll" /\ PollsLeft
  /\ \/ state = "active" /\ pc' = "poll_invocation" /\ UNCHANGED <<ret, seen, job>>
     \/ state # "active" /\ Return("EIO")
  /\ UNCHANGED <<unitVars, cmd, ready, polls, id, restarts, first, lost>>

PollInvocation ==
  /\ pc = "poll_invocation"
  /\ pc' = "poll_journal"
  /\ id' = run
  /\ UNCHANGED <<unitVars, job, cmd, ready, polls, restarts, ret, histVars>>

\* Mutant of InJournal: the unit's journal, of whatever run
InUnitJournal == ready => logged # {}

\* The journal of the run PollInvocation named, whatever runs by now
InJournal == ready => id \in logged

\* Mutant of CountPoll: a loop that is not bounded by --timeout
PollForever == UNCHANGED polls

CountPoll == polls' = polls + 1

PollJournal ==
  /\ pc = "poll_journal"
  /\ \/ InJournal /\ Return("ok") /\ UNCHANGED polls
     \/ ~InJournal /\ pc' = "poll" /\ CountPoll /\ UNCHANGED <<ret, seen, job>>
  /\ UNCHANGED <<unitVars, cmd, ready, id, restarts, first, lost>>

PollTimeout ==
  /\ pc = "poll" /\ polls = Timeout
  /\ Return("ETIMEDOUT")
  /\ UNCHANGED <<unitVars, cmd, ready, polls, id, restarts, first, lost>>

-----------------------------------------------------------------------------
(* stop() *)

BeginStop ==
  /\ pc = "idle"
  /\ pc' = "check"
  /\ cmd' = "stop"
  /\ ret' = "none"
  /\ UNCHANGED <<unitVars, job, ready, polls, id, restarts, histVars>>

CheckRunning ==
  /\ pc = "check"
  /\ lost' = Deaths
  /\ \/ state = "active" /\ pc' = "restarts" /\ UNCHANGED <<ret, seen, job>>
     \/ state # "active" /\ Return("EIO")
  /\ UNCHANGED <<unitVars, cmd, ready, polls, id, restarts, first>>

ReadRestarts ==
  /\ pc = "restarts"
  /\ pc' = "systemctl_stop"
  /\ restarts' = nrestarts
  /\ UNCHANGED <<unitVars, job, cmd, ready, polls, id, ret, histVars>>

\* Stopping a unit that waits for its restart leaves it dead with its Result
SystemctlStop ==
  /\ pc = "systemctl_stop"
  /\ pc' = "stop_wait"
  /\ \/ state \in {"starting", "active"} /\ state' = "stopping" /\ job' = "running"
     \/ state = "auto_restart" /\ state' = "failed" /\ job' = "done"
     \/ state \in {"inactive", "failed"} /\ job' = "done" /\ UNCHANGED state
     \/ job' = "failed" /\ UNCHANGED state   \* systemctl could not stop it
  /\ seen' = Deaths
  /\ UNCHANGED <<result, nrestarts, run, logged, died, stepVars, first, lost>>

StopReturns ==
  /\ pc = "stop_wait"
  /\ \/ job = "done" /\ pc' = "result" /\ job' = "none" /\ UNCHANGED ret
     \/ job = "failed" /\ pc' = "done" /\ ret' = "error" /\ job' = "none"
  /\ UNCHANGED <<unitVars, cmd, ready, polls, id, restarts, histVars>>

\* Mutant of Unclean: NRestarts is not looked at
UncleanResult == result # "success"

Unclean == result # "success" \/ restarts # 0

ReadResult ==
  /\ pc = "result"
  /\ pc' = "done"
  /\ ret' = IF Unclean THEN "EIO" ELSE "ok"
  /\ UNCHANGED <<unitVars, job, cmd, ready, polls, id, restarts, histVars>>

-----------------------------------------------------------------------------

\* The workflow goes on with its next step, or a later run of it begins
NextStep ==
  /\ pc = "done"
  /\ pc' = "idle"
  /\ UNCHANGED <<unitVars, job, stepVars, histVars>>

Init ==
  /\ state = "inactive" /\ result = "success" /\ nrestarts = 0
  /\ run = 0 /\ logged = {} /\ died = {}
  /\ job = "none"
  /\ pc = "idle" /\ cmd = "start" /\ ready = FALSE
  /\ polls = 0 /\ id = 0 /\ restarts = 0 /\ ret = "none"
  /\ first = 0 /\ lost = {} /\ seen = {}

Step ==
  \/ ResetFailed \/ SystemctlStart \/ StartReturns
  \/ PollActiveState \/ PollInvocation \/ PollJournal \/ PollTimeout
  \/ CheckRunning \/ ReadRestarts \/ SystemctlStop \/ StopReturns \/ ReadResult

Next == Unit \/ Step \/ BeginStart \/ BeginStop \/ NextStep

Spec == Init /\ [][Next]_vars

\* The script runs on; systemd bounds how long a unit starts (TimeoutStartSec)
\* and stops (TimeoutStopSec).  Nothing makes a unit log its text, and nothing
\* keeps it alive.
FairSpec == Spec /\ WF_vars(Step) /\ WF_vars(UnitUp) /\ WF_vars(UnitStopped)

-----------------------------------------------------------------------------
(* Properties *)

\* The type of every variable of the step and of the unit it reads.
TypeOK ==
  /\ state \in UnitStates
  /\ result \in {"success", "failure"}
  /\ nrestarts \in Nat
  /\ run \in 0..MaxRuns
  /\ logged \subseteq Runs /\ died \subseteq Runs
  /\ job \in {"none", "running", "done", "failed"}
  /\ pc \in {"idle", "reset_failed", "systemctl_start", "start_wait", "poll",
             "poll_invocation", "poll_journal", "check", "restarts",
             "systemctl_stop", "stop_wait", "result", "done"}
  /\ cmd \in {"start", "stop"} /\ ready \in BOOLEAN
  /\ polls \in 0..Timeout /\ id \in 0..MaxRuns /\ restarts \in Nat
  /\ ret \in {"none", "ok", "error", "EIO", "ETIMEDOUT"}
  /\ first \in 0..MaxRuns /\ lost \subseteq Runs /\ seen \subseteq Runs

Returned(c, value) == pc = "done" /\ cmd = c /\ ret = value

\* A 'stop' that returns 0 saw every death since 'start': no run of the unit had
\* died when stop() made its first check, not even one systemd had replaced by a
\* healthy run since.  NRestarts, which only reset-failed clears, is what tells.
StopCatchesEarlierDeaths == Returned("stop", "ok") => lost = {}

\* A 'start' with a ready text returns 0 only for a text logged by a run this
\* start began or found, or by one that has replaced it: never for one that a run
\* before it left in the journal.  That the unit was not restarted between the look
\* at ActiveState and the journal it does not say: the code takes that run's text.
StartOkMeansReady ==
  Returned("start", "ok") /\ ready => \E r \in logged : r >= first

\* No false alarm: when 'start' reports that the unit stopped before getting
\* ready, a run it waited for did end on its own.
StoppedFirstIsReal == Returned("start", "EIO") => seen # {}

\* Every step ends: a unit that hangs, dies or flaps cannot hold up the workflow.
StepEnds == (pc \notin {"idle", "done"}) ~> (pc = "done")

\* What the docstring promises of 'stop': "one that had already stopped, or that
\* systemd had to restart, fails too", whenever before the stop itself.
StopFailsForLostUnit == Returned("stop", "ok") => seen = {}
=============================================================================
