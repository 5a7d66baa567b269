----------------------------- MODULE AisioStack -----------------------------
(***************************************************************************)
(* The workflows that bring the AiSIO daemons up over one NVMe drive, use  *)
(* them and take them down again: tasks/smoke_daemons.yaml, smoke_p2p.yaml,*)
(* setup_dataset.yaml, configure_daemons.yaml, bench_aisio.yaml,           *)
(* bench_llama_load.yaml and bench_io_modes.yaml, with drive_guard.py,     *)
(* llama_prep.py, llama_load.py and the 'start' and 'stop' of daemon.py    *)
(* (module Daemon) as they promise.                                        *)
(*                                                                         *)
(* A workflow is the sequence of its commands.  It ends at the first one   *)
(* that fails and leaves everything as it is; the operator then runs the   *)
(* same or another one.  Meanwhile units die, mounts are busy, commands    *)
(* fail and the machine reboots: the kinds of Faults, MaxFaults in all.    *)
(***************************************************************************)
EXTENDS Integers, Sequences

CONSTANTS
  Workflows,  \* the workflows the operator runs on this drive
  Faults,     \* the kinds of faults that happen
  MaxRuns,    \* bound: workflow runs
  MaxFaults   \* bound: faults

ASSUME StackAssumption ==
  /\ Workflows \subseteq {"smoke", "p2p", "dataset", "configure", "aisio", "llama", "modes"}
  /\ Faults \subseteq {"dies", "fails", "busy", "mounts", "reboot"}
  /\ MaxRuns \in Nat /\ MaxFaults \in Nat

VARIABLES
  \* the drive and the kernel
  driver,   \* what the controller is bound to: the kernel's nvme, or homi's
  fs,       \* whose files are on the drive
  dirty,    \* the mounted file system has changes that are not on the drive
  mnt,      \* what is mounted on each mountpoint
  ublk,     \* /dev/ublkb<id>
  \* the daemons
  up,       \* the units that run
  died,     \* the units that died since they were last started
  conf,     \* the mountpoint (and index) the xal-server configuration names
  shm,      \* each index xal-server has published in /dev/shm
  \* the workflow
  wf, pc, outcome,
  look,     \* what daemon.py's 'stop' has seen of its unit
  \* history and bounds
  fault,    \* a fault has happened in this run
  spread,   \* what was mounted elsewhere when this run began
  foreign,  \* units of the other id were running then
  formatted,\* this run has formatted the drive
  late,     \* the drive was mounted elsewhere since drive_guard last looked
  unseen,   \* units of this run that died after the look at their stop
  runs, faults

driveVars == <<driver, fs, dirty, mnt, ublk>>
unitVars  == <<up, died, conf, shm>>
histVars  == <<fault, spread, foreign, formatted, late, unseen, runs, faults>>
vars      == <<driveVars, unitVars, wf, pc, outcome, look, histVars>>

Ids   == {1, 42}                                \* homi_id and ublk_id
Mnts  == {"smoke", "llama", "datasets", "root"} \* "root": not the workflows'
Units == ({"homi", "qublk"} \X Ids) \cup {<<"xal", 0>>}

Id(w)  == IF w = "llama" THEN 42 ELSE 1
Mnt(w) == IF w \in {"smoke", "p2p"} THEN "smoke"
          ELSE IF w = "llama" THEN "llama" ELSE "datasets"
MntId(m) == IF m = "llama" THEN 42 ELSE 1

\* Where a workflow's looks at the drive accept it mounted
Accepts(w) == IF w \in {"p2p", "modes"} THEN {} ELSE {Mnt(w)}

UnitOf(kind, w) == IF kind = "xal" THEN <<"xal", 0>> ELSE <<kind, Id(w)>>
Own(w)  == {UnitOf(kind, w) : kind \in {"homi", "qublk", "xal"}}
Started(w) == IF w = "p2p" THEN {UnitOf("homi", w)} ELSE Own(w)
Holders == {u \in up : u[1] = "homi"}

-----------------------------------------------------------------------------
(* The workflows *)

\* Mutant of Cleanup: the ublk device of a lost qublk is not deleted
CleanupButUblk == << <<"umount", "try">>, <<"stop_units", "all">> >>

\* umount || true, stop what is left running, delete a ublk device it left
Cleanup == << <<"umount", "try">>, <<"stop_units", "all">>, <<"qublk_del", "own">> >>

\* Mutant of Remount: index the file system as written, without the umount
NoRemount == << >>

\* So that all of the XFS metadata is on the device xal-server decodes
Remount == << <<"umount", "own">>, <<"mount", "ublk">> >>

\* Mutants of Handback: the drive stays with the user-space driver, and the
\* drive is taken from the homi that holds it
NoHandback    == << <<"stop", "homi">> >>
HandbackFirst == << <<"bind", "nvme">>, <<"stop", "homi">> >>

Handback == << <<"stop", "homi">>, <<"bind", "nvme">> >>

Smoke ==
  Cleanup \o
  << <<"rm_shm", "own">>, <<"guard", "own">>, <<"bind", "user">>,
     <<"start", "homi">>, <<"check", "homi">>, <<"start", "qublk">>,
     <<"mkfs", "ublk">>, <<"mount", "ublk">>, <<"fill", "own">> >> \o
  Remount \o
  << <<"conf", "own">>, <<"start", "xal">>, <<"check", "daemons">>,
     <<"check", "ublk">>, <<"check", "direct">>, <<"stop", "xal">>,
     <<"umount", "own">>, <<"check", "no_shm">>, <<"stop", "qublk">> >> \o
  Handback

P2p ==
  << <<"guard", "none">> >> \o
  Cleanup \o
  << <<"bind", "user">>, <<"start", "homi">>, <<"check", "homi">>,
     <<"write", "homi">> >> \o
  Handback \o
  << <<"check", "bdev">>, <<"write", "bdev">> >>

Dataset ==
  << <<"guard", "own">>, <<"check", "bdev">>, <<"umount", "try">>,
     <<"mkfs", "nvme">>, <<"mount", "nvme">>, <<"fill", "own">> >>

Configure ==
  << <<"guard", "own">> >> \o
  Cleanup \o
  << <<"rm_shm", "own">>, <<"bind", "user">>, <<"conf", "own">> >>

\* 'systemctl start' and 'systemctl stop' rather than daemon.py's
Aisio ==
  << <<"start", "homi">>, <<"start", "qublk">>, <<"mount", "ublk">>,
     <<"start", "xal">>, <<"check", "homi">>, <<"check", "direct">>,
     <<"systemctl_stop", "xal">>, <<"umount", "own">>,
     <<"systemctl_stop", "qublk">>, <<"systemctl_stop", "homi">> >>

Llama ==
  Cleanup \o
  << <<"rm_shm", "own">>, <<"guard", "own">>, <<"bind", "nvme">>,
     <<"check", "bdev">>, <<"guard", "usable">>, <<"umount", "try">>,
     <<"mkfs", "nvme">>, <<"mount", "nvme">>, <<"fill", "own">>,
     <<"load", "own">>, <<"umount", "own">>, <<"bind", "user">>,
     <<"conf", "own">>, <<"start", "homi">>, <<"start", "qublk">>,
     <<"mount", "ublk">>, <<"start", "xal">>, <<"load", "opends">>,
     <<"stop", "xal">>, <<"umount", "own">>, <<"stop", "qublk">> >> \o
  Handback

\* Names no mountpoint, stops a homi of an earlier run only once the drive is
\* bound, and leaves the drive with the user-space driver
Modes ==
  << <<"guard", "none">>, <<"bind", "user">>, <<"systemctl_stop", "homi">>,
     <<"start", "homi">>, <<"check", "homi">>, <<"stop_result", "homi">> >>

Program(w) ==
  CASE w = "smoke"     -> Smoke
    [] w = "p2p"       -> P2p
    [] w = "dataset"   -> Dataset
    [] w = "configure" -> Configure
    [] w = "aisio"     -> Aisio
    [] w = "llama"     -> Llama
    [] w = "modes"     -> Modes

Running == outcome = "running"
Op      == Program(wf)[pc]
At(op)  == Running /\ Op[1] = op
Arg     == Op[2]

\* Mutant of StepOn: the last command is not the last
StepPast ==
  /\ pc' = pc + 1
  /\ outcome' = IF pc > Len(Program(wf)) THEN "ok" ELSE "running"
  /\ look' = "none" /\ UNCHANGED wf

\* The command has succeeded: the next one, or the end of the run
StepOn ==
  /\ IF pc = Len(Program(wf)) THEN outcome' = "ok" /\ UNCHANGED pc
                              ELSE pc' = pc + 1 /\ UNCHANGED outcome
  /\ look' = "none" /\ UNCHANGED wf

Advance == StepOn /\ UNCHANGED histVars

EndRun(value) == outcome' = value /\ look' = "none" /\ UNCHANGED <<wf, pc>>

-----------------------------------------------------------------------------
(* What becomes of mounts, devices and indexes *)

UblkMounts(ids) == [m \in Mnts |-> IF MntId(m) \in ids THEN {"ublk"} ELSE {}]
NvmeMounts      == [m \in Mnts |-> {"nvme"}]
NoMounts        == [m \in Mnts |-> {}]

\* The device under these mounts goes, and what was not written to it
LoseMounts(hit) ==
  LET Hit(m) == mnt[m] \cap hit[m] # {}
  IN  /\ mnt' = [m \in Mnts |->
                   IF Hit(m) THEN (mnt[m] \ hit[m]) \cup {"dead"} ELSE mnt[m]]
      /\ IF dirty /\ \E m \in Mnts : Hit(m)
           THEN fs' = "damaged" /\ dirty' = FALSE
           ELSE UNCHANGED <<fs, dirty>>

\* xal-server indexes what is on the drive when it starts, and only then
Indexed   == [shm EXCEPT ![conf] = IF dirty THEN "stale" ELSE "complete"]
Outdated  == [m \in Mnts |-> IF shm[m] = "none" THEN "none" ELSE "stale"]
Servable  == conf \in Mnts /\ "ublk" \in mnt[conf] /\ ublk[MntId(conf)] = "live"

MountedAt(kind) == {m \in Mnts : kind \in mnt[m]}

-----------------------------------------------------------------------------
(* The commands *)

\* Not mounted is no error in a prepare step; busy, a fault, is none either
Umount ==
  /\ At("umount")
  /\ LET m == Mnt(wf)
         live == mnt[m] \cap {"nvme", "ublk"}
     IN  /\ Arg = "try" \/ mnt[m] # {}
         /\ mnt' = [mnt EXCEPT ![m] = IF live # {} THEN @ \ live ELSE {}]
         /\ dirty' = (dirty /\ live = {})
  /\ Advance
  /\ UNCHANGED <<driver, fs, ublk, unitVars>>

\* qublk deletes its device when it is stopped; one it has lost, or that is
\* still mounted, it may leave behind
QublkStops(id) ==
  LET running == UnitOf("qublk", wf) \in up
      hit     == IF running THEN UblkMounts({id}) ELSE NoMounts
      clean   == ublk[id] = "live" /\ \A m \in Mnts : mnt[m] \cap hit[m] = {}
  IN  /\ IF running
           THEN \E left \in {"none", "dead"} :
                  (clean => left = "none") /\ ublk' = [ublk EXCEPT ![id] = left]
           ELSE UNCHANGED ublk
      /\ LoseMounts(hit)

\* A ublk device outlives the homi it reads from, and is of no use
HomiStops(id) ==
  LET serving == UnitOf("homi", wf) \in up /\ ublk[id] = "live"
  IN  /\ ublk' = IF serving THEN [ublk EXCEPT ![id] = "dead"] ELSE ublk
      /\ LoseMounts(IF serving THEN UblkMounts({id}) ELSE NoMounts)

\* A clean stop removes the index; what a crash left stays
XalStops == shm' = IF <<"xal", 0>> \in up /\ conf \in Mnts
                   THEN [shm EXCEPT ![conf] = "none"] ELSE shm

\* What goes with a unit that is stopped on its own
UnitStops(kind) ==
  CASE kind = "xal"   -> XalStops /\ UNCHANGED <<ublk, mnt, fs, dirty>>
    [] kind = "qublk" -> QublkStops(Id(wf)) /\ UNCHANGED shm
    [] kind = "homi"  -> HomiStops(Id(wf)) /\ UNCHANGED shm

Stopped(w) == Own(w)

StopUnits ==
  /\ At("stop_units")
  /\ up' = up \ Stopped(wf)
  /\ XalStops
  /\ QublkStops(Id(wf))
  /\ Advance
  /\ UNCHANGED <<driver, died, conf>>

QublkDel ==
  /\ At("qublk_del")
  /\ ublk' = [ublk EXCEPT ![Id(wf)] = "none"]
  /\ LoseMounts(UblkMounts({Id(wf)}))
  /\ Advance
  /\ UNCHANGED <<driver, unitVars>>

RmShm ==
  /\ At("rm_shm")
  /\ shm' = [shm EXCEPT ![Mnt(wf)] = "none"]
  /\ Advance
  /\ UNCHANGED <<driveVars, up, died, conf>>

\* Mutant of GuardPasses: the guard looks at its mountpoint and not for others
GuardUnmounted == MountedAt("nvme") # {} => Mnt(wf) \notin MountedAt("nvme")

\* drive_guard.py, and usable() of llama_prep.py: off the kernel's driver the
\* drive has no namespace, and passes
GuardPasses ==
  MountedAt("nvme") \subseteq (IF Arg = "none" THEN {} ELSE {Mnt(wf)})

Guard ==
  /\ At("guard")
  /\ \/ GuardPasses /\ StepOn
     \/ ~GuardPasses /\ EndRun("refused")
  /\ late' = FALSE
  /\ UNCHANGED <<driveVars, unitVars, fault, spread, foreign, formatted, unseen, runs, faults>>

\* Taking the drive from a homi that holds it fails, or takes it
Bind ==
  /\ At("bind")
  /\ LET rebound == driver # Arg
         homis   == IF rebound THEN Holders ELSE {}
         ids     == {u[2] : u \in homis}
     IN  /\ driver' = Arg
         /\ up' = up \ homis /\ died' = died \cup homis
         /\ ublk' = [id \in Ids |-> IF id \in ids /\ ublk[id] = "live"
                                    THEN "dead" ELSE ublk[id]]
         /\ LoseMounts(IF ~rebound THEN NoMounts
                       ELSE IF driver = "nvme" THEN NvmeMounts ELSE UblkMounts(ids))
  /\ Advance
  /\ UNCHANGED <<conf, shm>>

\* daemon.py's 'start', or 'systemctl start' on a unit that is known stopped
CanStart(kind) ==
  CASE kind = "homi"  -> driver = "user" /\ Holders \subseteq {UnitOf("homi", wf)}
    [] kind = "qublk" -> UnitOf("homi", wf) \in up /\ ublk[Id(wf)] = "none"
    [] kind = "xal"   -> Servable

Start ==
  /\ At("start") /\ CanStart(Arg)
  /\ up' = up \cup {UnitOf(Arg, wf)}
  /\ died' = died \ {UnitOf(Arg, wf)}
  /\ ublk' = IF Arg = "qublk" THEN [ublk EXCEPT ![Id(wf)] = "live"] ELSE ublk
  /\ shm' = IF Arg = "xal" THEN Indexed ELSE shm
  /\ Advance
  /\ UNCHANGED <<driver, fs, dirty, mnt, conf>>

\* Mutant of CleanStop: a unit that systemd has restarted is not noticed
RunningStop(u) == u \in up

\* What daemon.py's 'stop' asks of a unit: it runs, and has not been restarted
CleanStop(u) == u \in up /\ u \notin died

\* It asks before it stops the unit, and fails at once for one that does not run
Look ==
  /\ At("stop") /\ look = "none"
  /\ LET u == UnitOf(Arg, wf)
     IN  \/ /\ u \in up
            /\ look' = IF CleanStop(u) THEN "clean" ELSE "restarted"
            /\ UNCHANGED <<wf, pc, outcome>>
         \/ u \notin up /\ EndRun("failed")
  /\ UNCHANGED <<driveVars, unitVars, histVars>>

\* The Result of a unit that has ended since tells no more than how it ended: an
\* xal-server that ended well has removed its index
EndedWell(kind) == kind = "xal" /\ conf \in Mnts => shm[conf] = "none"

\* A unit that was restarted before the look is stopped, and the run fails; a restart
\* since then does not show
Stop ==
  /\ At("stop") /\ look # "none"
  /\ LET u == UnitOf(Arg, wf)
     IN  /\ up' = up \ {u}
         /\ UnitStops(Arg)
         /\ \/ look = "clean" /\ (u \in up \/ EndedWell(Arg)) /\ Advance
            \/ /\ look = "restarted" \/ u \notin up
               /\ EndRun("failed") /\ UNCHANGED histVars
  /\ UNCHANGED <<driver, died, conf>>

SystemctlStop ==
  /\ At("systemctl_stop")
  /\ up' = up \ {UnitOf(Arg, wf)}
  /\ UnitStops(Arg)
  /\ Advance
  /\ UNCHANGED <<driver, died, conf>>

\* What is left of a crash is the unit's Result, until it is started again
StopResult ==
  /\ At("stop_result")
  /\ LET u == UnitOf(Arg, wf)
     IN  /\ up' = up \ {u}
         /\ UnitStops(Arg)
         /\ \/ Advance
            \/ u \notin up /\ EndRun("failed") /\ UNCHANGED histVars
  /\ UNCHANGED <<driver, died, conf>>

Device(kind) == IF kind = "nvme" THEN driver = "nvme" ELSE ublk[Id(wf)] = "live"

\* The mounts of a device: of the namespace, or of one id's ublk device
MountsOf(kind) == IF kind = "nvme" THEN MountedAt("nvme")
                  ELSE {m \in MountedAt("ublk") : MntId(m) = Id(wf)}

\* mkfs.xfs refuses a mounted device
CanFormat(kind) == Device(kind) /\ MountsOf(kind) = {}

Mkfs ==
  /\ At("mkfs") /\ CanFormat(Arg)
  /\ fs' = "empty" /\ dirty' = FALSE
  /\ shm' = Outdated
  /\ StepOn
  /\ formatted' = TRUE
  /\ UNCHANGED <<driver, mnt, ublk, up, died, conf>>
  /\ UNCHANGED <<fault, spread, foreign, late, unseen, runs, faults>>

CanMount(kind) == Device(kind) /\ fs # "junk" /\ kind \notin mnt[Mnt(wf)]

Mount ==
  /\ At("mount") /\ CanMount(Arg)
  /\ mnt' = [mnt EXCEPT ![Mnt(wf)] = @ \cup {Arg}]
  /\ Advance
  /\ UNCHANGED <<driver, fs, dirty, ublk, unitVars>>

CanFill == mnt[Mnt(wf)] \cap {"nvme", "ublk"} # {}

Fill ==
  /\ At("fill") /\ CanFill
  /\ fs' = Mnt(wf) /\ dirty' = TRUE
  /\ shm' = Outdated
  /\ Advance
  /\ UNCHANGED <<driver, mnt, ublk, up, died, conf>>

\* Random writes, through homi or to the namespace
CanWrite(to) == IF to = "homi" THEN UnitOf("homi", wf) \in up ELSE driver = "nvme"

Write ==
  /\ At("write") /\ CanWrite(Arg)
  /\ fs' = "junk"
  /\ shm' = Outdated
  /\ Advance
  /\ UNCHANGED <<driver, dirty, mnt, ublk, up, died, conf>>

Configured ==
  /\ At("conf")
  /\ conf' = Mnt(wf)
  /\ Advance
  /\ UNCHANGED <<driveVars, up, died, shm>>

\* What the clients and the 'test's of a workflow need to pass
Holds(what) ==
  LET m == Mnt(wf)
      homi == UnitOf("homi", wf) \in up
  IN  CASE what = "bdev"    -> driver = "nvme"
        [] what = "homi"    -> homi
        [] what = "ublk"    -> ublk[Id(wf)] = "live" /\ "ublk" \in mnt[m] /\ fs = m
        [] what = "direct"  -> homi /\ shm[m] # "none" /\ fs = m
        [] what = "daemons" -> ublk[Id(wf)] # "none" /\ shm[m] # "none"
        [] what = "no_shm"  -> shm[m] = "none"

Check ==
  /\ At("check") /\ Holds(Arg)
  /\ Advance
  /\ UNCHANGED <<driveVars, unitVars>>

\* llama_load.py: llama.cpp opens the model on its mount and reads it there or, with
\* mode opends, through OpenDS.  It would fall back to its own reader and only warn,
\* so that a warning in any repetition, or no summary in one more, is an error
Loads(mode) ==
  /\ fs = Mnt(wf)
  /\ IF mode = "opends"
       THEN /\ "ublk" \in mnt[Mnt(wf)] /\ ublk[Id(wf)] = "live"
            /\ UnitOf("homi", wf) \in up /\ shm[Mnt(wf)] # "none"
       ELSE "nvme" \in mnt[Mnt(wf)]

Load ==
  /\ At("load") /\ Loads(Arg)
  /\ Advance
  /\ UNCHANGED <<driveVars, unitVars>>

\* The commands that fail for the state they find
Broken ==
  \/ At("umount") /\ Arg = "own" /\ mnt[Mnt(wf)] = {}
  \/ At("bind")   /\ driver # Arg /\ Holders # {}
  \/ At("start")  /\ ~CanStart(Arg)
  \/ At("mkfs")   /\ ~CanFormat(Arg)
  \/ At("mount")  /\ ~CanMount(Arg)
  \/ At("fill")   /\ ~CanFill
  \/ At("write")  /\ ~CanWrite(Arg)
  \/ At("check")  /\ ~Holds(Arg)
  \/ At("load")   /\ ~Loads(Arg)

CommandFails ==
  /\ Broken
  /\ EndRun("failed")
  /\ UNCHANGED <<driveVars, unitVars, histVars>>

Command ==
  \/ Umount \/ StopUnits \/ QublkDel \/ RmShm \/ Guard \/ Bind \/ Start \/ Look \/ Stop
  \/ SystemctlStop \/ StopResult \/ Mkfs \/ Mount \/ Fill \/ Write \/ Configured \/ Check
  \/ Load \/ CommandFails

-----------------------------------------------------------------------------
(* Faults *)

Strikes(kind) ==
  /\ kind \in Faults /\ faults < MaxFaults
  /\ faults' = faults + 1
  /\ fault' = TRUE
  /\ late' = (late \/ kind = "mounts")
  /\ UNCHANGED <<spread, foreign, formatted, runs>>

\* systemd may restart the unit, or it crashes, or ends well: an index is left by an
\* xal-server that crashed.  A ublk device is lost with its qublk or homi
UnitDies ==
  /\ Strikes("dies")
  /\ \E u \in up :
       /\ died' = died \cup {u}
       /\ up' \in {up, up \ {u}}
       /\ IF u[1] = "xal"
            THEN UNCHANGED <<ublk, mnt, fs, dirty>>
            ELSE /\ ublk' = [ublk EXCEPT ![u[2]] = IF @ = "live" THEN "dead" ELSE @]
                 /\ LoseMounts(UblkMounts({u[2]}))
       /\ \/ u \in up' /\ shm' = IF u[1] = "xal" /\ Servable THEN Indexed ELSE shm
          \/ u \notin up' /\ (UNCHANGED shm \/ (u[1] = "xal" /\ XalStops))
       /\ unseen' = IF look # "none" /\ u = UnitOf(Arg, wf) THEN unseen \cup {u} ELSE unseen
  /\ UNCHANGED <<driver, conf, wf, pc, outcome, look>>

\* A command fails for a reason of its own: a tool, a package, the network
OtherFailure ==
  /\ Running
  /\ Strikes("fails")
  /\ EndRun("failed")
  /\ UNCHANGED <<driveVars, unitVars, unseen>>

\* Some process holds the mountpoint; a prepare step goes on regardless
UmountBusy ==
  /\ At("umount") /\ mnt[Mnt(wf)] # {}
  /\ Strikes("busy")
  /\ IF Arg = "try"
       THEN StepOn
       ELSE EndRun("failed")
  /\ UNCHANGED <<driveVars, unitVars, unseen>>

\* Somebody mounts what is on the drive, not of these workflows, elsewhere
MountedElsewhere ==
  /\ driver = "nvme" /\ fs = "other"
  /\ Strikes("mounts")
  /\ mnt' = [mnt EXCEPT !["root"] = {"nvme"}]
  /\ UNCHANGED <<driver, fs, dirty, ublk, unitVars, wf, pc, outcome, look, unseen>>

Reboot ==
  /\ Strikes("reboot")
  /\ driver' = "nvme"
  /\ mnt' = [m \in Mnts |-> IF m = "root" THEN mnt[m] ELSE {}]
  /\ fs' = IF dirty THEN "damaged" ELSE fs
  /\ dirty' = FALSE
  /\ ublk' = [id \in Ids |-> "none"]
  /\ up' = {} /\ died' = {}
  /\ shm' = [m \in Mnts |-> "none"]
  /\ outcome' = IF Running THEN "failed" ELSE outcome
  /\ look' = "none"
  /\ UNCHANGED <<conf, wf, pc, unseen>>

Fault == UnitDies \/ OtherFailure \/ UmountBusy \/ MountedElsewhere \/ Reboot

-----------------------------------------------------------------------------
(* The operator *)

\* README.md: bench_aisio needs the datasets and configure_daemons before it,
\* and after a run of it that failed; setup_dataset needs the drive bound back
Prepared(w) ==
  /\ w = "aisio"   => /\ wf \in {"configure", "aisio"} /\ outcome = "ok"
                      /\ fs = "datasets" /\ driver = "user"
  /\ w = "dataset" => up = {}

Begin(w) ==
  /\ ~Running /\ runs < MaxRuns
  /\ Prepared(w)
  /\ wf' = w /\ pc' = 1 /\ outcome' = "running"
  /\ driver' = IF w = "dataset" THEN "nvme" ELSE driver
  /\ fault' = FALSE /\ formatted' = FALSE /\ late' = FALSE /\ unseen' = {}
  /\ spread' = UNION {mnt[m] : m \in Mnts \ Accepts(w)}
  /\ foreign' = (up \ Own(w) # {})
  /\ runs' = runs + 1
  /\ UNCHANGED <<fs, dirty, mnt, ublk, unitVars, look, faults>>

Init ==
  /\ driver \in {"nvme", "user"}
  /\ fs = "other" /\ dirty = FALSE
  /\ \/ mnt = NoMounts
     \/ driver = "nvme" /\ mnt = [NoMounts EXCEPT !["root"] = {"nvme"}]
  /\ ublk = [id \in Ids |-> "none"]
  /\ up = {} /\ died = {}
  /\ conf = "none"
  /\ shm = [m \in Mnts |-> "none"]
  /\ wf = "none" /\ pc = 1 /\ outcome = "none" /\ look = "none"
  /\ fault = FALSE /\ spread = {} /\ foreign = FALSE /\ formatted = FALSE
  /\ late = FALSE /\ unseen = {}
  /\ runs = 0 /\ faults = 0

Next == Command \/ Fault \/ \E w \in Workflows : Begin(w)

Spec == Init /\ [][Next]_vars

-----------------------------------------------------------------------------
(* Properties *)

\* The type of every variable; a running workflow is at one of its commands.
TypeOK ==
  /\ driver \in {"nvme", "user"}
  /\ fs \in Mnts \cup {"other", "empty", "junk", "damaged"}
  /\ dirty \in BOOLEAN
  /\ mnt \in [Mnts -> SUBSET {"nvme", "ublk", "dead"}]
  /\ ublk \in [Ids -> {"none", "live", "dead"}]
  /\ up \subseteq Units /\ died \subseteq Units
  /\ conf \in Mnts \cup {"none"}
  /\ shm \in [Mnts -> {"none", "complete", "stale"}]
  /\ wf \in Workflows \cup {"none"}
  /\ outcome \in {"none", "running", "ok", "failed", "refused"}
  /\ Running => pc \in DOMAIN Program(wf)
  /\ look \in {"none", "clean", "restarted"}
  /\ fault \in BOOLEAN /\ spread \subseteq {"nvme", "ublk", "dead"} /\ foreign \in BOOLEAN
  /\ formatted \in BOOLEAN /\ late \in BOOLEAN /\ unseen \subseteq Units
  /\ runs \in 0..MaxRuns /\ faults \in 0..MaxFaults

\* drive_guard: "so the system's own disk is never taken".  A drive that somebody
\* else has mounted is never unbound under that mount, formatted or written,
\* whatever runs, fails and is run again, unless it was mounted after the guard of
\* the run that takes it had looked.
SystemDiskSafe ==
  [][mnt["root"] = {"nvme"} /\ ~late => mnt'["root"] = {"nvme"} /\ fs' = fs]_vars

\* A client that finds files by xal-server's index never reads one made before
\* the files were all on the drive, or left by an earlier xal-server: there is
\* no watch mode, so a stale index would stay so.
IndexComplete ==
  (At("check") \/ At("load")) /\ Arg \in {"direct", "opends"} =>
    shm[Mnt(wf)] \in {"none", "complete"}

\* smoke_daemons: "failing when a unit does not come up, dies, or does not stop
\* cleanly".  A run that ends well had every unit it started live until daemon.py's
\* 'stop' of it looked: a unit that ends well, or is restarted, between that look and
\* 'systemctl stop' is not seen (module Daemon, StopFailsForLostUnit).
DeathsReported ==
  outcome = "ok" /\ wf \in {"smoke", "p2p", "llama"} => Started(wf) \cap died \subseteq unseen

\* A run that ends well hands the drive back to the kernel, with none of its
\* units running, nothing of the drive mounted and no index left; smoke_p2p, which
\* starts no xal-server, leaves the index of an earlier run where it is.
CleanOnSuccess ==
  outcome = "ok" /\ wf \in {"smoke", "p2p", "llama"} =>
    /\ driver = "nvme" /\ up \cap Own(wf) = {}
    /\ mnt[Mnt(wf)] \subseteq {"dead"}
    /\ wf # "p2p" => shm[Mnt(wf)] = "none"

\* Whatever an earlier run left behind, failed at any of its commands, a run
\* does not fail for it: it fails only for a fault of its own.  Three exceptions: it
\* stops no units of another id than its own, and fails for those; bench_aisio, which
\* prepares nothing, fails for the device a lost qublk left behind in a run of it that
\* did not notice; and drive_guard, or llama_prep, refuses a drive that was mounted
\* elsewhere when the run began, by an earlier run of another workflow as well: it
\* accepts the mountpoint of its own workflow only, and none in smoke_p2p and
\* bench_io_modes.
RerunSucceeds ==
  /\ outcome = "failed" => fault \/ foreign \/ (wf = "aisio" /\ ublk[Id(wf)] = "dead")
  /\ outcome = "refused" => fault \/ "nvme" \in spread

\* A reboot aside, the controller is never taken from a homi of this workflow's
\* id, nor unbound under a mount, unless the umount of this run found that mount
\* busy and went on, or drive_guard had looked before it.
DriveTakenOnlyWhenFree ==
  [][At("bind") /\ driver' # driver /\ outcome' # "failed"
       => Holders \cap Own(wf) = {} /\ (MountedAt("nvme") = {} \/ fault)]_vars

\* bench_llama_load: "It stops before writing anything when that drive [...] is
\* mounted elsewhere".
LlamaSparesMountedDrive ==
  wf = "llama" /\ spread \cap {"nvme", "ublk"} # {} => ~formatted
=============================================================================
