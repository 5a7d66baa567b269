-------------------------- MODULE AisioStackProofs --------------------------
(***************************************************************************)
(* The proofs about AisioStack, for any set of the seven workflows, any    *)
(* faults and any number of runs.  IInv is inductive: the drive and its    *)
(* units fit together (DriveInv), and a run that has looked at the drive   *)
(* knows what it found (GuardInv).  On top of it EndInv follows what a run *)
(* has closed: that stays closed, until the run has ended well.  LookInv   *)
(* is what a stop knows between its look at the unit and its end.  KnowInv *)
(* follows what a run knows at each of its commands, by the commands it    *)
(* has got through: whatever happens beside it (Known), without a fault    *)
(* (Free), and with nobody else's units beside it either (Served).         *)
(***************************************************************************)
EXTENDS AisioPrograms

\* The commands of its program the run has got through, and whether it has done
\* one of A
Passed == IF outcome = "ok" THEN pc ELSE pc - 1
Did(A) == \E j \in 1..Passed : Program(wf)[j] \in A

\* What runs is one of the workflows.
RunInv == Running => wf \in Workflows

\* A homi has the drive to itself, a live ublk device has its homi and its qublk, and
\* a drive that somebody else has mounted is the kernel's and still has their files.
DriveInv ==
  /\ \A u \in up : u[1] = "homi" => driver = "user"
  /\ \A id \in Ids : ublk[id] = "live" => <<"homi", id>> \in up /\ <<"qublk", id>> \in up
  /\ driver = "user" => \A m \in Mnts : "nvme" \notin mnt[m]
  /\ mnt["root"] = {"nvme"} => fs = "other"
  /\ fs = "other" => ~dirty

\* A run that has looked at the drive goes on only where nobody else has it mounted,
\* and one that has made a file system or written over it has left nobody's files.
GuardInv ==
  /\ Running /\ Did(Guards) /\ ~late => mnt["root"] # {"nvme"}
  /\ Running /\ Did(Renews) => fs # "other"

\* The step takes nothing from somebody who has the drive mounted.
Spares ==
  mnt["root"] = {"nvme"} /\ ~late => mnt'["root"] = {"nvme"} /\ fs' = fs

\* The inductive invariant
IInv == TypeOK /\ RunInv /\ DriveInv /\ GuardInv

-----------------------------------------------------------------------------
(* The command at hand *)

\* What the second part of a command is, by its first, and what it does to the drive.
LEMMA ArgTypes ==
  ASSUME NEW c \in Commands
  PROVE  /\ c[1] = "bind" => c[2] \in {"nvme", "user"}
         /\ c[1] \in {"mkfs", "mount"} => c[2] \in {"nvme", "ublk"}
         /\ c[1] \in {"start", "stop", "systemctl_stop", "stop_result"}
              => c[2] \in {"homi", "qublk", "xal"}
         /\ c[1] = "write" => c[2] \in {"homi", "bdev"}
         /\ c[1] = "write" /\ c[2] = "bdev" => c \in Overwrites
         /\ c[1] = "fill" => c \in Overwrites
         /\ c[1] \in {"bind", "mkfs", "fill", "write"} <=> c \in Takes
         /\ c[1] \in {"mkfs", "write"} <=> c \in Renews
         /\ c[1] = "guard" <=> c \in Guards
<1>1. \A A, B : c \in A \X B => c[1] \in A /\ c[2] \in B /\ c = <<c[1], c[2]>>
  OBVIOUS
<1> QED
  BY <1>1 DEF Commands, Overwrites, Takes, Renews, Guards, Verb, Cmd

\* A run is at a command of its program; one that takes the drive or overwrites it
\* has the look at the drive, or the making of a file system, behind it.
LEMMA AtCommand ==
  ASSUME TypeOK, RunInv, Running
  PROVE  /\ Op \in Commands /\ pc \in 1..Len(Program(wf)) /\ wf \in Workflows
         /\ Len(Program(wf)) \in Nat
         /\ Op \in Takes => Did(Guards)
         /\ Op \in Overwrites => Did(Renews)
<1>1. wf \in Workflows /\ pc \in DOMAIN Program(wf)
  BY DEF TypeOK, RunInv
<1>2. /\ Program(wf) \in Seq(Commands)
      /\ Ready(Program(wf), Guards, {}, Takes) /\ Ready(Program(wf), Renews, {}, Overwrites)
  BY <1>1, ProgramOrder DEF Careful
<1>3. pc \in 1..Len(Program(wf)) /\ Len(Program(wf)) \in Nat
  BY <1>1, <1>2
<1>4. Op \in Commands
  BY <1>2, <1>3 DEF Op
<1> QED
  BY <1>1, <1>2, <1>3, <1>4 DEF Ready, Did, Passed, Running, Op

\* StepOn: the run goes on or ends well, and has done one command more.
LEMMA NextCommand ==
  ASSUME TypeOK, RunInv, Running, StepOn, NEW A
  PROVE  /\ wf' = wf /\ outcome' \in {"ok", "running"}
         /\ RunInv' /\ (Running => pc \in DOMAIN Program(wf))'
         /\ outcome' = "ok" => pc' = Len(Program(wf))
         /\ Passed' = pc /\ Passed = pc - 1 /\ look' = "none"
         /\ Did(A)' => Did(A) \/ Op \in A
         /\ Did(A) => Did(A)'
<1>1. /\ pc \in 1..Len(Program(wf)) /\ Len(Program(wf)) \in Nat /\ wf \in Workflows
      /\ Program(wf) \in Seq(Commands)
  BY AtCommand, ProgramOrder
<1>2. wf' = wf /\ Program(wf') = Program(wf) /\ look' = "none"
  BY DEF StepOn
<1>3. /\ outcome' \in {"ok", "running"} /\ Passed' = pc /\ Passed = pc - 1
      /\ outcome' = "ok" => pc' = Len(Program(wf))
      /\ (Running => pc \in DOMAIN Program(wf))'
  <2>1. CASE pc = Len(Program(wf)) /\ outcome' = "ok" /\ pc' = pc
    BY <1>1, <1>2, <2>1 DEF Running, Passed
  <2>2. CASE pc # Len(Program(wf)) /\ pc' = pc + 1 /\ outcome' = outcome
    <3>1. pc' \in 1..Len(Program(wf)) /\ pc' - 1 = pc
      BY <1>1, <2>2
    <3> QED
      BY <1>1, <1>2, <2>2, <3>1 DEF Running, Passed
  <2> QED
    BY <2>1, <2>2 DEF StepOn
<1>4. RunInv'
  BY <1>1, <1>2 DEF RunInv
<1>5. ASSUME Did(A)'
      PROVE  Did(A) \/ Op \in A
  <2>1. PICK j \in 1..pc : Program(wf)[j] \in A
    BY <1>2, <1>3, <1>5 DEF Did
  <2> QED
    BY <1>1, <1>3, <2>1 DEF Did, Op
<1>6. ASSUME Did(A)
      PROVE  Did(A)'
  <2>1. PICK j \in 1..(pc - 1) : Program(wf)[j] \in A
    BY <1>3, <1>6 DEF Did
  <2> QED
    BY <1>1, <1>2, <1>3, <2>1 DEF Did
<1> QED
  BY <1>2, <1>3, <1>4, <1>5, <1>6

\* What a workflow calls its units and its mountpoint.
LEMMA Names ==
  ASSUME NEW w, NEW kind \in {"homi", "qublk", "xal"}
  PROVE  /\ Id(w) \in Ids /\ Mnt(w) \in Mnts /\ Mnt(w) # "root" /\ UnitOf(kind, w) \in Units
         /\ UnitOf("homi", w) = <<"homi", Id(w)>>
         /\ kind # "homi" => UnitOf(kind, w)[1] # "homi"
         /\ UnitOf(kind, w)[1] = kind
         /\ \A m \in Mnts : MntId(m) \in Ids
  BY DEF Id, Ids, Mnt, Mnts, UnitOf, Units, MntId

\* LoseMounts: the device is gone under its mounts, and nothing else is.
LEMMA Lost ==
  ASSUME TypeOK, NEW hit, \A m \in Mnts : hit[m] \subseteq {"nvme", "ublk"}, LoseMounts(hit)
  PROVE  /\ mnt' \in [Mnts -> SUBSET {"nvme", "ublk", "dead"}]
         /\ fs' \in {fs, "damaged"} /\ dirty' \in BOOLEAN
         /\ (~dirty => fs' = fs /\ ~dirty') /\ (dirty' => fs' = fs)
         /\ \A m \in Mnts : /\ mnt'[m] \cap hit[m] = {}
                            /\ mnt[m] \cap hit[m] = {} => mnt'[m] = mnt[m]
                            /\ mnt[m] \cap hit[m] # {} => "dead" \in mnt'[m]
                            /\ \A d \in {"nvme", "ublk"} : d \in mnt'[m] => d \in mnt[m]
  BY DEF TypeOK, LoseMounts

\* What the three kinds of lost mounts hit.
LEMMA Hits ==
  ASSUME NEW ids
  PROVE  /\ \A m \in Mnts : UblkMounts(ids)[m] \subseteq {"nvme", "ublk"}
         /\ \A m \in Mnts : NvmeMounts[m] \subseteq {"nvme", "ublk"}
         /\ \A m \in Mnts : NoMounts[m] \subseteq {"nvme", "ublk"}
         /\ \A m \in Mnts : "nvme" \notin UblkMounts(ids)[m] /\ "nvme" \notin NoMounts[m]
         /\ \A m \in Mnts : "nvme" \in NvmeMounts[m]
  BY DEF UblkMounts, NvmeMounts, NoMounts

\* A device goes under its mounts: nothing of the drive is mounted that was not,
\* and what was not mounted from it stays.
Mild ==
  /\ mnt' \in [Mnts -> SUBSET {"nvme", "ublk", "dead"}]
  /\ fs' \in {fs, "damaged"} /\ dirty' \in BOOLEAN
  /\ fs' = "other" => fs = "other" /\ ~dirty'
  /\ mnt'["root"] = {"nvme"} => mnt["root"] = {"nvme"} /\ fs' = "other"
  /\ mnt["root"] = {"nvme"} => mnt'["root"] = {"nvme"} /\ fs' = fs
  /\ \A m \in Mnts, d \in {"nvme", "ublk"} : d \in mnt'[m] => d \in mnt[m]

\* How units, mounts, indexes, the driver and the configuration move in a step of
\* this kind.
Moves(kind) ==
  /\ \A u \in Units : /\ u \in up' => u \in up \/ (kind = "start" /\ u = UnitOf(Arg, wf))
                      /\ u \in died' => u \in up \cup died
  /\ \A m \in Mnts \ {"root"}, d \in {"nvme", "ublk"} :
       d \in mnt'[m] => d \in mnt[m] \/ kind = "mount"
  /\ \A m \in Mnts : shm[m] = "none" =>
       shm'[m] = "none" \/ (kind = "start" /\ Arg = "xal") \/ <<"xal", 0>> \in up
  /\ driver' \in {driver, "nvme"} \/ (kind = "bind" /\ driver' = Arg)
  /\ conf' = conf \/ kind = "conf"

\* What the commands that close something have done when they succeed
Closed ==
  /\ Op[1] = "stop"       => /\ UnitOf(Op[2], wf) \notin up'
                             /\ UnitOf(Op[2], wf) \in died' => UnitOf(Op[2], wf) \in unseen'
  /\ Op[1] = "stop_units" => up' \cap Own(wf) = {}
  /\ Op[1] = "conf"       => conf' = Mnt(wf)
  /\ Op[1] = "bind"       => driver' = Op[2]
  /\ Op[1] = "qublk_del"  => "ublk" \notin mnt'[Mnt(wf)]
  /\ Op[1] = "stop" /\ Op[2] = "homi"  => "nvme" \notin mnt'[Mnt(wf)]
  /\ Op[1] = "stop" /\ Op[2] = "qublk" => "ublk" \notin mnt'[Mnt(wf)]
  /\ Op[1] = "stop" /\ Op[2] = "xal" /\ conf = Mnt(wf) => shm'[Mnt(wf)] = "none"

\* Losing a device that is not the namespace is mild.
LEMMA LostMild ==
  ASSUME TypeOK, DriveInv, NEW hit, LoseMounts(hit),
         \A m \in Mnts : hit[m] \subseteq {"nvme", "ublk"} /\ "nvme" \notin hit[m]
  PROVE  Mild
<1>1. "root" \in Mnts
  BY DEF Mnts
<1> QED
  BY <1>1, Lost DEF DriveInv, TypeOK, Mild

\* Stopping a unit on its own is mild, and what it served is no longer live.
LEMMA UnitGone ==
  ASSUME TypeOK, DriveInv, NEW kind \in {"homi", "qublk", "xal"}, UnitStops(kind)
  PROVE  /\ Mild
         /\ ublk' \in [Ids -> {"none", "live", "dead"}]
         /\ \A id \in Ids : ublk'[id] = "live" => ublk[id] = "live"
         /\ kind # "xal" => ublk'[Id(wf)] # "live"
         /\ shm' \in [Mnts -> {"none", "complete", "stale"}]
<1>1. /\ Id(wf) \in Ids
      /\ UnitOf("homi", wf) = <<"homi", Id(wf)>> /\ UnitOf("qublk", wf) = <<"qublk", Id(wf)>>
  BY DEF Id, Ids, UnitOf
<1>2. CASE kind = "xal"
  <2>1. XalStops /\ UNCHANGED <<ublk, mnt, fs, dirty>>
    BY <1>2 DEF UnitStops
  <2>2. "root" \in Mnts
    BY DEF Mnts
  <2>3. shm' \in [Mnts -> {"none", "complete", "stale"}]
    BY <2>1 DEF XalStops, TypeOK
  <2> QED
    BY <1>2, <2>1, <2>2, <2>3 DEF TypeOK, DriveInv, Mild
<1>3. CASE kind = "qublk"
  <2>1. QublkStops(Id(wf)) /\ shm' = shm
    BY <1>3 DEF UnitStops
  <2>2. PICK hit \in {UblkMounts({Id(wf)}), NoMounts} : LoseMounts(hit)
    BY <2>1 DEF QublkStops
  <2>3. Mild
    BY <2>2, Hits, LostMild
  <2>4. /\ ublk' \in [Ids -> {"none", "live", "dead"}]
        /\ \A id \in Ids : ublk'[id] = "live" => ublk[id] = "live"
        /\ ublk'[Id(wf)] # "live"
    BY <1>1, <2>1 DEF QublkStops, TypeOK, DriveInv
  <2> QED
    BY <2>1, <2>3, <2>4 DEF TypeOK
<1>4. CASE kind = "homi"
  <2>1. HomiStops(Id(wf)) /\ shm' = shm
    BY <1>4 DEF UnitStops
  <2>2. PICK hit \in {UblkMounts({Id(wf)}), NoMounts} : LoseMounts(hit)
    BY <2>1 DEF HomiStops
  <2>3. Mild
    BY <2>2, Hits, LostMild
  <2>4. /\ ublk' \in [Ids -> {"none", "live", "dead"}]
        /\ \A id \in Ids : ublk'[id] = "live" => ublk[id] = "live"
        /\ ublk'[Id(wf)] # "live"
    BY <1>1, <2>1 DEF HomiStops, TypeOK, DriveInv
  <2> QED
    BY <2>1, <2>3, <2>4 DEF TypeOK
<1> QED
  BY <1>2, <1>3, <1>4

\* A command that neither looks at the drive nor renews it keeps what the looks have
\* established.
LEMMA GuardKept ==
  ASSUME IInv, Running, StepOn, late => late', Op \notin Guards,
         mnt'["root"] = {"nvme"} => mnt["root"] = {"nvme"},
         fs' = "other" => fs = "other" /\ Op \notin Renews
  PROVE  GuardInv'
<1>1. (Running /\ Did(Guards))' => Did(Guards)
  BY NextCommand DEF IInv
<1>2. (Running /\ Did(Renews))' => Did(Renews) \/ Op \in Renews
  BY NextCommand DEF IInv
<1> QED
  BY <1>1, <1>2 DEF GuardInv, IInv

\* Nothing is asked of the looks of a run that has ended.
LEMMA Ended ==
  ASSUME outcome' # "running"
  PROVE  RunInv' /\ GuardInv' /\ (Running => pc \in DOMAIN Program(wf))'
  BY DEF RunInv, GuardInv, Running

\* The umount of a workflow: it takes away mounts of its own mountpoint only.
LEMMA UmountSafe ==
  ASSUME IInv, Umount
  PROVE  IInv' /\ Spares /\ Moves("umount") /\ Closed
<1>1. Running /\ Op[1] = "umount" /\ StepOn /\ UNCHANGED histVars
  BY DEF Umount, At, Advance
<1>2. TypeOK /\ RunInv /\ DriveInv /\ GuardInv /\ Op \in Commands
  BY <1>1, AtCommand DEF IInv
<1>3. Op \notin Guards /\ Op \notin Renews
  BY <1>1, <1>2, ArgTypes
<1>4. /\ RunInv' /\ wf' = wf /\ outcome' \in {"ok", "running"} /\ look' = "none"
      /\ (Running => pc \in DOMAIN Program(wf))'
  BY <1>1, <1>2, NextCommand
<1> DEFINE m == Mnt(wf)
           live == mnt[m] \cap {"nvme", "ublk"}
<1>5. m \in Mnts /\ m # "root" /\ "root" \in Mnts
  BY Names DEF Mnts
<1>6. /\ mnt' = [mnt EXCEPT ![m] = IF live # {} THEN @ \ live ELSE {}]
      /\ dirty' = (dirty /\ live = {})
      /\ UNCHANGED <<driver, fs, ublk, unitVars>>
  BY DEF Umount
<1> HIDE DEF m
<1>7. TypeOK'
  BY <1>1, <1>2, <1>4, <1>5, <1>6 DEF TypeOK, unitVars, histVars
<1>8. DriveInv'
  BY <1>2, <1>5, <1>6 DEF TypeOK, DriveInv, unitVars
<1>9. GuardInv'
  BY <1>1, <1>2, <1>3, GuardKept, <1>5, <1>6 DEF TypeOK, IInv, histVars
<1>10. Spares
  BY <1>2, <1>5, <1>6 DEF TypeOK, Spares
<1>11. Moves("umount") /\ Closed
  BY <1>1, <1>2, <1>5, <1>6 DEF TypeOK, Moves, Closed, unitVars
<1> QED
  BY <1>4, <1>7, <1>8, <1>9, <1>10, <1>11 DEF IInv

\* The prepare step stops every unit of the workflow, and loses what they served.
LEMMA StopUnitsSafe ==
  ASSUME IInv, StopUnits
  PROVE  IInv' /\ Spares /\ Moves("stop_units") /\ Closed
<1>1. Running /\ Op[1] = "stop_units" /\ StepOn /\ UNCHANGED histVars
  BY DEF StopUnits, At, Advance
<1>2. TypeOK /\ RunInv /\ DriveInv /\ GuardInv /\ Op \in Commands
  BY <1>1, AtCommand DEF IInv
<1>3. Op \notin Guards /\ Op \notin Renews
  BY <1>1, <1>2, ArgTypes
<1>4. /\ RunInv' /\ wf' = wf /\ outcome' \in {"ok", "running"} /\ look' = "none"
      /\ (Running => pc \in DOMAIN Program(wf))'
  BY <1>1, <1>2, NextCommand
<1>5. /\ up' = up \ Own(wf) /\ XalStops /\ QublkStops(Id(wf))
      /\ UNCHANGED <<driver, died, conf>>
  BY DEF StopUnits, Stopped
<1>6. /\ Mild /\ ublk' \in [Ids -> {"none", "live", "dead"}]
      /\ \A id \in Ids : ublk'[id] = "live" => ublk[id] = "live" /\ id # Id(wf)
  <2>1. PICK hit \in {UblkMounts({Id(wf)}), NoMounts} : LoseMounts(hit)
    BY <1>5 DEF QublkStops
  <2>2. Mild
    BY <1>2, <2>1, Hits, LostMild
  <2>3. Id(wf) \in Ids /\ UnitOf("qublk", wf) = <<"qublk", Id(wf)>>
    BY DEF Id, Ids, UnitOf
  <2> QED
    BY <1>2, <1>5, <2>2, <2>3 DEF QublkStops, TypeOK, DriveInv
<1>7. shm' \in [Mnts -> {"none", "complete", "stale"}]
  BY <1>2, <1>5 DEF XalStops, TypeOK
<1>8. \A u \in Own(wf) : u[1] = "xal" \/ u[2] = Id(wf)
  BY DEF Own, UnitOf
<1>9. TypeOK'
  BY <1>1, <1>2, <1>4, <1>5, <1>6, <1>7 DEF TypeOK, Mild, histVars
<1>10. DriveInv'
  BY <1>2, <1>5, <1>6, <1>8 DEF TypeOK, DriveInv, Mild
<1>11. GuardInv'
  BY <1>1, <1>2, <1>3, GuardKept, <1>6 DEF IInv, Mild, histVars
<1>12. Spares
  BY <1>2, <1>6 DEF Mild, Spares
<1>13. Moves("stop_units") /\ Closed
  BY <1>1, <1>2, <1>5, <1>6 DEF TypeOK, Moves, Closed, Mild, XalStops
<1> QED
  BY <1>4, <1>9, <1>10, <1>11, <1>12, <1>13 DEF IInv

\* Deleting the ublk device loses what was mounted from it.
LEMMA QublkDelSafe ==
  ASSUME IInv, QublkDel
  PROVE  IInv' /\ Spares /\ Moves("qublk_del") /\ Closed
<1>1. Running /\ Op[1] = "qublk_del" /\ StepOn /\ UNCHANGED histVars
  BY DEF QublkDel, At, Advance
<1>2. TypeOK /\ RunInv /\ DriveInv /\ GuardInv /\ Op \in Commands
  BY <1>1, AtCommand DEF IInv
<1>3. Op \notin Guards /\ Op \notin Renews
  BY <1>1, <1>2, ArgTypes
<1>4. /\ RunInv' /\ wf' = wf /\ outcome' \in {"ok", "running"} /\ look' = "none"
      /\ (Running => pc \in DOMAIN Program(wf))'
  BY <1>1, <1>2, NextCommand
<1>5. /\ ublk' = [ublk EXCEPT ![Id(wf)] = "none"] /\ LoseMounts(UblkMounts({Id(wf)}))
      /\ UNCHANGED <<driver, unitVars>>
  BY DEF QublkDel
<1>6. Mild
  BY <1>2, <1>5, Hits, LostMild
<1>7. "ublk" \notin mnt'[Mnt(wf)]
  <2>1. Mnt(wf) \in Mnts /\ "ublk" \in UblkMounts({Id(wf)})[Mnt(wf)]
    BY DEF Mnt, Mnts, UblkMounts, MntId, Id
  <2> QED
    BY <1>2, <1>5, <2>1, Hits, Lost
<1>8. TypeOK'
  <2>1. ublk' \in [Ids -> {"none", "live", "dead"}]
    BY <1>2, <1>5 DEF TypeOK
  <2>2. /\ UNCHANGED <<driver, up, died, conf, shm>>
        /\ UNCHANGED histVars
    BY <1>1, <1>5 DEF unitVars
  <2> QED
    BY <1>2, <1>4, <1>6, <2>1, <2>2 DEF TypeOK, Mild, histVars
<1>9. DriveInv'
  BY <1>2, <1>5, <1>6 DEF TypeOK, DriveInv, Mild, unitVars
<1>10. GuardInv'
  BY <1>1, <1>2, <1>3, GuardKept, <1>6 DEF IInv, Mild, histVars
<1>11. Spares
  BY <1>2, <1>6 DEF Mild, Spares
<1>12. Moves("qublk_del") /\ Closed
  BY <1>1, <1>2, <1>5, <1>6, <1>7 DEF TypeOK, Moves, Closed, Mild, unitVars
<1> QED
  BY <1>4, <1>8, <1>9, <1>10, <1>11, <1>12 DEF IInv

\* Removing a stale index touches neither drive nor units.
LEMMA RmShmSafe ==
  ASSUME IInv, RmShm
  PROVE  IInv' /\ Spares /\ Moves("rm_shm") /\ Closed
<1>1. Running /\ Op[1] = "rm_shm" /\ StepOn /\ UNCHANGED histVars
  BY DEF RmShm, At, Advance
<1>2. TypeOK /\ RunInv /\ DriveInv /\ GuardInv /\ Op \in Commands
  BY <1>1, AtCommand DEF IInv
<1>3. Op \notin Guards /\ Op \notin Renews
  BY <1>1, <1>2, ArgTypes
<1>4. /\ RunInv' /\ wf' = wf /\ outcome' \in {"ok", "running"} /\ look' = "none"
      /\ (Running => pc \in DOMAIN Program(wf))'
  BY <1>1, <1>2, NextCommand
<1>5. shm' = [shm EXCEPT ![Mnt(wf)] = "none"] /\ UNCHANGED <<driveVars, up, died, conf>>
  BY DEF RmShm
<1>6. shm' \in [Mnts -> {"none", "complete", "stale"}]
  BY <1>2, <1>5 DEF TypeOK
<1>7. TypeOK'
  BY <1>1, <1>2, <1>4, <1>5, <1>6 DEF TypeOK, driveVars, histVars
<1>8. DriveInv'
  BY <1>2, <1>5 DEF DriveInv, driveVars
<1>9. GuardInv'
  BY <1>1, <1>2, <1>3, GuardKept, <1>5 DEF IInv, driveVars, histVars
<1>10. Spares
  BY <1>2, <1>5 DEF driveVars, Spares
<1>11. Moves("rm_shm") /\ Closed
  BY <1>1, <1>2, <1>5 DEF TypeOK, Moves, Closed, driveVars
<1> QED
  BY <1>4, <1>7, <1>8, <1>9, <1>10, <1>11 DEF IInv

\* Writing xal-server's configuration touches neither drive nor units.
LEMMA ConfiguredSafe ==
  ASSUME IInv, Configured
  PROVE  IInv' /\ Spares /\ Moves("conf") /\ Closed
<1>1. Running /\ Op[1] = "conf" /\ StepOn /\ UNCHANGED histVars
  BY DEF Configured, At, Advance
<1>2. TypeOK /\ RunInv /\ DriveInv /\ GuardInv /\ Op \in Commands
  BY <1>1, AtCommand DEF IInv
<1>3. Op \notin Guards /\ Op \notin Renews
  BY <1>1, <1>2, ArgTypes
<1>4. /\ RunInv' /\ wf' = wf /\ outcome' \in {"ok", "running"} /\ look' = "none"
      /\ (Running => pc \in DOMAIN Program(wf))'
  BY <1>1, <1>2, NextCommand
<1>5. conf' = Mnt(wf) /\ Mnt(wf) \in Mnts /\ UNCHANGED <<driveVars, up, died, shm>>
  BY DEF Configured, Mnt, Mnts
<1>6. TypeOK'
  BY <1>1, <1>2, <1>4, <1>5 DEF TypeOK, driveVars, histVars
<1>7. DriveInv'
  BY <1>2, <1>5 DEF DriveInv, driveVars
<1>8. GuardInv'
  BY <1>1, <1>2, <1>3, GuardKept, <1>5 DEF IInv, driveVars, histVars
<1>9. Spares
  BY <1>2, <1>5 DEF driveVars, Spares
<1>10. Moves("conf") /\ Closed
  BY <1>1, <1>2, <1>5 DEF TypeOK, Moves, Closed, driveVars
<1> QED
  BY <1>4, <1>6, <1>7, <1>8, <1>9, <1>10 DEF IInv

\* A check changes nothing.
LEMMA CheckSafe ==
  ASSUME IInv, Check
  PROVE  IInv' /\ Spares /\ Moves("check") /\ Closed
<1>1. Running /\ Op[1] = "check" /\ StepOn /\ UNCHANGED histVars
  BY DEF Check, At, Advance
<1>2. TypeOK /\ RunInv /\ DriveInv /\ GuardInv /\ Op \in Commands
  BY <1>1, AtCommand DEF IInv
<1>3. Op \notin Guards /\ Op \notin Renews
  BY <1>1, <1>2, ArgTypes
<1>4. /\ RunInv' /\ wf' = wf /\ outcome' \in {"ok", "running"} /\ look' = "none"
      /\ (Running => pc \in DOMAIN Program(wf))'
  BY <1>1, <1>2, NextCommand
<1>5. UNCHANGED <<driveVars, unitVars>>
  BY DEF Check
<1>6. TypeOK'
  BY <1>1, <1>2, <1>4, <1>5 DEF TypeOK, driveVars, unitVars, histVars
<1>7. DriveInv'
  BY <1>2, <1>5 DEF DriveInv, driveVars, unitVars
<1>8. GuardInv'
  BY <1>1, <1>2, <1>3, GuardKept, <1>5 DEF IInv, driveVars, histVars
<1>9. Spares
  BY <1>2, <1>5 DEF driveVars, Spares
<1>10. Moves("check") /\ Closed
  BY <1>1, <1>2, <1>5 DEF TypeOK, Moves, Closed, driveVars, unitVars
<1> QED
  BY <1>4, <1>6, <1>7, <1>8, <1>9, <1>10 DEF IInv

\* Loading a model changes nothing.
LEMMA LoadSafe ==
  ASSUME IInv, Load
  PROVE  IInv' /\ Spares /\ Moves("load") /\ Closed
<1>1. Running /\ Op[1] = "load" /\ StepOn /\ UNCHANGED histVars
  BY DEF Load, At, Advance
<1>2. TypeOK /\ RunInv /\ DriveInv /\ GuardInv /\ Op \in Commands
  BY <1>1, AtCommand DEF IInv
<1>3. Op \notin Guards /\ Op \notin Renews
  BY <1>1, <1>2, ArgTypes
<1>4. /\ RunInv' /\ wf' = wf /\ outcome' \in {"ok", "running"} /\ look' = "none"
      /\ (Running => pc \in DOMAIN Program(wf))'
  BY <1>1, <1>2, NextCommand
<1>5. UNCHANGED <<driveVars, unitVars>>
  BY DEF Load
<1>6. TypeOK'
  BY <1>1, <1>2, <1>4, <1>5 DEF TypeOK, driveVars, unitVars, histVars
<1>7. DriveInv'
  BY <1>2, <1>5 DEF DriveInv, driveVars, unitVars
<1>8. GuardInv'
  BY <1>1, <1>2, <1>3, GuardKept, <1>5 DEF IInv, driveVars, histVars
<1>9. Spares
  BY <1>2, <1>5 DEF driveVars, Spares
<1>10. Moves("load") /\ Closed
  BY <1>1, <1>2, <1>5 DEF TypeOK, Moves, Closed, driveVars, unitVars
<1> QED
  BY <1>4, <1>6, <1>7, <1>8, <1>9, <1>10 DEF IInv

\* A mount is at a mountpoint of the workflow, never the root.
LEMMA MountSafe ==
  ASSUME IInv, Mount
  PROVE  IInv' /\ Spares /\ Moves("mount") /\ Closed
<1>1. Running /\ Op[1] = "mount" /\ StepOn /\ UNCHANGED histVars
  BY DEF Mount, At, Advance
<1>2. TypeOK /\ RunInv /\ DriveInv /\ GuardInv /\ Op \in Commands
  BY <1>1, AtCommand DEF IInv
<1>3. Op \notin Guards /\ Op \notin Renews
  BY <1>1, <1>2, ArgTypes
<1>4. /\ RunInv' /\ wf' = wf /\ outcome' \in {"ok", "running"} /\ look' = "none"
      /\ (Running => pc \in DOMAIN Program(wf))'
  BY <1>1, <1>2, NextCommand
<1>5. /\ mnt' = [mnt EXCEPT ![Mnt(wf)] = @ \cup {Op[2]}] /\ Device(Op[2])
      /\ UNCHANGED <<driver, fs, dirty, ublk, unitVars>>
  BY DEF Mount, CanMount, Arg
<1>6. /\ Op[2] \in {"nvme", "ublk"} /\ Mnt(wf) \in Mnts /\ Mnt(wf) # "root" /\ "root" \in Mnts
      /\ Op[2] = "nvme" => driver = "nvme"
  BY <1>1, <1>2, <1>5, ArgTypes, Names DEF Mnts, Device
<1>7. TypeOK'
  BY <1>1, <1>2, <1>4, <1>5, <1>6 DEF TypeOK, unitVars, histVars
<1>8. DriveInv'
  BY <1>2, <1>5, <1>6 DEF TypeOK, DriveInv, unitVars
<1>9. GuardInv'
  BY <1>1, <1>2, <1>3, GuardKept, <1>5, <1>6 DEF TypeOK, IInv, histVars
<1>10. Spares
  BY <1>2, <1>5, <1>6 DEF TypeOK, Spares
<1>11. Moves("mount") /\ Closed
  BY <1>1, <1>2, <1>5, <1>6 DEF TypeOK, Moves, Closed, unitVars
<1> QED
  BY <1>4, <1>7, <1>8, <1>9, <1>10, <1>11 DEF IInv

\* Filling writes to a file system of the run's own making.
LEMMA FillSafe ==
  ASSUME IInv, Fill
  PROVE  IInv' /\ Spares /\ Moves("fill") /\ Closed
<1>1. Running /\ Op[1] = "fill" /\ StepOn /\ UNCHANGED histVars
  BY DEF Fill, At, Advance
<1>2. TypeOK /\ RunInv /\ DriveInv /\ GuardInv /\ Op \in Commands
  BY <1>1, AtCommand DEF IInv
<1>3. Op \notin Guards /\ Op \notin Renews
  BY <1>1, <1>2, ArgTypes
<1>4. /\ RunInv' /\ wf' = wf /\ outcome' \in {"ok", "running"} /\ look' = "none"
      /\ (Running => pc \in DOMAIN Program(wf))'
  BY <1>1, <1>2, NextCommand
<1>5. /\ fs' = Mnt(wf) /\ dirty' = TRUE /\ shm' = Outdated
      /\ UNCHANGED <<driver, mnt, ublk, up, died, conf>>
  BY DEF Fill
<1>6. /\ shm' \in [Mnts -> {"none", "complete", "stale"}]
      /\ Mnt(wf) \in Mnts /\ Mnt(wf) # "other"
  BY <1>5 DEF Outdated, Mnts, Mnt
<1>7. fs # "other" /\ mnt["root"] # {"nvme"}
  BY <1>1, <1>2, AtCommand, ArgTypes DEF GuardInv, DriveInv
<1>8. TypeOK'
  BY <1>1, <1>2, <1>4, <1>5, <1>6 DEF TypeOK, histVars
<1>9. DriveInv'
  BY <1>2, <1>5, <1>6, <1>7 DEF TypeOK, DriveInv
<1>10. GuardInv'
  BY <1>1, <1>2, <1>3, GuardKept, <1>5, <1>6 DEF IInv, histVars
<1>11. Spares
  BY <1>2, <1>7 DEF Spares
<1>12. Moves("fill") /\ Closed
  BY <1>1, <1>2, <1>5 DEF TypeOK, Moves, Closed, Outdated
<1> QED
  BY <1>4, <1>8, <1>9, <1>10, <1>11, <1>12 DEF IInv

\* The random writes hit a drive that is not mounted elsewhere: through homi it is not
\* the kernel's, and to the namespace only after the run has looked.
LEMMA WriteSafe ==
  ASSUME IInv, Write
  PROVE  IInv' /\ Spares /\ Moves("write") /\ Closed
<1>1. Running /\ Op[1] = "write" /\ StepOn /\ UNCHANGED histVars
  BY DEF Write, At, Advance
<1>2. TypeOK /\ RunInv /\ DriveInv /\ GuardInv /\ Op \in Commands
  BY <1>1, AtCommand DEF IInv
<1>3. Op \notin Guards /\ Op \in Renews
  BY <1>1, <1>2, ArgTypes
<1>4. /\ RunInv' /\ wf' = wf /\ outcome' \in {"ok", "running"} /\ look' = "none"
      /\ (Running => pc \in DOMAIN Program(wf))'
  BY <1>1, <1>2, NextCommand
<1>5. /\ fs' = "junk" /\ shm' = Outdated /\ CanWrite(Op[2])
      /\ UNCHANGED <<driver, dirty, mnt, ublk, up, died, conf>>
  BY DEF Write, Arg
<1>6. shm' \in [Mnts -> {"none", "complete", "stale"}]
  BY <1>5 DEF Outdated
<1>7. Op[2] \in {"homi", "bdev"} /\ "root" \in Mnts /\ UnitOf("homi", wf) = <<"homi", Id(wf)>>
  BY <1>1, <1>2, ArgTypes DEF Mnts, UnitOf
<1>8. mnt["root"] # {"nvme"}
  <2>1. CASE Op[2] = "homi"
    BY <1>2, <1>5, <1>7, <2>1 DEF CanWrite, DriveInv
  <2>2. CASE Op[2] = "bdev"
    BY <1>1, <1>2, <2>2, AtCommand, ArgTypes DEF GuardInv, DriveInv
  <2> QED
    BY <1>7, <2>1, <2>2
<1>9. TypeOK'
  BY <1>1, <1>2, <1>4, <1>5, <1>6 DEF TypeOK, histVars
<1>10. DriveInv'
  BY <1>2, <1>5, <1>6, <1>8 DEF TypeOK, DriveInv
<1>11. GuardInv'
  BY <1>1, <1>2, <1>3, GuardKept, <1>5, <1>6 DEF IInv, histVars
<1>12. Spares
  BY <1>2, <1>8 DEF Spares
<1>13. Moves("write") /\ Closed
  BY <1>1, <1>2, <1>5 DEF TypeOK, Moves, Closed, Outdated
<1> QED
  BY <1>4, <1>9, <1>10, <1>11, <1>12, <1>13 DEF IInv

\* mkfs.xfs is refused for a mounted device, and comes after the look at the drive.
LEMMA MkfsSafe ==
  ASSUME IInv, Mkfs
  PROVE  IInv' /\ Spares /\ Moves("mkfs") /\ Closed
<1>1. Running /\ Op[1] = "mkfs" /\ StepOn
  BY DEF Mkfs, At
<1>2. TypeOK /\ RunInv /\ DriveInv /\ GuardInv /\ Op \in Commands
  BY <1>1, AtCommand DEF IInv
<1>3. Op \notin Guards /\ Op \in Renews
  BY <1>1, <1>2, ArgTypes
<1>4. /\ RunInv' /\ wf' = wf /\ outcome' \in {"ok", "running"} /\ look' = "none"
      /\ (Running => pc \in DOMAIN Program(wf))'
  BY <1>1, <1>2, NextCommand
<1>5. /\ fs' = "empty" /\ dirty' = FALSE /\ shm' = Outdated
      /\ Device(Op[2]) /\ MountsOf(Op[2]) = {} /\ formatted' = TRUE
      /\ UNCHANGED <<driver, mnt, ublk, up, died, conf>>
      /\ UNCHANGED <<fault, spread, foreign, late, unseen, runs, faults>>
  BY DEF Mkfs, CanFormat, Arg
<1>6. shm' \in [Mnts -> {"none", "complete", "stale"}]
  BY <1>5 DEF Outdated
<1>7. Op[2] \in {"nvme", "ublk"} /\ "root" \in Mnts /\ Id(wf) \in Ids
  BY <1>1, <1>2, ArgTypes DEF Mnts, Id, Ids
<1>8. mnt["root"] # {"nvme"}
  <2>1. CASE Op[2] = "nvme"
    BY <1>2, <1>5, <1>7, <2>1 DEF MountsOf, MountedAt
  <2>2. CASE Op[2] = "ublk"
    BY <1>2, <1>5, <1>7, <2>2 DEF Device, DriveInv
  <2> QED
    BY <1>7, <2>1, <2>2
<1>9. TypeOK'
  BY <1>1, <1>2, <1>4, <1>5, <1>6 DEF TypeOK
<1>10. DriveInv'
  BY <1>2, <1>5, <1>6, <1>8 DEF TypeOK, DriveInv
<1>11. GuardInv'
  BY <1>1, <1>2, <1>3, GuardKept, <1>5, <1>6 DEF IInv
<1>12. Spares
  BY <1>2, <1>8 DEF Spares
<1>13. Moves("mkfs") /\ Closed
  BY <1>1, <1>2, <1>5 DEF TypeOK, Moves, Closed, Outdated
<1> QED
  BY <1>4, <1>9, <1>10, <1>11, <1>12, <1>13 DEF IInv

\* Taking the drive from the kernel comes after a look that found it free; taking it
\* from a homi loses what that homi served.
LEMMA BindSafe ==
  ASSUME IInv, Bind
  PROVE  IInv' /\ Spares /\ Moves("bind") /\ Closed
<1>1. Running /\ Op[1] = "bind" /\ StepOn /\ UNCHANGED histVars
  BY DEF Bind, At, Advance
<1>2. TypeOK /\ RunInv /\ DriveInv /\ GuardInv /\ Op \in Commands
  BY <1>1, AtCommand DEF IInv
<1>3. Op \notin Guards /\ Op \notin Renews
  BY <1>1, <1>2, ArgTypes
<1>4. /\ RunInv' /\ wf' = wf /\ outcome' \in {"ok", "running"} /\ look' = "none"
      /\ (Running => pc \in DOMAIN Program(wf))'
  BY <1>1, <1>2, NextCommand
<1> DEFINE rebound == driver # Op[2]
           homis   == IF rebound THEN Holders ELSE {}
           ids     == {u[2] : u \in homis}
<1>5. /\ driver' = Op[2]
      /\ up' = up \ homis /\ died' = died \cup homis
      /\ ublk' = [id \in Ids |-> IF id \in ids /\ ublk[id] = "live" THEN "dead" ELSE ublk[id]]
      /\ LoseMounts(IF ~rebound THEN NoMounts
                    ELSE IF driver = "nvme" THEN NvmeMounts ELSE UblkMounts(ids))
      /\ UNCHANGED <<conf, shm>>
  BY DEF Bind, Arg
<1>6. Op[2] \in {"nvme", "user"} /\ "root" \in Mnts /\ homis \subseteq up
  BY <1>1, <1>2, ArgTypes DEF Mnts, Holders
<1>7. mnt["root"] = {"nvme"} => late
  BY <1>1, <1>2, AtCommand, ArgTypes DEF GuardInv
<1>8. \A id \in Ids : ublk'[id] = "live" =>
        ublk[id] = "live" /\ (rebound => <<"homi", id>> \notin up)
  BY <1>5 DEF Holders
<1>9. \A u \in up' : u \in up /\ (u[1] = "homi" => ~rebound)
  BY <1>5 DEF Holders
<1>10. \A u \in up : u \notin up' => u[1] = "homi" /\ rebound
  BY <1>5 DEF Holders
<1>11. \A id \in Ids : <<"homi", id>>[1] = "homi" /\ <<"qublk", id>>[1] # "homi"
  OBVIOUS
<1>12. /\ up' \subseteq Units /\ died' \subseteq Units
       /\ ublk' \in [Ids -> {"none", "live", "dead"}]
  BY <1>2, <1>5, <1>6 DEF TypeOK
<1> HIDE DEF homis, ids
<1>13. /\ mnt' \in [Mnts -> SUBSET {"nvme", "ublk", "dead"}]
       /\ fs' \in {fs, "damaged"} /\ dirty' \in BOOLEAN
       /\ fs' = "other" => fs = "other" /\ ~dirty'
       /\ mnt'["root"] = {"nvme"} => mnt["root"] = {"nvme"} /\ fs' = "other"
       /\ \A m \in Mnts : "nvme" \in mnt'[m] => "nvme" \in mnt[m] /\ (rebound => driver # "nvme")
  <2>1. CASE rebound /\ driver = "nvme"
    BY <1>2, <1>5, <1>6, <2>1, Hits, Lost DEF DriveInv, TypeOK
  <2>2. CASE ~(rebound /\ driver = "nvme")
    <3>1. PICK hit \in {UblkMounts(ids), NoMounts} : LoseMounts(hit)
      BY <1>5, <2>2
    <3>2. Mild
      BY <1>2, <3>1, Hits, LostMild
    <3> QED
      BY <2>2, <3>2 DEF Mild
  <2> QED
    BY <2>1, <2>2
<1>14. \A m \in Mnts, d \in {"nvme", "ublk"} : d \in mnt'[m] => d \in mnt[m]
  BY <1>2, <1>5, Hits, Lost
<1>15. TypeOK'
  BY <1>1, <1>2, <1>4, <1>5, <1>6, <1>13, <1>12 DEF TypeOK, histVars
<1>16. DriveInv'
  BY <1>2, <1>5, <1>6, <1>13, <1>8, <1>9, <1>10, <1>11 DEF TypeOK, DriveInv
<1>17. GuardInv'
  BY <1>1, <1>2, <1>3, GuardKept, <1>13 DEF IInv, histVars
<1>18. Spares
  BY <1>2, <1>7 DEF Spares
<1>19. Moves("bind") /\ Closed
  BY <1>1, <1>2, <1>5, <1>6, <1>9, <1>14 DEF TypeOK, Moves, Closed, Arg
<1> QED
  BY <1>4, <1>15, <1>16, <1>17, <1>18, <1>19 DEF IInv

\* A homi starts only on a drive off the kernel, and qublk only under its homi.
LEMMA StartSafe ==
  ASSUME IInv, Start
  PROVE  IInv' /\ Spares /\ Moves("start") /\ Closed
<1>1. Running /\ Op[1] = "start" /\ StepOn /\ UNCHANGED histVars
  BY DEF Start, At, Advance
<1>2. TypeOK /\ RunInv /\ DriveInv /\ GuardInv /\ Op \in Commands
  BY <1>1, AtCommand DEF IInv
<1>3. Op \notin Guards /\ Op \notin Renews
  BY <1>1, <1>2, ArgTypes
<1>4. /\ RunInv' /\ wf' = wf /\ outcome' \in {"ok", "running"} /\ look' = "none"
      /\ (Running => pc \in DOMAIN Program(wf))'
  BY <1>1, <1>2, NextCommand
<1> DEFINE u == UnitOf(Op[2], wf)
<1>5. /\ CanStart(Op[2]) /\ up' = up \cup {u} /\ died' = died \ {u}
      /\ ublk' = IF Op[2] = "qublk" THEN [ublk EXCEPT ![Id(wf)] = "live"] ELSE ublk
      /\ shm' = IF Op[2] = "xal" THEN Indexed ELSE shm
      /\ UNCHANGED <<driver, fs, dirty, mnt, conf>>
  BY DEF Start, Arg
<1>6. /\ Op[2] \in {"homi", "qublk", "xal"} /\ Id(wf) \in Ids /\ u \in Units /\ u[1] = Op[2]
      /\ UnitOf("homi", wf) = <<"homi", Id(wf)>>
      /\ UnitOf("qublk", wf) = <<"qublk", Id(wf)>>
  BY <1>1, <1>2, ArgTypes, Names DEF UnitOf
<1>7. shm' \in [Mnts -> {"none", "complete", "stale"}]
  BY <1>2, <1>5 DEF Indexed, TypeOK
<1>8. Op[2] = "homi" => driver = "user"
  BY <1>5 DEF CanStart
<1>9. Op[2] = "qublk" => <<"homi", Id(wf)>> \in up /\ u = <<"qublk", Id(wf)>>
  BY <1>5, <1>6 DEF CanStart
<1> HIDE DEF u
<1>10. TypeOK'
  BY <1>1, <1>2, <1>4, <1>5, <1>6, <1>7 DEF TypeOK, histVars
<1>11. DriveInv'
  BY <1>2, <1>5, <1>6, <1>8, <1>9 DEF TypeOK, DriveInv
<1>12. GuardInv'
  BY <1>1, <1>2, <1>3, GuardKept, <1>5 DEF IInv, histVars
<1>13. Spares
  BY <1>2, <1>5 DEF Spares
<1>14. Moves("start") /\ Closed
  BY <1>1, <1>2, <1>5, <1>6 DEF TypeOK, Moves, Closed, Arg, u, Indexed
<1> QED
  BY <1>4, <1>10, <1>11, <1>12, <1>13, <1>14 DEF IInv

\* Stopping a unit on its own keeps the drive and the units consistent.
LEMMA StopKeeps ==
  ASSUME TypeOK, DriveInv, NEW kind \in {"homi", "qublk", "xal"}, UnitStops(kind),
         up' = up \ {UnitOf(kind, wf)}, UNCHANGED <<driver, died, conf>>
  PROVE  /\ DriveInv' /\ Mild /\ up' \subseteq Units
         /\ ublk' \in [Ids -> {"none", "live", "dead"}]
         /\ shm' \in [Mnts -> {"none", "complete", "stale"}]
         /\ Moves("stop") /\ Moves("systemctl_stop") /\ Moves("stop_result")
<1>1. /\ UnitOf(kind, wf) = (IF kind = "xal" THEN <<"xal", 0>> ELSE <<kind, Id(wf)>>)
      /\ Id(wf) \in Ids
  BY DEF UnitOf, Id, Ids
<1>2. \A id \in Ids : ublk'[id] = "live" => ublk[id] = "live" /\ (kind = "xal" \/ id # Id(wf))
  BY UnitGone
<1>3. \A id \in Ids : ublk'[id] = "live" => <<"homi", id>> \in up' /\ <<"qublk", id>> \in up'
  BY <1>1, <1>2 DEF DriveInv
<1>4. \A m \in Mnts : shm[m] = "none" => shm'[m] = "none"
  BY DEF UnitStops, XalStops, TypeOK
<1>5. Mild
  BY UnitGone
<1>6. Moves("stop") /\ Moves("systemctl_stop") /\ Moves("stop_result")
  BY <1>4, <1>5 DEF Moves, Mild
<1> QED
  BY <1>3, <1>6, UnitGone DEF DriveInv, TypeOK, Mild

\* What a run knows between a stop's look at its unit and the end of the stop: it is at
\* that stop; a unit that does not run any more has died, unseen; homi had the drive, and
\* what qublk served is gone with it.
LookInv ==
  look # "none" =>
    LET u == UnitOf(Op[2], wf)
    IN  /\ Running /\ Op[1] = "stop"
        /\ look = "clean" => u \in up \/ u \in died
        /\ look = "clean" /\ u \in died => u \in unseen
        /\ look = "restarted" => u \in died
        /\ Op[2] = "homi" => driver = "user"
        /\ Op[2] = "qublk" /\ u \notin up => "ublk" \notin mnt[Mnt(wf)]

\* daemon.py's stop: a unit that was restarted is stopped too, and the run fails.
LEMMA StopSafe ==
  ASSUME IInv, Stop
  PROVE  IInv' /\ Spares /\ Moves("stop")
<1>1. /\ Running /\ Op[1] = "stop" /\ UnitStops(Op[2])
      /\ up' = up \ {UnitOf(Op[2], wf)} /\ UNCHANGED <<driver, died, conf>>
      /\ UNCHANGED histVars
      /\ StepOn \/ EndRun("failed")
  BY DEF Stop, At, Arg, Advance
<1>2. TypeOK /\ RunInv /\ DriveInv /\ GuardInv /\ Op \in Commands
  BY <1>1, AtCommand DEF IInv
<1>3. /\ Op \notin Guards /\ Op \notin Renews /\ Op[2] \in {"homi", "qublk", "xal"}
      /\ "root" \in Mnts
  BY <1>1, <1>2, ArgTypes DEF Mnts
<1>4. /\ DriveInv' /\ Mild /\ up' \subseteq Units
      /\ ublk' \in [Ids -> {"none", "live", "dead"}]
      /\ shm' \in [Mnts -> {"none", "complete", "stale"}] /\ Moves("stop")
  BY <1>1, <1>2, <1>3, StopKeeps
<1>5. /\ RunInv' /\ GuardInv' /\ wf' = wf /\ outcome' \in {"ok", "running", "failed"}
      /\ look' = "none"
      /\ (Running => pc \in DOMAIN Program(wf))'
  <2>1. CASE StepOn
    BY <1>1, <1>2, <1>3, <1>4, <2>1, NextCommand, GuardKept DEF IInv, Mild, histVars
  <2>2. CASE EndRun("failed")
    BY <2>2, Ended DEF EndRun
  <2> QED
    BY <1>1, <2>1, <2>2
<1>6. TypeOK'
  BY <1>1, <1>2, <1>4, <1>5 DEF TypeOK, Mild, histVars
<1>7. Spares
  BY <1>4 DEF Spares, Mild
<1> QED
  BY <1>4, <1>5, <1>6, <1>7 DEF IInv

\* A stop that succeeds leaves its unit, and what it served, gone for good; one that
\* died is gone too, and unseen.
LEMMA StopCloses ==
  ASSUME IInv, LookInv, Stop, outcome' # "failed"
  PROVE  StepOn /\ Closed
<1>1. /\ Running /\ Op[1] = "stop" /\ UnitStops(Op[2]) /\ look = "clean"
      /\ up' = up \ {UnitOf(Op[2], wf)} /\ UNCHANGED <<driver, died, conf>>
      /\ UNCHANGED histVars /\ StepOn
      /\ UnitOf(Op[2], wf) \in up \/ EndedWell(Op[2])
  BY DEF Stop, At, Arg, Advance, EndRun
<1>2. TypeOK /\ DriveInv /\ Op \in Commands
  BY <1>1, AtCommand DEF IInv
<1>3. Op[2] \in {"homi", "qublk", "xal"}
  BY <1>1, <1>2, ArgTypes
<1>4. Mild
  BY <1>1, <1>2, <1>3, StopKeeps
<1>5. /\ UnitOf(Op[2], wf) \notin up'
      /\ UnitOf(Op[2], wf) \in died' => UnitOf(Op[2], wf) \in unseen'
  BY <1>1 DEF LookInv, histVars
<1>6. Mnt(wf) \in Mnts /\ UnitOf("homi", wf)[1] = "homi" /\ UnitOf("xal", wf) = <<"xal", 0>>
  BY DEF Mnt, Mnts, UnitOf
<1>7. CASE Op[2] = "homi"
  <2>1. "nvme" \notin mnt[Mnt(wf)]
    BY <1>1, <1>2, <1>6, <1>7 DEF DriveInv, LookInv
  <2> QED
    BY <1>1, <1>4, <1>5, <1>6, <1>7, <2>1 DEF Closed, Mild
<1>8. CASE Op[2] = "qublk"
  <2>1. ASSUME UnitOf("qublk", wf) \in up
        PROVE  "ublk" \notin mnt'[Mnt(wf)]
    <3>1. LoseMounts(UblkMounts({Id(wf)}))
      BY <1>1, <1>8, <2>1 DEF UnitStops, QublkStops
    <3>2. "ublk" \in UblkMounts({Id(wf)})[Mnt(wf)]
      BY DEF Mnt, Mnts, UblkMounts, MntId, Id
    <3> QED
      BY <1>2, <1>6, <3>1, <3>2, Hits, Lost
  <2>2. ASSUME UnitOf("qublk", wf) \notin up
        PROVE  "ublk" \notin mnt'[Mnt(wf)]
    BY <1>1, <1>4, <1>6, <1>8, <2>2 DEF LookInv, Mild
  <2>3. "ublk" \notin mnt'[Mnt(wf)]
    BY <2>1, <2>2
  <2> QED
    BY <1>1, <1>5, <1>8, <2>3 DEF Closed
<1>9. CASE Op[2] = "xal"
  <2>1. conf = Mnt(wf) => shm'[Mnt(wf)] = "none"
    BY <1>1, <1>2, <1>6, <1>9 DEF UnitStops, XalStops, EndedWell, TypeOK
  <2> QED
    BY <1>1, <1>5, <1>9, <2>1 DEF Closed
<1> QED
  BY <1>1, <1>3, <1>7, <1>8, <1>9

\* systemctl stop, whatever has become of the unit.
LEMMA SystemctlStopSafe ==
  ASSUME IInv, SystemctlStop
  PROVE  IInv' /\ Spares /\ Moves("systemctl_stop") /\ Closed
<1>1. /\ Running /\ Op[1] = "systemctl_stop" /\ UnitStops(Op[2])
      /\ up' = up \ {UnitOf(Op[2], wf)} /\ UNCHANGED <<driver, died, conf>>
      /\ UNCHANGED histVars
      /\ StepOn
  BY DEF SystemctlStop, At, Arg, Advance
<1>2. TypeOK /\ RunInv /\ DriveInv /\ GuardInv /\ Op \in Commands
  BY <1>1, AtCommand DEF IInv
<1>3. /\ Op \notin Guards /\ Op \notin Renews /\ Op[2] \in {"homi", "qublk", "xal"}
      /\ "root" \in Mnts
  BY <1>1, <1>2, ArgTypes DEF Mnts
<1>4. /\ DriveInv' /\ Mild /\ up' \subseteq Units
      /\ ublk' \in [Ids -> {"none", "live", "dead"}]
      /\ shm' \in [Mnts -> {"none", "complete", "stale"}] /\ Moves("systemctl_stop")
  BY <1>1, <1>2, <1>3, StopKeeps
<1>5. /\ RunInv' /\ GuardInv' /\ wf' = wf /\ outcome' \in {"ok", "running", "failed"}
      /\ look' = "none"
      /\ (Running => pc \in DOMAIN Program(wf))'
  <2>1. CASE StepOn
    BY <1>1, <1>2, <1>3, <1>4, <2>1, NextCommand, GuardKept DEF IInv, Mild, histVars
  <2> QED
    BY <1>1, <2>1
<1>6. TypeOK'
  BY <1>1, <1>2, <1>4, <1>5 DEF TypeOK, Mild, histVars
<1>7. Spares
  BY <1>4 DEF Spares, Mild
<1>8. Closed
  BY <1>1 DEF Closed
<1> QED
  BY <1>4, <1>5, <1>6, <1>7, <1>8 DEF IInv

\* The stop that reads the unit's Result.
LEMMA StopResultSafe ==
  ASSUME IInv, StopResult
  PROVE  IInv' /\ Spares /\ Moves("stop_result") /\ Closed
<1>1. /\ Running /\ Op[1] = "stop_result" /\ UnitStops(Op[2])
      /\ up' = up \ {UnitOf(Op[2], wf)} /\ UNCHANGED <<driver, died, conf>>
      /\ UNCHANGED histVars
      /\ StepOn \/ EndRun("failed")
  BY DEF StopResult, At, Arg, Advance
<1>2. TypeOK /\ RunInv /\ DriveInv /\ GuardInv /\ Op \in Commands
  BY <1>1, AtCommand DEF IInv
<1>3. /\ Op \notin Guards /\ Op \notin Renews /\ Op[2] \in {"homi", "qublk", "xal"}
      /\ "root" \in Mnts
  BY <1>1, <1>2, ArgTypes DEF Mnts
<1>4. /\ DriveInv' /\ Mild /\ up' \subseteq Units
      /\ ublk' \in [Ids -> {"none", "live", "dead"}]
      /\ shm' \in [Mnts -> {"none", "complete", "stale"}] /\ Moves("stop_result")
  BY <1>1, <1>2, <1>3, StopKeeps
<1>5. /\ RunInv' /\ GuardInv' /\ wf' = wf /\ outcome' \in {"ok", "running", "failed"}
      /\ look' = "none"
      /\ (Running => pc \in DOMAIN Program(wf))'
  <2>1. CASE StepOn
    BY <1>1, <1>2, <1>3, <1>4, <2>1, NextCommand, GuardKept DEF IInv, Mild, histVars
  <2>2. CASE EndRun("failed")
    BY <2>2, Ended DEF EndRun
  <2> QED
    BY <1>1, <2>1, <2>2
<1>6. TypeOK'
  BY <1>1, <1>2, <1>4, <1>5 DEF TypeOK, Mild, histVars
<1>7. Spares
  BY <1>4 DEF Spares, Mild
<1>8. Closed
  BY <1>1 DEF Closed
<1> QED
  BY <1>4, <1>5, <1>6, <1>7, <1>8 DEF IInv

\* The look at the drive: from here on the run knows that nobody else has it mounted.
LEMMA GuardSafe ==
  ASSUME IInv, Guard
  PROVE  IInv' /\ Spares /\ Moves("guard") /\ Closed
<1>1. /\ Running /\ Op[1] = "guard" /\ late' = FALSE
      /\ (GuardPasses /\ StepOn) \/ EndRun("refused")
      /\ UNCHANGED <<driveVars, unitVars, fault, spread, foreign, formatted, unseen, runs, faults>>
  BY DEF Guard, At
<1>2. TypeOK /\ RunInv /\ DriveInv /\ GuardInv /\ Op \in Commands
  BY <1>1, AtCommand DEF IInv
<1>3. Op \notin Renews
  BY <1>1, <1>2, ArgTypes
<1>4. /\ RunInv' /\ GuardInv' /\ wf' = wf /\ outcome' \in {"ok", "running", "refused"}
      /\ look' = "none"
      /\ (Running => pc \in DOMAIN Program(wf))'
  <2>1. CASE GuardPasses /\ StepOn
    <3>1. "root" \in Mnts /\ Mnt(wf) # "root"
      BY DEF Mnts, Mnt
    <3>2. mnt["root"] # {"nvme"}
      BY <2>1, <3>1 DEF GuardPasses, MountedAt
    <3>3. (Running /\ Did(Renews))' => Did(Renews) \/ Op \in Renews
      BY <1>1, <1>2, <2>1, NextCommand
    <3>4. GuardInv'
      BY <1>1, <1>2, <1>3, <3>2, <3>3, NextCommand, <2>1 DEF GuardInv, driveVars, Running
    <3> QED
      BY <1>1, <1>2, <2>1, <3>4, NextCommand
  <2>2. CASE EndRun("refused")
    BY <2>2, Ended DEF EndRun
  <2> QED
    BY <1>1, <2>1, <2>2
<1>5. TypeOK'
  <2>1. /\ UNCHANGED <<driver, fs, dirty, mnt, ublk, up, died, conf, shm>>
        /\ UNCHANGED <<fault, spread, foreign, formatted, unseen, runs, faults>> /\ late' \in BOOLEAN
    BY <1>1 DEF driveVars, unitVars
  <2> QED
    BY <1>2, <1>4, <2>1 DEF TypeOK
<1>6. DriveInv'
  BY <1>1, <1>2 DEF DriveInv, driveVars, unitVars
<1>7. Spares
  BY <1>1 DEF Spares, driveVars
<1>8. Moves("guard") /\ Closed
  BY <1>1 DEF Moves, Closed, driveVars, unitVars
<1> QED
  BY <1>4, <1>5, <1>6, <1>7, <1>8 DEF IInv

\* A run that fails leaves everything as it is.
LEMMA FailSafe ==
  ASSUME IInv, outcome' = "failed",
         UNCHANGED <<wf, pc, driveVars, unitVars, spread, foreign, formatted, unseen, runs>>,
         look' = "none",
         fault' \in BOOLEAN, late' \in BOOLEAN, faults' \in 0..MaxFaults
  PROVE  IInv' /\ Spares
<1>1. RunInv' /\ GuardInv' /\ (Running => pc \in DOMAIN Program(wf))'
  BY Ended
<1>2. TypeOK'
  BY <1>1 DEF IInv, TypeOK, driveVars, unitVars
<1>3. DriveInv'
  BY DEF IInv, DriveInv, driveVars, unitVars
<1> QED
  BY <1>1, <1>2, <1>3 DEF IInv, Spares, driveVars

\* What a fault does to the history variables.
LEMMA Struck ==
  ASSUME TypeOK, NEW kind, Strikes(kind)
  PROVE  /\ faults' \in 0..MaxFaults /\ fault' = TRUE /\ late' \in BOOLEAN
         /\ late => late'
         /\ kind = "mounts" => late'
         /\ UNCHANGED <<spread, foreign, formatted, runs>>
<1>1. late' = (late \/ kind = "mounts") /\ late \in BOOLEAN
  BY DEF Strikes, TypeOK
<1>2. late' \in BOOLEAN /\ (late => late') /\ (kind = "mounts" => late')
  BY <1>1, Zenon
<1>3. /\ faults' \in 0..MaxFaults /\ fault' = TRUE
      /\ UNCHANGED <<spread, foreign, formatted, runs>>
  BY StackAssumption DEF TypeOK, Strikes
<1> QED
  BY <1>2, <1>3

\* A fault that leaves the workflow where it is.
LEMMA GuardStays ==
  ASSUME IInv, UNCHANGED <<wf, pc, outcome>>,
         ~late' => (mnt'["root"] = {"nvme"} => mnt["root"] = {"nvme"} /\ ~late),
         fs' = "other" => fs = "other"
  PROVE  RunInv' /\ GuardInv' /\ (Running => pc \in DOMAIN Program(wf))'
  BY DEF IInv, RunInv, GuardInv, Running, Did, Passed, TypeOK

\* A unit dies, and may be restarted: what it served is lost.
LEMMA UnitDiesSafe ==
  ASSUME IInv, UnitDies
  PROVE  IInv' /\ Spares /\ Moves("none")
<1>1. PICK u \in up :
        /\ Strikes("dies")
        /\ died' = died \cup {u} /\ up' \in {up, up \ {u}}
        /\ IF u[1] = "xal"
             THEN UNCHANGED <<ublk, mnt, fs, dirty>>
             ELSE /\ ublk' = [ublk EXCEPT ![u[2]] = IF @ = "live" THEN "dead" ELSE @]
                  /\ LoseMounts(UblkMounts({u[2]}))
        /\ \/ u \in up' /\ shm' = IF u[1] = "xal" /\ Servable THEN Indexed ELSE shm
           \/ u \notin up' /\ (UNCHANGED shm \/ (u[1] = "xal" /\ XalStops))
        /\ unseen' \in {unseen \cup {u}, unseen}
        /\ UNCHANGED <<driver, conf, wf, pc, outcome, look>>
  BY DEF UnitDies
<1>2. TypeOK /\ DriveInv /\ "root" \in Mnts
  BY DEF IInv, Mnts
<1>3. /\ faults' \in 0..MaxFaults /\ fault' = TRUE /\ late' \in BOOLEAN /\ (late => late')
      /\ UNCHANGED <<spread, foreign, formatted, runs>>
  BY <1>1, <1>2, Struck
<1>4. /\ u = <<u[1], u[2]>> /\ u[1] \in {"homi", "qublk", "xal"}
      /\ u[1] # "xal" => u[2] \in Ids
  BY <1>2 DEF TypeOK, Units
<1>5. Mild
  <2>1. CASE u[1] = "xal"
    BY <1>1, <1>2, <2>1 DEF TypeOK, DriveInv, Mild
  <2>2. CASE u[1] # "xal"
    BY <1>1, <1>2, <2>2, Hits, LostMild
  <2> QED
    BY <2>1, <2>2
<1>6. /\ ublk' \in [Ids -> {"none", "live", "dead"}]
      /\ \A id \in Ids : ublk'[id] = "live" => ublk[id] = "live" /\ (u[1] # "xal" => id # u[2])
  BY <1>1, <1>2, <1>4 DEF TypeOK
<1>7. /\ shm' \in [Mnts -> {"none", "complete", "stale"}]
      /\ \A m \in Mnts : shm[m] = "none" => shm'[m] = "none" \/ u[1] = "xal"
  <2>1. CASE u[1] = "xal" /\ u \in up' /\ Servable /\ shm' = Indexed
    BY <1>2, <2>1 DEF TypeOK, Indexed
  <2>2. CASE shm' = shm
    BY <1>2, <2>2 DEF TypeOK
  <2>3. CASE u[1] = "xal" /\ XalStops
    BY <1>2, <2>3 DEF TypeOK, XalStops
  <2> QED
    BY <1>1, <2>1, <2>2, <2>3
<1>8. /\ RunInv' /\ GuardInv' /\ (Running => pc \in DOMAIN Program(wf))'
  BY <1>1, <1>3, <1>5, GuardStays DEF Mild
<1>9. TypeOK'
  BY <1>1, <1>2, <1>3, <1>5, <1>6, <1>7, <1>8 DEF TypeOK, Mild, Running
<1>10. \A id \in Ids : ublk'[id] = "live" => <<"homi", id>> \in up' /\ <<"qublk", id>> \in up'
  BY <1>1, <1>2, <1>6 DEF DriveInv
<1>11. DriveInv'
  BY <1>1, <1>2, <1>5, <1>10 DEF DriveInv, Mild
<1>12. \A m \in Mnts : shm[m] = "none" => shm'[m] = "none" \/ <<"xal", 0>> \in up
  BY <1>1, <1>2, <1>4, <1>7 DEF TypeOK, Units
<1>13. Moves("none")
  BY <1>1, <1>5, <1>12 DEF Moves, Mild
<1> QED
  BY <1>5, <1>8, <1>9, <1>11, <1>13 DEF IInv, Spares, Mild

\* A busy umount leaves the mounts; the run goes on or fails.
LEMMA UmountBusySafe ==
  ASSUME IInv, UmountBusy
  PROVE  IInv' /\ Spares /\ Moves("umount") /\ Closed
<1>1. /\ Running /\ Op[1] = "umount" /\ Strikes("busy") /\ (StepOn \/ EndRun("failed"))
      /\ UNCHANGED <<driveVars, unitVars, unseen>>
  BY DEF UmountBusy, At
<1>2. TypeOK /\ RunInv /\ DriveInv /\ GuardInv /\ Op \in Commands
  BY <1>1, AtCommand DEF IInv
<1>3. /\ faults' \in 0..MaxFaults /\ fault' = TRUE /\ late' \in BOOLEAN /\ (late => late')
      /\ UNCHANGED <<spread, foreign, formatted, runs>>
  BY <1>1, <1>2, Struck
<1>4. Moves("umount") /\ Closed
  BY <1>1 DEF Moves, Closed, driveVars, unitVars
<1>5. ASSUME EndRun("failed") PROVE IInv' /\ Spares
  BY <1>1, <1>2, <1>3, <1>5, FailSafe DEF EndRun, TypeOK
<1>6. ASSUME StepOn PROVE IInv' /\ Spares
  <2>1. Op \notin Guards /\ Op \notin Renews
    BY <1>1, <1>2, ArgTypes
  <2>2. /\ RunInv' /\ wf' = wf /\ outcome' \in {"ok", "running"} /\ look' = "none"
        /\ (Running => pc \in DOMAIN Program(wf))'
    BY <1>1, <1>2, <1>6, NextCommand
  <2>3. GuardInv'
    BY <1>1, <1>3, <1>6, <2>1, GuardKept DEF driveVars
  <2>4. TypeOK'
    BY <1>1, <1>2, <1>3, <2>2 DEF TypeOK, driveVars, unitVars
  <2>5. DriveInv' /\ Spares
    BY <1>1, <1>2 DEF DriveInv, Spares, driveVars, unitVars
  <2> QED
    BY <2>2, <2>3, <2>4, <2>5 DEF IInv
<1> QED
  BY <1>1, <1>4, <1>5, <1>6

\* Somebody mounts the drive elsewhere: the run's look, if any, was before it.
LEMMA MountedElsewhereSafe ==
  ASSUME IInv, MountedElsewhere
  PROVE  IInv' /\ Spares /\ Moves("none")
<1>1. /\ driver = "nvme" /\ fs = "other" /\ Strikes("mounts")
      /\ mnt' = [mnt EXCEPT !["root"] = {"nvme"}]
      /\ UNCHANGED <<driver, fs, dirty, ublk, unitVars, wf, pc, outcome, look, unseen>>
  BY DEF MountedElsewhere
<1>2. TypeOK /\ DriveInv /\ "root" \in Mnts
  BY DEF IInv, Mnts
<1>3. /\ faults' \in 0..MaxFaults /\ fault' = TRUE /\ late'
      /\ UNCHANGED <<spread, foreign, formatted, runs>>
  BY <1>1, <1>2, Struck
<1>4. RunInv' /\ GuardInv' /\ (Running => pc \in DOMAIN Program(wf))'
  BY <1>1, <1>3, GuardStays
<1>5. TypeOK'
  BY <1>1, <1>2, <1>3, <1>4, Struck DEF TypeOK, unitVars, Running
<1>6. DriveInv'
  BY <1>1, <1>2 DEF TypeOK, DriveInv, unitVars
<1>7. Spares
  BY <1>1, <1>2 DEF Spares, TypeOK
<1>8. Moves("none")
  BY <1>1, <1>2 DEF Moves, TypeOK, unitVars
<1> QED
  BY <1>4, <1>5, <1>6, <1>7, <1>8 DEF IInv

\* A reboot gives the drive back to the kernel and ends the run.
LEMMA RebootSafe ==
  ASSUME IInv, Reboot
  PROVE  IInv' /\ Spares /\ Moves("none")
<1>1. /\ Strikes("reboot") /\ driver' = "nvme"
      /\ mnt' = [m \in Mnts |-> IF m = "root" THEN mnt[m] ELSE {}]
      /\ fs' = IF dirty THEN "damaged" ELSE fs
      /\ dirty' = FALSE /\ ublk' = [id \in Ids |-> "none"]
      /\ up' = {} /\ died' = {} /\ shm' = [m \in Mnts |-> "none"]
      /\ outcome' = IF Running THEN "failed" ELSE outcome
      /\ look' = "none" /\ UNCHANGED <<conf, wf, pc, unseen>>
  BY DEF Reboot
<1>2. TypeOK /\ DriveInv /\ "root" \in Mnts
  BY DEF IInv, Mnts
<1>3. /\ faults' \in 0..MaxFaults /\ fault' = TRUE /\ late' \in BOOLEAN /\ (late => late')
      /\ UNCHANGED <<spread, foreign, formatted, runs>>
  BY <1>1, <1>2, Struck
<1>4. RunInv' /\ GuardInv' /\ (Running => pc \in DOMAIN Program(wf))'
  BY <1>1, Ended DEF Running
<1>5. TypeOK'
  BY <1>1, <1>2, <1>3, <1>4 DEF TypeOK
<1>6. DriveInv'
  BY <1>1, <1>2 DEF TypeOK, DriveInv
<1>7. Spares
  BY <1>1, <1>2 DEF Spares, DriveInv
<1>8. Moves("none")
  BY <1>1, <1>2 DEF Moves
<1> QED
  BY <1>4, <1>5, <1>6, <1>7, <1>8 DEF IInv

\* The operator starts a workflow, on a drive in whatever state the last one left.
LEMMA BeginSafe ==
  ASSUME IInv, NEW w \in Workflows, Begin(w)
  PROVE  IInv' /\ Spares
<1>1. /\ runs < MaxRuns /\ (w = "dataset" => up = {})
      /\ wf' = w /\ pc' = 1 /\ outcome' = "running"
      /\ driver' = IF w = "dataset" THEN "nvme" ELSE driver
      /\ fault' = FALSE /\ formatted' = FALSE /\ late' = FALSE
      /\ unseen' = {} /\ foreign' \in BOOLEAN /\ runs' = runs + 1
      /\ UNCHANGED <<fs, dirty, mnt, ublk, unitVars, look, faults>>
      /\ spread' = UNION {mnt[m] : m \in Mnts \ Accepts(w)}
  BY DEF Begin, Prepared
<1>2. /\ TypeOK /\ DriveInv
      /\ spread' \subseteq {"nvme", "ublk", "dead"}
  BY <1>1 DEF IInv, TypeOK
<1>3. 1 \in DOMAIN Program(w)
  BY ProgramOrder
<1>4. RunInv' /\ (Running => pc \in DOMAIN Program(wf))'
  BY <1>1, <1>3 DEF RunInv
<1>5. GuardInv'
  <2>1. ~Did(Guards)' /\ ~Did(Renews)'
    BY <1>1 DEF Did, Passed
  <2> QED
    BY <2>1 DEF GuardInv
<1>6. TypeOK'
  <2>1. runs' \in 0..MaxRuns
    BY <1>1, <1>2, StackAssumption DEF TypeOK
  <2>2. driver' \in {"nvme", "user"}
    BY <1>1, <1>2 DEF TypeOK
  <2> QED
    BY <1>1, <1>2, <1>4, <2>1, <2>2 DEF TypeOK, unitVars
<1>7. DriveInv'
  BY <1>1, <1>2 DEF DriveInv, TypeOK, unitVars
<1> QED
  BY <1>1, <1>4, <1>5, <1>6, <1>7 DEF IInv, Spares

\* The invariant holds of a drive no workflow has touched.
LEMMA InitSafe ==
  ASSUME Init
  PROVE  IInv
<1>1. TypeOK
  <2>1. mnt \in [Mnts -> SUBSET {"nvme", "ublk", "dead"}]
    BY DEF Init, NoMounts, Mnts
  <2>2. runs \in 0..MaxRuns /\ faults \in 0..MaxFaults
    BY StackAssumption DEF Init
  <2> QED
    BY <2>1, <2>2 DEF Init, TypeOK, Running
<1>2. RunInv /\ GuardInv
  BY DEF Init, RunInv, GuardInv, Running
<1>3. DriveInv
  BY DEF Init, DriveInv, NoMounts, Mnts, Ids
<1> QED
  BY <1>1, <1>2, <1>3 DEF IInv

\* Every step keeps the invariant and spares a drive that is mounted elsewhere.
LEMMA NextSafe ==
  ASSUME IInv, [Next]_vars
  PROVE  IInv' /\ (Spares \/ UNCHANGED vars)
<1>1. CASE Command
  <2>1. CASE CommandFails
    BY <2>1, FailSafe DEF CommandFails, EndRun, histVars, IInv, TypeOK
  <2>2. CASE Look
    <3>1. CASE EndRun("failed")
      BY <2>2, <3>1, FailSafe DEF Look, EndRun, histVars, IInv, TypeOK
    <3>2. CASE look' \in {"clean", "restarted"} /\ UNCHANGED <<wf, pc, outcome>>
      <4>1. UNCHANGED <<driveVars, unitVars, histVars, wf, pc, outcome>>
        BY <2>2, <3>2 DEF Look
      <4>2. RunInv' /\ GuardInv' /\ (Running => pc \in DOMAIN Program(wf))'
        BY <4>1, GuardStays DEF driveVars, histVars
      <4>3. TypeOK'
        BY <3>2, <4>1, <4>2 DEF IInv, TypeOK, driveVars, unitVars, histVars, Running
      <4>4. DriveInv' /\ Spares
        BY <4>1 DEF IInv, DriveInv, Spares, driveVars, unitVars
      <4> QED
        BY <4>2, <4>3, <4>4 DEF IInv
    <3> QED
      BY <2>2, <3>1, <3>2 DEF Look
  <2> QED
    BY <1>1, <2>1, <2>2, UmountSafe, StopUnitsSafe, QublkDelSafe, RmShmSafe, GuardSafe, BindSafe,
       StartSafe, StopSafe, SystemctlStopSafe, StopResultSafe, MkfsSafe, MountSafe, FillSafe,
       WriteSafe, ConfiguredSafe, CheckSafe, LoadSafe
    DEF Command
<1>2. CASE Fault
  <2>1. CASE OtherFailure
    <3>1. TypeOK
      BY DEF IInv
    <3> QED
      BY <2>1, <3>1, Struck, FailSafe DEF OtherFailure, EndRun
  <2> QED
    BY <1>2, <2>1, UnitDiesSafe, UmountBusySafe, MountedElsewhereSafe, RebootSafe DEF Fault
<1>3. CASE \E w \in Workflows : Begin(w)
  BY <1>3, BeginSafe
<1>4. CASE UNCHANGED vars
  <2>1. TypeOK'
    BY <1>4 DEF IInv, TypeOK, vars, driveVars, unitVars, histVars, Running
  <2>2. RunInv' /\ DriveInv' /\ GuardInv'
    BY <1>4 DEF IInv, RunInv, DriveInv, GuardInv, Did, Passed, Running, vars, driveVars,
       unitVars, histVars
  <2> QED
    BY <1>4, <2>1, <2>2 DEF IInv
<1> QED
  BY <1>1, <1>2, <1>3, <1>4 DEF Next

\* Every variable keeps its type, and a running workflow is at one of its commands.
THEOREM TypeCorrect == Spec => []TypeOK
<1>1. Init => IInv
  BY InitSafe
<1>2. IInv /\ [Next]_vars => IInv'
  BY NextSafe
<1>3. IInv => TypeOK
  BY DEF IInv
<1> QED
  BY <1>1, <1>2, <1>3, PTL DEF Spec

\* A drive that somebody else has mounted is never unbound, formatted or written by any
\* workflow, after whatever failed runs, unless it was mounted after that run's look.
THEOREM DiskSafe == Spec => SystemDiskSafe
<1>1. Init => IInv
  BY InitSafe
<1>2. IInv /\ [Next]_vars => IInv'
  BY NextSafe
<1>3. IInv /\ [Next]_vars =>
        [mnt["root"] = {"nvme"} /\ ~late => mnt'["root"] = {"nvme"} /\ fs' = fs]_vars
  BY NextSafe DEF Spares
<1> QED
  BY <1>1, <1>2, <1>3, PTL DEF Spec, SystemDiskSafe

-----------------------------------------------------------------------------
(* The clean end *)

Kinds == {"homi", "qublk", "xal"}

\* A unit the run has stopped does not run, and has not died, or unseen; one it stopped
\* at its beginning and has not started does not run.
UnitsClosed ==
  \A kind \in Kinds :
    /\ Did({<<"stop", kind>>}) =>
         UnitOf(kind, wf) \notin up /\ UnitOf(kind, wf) \notin died \ unseen
    /\ Did({<<"stop_units", "all">>}) /\ ~Did({<<"start", kind>>}) => UnitOf(kind, wf) \notin up

\* Xal-server's configuration names the run's mountpoint, and its index is gone
\* once it is stopped.
IndexClosed ==
  /\ Did(Confs) => conf = Mnt(wf)
  /\ wf # "p2p" /\ Did({<<"stop", "xal">>}) => shm[Mnt(wf)] = "none"

\* What was mounted from a device is gone with the unit that served it.
MountsClosed ==
  /\ Did({<<"stop", "homi">>}) => "nvme" \notin mnt[Mnt(wf)]
  /\ Did({<<"stop", "qublk">>}) => "ublk" \notin mnt[Mnt(wf)]
  /\ wf = "p2p" /\ Did({<<"qublk_del", "own">>}) => "ublk" \notin mnt[Mnt(wf)]

\* The drive is the kernel's once it has been handed back.
DriveBack ==
  (\E i, j \in 1..Passed : /\ i < j /\ Program(wf)[i] = <<"stop", "homi">>
                           /\ Program(wf)[j] = <<"bind", "nvme">>)
    => driver = "nvme"

EndInv ==
  /\ outcome \in {"running", "ok"} /\ wf \in Checked =>
       UnitsClosed /\ IndexClosed /\ MountsClosed /\ DriveBack
  /\ outcome = "ok" => pc = Len(Program(wf))

\* Once a run of these has stopped a unit it opens nothing any more.
LEMMA NothingOpens ==
  ASSUME TypeOK, RunInv, Running, wf \in Checked, NEW kind, Did({<<"stop", kind>>})
  PROVE  Op[1] # "start" /\ Op[1] # "mount" /\ Op # <<"bind", "user">>
<1>1. Op \in Commands /\ pc \in 1..Len(Program(wf)) /\ Len(Program(wf)) \in Nat
  BY AtCommand
<1>2. PICK j \in 1..(pc - 1) : Program(wf)[j] = <<"stop", kind>>
  BY DEF Did, Passed, Running
<1>3. j \in 1..Len(Program(wf)) /\ ~(pc < j)
  BY <1>1, <1>2
<1>4. Program(wf)[j] \in Stops
  <2>1. Program(wf)[j] \in Commands
    BY <1>1, <1>3, ProgramOrder, AtCommand
  <2> QED
    BY <1>2, <2>1 DEF Stops, Verb
<1>5. Op \notin Opens
  <2>1. PICK e \in Nat : Closes(Program(wf), e)
    BY ClosingOrder
  <2> QED
    BY <1>1, <1>3, <1>4, <2>1 DEF Closes, Op
<1> QED
  BY <1>1, <1>5 DEF Opens, Verb, Binds, Cmd

\* A command that succeeds keeps what the run has closed closed.
LEMMA EndAdvance ==
  ASSUME IInv, EndInv, Running, wf \in Checked, StepOn, Moves(Op[1]), Closed,
         unseen \subseteq unseen'
  PROVE  EndInv'
<1>1. /\ TypeOK /\ RunInv /\ Op \in Commands /\ pc \in 1..Len(Program(wf))
      /\ wf' = wf /\ wf \in Workflows /\ Op = <<Op[1], Op[2]>>
      /\ Passed' = pc /\ Passed = pc - 1
  <2>1. TypeOK /\ RunInv
    BY DEF IInv
  <2>2. Op \in Commands /\ pc \in 1..Len(Program(wf)) /\ wf \in Workflows
    BY <2>1, AtCommand
  <2>3. \A A, B : Op \in A \X B => Op = <<Op[1], Op[2]>>
    OBVIOUS
  <2>4. Op = <<Op[1], Op[2]>>
    BY <2>2, <2>3 DEF Commands
  <2> QED
    BY <2>1, <2>2, <2>4, NextCommand
<1>2. UnitsClosed /\ IndexClosed /\ MountsClosed /\ DriveBack
  BY DEF EndInv, Running
<1>3. \A A : (Did(A)' => Did(A) \/ Op \in A) /\ (Did(A) => Did(A)')
  BY <1>1, NextCommand
<1>4. \A kind : Did({<<"stop", kind>>}) =>
        Op[1] # "start" /\ Op[1] # "mount" /\ Op # <<"bind", "user">>
  BY <1>1, NothingOpens
<1>5. Op = <<"qublk_del", "own">> => Op[1] = "qublk_del"
  <2>1. \A c, a, b : c = <<a, b>> => c[1] = a
    OBVIOUS
  <2> QED
    BY <2>1, Zenon
<1>6. /\ Mnt(wf) \in Mnts /\ Mnt(wf) # "root"
      /\ \A kind \in Kinds : UnitOf(kind, wf) \in Units /\ UnitOf(kind, wf)[1] = kind
      /\ UnitOf("xal", wf) = <<"xal", 0>>
  BY Names DEF Kinds, UnitOf
<1>7. UnitsClosed'
  <2> SUFFICES ASSUME NEW kind \in Kinds
               PROVE  /\ Did({<<"stop", kind>>})' => UnitOf(kind, wf) \notin up' \cup (died' \ unseen')
                      /\ Did({<<"stop_units", "all">>})' /\ ~Did({<<"start", kind>>})'
                           => UnitOf(kind, wf) \notin up'
    BY <1>1 DEF UnitsClosed
  <2>1. ASSUME Did({<<"stop", kind>>})
        PROVE  UnitOf(kind, wf) \notin up' \cup (died' \ unseen')
    BY <1>2, <1>4, <1>6, <2>1 DEF UnitsClosed, Moves
  <2>2. ASSUME Op \in {<<"stop", kind>>}
        PROVE  UnitOf(kind, wf) \notin up' \cup (died' \ unseen')
    <3>1. Op[1] = "stop" /\ Op[2] = kind
      BY <2>2
    <3> QED
      BY <3>1 DEF Closed
  <2>3. ASSUME ~Did({<<"start", kind>>})', Did({<<"stop_units", "all">>}),
               UnitOf(kind, wf) \in up'
        PROVE  FALSE
    <3>1. UnitOf(kind, wf) \notin up
      BY <1>2, <1>3, <2>3 DEF UnitsClosed
    <3>2. Op[1] = "start" /\ UnitOf(kind, wf) = UnitOf(Arg, wf)
      BY <1>6, <2>3, <3>1 DEF Moves
    <3>3. Op[2] \in Kinds
      BY <1>1, <3>2, ArgTypes DEF Kinds
    <3>4. Op[2] = kind
      BY <1>6, <3>2, <3>3 DEF Arg
    <3>5. pc \in 1..Passed' /\ Program(wf')[pc] = <<"start", kind>>
      BY <1>1, <3>2, <3>4 DEF Op
    <3> QED
      BY <2>3, <3>5 DEF Did
  <2>4. ASSUME Op \in {<<"stop_units", "all">>}
        PROVE  UnitOf(kind, wf) \notin up'
    <3>1. Op[1] = "stop_units" /\ UnitOf(kind, wf) \in Own(wf)
      BY <2>4 DEF Own, Kinds
    <3> QED
      BY <3>1 DEF Closed
  <2> QED
    BY <1>3, <2>1, <2>2, <2>3, <2>4
<1>8. (Did(Confs) => conf = Mnt(wf))'
  <2>1. Op \in Confs => Op[1] = "conf"
    BY DEF Confs, Verb
  <2> QED
    BY <1>1, <1>2, <1>3, <2>1 DEF IndexClosed, Moves, Closed
<1>9. (wf # "p2p" /\ Did({<<"stop", "xal">>}) => shm[Mnt(wf)] = "none")'
  <2>1. ASSUME wf # "p2p", Did({<<"stop", "xal">>})
        PROVE  shm'[Mnt(wf)] = "none"
    <3>1. <<"xal", 0>> \notin up
      BY <1>2, <1>6, <2>1 DEF UnitsClosed, Kinds
    <3> QED
      BY <1>2, <1>4, <1>6, <2>1, <3>1 DEF IndexClosed, Moves
  <2>2. ASSUME wf # "p2p", Op \in {<<"stop", "xal">>}
        PROVE  shm'[Mnt(wf)] = "none"
    <3>1. Op[1] = "stop" /\ Op[2] = "xal" /\ Op \in XalStop
      BY <1>1, <2>2 DEF XalStop, Cmd
    <3>2. \E j \in 1..(pc - 1) : Program(wf)[j] \in Confs
      BY <1>1, <3>1, ProgramOrder DEF Serves, Ready, Op
    <3>3. conf = Mnt(wf)
      BY <1>1, <1>2, <3>2 DEF Did, IndexClosed
    <3> QED
      BY <3>1, <3>3 DEF Closed
  <2> QED
    BY <1>1, <1>3, <2>1, <2>2
<1>10. MountsClosed'
  <2>1. (Did({<<"stop", "homi">>}) => "nvme" \notin mnt[Mnt(wf)])'
    <3>1. Op \in {<<"stop", "homi">>} => Op[1] = "stop" /\ Op[2] = "homi"
      OBVIOUS
    <3> QED
      BY <1>1, <1>2, <1>3, <1>4, <1>6, <3>1 DEF MountsClosed, Moves, Closed
  <2>2. (Did({<<"stop", "qublk">>}) => "ublk" \notin mnt[Mnt(wf)])'
    <3>1. Op \in {<<"stop", "qublk">>} => Op[1] = "stop" /\ Op[2] = "qublk"
      OBVIOUS
    <3> QED
      BY <1>1, <1>2, <1>3, <1>4, <1>6, <3>1 DEF MountsClosed, Moves, Closed
  <2>3. (wf = "p2p" /\ Did({<<"qublk_del", "own">>}) => "ublk" \notin mnt[Mnt(wf)])'
    <3>1. Op \in {<<"qublk_del", "own">>} => Op[1] = "qublk_del"
      BY <1>5, Zenon
    <3>2. wf = "p2p" => Op \notin Extra
      BY <1>1, ClosingOrder DEF Op, Never
    <3>3. wf = "p2p" => Op[1] # "mount"
      BY <1>1, <3>2 DEF Extra, Verb
    <3> QED
      BY <1>1, <1>2, <1>3, <1>6, <3>1, <3>3 DEF MountsClosed, Moves, Closed
  <2> QED
    BY <2>1, <2>2, <2>3 DEF MountsClosed
<1>11. DriveBack'
  <2> SUFFICES ASSUME NEW i \in 1..pc, NEW j \in 1..pc, i < j,
                      Program(wf)[i] = <<"stop", "homi">>, Program(wf)[j] = <<"bind", "nvme">>
               PROVE  driver' = "nvme"
    BY <1>1 DEF DriveBack
  <2>1. i \in 1..Passed
    BY <1>1
  <2>2. Did({<<"stop", "homi">>})
    BY <2>1 DEF Did
  <2>3. CASE j = pc
    BY <2>3 DEF Op, Closed
  <2>4. CASE j # pc
    <3>1. j \in 1..Passed
      BY <1>1, <2>4
    <3>2. driver = "nvme"
      BY <1>2, <2>1, <3>1 DEF DriveBack
    <3>3. Op[1] = "bind" => Op[2] = "nvme"
      BY <1>1, <1>4, <2>2, ArgTypes
    <3> QED
      BY <3>2, <3>3 DEF Moves, Arg
  <2> QED
    BY <2>3, <2>4
<1>12. (outcome = "ok" => pc = Len(Program(wf)))'
  BY <1>1, NextCommand
<1> QED
  BY <1>7, <1>8, <1>9, <1>10, <1>11, <1>12 DEF EndInv, IndexClosed

\* So does one of any workflow, for those that promise nothing.
LEMMA EndSteps ==
  ASSUME IInv, EndInv, Running, StepOn, Moves(Op[1]), Closed, unseen \subseteq unseen'
  PROVE  EndInv'
<1>1. CASE wf \in Checked
  BY <1>1, EndAdvance
<1>2. CASE wf \notin Checked
  <2>1. wf' = wf /\ (outcome' = "ok" => pc' = Len(Program(wf')))
    BY NextCommand DEF IInv
  <2> QED
    BY <1>2, <2>1 DEF EndInv
<1> QED
  BY <1>1, <1>2

\* What happens beside the run opens nothing that it has closed.
LEMMA EndStays ==
  ASSUME IInv, EndInv, UNCHANGED <<wf, pc, outcome>>, Moves("none"), unseen \subseteq unseen'
  PROVE  EndInv'
<1> SUFFICES ASSUME outcome \in {"running", "ok"}, wf \in Checked
             PROVE  (UnitsClosed /\ IndexClosed /\ MountsClosed /\ DriveBack)'
  BY DEF EndInv
<1>1. UnitsClosed /\ IndexClosed /\ MountsClosed /\ DriveBack
  BY DEF EndInv
<1>2. Passed' = Passed /\ \A A : Did(A)' = Did(A)
  BY DEF Passed, Did
<1>3. /\ Mnt(wf) \in Mnts /\ Mnt(wf) # "root" /\ UnitOf("xal", wf) = <<"xal", 0>>
      /\ \A kind \in Kinds : UnitOf(kind, wf) \in Units
  BY Names DEF Kinds, UnitOf
<1>4. UnitsClosed'
  BY <1>1, <1>2, <1>3 DEF UnitsClosed, Moves
<1>5. IndexClosed'
  <2>1. Did({<<"stop", "xal">>}) => <<"xal", 0>> \notin up
    BY <1>1, <1>3 DEF UnitsClosed, Kinds
  <2> QED
    BY <1>1, <1>2, <1>3, <2>1 DEF IndexClosed, Moves
<1>6. MountsClosed'
  BY <1>1, <1>2, <1>3 DEF MountsClosed, Moves
<1>7. DriveBack'
  BY <1>1, <1>2 DEF DriveBack, Moves
<1> QED
  BY <1>4, <1>5, <1>6, <1>7

\* A run that has not ended well, or has just begun, has closed nothing.
LEMMA EndOver ==
  ASSUME outcome' \notin {"running", "ok"} \/ (outcome' = "running" /\ pc' = 1)
  PROVE  EndInv'
<1>1. CASE outcome' \notin {"running", "ok"}
  BY <1>1 DEF EndInv
<1>2. CASE outcome' = "running" /\ pc' = 1
  <2>1. Passed' = 0 /\ 1..Passed' = {}
    BY <1>2 DEF Passed
  <2>2. \A A : ~Did(A)'
    BY <2>1 DEF Did
  <2>3. DriveBack'
    BY <2>1 DEF DriveBack
  <2> QED
    BY <1>2, <2>2, <2>3 DEF EndInv, UnitsClosed, IndexClosed, MountsClosed
<1> QED
  BY <1>1, <1>2

\* Every step keeps what a run has closed closed.
LEMMA EndNext ==
  ASSUME IInv, LookInv, EndInv, [Next]_vars
  PROVE  EndInv'
<1>1. CASE Command
  <2>1. CASE \E kind : /\ Running /\ Op[1] = kind /\ StepOn /\ Moves(kind) /\ Closed
                       /\ unseen' = unseen
    BY <2>1, EndSteps
  <2>2. CASE outcome' \notin {"running", "ok"}
    BY <2>2, EndOver
  <2>3. CASE StopResult \/ Guard
    <3>1. Running /\ unseen' = unseen /\ (StepOn \/ outcome' \notin {"running", "ok"})
      BY <2>3 DEF StopResult, Guard, At, Advance, EndRun, histVars
    <3> QED
      BY <2>1, <2>2, <2>3, <3>1, StopResultSafe, GuardSafe DEF StopResult, Guard, At
  <2>7. CASE Stop
    <3>1. Running /\ Op[1] = "stop" /\ unseen' = unseen
      BY <2>7 DEF Stop, At, Advance, histVars
    <3> QED
      BY <2>1, <2>2, <2>7, <3>1, StopSafe, StopCloses
  <2>8. CASE Look
    <3>1. CASE EndRun("failed")
      BY <2>2, <3>1 DEF EndRun
    <3>2. CASE UNCHANGED <<wf, pc, outcome>>
      <4>1. UNCHANGED <<driveVars, unitVars, histVars>>
        BY <2>8 DEF Look
      <4>2. Moves("none") /\ unseen' = unseen
        BY <4>1 DEF Moves, driveVars, unitVars, histVars
      <4> QED
        BY <3>2, <4>2, EndStays
    <3> QED
      BY <2>8, <3>1, <3>2 DEF Look
  <2>4. CASE CommandFails
    BY <2>2, <2>4 DEF CommandFails, EndRun
  <2>5. CASE Umount \/ StopUnits \/ QublkDel \/ RmShm \/ Configured \/ Check \/ Load
    BY <2>1, <2>5, UmountSafe, StopUnitsSafe, QublkDelSafe, RmShmSafe, ConfiguredSafe,
       CheckSafe, LoadSafe
    DEF Umount, StopUnits, QublkDel, RmShm, Configured, Check, Load, At, Advance, histVars
  <2>6. CASE Bind \/ Start \/ SystemctlStop \/ Mkfs \/ Mount \/ Fill \/ Write
    BY <2>1, <2>6, BindSafe, StartSafe, SystemctlStopSafe, MkfsSafe, MountSafe, FillSafe,
       WriteSafe
    DEF Bind, Start, SystemctlStop, Mkfs, Mount, Fill, Write, At, Advance, histVars
  <2> QED
    BY <1>1, <2>3, <2>4, <2>5, <2>6, <2>7, <2>8 DEF Command
<1>2. CASE Fault
  <2>1. CASE UnitDies \/ MountedElsewhere
    <3>1. unseen \subseteq unseen' /\ UNCHANGED <<wf, pc, outcome>>
      BY <2>1 DEF UnitDies, MountedElsewhere
    <3> QED
      BY <2>1, <3>1, UnitDiesSafe, MountedElsewhereSafe, EndStays
  <2>2. CASE OtherFailure
    BY <2>2, EndOver DEF OtherFailure, EndRun
  <2>3. CASE Reboot
    <3>1. CASE Running
      BY <2>3, <3>1, EndOver DEF Reboot
    <3>2. CASE ~Running
      BY <2>3, <3>2, RebootSafe, EndStays DEF Reboot
    <3> QED
      BY <3>1, <3>2
  <2>4. CASE UmountBusy
    <3>1. Running /\ Op[1] = "umount" /\ (StepOn \/ EndRun("failed"))
      BY <2>4 DEF UmountBusy, At
    <3>2. unseen' = unseen
      BY <2>4 DEF UmountBusy
    <3> QED
      BY <2>4, <3>1, <3>2, UmountBusySafe, EndSteps, EndOver DEF EndRun
  <2> QED
    BY <1>2, <2>1, <2>2, <2>3, <2>4 DEF Fault
<1>3. CASE \E w \in Workflows : Begin(w)
  BY <1>3, EndOver DEF Begin
<1>4. CASE UNCHANGED vars
  <2>1. UNCHANGED <<driver, mnt, up, died, conf, shm, wf, pc, outcome, unseen>>
    BY <1>4 DEF vars, driveVars, unitVars, histVars
  <2>2. Passed' = Passed /\ \A A : Did(A)' = Did(A)
    BY <2>1 DEF Passed, Did
  <2>3. UnitsClosed' = UnitsClosed /\ IndexClosed' = IndexClosed
    BY <2>1, <2>2 DEF UnitsClosed, IndexClosed
  <2>4. MountsClosed' = MountsClosed /\ DriveBack' = DriveBack
    BY <2>1, <2>2 DEF MountsClosed, DriveBack
  <2> QED
    BY <2>1, <2>3, <2>4 DEF EndInv
<1> QED
  BY <1>1, <1>2, <1>3, <1>4 DEF Next

\* A step that leaves no look behind has nothing to know of it.
LEMMA NoLook ==
  ASSUME look' = "none"
  PROVE  LookInv'
BY DEF LookInv

\* What a stop knows stays so: only the death of a unit happens beside it.
LEMMA LookNext ==
  ASSUME IInv, LookInv, [Next]_vars
  PROVE  LookInv'
<1>1. TypeOK /\ RunInv /\ DriveInv
  BY DEF IInv
<1>2. ASSUME StepOn \/ EndRun("failed") \/ EndRun("refused")
      PROVE  LookInv'
  BY <1>2, NoLook DEF StepOn, EndRun
<1>3. CASE Command /\ ~Look
  <2>1. StepOn \/ EndRun("failed") \/ EndRun("refused")
    BY <1>3 DEF Command, Umount, StopUnits, QublkDel, RmShm, Guard, Bind, Start, Stop,
       SystemctlStop, StopResult, Mkfs, Mount, Fill, Write, Configured, Check, Load,
       CommandFails, Advance
  <2> QED
    BY <1>2, <2>1
<1>4. CASE Look
  <2>1. CASE EndRun("failed")
    BY <1>2, <2>1
  <2>2. CASE ~EndRun("failed")
    <3>1. /\ Running /\ Op[1] = "stop" /\ UnitOf(Op[2], wf) \in up
          /\ look' = IF UnitOf(Op[2], wf) \in died THEN "restarted" ELSE "clean"
          /\ UNCHANGED <<wf, pc, outcome, up, died, driver, mnt, unseen>>
      BY <1>4, <2>2 DEF Look, At, Arg, CleanStop, driveVars, unitVars, histVars
    <3>2. Op' = Op /\ Running'
      BY <3>1 DEF Op, Running
    <3>3. Op[2] = "homi" => driver = "user"
      BY <1>1, <3>1 DEF DriveInv, UnitOf
    <3> QED
      BY <3>1, <3>2, <3>3 DEF LookInv
  <2> QED
    BY <2>1, <2>2
<1>5. CASE UnitDies
  <2> SUFFICES ASSUME look # "none"
               PROVE  LookInv'
    BY <1>5, NoLook DEF UnitDies
  <2> DEFINE s == UnitOf(Op[2], wf)
  <2>1. /\ Running /\ Op[1] = "stop"
        /\ look = "clean" => s \in up \/ s \in died
        /\ look = "clean" /\ s \in died => s \in unseen
        /\ look = "restarted" => s \in died
        /\ Op[2] = "homi" => driver = "user"
        /\ Op[2] = "qublk" /\ s \notin up => "ublk" \notin mnt[Mnt(wf)]
    BY DEF LookInv
  <2> HIDE DEF s
  <2>2. PICK u \in up :
          /\ died' = died \cup {u} /\ up' \in {up, up \ {u}}
          /\ IF u[1] = "xal"
               THEN UNCHANGED <<ublk, mnt, fs, dirty>>
               ELSE /\ ublk' = [ublk EXCEPT ![u[2]] = IF @ = "live" THEN "dead" ELSE @]
                    /\ LoseMounts(UblkMounts({u[2]}))
          /\ unseen' = IF look # "none" /\ u = UnitOf(Arg, wf) THEN unseen \cup {u} ELSE unseen
          /\ UNCHANGED <<driver, wf, pc, outcome, look>>
    BY <1>5 DEF UnitDies
  <2>3. UNCHANGED <<driver, wf, pc, outcome, look>> /\ Op' = Op /\ Running'
    BY <2>1, <2>2 DEF Op, Running
  <2>4. unseen' = IF u = s THEN unseen \cup {u} ELSE unseen
    BY <2>2 DEF s, Arg
  <2>5. /\ look = "clean" => s \in up' \/ s \in died'
        /\ look = "clean" /\ s \in died' => s \in unseen'
        /\ look = "restarted" => s \in died'
    BY <2>1, <2>2, <2>4
  <2>6. ASSUME Op[2] = "qublk", s \notin up'
        PROVE  "ublk" \notin mnt'[Mnt(wf)]
    <3>1. Mnt(wf) \in Mnts /\ s = <<"qublk", Id(wf)>>
      BY <2>6 DEF s, Mnt, Mnts, UnitOf
    <3>2. CASE s \in up
      <4>1. u = s /\ u[1] = "qublk" /\ u[2] = Id(wf)
        BY <2>2, <2>6, <3>1, <3>2
      <4>2. LoseMounts(UblkMounts({Id(wf)}))
        BY <2>2, <4>1
      <4>3. "ublk" \in UblkMounts({Id(wf)})[Mnt(wf)]
        BY DEF Mnt, Mnts, UblkMounts, MntId, Id
      <4> QED
        BY <1>1, <3>1, <4>2, <4>3, Hits, Lost
    <3>3. CASE s \notin up
      <4>1. "ublk" \notin mnt[Mnt(wf)]
        BY <2>1, <2>6, <3>3
      <4>2. CASE u[1] = "xal"
        BY <2>2, <4>1, <4>2
      <4>3. CASE u[1] # "xal"
        BY <1>1, <2>2, <3>1, <4>1, <4>3, Hits, Lost
      <4> QED
        BY <4>2, <4>3
    <3> QED
      BY <3>2, <3>3
  <2> QED
    BY <2>1, <2>3, <2>5, <2>6 DEF LookInv, s
<1>6. CASE MountedElsewhere
  <2>1. /\ UNCHANGED <<driver, wf, pc, outcome, look, up, died, unseen>>
        /\ mnt' = [mnt EXCEPT !["root"] = {"nvme"}]
    BY <1>6 DEF MountedElsewhere, unitVars
  <2>2. Op' = Op /\ Running' = Running
    BY <2>1 DEF Op, Running
  <2>3. Mnt(wf) \in Mnts /\ Mnt(wf) # "root"
    BY DEF Mnt, Mnts
  <2>4. mnt'[Mnt(wf)] = mnt[Mnt(wf)]
    BY <1>1, <2>1, <2>3 DEF TypeOK
  <2> QED
    BY <2>1, <2>2, <2>4 DEF LookInv
<1>7. CASE OtherFailure \/ UmountBusy \/ Reboot
  <2>1. look' = "none"
    BY <1>7 DEF OtherFailure, UmountBusy, Reboot, StepOn, EndRun
  <2> QED
    BY <2>1, NoLook
<1>8. CASE \E w \in Workflows : Begin(w)
  BY <1>8, NoLook DEF Begin, LookInv
<1>9. CASE UNCHANGED vars
  <2>1. UNCHANGED <<driver, mnt, wf, pc, outcome, look, up, died, unseen>>
    BY <1>9 DEF vars, driveVars, unitVars, histVars
  <2>2. Op' = Op /\ Running' = Running
    BY <2>1 DEF Op, Running
  <2> QED
    BY <2>1, <2>2 DEF LookInv
<1> QED
  BY <1>3, <1>4, <1>5, <1>6, <1>7, <1>8, <1>9 DEF Next, Fault

\* The end of a run that ends well
LEMMA AtTheEnd ==
  ASSUME EndInv, outcome = "ok", wf \in Checked
  PROVE  /\ driver = "nvme" /\ up \cap Own(wf) = {} /\ Started(wf) \cap died \subseteq unseen
         /\ "nvme" \notin mnt[Mnt(wf)] /\ "ublk" \notin mnt[Mnt(wf)]
         /\ wf # "p2p" => shm[Mnt(wf)] = "none"
<1>1. Passed = Len(Program(wf)) /\ UnitsClosed /\ IndexClosed /\ MountsClosed /\ DriveBack
  BY DEF EndInv, Passed
<1>2. \A c : In(Program(wf), c) => Did({c})
  BY <1>1 DEF In, Did
<1>3. Did({<<"stop", "homi">>}) /\ Did({<<"stop_units", "all">>}) /\ Did({<<"qublk_del", "own">>})
  BY <1>2, ClosingOrder
<1>4. wf # "p2p" => Did({<<"stop", "qublk">>}) /\ Did({<<"stop", "xal">>})
  BY <1>2, ClosingOrder
<1>5. wf = "p2p" => ~Did({<<"start", "qublk">>}) /\ ~Did({<<"start", "xal">>})
  <2>1. /\ <<"start", "qublk">> \in Commands /\ <<"start", "xal">> \in Commands
    BY DEF Commands
  <2>2. <<"start", "qublk">> \in Extra /\ <<"start", "xal">> \in Extra
    BY <2>1 DEF Extra, Cmd
  <2> QED
    BY <1>1, <2>2, ClosingOrder DEF Did, Never
<1>6. \A kind \in Kinds : UnitOf(kind, wf) \notin up
  BY <1>1, <1>3, <1>4, <1>5 DEF UnitsClosed, Kinds
<1>7. Started(wf) \cap died \subseteq unseen
  BY <1>1, <1>3, <1>4 DEF Started, Own, UnitsClosed, Kinds
<1>8. driver = "nvme"
  BY <1>1, ClosingOrder DEF DriveBack, HandsBack
<1>9. "nvme" \notin mnt[Mnt(wf)] /\ "ublk" \notin mnt[Mnt(wf)]
  BY <1>1, <1>3, <1>4 DEF MountsClosed
<1>10. wf # "p2p" => shm[Mnt(wf)] = "none"
  BY <1>1, <1>4 DEF IndexClosed
<1>11. up \cap Own(wf) = {}
  BY <1>6 DEF Own, Kinds
<1> QED
  BY <1>7, <1>8, <1>9, <1>10, <1>11

\* A run of smoke_daemons, smoke_p2p or bench_llama_load that ends well had every
\* unit it started live until the 'stop' of that unit looked at it.
THEOREM DeathsSeen == Spec => []DeathsReported
<1>1. Init => IInv /\ LookInv /\ EndInv
  BY InitSafe DEF Init, LookInv, EndInv
<1>2. IInv /\ LookInv /\ EndInv /\ [Next]_vars => IInv' /\ LookInv' /\ EndInv'
  BY NextSafe, LookNext, EndNext
<1>3. EndInv => DeathsReported
  BY AtTheEnd DEF DeathsReported, Checked
<1> QED
  BY <1>1, <1>2, <1>3, PTL DEF Spec

\* Such a run hands the drive back to the kernel, with none of its units running,
\* nothing of the drive mounted and no index left, that of smoke_p2p aside, which starts
\* no xal-server.
THEOREM Clean == Spec => []CleanOnSuccess
<1>1. Init => IInv /\ LookInv /\ EndInv
  BY InitSafe DEF Init, LookInv, EndInv
<1>2. IInv /\ LookInv /\ EndInv /\ [Next]_vars => IInv' /\ LookInv' /\ EndInv'
  BY NextSafe, LookNext, EndNext
<1>3. IInv /\ EndInv => CleanOnSuccess
  <2>1. IInv => mnt[Mnt(wf)] \subseteq {"nvme", "ublk", "dead"}
    BY Names DEF IInv, TypeOK
  <2> QED
    BY <2>1, AtTheEnd DEF CleanOnSuccess, Checked
<1> QED
  BY <1>1, <1>2, <1>3, PTL DEF Spec

-----------------------------------------------------------------------------
(* What a run knows: what its commands do *)

\* A command succeeds, or a prepare step finds its umount busy and goes on.
Goes == Running /\ StepOn /\ (Command \/ UmountBusy)

\* What the command is, of those that do not fail
CommandDone ==
  \/ Op[1] = "umount" /\ (Umount \/ (UmountBusy /\ Arg = "try"))
  \/ Op[1] = "stop_units" /\ StopUnits
  \/ Op[1] = "qublk_del" /\ QublkDel
  \/ Op[1] = "rm_shm" /\ RmShm
  \/ Op[1] = "guard" /\ Guard /\ GuardPasses
  \/ Op[1] = "bind" /\ Bind
  \/ Op[1] = "start" /\ Start
  \/ Op[1] = "stop" /\ Stop /\ (UnitOf(Arg, wf) \in up \/ EndedWell(Arg))
  \/ Op[1] = "systemctl_stop" /\ SystemctlStop
  \/ Op[1] = "stop_result" /\ StopResult
  \/ Op[1] = "mkfs" /\ Mkfs
  \/ Op[1] = "mount" /\ Mount
  \/ Op[1] = "fill" /\ Fill
  \/ Op[1] = "write" /\ Write
  \/ Op[1] = "conf" /\ Configured
  \/ Op[1] = "check" /\ Check
  \/ Op[1] = "load" /\ Load

\* The command at hand of a run that goes on is one that did not fail.
LEMMA GoesDone ==
  ASSUME IInv, Goes
  PROVE  /\ CommandDone /\ TypeOK /\ RunInv /\ DriveInv /\ Op \in Commands /\ wf \in Workflows
         /\ wf' = wf /\ outcome' \in {"ok", "running"}
<1>1. TypeOK /\ RunInv /\ DriveInv /\ Running /\ StepOn
  BY DEF IInv, Goes
<1>2. Op \in Commands /\ wf \in Workflows /\ wf' = wf /\ outcome' \in {"ok", "running"}
  BY <1>1, AtCommand, NextCommand
<1>3. CommandDone
  <2>1. CASE UmountBusy
    BY <1>2, <2>1 DEF UmountBusy, EndRun, At, CommandDone
  <2>2. CASE CommandFails
    BY <1>2, <2>2 DEF CommandFails, EndRun
  <2>3. CASE Guard
    BY <1>2, <2>3 DEF Guard, EndRun, At, CommandDone
  <2>4. CASE Stop
    BY <1>2, <2>4 DEF Stop, EndRun, At, CommandDone
  <2>5. CASE Umount \/ StopUnits \/ QublkDel \/ RmShm \/ Bind \/ Start \/ SystemctlStop \/ StopResult
    BY <2>5 DEF Umount, StopUnits, QublkDel, RmShm, Bind, Start, SystemctlStop, StopResult,
       At, CommandDone
  <2>6. CASE Mkfs \/ Mount \/ Fill \/ Write \/ Configured \/ Check \/ Load
    BY <2>6 DEF Mkfs, Mount, Fill, Write, Configured, Check, Load, At, CommandDone
  <2>7. CASE Look
    <3>1. look' # "none" \/ outcome' = "failed"
      BY <2>7 DEF Look, EndRun
    <3> QED
      BY <1>1, <1>2, <3>1 DEF StepOn
  <2> QED
    BY <2>1, <2>2, <2>3, <2>4, <2>5, <2>6, <2>7 DEF Goes, Command
<1> QED
  BY <1>1, <1>2, <1>3

\* The commands that leave the drive and the units alone
Quiet == {"rm_shm", "guard", "conf", "check", "load"}

\* What the commands do to the driver, the configuration and the units
UnitEffect ==
  /\ driver' = IF Op[1] = "bind" THEN Op[2] ELSE driver
  /\ conf' = IF Op[1] = "conf" THEN Mnt(wf) ELSE conf
  /\ \A u \in up' : u \in up \/ (Op[1] = "start" /\ u = UnitOf(Op[2], wf))
  /\ Op[1] \in StopVerbs => UnitOf(Op[2], wf) \notin up'
  /\ Op[1] = "stop_units" => up' \cap Own(wf) = {}
  /\ Op[1] = "start" => UnitOf(Op[2], wf) \in up' \ died'
  /\ \A u \in up \ died : \/ u \in up' \ died'
                          \/ Op[1] \in {"stop_units", "bind"}
                          \/ Op[1] \in StopVerbs /\ u = UnitOf(Op[2], wf)

\* A command that did not fail starts and stops what UnitEffect says.
LEMMA UnitEffects ==
  ASSUME CommandDone
  PROVE  UnitEffect
<1>1. CASE Op[1] \in Quiet \cup {"umount", "qublk_del", "mkfs", "mount", "fill", "write"}
  BY <1>1 DEF CommandDone, Quiet, UnitEffect, StopVerbs, Umount, UmountBusy, QublkDel,
     RmShm, Guard, Mkfs, Mount,
     Fill, Write, Configured, Check, Load, driveVars, unitVars
<1>2. CASE Op[1] = "stop_units"
  BY <1>2 DEF CommandDone, UnitEffect, StopVerbs, StopUnits, Stopped
<1>3. CASE Op[1] = "bind"
  BY <1>3 DEF CommandDone, UnitEffect, StopVerbs, Bind, Arg
<1>4. CASE Op[1] = "start"
  BY <1>4 DEF CommandDone, UnitEffect, StopVerbs, Start, Arg
<1>5. CASE Op[1] \in StopVerbs
  BY <1>5 DEF CommandDone, UnitEffect, StopVerbs, Stop, SystemctlStop, StopResult, Arg
<1> QED
  BY <1>1, <1>2, <1>3, <1>4, <1>5 DEF CommandDone, Quiet, StopVerbs

\* It stops qublk, or a unit whose end takes the ublk device with it.
StopsQublk == Op[1] = "stop_units" \/ (Op[1] \in StopVerbs /\ Op[2] = "qublk")
StopsServer == Op[1] = "stop_units" \/ (Op[1] \in StopVerbs /\ Op[2] \in {"homi", "qublk"})
StartsQublk == Op[1] = "start" /\ Op[2] = "qublk"

\* What the commands do to the ublk devices
UblkEffect ==
  /\ StartsQublk => ublk[Id(wf)] = "none" /\ ublk'[Id(wf)] = "live"
  /\ Op[1] = "qublk_del" => ublk'[Id(wf)] = "none"
  /\ StopsQublk => ublk'[Id(wf)] # "live"
  /\ ublk[Id(wf)] = "none" => ublk'[Id(wf)] = "none" \/ StopsQublk \/ StartsQublk
  /\ \A id \in Ids : ublk'[id] = "live" => ublk[id] = "live" \/ (StartsQublk /\ id = Id(wf))
  /\ ublk[Id(wf)] = "live" =>
       ublk'[Id(wf)] = "live" \/ StopsServer \/ Op[1] \in {"qublk_del", "bind"}

\* Nothing else makes a ublk device live, or takes one away.
LEMMA UblkEffects ==
  ASSUME CommandDone, TypeOK, DriveInv, Op \in Commands
  PROVE  UblkEffect
<1> USE DEF StopsQublk, StopsServer, StartsQublk
<1>1. CASE Op[1] \in Quiet \cup {"umount", "mkfs", "mount", "fill", "write"}
  BY <1>1 DEF CommandDone, Quiet, UblkEffect, StopVerbs, Umount, UmountBusy, RmShm, Guard,
     Mkfs, Mount,
     Fill, Write, Configured, Check, Load, driveVars
<1>2. /\ Id(wf) \in Ids /\ UnitOf("qublk", wf) = <<"qublk", Id(wf)>>
      /\ UnitOf("homi", wf) = <<"homi", Id(wf)>>
  BY DEF Id, Ids, UnitOf
<1>3. CASE Op[1] = "stop_units"
  <2>1. QublkStops(Id(wf))
    BY <1>3 DEF CommandDone, StopUnits, StopVerbs
  <2> QED
    BY <1>2, <1>3, <2>1 DEF UblkEffect, StopVerbs, QublkStops, TypeOK, DriveInv
<1>4. CASE Op[1] = "qublk_del"
  BY <1>2, <1>4 DEF CommandDone, UblkEffect, StopVerbs, QublkDel, TypeOK
<1>5. CASE Op[1] = "bind"
  BY <1>2, <1>5 DEF CommandDone, UblkEffect, StopVerbs, Bind, TypeOK
<1>6. CASE Op[1] = "start"
  BY <1>2, <1>6 DEF CommandDone, UblkEffect, StopVerbs, Start, CanStart, TypeOK, Arg
<1>7. CASE Op[1] \in StopVerbs
  <2>1. UnitStops(Op[2]) /\ Op[2] \in {"homi", "qublk", "xal"}
    BY <1>7, ArgTypes DEF CommandDone, Stop, SystemctlStop, StopResult, StopVerbs, Arg
  <2>2. CASE Op[2] = "xal"
    BY <1>7, <2>1, <2>2 DEF UblkEffect, StopVerbs, UnitStops
  <2>3. CASE Op[2] = "qublk"
    <3>1. QublkStops(Id(wf))
      BY <2>1, <2>3 DEF UnitStops
    <3> QED
      BY <1>2, <1>7, <2>3, <3>1 DEF UblkEffect, StopVerbs, QublkStops, TypeOK, DriveInv
  <2>4. CASE Op[2] = "homi"
    <3>1. HomiStops(Id(wf))
      BY <2>1, <2>4 DEF UnitStops
    <3> QED
      BY <1>2, <1>7, <2>4, <3>1 DEF UblkEffect, StopVerbs, HomiStops, TypeOK, DriveInv
  <2> QED
    BY <2>1, <2>2, <2>3, <2>4
<1> QED
  BY <1>1, <1>3, <1>4, <1>5, <1>6, <1>7 DEF CommandDone, Quiet, StopVerbs

\* What the commands do to the mounts, and how the drive's files and their changes stand
MountEffect ==
  /\ \A m \in Mnts, d \in {"nvme", "ublk"} :
       d \in mnt'[m] => d \in mnt[m] \/ (m = Mnt(wf) /\ Op[1] = "mount" /\ Op[2] = d)
  /\ \A m \in Mnts : "ublk" \in mnt'[m] =>
       ublk'[MntId(m)] = "live" \/ ublk[MntId(m)] # "live"
  /\ \A d \in {"nvme", "ublk"} :
       d \in mnt[Mnt(wf)] =>
         d \in mnt'[Mnt(wf)] \/ StopsServer \/ Op[1] \in {"qublk_del", "bind", "umount"}
  /\ Op[1] = "mount" => Op[2] \in mnt'[Mnt(wf)] /\ Device(Op[2])
  /\ Op[1] = "umount" /\ ~fault' => mnt'[Mnt(wf)] \cap {"nvme", "ublk"} = {}
  /\ Op[1] = "guard" => MountedAt("nvme") \subseteq (IF Op[2] = "none" THEN {} ELSE {Mnt(wf)})
  /\ Op[1] = "start" => mnt' = mnt

\* What the commands do to the files
FileEffect ==
  /\ dirty' /\ Op[1] # "fill" =>
       dirty /\ \A m \in Mnts, d \in {"nvme", "ublk"} : d \in mnt[m] => d \in mnt'[m]
  /\ Op[1] = "umount" /\ Op[2] = "own" /\ dirty' => mnt[Mnt(wf)] \cap {"nvme", "ublk"} = {}
  /\ Op[1] = "fill" => fs' = Mnt(wf) /\ mnt' = mnt /\ mnt[Mnt(wf)] \cap {"nvme", "ublk"} # {}
  /\ Op[1] = "mkfs" => fs' = "empty"
  /\ Op[1] \notin {"mkfs", "fill", "write"} =>
       fs' \in {fs, "damaged"} /\ (~dirty => fs' = fs /\ ~dirty')
  /\ fs' = fs \/ StopsServer \/ Op[1] \in {"mkfs", "fill", "write", "qublk_del", "bind"}
  /\ Op[1] = "bind" /\ (driver = Op[2] \/ (MountedAt("nvme") = {} /\ Holders = {})) => fs' = fs

\* What the command does not mount, format or write it only takes away.
LEMMA LostEffects ==
  ASSUME TypeOK, NEW hit, \A m \in Mnts : hit[m] \subseteq {"nvme", "ublk"}, LoseMounts(hit)
  PROVE  /\ \A m \in Mnts, d \in {"nvme", "ublk"} : d \in mnt'[m] => d \in mnt[m] /\ d \notin hit[m]
         /\ dirty' => dirty /\ \A m \in Mnts, d \in {"nvme", "ublk"} : d \in mnt[m] => d \in mnt'[m]
         /\ fs' \in {fs, "damaged"} /\ (~dirty => fs' = fs /\ ~dirty')
         /\ (\A m \in Mnts : mnt[m] \cap hit[m] = {}) => fs' = fs
<1>1. /\ mnt' = [m \in Mnts |->
                   IF mnt[m] \cap hit[m] # {} THEN (mnt[m] \ hit[m]) \cup {"dead"} ELSE mnt[m]]
      /\ IF dirty /\ \E m \in Mnts : mnt[m] \cap hit[m] # {}
           THEN fs' = "damaged" /\ dirty' = FALSE
           ELSE UNCHANGED <<fs, dirty>>
  BY DEF LoseMounts
<1>2. \A m \in Mnts, d \in {"nvme", "ublk"} : d \in mnt'[m] => d \in mnt[m] /\ d \notin hit[m]
  BY <1>1
<1>3. ASSUME dirty'
      PROVE  dirty /\ \A m \in Mnts, d \in {"nvme", "ublk"} : d \in mnt[m] => d \in mnt'[m]
  BY <1>1, <1>3
<1> QED
  BY <1>1, <1>2, <1>3

\* Stopping a unit on its own.
LEMMA StopEffects ==
  ASSUME TypeOK, DriveInv, NEW kind \in {"homi", "qublk"},
         (kind = "homi" /\ HomiStops(Id(wf))) \/ (kind = "qublk" /\ QublkStops(Id(wf)))
  PROVE  /\ \A m \in Mnts, d \in {"nvme", "ublk"} : d \in mnt'[m] => d \in mnt[m]
         /\ \A m \in Mnts : "ublk" \in mnt'[m] =>
              ublk'[MntId(m)] = "live" \/ ublk[MntId(m)] # "live"
         /\ dirty' => dirty /\ \A m \in Mnts, d \in {"nvme", "ublk"} : d \in mnt[m] => d \in mnt'[m]
         /\ fs' \in {fs, "damaged"} /\ (~dirty => fs' = fs /\ ~dirty')
<1>1. PICK hit \in {UblkMounts({Id(wf)}), NoMounts} :
        /\ LoseMounts(hit)
        /\ ublk[Id(wf)] = "live" => hit = UblkMounts({Id(wf)})
        /\ \A id \in Ids \ {Id(wf)} : ublk'[id] = ublk[id]
  BY DEF HomiStops, QublkStops, DriveInv, TypeOK, UnitOf, Id, Ids
<1>2. \A m \in Mnts : hit[m] \subseteq {"nvme", "ublk"}
  BY Hits
<1>3. \A m \in Mnts : MntId(m) \in Ids /\ (MntId(m) = Id(wf) => "ublk" \in UblkMounts({Id(wf)})[m])
  BY DEF MntId, Ids, UblkMounts
<1>4. ASSUME NEW m \in Mnts, "ublk" \in mnt'[m], ublk[MntId(m)] = "live"
      PROVE  ublk'[MntId(m)] = "live"
  BY <1>1, <1>2, <1>3, <1>4, LostEffects
<1> QED
  BY <1>1, <1>2, <1>4, LostEffects

\* The commands that leave drive, mounts and devices alone
Calm == Quiet \cup {"start"}

\* Mounts and files change by the commands named in MountEffect and FileEffect only.
LEMMA MountFileEffects ==
  ASSUME CommandDone, TypeOK, DriveInv, Op \in Commands
  PROVE  MountEffect /\ FileEffect
<1> USE DEF StopsServer
<1>1. Mnt(wf) \in Mnts /\ Id(wf) \in Ids /\ \A m \in Mnts : MntId(m) \in Ids
  BY Names
<1>2. CASE Op[1] \in Calm
  <2>1. UNCHANGED <<fs, dirty, mnt>> /\ (Op[1] = "guard" => GuardPasses)
    BY <1>2 DEF CommandDone, Calm, Quiet, RmShm, Guard, Configured, Check, Load, driveVars,
       Start
  <2>2. \A id \in Ids : ublk[id] = "live" => ublk'[id] = "live"
    BY <1>1, <1>2 DEF CommandDone, Calm, Quiet, RmShm, Guard, Configured, Check, Load,
       driveVars, Start, TypeOK
  <2> QED
    BY <1>1, <1>2, <2>1, <2>2 DEF MountEffect, FileEffect, Calm, Quiet, StopVerbs,
       GuardPasses, Arg
<1>3. CASE Op[1] = "umount"
  <2>1. CASE UmountBusy /\ Arg = "try"
    <3>1. UNCHANGED <<driveVars, unitVars>> /\ fault' /\ Op[2] # "own"
      BY <2>1 DEF UmountBusy, Strikes, Arg
    <3> QED
      BY <1>3, <3>1 DEF MountEffect, FileEffect, StopVerbs, driveVars
  <2>2. CASE Umount
    BY <1>1, <1>3, <2>2 DEF Umount, MountEffect, FileEffect, StopVerbs, TypeOK
  <2> QED
    BY <1>3, <2>1, <2>2 DEF CommandDone
<1>4. CASE Op[1] = "stop_units"
  <2>1. QublkStops(Id(wf))
    BY <1>4 DEF CommandDone, StopUnits
  <2> QED
    BY <1>4, <2>1, StopEffects DEF MountEffect, FileEffect
<1>5. CASE Op[1] = "qublk_del"
  <2>1. LoseMounts(UblkMounts({Id(wf)})) /\ ublk' = [ublk EXCEPT ![Id(wf)] = "none"]
    BY <1>5 DEF CommandDone, QublkDel
  <2>2. \A m \in Mnts : MntId(m) = Id(wf) => "ublk" \in UblkMounts({Id(wf)})[m]
    BY DEF UblkMounts
  <2>3. ASSUME NEW m \in Mnts, "ublk" \in mnt'[m], ublk[MntId(m)] = "live"
        PROVE  ublk'[MntId(m)] = "live"
    BY <1>1, <2>1, <2>2, <2>3, LostEffects, Hits DEF TypeOK
  <2> QED
    BY <1>5, <2>1, <2>3, LostEffects, Hits DEF MountEffect, FileEffect, StopVerbs
<1>6. CASE Op[1] = "bind"
  <2> DEFINE ids == {u[2] : u \in IF driver # Op[2] THEN Holders ELSE {}}
  <2>1. /\ ublk' = [id \in Ids |-> IF id \in ids /\ ublk[id] = "live" THEN "dead" ELSE ublk[id]]
        /\ LoseMounts(IF driver = Op[2] THEN NoMounts
                      ELSE IF driver = "nvme" THEN NvmeMounts ELSE UblkMounts(ids))
    BY <1>6 DEF CommandDone, Bind, Arg
  <2>2. PICK hit \in {NoMounts, NvmeMounts, UblkMounts(ids)} :
          /\ LoseMounts(hit)
          /\ \/ driver = Op[2] /\ hit = NoMounts
             \/ driver # Op[2] /\ driver = "nvme" /\ hit = NvmeMounts
             \/ driver # Op[2] /\ hit = UblkMounts(ids)
    BY <2>1
  <2>3. \A m \in Mnts : hit[m] \subseteq {"nvme", "ublk"}
    BY <2>2, Hits
  <2>4. driver = Op[2] \/ driver = "nvme" => ids = {}
    BY <1>1 DEF DriveInv, Holders
  <2>5. \A m \in Mnts : MntId(m) \in ids => "ublk" \in UblkMounts(ids)[m]
    BY DEF UblkMounts
  <2>6. driver = Op[2] \/ driver = "nvme" \/ hit = UblkMounts(ids)
    BY <2>1, <2>2
  <2>7. driver = Op[2] \/ (MountedAt("nvme") = {} /\ Holders = {}) =>
          \A m \in Mnts : mnt[m] \cap hit[m] = {}
    BY <2>2 DEF NoMounts, NvmeMounts, UblkMounts, MountedAt
  <2> HIDE DEF ids
  <2>8. ASSUME NEW m \in Mnts, "ublk" \in mnt'[m], ublk[MntId(m)] = "live"
        PROVE  ublk'[MntId(m)] = "live"
    <3>1. MntId(m) \notin ids
      BY <2>2, <2>3, <2>4, <2>5, <2>6, <2>8, LostEffects
    <3> QED
      BY <1>1, <2>1, <2>8, <3>1
  <2> QED
    BY <1>6, <2>2, <2>3, <2>7, <2>8, LostEffects DEF MountEffect, FileEffect, StopVerbs
<1>7. CASE Op[1] \in StopVerbs
  <2>1. UnitStops(Op[2]) /\ Op[2] \in {"homi", "qublk", "xal"}
    BY <1>7, ArgTypes DEF CommandDone, Stop, SystemctlStop, StopResult, StopVerbs, Arg
  <2>2. CASE Op[2] = "xal"
    BY <1>7, <2>1, <2>2 DEF MountEffect, FileEffect, StopVerbs, UnitStops
  <2>3. CASE Op[2] # "xal"
    <3>1. (Op[2] = "homi" /\ HomiStops(Id(wf))) \/ (Op[2] = "qublk" /\ QublkStops(Id(wf)))
      BY <2>1, <2>3 DEF UnitStops
    <3> QED
      BY <1>7, <2>1, <2>3, <3>1, StopEffects DEF MountEffect, FileEffect, StopVerbs
  <2> QED
    BY <2>2, <2>3
<1>8. CASE Op[1] \in {"mkfs", "fill", "write"}
  <2>1. mnt' = mnt /\ ublk' = ublk
    BY <1>8 DEF CommandDone, Mkfs, Fill, Write, StopVerbs
  <2>2. MountEffect
    BY <1>8, <2>1 DEF MountEffect, StopVerbs
  <2>3. /\ Op[1] = "mkfs" => fs' = "empty" /\ dirty' = FALSE
        /\ Op[1] = "fill" => fs' = Mnt(wf) /\ mnt[Mnt(wf)] \cap {"nvme", "ublk"} # {}
        /\ Op[1] = "write" => dirty' = dirty
    BY <1>8 DEF CommandDone, Mkfs, Fill, CanFill, Write
  <2> QED
    BY <1>8, <2>1, <2>2, <2>3 DEF FileEffect, StopVerbs
<1>9. CASE Op[1] = "mount"
  <2>1. /\ mnt' = [mnt EXCEPT ![Mnt(wf)] = @ \cup {Op[2]}] /\ Device(Op[2])
        /\ UNCHANGED <<fs, dirty, ublk>> /\ Op[2] \in {"nvme", "ublk"}
    BY <1>9, ArgTypes DEF CommandDone, Mount, CanMount, Arg
  <2>2. FileEffect
    BY <1>1, <1>9, <2>1 DEF FileEffect, StopVerbs, TypeOK
  <2>3. MountEffect
    BY <1>1, <1>9, <2>1 DEF MountEffect, StopVerbs, TypeOK
  <2> QED
    BY <2>2, <2>3
<1> QED
  BY <1>2, <1>3, <1>4, <1>5, <1>6, <1>7, <1>8, <1>9 DEF CommandDone, Calm, Quiet, StopVerbs

\* What the commands do to the indexes
StartsXal == Op[1] = "start" /\ Op[2] = "xal"
StopsXal  == Op[1] = "stop_units" \/ (Op[1] \in StopVerbs /\ Op[2] = "xal")

IndexEffect ==
  /\ \A m \in Mnts : shm'[m] = "stale" =>
       shm[m] = "stale" \/ Op[1] \in {"mkfs", "fill", "write"} \/ (StartsXal /\ dirty)
  /\ StartsXal => Servable /\ shm'[conf] = IF dirty THEN "stale" ELSE "complete"
  /\ shm[Mnt(wf)] # "none" => shm'[Mnt(wf)] # "none" \/ StopsXal \/ Op[1] = "rm_shm"
  /\ shm[Mnt(wf)] = "none" => shm'[Mnt(wf)] = "none" \/ StartsXal
  /\ Op[1] = "stop" /\ Op[2] = "xal" /\ conf = Mnt(wf) => shm'[Mnt(wf)] = "none"

\* An index is made by xal-server and outdated by what writes on the drive.
LEMMA IndexEffects ==
  ASSUME CommandDone, TypeOK, Op \in Commands
  PROVE  IndexEffect
<1> USE DEF StartsXal, StopsXal
<1>1. Mnt(wf) \in Mnts /\ UnitOf("xal", wf) = <<"xal", 0>>
  BY DEF Mnt, Mnts, UnitOf
<1>2. CASE Op[1] \in {"guard", "conf", "check", "load", "umount", "bind", "qublk_del", "mount"}
  <2>1. shm' = shm
    BY <1>2 DEF CommandDone, Umount, UmountBusy, QublkDel, Guard, Bind, Mount, Configured,
       Check, Load, unitVars
  <2> QED
    BY <1>2, <2>1 DEF IndexEffect, StopVerbs
<1>3. CASE Op[1] = "rm_shm"
  BY <1>1, <1>3 DEF CommandDone, RmShm, IndexEffect, StopVerbs, TypeOK
<1>4. CASE Op[1] = "stop_units"
  <2>1. XalStops
    BY <1>4 DEF CommandDone, StopUnits
  <2> QED
    BY <1>1, <1>4, <2>1 DEF XalStops, IndexEffect, StopVerbs, TypeOK
<1>5. CASE Op[1] = "start"
  BY <1>1, <1>5 DEF CommandDone, Start, CanStart, Arg, Indexed, Servable, IndexEffect,
     StopVerbs, TypeOK
<1>6. CASE Op[1] \in StopVerbs
  <2>1. UnitStops(Op[2]) /\ Op[2] \in {"homi", "qublk", "xal"}
    BY <1>6, ArgTypes DEF CommandDone, Stop, SystemctlStop, StopResult, StopVerbs, Arg
  <2>2. Op[1] = "stop" => UnitOf(Op[2], wf) \in up \/ EndedWell(Op[2])
    BY <1>6 DEF CommandDone, Arg
  <2>3. CASE Op[2] = "xal"
    <3>1. XalStops
      BY <2>1, <2>3 DEF UnitStops
    <3> QED
      BY <1>1, <1>6, <2>2, <2>3, <3>1 DEF XalStops, IndexEffect, StopVerbs, EndedWell, TypeOK
  <2>4. CASE Op[2] # "xal"
    <3>1. shm' = shm
      BY <2>1, <2>4 DEF UnitStops
    <3> QED
      BY <1>6, <2>4, <3>1 DEF IndexEffect, StopVerbs
  <2> QED
    BY <2>3, <2>4
<1>7. CASE Op[1] \in {"mkfs", "fill", "write"}
  <2>1. shm' = Outdated
    BY <1>7 DEF CommandDone, Mkfs, Fill, Write
  <2> QED
    BY <1>1, <1>7, <2>1 DEF Outdated, IndexEffect, StopVerbs
<1> QED
  BY <1>2, <1>3, <1>4, <1>5, <1>6, <1>7 DEF CommandDone, StopVerbs

-----------------------------------------------------------------------------
(* What a run knows: its commands so far *)

\* The run has done one of G, and none of L since then.
Since(G, L) ==
  \E j \in 1..Passed : /\ Program(wf)[j] \in G
                       /\ \A k \in (j + 1)..Passed : Program(wf)[k] \notin L

\* A command that succeeds brings what follows G, or keeps it if it is not one of L.
LEMMA SinceNext ==
  ASSUME IInv, Running, StepOn, NEW G, NEW L
  PROVE  Since(G, L)' => Op \in G \/ (Since(G, L) /\ Op \notin L)
<1>1. /\ wf' = wf /\ Passed' = pc /\ Passed = pc - 1
      /\ pc \in 1..Len(Program(wf)) /\ Len(Program(wf)) \in Nat
  BY NextCommand, AtCommand DEF IInv
<1>2. SUFFICES ASSUME NEW j \in 1..pc, Program(wf)[j] \in G,
                      \A k \in (j + 1)..pc : Program(wf)[k] \notin L
               PROVE  Op \in G \/ (Since(G, L) /\ Op \notin L)
  BY <1>1 DEF Since
<1>3. CASE j = pc
  BY <1>2, <1>3 DEF Op
<1>4. CASE j # pc
  <2>1. j \in 1..(pc - 1) /\ pc \in (j + 1)..pc /\ (j + 1)..(pc - 1) \subseteq (j + 1)..pc
    BY <1>1, <1>4
  <2> QED
    BY <1>1, <1>2, <2>1 DEF Op, Since
<1> QED
  BY <1>3, <1>4

\* What a command that is Ready needs has been brought and not been taken away.
LEMMA SinceReady ==
  ASSUME IInv, Running, NEW G, NEW L, NEW N, Ready(Program(wf), G, L, N), Op \in N
  PROVE  Since(G, L)
<1>1. pc \in 1..Len(Program(wf)) /\ Passed = pc - 1
  BY AtCommand DEF IInv, Passed, Running
<1> QED
  BY <1>1 DEF Ready, Since, Op

\* A run keeps its past while others act.
LEMMA SinceStays ==
  ASSUME UNCHANGED <<wf, pc, outcome>>, NEW G, NEW L
  PROVE  Since(G, L)' = Since(G, L)
  BY DEF Since, Passed

\* A run that begins has no past.
LEMMA SinceBegin ==
  ASSUME outcome' = "running", pc' = 1, NEW G, NEW L
  PROVE  ~Since(G, L)'
<1>1. 1..Passed' = {}
  BY DEF Passed
<1> QED
  BY <1>1 DEF Since

\* A run that has ended well has left what its program leaves.
LEMMA SinceEnd ==
  ASSUME outcome = "ok", pc = Len(Program(wf)), NEW G, NEW L, Leaves(Program(wf), G, L)
  PROVE  Since(G, L)
  BY DEF Since, Leaves, Passed

\* The sets of AisioPrograms, by the two parts of a command.
LEMMA OpIs ==
  ASSUME NEW c \in Commands
  PROVE  /\ \A verbs : c \in Verb(verbs) <=> c[1] \in verbs
         /\ \A verbs, args : c \in Cmd(verbs, args) <=> c[1] \in verbs /\ c[2] \in args
         /\ \A kind : /\ c \in Starts(kind) <=> c[1] = "start" /\ c[2] = kind
                      /\ c \in StopsOf(kind) <=>
                           c[1] = "stop_units" \/ (c[1] \in StopVerbs /\ c[2] = kind)
                      /\ c \in Downs(kind) <=> \/ c[1] \in {"stop_units", "bind"}
                                               \/ c[1] \in StopVerbs /\ c[2] = kind
                      /\ c \in Mounts(kind) <=> c[1] = "mount" /\ c[2] = kind
                      /\ c \in Binds(kind) <=> c[1] = "bind" /\ c[2] = kind
         /\ c \in Guards <=> c[1] = "guard"
         /\ c \in Confs <=> c[1] = "conf"
         /\ c \in XalStop <=> c[1] = "stop" /\ c[2] = "xal"
         /\ c \in Losers <=> \/ c[1] \in {"stop_units", "qublk_del", "bind"}
                             \/ c[1] \in StopVerbs /\ c[2] \in {"homi", "qublk"}
         /\ c \in Unmounts <=> c \in Losers \/ c[1] = "umount"
         /\ c \in Emptiers <=> \/ c[1] \in {"stop_units", "qublk_del", "mkfs", "write"}
                               \/ c[1] \in StopVerbs /\ c[2] \in {"homi", "qublk"}
         /\ c \in Unindexes <=> \/ c[1] \in {"stop_units", "rm_shm"}
                                \/ c[1] \in StopVerbs /\ c[2] = "xal"
         /\ c \in Changes <=> c[1] \in {"mkfs", "fill", "write"}
         /\ c \in UblkEnds <=> \/ c[1] \in {"stop_units", "qublk_del"}
                               \/ c[1] \in StopVerbs /\ c[2] = "qublk"
         /\ c \in UblkMoves <=> \/ c[1] = "stop_units"
                                \/ c[1] \in StopVerbs \cup {"start"} /\ c[2] = "qublk"
         /\ c \in OffNvme <=> c[1] = "umount" \/ (c[1] = "guard" /\ c[2] = "none")
         /\ c \in OffUblk <=> c[1] = "umount" \/ (c[1] = "start" /\ c[2] = "qublk")
<1> USE DEF Verb, Cmd
<1>1. /\ \A verbs : c \in Verb(verbs) <=> c[1] \in verbs
      /\ \A verbs, args : c \in Cmd(verbs, args) <=> c[1] \in verbs /\ c[2] \in args
  OBVIOUS
<1> USE DEF StopVerbs
<1>2. \A kind : /\ c \in Starts(kind) <=> c[1] = "start" /\ c[2] = kind
                /\ c \in StopsOf(kind) <=>
                     c[1] = "stop_units" \/ (c[1] \in StopVerbs /\ c[2] = kind)
                /\ c \in Downs(kind) <=> \/ c[1] \in {"stop_units", "bind"}
                                         \/ c[1] \in StopVerbs /\ c[2] = kind
                /\ c \in Mounts(kind) <=> c[1] = "mount" /\ c[2] = kind
                /\ c \in Binds(kind) <=> c[1] = "bind" /\ c[2] = kind
  BY DEF Starts, StopsOf, Downs, Mounts, Binds
<1>3. /\ c \in Guards <=> c[1] = "guard"
      /\ c \in Confs <=> c[1] = "conf"
      /\ c \in XalStop <=> c[1] = "stop" /\ c[2] = "xal"
      /\ c \in Changes <=> c[1] \in {"mkfs", "fill", "write"}
  BY DEF Guards, Confs, XalStop, Changes
<1>4. /\ c \in Losers <=> \/ c[1] \in {"stop_units", "qublk_del", "bind"}
                          \/ c[1] \in StopVerbs /\ c[2] \in {"homi", "qublk"}
      /\ c \in Unmounts <=> c \in Losers \/ c[1] = "umount"
  BY DEF Losers, Unmounts, StopsOf
<1>5. /\ c \in Emptiers <=> \/ c[1] \in {"stop_units", "qublk_del", "mkfs", "write"}
                            \/ c[1] \in StopVerbs /\ c[2] \in {"homi", "qublk"}
      /\ c \in Unindexes <=> \/ c[1] \in {"stop_units", "rm_shm"}
                             \/ c[1] \in StopVerbs /\ c[2] = "xal"
  BY DEF Emptiers, Unindexes, StopsOf
<1>6. /\ c \in UblkEnds <=> \/ c[1] \in {"stop_units", "qublk_del"}
                            \/ c[1] \in StopVerbs /\ c[2] = "qublk"
      /\ c \in UblkMoves <=> \/ c[1] = "stop_units"
                             \/ c[1] \in StopVerbs \cup {"start"} /\ c[2] = "qublk"
      /\ c \in OffNvme <=> c[1] = "umount" \/ (c[1] = "guard" /\ c[2] = "none")
      /\ c \in OffUblk <=> c[1] = "umount" \/ (c[1] = "start" /\ c[2] = "qublk")
  BY DEF UblkEnds, UblkMoves, OffNvme, OffUblk, StopsOf, Starts
<1> QED
  BY <1>1, <1>2, <1>3, <1>4, <1>5, <1>6

-----------------------------------------------------------------------------
(* What a run knows: the invariant *)

\* A ublk device is mounted where its id is and only while it is live, and changes that
\* are not on the drive are those of a mount.
MountInv ==
  /\ "ublk" \notin mnt["root"]
  /\ \A m \in Mnts : "ublk" \in mnt[m] => ublk[MntId(m)] = "live"
  /\ dirty => \E m \in Mnts : "nvme" \in mnt[m] \/ ("ublk" \in mnt[m] /\ MntId(m) = 1)

Going == outcome \in {"running", "ok"}
M     == Mnt(wf)
U(kind) == UnitOf(kind, wf)

\* What a run that goes on, or has ended well, has left: the configuration, and no live
\* ublk device behind a stopped qublk.
Settled ==
  /\ Since(Confs, {}) => conf = M
  /\ wf = "aisio" => conf = "datasets"
  /\ Since(UblkEnds, Starts("qublk")) => ublk[Id(wf)] # "live"

\* What holds in any run at its commands
HomiDown == Since(StopsOf("homi"), Starts("homi")) => U("homi") \notin up

DriverIs ==
  /\ Since(Binds("nvme"), Binds("user")) => driver = "nvme"
  /\ Since(Binds("user"), Binds("nvme")) => driver = "user"

\* What the run has written is saved once it has unmounted it.
Saved ==
  Since(Verb({"fill"}), {}) =>
    /\ dirty => mnt[M] \cap {"nvme", "ublk"} # {}
    /\ Since(Cmd({"umount"}, {"own"}), Verb({"fill"})) => ~dirty

\* A file system that was made can be mounted.
Usable == Since(Verb({"mkfs"}), Verb({"write"})) => fs # "junk"

\* There is no ublk device once it is deleted, and a new one is mounted nowhere.
NewDevice ==
  /\ Since(Verb({"qublk_del"}), UblkMoves) => ublk[Id(wf)] = "none"
  /\ Since(Starts("qublk"), Mounts("ublk")) =>
       \A m \in Mnts : MntId(m) = Id(wf) => "ublk" \notin mnt[m]

\* The index is complete from the start of xal-server on, as long as nothing is written.
Fresh == Since(Starts("xal"), Changes) => ~dirty /\ conf = M /\ shm[M] # "stale"

\* What bench_aisio and setup_dataset find
Found ==
  /\ wf = "aisio" => /\ driver = "user" /\ fs = "datasets" /\ ~dirty
                     /\ pc <= 2 => ublk[1] # "live"
  /\ wf = "dataset" => driver = "nvme"

Known == HomiDown /\ DriverIs /\ Saved /\ Usable /\ NewDevice /\ Fresh /\ Found

\* What holds in a run without a fault: nothing of the drive is mounted elsewhere, nor
\* at the run's mountpoint once it has unmounted it.
Free ==
  /\ Since(Guards, {}) => MountedAt("nvme") \subseteq {M}
  /\ Since(OffNvme, Mounts("nvme")) => "nvme" \notin mnt[M]
  /\ Since(OffUblk, Mounts("ublk")) => "ublk" \notin mnt[M]

\* What holds in a run without a fault that began with no units of the other id: what it
\* brought is there until it takes it away.
Served ==
  /\ up \subseteq Own(wf)
  /\ \A kind \in Kinds : Since(Starts(kind), Downs(kind)) => U(kind) \in up \ died
  /\ Since(Starts("qublk"), Losers) => ublk[Id(wf)] = "live"
  /\ \A d \in {"nvme", "ublk"} : Since(Mounts(d), Unmounts) => d \in mnt[M]
  /\ Since(Verb({"mount"}), Unmounts) => mnt[M] \cap {"nvme", "ublk"} # {}
  /\ Since(Verb({"fill"}), Emptiers) => fs = M
  /\ Since(Starts("xal"), Unindexes) => shm[M] # "none"
  /\ Since(XalStop, Starts("xal")) => shm[M] = "none"

KnowInv ==
  /\ MountInv
  /\ Going => Settled
  /\ Running => Known
  /\ Running /\ ~fault => Free
  /\ Running /\ ~fault /\ ~foreign => Served

-----------------------------------------------------------------------------
(* What a run knows: its commands keep it *)

Effects == UnitEffect /\ UblkEffect /\ MountEffect /\ FileEffect /\ IndexEffect

\* A run that goes on: its command has had its effects, on the same names.
LEMMA GoesEffects ==
  ASSUME IInv, Goes
  PROVE  /\ Effects /\ CommandDone /\ TypeOK /\ DriveInv /\ Running /\ Going
         /\ Op \in Commands /\ wf \in Workflows
         /\ wf' = wf /\ M' = M /\ \A kind : U(kind)' = U(kind)
         /\ foreign' = foreign /\ (fault => fault') /\ Going'
         /\ M \in Mnts /\ M # "root" /\ Id(wf) \in Ids /\ MntId(M) = Id(wf)
<1>1. /\ CommandDone /\ TypeOK /\ DriveInv /\ Op \in Commands /\ wf \in Workflows /\ wf' = wf
      /\ outcome' \in {"ok", "running"} /\ Running
  BY GoesDone DEF Goes
<1>2. Effects
  BY <1>1, UnitEffects, UblkEffects, MountFileEffects, IndexEffects DEF Effects
<1>3. foreign' = foreign /\ (fault => fault')
  <2>1. CASE Op[1] \in {"umount", "stop_units", "qublk_del", "rm_shm", "guard", "bind", "start"}
    BY <1>1, <2>1 DEF CommandDone, Umount, UmountBusy, Strikes, StopUnits, QublkDel, RmShm,
       Guard, Bind, Start,
       Advance, histVars
  <2>2. CASE Op[1] \in StopVerbs
    BY <1>1, <2>2 DEF CommandDone, StopVerbs, Stop, SystemctlStop, StopResult, Advance,
       histVars
  <2>3. CASE Op[1] \in {"mkfs", "mount", "fill", "write", "conf", "check", "load"}
    BY <1>1, <2>3 DEF CommandDone, Mkfs, Mount, Fill, Write, Configured, Check, Load,
       Advance, histVars
  <2> QED
    BY <1>1, <2>1, <2>2, <2>3 DEF CommandDone, StopVerbs
<1>4. M' = M /\ (\A kind : U(kind)' = U(kind))
  BY <1>1 DEF M, U
<1>5. M \in Mnts /\ M # "root" /\ Id(wf) \in Ids /\ MntId(M) = Id(wf)
  BY DEF M, Mnt, Mnts, MntId, Id, Ids
<1> QED
  BY <1>1, <1>2, <1>3, <1>4, <1>5 DEF Going, Running

\* What the run's command needs has been brought, by what the workflow is.
LEMMA Needs ==
  ASSUME IInv, Running
  PROVE  /\ Careful(Program(wf)) /\ Serves(Program(wf))
         /\ wf # "aisio" => Makes(Program(wf))
         /\ wf # "dataset" => Kernel(Program(wf))
         /\ wf = "llama" => FillsNvme(Program(wf))
  BY ProgramOrder DEF IInv, RunInv

\* The configuration, and no ublk device.
LEMMA SettledNext ==
  ASSUME IInv, KnowInv, Goes
  PROVE  Settled'
<1>1. /\ Effects /\ Running /\ Op \in Commands /\ wf' = wf /\ M' = M /\ Settled
      /\ StepOn /\ wf \in Workflows
  BY GoesEffects DEF KnowInv, Goes
<1>2. (Since(Confs, {}) => conf = M)'
  <2>1. Since(Confs, {})' => Op \in Confs \/ Since(Confs, {})
    BY <1>1, SinceNext
  <2> QED
    BY <1>1, <2>1, OpIs DEF Settled, Effects, UnitEffect, M
<1>3. (wf = "aisio" => conf = "datasets")'
  <2>1. wf = "aisio" => M = "datasets"
    BY DEF M, Mnt
  <2> QED
    BY <1>1, <2>1 DEF Settled, Effects, UnitEffect, M
<1>4. (Since(UblkEnds, Starts("qublk")) => ublk[Id(wf)] # "live")'
  <2>1. Since(UblkEnds, Starts("qublk"))' =>
          Op \in UblkEnds \/ (Since(UblkEnds, Starts("qublk")) /\ Op \notin Starts("qublk"))
    BY <1>1, SinceNext
  <2>2. Id(wf) \in Ids
    BY GoesEffects
  <2>3. Op \in UblkEnds => ublk'[Id(wf)] # "live"
    BY <1>1, OpIs DEF Effects, UblkEffect, StopsQublk
  <2>4. Op \notin Starts("qublk") => ~StartsQublk
    BY <1>1, OpIs DEF StartsQublk
  <2> QED
    BY <1>1, <2>1, <2>2, <2>3, <2>4 DEF Settled, Effects, UblkEffect
<1> QED
  BY <1>2, <1>3, <1>4 DEF Settled

\* The mounts. A model that bench_llama_load fills is on the namespace.
LEMMA MountNext ==
  ASSUME IInv, KnowInv, Goes
  PROVE  MountInv'
<1>1. /\ Effects /\ Running /\ Op \in Commands /\ M \in Mnts /\ M # "root" /\ MntId(M) = Id(wf)
      /\ MountInv /\ Settled /\ TypeOK /\ "root" \in Mnts /\ Id(wf) \in Ids
      /\ \A m \in Mnts : MntId(m) \in Ids
  BY GoesEffects, Names DEF KnowInv, Mnts
<1>2. "ublk" \notin mnt'["root"]
  BY <1>1 DEF MountInv, Effects, MountEffect, M
<1>3. ASSUME NEW m \in Mnts, "ublk" \in mnt'[m]
      PROVE  ublk'[MntId(m)] = "live"
  <2>1. CASE "ublk" \in mnt[m]
    BY <1>1, <1>3, <2>1 DEF MountInv, Effects, MountEffect
  <2>2. CASE "ublk" \notin mnt[m]
    <3>1. m = M /\ Op[1] = "mount" /\ Op[2] = "ublk"
      BY <1>1, <1>3, <2>2 DEF Effects, MountEffect, M
    <3>2. ublk[Id(wf)] = "live"
      BY <1>1, <3>1 DEF Effects, MountEffect, Device
    <3> QED
      BY <1>1, <1>3, <3>1, <3>2 DEF Effects, MountEffect
  <2> QED
    BY <2>1, <2>2
<1>4. ASSUME dirty'
      PROVE  \E m \in Mnts : "nvme" \in mnt'[m] \/ ("ublk" \in mnt'[m] /\ MntId(m) = 1)
  <2>1. CASE Op[1] # "fill"
    BY <1>1, <1>4, <2>1 DEF MountInv, Effects, FileEffect
  <2>2. CASE Op[1] = "fill"
    <3>1. mnt' = mnt /\ mnt[M] \cap {"nvme", "ublk"} # {}
      BY <1>1, <2>2 DEF Effects, FileEffect, M
    <3>2. CASE wf # "llama"
      <4>1. MntId(M) = 1
        BY <1>1, <3>2 DEF Id
      <4> QED
        BY <1>1, <3>1, <4>1
    <3>3. CASE wf = "llama"
      <4>1. Ready(Program(wf), Verb({"qublk_del"}), Starts("qublk"), Verb({"fill"}))
        BY <1>1, <3>3, Needs DEF FillsNvme
      <4>2. Op \in Verb({"fill"})
        BY <1>1, <2>2 DEF Verb
      <4>3. Since(Verb({"qublk_del"}), Starts("qublk"))
        BY <1>1, <4>1, <4>2, SinceReady
      <4>4. Verb({"qublk_del"}) \subseteq UblkEnds
        BY DEF UblkEnds
      <4>5. Since(UblkEnds, Starts("qublk"))
        BY <4>3, <4>4 DEF Since
      <4>6. "ublk" \notin mnt[M]
        BY <1>1, <4>5 DEF Settled, MountInv
      <4> QED
        BY <1>1, <3>1, <4>6
    <3> QED
      BY <3>2, <3>3
  <2> QED
    BY <2>1, <2>2
<1> QED
  BY <1>2, <1>3, <1>4 DEF MountInv

\* When xal-server is started, everything the run has written is on the drive, and the
\* configuration names the run's mountpoint.
LEMMA ReadyToIndex ==
  ASSUME IInv, KnowInv, Running, Op \in Starts("xal")
  PROVE  ~dirty /\ conf = M
<1>1. Settled /\ Known
  BY DEF KnowInv, Going, Running
<1>2. CASE wf = "aisio"
  BY <1>1, <1>2 DEF Settled, Known, Found, M, Mnt
<1>3. CASE wf # "aisio"
  <2>1. Since(Confs, {}) /\ Since(Verb({"fill"}), {})
    BY <1>3, Needs, SinceReady DEF Makes
  <2>2. Since(Cmd({"umount"}, {"own"}), Verb({"fill"}))
    BY <1>3, Needs, SinceReady DEF Makes
  <2> QED
    BY <1>1, <2>1, <2>2 DEF Settled, Known, Saved
<1> QED
  BY <1>2, <1>3

\* What a run knows whatever happens beside it.
LEMMA KnownNext ==
  ASSUME IInv, KnowInv, Goes
  PROVE  (Running => Known)'
<1>1. /\ Effects /\ Running /\ Op \in Commands /\ wf' = wf /\ M' = M /\ U("homi")' = U("homi")
      /\ Known /\ Settled /\ MountInv /\ StepOn /\ wf \in Workflows /\ TypeOK /\ Going'
      /\ M \in Mnts /\ Id(wf) \in Ids
  BY GoesEffects DEF KnowInv, Goes
<1>2. HomiDown'
  <2>1. Since(StopsOf("homi"), Starts("homi"))' =>
          Op \in StopsOf("homi") \/ (Since(StopsOf("homi"), Starts("homi")) /\ Op \notin Starts("homi"))
    BY <1>1, SinceNext
  <2>2. ASSUME Op \in StopsOf("homi")
        PROVE  U("homi") \notin up'
    <3>1. U("homi") \in Own(wf)
      BY DEF U, Own
    <3> QED
      BY <1>1, <2>2, <3>1, OpIs DEF Effects, UnitEffect, U
  <2>3. ASSUME Op \notin Starts("homi"), U("homi") \notin up
        PROVE  U("homi") \notin up'
    <3>1. Op[1] = "start" => Op[2] \in {"homi", "qublk", "xal"}
      BY <1>1, ArgTypes
    <3>2. Op[1] = "start" => U("homi") # UnitOf(Op[2], wf)
      BY <1>1, <2>3, <3>1, OpIs, Names DEF U
    <3> QED
      BY <1>1, <2>3, <3>2 DEF Effects, UnitEffect
  <2> QED
    BY <1>1, <2>1, <2>2, <2>3 DEF Known, HomiDown
<1>3. DriverIs'
  <2>1. /\ Since(Binds("nvme"), Binds("user"))' =>
             Op \in Binds("nvme") \/ (Since(Binds("nvme"), Binds("user")) /\ Op \notin Binds("user"))
        /\ Since(Binds("user"), Binds("nvme"))' =>
             Op \in Binds("user") \/ (Since(Binds("user"), Binds("nvme")) /\ Op \notin Binds("nvme"))
    BY <1>1, SinceNext
  <2>2. Op[1] = "bind" => Op[2] \in {"nvme", "user"}
    BY <1>1, ArgTypes
  <2> QED
    BY <1>1, <2>1, <2>2, OpIs DEF Effects, UnitEffect, Known, DriverIs
<1>4. Saved'
  <2>1. Since(Verb({"fill"}), {})' => Op[1] = "fill" \/ Since(Verb({"fill"}), {})
    BY <1>1, SinceNext, OpIs
  <2>2. Since(Cmd({"umount"}, {"own"}), Verb({"fill"}))' =>
          \/ Op[1] = "umount" /\ Op[2] = "own"
          \/ Since(Cmd({"umount"}, {"own"}), Verb({"fill"})) /\ Op[1] # "fill"
    <3>1. Op \in Cmd({"umount"}, {"own"}) => Op[1] = "umount" /\ Op[2] = "own"
      BY DEF Cmd
    <3>2. Op \notin Verb({"fill"}) => Op[1] # "fill"
      BY <1>1 DEF Verb
    <3> QED
      BY <1>1, <3>1, <3>2, SinceNext
  <2>3. Op[1] # "fill" /\ dirty' =>
          dirty /\ \A d \in {"nvme", "ublk"} : d \in mnt[M] => d \in mnt'[M]
    BY <1>1 DEF Effects, FileEffect
  <2>4. Op[1] = "fill" => mnt'[M] \cap {"nvme", "ublk"} # {}
    BY <1>1 DEF Effects, FileEffect, M
  <2>5. Op[1] = "umount" /\ Op[2] = "own" /\ dirty' => mnt[M] \cap {"nvme", "ublk"} = {}
    BY <1>1 DEF Effects, FileEffect, M
  <2>6. Saved
    BY <1>1 DEF Known
  <2>7. ASSUME Since(Verb({"fill"}), {})', dirty'
        PROVE  (mnt[M])' \cap {"nvme", "ublk"} # {}
    BY <1>1, <2>1, <2>3, <2>4, <2>6, <2>7 DEF Saved
  <2>8. ASSUME Since(Verb({"fill"}), {})', Since(Cmd({"umount"}, {"own"}), Verb({"fill"}))'
        PROVE  ~dirty'
    BY <1>1, <2>1, <2>2, <2>3, <2>5, <2>6, <2>8 DEF Saved
  <2> QED
    BY <2>7, <2>8 DEF Saved
<1>5. Usable'
  <2>1. Since(Verb({"mkfs"}), Verb({"write"}))' =>
          Op \in Verb({"mkfs"}) \/ (Since(Verb({"mkfs"}), Verb({"write"})) /\ Op \notin Verb({"write"}))
    BY <1>1, SinceNext
  <2>2. Op \in Verb({"mkfs"}) => Op[1] = "mkfs"
    BY DEF Verb
  <2>3. Op \notin Verb({"write"}) => Op[1] # "write"
    BY <1>1 DEF Verb
  <2>4. M # "junk"
    BY DEF M, Mnt
  <2> QED
    BY <1>1, <2>1, <2>2, <2>3, <2>4 DEF Effects, FileEffect, Known, Usable, M
<1>6. NewDevice'
  <2>1. Since(Verb({"qublk_del"}), UblkMoves)' =>
          Op \in Verb({"qublk_del"}) \/ (Since(Verb({"qublk_del"}), UblkMoves) /\ Op \notin UblkMoves)
    BY <1>1, SinceNext
  <2>2. Since(Starts("qublk"), Mounts("ublk"))' =>
          Op \in Starts("qublk") \/ (Since(Starts("qublk"), Mounts("ublk")) /\ Op \notin Mounts("ublk"))
    BY <1>1, SinceNext
  <2>3. Op \in Verb({"qublk_del"}) => ublk'[Id(wf)] = "none"
    BY <1>1 DEF Verb, Effects, UblkEffect
  <2>4. ASSUME Op \notin UblkMoves, ublk[Id(wf)] = "none"
        PROVE  ublk'[Id(wf)] = "none"
    BY <1>1, <2>4, OpIs DEF Effects, UblkEffect, StopsQublk, StartsQublk
  <2>5. ASSUME Op \in Starts("qublk"), NEW m \in Mnts, MntId(m) = Id(wf)
        PROVE  "ublk" \notin mnt'[m]
    <3>1. Op[1] = "start" /\ Op[2] = "qublk"
      BY <1>1, <2>5, OpIs
    <3> QED
      BY <1>1, <2>5, <3>1 DEF Effects, UblkEffect, StartsQublk, MountEffect, MountInv
  <2>6. ASSUME Op \notin Mounts("ublk"), NEW m \in Mnts, "ublk" \notin mnt[m]
        PROVE  "ublk" \notin mnt'[m]
    BY <1>1, <2>6, OpIs DEF Effects, MountEffect
  <2> QED
    BY <1>1, <2>1, <2>2, <2>3, <2>4, <2>5, <2>6 DEF Known, NewDevice
<1>7. Fresh'
  <2>1. Since(Starts("xal"), Changes)' =>
          Op \in Starts("xal") \/ (Since(Starts("xal"), Changes) /\ Op \notin Changes)
    BY <1>1, SinceNext
  <2>2. ASSUME Op \in Starts("xal")
        PROVE  ~dirty' /\ conf' = M /\ shm'[M] # "stale"
    <3>1. Op[1] = "start" /\ Op[2] = "xal" /\ ~dirty /\ conf = M
      BY <1>1, <2>2, OpIs, ReadyToIndex
    <3> QED
      BY <1>1, <3>1 DEF Effects, UnitEffect, FileEffect, IndexEffect, StartsXal
  <2>3. ASSUME Op \notin Changes, ~dirty, conf = M, shm[M] # "stale"
        PROVE  ~dirty' /\ conf' = M /\ shm'[M] # "stale"
    <3>1. Op[1] \notin {"mkfs", "fill", "write"}
      BY <1>1, <2>3, OpIs
    <3> QED
      BY <1>1, <2>3, <3>1 DEF Effects, UnitEffect, FileEffect, IndexEffect, M
  <2> QED
    BY <1>1, <2>1, <2>2, <2>3 DEF Known, Fresh
<1>8. (Running => Found)'
  <2>1. pc \in 1..Len(Program(wf)) /\ Len(Program(wf)) \in Nat
    BY <1>1, AtCommand DEF IInv
  <2>2. /\ wf = "aisio" => Program(wf) = Aisio
        /\ wf = "dataset" => Program(wf) = Dataset
    BY DEF Program
  <2>3. wf = "aisio" => Op[1] \notin {"bind", "mkfs", "fill", "write"}
    BY <1>1, <2>1, <2>2, PreparedOrder, OpIs DEF Never, Op
  <2>4. wf = "dataset" => Op[1] # "bind"
    BY <1>1, <2>1, <2>2, PreparedOrder, OpIs DEF Never, Op
  <2>5. ASSUME Running', pc' <= 2
        PROVE  pc = 1
    BY <1>1, <2>1, <2>5 DEF StepOn, Running
  <2>6. wf = "aisio" /\ Op \in Starts("qublk") => pc = 2
    BY <2>1, <2>2, PreparedOrder DEF Op
  <2>7. ASSUME wf = "aisio", Running', pc' <= 2
        PROVE  ublk'[1] # "live"
    <3>1. pc = 1 /\ Id(wf) = 1 /\ 1 \in Ids
      BY <2>5, <2>7 DEF Id, Ids
    <3>2. ~StartsQublk
      BY <1>1, <2>6, <2>7, <3>1, OpIs DEF StartsQublk
    <3> QED
      BY <1>1, <2>7, <3>1, <3>2 DEF Effects, UblkEffect, Known, Found
  <2> QED
    BY <1>1, <2>3, <2>4, <2>7 DEF Effects, UnitEffect, FileEffect, Known, Found
<1> QED
  BY <1>2, <1>3, <1>4, <1>5, <1>6, <1>7, <1>8 DEF Known

\* When the drive changes hands no homi of the workflow holds it, and without a fault
\* nothing of it is mounted.
LEMMA TakenWhenFree ==
  ASSUME IInv, KnowInv, Running, Op[1] = "bind", driver # Op[2]
  PROVE  /\ Holders \cap Own(wf) = {}
         /\ MountedAt("nvme") = {} \/ fault
<1>1. TypeOK /\ DriveInv /\ Op \in Commands /\ Op[2] \in {"nvme", "user"} /\ Known
  BY AtCommand, ArgTypes DEF IInv, KnowInv
<1>2. Holders \cap Own(wf) \subseteq {U("homi")}
  BY DEF Holders, Own, U, UnitOf
<1>3. CASE Op[2] = "nvme"
  <2>1. Since(StopsOf("homi"), Starts("homi"))
    BY <1>1, <1>3, Needs, SinceReady, OpIs DEF Serves
  <2>2. U("homi") \notin up
    BY <1>1, <2>1 DEF Known, HomiDown
  <2>3. driver = "user"
    BY <1>1, <1>3 DEF TypeOK
  <2> QED
    BY <1>1, <1>2, <2>2, <2>3 DEF Holders, MountedAt, DriveInv
<1>4. CASE Op[2] = "user"
  <2>1. driver = "nvme" /\ Holders = {}
    BY <1>1, <1>4 DEF TypeOK, DriveInv, Holders
  <2>2. Op \in NvmeTakers /\ Op \in Takes
    BY <1>1, <1>4, OpIs, ArgTypes DEF NvmeTakers
  <2>3. Since(Guards, {}) /\ Since(OffNvme, Mounts("nvme"))
    BY <2>2, Needs, SinceReady DEF Serves, Careful
  <2>4. ~fault => MountedAt("nvme") = {}
    BY <2>3 DEF KnowInv, Free, MountedAt
  <2> QED
    BY <2>1, <2>4
<1> QED
  BY <1>1, <1>3, <1>4

\* What a run knows as long as it meets no fault.
LEMMA FreeNext ==
  ASSUME IInv, KnowInv, Goes
  PROVE  (Running /\ ~fault => Free)'
<1> SUFFICES ASSUME ~fault'
             PROVE  Free'
  OBVIOUS
<1>1. /\ Effects /\ Running /\ Op \in Commands /\ M' = M /\ M \in Mnts /\ Id(wf) \in Ids
      /\ ~fault /\ Free /\ MountInv /\ StepOn /\ MntId(M) = Id(wf)
  BY GoesEffects DEF KnowInv, Goes
<1>2. (Since(Guards, {}) => MountedAt("nvme") \subseteq {M})'
  <2>1. Since(Guards, {})' => Op \in Guards \/ Since(Guards, {})
    BY <1>1, SinceNext
  <2>2. ASSUME MountedAt("nvme") \subseteq {M}
        PROVE  MountedAt("nvme")' \subseteq {M}
    BY <1>1, <2>2 DEF Effects, MountEffect, MountedAt, M
  <2>3. Op \in Guards => MountedAt("nvme") \subseteq {M}
    BY <1>1, OpIs DEF Effects, MountEffect, M
  <2> QED
    BY <1>1, <2>1, <2>2, <2>3 DEF Free
<1>3. (Since(OffNvme, Mounts("nvme")) => "nvme" \notin mnt[M])'
  <2>1. Since(OffNvme, Mounts("nvme"))' =>
          Op \in OffNvme \/ (Since(OffNvme, Mounts("nvme")) /\ Op \notin Mounts("nvme"))
    BY <1>1, SinceNext
  <2>2. ASSUME "nvme" \notin mnt[M], Op \notin Mounts("nvme")
        PROVE  "nvme" \notin mnt'[M]
    BY <1>1, <2>2, OpIs DEF Effects, MountEffect
  <2>3. ASSUME Op[1] = "umount"
        PROVE  "nvme" \notin mnt'[M]
    BY <1>1, <2>3 DEF Effects, MountEffect, M
  <2>4. ASSUME Op[1] = "guard", Op[2] = "none"
        PROVE  "nvme" \notin mnt'[M]
    <3>1. "nvme" \notin mnt[M] /\ Op \notin Mounts("nvme")
      BY <1>1, <2>4, OpIs DEF Effects, MountEffect, MountedAt
    <3> QED
      BY <2>2, <3>1
  <2> QED
    BY <1>1, <2>1, <2>2, <2>3, <2>4, OpIs DEF Free
<1>4. (Since(OffUblk, Mounts("ublk")) => "ublk" \notin mnt[M])'
  <2>1. Since(OffUblk, Mounts("ublk"))' =>
          Op \in OffUblk \/ (Since(OffUblk, Mounts("ublk")) /\ Op \notin Mounts("ublk"))
    BY <1>1, SinceNext
  <2>2. ASSUME "ublk" \notin mnt[M], Op \notin Mounts("ublk")
        PROVE  "ublk" \notin mnt'[M]
    BY <1>1, <2>2, OpIs DEF Effects, MountEffect
  <2>3. ASSUME Op[1] = "umount"
        PROVE  "ublk" \notin mnt'[M]
    BY <1>1, <2>3 DEF Effects, MountEffect, M
  <2>4. ASSUME Op[1] = "start", Op[2] = "qublk"
        PROVE  "ublk" \notin mnt'[M]
    BY <1>1, <2>4 DEF Effects, MountEffect, UblkEffect, StartsQublk, MountInv
  <2> QED
    BY <1>1, <2>1, <2>2, <2>3, <2>4, OpIs DEF Free
<1> QED
  BY <1>2, <1>3, <1>4 DEF Free

\* What a run brings is there until it takes it away.
LEMMA ServedNext ==
  ASSUME IInv, KnowInv, Goes
  PROVE  (Running /\ ~fault /\ ~foreign => Served)'
<1> SUFFICES ASSUME ~fault', ~foreign'
             PROVE  Served'
  OBVIOUS
<1>1. /\ Effects /\ Running /\ Op \in Commands /\ M' = M /\ M \in Mnts /\ Id(wf) \in Ids
      /\ ~fault /\ ~foreign /\ Served /\ Free /\ MountInv /\ StepOn /\ wf' = wf
      /\ \A kind : U(kind)' = U(kind)
  BY GoesEffects DEF KnowInv, Goes
<1>2. (up \subseteq Own(wf))'
  <2>1. Op[1] = "start" => UnitOf(Op[2], wf) \in Own(wf)
    BY <1>1, ArgTypes DEF Own
  <2> QED
    BY <1>1, <2>1 DEF Effects, UnitEffect, Served
<1>3. (\A kind \in Kinds : Since(Starts(kind), Downs(kind)) => U(kind) \in up \ died)'
  <2> SUFFICES ASSUME NEW kind \in Kinds, Since(Starts(kind), Downs(kind))'
               PROVE  U(kind) \in up' \ died'
    BY <1>1
  <2>1. Op \in Starts(kind) \/ (Since(Starts(kind), Downs(kind)) /\ Op \notin Downs(kind))
    BY <1>1, SinceNext
  <2>2. ASSUME Op \in Starts(kind)
        PROVE  U(kind) \in up' \ died'
    BY <1>1, <2>2, OpIs DEF Effects, UnitEffect, U
  <2>3. ASSUME U(kind) \in up \ died, Op \notin Downs(kind)
        PROVE  U(kind) \in up' \ died'
    <3>1. /\ Op[1] \notin {"stop_units", "bind"}
          /\ Op[1] \in StopVerbs => Op[2] # kind /\ Op[2] \in {"homi", "qublk", "xal"}
      BY <1>1, <2>3, OpIs, ArgTypes DEF StopVerbs
    <3>2. Op[1] \in StopVerbs => U(kind) # UnitOf(Op[2], wf)
      BY <3>1, Names DEF U, Kinds
    <3> QED
      BY <1>1, <2>3, <3>1, <3>2 DEF Effects, UnitEffect
  <2> QED
    BY <1>1, <2>1, <2>2, <2>3 DEF Served
<1>4. (Since(Starts("qublk"), Losers) => ublk[Id(wf)] = "live")'
  <2>1. Since(Starts("qublk"), Losers)' =>
          Op \in Starts("qublk") \/ (Since(Starts("qublk"), Losers) /\ Op \notin Losers)
    BY <1>1, SinceNext
  <2>2. Op \in Starts("qublk") => ublk'[Id(wf)] = "live"
    BY <1>1, OpIs DEF Effects, UblkEffect, StartsQublk
  <2>3. Op \notin Losers /\ ublk[Id(wf)] = "live" => ublk'[Id(wf)] = "live"
    BY <1>1, OpIs DEF Effects, UblkEffect, StopsServer
  <2> QED
    BY <1>1, <2>1, <2>2, <2>3 DEF Served
<1>5. Op \notin Unmounts => \A d \in {"nvme", "ublk"} : d \in mnt[M] => d \in mnt'[M]
  BY <1>1, OpIs DEF Effects, MountEffect, StopsServer, M
<1>6. (\A d \in {"nvme", "ublk"} : Since(Mounts(d), Unmounts) => d \in mnt[M])'
  <2> SUFFICES ASSUME NEW d \in {"nvme", "ublk"}, Since(Mounts(d), Unmounts)'
               PROVE  d \in mnt'[M]
    BY <1>1
  <2>1. Op \in Mounts(d) \/ (Since(Mounts(d), Unmounts) /\ Op \notin Unmounts)
    BY <1>1, SinceNext
  <2>2. Op \in Mounts(d) => d \in mnt'[M]
    BY <1>1, OpIs DEF Effects, MountEffect, M
  <2> QED
    BY <1>1, <1>5, <2>1, <2>2 DEF Served
<1>7. (Since(Verb({"mount"}), Unmounts) => mnt[M] \cap {"nvme", "ublk"} # {})'
  <2>1. Since(Verb({"mount"}), Unmounts)' =>
          Op \in Verb({"mount"}) \/ (Since(Verb({"mount"}), Unmounts) /\ Op \notin Unmounts)
    BY <1>1, SinceNext
  <2>2. ASSUME Op \in Verb({"mount"})
        PROVE  mnt'[M] \cap {"nvme", "ublk"} # {}
    <3>1. Op[1] = "mount"
      BY <2>2 DEF Verb
    <3>2. Op[2] \in mnt'[M] /\ Op[2] \in {"nvme", "ublk"}
      BY <1>1, <3>1, ArgTypes DEF Effects, MountEffect, M
    <3> QED
      BY <3>2
  <2>3. ASSUME Op \notin Unmounts, mnt[M] \cap {"nvme", "ublk"} # {}
        PROVE  mnt'[M] \cap {"nvme", "ublk"} # {}
    BY <1>5, <2>3
  <2> QED
    BY <1>1, <2>1, <2>2, <2>3 DEF Served
<1>8. (Since(Verb({"fill"}), Emptiers) => fs = M)'
  <2>1. Since(Verb({"fill"}), Emptiers)' =>
          Op \in Verb({"fill"}) \/ (Since(Verb({"fill"}), Emptiers) /\ Op \notin Emptiers)
    BY <1>1, SinceNext
  <2>2. ASSUME Op[1] = "fill"
        PROVE  fs' = M
    BY <1>1, <2>2 DEF Effects, FileEffect, M
  <2>3. ASSUME Op \notin Emptiers, Op[1] # "fill"
        PROVE  fs' = fs
    <3>1. CASE Op[1] = "bind"
      <4>1. driver = Op[2] \/ (MountedAt("nvme") = {} /\ Holders = {})
        <5>1. Holders \subseteq Own(wf)
          BY <1>1 DEF Served, Holders
        <5> QED
          BY <1>1, <3>1, <5>1, TakenWhenFree
      <4> QED
        BY <1>1, <3>1, <4>1 DEF Effects, FileEffect
    <3>2. CASE Op[1] # "bind"
      <4>1. /\ ~StopsServer /\ Op[1] \notin {"mkfs", "fill", "write", "qublk_del", "bind"}
        BY <1>1, <2>3, <3>2, OpIs DEF StopsServer
      <4> QED
        BY <1>1, <4>1 DEF Effects, FileEffect
    <3> QED
      BY <3>1, <3>2
  <2>4. Op \in Verb({"fill"}) <=> Op[1] = "fill"
    BY <1>1 DEF Verb
  <2> QED
    BY <1>1, <2>1, <2>2, <2>3, <2>4 DEF Served
<1>9. (Since(Starts("xal"), Unindexes) => shm[M] # "none")'
  <2>1. Since(Starts("xal"), Unindexes)' =>
          Op \in Starts("xal") \/ (Since(Starts("xal"), Unindexes) /\ Op \notin Unindexes)
    BY <1>1, SinceNext
  <2>2. ASSUME Op \in Starts("xal")
        PROVE  shm'[M] # "none"
    <3>1. Op[1] = "start" /\ Op[2] = "xal" /\ conf = M
      BY <1>1, <2>2, OpIs, ReadyToIndex
    <3> QED
      BY <1>1, <3>1 DEF Effects, IndexEffect, StartsXal
  <2>3. Op \notin Unindexes /\ shm[M] # "none" => shm'[M] # "none"
    BY <1>1, OpIs DEF Effects, IndexEffect, StopsXal, M
  <2> QED
    BY <1>1, <2>1, <2>2, <2>3 DEF Served
<1>10. (Since(XalStop, Starts("xal")) => shm[M] = "none")'
  <2>1. Since(XalStop, Starts("xal"))' =>
          Op \in XalStop \/ (Since(XalStop, Starts("xal")) /\ Op \notin Starts("xal"))
    BY <1>1, SinceNext
  <2>2. ASSUME Op \in XalStop
        PROVE  shm'[M] = "none"
    <3>1. Since(Confs, {})
      BY <1>1, <2>2, Needs, SinceReady DEF Serves
    <3>2. conf = M
      BY <1>1, <3>1 DEF KnowInv, Settled, Going, Running
    <3> QED
      BY <1>1, <2>2, <3>2, OpIs DEF Effects, IndexEffect, M
  <2>3. Op \notin Starts("xal") /\ shm[M] = "none" => shm'[M] = "none"
    BY <1>1, OpIs DEF Effects, IndexEffect, StartsXal, M
  <2> QED
    BY <1>1, <2>1, <2>2, <2>3 DEF Served
<1> QED
  BY <1>2, <1>3, <1>4, <1>6, <1>7, <1>8, <1>9, <1>10 DEF Served

-----------------------------------------------------------------------------
(* What a run knows: what happens beside it *)

\* A unit dies, or somebody mounts the drive: the run stays where it is, units, devices
\* and mounts of devices only go, and an index is made anew of what is on the drive.
Besides ==
  /\ UNCHANGED <<driver, conf, wf, pc, outcome>> /\ fault'
  /\ up' \subseteq up
  /\ \A m \in Mnts : "ublk" \in mnt'[m] => "ublk" \in mnt[m] /\ ublk'[MntId(m)] = ublk[MntId(m)]
  /\ \A id \in Ids : ublk'[id] = ublk[id] \/ (ublk[id] = "live" /\ ublk'[id] = "dead")
  /\ dirty' => dirty /\ \A m \in Mnts, d \in {"nvme", "ublk"} : d \in mnt[m] => d \in mnt'[m]
  /\ fs' \in {fs, "damaged"} /\ (~dirty => fs' = fs /\ ~dirty')
  /\ \A m \in Mnts : shm'[m] = "stale" => shm[m] = "stale" \/ dirty

\* A unit that dies is beside the run.
LEMMA BesidesDies ==
  ASSUME IInv, UnitDies
  PROVE  Besides
<1>1. PICK u \in up :
        /\ Strikes("dies") /\ up' \in {up, up \ {u}}
        /\ IF u[1] = "xal"
             THEN UNCHANGED <<ublk, mnt, fs, dirty>>
             ELSE /\ ublk' = [ublk EXCEPT ![u[2]] = IF @ = "live" THEN "dead" ELSE @]
                  /\ LoseMounts(UblkMounts({u[2]}))
        /\ \/ u \in up' /\ shm' = IF u[1] = "xal" /\ Servable THEN Indexed ELSE shm
           \/ u \notin up' /\ (UNCHANGED shm \/ (u[1] = "xal" /\ XalStops))
        /\ unseen' \in {unseen \cup {u}, unseen}
        /\ UNCHANGED <<driver, conf, wf, pc, outcome, look>>
  BY DEF UnitDies
<1>2. TypeOK /\ fault' /\ \A m \in Mnts : MntId(m) \in Ids
  BY <1>1, Names DEF IInv, Strikes
<1>3. /\ up' \subseteq up
      /\ \A m \in Mnts : shm'[m] = "stale" => shm[m] = "stale" \/ dirty
  <2>1. CASE shm' = Indexed
    BY <1>1, <1>2, <2>1 DEF Indexed, TypeOK
  <2>2. CASE shm' = shm
    BY <1>1, <2>2
  <2>3. CASE XalStops
    BY <1>1, <1>2, <2>3 DEF XalStops, TypeOK
  <2> QED
    BY <1>1, <2>1, <2>2, <2>3
<1>4. CASE u[1] = "xal"
  BY <1>1, <1>2, <1>3, <1>4 DEF Besides
<1>5. CASE u[1] # "xal"
  <2>1. /\ LoseMounts(UblkMounts({u[2]}))
        /\ ublk' = [ublk EXCEPT ![u[2]] = IF @ = "live" THEN "dead" ELSE @]
    BY <1>1, <1>5
  <2>2. \A m \in Mnts : /\ UblkMounts({u[2]})[m] \subseteq {"nvme", "ublk"}
                        /\ MntId(m) = u[2] => "ublk" \in UblkMounts({u[2]})[m]
    BY DEF UblkMounts
  <2>3. /\ \A m \in Mnts, d \in {"nvme", "ublk"} :
             d \in mnt'[m] => d \in mnt[m] /\ d \notin UblkMounts({u[2]})[m]
        /\ dirty' => dirty /\ \A m \in Mnts, d \in {"nvme", "ublk"} : d \in mnt[m] => d \in mnt'[m]
        /\ fs' \in {fs, "damaged"} /\ (~dirty => fs' = fs /\ ~dirty')
    BY <1>2, <2>1, <2>2, LostEffects
  <2>4. \A m \in Mnts : "ublk" \in mnt'[m] => "ublk" \in mnt[m] /\ ublk'[MntId(m)] = ublk[MntId(m)]
    BY <1>2, <2>1, <2>2, <2>3 DEF TypeOK
  <2>5. \A id \in Ids : ublk'[id] = ublk[id] \/ (ublk[id] = "live" /\ ublk'[id] = "dead")
    BY <1>2, <2>1 DEF TypeOK
  <2> QED
    BY <1>1, <1>2, <1>3, <2>3, <2>4, <2>5 DEF Besides
<1> QED
  BY <1>4, <1>5

\* So is somebody who mounts the drive.
LEMMA BesidesMounts ==
  ASSUME IInv, MountedElsewhere
  PROVE  Besides
<1>1. TypeOK /\ ~dirty /\ "root" \in Mnts
  BY DEF IInv, DriveInv, MountedElsewhere, Mnts
<1>2. /\ Strikes("mounts") /\ mnt' = [mnt EXCEPT !["root"] = {"nvme"}]
      /\ UNCHANGED <<driver, fs, dirty, ublk, unitVars, wf, pc, outcome, look, unseen>>
  BY DEF MountedElsewhere
<1> QED
  BY <1>1, <1>2 DEF Besides, TypeOK, unitVars, Strikes

\* What goes beside a run leaves it what it knows.
LEMMA KnowStays ==
  ASSUME IInv, KnowInv, Besides
  PROVE  KnowInv'
<1>1. /\ TypeOK /\ DriveInv /\ MountInv /\ UNCHANGED <<driver, conf, wf, pc, outcome>> /\ fault'
      /\ M' = M /\ M \in Mnts /\ M # "root" /\ U("homi")' = U("homi") /\ Id(wf) \in Ids
      /\ \A m \in Mnts : MntId(m) \in Ids
      /\ "root" \in Mnts
  BY Names DEF IInv, KnowInv, Besides, M, U, Mnts
<1>2. \A G, L : Since(G, L)' = Since(G, L)
  BY <1>1, SinceStays
<1>3. MountInv'
  BY <1>1 DEF MountInv, Besides
<1>4. (Going => Settled)'
  BY <1>1, <1>2 DEF KnowInv, Going, Settled, Besides
<1>5. ASSUME Running
      PROVE  Known'
  <2>1. Known
    BY <1>5 DEF KnowInv
  <2>2. HomiDown' /\ DriverIs'
    BY <1>1, <1>2, <2>1 DEF Known, HomiDown, DriverIs, Besides
  <2>3. Saved' /\ Usable'
    BY <1>1, <1>2, <2>1 DEF Known, Saved, Usable, Besides
  <2>4. NewDevice'
    BY <1>1, <1>2, <2>1 DEF Known, NewDevice, Besides
  <2>5. Fresh'
    BY <1>1, <1>2, <2>1 DEF Known, Fresh, Besides
  <2>6. Found'
    <3>1. 1 \in Ids
      BY DEF Ids
    <3> QED
      BY <1>1, <2>1, <3>1 DEF Known, Found, Besides
  <2> QED
    BY <2>2, <2>3, <2>4, <2>5, <2>6 DEF Known
<1> QED
  BY <1>1, <1>3, <1>4, <1>5 DEF KnowInv, Running

\* A reboot ends the run, or leaves one that has ended well what it knew.
LEMMA KnowReboot ==
  ASSUME IInv, KnowInv, Reboot
  PROVE  KnowInv'
<1>1. /\ mnt' = [m \in Mnts |-> IF m = "root" THEN mnt[m] ELSE {}]
      /\ dirty' = FALSE /\ ublk' = [id \in Ids |-> "none"]
      /\ outcome' = IF Running THEN "failed" ELSE outcome
      /\ UNCHANGED <<conf, wf, pc>>
  BY DEF Reboot
<1>2. MountInv' /\ ~Running'
  BY <1>1 DEF KnowInv, MountInv, Running, Mnts
<1>3. ASSUME Going'
      PROVE  Settled'
  <2>1. UNCHANGED <<wf, pc, outcome>> /\ Going
    BY <1>1, <1>3 DEF Going, Running
  <2>2. \A G, L : Since(G, L)' = Since(G, L)
    BY <2>1, SinceStays
  <2>3. Settled /\ Id(wf) \in Ids
    BY <2>1, Names DEF KnowInv
  <2> QED
    BY <1>1, <2>1, <2>2, <2>3 DEF Settled, M
<1> QED
  BY <1>2, <1>3 DEF KnowInv

\* A run that fails or is refused has only the mounts to answer for.
LEMMA KnowFails ==
  ASSUME MountInv', outcome' \notin {"running", "ok"}
  PROVE  KnowInv'
  BY DEF KnowInv, Going, Running

\* The stop of a unit that fails takes mounts away as one that succeeds.
LEMMA MountStops ==
  ASSUME IInv, KnowInv, NEW kind \in {"homi", "qublk", "xal"}, UnitStops(kind)
  PROVE  MountInv'
<1>1. TypeOK /\ DriveInv /\ MountInv /\ "root" \in Mnts
  BY DEF IInv, KnowInv, Mnts
<1>2. CASE kind = "xal"
  BY <1>1, <1>2 DEF UnitStops, MountInv
<1>3. CASE kind # "xal"
  <2>1. (kind = "homi" /\ HomiStops(Id(wf))) \/ (kind = "qublk" /\ QublkStops(Id(wf)))
    BY <1>3 DEF UnitStops
  <2>2. /\ \A m \in Mnts, d \in {"nvme", "ublk"} : d \in mnt'[m] => d \in mnt[m]
        /\ \A m \in Mnts : "ublk" \in mnt'[m] =>
             ublk'[MntId(m)] = "live" \/ ublk[MntId(m)] # "live"
        /\ dirty' => dirty /\ \A m \in Mnts, d \in {"nvme", "ublk"} : d \in mnt[m] => d \in mnt'[m]
    BY <1>1, <1>3, <2>1, StopEffects
  <2> QED
    BY <1>1, <2>2 DEF MountInv
<1> QED
  BY <1>2, <1>3

\* bench_aisio finds what configure_daemons, or a run of its own, has left.
LEMMA KnowBegin ==
  ASSUME IInv, EndInv, KnowInv, NEW w \in Workflows, Begin(w)
  PROVE  KnowInv'
<1>1. /\ wf' = w /\ pc' = 1 /\ outcome' = "running" /\ Prepared(w)
      /\ driver' = IF w = "dataset" THEN "nvme" ELSE driver
      /\ foreign' = (up \ Own(w) # {})
      /\ UNCHANGED <<fs, dirty, mnt, ublk, up, died, conf, shm>>
  BY DEF Begin, unitVars
<1>2. \A G, L : ~Since(G, L)'
  BY <1>1, SinceBegin
<1>3. MountInv'
  BY <1>1 DEF KnowInv, MountInv
<1>4. ASSUME w = "aisio"
      PROVE  /\ conf = "datasets" /\ ublk[1] # "live" /\ ~dirty
             /\ driver = "user" /\ fs = "datasets"
  <2>1. /\ wf \in {"configure", "aisio"} /\ outcome = "ok" /\ fs = "datasets" /\ driver = "user"
        /\ Settled /\ pc = Len(Program(wf))
    BY <1>1, <1>4 DEF Prepared, KnowInv, Going, EndInv
  <2>2. /\ wf = "configure" => Program(wf) = Configure
        /\ wf = "aisio" => Program(wf) = Aisio
        /\ Id(wf) = 1 /\ M = "datasets"
    BY <2>1 DEF Program, Id, M, Mnt
  <2>3. Since(UblkEnds, Starts("qublk"))
    BY <2>1, <2>2, PreparedOrder, SinceEnd
  <2>4. wf = "configure" => Since(Confs, {})
    BY <2>1, <2>2, PreparedOrder, SinceEnd
  <2>5. conf = "datasets" /\ ublk[1] # "live"
    BY <2>1, <2>2, <2>3, <2>4 DEF Settled
  <2>6. ~dirty
    BY <2>1, <2>5 DEF KnowInv, MountInv, IInv, DriveInv
  <2> QED
    BY <2>1, <2>5, <2>6
<1>5. Settled'
  BY <1>1, <1>2, <1>4 DEF Settled
<1>6. Known'
  <2>1. HomiDown' /\ DriverIs' /\ Saved' /\ Usable' /\ NewDevice' /\ Fresh'
    BY <1>2 DEF HomiDown, DriverIs, Saved, Usable, NewDevice, Fresh
  <2>2. Found'
    BY <1>1, <1>4 DEF Found
  <2> QED
    BY <2>1, <2>2 DEF Known
<1>7. Free'
  BY <1>2 DEF Free
<1>8. ~foreign' => Served'
  <2>1. up \ Own(w) = {} => up \subseteq Own(w)
    OBVIOUS
  <2> QED
    BY <1>1, <1>2, <2>1 DEF Served
<1> QED
  BY <1>3, <1>5, <1>6, <1>7, <1>8 DEF KnowInv

\* A look at a unit changes nothing of it.
LEMMA KnowSame ==
  ASSUME KnowInv, UNCHANGED <<driveVars, unitVars, histVars, wf, pc, outcome>>
  PROVE  KnowInv'
<1>1. /\ UNCHANGED <<driver, fs, dirty, mnt, ublk, up, died, conf, shm>>
      /\ UNCHANGED <<wf, pc, outcome, fault, foreign>>
  BY DEF driveVars, unitVars, histVars
<1>2. \A G, L : Since(G, L)' = Since(G, L)
  BY <1>1, SinceStays
<1>3. MountInv' = MountInv /\ Going' = Going /\ Settled' = Settled /\ Running' = Running
  BY <1>1, <1>2 DEF MountInv, Going, Settled, Running, M
<1>4. HomiDown' = HomiDown /\ DriverIs' = DriverIs /\ Saved' = Saved /\ Usable' = Usable
  BY <1>1, <1>2 DEF HomiDown, DriverIs, Saved, Usable, M, U
<1>5. NewDevice' = NewDevice /\ Fresh' = Fresh /\ Found' = Found
  BY <1>1, <1>2 DEF NewDevice, Fresh, Found, M
<1>6. Free' = Free /\ Served' = Served
  BY <1>1, <1>2 DEF Free, Served, M, U, MountedAt
<1> QED
  BY <1>1, <1>3, <1>4, <1>5, <1>6 DEF KnowInv, Known

\* Every step keeps what a run knows.
LEMMA KnowNext ==
  ASSUME IInv, EndInv, KnowInv, [Next]_vars
  PROVE  KnowInv'
<1>1. CASE Goes
  BY <1>1, MountNext, SettledNext, KnownNext, FreeNext, ServedNext DEF KnowInv
<1>2. ASSUME UNCHANGED <<mnt, ublk, dirty>>
      PROVE  MountInv'
  BY <1>2 DEF KnowInv, MountInv
<1>3. CASE Command
  <2>1. CASE CommandFails
    BY <1>2, <2>1, KnowFails DEF CommandFails, EndRun, driveVars
  <2>2. CASE Guard
    <3>1. Running /\ UNCHANGED <<mnt, ublk, dirty>> /\ (StepOn \/ outcome' = "refused")
      BY <2>2 DEF Guard, At, EndRun, driveVars
    <3> QED
      BY <1>1, <1>2, <1>3, <3>1, KnowFails DEF Goes
  <2>3. CASE Stop \/ StopResult
    <3>1. Running /\ (StepOn \/ outcome' = "failed")
      BY <2>3 DEF Stop, StopResult, At, EndRun, Advance
    <3>2. Op[2] \in {"homi", "qublk", "xal"} /\ UnitStops(Op[2])
      BY <2>3, <3>1, AtCommand, ArgTypes DEF Stop, StopResult, At, Arg, IInv
    <3>3. MountInv'
      BY <3>2, MountStops
    <3> QED
      BY <1>1, <1>3, <3>1, <3>3, KnowFails DEF Goes
  <2>4. CASE Umount \/ StopUnits \/ QublkDel \/ RmShm \/ Configured \/ Check \/ Load
    BY <1>1, <1>3, <2>4 DEF Goes, Umount, StopUnits, QublkDel, RmShm, Configured, Check,
       Load, At, Advance
  <2>5. CASE Bind \/ Start \/ SystemctlStop \/ Mkfs \/ Mount \/ Fill \/ Write
    BY <1>1, <1>3, <2>5 DEF Goes, Bind, Start, SystemctlStop, Mkfs, Mount, Fill, Write, At,
       Advance
  <2>6. CASE Look
    <3>1. UNCHANGED <<driveVars, unitVars, histVars>>
      BY <2>6 DEF Look
    <3>2. CASE EndRun("failed")
      BY <1>2, <3>1, <3>2, KnowFails DEF EndRun, driveVars
    <3>3. CASE UNCHANGED <<wf, pc, outcome>>
      BY <3>1, <3>3, KnowSame
    <3> QED
      BY <2>6, <3>2, <3>3 DEF Look
  <2> QED
    BY <1>3, <2>1, <2>2, <2>3, <2>4, <2>5, <2>6 DEF Command
<1>4. CASE Fault
  <2>1. CASE UnitDies \/ MountedElsewhere
    BY <2>1, BesidesDies, BesidesMounts, KnowStays
  <2>2. CASE OtherFailure
    BY <1>2, <2>2, KnowFails DEF OtherFailure, EndRun, driveVars
  <2>3. CASE Reboot
    BY <2>3, KnowReboot
  <2>4. CASE UmountBusy
    <3>1. Running /\ UNCHANGED <<mnt, ublk, dirty>> /\ (StepOn \/ outcome' = "failed")
      BY <2>4 DEF UmountBusy, At, EndRun, driveVars
    <3> QED
      BY <1>1, <1>2, <2>4, <3>1, KnowFails DEF Goes
  <2> QED
    BY <1>4, <2>1, <2>2, <2>3, <2>4 DEF Fault
<1>5. CASE \E w \in Workflows : Begin(w)
  BY <1>5, KnowBegin
<1>6. CASE UNCHANGED vars
  BY <1>6, KnowSame DEF vars
<1> QED
  BY <1>3, <1>4, <1>5, <1>6 DEF Next

\* No run has begun.
LEMMA KnowInit ==
  ASSUME Init
  PROVE  KnowInv
<1>1. outcome = "none" /\ dirty = FALSE /\ (\A m \in Mnts : "ublk" \notin mnt[m]) /\ "root" \in Mnts
  BY DEF Init, NoMounts, Mnts
<1> QED
  BY <1>1 DEF KnowInv, MountInv, Going, Running

\* What is mounted of the namespace, beside where this run mounts and accepts it, was so
\* when the run began.
SpreadInv ==
  Running /\ ~fault =>
    \A m \in Mnts : "nvme" \in mnt[m] => "nvme" \in spread \/ m \in Accepts(wf)

\* A run mounts only where its looks at the drive accept it.
LEMMA SpreadNext ==
  ASSUME IInv, SpreadInv, [Next]_vars
  PROVE  SpreadInv'
<1>1. ASSUME ~Running' \/ fault'
      PROVE  SpreadInv'
  BY <1>1 DEF SpreadInv
<1>2. ASSUME UNCHANGED <<mnt, spread, fault, wf, outcome>>
      PROVE  SpreadInv'
  BY <1>2 DEF SpreadInv, Running
<1>3. CASE Command
  <2>1. UNCHANGED spread /\ UNCHANGED fault
    BY <1>3 DEF Command, Umount, StopUnits, QublkDel, RmShm, Guard, Bind, Start, Look, Stop,
       SystemctlStop, StopResult, Mkfs, Mount, Fill, Write, Configured, Check, Load,
       CommandFails, Advance, histVars
  <2>2. CASE StepOn
    <3>1. Running
      BY <1>3 DEF Command, Umount, StopUnits, QublkDel, RmShm, Guard, Bind, Start, Look, Stop,
         SystemctlStop, StopResult, Mkfs, Mount, Fill, Write, Configured, Check, Load,
         CommandFails, Broken, At
    <3>2. /\ CommandDone /\ TypeOK /\ RunInv /\ DriveInv /\ Op \in Commands /\ wf' = wf
          /\ wf \in Workflows
      BY <1>3, <2>2, <3>1, GoesDone DEF Goes
    <3>3. \A m \in Mnts : "nvme" \in mnt'[m] =>
            "nvme" \in mnt[m] \/ (m = Mnt(wf) /\ Op[1] = "mount")
      BY <3>2, MountFileEffects DEF MountEffect
    <3>4. Op[1] = "mount" => Accepts(wf) = {Mnt(wf)}
      <4>1. Op[1] = "mount" => Op \in Verb({"mount"})
        BY <3>2 DEF Verb
      <4>2. pc \in 1..Len(Program(wf))
        BY <3>1, <3>2, AtCommand
      <4> QED
        BY <3>2, <4>1, <4>2, LooksOrder DEF Never, Op, Accepts
    <3> QED
      BY <2>1, <3>1, <3>2, <3>3, <3>4 DEF SpreadInv
  <2>3. CASE EndRun("failed") \/ EndRun("refused")
    BY <1>1, <2>3 DEF EndRun, Running
  <2>4. CASE Look
    BY <1>2, <2>1, <2>3, <2>4 DEF Look, driveVars
  <2>5. CASE ~Look
    <3>1. StepOn \/ EndRun("failed") \/ EndRun("refused")
      BY <1>3, <2>5 DEF Command, Umount, StopUnits, QublkDel, RmShm, Guard, Bind, Start, Stop,
         SystemctlStop, StopResult, Mkfs, Mount, Fill, Write, Configured, Check, Load,
         CommandFails, Advance
    <3> QED
      BY <2>2, <2>3, <3>1
  <2> QED
    BY <2>4, <2>5
<1>4. CASE Fault
  BY <1>1, <1>4 DEF Fault, UnitDies, OtherFailure, UmountBusy, MountedElsewhere, Reboot, Strikes
<1>5. CASE \E w \in Workflows : Begin(w)
  <2>1. PICK w \in Workflows : Begin(w)
    BY <1>5
  <2>2. wf' = w /\ mnt' = mnt /\ spread' = UNION {mnt[m] : m \in Mnts \ Accepts(w)}
    BY <2>1 DEF Begin
  <2> QED
    BY <2>2 DEF SpreadInv
<1>6. CASE UNCHANGED vars
  BY <1>2, <1>6 DEF vars, driveVars, histVars
<1> QED
  BY <1>3, <1>4, <1>5, <1>6 DEF Next

\* A look at the drive refuses a run without a fault of its own only for a mount that was
\* there when the run began.
LEMMA RefusedForSpread ==
  ASSUME IInv, SpreadInv, At("guard"), ~GuardPasses, ~fault
  PROVE  "nvme" \in spread
<1>1. Running /\ Op[1] = "guard"
  BY DEF At
<1>2. Op \in Commands /\ pc \in 1..Len(Program(wf)) /\ wf \in Workflows
  BY <1>1, AtCommand DEF IInv
<1>3. Arg = "none" => Accepts(wf) = {}
  <2>1. Arg = "none" => Op \in Cmd({"guard"}, {"none"})
    BY <1>1, <1>2 DEF Cmd, Arg
  <2> QED
    BY <1>2, <2>1, LooksOrder DEF Never, Op, Accepts
<1>4. PICK m \in Mnts : "nvme" \in mnt[m] /\ m \notin (IF Arg = "none" THEN {} ELSE {Mnt(wf)})
  BY DEF GuardPasses, MountedAt
<1>5. m \notin Accepts(wf)
  BY <1>3, <1>4 DEF Accepts
<1> QED
  BY <1>1, <1>4, <1>5 DEF SpreadInv

\* Everything that is inductive together
Inv == IInv /\ LookInv /\ SpreadInv /\ EndInv /\ KnowInv

\* It holds before the first run.
LEMMA InvInit ==
  ASSUME Init
  PROVE  Inv
  BY InitSafe, KnowInit DEF Inv, Init, EndInv, LookInv, SpreadInv, Running

\* Every step keeps it.
LEMMA InvNext ==
  ASSUME Inv, [Next]_vars
  PROVE  Inv'
  BY NextSafe, LookNext, SpreadNext, EndNext, KnowNext DEF Inv

-----------------------------------------------------------------------------
(* What follows from it *)

\* The controller changes hands at a bind, a reboot aside.
LEMMA BindTakes ==
  ASSUME IInv, [Next]_vars, At("bind"), driver' # driver, outcome' # "failed"
  PROVE  driver' = Op[2]
<1>1. CASE Bind
  BY <1>1 DEF Bind, Arg
<1>2. CASE Command /\ ~Bind
  <2>1. CASE Umount \/ StopUnits \/ QublkDel \/ RmShm \/ Guard \/ Start \/ Look \/ Stop
    BY <2>1 DEF Umount, StopUnits, QublkDel, RmShm, Guard, Start, Look, Stop, driveVars
  <2>2. CASE SystemctlStop \/ StopResult \/ Mkfs \/ Mount \/ Fill \/ Write \/ Configured \/ Check \/ Load
    BY <2>2 DEF SystemctlStop, StopResult, Mkfs, Mount, Fill, Write, Configured, Check, Load,
       driveVars
  <2>3. CASE CommandFails
    BY <2>3 DEF CommandFails, driveVars
  <2> QED
    BY <1>2, <2>1, <2>2, <2>3 DEF Command
<1>3. CASE Fault
  BY <1>3 DEF Fault, UnitDies, OtherFailure, UmountBusy, MountedElsewhere, Reboot, At,
     driveVars
<1>4. CASE \E w \in Workflows : Begin(w)
  BY <1>4 DEF Begin, At
<1>5. CASE UNCHANGED vars
  BY <1>5 DEF vars, driveVars
<1> QED
  BY <1>1, <1>2, <1>3, <1>4, <1>5 DEF Next

\* A reboot aside, the controller is taken from no homi of the workflow's id and, but for
\* a fault of the run, under no mount.
THEOREM TakenFree == Spec => DriveTakenOnlyWhenFree
<1>1. Init => Inv
  BY InvInit
<1>2. Inv /\ [Next]_vars => Inv'
  BY InvNext
<1>3. Inv /\ [Next]_vars =>
        [At("bind") /\ driver' # driver /\ outcome' # "failed"
           => Holders \cap Own(wf) = {} /\ (MountedAt("nvme") = {} \/ fault)]_vars
  <2> SUFFICES ASSUME Inv, [Next]_vars, At("bind"), driver' # driver, outcome' # "failed"
               PROVE  Holders \cap Own(wf) = {} /\ (MountedAt("nvme") = {} \/ fault)
    OBVIOUS
  <2>1. IInv /\ KnowInv /\ Running /\ Op[1] = "bind" /\ driver' = Op[2]
    BY BindTakes DEF Inv, At
  <2> QED
    BY <2>1, TakenWhenFree
<1> QED
  BY <1>1, <1>2, <1>3, PTL DEF Spec, DriveTakenOnlyWhenFree

\* A client that finds files by the index never reads a stale one.
THEOREM CompleteIndex == Spec => []IndexComplete
<1>1. Init => Inv
  BY InvInit
<1>2. Inv /\ [Next]_vars => Inv'
  BY InvNext
<1>3. Inv => IndexComplete
  <2> SUFFICES ASSUME Inv, Running, Op[1] \in {"check", "load"}, Op[2] \in {"direct", "opends"}
               PROVE  shm[M] \in {"none", "complete"}
    BY DEF IndexComplete, At, Arg, M
  <2>1. /\ IInv /\ KnowInv /\ Known /\ Op \in Commands /\ TypeOK
    BY AtCommand DEF Inv, IInv, KnowInv
  <2>2. Op \in IndexReaders
    <3>1. \A A, B : Op \in A \X B => Op[1] \in A /\ Op[2] \in B
      OBVIOUS
    <3>2. (Op[1] = "check" => Op[2] # "opends") /\ (Op[1] = "load" => Op[2] # "direct")
      BY <2>1, <3>1 DEF Commands
    <3> QED
      BY <2>1, <3>2 DEF IndexReaders, Cmd
  <2>3. Since(Starts("xal"), Changes)
    BY <2>1, <2>2, Needs, SinceReady DEF Serves
  <2>4. shm[M] # "stale" /\ M \in Mnts
    BY <2>1, <2>3, Names DEF Known, Fresh, M
  <2> QED
    BY <2>1, <2>4 DEF TypeOK
<1> QED
  BY <1>1, <1>2, <1>3, PTL DEF Spec

-----------------------------------------------------------------------------
(* Rerunning *)

\* What a command finds, in a run without a fault that began with no units of the other
\* id: what it needs of units, devices, mounts, files and indexes.
LEMMA Finds ==
  ASSUME IInv, KnowInv, Running, ~fault, ~foreign
  PROVE  /\ Op \in HomiUsers => U("homi") \in up \ died
         /\ Op \in Cmd(Cleanly, {"qublk"}) => U("qublk") \in up \ died
         /\ Op \in Cmd(Cleanly, {"xal"}) => U("xal") \in up \ died
         /\ Op \in UblkUsers => ublk[Id(wf)] = "live"
         /\ Op \in UblkReaders => "ublk" \in mnt[M] /\ ublk[Id(wf)] = "live"
         /\ Op \in Cmd({"load"}, {"own"}) => "nvme" \in mnt[M]
         /\ Op \in MountUsers => mnt[M] \cap {"nvme", "ublk"} # {}
         /\ Op \in NvmeTakers => "nvme" \notin mnt[M]
         /\ Op \in Takes => MountedAt("nvme") \subseteq {M}
         /\ Op \in Mounts("ublk") => "ublk" \notin mnt[M]
         /\ Op \in Cmd({"mkfs"}, {"ublk"}) =>
              \A m \in Mnts : MntId(m) = Id(wf) => "ublk" \notin mnt[m]
         /\ Op \in IndexUsers => shm[M] # "none"
         /\ Op \in Cmd({"check"}, {"no_shm"}) => shm[M] = "none"
         /\ Op \in Verb({"mount"}) => fs # "junk"
         /\ Op \in FileReaders => fs = M
         /\ Op \in Starts("homi") => driver = "user"
         /\ Op \in NvmeUsers => driver = "nvme"
         /\ Op \in Starts("qublk") =>
              ublk[Id(wf)] = "none" \/ (wf = "aisio" /\ ublk[Id(wf)] = "dead")
<1>1. /\ Known /\ Free /\ Served /\ MountInv /\ TypeOK /\ Id(wf) \in Ids
      /\ M \in Mnts /\ MntId(M) = Id(wf)
  BY DEF KnowInv, IInv, M, Mnt, Mnts, MntId, Id, Ids
<1>2. /\ Careful(Program(wf)) /\ Serves(Program(wf))
      /\ wf # "aisio" => Makes(Program(wf))
      /\ wf # "dataset" => Kernel(Program(wf))
  BY Needs
<1>3. /\ Op \in HomiUsers => U("homi") \in up \ died
      /\ Op \in Cmd(Cleanly, {"qublk"}) => U("qublk") \in up \ died
      /\ Op \in Cmd(Cleanly, {"xal"}) => U("xal") \in up \ died
  <2>1. /\ Op \in HomiUsers => Since(Starts("homi"), Downs("homi"))
        /\ Op \in Cmd(Cleanly, {"qublk"}) => Since(Starts("qublk"), Downs("qublk"))
        /\ Op \in Cmd(Cleanly, {"xal"}) => Since(Starts("xal"), Downs("xal"))
    BY <1>2, SinceReady DEF Serves
  <2> QED
    BY <1>1, <2>1 DEF Served, Kinds
<1>4. Op \in UblkUsers => ublk[Id(wf)] = "live"
  <2>1. Op \in UblkUsers => Since(Starts("qublk"), Losers)
    BY <1>2, SinceReady DEF Serves
  <2> QED
    BY <1>1, <2>1 DEF Served
<1>5. /\ Op \in UblkReaders => "ublk" \in mnt[M] /\ ublk[Id(wf)] = "live"
      /\ Op \in Cmd({"load"}, {"own"}) => "nvme" \in mnt[M]
      /\ Op \in MountUsers => mnt[M] \cap {"nvme", "ublk"} # {}
  <2>1. /\ Op \in UblkReaders => Since(Mounts("ublk"), Unmounts)
        /\ Op \in Cmd({"load"}, {"own"}) => Since(Mounts("nvme"), Unmounts)
        /\ Op \in MountUsers => Since(Verb({"mount"}), Unmounts)
    BY <1>2, SinceReady DEF Serves
  <2> QED
    BY <1>1, <2>1 DEF Served, MountInv
<1>6. /\ Op \in NvmeTakers => "nvme" \notin mnt[M]
      /\ Op \in Takes => MountedAt("nvme") \subseteq {M}
      /\ Op \in Mounts("ublk") => "ublk" \notin mnt[M]
  <2>1. /\ Op \in NvmeTakers => Since(OffNvme, Mounts("nvme"))
        /\ Op \in Mounts("ublk") => Since(OffUblk, Mounts("ublk"))
    BY <1>2, SinceReady DEF Serves
  <2>2. Op \in Takes => Since(Guards, {})
    BY <1>2, SinceReady DEF Careful
  <2> QED
    BY <1>1, <2>1, <2>2 DEF Free
<1>7. Op \in Cmd({"mkfs"}, {"ublk"}) =>
        \A m \in Mnts : MntId(m) = Id(wf) => "ublk" \notin mnt[m]
  <2>1. Op \in Cmd({"mkfs"}, {"ublk"}) => Since(Starts("qublk"), Mounts("ublk"))
    BY <1>2, SinceReady DEF Serves
  <2> QED
    BY <1>1, <2>1 DEF Known, NewDevice
<1>8. /\ Op \in IndexUsers => shm[M] # "none"
      /\ Op \in Cmd({"check"}, {"no_shm"}) => shm[M] = "none"
  <2>1. /\ Op \in IndexUsers => Since(Starts("xal"), Unindexes)
        /\ Op \in Cmd({"check"}, {"no_shm"}) => Since(XalStop, Starts("xal"))
    BY <1>2, SinceReady DEF Serves
  <2> QED
    BY <1>1, <2>1 DEF Served
<1>9. CASE wf = "aisio"
  <2>1. M = "datasets" /\ driver = "user" /\ fs = "datasets" /\ Id(wf) = 1
    BY <1>1, <1>9 DEF Known, Found, M, Mnt, Id
  <2>2. Op \notin NvmeUsers
    <3>1. Op \in NvmeUsers => Since(Binds("nvme"), Binds("user"))
      BY <1>2, <1>9, SinceReady DEF Kernel
    <3> QED
      BY <1>1, <2>1, <3>1 DEF Known, DriverIs
  <2>3. Op \in Starts("qublk") => ublk[Id(wf)] \in {"none", "dead"}
    <3>1. Program(wf) = Aisio /\ pc \in 1..Len(Program(wf))
      BY <1>9, AtCommand DEF Program, IInv
    <3>2. Op \in Starts("qublk") => pc <= 2
      BY <3>1, PreparedOrder DEF Op
    <3> QED
      BY <1>1, <1>9, <2>1, <3>2 DEF Known, Found, TypeOK
  <2> QED
    BY <1>3, <1>4, <1>5, <1>6, <1>7, <1>8, <1>9, <2>1, <2>2, <2>3
<1>10. CASE wf # "aisio"
  <2>1. /\ Op \in Verb({"mount"}) => Since(Verb({"mkfs"}), Verb({"write"}))
        /\ Op \in FileReaders => Since(Verb({"fill"}), Emptiers)
        /\ Op \in Starts("homi") => Since(Binds("user"), Binds("nvme"))
        /\ Op \in Starts("qublk") => Since(Verb({"qublk_del"}), UblkMoves)
    BY <1>2, <1>10, SinceReady DEF Makes
  <2>2. Op \in NvmeUsers => driver = "nvme"
    <3>1. wf # "dataset" /\ Op \in NvmeUsers => Since(Binds("nvme"), Binds("user"))
      BY <1>2, SinceReady DEF Kernel
    <3> QED
      BY <1>1, <3>1 DEF Known, DriverIs, Found
  <2>3. /\ Op \in Verb({"mount"}) => fs # "junk"
        /\ Op \in FileReaders => fs = M
        /\ Op \in Starts("homi") => driver = "user"
        /\ Op \in Starts("qublk") => ublk[Id(wf)] = "none"
    BY <1>1, <2>1 DEF Known, Usable, DriverIs, NewDevice, Served
  <2> QED
    BY <1>3, <1>4, <1>5, <1>6, <1>7, <1>8, <2>2, <2>3
<1> QED
  BY <1>9, <1>10

\* The commands by what they need.
LEMMA NeedsOf ==
  ASSUME NEW c \in Commands
  PROVE  /\ c[1] = "umount" /\ c[2] = "own" => c \in MountUsers
         /\ c[1] = "start" /\ c[2] = "homi" => c \in Starts("homi")
         /\ c[1] = "start" /\ c[2] = "qublk" => c \in Starts("qublk") /\ c \in HomiUsers
         /\ c[1] = "start" /\ c[2] = "xal" => c \in Starts("xal") /\ c \in UblkReaders
         /\ c[1] \in {"mkfs", "mount"} /\ c[2] = "nvme" => c \in NvmeUsers /\ c \in NvmeTakers
         /\ c[1] = "mkfs" => c \in Takes
         /\ c[1] \in {"mkfs", "mount"} /\ c[2] = "ublk" => c \in UblkUsers
         /\ c[1] = "mkfs" /\ c[2] = "ublk" => c \in Cmd({"mkfs"}, {"ublk"})
         /\ c[1] = "mount" => c \in Verb({"mount"})
         /\ c[1] = "mount" /\ c[2] = "ublk" => c \in Mounts("ublk")
         /\ c[1] = "fill" => c \in MountUsers
         /\ c[1] = "write" /\ c[2] = "homi" => c \in HomiUsers
         /\ c[1] = "write" /\ c[2] = "bdev" => c \in NvmeUsers
         /\ c[1] = "check" => c[2] \in {"bdev", "homi", "ublk", "direct", "daemons", "no_shm"}
         /\ c[1] = "check" /\ c[2] = "bdev" => c \in NvmeUsers
         /\ c[1] = "check" /\ c[2] = "homi" => c \in HomiUsers
         /\ c[1] = "check" /\ c[2] = "ublk" => c \in UblkReaders /\ c \in FileReaders
         /\ c[1] = "check" /\ c[2] = "direct" =>
              c \in HomiUsers /\ c \in IndexUsers /\ c \in FileReaders
         /\ c[1] = "check" /\ c[2] = "daemons" => c \in UblkUsers /\ c \in IndexUsers
         /\ c[1] = "check" /\ c[2] = "no_shm" => c \in Cmd({"check"}, {"no_shm"})
         /\ c[1] = "load" => c[2] \in {"own", "opends"} /\ c \in FileReaders
         /\ c[1] = "load" /\ c[2] = "own" => c \in Cmd({"load"}, {"own"})
         /\ c[1] = "load" /\ c[2] = "opends" =>
              c \in UblkReaders /\ c \in HomiUsers /\ c \in IndexUsers
         /\ c[1] \in Cleanly /\ c[2] = "homi" => c \in HomiUsers
         /\ c[1] \in Cleanly /\ c[2] = "qublk" => c \in Cmd(Cleanly, {"qublk"})
         /\ c[1] \in Cleanly /\ c[2] = "xal" => c \in Cmd(Cleanly, {"xal"})
<1>1. \A A, B : c \in A \X B => c[1] \in A /\ c[2] \in B
  OBVIOUS
<1>2. /\ c[1] = "check" => c[2] \in {"bdev", "homi", "ublk", "direct", "daemons", "no_shm"}
      /\ c[1] = "load" => c[2] \in {"own", "opends"}
  BY <1>1 DEF Commands
<1> QED
  BY <1>2 DEF Verb, Cmd, MountUsers, Starts, HomiUsers, UblkReaders, NvmeUsers, NvmeTakers,
     Binds, Takes,
     UblkUsers, Mounts, FileReaders, IndexUsers, Cleanly

\* No command of such a run fails for the state it finds, but bench_aisio's start of
\* qublk over the dead device of one that was lost.
LEMMA NotBroken ==
  ASSUME IInv, KnowInv, Running, ~fault, ~foreign, Broken
  PROVE  wf = "aisio" /\ ublk[Id(wf)] = "dead"
<1>1. /\ TypeOK /\ DriveInv /\ Op \in Commands /\ MountInv /\ Settled /\ Served
      /\ M \in Mnts /\ Id(wf) \in Ids /\ MntId(M) = Id(wf) /\ U("homi") = <<"homi", Id(wf)>>
  BY AtCommand DEF KnowInv, IInv, Going, Running, M, Mnt, Mnts, MntId, Id, Ids, U, UnitOf
<1>2. \A u \in up : u[1] = "homi" => u = U("homi")
  BY <1>1 DEF Served, Own, U, UnitOf
<1>3. ASSUME Op[1] = "umount", Op[2] = "own", mnt[M] = {}
      PROVE  FALSE
  BY <1>1, <1>3, NeedsOf, Finds
<1>4. ASSUME Op[1] = "bind", driver # Op[2], Holders # {}
      PROVE  FALSE
  <2>1. Holders \cap Own(wf) = {}
    BY <1>4, TakenWhenFree
  <2> QED
    BY <1>1, <1>4, <2>1 DEF Served, Holders
<1>5. ASSUME Op[1] = "start", ~CanStart(Op[2])
      PROVE  wf = "aisio" /\ ublk[Id(wf)] = "dead"
  <2>1. Op[2] \in {"homi", "qublk", "xal"}
    BY <1>1, <1>5, ArgTypes
  <2>2. CASE Op[2] = "homi"
    <3>1. driver = "user" /\ Holders \subseteq {U("homi")}
      BY <1>1, <1>2, <1>5, <2>2, NeedsOf, Finds DEF Holders
    <3> QED
      BY <1>5, <2>2, <3>1 DEF CanStart, U
  <2>3. CASE Op[2] = "qublk"
    <3>1. U("homi") \in up /\ (ublk[Id(wf)] = "none" \/ (wf = "aisio" /\ ublk[Id(wf)] = "dead"))
      BY <1>1, <1>5, <2>3, NeedsOf, Finds
    <3> QED
      BY <1>5, <2>3, <3>1 DEF CanStart, U
  <2>4. CASE Op[2] = "xal"
    <3>1. conf = M /\ "ublk" \in mnt[M] /\ ublk[Id(wf)] = "live"
      BY <1>1, <1>5, <2>4, NeedsOf, Finds, ReadyToIndex
    <3> QED
      BY <1>1, <1>5, <2>4, <3>1 DEF CanStart, Servable
  <2> QED
    BY <2>1, <2>2, <2>3, <2>4
<1>6. ASSUME Op[1] = "mkfs", ~CanFormat(Op[2])
      PROVE  FALSE
  <2>1. Op[2] \in {"nvme", "ublk"}
    BY <1>1, <1>6, ArgTypes
  <2>2. CASE Op[2] = "nvme"
    <3>1. driver = "nvme" /\ "nvme" \notin mnt[M] /\ MountedAt("nvme") \subseteq {M}
      BY <1>1, <1>6, <2>2, NeedsOf, Finds
    <3> QED
      BY <1>6, <2>2, <3>1 DEF CanFormat, Device, MountsOf, MountedAt
  <2>3. CASE Op[2] = "ublk"
    <3>1. /\ ublk[Id(wf)] = "live"
          /\ \A m \in Mnts : MntId(m) = Id(wf) => "ublk" \notin mnt[m]
      BY <1>1, <1>6, <2>3, NeedsOf, Finds
    <3> QED
      BY <1>6, <2>3, <3>1 DEF CanFormat, Device, MountsOf, MountedAt
  <2> QED
    BY <2>1, <2>2, <2>3
<1>7. ASSUME Op[1] = "mount", ~CanMount(Op[2])
      PROVE  FALSE
  <2>1. Op[2] \in {"nvme", "ublk"}
    BY <1>1, <1>7, ArgTypes
  <2>2. Op[2] = "nvme" => driver = "nvme" /\ "nvme" \notin mnt[M]
    BY <1>1, <1>7, NeedsOf, Finds
  <2>3. Op[2] = "ublk" => ublk[Id(wf)] = "live" /\ "ublk" \notin mnt[M]
    BY <1>1, <1>7, NeedsOf, Finds
  <2>4. fs # "junk"
    BY <1>1, <1>7, NeedsOf, Finds
  <2> QED
    BY <1>7, <2>1, <2>2, <2>3, <2>4 DEF CanMount, Device, M
<1>8. ASSUME Op[1] = "fill", ~CanFill
      PROVE  FALSE
  <2>1. mnt[M] \cap {"nvme", "ublk"} # {}
    BY <1>1, <1>8, NeedsOf, Finds
  <2> QED
    BY <1>8, <2>1 DEF CanFill, M
<1>9. ASSUME Op[1] = "write", ~CanWrite(Op[2])
      PROVE  FALSE
  <2>1. Op[2] \in {"homi", "bdev"}
    BY <1>1, <1>9, ArgTypes
  <2>2. (Op[2] = "homi" => U("homi") \in up) /\ (Op[2] = "bdev" => driver = "nvme")
    BY <1>1, <1>9, NeedsOf, Finds
  <2> QED
    BY <1>9, <2>1, <2>2 DEF CanWrite, U
<1>10. ASSUME Op[1] = "check", ~Holds(Op[2])
       PROVE  FALSE
  <2>1. Op[2] \in {"bdev", "homi", "ublk", "direct", "daemons", "no_shm"}
    BY <1>1, <1>10, NeedsOf
  <2>2. /\ Op[2] = "bdev" => driver = "nvme"
        /\ Op[2] \in {"homi", "direct"} => U("homi") \in up
        /\ Op[2] = "ublk" => ublk[Id(wf)] = "live" /\ "ublk" \in mnt[M]
    BY <1>1, <1>10, NeedsOf, Finds
  <2>3. /\ Op[2] \in {"ublk", "direct"} => fs = M
        /\ Op[2] \in {"direct", "daemons"} => shm[M] # "none"
        /\ Op[2] = "daemons" => ublk[Id(wf)] = "live"
        /\ Op[2] = "no_shm" => shm[M] = "none"
    BY <1>1, <1>10, NeedsOf, Finds
  <2> QED
    BY <1>10, <2>1, <2>2, <2>3 DEF Holds, U, M
<1>11. ASSUME Op[1] = "load", ~Loads(Op[2])
       PROVE  FALSE
  <2>1. Op[2] \in {"own", "opends"} /\ fs = M
    BY <1>1, <1>11, NeedsOf, Finds
  <2>2. /\ Op[2] = "own" => "nvme" \in mnt[M]
        /\ Op[2] = "opends" => "ublk" \in mnt[M] /\ ublk[Id(wf)] = "live" /\ U("homi") \in up
        /\ Op[2] = "opends" => shm[M] # "none"
    BY <1>1, <1>11, NeedsOf, Finds
  <2> QED
    BY <1>11, <2>1, <2>2 DEF Loads, U, M
<1> QED
  BY <1>3, <1>4, <1>5, <1>6, <1>7, <1>8, <1>9, <1>10, <1>11 DEF Broken, At, Arg, M

\* Nor does one that stops a unit fail: the unit runs, and has not been restarted.
LEMMA StopsCleanly ==
  ASSUME IInv, KnowInv, Running, ~fault, ~foreign, Op[1] \in Cleanly
  PROVE  UnitOf(Op[2], wf) \in up \ died
<1>1. Op \in Commands /\ Op[2] \in {"homi", "qublk", "xal"}
  BY AtCommand, ArgTypes DEF IInv, Cleanly
<1>2. /\ Op[2] = "homi" => U("homi") \in up \ died
      /\ Op[2] = "qublk" => U("qublk") \in up \ died
      /\ Op[2] = "xal" => U("xal") \in up \ died
  BY <1>1, NeedsOf, Finds
<1> QED
  BY <1>1, <1>2 DEF U

\* A run fails only for a fault of its own, whatever was left behind, or for units of the
\* other id or, in bench_aisio, a dead ublk device; it is refused only for a mount that was
\* there when it began.
LEMMA RerunNext ==
  ASSUME Inv, RerunSucceeds, [Next]_vars
  PROVE  RerunSucceeds'
<1>1. IInv /\ KnowInv /\ LookInv /\ SpreadInv /\ TypeOK
  BY DEF Inv, IInv
<1>2. ASSUME Running, outcome' = "failed", UNCHANGED <<wf, ublk, fault, foreign>>,
             Broken \/ (Op[1] \in Cleanly /\ UnitOf(Op[2], wf) \notin up \ died)
      PROVE  RerunSucceeds'
  BY <1>1, <1>2, NotBroken, StopsCleanly DEF RerunSucceeds, TypeOK
<1>3. ASSUME outcome' \notin {"failed", "refused"}
      PROVE  RerunSucceeds'
  BY <1>3 DEF RerunSucceeds
<1>4. CASE Command
  <2>1. CASE CommandFails
    BY <1>2, <2>1 DEF CommandFails, EndRun, driveVars, histVars, Broken, At
  <2>2. CASE Look \/ Stop \/ StopResult
    <3>5. ASSUME Stop
          PROVE  /\ Running /\ Op[1] = "stop"
                 /\ \/ StepOn
                    \/ /\ UNCHANGED histVars /\ EndRun("failed")
                       /\ UnitOf(Op[2], wf) \notin up \ died
      BY <1>1, <3>5 DEF Stop, At, Arg, Advance, LookInv
    <3>6. ASSUME StopResult \/ Look
          PROVE  /\ Running /\ Op[1] \in {"stop", "stop_result"}
                 /\ \/ StepOn \/ outcome' = outcome
                    \/ /\ UNCHANGED histVars /\ EndRun("failed")
                       /\ UnitOf(Op[2], wf) \notin up \ died
      BY <3>6 DEF StopResult, Look, At, Arg, Advance
    <3>1. /\ Running /\ Op[1] \in Cleanly
          /\ \/ StepOn \/ outcome' = outcome
             \/ /\ UNCHANGED histVars /\ EndRun("failed")
                /\ UnitOf(Op[2], wf) \notin up \ died
      BY <2>2, <3>5, <3>6 DEF Cleanly
    <3>2. CASE StepOn \/ outcome' = outcome
      BY <1>1, <1>3, <3>1, <3>2, NextCommand DEF IInv, Running
    <3>3. CASE (fault \/ foreign) /\ UNCHANGED histVars /\ EndRun("failed")
      BY <3>3 DEF EndRun, RerunSucceeds, histVars
    <3>4. CASE ~fault /\ ~foreign
      BY <1>1, <3>1, <3>2, <3>4, StopsCleanly
    <3> QED
      BY <1>1, <3>1, <3>2, <3>3, <3>4 DEF TypeOK
  <2>3. CASE Guard
    <3>1. Running /\ (StepOn \/ (~GuardPasses /\ outcome' = "refused")) /\ UNCHANGED <<fault, spread>>
      BY <2>3 DEF Guard, At, EndRun
    <3>2. CASE StepOn
      BY <1>1, <1>3, <3>1, <3>2, NextCommand DEF IInv
    <3>3. CASE ~GuardPasses /\ outcome' = "refused"
      BY <1>1, <2>3, <3>1, <3>3, RefusedForSpread DEF Guard, RerunSucceeds
    <3> QED
      BY <3>1, <3>2, <3>3
  <2>4. CASE Umount \/ StopUnits \/ QublkDel \/ RmShm \/ Configured \/ Check \/ Load
    <3>1. Running /\ StepOn
      BY <2>4 DEF Umount, StopUnits, QublkDel, RmShm, Configured, Check, Load, At, Advance
    <3> QED
      BY <1>1, <1>3, <3>1, NextCommand DEF IInv
  <2>5. CASE Bind \/ Start \/ SystemctlStop \/ Mkfs \/ Mount \/ Fill \/ Write
    <3>1. Running /\ StepOn
      BY <2>5 DEF Bind, Start, SystemctlStop, Mkfs, Mount, Fill, Write, At, Advance
    <3> QED
      BY <1>1, <1>3, <3>1, NextCommand DEF IInv
  <2> QED
    BY <1>4, <2>1, <2>2, <2>3, <2>4, <2>5 DEF Command
<1>5. CASE Fault
  <2>1. fault'
    BY <1>5 DEF Fault, UnitDies, OtherFailure, UmountBusy, MountedElsewhere, Reboot, Strikes
  <2> QED
    BY <2>1 DEF RerunSucceeds
<1>6. CASE \E w \in Workflows : Begin(w)
  BY <1>3, <1>6 DEF Begin
<1>7. CASE UNCHANGED vars
  BY <1>7 DEF vars, driveVars, histVars, RerunSucceeds
<1> QED
  BY <1>4, <1>5, <1>6, <1>7 DEF Next

\* Whatever an earlier run left behind, failed at any of its commands, a run does not
\* fail for it; it is refused for a mount left where its look does not accept one.
THEOREM Reruns == Spec => []RerunSucceeds
<1>1. Init => Inv /\ RerunSucceeds
  BY InvInit DEF Init, RerunSucceeds
<1>2. Inv /\ RerunSucceeds /\ [Next]_vars => Inv' /\ RerunSucceeds'
  BY InvNext, RerunNext
<1> QED
  BY <1>1, <1>2, PTL DEF Spec
=============================================================================
