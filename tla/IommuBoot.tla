------------------------------ MODULE IommuBoot ------------------------------
(***************************************************************************)
(* The boots of tasks/bench_iommu_overhead_{host,gpu}.yaml: for each half  *)
(* of the comparison scripts/iommu_boot.py has the target's grub           *)
(* configuration rewritten (auxiliary/iommu_grub_update.py), the target is *)
(* rebooted, waited for and looked at, and the half is measured (module    *)
(* IommuOverhead).                                                         *)
(*                                                                         *)
(* The script on the target makes three writes, and the target can go down *)
(* between and within them; a workflow that fails is run again, or the     *)
(* operator recovers from the backup.                                      *)
(***************************************************************************)
EXTENDS Integers, Sequences

CONSTANTS
  Lines,      \* the tokens GRUB_CMDLINE_LINUX_DEFAULT may have before all this
  BaseLines,  \* those of GRUB_CMDLINE_LINUX, which nothing here edits
  Torn,       \* the writes a crash can tear
  MaxRuns,    \* bound: runs of the workflow
  MaxFaults   \* bound: faults

Tokens == {"vendor_on", "vendor_off", "other_on", "other_off", "iommu_off", "iommu_pt",
           "strict_0", "strict_1", "quiet", "splash"}

ASSUME BootAssumption ==
  /\ Lines \subseteq Seq(Tokens) /\ BaseLines \subseteq Seq(Tokens)
  /\ Torn \subseteq {"backup", "write"}
  /\ MaxRuns \in Nat /\ MaxFaults \in Nat

VARIABLES
  \* the target's files
  grub,     \* /etc/default/grub
  backup,   \* /etc/default/grub.aisio-iommu-overhead.bak
  loaded,   \* the DEFAULT tokens in what the boot loader reads
  \* the target
  machine,  \* it is up or down
  pending,  \* a reboot is scheduled
  cmdline,  \* /proc/cmdline
  base, hardware, effective, strict,
  \* the workflow
  pc, outcome,
  text,     \* what the script on the target has read
  measured, \* the halves that were measured, and in which boot
  \* history and bounds
  orig,     \* /etc/default/grub before all this
  damaged,  \* a crash has torn /etc/default/grub
  runs, faults

fileVars  == <<grub, backup, loaded>>
bootVars  == <<machine, pending, cmdline>>
fixedVars == <<base, hardware, effective, strict, orig>>
vars == <<fileVars, bootVars, fixedVars, pc, outcome, text, measured, damaged, runs, faults>>

-----------------------------------------------------------------------------
(* The grub configuration *)

\* A file: its other lines, whether it has a DEFAULT line, and that one's tokens
NoFile    == [is |-> "none", line |-> FALSE, tokens |-> << >>]
EmptyFile == [is |-> "empty", line |-> FALSE, tokens |-> << >>]
File(line, tokens) == [is |-> "whole", line |-> line, tokens |-> tokens]

DropTokens == {"vendor_on", "vendor_off", "other_on", "other_off", "iommu_off", "iommu_pt",
               "strict_0", "strict_1"}

TokensForMode(mode) ==
  << IF mode = "on" THEN "vendor_on" ELSE "vendor_off" >>
  \o IF mode = "on" /\ strict THEN << "strict_1" >> ELSE << >>

\* The tokens that are among those kept, in their order
Only(tokens, kept) ==
  LET only[i \in 0..Len(tokens)] ==
        IF i = 0 THEN << >>
        ELSE IF tokens[i] \in kept THEN Append(only[i - 1], tokens[i]) ELSE only[i - 1]
  IN  only[Len(tokens)]

\* Mutant of Updated: what an earlier run has put there stays there
UpdatedAppend(mode) == [text EXCEPT !.line = TRUE, !.tokens = @ \o TokensForMode(mode)]

\* The tokens of the mode replace those of any; a line that is not there is added
Updated(mode) ==
  [text EXCEPT !.line = TRUE,
               !.tokens = Only(@, Tokens \ DropTokens) \o TokensForMode(mode)]

Has(tokens, t) == \E i \in DOMAIN tokens : tokens[i] = t

\* cmdline_has_iommu_off: of either vendor
HasOff == \E t \in {"vendor_off", "other_off", "iommu_off"} : Has(cmdline, t)

\* The kernel: the last of the vendor's tokens counts, and without one its default
Units ==
  LET mine == Only(cmdline, {"vendor_on", "vendor_off"})
  IN  /\ hardware # "none" /\ ~Has(cmdline, "iommu_off")
      /\ IF mine = << >> THEN hardware = "default_on" ELSE mine[Len(mine)] = "vendor_on"

-----------------------------------------------------------------------------
(* The workflow *)

Program ==
  << <<"kernel", "">>,
     <<"backup", "off">>, <<"write", "off">>, <<"update", "off">>, <<"reboot", "off">>,
     <<"wait", "down">>, <<"wait", "up">>, <<"verify", "off">>, <<"bench", "off">>,
     <<"backup", "on">>, <<"write", "on">>, <<"update", "on">>, <<"reboot", "on">>,
     <<"wait", "down">>, <<"wait", "up">>, <<"verify", "on">>, <<"bench", "on">>,
     <<"combine", "">> >>

Running == outcome = "running"
Op      == Program[pc]
At(op)  == Running /\ Op[1] = op
Mode    == Op[2]

\* Mutant of Advance: the last step is not the last
AdvancePast ==
  /\ pc' = pc + 1
  /\ outcome' = IF pc > Len(Program) THEN "ok" ELSE "running"
  /\ UNCHANGED <<fixedVars, runs, faults>>

Advance ==
  /\ IF pc = Len(Program) THEN outcome' = "ok" /\ UNCHANGED pc
                          ELSE pc' = pc + 1 /\ UNCHANGED outcome
  /\ UNCHANGED <<fixedVars, runs, faults>>

Fails ==
  /\ outcome' = "failed"
  /\ UNCHANGED <<fileVars, bootVars, fixedVars, pc, text, measured, damaged, runs, faults>>

Begin ==
  /\ ~Running /\ runs < MaxRuns
  /\ pc' = 1 /\ outcome' = "running" /\ runs' = runs + 1
  /\ UNCHANGED <<fileVars, bootVars, fixedVars, text, measured, damaged, faults>>

\* Before any edit, so that a kernel that is too old costs no reboot; and the
\* report at the end
CheckOrCombine ==
  /\ (At("kernel") /\ machine = "up") \/ At("combine")
  /\ Advance
  /\ UNCHANGED <<fileVars, bootVars, text, measured, damaged>>

\* Mutant of BackedUp: every run backs up what it finds
BackedUpAnew == grub

BackedUp == IF backup = NoFile THEN grub ELSE backup

Backup ==
  /\ At("backup") /\ machine = "up"
  /\ text' = grub
  /\ backup' = BackedUp
  /\ Advance
  /\ UNCHANGED <<grub, loaded, bootVars, measured, damaged>>

WriteGrub ==
  /\ At("write") /\ machine = "up"
  /\ grub' = Updated(Mode)
  /\ Advance
  /\ UNCHANGED <<backup, loaded, bootVars, text, measured, damaged>>

\* update-grub, which is of no effect where the boot loader reads another file
UpdateGrub ==
  /\ At("update") /\ machine = "up"
  /\ loaded' = IF effective THEN grub.tokens ELSE loaded
  /\ Advance
  /\ UNCHANGED <<grub, backup, bootVars, text, measured, damaged>>

\* systemd-run --on-active=2: the step ends before the target goes down
ScheduleReboot ==
  /\ At("reboot") /\ machine = "up"
  /\ pending' = TRUE
  /\ Advance
  /\ UNCHANGED <<fileVars, machine, cmdline, text, measured, damaged>>

\* Mutant of Reached: there is no waiting for the target to be down
ReachedUp == machine = "up" \/ Mode = "down"

Reached == machine = Mode

\* Mutant of GivesUp: wait_for_target has no timeout
NeverGivesUp == FALSE

GivesUp == ~Reached

Wait ==
  /\ At("wait")
  /\ \/ Reached /\ Advance /\ UNCHANGED <<fileVars, bootVars, text, measured, damaged>>
     \/ GivesUp /\ Fails

\* Mutant of Verified: what the boot was configured to be is taken for granted
VerifiedUnits == (Mode = "on") = Units

Verified ==
  /\ (Mode = "off") = HasOff
  /\ (Mode = "on") = Units
  /\ Mode = "on" /\ strict => Has(cmdline, "strict_1")

VerifyMode ==
  /\ At("verify") /\ machine = "up"
  /\ \/ Verified /\ Advance /\ UNCHANGED <<fileVars, bootVars, text, measured, damaged>>
     \/ ~Verified /\ Fails

\* iommu_overhead.py, which looks at the units itself and not at the rest
Bench ==
  /\ At("bench") /\ machine = "up"
  /\ \/ /\ (Mode = "on") = Units
        /\ measured' = measured \cup
             {[mode |-> Mode, off |-> HasOff, units |-> Units,
               strict |-> Has(cmdline, "strict_1")]}
        /\ Advance
        /\ UNCHANGED <<fileVars, bootVars, text, damaged>>
     \/ (Mode = "on") # Units /\ Fails

\* A command on a target that is not there
Unreachable == Running /\ machine = "down" /\ Op[1] \notin {"wait", "combine"} /\ Fails

Step ==
  \/ CheckOrCombine \/ Backup \/ WriteGrub \/ UpdateGrub \/ ScheduleReboot \/ Wait
  \/ VerifyMode \/ Bench \/ Unreachable

-----------------------------------------------------------------------------
(* The target, its operator, and faults *)

\* A reboot takes the script on the target with it
Down(inScript) ==
  /\ machine' = "down"
  /\ outcome' = IF inScript THEN "failed" ELSE outcome
  /\ UNCHANGED <<loaded, pending, cmdline, fixedVars, pc, text, measured, runs>>

GoesDown ==
  /\ machine = "up" /\ pending
  /\ Down(At("write") \/ At("update"))
  /\ UNCHANGED <<grub, backup, damaged, faults>>

ComesUp ==
  /\ machine = "down"
  /\ machine' = "up" /\ pending' = FALSE
  /\ cmdline' = base \o loaded
  /\ UNCHANGED <<fileVars, fixedVars, pc, outcome, text, measured, damaged, runs, faults>>

Strikes == faults < MaxFaults /\ faults' = faults + 1

\* At any time, and within a write: the file is there, and empty
Crash ==
  /\ machine = "up" /\ Strikes
  /\ \/ Down(At("write") \/ At("update")) /\ UNCHANGED <<grub, backup, damaged>>
     \/ /\ At("write") /\ "write" \in Torn /\ Down(TRUE)
        /\ grub' = EmptyFile /\ damaged' = TRUE /\ UNCHANGED backup
     \/ /\ At("backup") /\ "backup" \in Torn /\ backup = NoFile /\ Down(TRUE)
        /\ backup' = EmptyFile /\ UNCHANGED <<grub, damaged>>

\* The workflow is killed, or a command fails for a reason of its own
Abort ==
  /\ Running /\ Strikes
  /\ outcome' = "failed"
  /\ UNCHANGED <<fileVars, bootVars, fixedVars, pc, text, measured, damaged, runs>>

\* The workflow's doc: cp the backup over the file, update-grub, and reboot
Recover ==
  /\ ~Running /\ machine = "up" /\ backup.is = "whole" /\ grub # backup
  /\ grub' = backup /\ damaged' = FALSE
  /\ loaded' = IF effective THEN backup.tokens ELSE loaded
  /\ pending' = TRUE
  /\ UNCHANGED <<backup, machine, cmdline, fixedVars, pc, outcome, text, measured, runs, faults>>

-----------------------------------------------------------------------------

Init ==
  /\ \/ \E l \in Lines : grub = File(TRUE, l)
     \/ grub = File(FALSE, << >>)
  /\ orig = grub /\ backup = NoFile /\ loaded = grub.tokens
  /\ base \in BaseLines
  /\ machine = "up" /\ pending = FALSE /\ cmdline = base \o loaded
  /\ hardware \in {"none", "default_off", "default_on"}
  /\ effective \in BOOLEAN /\ strict \in BOOLEAN
  /\ pc = 1 /\ outcome = "none" /\ text = NoFile /\ measured = {} /\ damaged = FALSE
  /\ runs = 0 /\ faults = 0

Next == Step \/ GoesDown \/ ComesUp \/ Crash \/ Abort \/ Recover \/ Begin

Spec == Init /\ [][Next]_vars

\* The workflow runs on; a target that goes down may well stay down
FairSpec == Spec /\ WF_vars(Step)

-----------------------------------------------------------------------------
(* Properties *)

Files == [is : {"none", "empty", "whole"}, line : BOOLEAN, tokens : Seq(Tokens)]

\* The type of every variable; a running workflow is at one of its steps.
TypeOK ==
  /\ grub \in Files /\ backup \in Files /\ text \in Files /\ orig \in Files
  /\ loaded \in Seq(Tokens) /\ cmdline \in Seq(Tokens) /\ base \in Seq(Tokens)
  /\ machine \in {"up", "down"} /\ pending \in BOOLEAN
  /\ hardware \in {"none", "default_off", "default_on"}
  /\ effective \in BOOLEAN /\ strict \in BOOLEAN /\ damaged \in BOOLEAN
  /\ pc \in 1..18 /\ outcome \in {"none", "running", "ok", "failed"}
  /\ measured \subseteq [mode : {"off", "on"}, off : BOOLEAN, units : BOOLEAN,
                     strict : BOOLEAN]
  /\ runs \in 0..MaxRuns /\ faults \in 0..MaxFaults

\* "Before the first edit, the original grub config is copied": the operator can
\* always get back what was there before the first run, whatever has crashed,
\* been run again and recovered since.
OriginalNeverLost == grub = orig \/ backup = orig

\* Unless a crash tears the file, only the IOMMU's tokens change, and those of
\* one mode do not pile up on those of another, however many runs there are.
OnlyIommuTokensChange ==
  ~damaged =>
    LET others(f) == Only(f.tokens, Tokens \ DropTokens)
        of(f)     == Only(f.tokens, DropTokens)
    IN  /\ others(grub) = others(orig) /\ grub.is = "whole"
        /\ of(grub) \in {of(orig), << "vendor_off" >>, << "vendor_on" >>,
                         << "vendor_on", "strict_1" >>}

\* No half is measured with the reboot that was to come before it still to come.
RebootIsOver == At("verify") \/ At("bench") => ~pending

\* A half is of a boot that was asked to be in its mode and is, and with
\* iommu_strict of a strict one, also when the boot loader reads another
\* configuration, the firmware has switched the IOMMU off, or the target crashes
\* between the look at it and the measurement.
MeasuredAsConfigured ==
  \A h \in measured : /\ h.units = (h.mode = "on") /\ h.off = (h.mode = "off")
                      /\ h.mode = "on" /\ strict => h.strict

\* The workflow ends, also when the target does not come back.
WorkflowEnds == Running ~> ~Running
=============================================================================
