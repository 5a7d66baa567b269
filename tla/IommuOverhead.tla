--------------------------- MODULE IommuOverhead ---------------------------
(***************************************************************************)
(* scripts/iommu_overhead.py: the collection of one result file per        *)
(* workload, repetition and (for fio) device, once in a boot without an    *)
(* enforcing IOMMU, label "uio", and once in a boot with one, "vfio"; and  *)
(* the pairing of the two by scripts/iommu_overhead_combine.py.            *)
(*                                                                         *)
(* A collection skips what an earlier one has left in the results          *)
(* directory, so what matters is every point at which one can stop: an     *)
(* error, an exception, a kill, a reboot.  What a runner measures is       *)
(* abstracted away; who measured it, and in which boot, is kept.           *)
(***************************************************************************)
EXTENDS Integers, FiniteSets

CONSTANTS
  DeviceSets, \* the values of [[devices]] in the configuration, over time
  Cases,      \* the number of workload cases
  Repeat,     \* iommu_overhead.repeat
  Retries,    \* VFIO_DEVICE_OPEN_RETRIES
  MaxRuns,    \* bound: collections
  MaxFaults   \* bound: kills, reboots, torn writes and commands on the target that fail

ASSUME OverheadAssumption ==
  /\ DeviceSets # {} /\ \A D \in DeviceSets : D # {} /\ IsFiniteSet(D)
  /\ {Cases, Repeat, Retries} \subseteq Nat \ {0}
  /\ MaxRuns \in Nat /\ MaxFaults \in Nat

VARIABLES
  \* the machine
  enforcing, \* booted with an enforcing IOMMU
  bound,     \* the driver the devices are bound to
  devs,      \* [[devices]]
  rows,      \* the result files
  \* the collection
  pc, label, runner, case, rep,
  attempt,   \* of run_with_vfio_retry
  todo,      \* the devices whose row is still to be written
  ret,       \* how main() ended
  \* history and bounds
  misread,   \* this collection's look at the IOMMU units failed
  stuck,     \* the last reset of the drives failed
  run, faults

machineVars == <<enforcing, bound, devs>>
jobVars     == <<runner, case, rep>>
locals      == <<jobVars, attempt, todo>>
lapses      == <<misread, stuck>>
vars == <<machineVars, rows, pc, label, locals, ret, lapses, run, faults>>

Devices == UNION DeviceSets
Labels  == {"uio", "vfio"}
Runners == {"xnvmeperf", "fio"}

\* The driver of a label, in every task, is the one that needs that boot
Expected(l) == l = "vfio"

\* xnvmeperf's one row names no device: it is summed over all of them
Targets == IF runner = "fio" THEN devs ELSE {"all"}

\* A result file: the fields of its name, what is in it, and who wrote it when
Row(d, whole) ==
  [label |-> label, runner |-> runner, case |-> case, rep |-> rep,
   devcount |-> Cardinality(devs), dev |-> d,
   whole |-> whole, run |-> run, boot |-> enforcing, misread |-> misread]

Exists(d) ==
  \E r \in rows : /\ r.rep = rep /\ r.case = case /\ r.dev = d /\ r.runner = runner
                  /\ r.label = label /\ r.devcount = Cardinality(devs)
Existing == {d \in Targets : Exists(d)}

-----------------------------------------------------------------------------

\* main() is gone, and its locals with it
Ended(value) ==
  /\ pc' = "idle" /\ ret' = value
  /\ runner' = "xnvmeperf" /\ case' = 1 /\ rep' = 1
  /\ attempt' = 1 /\ todo' = {}

Begin(l) ==
  /\ pc = "idle" /\ run < MaxRuns
  /\ pc' = "check"
  /\ label' = l
  /\ ret' = "none"
  /\ run' = run + 1
  /\ UNCHANGED <<machineVars, rows, locals, lapses, faults>>

Strikes == faults < MaxFaults /\ faults' = faults + 1

\* Mutant of BootMatches: an empty sysfs directory is enough for either driver
BootPresent(units) == label = "uio" => ~units

BootMatches(units) == units = Expected(label)

\* Whether sysfs has any IOMMU unit: to a command that fails it has none
UnitsSeen(units) ==
  \/ units = enforcing /\ misread' = FALSE /\ UNCHANGED faults
  \/ enforcing /\ ~units /\ misread' = TRUE /\ Strikes

\* The configuration, the boot and the CPU pinning; nothing is touched yet
CheckIommuState ==
  /\ pc = "check"
  /\ \E units \in BOOLEAN :
       /\ UnitsSeen(units)
       /\ \/ BootMatches(units) /\ pc' = "bind" /\ UNCHANGED <<ret, locals>>
          \/ Ended("refused")
  /\ UNCHANGED <<machineVars, rows, label, stuck, run>>

\* The finally clause, or the reset after a failed bind
Finish(value) == pc' = "reset" /\ ret' = value

BindDriver ==
  /\ pc = "bind"
  /\ \/ bound' = "user" /\ pc' = "job" /\ UNCHANGED ret
     \/ bound' \in {"nvme", "user"} /\ Finish("failed")
  /\ runner' = "xnvmeperf" /\ case' = 1 /\ rep' = 1
  /\ UNCHANGED <<enforcing, devs, rows, label, attempt, todo, lapses, run, faults>>

\* The next repetition, case or runner, in that order
Proceed ==
  \/ rep < Repeat /\ rep' = rep + 1 /\ pc' = "job" /\ UNCHANGED <<case, runner, ret>>
  \/ /\ rep = Repeat /\ case < Cases
     /\ rep' = 1 /\ case' = case + 1 /\ pc' = "job"
     /\ UNCHANGED <<runner, ret>>
  \/ /\ rep = Repeat /\ case = Cases /\ runner = "xnvmeperf"
     /\ rep' = 1 /\ case' = 1 /\ runner' = "fio" /\ pc' = "job"
     /\ UNCHANGED ret
  \/ /\ rep = Repeat /\ case = Cases /\ runner = "fio"
     /\ Finish("ok") /\ UNCHANGED jobVars

\* Mutant of JobDone: one device's row is enough
JobStarted == Existing # {}

JobDone == Existing = Targets

\* Mutant of JobPartial: the rows that are missing are added to those there
JobNeverPartial == FALSE

JobPartial == Existing # {} /\ ~JobDone

SkipOrRun ==
  /\ pc = "job"
  /\ \/ JobDone /\ Proceed /\ UNCHANGED attempt
     \/ JobPartial /\ Finish("EEXIST") /\ UNCHANGED <<jobVars, attempt>>
     \/ /\ ~JobDone /\ ~JobPartial
        /\ pc' = "run" /\ attempt' = 1 /\ UNCHANGED <<jobVars, ret>>
  /\ UNCHANGED <<machineVars, rows, label, todo, lapses, run, faults>>

\* Mutants of RetryAfter: one retry too many, and a count that starts over
RetryOnceMore == attempt <= Retries /\ attempt' = attempt + 1
RetryForever  == attempt' = (attempt % Retries) + 1

\* Only vfio-pci's device open is known to return EAGAIN for no lasting reason
RetryAfter == attempt < (IF label = "vfio" THEN Retries ELSE 1) /\ attempt' = attempt + 1

\* It ran; the device open returned EAGAIN; or it failed, or what it printed does
RunWorkload ==
  /\ pc = "run"
  /\ \/ pc' = "write" /\ todo' = Targets /\ UNCHANGED <<attempt, ret>>
     \/ RetryAfter /\ UNCHANGED <<pc, todo, ret>>
     \/ Finish("failed") /\ UNCHANGED <<attempt, todo>>
  /\ UNCHANGED <<machineVars, rows, label, jobVars, lapses, run, faults>>

\* open("x"), which an existing file makes fail
WriteResult ==
  /\ pc = "write"
  /\ \E d \in todo :
       \/ /\ ~Exists(d)
          /\ rows' = rows \cup {Row(d, TRUE)}
          /\ todo' = todo \ {d}
          /\ IF todo' = {} THEN Proceed ELSE UNCHANGED <<jobVars, pc, ret>>
       \/ /\ Exists(d)
          /\ Finish("failed") /\ UNCHANGED <<rows, todo, jobVars>>
  /\ UNCHANGED <<machineVars, label, attempt, lapses, run, faults>>

\* Mutant of ResetDriver: the drives are given back only at the end of it all
ResetDriverAtEnd == bound' = IF ret = "ok" THEN "nvme" ELSE bound

ResetDriver == bound' = "nvme"

\* A drive that cannot be bound is left where it is ('|| true'), and so are all of them
\* when the command does not get through; main() does not look, and returns what it had
Reset ==
  /\ pc = "reset"
  /\ \/ ResetDriver /\ stuck' = FALSE /\ UNCHANGED faults
     \/ UNCHANGED bound /\ stuck' = TRUE /\ Strikes
  /\ Ended(ret)
  /\ UNCHANGED <<enforcing, devs, rows, label, misread, run>>

-----------------------------------------------------------------------------
(* Faults and the operator *)

Kill ==
  /\ pc # "idle" /\ Strikes
  /\ Ended("killed")
  /\ UNCHANGED <<machineVars, rows, label, lapses, run>>

\* The file is there and the result is not, all of it: a full disk raises an
\* exception, a kill does not even do that
TornWrite ==
  /\ pc = "write" /\ Strikes
  /\ \E d \in todo : ~Exists(d) /\ rows' = rows \cup {Row(d, FALSE)}
  /\ \/ Finish("failed") /\ UNCHANGED locals
     \/ Ended("killed")
  /\ UNCHANGED <<machineVars, label, lapses, run>>

\* The task's own reboot into the other mode, or one nobody asked for
Reboot ==
  /\ pc # "idle" => Strikes
  /\ pc = "idle" => UNCHANGED faults
  /\ enforcing' \in BOOLEAN
  /\ bound' = "nvme"
  /\ Ended(IF pc = "idle" THEN ret ELSE "killed")
  /\ UNCHANGED <<devs, rows, label, lapses, run>>

Reconfigure ==
  /\ pc = "idle"
  /\ devs' \in DeviceSets \ {devs}
  /\ ret' = "none"
  /\ UNCHANGED <<enforcing, bound, rows, pc, label, locals, lapses, run, faults>>

-----------------------------------------------------------------------------
(* iommu_overhead_combine.py *)

\* What aggregate_devices sums: repetitions averaged first, then the devices
Totals == {[label |-> r.label, runner |-> r.runner, case |-> r.case,
            devcount |-> r.devcount] : r \in rows}

DevsOf(t) == {r.dev : r \in {s \in rows :
                /\ s.label = t.label /\ s.runner = t.runner
                /\ s.case = t.case /\ s.devcount = t.devcount}}

\* Mutant of Refused: a group that is short of devices is summed as it is
RefusedMixed ==
  \E t \in Totals : t.runner = "fio" /\ Cardinality(DevsOf(t)) > t.devcount

\* One fio row per device
Refused ==
  \E t \in Totals : t.runner = "fio" /\ Cardinality(DevsOf(t)) # t.devcount

\* A workload that was measured in both boots
PairKey(t) == [runner |-> t.runner, case |-> t.case, devcount |-> t.devcount]
Pairs == {PairKey(t) : t \in {u \in Totals : u.label = "uio"}}
         \cap {PairKey(t) : t \in {u \in Totals : u.label = "vfio"}}

Side(p, l) == [label |-> l, runner |-> p.runner, case |-> p.case, devcount |-> p.devcount]

\* A torn file is no JSON, and json.load raises
Combinable == (\A r \in rows : r.whole) /\ ~Refused

\* benchmark-results.json, whenever the report is made between collections
Report ==
  IF pc = "idle" /\ Combinable
    THEN {[pair |-> p, off |-> DevsOf(Side(p, "uio")), on |-> DevsOf(Side(p, "vfio"))]
            : p \in Pairs}
    ELSE {}

-----------------------------------------------------------------------------

Init ==
  /\ enforcing \in BOOLEAN /\ bound = "nvme" /\ devs \in DeviceSets
  /\ rows = {}
  /\ pc = "idle" /\ label = "uio" /\ ret = "none"
  /\ runner = "xnvmeperf" /\ case = 1 /\ rep = 1 /\ attempt = 1 /\ todo = {}
  /\ misread = FALSE /\ stuck = FALSE /\ run = 0 /\ faults = 0

Step == CheckIommuState \/ BindDriver \/ SkipOrRun \/ RunWorkload \/ WriteResult \/ Reset

Next ==
  \/ Step \/ Kill \/ TornWrite \/ Reboot \/ Reconfigure
  \/ \E l \in Labels : Begin(l)

Spec == Init /\ [][Next]_vars

\* The script runs on; xnvmeperf and fio are given a runtime and end
FairSpec == Spec /\ WF_vars(Step)

-----------------------------------------------------------------------------
(* Properties *)

ResultFiles ==
  [label : Labels, runner : Runners, case : 1..Cases, rep : 1..Repeat, devcount : Nat,
   dev : Devices \cup {"all"}, whole : BOOLEAN, run : 1..MaxRuns, boot : BOOLEAN,
   misread : BOOLEAN]

\* The type of every variable.
TypeOK ==
  /\ enforcing \in BOOLEAN /\ bound \in {"nvme", "user"} /\ devs \in DeviceSets
  /\ rows \subseteq ResultFiles
  /\ pc \in {"idle", "check", "bind", "job", "run", "write", "reset"}
  /\ label \in Labels /\ runner \in Runners
  /\ case \in 1..Cases /\ rep \in 1..Repeat /\ attempt \in 1..Retries
  /\ todo \subseteq Devices \cup {"all"}
  /\ ret \in {"none", "ok", "refused", "failed", "EEXIST", "killed"}
  /\ misread \in BOOLEAN /\ stuck \in BOOLEAN
  /\ run \in 0..MaxRuns /\ faults \in 0..MaxFaults

\* No result was measured in the other boot than its label says, whatever was
\* rebooted, aborted and resumed in between: the comparison rests on it.  The check is
\* open on one side: a command that fails reads as "no IOMMU", so a "uio" result of a
\* collection whose look failed may be of either boot.  A "vfio" result never is.
LabelMatchesBoot ==
  \A r \in rows : r.boot = Expected(r.label) \/ (r.label = "uio" /\ r.misread)

\* fio_pass: "a run that stopped part way through a case is refused rather than
\* mixed with a new one".  All fio rows of a repetition are of one collection.
RowsFromOneRun ==
  \A r \in rows, s \in rows :
    r.rep = s.rep /\ r.case = s.case /\ r.runner = "fio" /\ s.runner = "fio"
    /\ r.label = s.label /\ r.devcount = s.devcount => r.run = s.run

\* A collection that ends well has left every row of every workload.
CompleteHasAllRows ==
  ret = "ok" =>
    \A c \in 1..Cases, p \in 1..Repeat, d \in devs \cup {"all"} :
      \E r \in rows : /\ r.case = c /\ r.rep = p /\ r.dev = d /\ r.label = label
                      /\ r.devcount = Cardinality(devs)

\* Once main() has bound the drives it gives them back to the kernel, whatever fails in
\* between; only a kill leaves them bound, or a reset that failed itself, and that main()
\* does not report: it may return 0 then.
DrivesHandedBack ==
  pc = "idle" /\ ret \in {"ok", "failed", "EEXIST"} => bound = "nvme" \/ stuck

\* A report only sums fio rows of all configured devices, and never the part of
\* them a stopped collection got to.
ReportsWholeDeviceSets ==
  \A i \in Report : i.pair.runner = "fio" => i.off \in DeviceSets /\ i.on \in DeviceSets

\* A collection ends: no device that keeps returning EAGAIN can hold it up.
RunEnds == pc # "idle" ~> pc = "idle"
=============================================================================
