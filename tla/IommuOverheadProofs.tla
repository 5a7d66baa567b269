------------------------ MODULE IommuOverheadProofs ------------------------
(***************************************************************************)
(* What holds of IommuOverhead for every configuration, whatever fails, is *)
(* killed, rebooted and resumed, and however often.                        *)
(***************************************************************************)
EXTENDS IommuOverhead, FiniteSetTheorems, TLAPS

\* No two values of [[devices]] have as many devices and are not the same
SizesDiffer ==
  \A D, E \in DeviceSets : Cardinality(D) = Cardinality(E) => D = E

AtWork == pc \in {"bind", "job", "run", "write"}

RunInv  == pc # "idle" => run \in 1..MaxRuns
BootInv == AtWork => enforcing = Expected(label) \/ (label = "uio" /\ misread)
RetInv  == pc \in {"check", "bind", "job", "run", "write"} => ret = "none"

\* The row of device d for a workload of the current label and devices
Has(rn, c, p, d) ==
  \E r \in rows : /\ r.rep = p /\ r.case = c /\ r.dev = d /\ r.runner = rn
                  /\ r.label = label /\ r.devcount = Cardinality(devs)

TargetsOf(rn) == IF rn = "fio" THEN devs ELSE {"all"}

HasAll(rn, c, p) == \A d \in TargetsOf(rn) : Has(rn, c, p, d)

\* The workloads the collection has been through
Before(rn, c, p) ==
  \/ rn = "xnvmeperf" /\ runner = "fio"
  \/ rn = runner /\ (c < case \/ (c = case /\ p < rep))

OrderInv ==
  /\ pc \in {"job", "run", "write"} =>
       \A rn \in Runners, c \in 1..Cases, p \in 1..Repeat :
         Before(rn, c, p) => HasAll(rn, c, p)
  /\ pc = "write" => todo \subseteq Targets /\ \A d \in Targets \ todo : Exists(d)
  /\ ret = "ok" =>
       \A rn \in Runners, c \in 1..Cases, p \in 1..Repeat : HasAll(rn, c, p)

\* The fio rows of the workload at hand
JobRows == {r \in rows : /\ r.label = label /\ r.runner = "fio" /\ runner = "fio"
                         /\ r.case = case /\ r.rep = rep
                         /\ r.devcount = Cardinality(devs)}

OriginInv ==
  /\ \A r \in rows : r.runner = "fio" =>
       \E D \in DeviceSets : r.dev \in D /\ r.devcount = Cardinality(D)
  /\ pc = "run" => JobRows = {}
  /\ pc = "write" => \A r \in JobRows : r.run = run
  /\ pc = "write" => todo \subseteq Targets

TypeInv == TypeOK /\ RunInv
SafeInv == BootInv /\ LabelMatchesBoot /\ RetInv /\ DrivesHandedBack
-----------------------------------------------------------------------------

(* The state of a collection is well typed: result_file(), main().          *)
LEMMA TypesInvariant == Spec => []TypeInv
<1> USE OverheadAssumption DEF TypeInv, TypeOK, RunInv, Labels, Runners
<1>0. 1 \in 1..Cases /\ 1 \in 1..Repeat /\ 1 \in 1..Retries
  OBVIOUS
<1>1. Init => TypeInv
  <2> SUFFICES ASSUME Init PROVE TypeInv
    OBVIOUS
  <2>1. misread \in BOOLEAN /\ stuck \in BOOLEAN
    BY Zenon DEF Init
  <2> QED
    BY <1>0, <2>1 DEF Init
<1>2. TypeInv /\ [Next]_vars => TypeInv'
  <2> SUFFICES ASSUME TypeInv, [Next]_vars PROVE TypeInv'
    OBVIOUS
  <2> USE DEF machineVars, jobVars, locals, lapses
  <2>0. Cardinality(devs) \in Nat /\ Targets \subseteq Devices \cup {"all"}
    BY FS_CardinalityType DEF Targets, Devices
  <2>e. ASSUME NEW v, Ended(v)
        PROVE  /\ pc' = "idle" /\ ret' = v /\ runner' \in Runners
               /\ case' \in 1..Cases /\ rep' \in 1..Repeat
               /\ attempt' \in 1..Retries /\ todo' \subseteq Devices \cup {"all"}
    BY <2>e, <1>0 DEF Ended
  <2>w. ASSUME NEW d \in Devices \cup {"all"}, NEW b \in BOOLEAN, pc = "write",
               rows' = rows \cup {Row(d, b)}
        PROVE  rows' \subseteq ResultFiles
    BY <2>w, <2>0 DEF Row, ResultFiles
  <2>s. Strikes => faults' \in 0..MaxFaults
    BY DEF Strikes
  <2>p. ASSUME Proceed
        PROVE  /\ pc' \in {"job", "reset"} /\ ret' \in {ret, "ok"} /\ runner' \in Runners
               /\ case' \in 1..Cases /\ rep' \in 1..Repeat
    BY <2>p, <1>0 DEF Proceed, Finish
  <2>1. ASSUME NEW l \in Labels, Begin(l) PROVE TypeInv'
    BY <2>1 DEF Begin
  <2>2. CASE CheckIommuState
    <3>1. misread' = FALSE \/ misread' = TRUE
      BY <2>2, Zenon DEF CheckIommuState, UnitsSeen
    <3>2. misread' \in BOOLEAN
      BY <3>1, Zenon
    <3>3. faults' = faults \/ Strikes
      BY <2>2, Zenon DEF CheckIommuState, UnitsSeen
    <3> QED
      BY <2>2, <2>e, <2>s, <3>2, <3>3 DEF CheckIommuState
  <2>3. CASE BindDriver
    BY <2>3, <1>0 DEF BindDriver, Finish
  <2>4. CASE SkipOrRun
    BY <2>4, <2>p, <1>0 DEF SkipOrRun, Finish
  <2>5. CASE RunWorkload
    <3>1. RetryAfter => attempt' \in 1..Retries
      BY DEF RetryAfter
    <3> QED
      BY <2>5, <2>0, <3>1 DEF RunWorkload, Finish
  <2>6. CASE WriteResult
    <3>1. PICK d \in todo :
            \/ /\ rows' = rows \cup {Row(d, TRUE)}
               /\ todo' = todo \ {d}
               /\ Proceed \/ UNCHANGED <<jobVars, pc, ret>>
            \/ Finish("failed") /\ UNCHANGED <<rows, todo, jobVars>>
      BY <2>6 DEF WriteResult
    <3>2. /\ pc = "write" /\ todo' \subseteq Devices \cup {"all"}
          /\ pc' \in {"job", "reset", "write"} /\ ret' \in {ret, "ok", "failed"}
          /\ runner' \in Runners /\ case' \in 1..Cases /\ rep' \in 1..Repeat
          /\ UNCHANGED <<machineVars, label, attempt, lapses, run, faults>>
      BY <2>6, <3>1, <2>p DEF WriteResult, Finish
    <3>3. rows' = rows \/ rows' = rows \cup {Row(d, TRUE)}
      BY <3>1
    <3> QED
      BY <3>2, <3>3, <2>w
  <2>7. CASE Reset
    <3>1. stuck' = FALSE \/ stuck' = TRUE
      BY <2>7, Zenon DEF Reset
    <3>2. stuck' \in BOOLEAN
      BY <3>1, Zenon
    <3>3. (faults' = faults \/ Strikes) /\ bound' \in {"nvme", bound}
      BY <2>7, Zenon DEF Reset, ResetDriver
    <3> QED
      BY <2>7, <2>e, <2>s, <3>2, <3>3 DEF Reset
  <2>8. CASE Kill
    BY <2>8, <2>e DEF Kill, Strikes
  <2>9. CASE TornWrite
    <3>1. PICK d \in todo : rows' = rows \cup {Row(d, FALSE)}
      BY <2>9 DEF TornWrite
    <3>2. (Finish("failed") /\ UNCHANGED locals) \/ Ended("killed")
      BY <2>9 DEF TornWrite
    <3>3. /\ pc' \in {"reset", "idle"} /\ ret' \in {"failed", "killed"}
          /\ runner' \in Runners /\ case' \in 1..Cases /\ rep' \in 1..Repeat
          /\ attempt' \in 1..Retries /\ todo' \subseteq Devices \cup {"all"}
      BY <3>2, <2>e DEF Finish
    <3>4. /\ pc = "write" /\ faults' \in 0..MaxFaults
          /\ UNCHANGED <<machineVars, label, lapses, run>>
      BY <2>9 DEF TornWrite, Strikes
    <3> QED
      BY <3>1, <3>3, <3>4, <2>w
  <2>10. CASE Reboot
    BY <2>10, <2>e DEF Reboot, Strikes
  <2>11. CASE Reconfigure
    BY <2>11 DEF Reconfigure
  <2>12. CASE UNCHANGED vars
    BY <2>12 DEF vars
  <2> QED
    BY <2>1, <2>2, <2>3, <2>4, <2>5, <2>6, <2>7, <2>8, <2>9, <2>10, <2>11, <2>12 DEF Next, Step
<1> QED
  BY <1>1, <1>2, PTL DEF Spec

(* The boot is checked once, before main() binds the drives, and holds for  *)
(* as long as that collection lives, unless the look at the units failed;   *)
(* every way out of it but a kill goes through reset_driver(), which may    *)
(* fail.                                                                    *)
THEOREM Safety == Spec => []SafeInv
<1> USE OverheadAssumption DEF SafeInv, BootInv, AtWork, RetInv, LabelMatchesBoot, DrivesHandedBack
<1>1. Init => SafeInv
  BY DEF Init
<1>2. TypeInv /\ SafeInv /\ [Next]_vars => SafeInv'
  <2> SUFFICES ASSUME TypeInv, SafeInv, [Next]_vars PROVE SafeInv'
    OBVIOUS
  <2> USE DEF machineVars, jobVars, locals, lapses, BootMatches, Expected
  <2>p. ASSUME Proceed
        PROVE  \/ pc' = "job" /\ ret' = ret
               \/ pc' = "reset" /\ ret' = "ok"
    BY <2>p DEF Proceed, Finish
  <2>w. ASSUME NEW d, NEW b, pc = "write", rows' = rows \cup {Row(d, b)}
        PROVE  LabelMatchesBoot'
    <3>1. Row(d, b).boot = enforcing /\ Row(d, b).label = label /\ Row(d, b).misread = misread
      BY DEF Row
    <3> QED
      BY <2>w, <3>1
  <2>1. ASSUME NEW l \in Labels, Begin(l) PROVE SafeInv'
    BY <2>1 DEF Begin
  <2>2. CASE CheckIommuState
    <3>1. PICK units \in BOOLEAN :
            /\ UnitsSeen(units)
            /\ \/ BootMatches(units) /\ pc' = "bind" /\ UNCHANGED <<ret, locals>>
               \/ Ended("refused")
      BY <2>2 DEF CheckIommuState
    <3>2. pc = "check" /\ UNCHANGED <<machineVars, rows, label, stuck, run>>
      BY <2>2 DEF CheckIommuState
    <3> QED
      BY <3>1, <3>2 DEF UnitsSeen, Ended, Labels, TypeInv, TypeOK
  <2>3. CASE BindDriver
    BY <2>3 DEF BindDriver, Finish
  <2>4. CASE SkipOrRun
    BY <2>4, <2>p DEF SkipOrRun, Finish
  <2>5. CASE RunWorkload
    BY <2>5 DEF RunWorkload, Finish
  <2>6. CASE WriteResult
    <3>1. PICK d \in todo :
            \/ /\ rows' = rows \cup {Row(d, TRUE)}
               /\ Proceed \/ UNCHANGED <<jobVars, pc, ret>>
            \/ Finish("failed") /\ UNCHANGED <<rows, todo, jobVars>>
      BY <2>6 DEF WriteResult
    <3>2. pc = "write" /\ UNCHANGED <<machineVars, label, lapses>>
      BY <2>6 DEF WriteResult
    <3>3. LabelMatchesBoot'
      <4>1. CASE rows' = rows \cup {Row(d, TRUE)}
        BY <4>1, <3>2, <2>w
      <4>2. CASE rows' = rows
        BY <4>2
      <4> QED
        BY <4>1, <4>2, <3>1
    <3>4. \/ pc' \in {"job", "write"} /\ ret' = ret
          \/ pc' = "reset"
      BY <3>1, <2>p, <3>2 DEF Finish
    <3> QED
      BY <3>2, <3>3, <3>4
  <2>7. CASE Reset
    BY <2>7 DEF Reset, ResetDriver, Ended
  <2>8. CASE Kill
    BY <2>8 DEF Kill, Ended
  <2>9. CASE TornWrite
    <3>1. PICK d \in todo : rows' = rows \cup {Row(d, FALSE)}
      BY <2>9 DEF TornWrite
    <3>2. LabelMatchesBoot'
      BY <2>9, <3>1, <2>w DEF TornWrite
    <3> QED
      BY <2>9, <3>2 DEF TornWrite, Finish, Ended
  <2>10. CASE Reboot
    BY <2>10 DEF Reboot, Ended
  <2>11. CASE Reconfigure
    BY <2>11 DEF Reconfigure
  <2>12. CASE UNCHANGED vars
    BY <2>12 DEF vars
  <2> QED
    BY <2>1, <2>2, <2>3, <2>4, <2>5, <2>6, <2>7, <2>8, <2>9, <2>10, <2>11, <2>12 DEF Next, Step
<1> QED
  BY <1>1, <1>2, TypesInvariant, PTL DEF Spec

(* Every result is of the boot its label names: check_iommu_state().  Only  *)
(* a "uio" result of a collection whose 'ls' of the units failed may not.   *)
THEOREM BootSafe == Spec => []LabelMatchesBoot
  BY Safety, PTL DEF SafeInv

(* main()'s finally clause: the drives are back with the kernel, unless     *)
(* their reset failed.                                                      *)
THEOREM DrivesSafe == Spec => []DrivesHandedBack
  BY Safety, PTL DEF SafeInv

THEOREM TypeCorrect == Spec => []TypeOK
  BY TypesInvariant, PTL DEF TypeInv

(* A row stays: nothing a collection does takes away what a workload has.   *)
LEMMA HasStays ==
  ASSUME rows \subseteq rows', label' = label, devs' = devs,
         NEW rn, NEW c, NEW p
  PROVE  HasAll(rn, c, p) => HasAll(rn, c, p)'
  BY DEF HasAll, Has, TargetsOf

(* What Proceed leaves behind it is the workload at hand and those before.  *)
LEMMA ProceedOrder ==
  ASSUME TypeOK, Proceed,
         NEW rn \in Runners, NEW c \in 1..Cases, NEW p \in 1..Repeat
  PROVE  /\ pc' # "reset" /\ Before(rn, c, p)' =>
              Before(rn, c, p) \/ (rn = runner /\ c = case /\ p = rep)
         /\ pc' = "reset" => Before(rn, c, p) \/ (rn = runner /\ c = case /\ p = rep)
         /\ \/ pc' = "job" /\ ret' = ret
            \/ pc' = "reset" /\ ret' = "ok"
  <1>1. /\ rn \in {"xnvmeperf", "fio"} /\ c \in Nat /\ p \in Nat /\ c >= 1 /\ p >= 1
        /\ c <= Cases /\ p <= Repeat /\ case \in Int /\ rep \in Int
        /\ Cases \in Int /\ Repeat \in Int /\ case <= Cases /\ rep <= Repeat
        /\ runner \in {"xnvmeperf", "fio"}
    BY OverheadAssumption DEF TypeOK, Runners
  <1>2. CASE rep < Repeat
    BY <1>1, <1>2 DEF Proceed, Before
  <1>3. CASE rep = Repeat /\ case < Cases
    BY <1>1, <1>3 DEF Proceed, Before
  <1>4. CASE rep = Repeat /\ case = Cases
    BY <1>1, <1>4 DEF Proceed, Before, Finish
  <1> QED
    BY <1>1, <1>2, <1>3, <1>4

(* The nested loops of main() and its passes, and the skipping of what is   *)
(* there already: nothing before the workload at hand is missing.           *)
LEMMA Ordered == Spec => []OrderInv
<1> DEFINE Filled == \A e \in TargetsOf(runner) :
                       \E r \in rows' :
                         /\ r.rep = rep /\ r.case = case /\ r.dev = e /\ r.runner = runner
                         /\ r.label = label /\ r.devcount = Cardinality(devs)
<1>1. Init => OrderInv
  BY DEF Init, OrderInv
<1>2. TypeInv /\ SafeInv /\ OrderInv /\ [Next]_vars => OrderInv'
  <2> SUFFICES ASSUME TypeInv, SafeInv, OrderInv, [Next]_vars PROVE OrderInv'
    OBVIOUS
  <2> USE DEF machineVars, jobVars, locals, lapses
  <2>r. pc \in {"check", "bind", "job", "run", "write"} => ret = "none"
    BY DEF SafeInv, RetInv
  <2>t. TypeOK
    BY DEF TypeInv
  <2>h. ASSUME Existing = Targets, rows' = rows PROVE Filled
    <3> SUFFICES ASSUME NEW e \in TargetsOf(runner)
                 PROVE  \E r \in rows :
                          /\ r.rep = rep /\ r.case = case /\ r.dev = e
                          /\ r.runner = runner /\ r.label = label
                          /\ r.devcount = Cardinality(devs)
      BY <2>h
    <3>1. e \in Existing
      BY <2>h DEF TargetsOf, Targets
    <3>2. Exists(e)
      BY <3>1 DEF Existing
    <3> QED
      BY <3>2 DEF Exists
  <2>p. ASSUME Proceed, rows \subseteq rows', UNCHANGED <<label, devs>>,
               pc \in {"job", "write"}, Filled
        PROVE  OrderInv'
    <3>1. \A rn \in Runners, c \in 1..Cases, q \in 1..Repeat :
            Before(rn, c, q) => HasAll(rn, c, q)'
      BY <2>p, HasStays DEF OrderInv
    <3>2. /\ \/ pc' = "job" /\ ret' = "none"
             \/ pc' = "reset" /\ ret' = "ok"
          /\ \A rn \in Runners, c \in 1..Cases, q \in 1..Repeat :
               pc' = "reset" \/ Before(rn, c, q)' =>
                 Before(rn, c, q) \/ (rn = runner /\ c = case /\ q = rep)
      <4>1. /\ case \in 1..Cases /\ rep \in 1..Repeat /\ runner \in Runners
        BY <2>t DEF TypeOK
      <4>2. \/ pc' = "job" /\ ret' = "none"
            \/ pc' = "reset" /\ ret' = "ok"
        BY <4>1, <2>p, <2>t, <2>r, ProceedOrder
      <4> QED
        BY <4>2, <2>p, <2>t, ProceedOrder
    <3>3. \A rn \in Runners, c \in 1..Cases, q \in 1..Repeat :
            pc' = "reset" \/ Before(rn, c, q)' => HasAll(rn, c, q)'
      <4> SUFFICES ASSUME NEW rn \in Runners, NEW c \in 1..Cases, NEW q \in 1..Repeat,
                          pc' = "reset" \/ Before(rn, c, q)'
                   PROVE  HasAll(rn, c, q)'
        OBVIOUS
      <4>1. CASE Before(rn, c, q)
        BY <4>1, <3>1
      <4>2. CASE rn = runner /\ c = case /\ q = rep
        <5>1. \A e \in TargetsOf(rn)' :
                \E r \in rows' :
                  /\ r.rep = q /\ r.case = c /\ r.dev = e /\ r.runner = rn
                  /\ r.label = label' /\ r.devcount = Cardinality(devs')
          BY <4>2, <2>p DEF TargetsOf
        <5> QED
          BY <5>1 DEF HasAll, Has
      <4> QED
        BY <4>1, <4>2, <3>2
    <3> QED
      BY <3>2, <3>3 DEF OrderInv
  <2>k. ASSUME rows \subseteq rows', UNCHANGED <<label, devs>>,
               pc' \in {"idle", "reset"}, ret' # "ok" \/ ret = "ok"
        PROVE  OrderInv'
    <3>1. ret' = "ok" =>
            \A rn \in Runners, c \in 1..Cases, q \in 1..Repeat : HasAll(rn, c, q)'
      BY <2>k, HasStays DEF OrderInv
    <3> QED
      BY <2>k, <3>1 DEF OrderInv
  <2>1. ASSUME NEW l \in Labels, Begin(l) PROVE OrderInv'
    BY <2>1 DEF Begin, OrderInv
  <2>2. CASE CheckIommuState
    BY <2>2, <2>r DEF CheckIommuState, Ended, OrderInv
  <2>3. CASE BindDriver
    <3>1. pc' = "job" => ~ \E rn \in Runners, c \in 1..Cases, q \in 1..Repeat :
                             Before(rn, c, q)'
      <4>1. runner' = "xnvmeperf" /\ case' = 1 /\ rep' = 1
        BY <2>3 DEF BindDriver
      <4> QED
        BY <4>1, OverheadAssumption DEF Before
    <3>2. pc' \in {"job", "reset"} /\ ret' # "ok"
      BY <2>3, <2>r DEF BindDriver, Finish
    <3> QED
      BY <3>1, <3>2 DEF OrderInv
  <2>4. CASE SkipOrRun
    <3>1. CASE JobDone /\ Proceed
      BY <2>4, <3>1, <2>p, <2>h DEF SkipOrRun, JobDone
    <3>2. CASE Finish("EEXIST")
      BY <2>4, <3>2, <2>k DEF SkipOrRun, Finish
    <3>3. CASE pc' = "run" /\ UNCHANGED <<jobVars, ret>>
      <4>1. /\ pc = "job" /\ UNCHANGED <<rows, label, devs, runner, case, rep>>
            /\ ret' = "none"
        BY <2>4, <3>3, <2>r DEF SkipOrRun
      <4> QED
        BY <3>3, <4>1 DEF OrderInv, Before, HasAll, Has, TargetsOf
    <3> QED
      BY <2>4, <3>1, <3>2, <3>3 DEF SkipOrRun
  <2>5. CASE RunWorkload
    <3>1. CASE Finish("failed")
      BY <2>5, <3>1, <2>k DEF RunWorkload, Finish
    <3>2. CASE ~Finish("failed")
      <4>1. /\ pc = "run" /\ UNCHANGED <<rows, label, devs, runner, case, rep>>
            /\ ret' = "none" /\ pc' \in {"run", "write"}
            /\ pc' = "write" => todo' = Targets
        BY <2>5, <3>2, <2>r DEF RunWorkload
      <4> QED
        BY <4>1 DEF OrderInv, Before, HasAll, Has, TargetsOf, Targets, Exists
    <3> QED
      BY <3>1, <3>2
  <2>6. CASE WriteResult
    <3>1. PICK d \in todo :
            \/ /\ rows' = rows \cup {Row(d, TRUE)}
               /\ todo' = todo \ {d}
               /\ IF todo' = {} THEN Proceed ELSE UNCHANGED <<jobVars, pc, ret>>
            \/ Finish("failed") /\ UNCHANGED <<rows, todo, jobVars>>
      BY <2>6 DEF WriteResult
    <3>2. pc = "write" /\ UNCHANGED <<label, devs>>
      BY <2>6 DEF WriteResult
    <3>3. CASE Finish("failed") /\ UNCHANGED <<rows, todo, jobVars>>
      BY <3>2, <3>3, <2>k DEF Finish
    <3>4. CASE /\ rows' = rows \cup {Row(d, TRUE)}
               /\ todo' = todo \ {d}
               /\ IF todo' = {} THEN Proceed ELSE UNCHANGED <<jobVars, pc, ret>>
      <4>1. \A e \in Targets \ todo' :
              \E r \in rows' :
                /\ r.rep = rep /\ r.case = case /\ r.dev = e /\ r.runner = runner
                /\ r.label = label /\ r.devcount = Cardinality(devs)
        <5> SUFFICES ASSUME NEW e \in Targets \ todo'
                     PROVE  \E r \in rows' :
                              /\ r.rep = rep /\ r.case = case /\ r.dev = e
                              /\ r.runner = runner /\ r.label = label
                              /\ r.devcount = Cardinality(devs)
          OBVIOUS
        <5>1. CASE e = d
          <6>1. Row(d, TRUE) \in rows'
            BY <3>4
          <6> QED
            BY <5>1, <6>1 DEF Row
        <5>2. CASE e # d
          <6>1. Exists(e)
            BY <3>2, <3>4, <5>2 DEF OrderInv
          <6> QED
            BY <6>1, <3>4 DEF Exists
        <5> QED
          BY <5>1, <5>2
      <4>2. CASE todo' = {}
        <5>1. TargetsOf(runner) = Targets \ todo'
          BY <4>2 DEF TargetsOf, Targets
        <5>2. Filled
          BY <4>1, <5>1
        <5>3. Proceed /\ rows \subseteq rows'
          BY <3>4, <4>2
        <5> QED
          BY <5>2, <5>3, <3>2, <2>p
      <4>3. CASE todo' # {}
        <5>1. UNCHANGED <<runner, case, rep, pc, ret>>
          BY <3>4, <4>3
        <5>2. todo' \subseteq Targets'
          BY <5>1, <3>2, <3>4 DEF OrderInv, Targets
        <5>3. \A e \in Targets' \ todo' : Exists(e)'
          BY <5>1, <4>1, <3>2 DEF Exists, Targets
        <5>4. \A rn \in Runners, c \in 1..Cases, q \in 1..Repeat :
                Before(rn, c, q)' => HasAll(rn, c, q)'
          BY <5>1, <3>2, <3>4, HasStays DEF OrderInv, Before
        <5>5. ret' = "none"
          BY <5>1, <3>2, <2>r
        <5> QED
          BY <5>2, <5>3, <5>4, <5>5 DEF OrderInv
      <4> QED
        BY <4>2, <4>3
    <3> QED
      BY <3>1, <3>3, <3>4
  <2>7. CASE Reset
    BY <2>7, <2>k DEF Reset, Ended
  <2>8. CASE Kill
    BY <2>8, <2>k DEF Kill, Ended
  <2>9. CASE TornWrite
    BY <2>9, <2>k DEF TornWrite, Finish, Ended
  <2>10. CASE Reboot
    BY <2>10, <2>k DEF Reboot, Ended
  <2>11. CASE Reconfigure
    BY <2>11 DEF Reconfigure, OrderInv
  <2>12. CASE UNCHANGED vars
    BY <2>12 DEF vars, OrderInv, Before, HasAll, Has, TargetsOf, Targets, Exists
  <2> QED
    BY <2>1, <2>2, <2>3, <2>4, <2>5, <2>6, <2>7, <2>8, <2>9, <2>10, <2>11, <2>12 DEF Next, Step
<1> QED
  BY <1>1, <1>2, TypesInvariant, Safety, PTL DEF Spec

(* A collection that ends well has every row, its own or an earlier one's.  *)
THEOREM Complete == Spec => []CompleteHasAllRows
<1>1. OrderInv => CompleteHasAllRows
  <2> SUFFICES ASSUME OrderInv, ret = "ok", NEW c \in 1..Cases, NEW p \in 1..Repeat,
                      NEW d \in devs \cup {"all"}
               PROVE  \E r \in rows : /\ r.case = c /\ r.rep = p /\ r.dev = d
                                      /\ r.label = label /\ r.devcount = Cardinality(devs)
    BY DEF CompleteHasAllRows
  <2>1. \A rn \in Runners : HasAll(rn, c, p)
    BY DEF OrderInv
  <2> QED
    BY <2>1 DEF HasAll, Has, TargetsOf, Runners
<1> QED
  BY <1>1, Ordered, PTL

(* A fio row is of a configured set of devices; a case that runs had no row, *)
(* and one that writes has only rows of this collection.                     *)
LEMMA Origins == ASSUME SizesDiffer PROVE Spec => [](OriginInv /\ RowsFromOneRun)
<1> USE DEF OriginInv
<1>1. Init => OriginInv /\ RowsFromOneRun
  BY DEF Init, RowsFromOneRun
<1>2. TypeInv /\ OriginInv /\ RowsFromOneRun /\ [Next]_vars => (OriginInv /\ RowsFromOneRun)'
  <2> SUFFICES ASSUME TypeInv, OriginInv, RowsFromOneRun, [Next]_vars
               PROVE  OriginInv' /\ RowsFromOneRun'
    OBVIOUS
  <2> USE DEF machineVars, jobVars, locals, lapses
  <2>t. devs \in DeviceSets
    BY DEF TypeInv, TypeOK
  <2>k. ASSUME rows' = rows, pc' \notin {"run", "write"}
        PROVE  OriginInv' /\ RowsFromOneRun'
    BY <2>k DEF RowsFromOneRun
  <2>p. ASSUME Proceed PROVE pc' \notin {"run", "write"}
    BY <2>p DEF Proceed, Finish
  <2>w. ASSUME NEW d \in todo, NEW b, pc = "write", rows' = rows \cup {Row(d, b)},
               UNCHANGED <<label, devs, run>>
        PROVE  /\ \A r \in rows' : r.runner = "fio" =>
                    \E D \in DeviceSets : r.dev \in D /\ r.devcount = Cardinality(D)
               /\ RowsFromOneRun'
               /\ UNCHANGED <<runner, case, rep>> => \A r \in JobRows' : r.run = run
    <3> DEFINE new == Row(d, b)
    <3>1. /\ new.label = label /\ new.runner = runner /\ new.case = case /\ new.rep = rep
          /\ new.devcount = Cardinality(devs) /\ new.dev = d /\ new.run = run
      BY DEF Row
    <3>2. runner = "fio" => d \in devs
      BY <2>w DEF Targets
    <3>3. \A r \in rows : r.runner = "fio" /\ runner = "fio" /\ r.label = label
             /\ r.case = case /\ r.rep = rep /\ r.devcount = Cardinality(devs) => r.run = run
      BY <2>w DEF JobRows
    <3> HIDE DEF new
    <3>4. rows' = rows \cup {new}
      BY <2>w DEF new
    <3>5. \A r \in rows' : r.runner = "fio" =>
            \E D \in DeviceSets : r.dev \in D /\ r.devcount = Cardinality(D)
      BY <3>1, <3>2, <3>4, <2>t
    <3>6. RowsFromOneRun'
      BY <3>1, <3>3, <3>4 DEF RowsFromOneRun
    <3>7. UNCHANGED <<runner, case, rep>> => \A r \in JobRows' : r.run = run
      BY <3>1, <3>3, <3>4, <2>w DEF JobRows
    <3> QED
      BY <3>5, <3>6, <3>7
  <2>1. ASSUME NEW l \in Labels, Begin(l) PROVE OriginInv' /\ RowsFromOneRun'
    BY <2>1, <2>k DEF Begin
  <2>2. CASE CheckIommuState
    BY <2>2, <2>k DEF CheckIommuState, Ended
  <2>3. CASE BindDriver
    BY <2>3, <2>k DEF BindDriver, Finish
  <2>4. CASE SkipOrRun
    <3>1. CASE pc' \notin {"run", "write"}
      BY <2>4, <3>1, <2>k DEF SkipOrRun
    <3>2. CASE pc' \in {"run", "write"}
      <4>1. /\ ~JobDone /\ ~JobPartial /\ pc' = "run"
            /\ UNCHANGED <<rows, label, devs, runner, case, rep>>
        BY <2>4, <3>2, <2>p DEF SkipOrRun, Finish
      <4>2. Existing = {}
        BY <4>1 DEF JobPartial
      <4>3. JobRows = {}
        <5> SUFFICES ASSUME NEW r \in JobRows PROVE FALSE
          OBVIOUS
        <5>1. PICK D \in DeviceSets : r.dev \in D /\ r.devcount = Cardinality(D)
          BY DEF JobRows
        <5>2. r.dev \in devs /\ runner = "fio"
          BY <5>1, <2>t, SizesDiffer DEF JobRows, SizesDiffer
        <5>3. r.dev \in Existing
          BY <5>2 DEF JobRows, Existing, Exists, Targets
        <5> QED
          BY <5>3, <4>2
      <4> QED
        BY <4>1, <4>3 DEF JobRows, RowsFromOneRun
    <3> QED
      BY <3>1, <3>2
  <2>5. CASE RunWorkload
    <3>1. CASE Finish("failed")
      BY <2>5, <3>1, <2>k DEF RunWorkload, Finish
    <3>2. CASE ~Finish("failed")
      <4>1. /\ pc = "run" /\ UNCHANGED <<rows, label, devs, runner, case, rep, run>>
            /\ pc' \in {"run", "write"} /\ pc' = "write" => todo' = Targets
        BY <2>5, <3>2 DEF RunWorkload
      <4> QED
        BY <4>1 DEF JobRows, RowsFromOneRun, Targets
    <3> QED
      BY <3>1, <3>2
  <2>6. CASE WriteResult
    <3>1. PICK d \in todo :
            \/ /\ rows' = rows \cup {Row(d, TRUE)}
               /\ todo' = todo \ {d}
               /\ Proceed \/ UNCHANGED <<jobVars, pc, ret>>
            \/ Finish("failed") /\ UNCHANGED <<rows, todo, jobVars>>
      BY <2>6 DEF WriteResult
    <3>2. pc = "write" /\ UNCHANGED <<label, devs, run>>
      BY <2>6 DEF WriteResult
    <3>3. CASE Finish("failed") /\ UNCHANGED <<rows, todo, jobVars>>
      BY <3>3, <2>k DEF Finish
    <3>4. CASE /\ rows' = rows \cup {Row(d, TRUE)}
               /\ todo' = todo \ {d}
               /\ Proceed \/ UNCHANGED <<jobVars, pc, ret>>
      <4>1. CASE Proceed
        BY <4>1, <3>2, <3>4, <2>w, <2>p
      <4>2. CASE UNCHANGED <<jobVars, pc, ret>>
        <5>1. todo' \subseteq Targets' /\ UNCHANGED <<runner, case, rep>> /\ pc' = "write"
          BY <4>2, <3>2, <3>4 DEF Targets
        <5> QED
          BY <5>1, <3>2, <3>4, <2>w
      <4> QED
        BY <3>4, <4>1, <4>2
    <3> QED
      BY <3>1, <3>3, <3>4
  <2>7. CASE Reset
    BY <2>7, <2>k DEF Reset, Ended
  <2>8. CASE Kill
    BY <2>8, <2>k DEF Kill, Ended
  <2>9. CASE TornWrite
    <3>1. PICK d \in todo : rows' = rows \cup {Row(d, FALSE)}
      BY <2>9 DEF TornWrite
    <3>2. /\ pc = "write" /\ pc' \notin {"run", "write"}
          /\ UNCHANGED <<label, devs, run>>
      BY <2>9 DEF TornWrite, Finish, Ended
    <3> QED
      BY <3>1, <3>2, <2>w
  <2>10. CASE Reboot
    BY <2>10, <2>k DEF Reboot, Ended
  <2>11. CASE Reconfigure
    <3>1. rows' = rows /\ pc' = "idle"
      BY <2>11 DEF Reconfigure
    <3> QED
      BY <3>1, <2>k
  <2>12. CASE UNCHANGED vars
    BY <2>12 DEF vars, JobRows, RowsFromOneRun, Targets
  <2> QED
    BY <2>1, <2>2, <2>3, <2>4, <2>5, <2>6, <2>7, <2>8, <2>9, <2>10, <2>11, <2>12 DEF Next, Step
<1> QED
  BY <1>1, <1>2, TypesInvariant, PTL DEF Spec

(* fio_pass(): the rows of a case are of one collection, provided that no    *)
(* two configured sets of devices have the same size and differ: the name of *)
(* a result has their number only.                                           *)
THEOREM OneRun == ASSUME SizesDiffer PROVE Spec => []RowsFromOneRun
  BY Origins, PTL

(* load_results() and build_results(): a comparison is made of fio rows of   *)
(* every configured device, on either side of it. A total whose rows are not *)
(* of as many devices as its name says has the report refused, and those of  *)
(* a smaller set or of a stopped collection are never that many.             *)
THEOREM WholeSets == ASSUME SizesDiffer PROVE Spec => []ReportsWholeDeviceSets
<1>1. OriginInv => ReportsWholeDeviceSets
  <2> SUFFICES ASSUME OriginInv, NEW i \in Report, i.pair.runner = "fio"
               PROVE  i.off \in DeviceSets /\ i.on \in DeviceSets
    BY DEF ReportsWholeDeviceSets
  <2>1. PICK p \in Pairs : i = [pair |-> p, off |-> DevsOf(Side(p, "uio")),
                                on |-> DevsOf(Side(p, "vfio"))]
    BY DEF Report
  <2>2. ~Refused /\ p.runner = "fio"
    BY <2>1 DEF Report, Combinable
  <2>3. Side(p, "uio") \in Totals /\ Side(p, "vfio") \in Totals
    <3>1. ASSUME NEW l \in Labels, p \in {PairKey(t) : t \in {u \in Totals : u.label = l}}
          PROVE  Side(p, l) \in Totals
      <4>1. PICK t \in Totals : p = PairKey(t) /\ t.label = l
        BY <3>1
      <4>2. t = Side(p, l)
        BY <4>1 DEF Totals, PairKey, Side
      <4> QED BY <4>1, <4>2
    <3> QED BY <3>1 DEF Pairs, Labels
  <2>4. ASSUME NEW t \in Totals, t.runner = "fio" PROVE DevsOf(t) \in DeviceSets
    <3>1. Cardinality(DevsOf(t)) = t.devcount
      BY <2>2, <2>4 DEF Refused
    <3>2. PICK D \in DeviceSets : t.devcount = Cardinality(D)
      BY <2>4 DEF OriginInv, Totals
    <3>3. DevsOf(t) \subseteq D
      BY <2>4, <3>2, SizesDiffer DEF OriginInv, DevsOf, SizesDiffer
    <3>4. DevsOf(t) = D
      BY <3>1, <3>2, <3>3, FS_Subset, OverheadAssumption
    <3> QED BY <3>4
  <2> QED BY <2>1, <2>2, <2>3, <2>4 DEF Side
<1> QED
  BY <1>1, Origins, PTL
=============================================================================
