--------------------------- MODULE TraceGpuProofs ---------------------------
(***************************************************************************)
(* What holds of every run of scripts/iommu_trace_gpu.py: for every        *)
(* kernel, mapping, page size and number of failures and interrupts.       *)
(*                                                                         *)
(* First what follows from the order of the commands alone.  Then what the *)
(* run says of the mapping: what the operators on numbers and traces       *)
(* compute, by induction on what their recursive functions have computed;  *)
(* that the kernel's calls take the largest page at each place (CallsInv); *)
(* that the trace is made of those calls and of what is not the probe's    *)
(* (TraceOf); and that reading it gives those calls back.                  *)
(***************************************************************************)
EXTENDS TraceGpu, SequenceTheorems, WellFoundedInduction, TLAPS

USE DEF targetVars, tracefsVars, mapVars, resultVars, boundVars

\* MAP_PAGES has five symbols.
LEMMA MapPagesDomain == DOMAIN MAP_PAGES = 1..5 /\ Len(MAP_PAGES) = 5
  BY DEF MAP_PAGES

\* Each of them is one of the formats.
LEMMA MapPagesFormats == \A i \in 1..5 : MAP_PAGES[i] \in Formats
  BY MapPagesDomain DEF Formats

\* What the proofs need of the constants.
LEMMA Bounds == Kernels \subseteq SUBSET Formats /\ MaxFaults \in Nat
  BY TraceAssumption, Zenon DEF TraceAssumption

\* The loop over MAP_PAGES looks at no symbol beyond the last.
LoopInv ==
  /\ pc \in {"append", "enable"} => fmt \in 1..5
  /\ pc \in {"check", "mktemp", "put", "compile", "mkdir", "setup"} => fmt = 1

\* Every variable keeps its type, and the loop its bound.
THEOREM TypeCorrect == Spec => [](TypeOK /\ LoopInv)
<1>a. fmt \in 1..(Len(MAP_PAGES) + 1) <=> fmt \in 1..6
  BY MapPagesDomain
<1>1. Init => TypeOK /\ LoopInv
  <2> SUFFICES ASSUME Init PROVE TypeOK /\ LoopInv
    OBVIOUS
  <2>1. symbols \in SUBSET Formats /\ faults \in 0..MaxFaults
    BY Bounds DEF Init
  <2>2. driver \in {"nvme", "vfio-pci", "none"} /\ pc \in Steps /\ cut \in BOOLEAN
    BY DEF Init, Steps
  <2>3. fmt \in 1..(Len(MAP_PAGES) + 1) /\ LoopInv
    BY <1>a DEF Init, LoopInv
  <2>4. workdir \in BOOLEAN /\ instance \in BOOLEAN /\ translated \in BOOLEAN
        /\ stuck \subseteq Removals
    BY DEF Init
  <2>5. /\ registered \in SUBSET Formats /\ enabled \in SUBSET Formats
        /\ kprobes \in SUBSET Formats /\ noise \in {0, 1}
    BY DEF Init
  <2> QED
    BY <2>1, <2>2, <2>3, <2>4, <2>5 DEF TypeOK
<1>2. TypeOK /\ LoopInv /\ [Next]_vars => (TypeOK /\ LoopInv)'
  <2> SUFFICES ASSUME TypeOK, LoopInv, [Next]_vars PROVE TypeOK' /\ LoopInv'
    OBVIOUS
  <2> USE Bounds, MapPagesDomain, MapPagesFormats DEF TypeOK, LoopInv, Steps, Goto, Ends, Strikes
  <2>1. CASE CheckTarget \/ PutSource \/ Compile \/ Setup \/ Conclude \/ ReadTrace
    BY <2>1 DEF CheckTarget, PutSource, Compile, Setup, Conclude, ReadTrace
  <2>2. CASE Mktemp \/ Mkdir \/ Rmdir \/ CleanupProbe
    <3>1. CASE Mktemp \/ Mkdir
      BY <3>1 DEF Mktemp, Mkdir
    <3>2. CASE Rmdir
      BY <3>2 DEF Rmdir
    <3>3. CASE CleanupProbe
      BY <3>3 DEF CleanupProbe
    <3> QED BY <2>2, <3>1, <3>2, <3>3
  <2>3. CASE Register
    BY <2>3 DEF Register
  <2>4. CASE AppendName \/ Enable
    BY <2>4 DEF AppendName, Enable
  <2>5. CASE StartProbe
    BY <2>5 DEF StartProbe
  <2>6. CASE MapPages
    BY <2>6 DEF MapPages
  <2>7. CASE ProbePasses \/ ProbeFails
    BY <2>7 DEF ProbePasses, ProbeFails
  <2>8. CASE OtherMaps
    BY <2>8 DEF OtherMaps
  <2>9. CASE Overwritten
    BY <2>9 DEF Overwritten
  <2>10. CASE RemoveKprobe
    BY <2>10 DEF RemoveKprobe
  <2>11. CASE StagingFails
    <3>1. /\ pc' = "done" /\ faults < MaxFaults /\ faults' = faults + 1
          /\ UNCHANGED <<driver, translated, symbols, instance, registered, enabled, kprobes, fmt,
                         cut, noise>>
      BY <2>11, Zenon DEF StagingFails
    <3>2. workdir' = FALSE \/ workdir' = workdir
      BY <2>11, Zenon DEF StagingFails
    <3>3. workdir' \in BOOLEAN
      BY <3>2, Zenon
    <3>4. stuck' \subseteq Removals
      BY <2>11 DEF StagingFails, Removals
    <3>5. faults' \in 0..MaxFaults /\ fmt' \in 1..(Len(MAP_PAGES) + 1) /\ LoopInv'
      BY <3>1
    <3> QED
      BY <3>1, <3>3, <3>4, <3>5, Zenon
  <2>12. CASE SetupFails \/ ReadFails \/ RemovalFails \/ KprobeFails
    <3>1. CASE ReadFails
      BY <3>1 DEF ReadFails
    <3>2. CASE RemovalFails
      <4>1. /\ pc' \in {"remove", "cleanup", "done"} /\ faults < MaxFaults /\ faults' = faults + 1
            /\ UNCHANGED <<driver, translated, symbols, workdir, instance, registered, enabled, fmt,
                           cut, noise>>
        BY <3>2 DEF RemovalFails
      <4>2. stuck' \subseteq Removals
        BY <3>2 DEF RemovalFails, Removals
      <4>3. kprobes' \subseteq kprobes
        BY <3>2 DEF RemovalFails
      <4>4. faults' \in 0..MaxFaults /\ fmt' \in 1..(Len(MAP_PAGES) + 1) /\ LoopInv'
        BY <4>1
      <4>5. kprobes' \in SUBSET Formats
        BY <4>3
      <4> QED
        BY <4>1, <4>2, <4>4, <4>5
    <3>3. CASE KprobeFails
      BY <3>3 DEF KprobeFails
    <3>4. CASE SetupFails
      BY <3>4 DEF SetupFails
    <3> QED
      BY <2>12, <3>1, <3>2, <3>3, <3>4
  <2>13. CASE Interrupt
    BY <2>13 DEF Interrupt, Guarded
  <2>14. CASE UNCHANGED vars
    BY <2>14 DEF vars
  <2> QED
    BY <2>1, <2>2, <2>3, <2>4, <2>5, <2>6, <2>7, <2>8, <2>9, <2>10, <2>11, <2>12, <2>13,
       <2>14 DEF Next
<1> QED
  BY <1>1, <1>2, PTL DEF Spec
-----------------------------------------------------------------------------

Staging == {"put", "compile"}

\* What the run has made on the target, at each of its steps, it knows of and
\* has a step to come that removes it, unless that step has failed
LeftInv ==
  /\ pc \in {"check", "mktemp"} => ~workdir
  /\ pc \in {"check", "mktemp", "mkdir"} \cup Staging => ~instance /\ registered = {}
  /\ pc \in {"setup", "register", "append", "enable"} => instance
  /\ ~instance => enabled = {}
  /\ ~cut =>
       /\ {"instance", "kprobes"} \cap stuck = {} =>
            registered \subseteq kprobes \cup (IF pc = "append" THEN {MAP_PAGES[fmt]} ELSE {})
       /\ pc \in {"remove", "cleanup", "done"} => (instance => "instance" \in stuck)
       /\ pc = "cleanup" => kprobes = {}
       /\ pc = "done" => /\ workdir => "workdir" \in stuck
                         /\ registered # {} => {"instance", "kprobes"} \cap stuck # {}

(* main()'s try and finally: whichever other command fails or is interrupted, *)
(* the run leaves on the target neither directory, instance nor kprobe, but   *)
(* for what a removal itself has failed for.                                  *)
THEOREM TargetClean == Spec => []NothingLeft
<1>1. Init => LeftInv
  BY DEF Init, LeftInv, Staging
<1>2. LeftInv /\ [Next]_vars => LeftInv'
  <2> SUFFICES ASSUME LeftInv, [Next]_vars PROVE LeftInv'
    OBVIOUS
  <2> USE DEF LeftInv, Staging, Goto, Ends, Strikes
  <2>1. CASE CheckTarget \/ PutSource \/ Compile \/ Setup \/ Conclude \/ ReadTrace
    BY <2>1 DEF CheckTarget, PutSource, Compile, Setup, Conclude, ReadTrace
  <2>2. CASE Mktemp \/ Mkdir \/ Rmdir \/ CleanupProbe
    BY <2>2 DEF Mktemp, Mkdir, Rmdir, CleanupProbe
  <2>3. CASE Register
    BY <2>3 DEF Register
  <2>4. CASE AppendName
    BY <2>4 DEF AppendName
  <2>5. CASE Enable
    BY <2>5 DEF Enable
  <2>6. CASE StartProbe
    BY <2>6 DEF StartProbe
  <2>7. CASE MapPages
    BY <2>7 DEF MapPages
  <2>8. CASE ProbePasses \/ ProbeFails
    BY <2>8 DEF ProbePasses, ProbeFails
  <2>9. CASE OtherMaps
    BY <2>9 DEF OtherMaps
  <2>10. CASE Overwritten
    BY <2>10 DEF Overwritten
  <2>11. CASE RemoveKprobe
    BY <2>11 DEF RemoveKprobe
  <2>12. CASE StagingFails \/ SetupFails \/ ReadFails \/ RemovalFails
    <3>1. CASE StagingFails
      BY <3>1 DEF StagingFails
    <3>2. CASE SetupFails \/ ReadFails
      BY <3>2 DEF SetupFails, ReadFails
    <3>3. CASE RemovalFails
      BY <3>3 DEF RemovalFails
    <3> QED BY <2>12, <3>1, <3>2, <3>3
  <2>13. CASE KprobeFails
    BY <2>13 DEF KprobeFails
  <2>14. CASE Interrupt
    BY <2>14 DEF Interrupt, Guarded
  <2>15. CASE UNCHANGED vars
    BY <2>15 DEF vars
  <2> QED
    BY <2>1, <2>2, <2>3, <2>4, <2>5, <2>6, <2>7, <2>8, <2>9, <2>10, <2>11, <2>12, <2>13,
       <2>14, <2>15 DEF Next
<1>3. LeftInv => NothingLeft
  BY DEF LeftInv, NothingLeft
<1> QED
  BY <1>1, <1>2, <1>3, PTL DEF Spec
-----------------------------------------------------------------------------

\* Symbols that the loop has passed have their kprobe, unless something failed
FoundInv ==
  faults = 0 /\ pc \in {"register", "append", "enable", "mapping", "cat", "findings"} =>
    \A i \in 1..5 : MAP_PAGES[i] \in symbols =>
      \/ MAP_PAGES[i] \in kprobes
      \/ i > fmt /\ pc \in {"register", "append", "enable"}
      \/ i = fmt /\ pc \in {"register", "append"}

\* Only a target with an IOMMU at work gets as far as the probe, and only a
\* probe that has passed, with its whole buffer mapped, as far as the verdict
PassedInv ==
  /\ pc \notin {"check", "done"} => translated
  /\ probe \in {"none", "passed", "failed", "timeout"}
  /\ pc \in {"cat", "findings"} => probe # "none"
  /\ probe = "passed" => pc \in {"cat", "findings", "rmdir", "remove", "cleanup", "done"}
  /\ probe = "passed" => translated /\ Covered(mapped) = map.nbytes

OkInv ==
  err = "ok" => pc \in {"rmdir", "remove", "cleanup", "done"}

TracedInv == TypeOK /\ LoopInv /\ FoundInv /\ PassedInv /\ OkInv /\ OkMeansTraced

(* The steps up to the probe touch none of what makes a run ok. *)
LEMMA TracedBefore ==
  ASSUME TracedInv, TypeOK', LoopInv',
         \/ CheckTarget \/ Mktemp \/ PutSource \/ Compile \/ Mkdir \/ Setup \/ Register
         \/ AppendName \/ Enable \/ StartProbe
  PROVE  TracedInv'
<1> USE MapPagesDomain DEF TracedInv, LoopInv, PassedInv, OkInv, OkMeansTraced, Goto, Ends
<1>1. CASE CheckTarget
  BY <1>1 DEF CheckTarget, FoundInv
<1>2. CASE Mktemp \/ PutSource \/ Compile \/ Mkdir
  BY <1>2 DEF Mktemp, PutSource, Compile, Mkdir, FoundInv
<1>3. CASE Setup
  BY <1>3 DEF Setup, FoundInv
<1>4. CASE Register
  BY <1>4 DEF Register, FoundInv
<1>5. CASE AppendName
  BY <1>5 DEF AppendName, FoundInv
<1>6. CASE Enable
  BY <1>6 DEF Enable, FoundInv
<1>7. CASE StartProbe
  <2>1. /\ pc = "register" /\ pc' = "mapping" /\ fmt \notin 1..5
        /\ UNCHANGED <<translated, symbols, mapped, err, kprobes, fmt, probe, found, faults>>
    BY <1>7 DEF StartProbe
  <2>2. FoundInv'
    BY <2>1 DEF FoundInv, TypeOK
  <2>3. PassedInv' /\ OkInv'
    BY <2>1
  <2>4. err' # "ok"
    BY <2>1
  <2> QED
    BY <2>2, <2>3, <2>4
<1> QED
  BY <1>1, <1>2, <1>3, <1>4, <1>5, <1>6, <1>7

(* While the probe is at work, and while its trace is read, no run is ok yet. *)
LEMMA TracedDuring ==
  ASSUME TracedInv, TypeOK', LoopInv',
         \/ MapPages \/ ProbePasses \/ ProbeFails \/ OtherMaps \/ Overwritten \/ ReadTrace
  PROVE  TracedInv'
<1> USE DEF TracedInv, PassedInv, OkInv, OkMeansTraced, Goto
<1>1. /\ pc \in {"mapping", "cat"} /\ pc' \in {"mapping", "cat", "findings"}
      /\ UNCHANGED <<translated, symbols, map, err, kprobes, fmt>>
      /\ faults' = 0 => faults = 0
  <2>1. CASE MapPages \/ OtherMaps
    BY <2>1 DEF MapPages, OtherMaps
  <2>2. CASE ProbePasses \/ ProbeFails \/ ReadTrace
    BY <2>2 DEF ProbePasses, ProbeFails, ReadTrace
  <2>3. CASE Overwritten
    BY <2>3 DEF Overwritten, TypeOK
  <2> QED
    BY <2>1, <2>2, <2>3
<1>2. FoundInv'
  BY <1>1 DEF FoundInv
<1>3. PassedInv'
  <2>1. CASE ProbePasses
    BY <2>1, <1>1 DEF ProbePasses, Position
  <2>2. CASE ProbeFails
    BY <2>2, <1>1 DEF ProbeFails
  <2>3. CASE MapPages \/ OtherMaps \/ Overwritten
    <3>1. pc = "mapping" /\ pc' = pc /\ probe' = probe
      BY <2>3 DEF MapPages, OtherMaps, Overwritten
    <3> QED
      BY <3>1, <1>1
  <2>4. CASE ReadTrace
    BY <2>4, <1>1 DEF ReadTrace
  <2> QED
    BY <2>1, <2>2, <2>3, <2>4
<1>4. err' # "ok"
  BY <1>1
<1> QED
  BY <1>2, <1>3, <1>4

(* The verdict, and what removes the traces of the run. *)
LEMMA TracedAfter ==
  ASSUME TracedInv, TypeOK', LoopInv', Conclude \/ Rmdir \/ RemoveKprobe \/ CleanupProbe
  PROVE  TracedInv'
<1> USE DEF TracedInv, Goto, Ends
<1>1. CASE Conclude
  <2>1. /\ pc = "findings" /\ pc' = "rmdir"
        /\ UNCHANGED <<translated, symbols, map, mapped, kprobes, fmt, probe, read, faults>>
    BY <1>1 DEF Conclude
  <2>2. ASSUME err' = "ok"
        PROVE  probe = "passed" /\ (found' = None => kprobes = {})
    <3>1. Result(found') = "ok"
      BY <1>1, <2>2 DEF Conclude
    <3>2. probe \notin {"timeout", "failed"}
      BY <3>1 DEF Result
    <3>3. ~(kprobes # {} /\ found' = None)
      BY <3>1 DEF Result
    <3> QED
      BY <2>1, <3>2, <3>3 DEF PassedInv
  <2>3. kprobes = {} => symbols = {} \/ faults > 0
    <3> SUFFICES ASSUME kprobes = {}, faults = 0 PROVE symbols = {}
      BY DEF TypeOK
    <3>1. \A i \in 1..5 : MAP_PAGES[i] \notin symbols
      BY <2>1 DEF FoundInv
    <3> QED
      BY <3>1, MapPagesDomain DEF TypeOK, Formats
  <2>4. FoundInv' /\ PassedInv' /\ OkInv'
    BY <2>1 DEF FoundInv, PassedInv, OkInv
  <2>5. OkMeansTraced'
    BY <2>1, <2>2, <2>3 DEF OkMeansTraced, PassedInv
  <2> QED
    BY <2>4, <2>5
<1>2. CASE Rmdir \/ RemoveKprobe \/ CleanupProbe
  <2>1. /\ pc \in {"rmdir", "remove", "cleanup"} /\ pc' \in {"remove", "cleanup", "done"}
        /\ UNCHANGED <<translated, symbols, map, mapped, err, probe, found, faults>>
    BY <1>2 DEF Rmdir, RemoveKprobe, CleanupProbe
  <2> QED
    BY <2>1 DEF FoundInv, PassedInv, OkInv, OkMeansTraced
<1> QED
  BY <1>1, <1>2

(* A fault ends the run as it should, or is counted. *)
LEMMA TracedFaults ==
  ASSUME TracedInv, TypeOK', LoopInv',
         StagingFails \/ SetupFails \/ KprobeFails \/ ReadFails \/ RemovalFails \/ Interrupt
  PROVE  TracedInv'
<1> USE DEF TracedInv, Goto, Ends, Strikes
<1>1. /\ faults' = faults + 1
      /\ UNCHANGED <<translated, symbols, map, mapped, probe, found>>
      /\ err' \in {err, "staging", "setup", "interrupted"}
  <2>1. CASE StagingFails \/ SetupFails \/ KprobeFails
    BY <2>1 DEF StagingFails, SetupFails, KprobeFails
  <2>2. CASE ReadFails \/ RemovalFails \/ Interrupt
    BY <2>2 DEF ReadFails, RemovalFails, Interrupt
  <2> QED
    BY <2>1, <2>2
<1>2. FoundInv'
  BY <1>1 DEF FoundInv, TypeOK
<1>3. PassedInv' /\ OkInv'
  <2>1. CASE StagingFails \/ SetupFails \/ KprobeFails
    BY <2>1, <1>1 DEF StagingFails, SetupFails, KprobeFails, PassedInv, OkInv
  <2>2. CASE ReadFails \/ RemovalFails
    BY <2>2, <1>1 DEF ReadFails, RemovalFails, PassedInv, OkInv
  <2>3. CASE Interrupt
    <3>1. pc # "done" /\ pc' \in {"rmdir", "done"} /\ err' = "interrupted"
          /\ (pc \notin Guarded => pc' = "done")
      BY <2>3 DEF Interrupt
    <3> QED
      BY <3>1, <1>1 DEF PassedInv, OkInv, Guarded
  <2> QED
    BY <2>1, <2>2, <2>3
<1>4. OkMeansTraced'
  BY <1>1 DEF OkMeansTraced, TypeOK
<1> QED
  BY <1>2, <1>3, <1>4

\* All of it is kept by every step.
LEMMA TracedAlways == Spec => []TracedInv
<1>1. Init => FoundInv /\ PassedInv /\ OkInv /\ OkMeansTraced
  BY DEF Init, FoundInv, PassedInv, OkInv, OkMeansTraced
<1>2. TracedInv /\ (TypeOK /\ LoopInv)' /\ [Next]_vars => TracedInv'
  <2> SUFFICES ASSUME TracedInv, TypeOK', LoopInv', [Next]_vars PROVE TracedInv'
    OBVIOUS
  <2>1. CASE UNCHANGED vars
    BY <2>1 DEF vars, TracedInv, FoundInv, PassedInv, OkInv, OkMeansTraced
  <2> QED
    BY <2>1, TracedBefore, TracedDuring, TracedAfter, TracedFaults DEF Next
<1>3. FoundInv /\ PassedInv /\ OkInv /\ OkMeansTraced /\ TypeOK /\ LoopInv <=> TracedInv
  BY DEF TracedInv
<1> QED
  BY <1>1, <1>2, <1>3, TypeCorrect, PTL DEF Spec

(* check_target() and result(): a run that ends well has traced the whole     *)
(* mapping of a probe that passed, of a device an IOMMU translates for, and   *)
(* is without findings only if the kernel has no map_pages or a step failed.  *)
THEOREM OkTraced == Spec => []OkMeansTraced
<1>1. TracedInv => OkMeansTraced
  BY DEF TracedInv
<1> QED
  BY <1>1, TracedAlways, PTL

-----------------------------------------------------------------------------
(* Numbers *)

\* A set of numbers that is not empty has a least one.
LEMMA Least ==
  ASSUME NEW T, T \subseteq Nat, T # {}
  PROVE  \E x \in T : \A y \in T : x <= y
<1> DEFINE R == OpToRel(<, Nat)
<1>1. IsWellFoundedOn(R, Nat)
  BY NatLessThanWellFounded
<1>2. \A x, y \in Nat : <<x, y>> \in R <=> x < y
  BY DEF OpToRel
<1> HIDE DEF R
<1>3. PICK x \in T : \A y \in T : ~ (<<y, x>> \in R)
  BY <1>1, WFMin
<1>4. \A y \in T : ~(y < x)
  BY <1>2, <1>3
<1>5. x \in Nat /\ \A y \in T : y \in Nat
  OBVIOUS
<1>6. \A y \in T : x <= y
  BY <1>4, <1>5
<1> QED
  BY <1>6

\* Induction up to a bound, said of a set.
LEMMA Induct ==
  ASSUME NEW n \in Nat, NEW S, 0 \in S, \A i \in 0..(n - 1) : i \in S => i + 1 \in S
  PROVE  0..n \subseteq S
<1> DEFINE T == (0..n) \ S
<1> SUFFICES ASSUME T # {} PROVE FALSE
  OBVIOUS
<1>0. T \subseteq Nat
  OBVIOUS
<1>1. PICK x \in T : \A y \in T : x <= y
  <2> HIDE DEF T
  <2> QED BY <1>0, Least
<1>2. x # 0 /\ x \in 1..n
  OBVIOUS
<1>3. x - 1 \in 0..(n - 1) /\ x - 1 \in S
  BY <1>1, <1>2
<1>4. (x - 1) + 1 \in S
  BY <1>3
<1> QED
  BY <1>2, <1>4

\* What is start at 0 and follows by step from the one before, up to n
Iterates(f, start, step, n) == f[0] = start /\ \A i \in 1..n : f[i] = step[i][f[i - 1]]

\* There is a function that iterates.
LEMMA RecDef ==
  ASSUME NEW n \in Nat, NEW A, NEW start \in A, NEW step \in [1..n -> [A -> A]]
  PROVE  \E f \in [0..n -> A] : Iterates(f, start, step, n)
<1> USE DEF Iterates
<1> DEFINE Good(f, m) == Iterates(f, start, step, m)
           N == {m \in 0..n : \E f \in [0..n -> A] : Good(f, m)}
<1>1. 0 \in N
  <2>1. Good([i \in 0..n |-> start], 0) /\ [i \in 0..n |-> start] \in [0..n -> A]
    OBVIOUS
  <2>2. 0 \in 0..n
    OBVIOUS
  <2> QED BY <2>1, <2>2
<1>2. ASSUME NEW m \in 0..(n - 1), m \in N PROVE m + 1 \in N
  <2>1. PICK f \in [0..n -> A] : Good(f, m)
    BY <1>2
  <2> DEFINE g == [f EXCEPT ![m + 1] = step[m + 1][f[m]]]
  <2>2. m \in 0..n /\ m + 1 \in 1..n /\ m + 1 \in 0..n /\ m + 1 # 0
    OBVIOUS
  <2>3. step[m + 1][f[m]] \in A
    BY <2>2
  <2>4. g \in [0..n -> A]
    BY <2>3
  <2>5. g[0] = start
    BY <2>1, <2>2
  <2>6. ASSUME NEW i \in 1..(m + 1) PROVE g[i] = step[i][g[i - 1]]
    <3>1. i - 1 \in 0..n /\ i - 1 # m + 1 /\ i \in 0..n
      BY <2>2
    <3>2. g[i - 1] = f[i - 1]
      BY <3>1
    <3>3. CASE i = m + 1
      BY <3>1, <3>2, <3>3
    <3>4. CASE i # m + 1
      BY <3>1, <3>2, <3>4, <2>1
    <3> QED BY <3>3, <3>4
  <2> QED BY <2>2, <2>4, <2>5, <2>6
<1>3. 0..n \subseteq N
  <2> HIDE DEF N
  <2> QED BY <1>1, <1>2, Induct
<1> QED
  BY <1>3

\* A set of numbers up to a bound has a largest
LEMMA MaxIs ==
  ASSUME NEW S, NEW b \in Nat, S \subseteq 0..b, S # {}
  PROVE  Max(S) \in S /\ \A x \in S : x <= Max(S)
<1> DEFINE T == {b - x : x \in S}
<1>1. T \subseteq Nat /\ T # {}
  <2>1. \A x \in S : b - x \in Nat
    OBVIOUS
  <2> QED BY <2>1
<1>2. PICK t \in T : \A u \in T : t <= u
  BY <1>1, Least
<1>3. PICK x \in S : t = b - x
  OBVIOUS
<1>4. \A y \in S : b - x <= b - y
  BY <1>2, <1>3
<1>5. \A y \in S : x >= y
  BY <1>4
<1>6. \E z \in S : \A y \in S : z >= y
  BY <1>5
<1>7. Max(S) \in S /\ \A y \in S : Max(S) >= y
  BY <1>6 DEF Max
<1> QED
  BY <1>7

\* A set of numbers has a least one, and it is Min of it.
LEMMA MinIs ==
  ASSUME NEW S, S \subseteq Nat, S # {}
  PROVE  Min(S) \in S /\ \A x \in S : Min(S) <= x
<1>1. \E x \in S : \A y \in S : x <= y
  BY Least
<1> QED
  BY <1>1 DEF Min

-----------------------------------------------------------------------------
(* Divisors *)

\* A number is a multiple of another and a remainder.
LEMMA Remainder ==
  ASSUME NEW x \in Nat, NEW p \in Nat \ {0}
  PROVE  \E d \in Nat, r \in 0..(p - 1) : x = p * d + r
<1>1. x \div p \in Nat /\ x % p \in 0..(p - 1) /\ x = p * (x \div p) + (x % p)
  OBVIOUS
<1> QED
  BY <1>1

\* To have no remainder is to be a multiple.
LEMMA Divides ==
  ASSUME NEW x \in Int, NEW p \in Nat \ {0}
  PROVE  x % p = 0 <=> \E m \in Int : x = m * p
<1>1. ASSUME x % p = 0 PROVE x = (x \div p) * p /\ x \div p \in Int
  BY <1>1
<1>2. \A m \in Int : (m * p) % p = 0
  OBVIOUS
<1> QED
  BY <1>1, <1>2

\* A sum or difference with a multiple is one when the other number is.
LEMMA DividesSum ==
  ASSUME NEW x \in Int, NEW y \in Int, NEW p \in Nat \ {0}, x % p = 0
  PROVE  /\ (x + y) % p = 0 <=> y % p = 0
         /\ (x - y) % p = 0 <=> y % p = 0
         /\ (y - x) % p = 0 <=> y % p = 0
         /\ (-x) % p = 0
<1>1. PICK m \in Int : x = m * p
  BY Divides
<1>2. ASSUME y % p = 0
      PROVE  (x + y) % p = 0 /\ (x - y) % p = 0 /\ (y - x) % p = 0
  <2>1. PICK k \in Int : y = k * p
    BY <1>2, Divides
  <2>2. x + y = (m + k) * p /\ x - y = (m - k) * p /\ y - x = (k - m) * p
    BY <1>1, <2>1
  <2>3. m + k \in Int /\ m - k \in Int /\ k - m \in Int /\ x + y \in Int /\ x - y \in Int /\ y - x \in Int
    OBVIOUS
  <2> QED BY <2>2, <2>3, Divides
<1>3. ASSUME NEW k \in Int, x + y = k * p PROVE y % p = 0
  <2>1. y = (k - m) * p /\ k - m \in Int
    BY <1>1, <1>3
  <2> QED BY <2>1, Divides
<1>4. ASSUME NEW k \in Int, x - y = k * p PROVE y % p = 0
  <2>1. y = (m - k) * p /\ m - k \in Int
    BY <1>1, <1>4
  <2> QED BY <2>1, Divides
<1>5. ASSUME NEW k \in Int, y - x = k * p PROVE y % p = 0
  <2>1. y = (m + k) * p /\ m + k \in Int
    BY <1>1, <1>5
  <2> QED BY <2>1, Divides
<1>6. (-x) % p = 0
  <2>1. -x = (-m) * p /\ -m \in Int /\ -x \in Int
    BY <1>1
  <2> QED BY <2>1, Divides
<1>7. x + y \in Int /\ x - y \in Int /\ y - x \in Int
  OBVIOUS
<1> QED
  BY <1>2, <1>3, <1>4, <1>5, <1>6, <1>7, Divides

\* A product with a multiple is a multiple.
LEMMA DividesProduct ==
  ASSUME NEW x \in Int, NEW k \in Int, NEW p \in Nat \ {0}, NEW y, y = k * x, x % p = 0
  PROVE  y % p = 0
<1>1. PICK m \in Int : x = m * p
  BY Divides
<1>2. y = (k * m) * p /\ k * m \in Int /\ y \in Int
  BY <1>1
<1> QED
  BY <1>2, Divides

\* The larger factor makes the larger product.
LEMMA Products ==
  ASSUME NEW a \in Nat, NEW b \in Nat, NEW c \in Nat, b >= c
  PROVE  a * b >= a * c /\ b * a >= c * a
<1>1. PICK d \in Nat : d = b - c
  OBVIOUS
<1>2. a * d \in Nat /\ a * c \in Nat
  OBVIOUS
<1>3. b = c + d
  BY <1>1
<1>4. a * b = a * c + a * d
  BY <1>3
<1>5. b * a = a * b /\ c * a = a * c
  OBVIOUS
<1> QED
  BY <1>2, <1>4, <1>5

\* A multiple of a multiple is a multiple.
LEMMA DividesTrans ==
  ASSUME NEW x \in Int, NEW q \in Nat \ {0}, NEW p \in Nat \ {0}, x % q = 0, q % p = 0
  PROVE  x % p = 0
<1>1. PICK m \in Int : x = m * q
  BY Divides
<1>2. PICK k \in Int : q = k * p
  BY Divides
<1>3. x = (m * k) * p /\ m * k \in Int
  BY <1>1, <1>2
<1> QED
  BY <1>3, Divides

-----------------------------------------------------------------------------
(* Powers of two *)

\* AddressBits is a number, and so is everything up to it.
LEMMA PowIs ==
  /\ AddressBits \in Nat
  /\ Pow \in [0..AddressBits -> Nat \ {0}]
  /\ Pow[0] = 1
  /\ \A k \in 1..AddressBits : Pow[k] = 2 * Pow[k - 1]
<1> DEFINE n == AddressBits
<1>1. n \in Nat
  BY FindingsAssumption DEF FindingsAssumption
<1> DEFINE A == Nat \ {0}
           step == [k \in 1..n |-> [x \in A |-> 2 * x]]
<1>2. step \in [1..n -> [A -> A]] /\ 1 \in A
  OBVIOUS
<1>3. PICK f \in [0..n -> A] : Iterates(f, 1, step, n)
  <2> HIDE DEF A, step, n
  <2> QED BY <1>1, <1>2, RecDef
<1>4. \A k \in 1..n : f[k] = 2 * f[k - 1]
  <2> SUFFICES ASSUME NEW k \in 1..n PROVE f[k] = 2 * f[k - 1]
    OBVIOUS
  <2>1. f[k] = step[k][f[k - 1]]
    BY <1>3 DEF Iterates
  <2>2. k - 1 \in 0..n
    BY <1>1
  <2>3. f[k - 1] \in A
    BY <2>2
  <2> QED BY <2>1, <2>3
<1>5. f = [k \in 0..n |-> IF k = 0 THEN 1 ELSE 2 * f[k - 1]]
  <2>1. \A k \in 0..n : f[k] = IF k = 0 THEN 1 ELSE 2 * f[k - 1]
    BY <1>1, <1>3, <1>4 DEF Iterates
  <2> QED BY <2>1
<1>6. Pow = [k \in 0..n |-> IF k = 0 THEN 1 ELSE 2 * Pow[k - 1]]
  BY <1>5 DEF Pow
<1> DEFINE S == {k \in 0..n : Pow[k] \in A}
<1>7. 0..n \subseteq S
  <2>1. 0 \in S
    BY <1>1, <1>6
  <2>2. ASSUME NEW k \in 0..(n - 1), k \in S PROVE k + 1 \in S
    <3>1. k + 1 \in 0..n /\ k + 1 # 0 /\ (k + 1) - 1 = k
      BY <1>1
    <3>2. Pow[k + 1] = 2 * Pow[k]
      BY <1>6, <3>1
    <3> QED BY <2>2, <3>1, <3>2
  <2> HIDE DEF S
  <2> QED BY <1>1, <2>1, <2>2, Induct
<1>8. Pow \in [0..n -> Nat \ {0}]
  BY <1>6, <1>7
<1>9. Pow[0] = 1 /\ \A k \in 1..n : Pow[k] = 2 * Pow[k - 1]
  BY <1>1, <1>6
<1> QED
  BY <1>1, <1>8, <1>9

\* Each is a multiple of those before it.
LEMMA PowUp ==
  ASSUME NEW i \in 0..AddressBits, NEW j \in 0..AddressBits, i <= j
  PROVE  Pow[i] <= Pow[j] /\ Pow[j] % Pow[i] = 0
<1> DEFINE n == AddressBits - i
           S == {d \in 0..n : Pow[i + d] % Pow[i] = 0 /\ Pow[i] <= Pow[i + d]}
<1>1. n \in Nat /\ Pow[i] \in Nat \ {0}
  BY PowIs
<1>2. 0 \in S
  BY <1>1
<1>3. ASSUME NEW d \in 0..(n - 1), d \in S PROVE d + 1 \in S
  <2>1. i + d + 1 \in 1..AddressBits /\ (i + d + 1) - 1 = i + d /\ i + (d + 1) = i + d + 1
    BY PowIs
  <2>2. Pow[i + d + 1] = 2 * Pow[i + d] /\ Pow[i + d] \in Nat
    BY <2>1, PowIs
  <2>3. Pow[i + d + 1] % Pow[i] = 0
    <3>1. Pow[i + d] \in Int /\ 2 \in Int /\ Pow[i + d] % Pow[i] = 0
      BY <1>3, <2>2
    <3>2. PICK x \in Int, p \in Nat \ {0} : x = Pow[i + d] /\ p = Pow[i]
      BY <1>1, <3>1
    <3>3. PICK m \in Int : x = m * p
      BY <3>1, <3>2, Divides
    <3>4. 2 * x = (2 * m) * p /\ 2 * m \in Int /\ 2 * x \in Int
      BY <3>3
    <3>5. (2 * x) % p = 0
      BY <3>4, Divides
    <3> QED BY <2>2, <3>2, <3>5
  <2> QED BY <1>1, <1>3, <2>1, <2>2, <2>3
<1>4. 0..n \subseteq S
  <2> HIDE DEF S, n
  <2> QED BY <1>1, <1>2, <1>3, Induct
<1>5. j - i \in S
  <2>1. j - i \in 0..n
    BY <1>1, PowIs
  <2> HIDE DEF S
  <2> QED BY <1>4, <2>1
<1>6. i + (j - i) = j
  OBVIOUS
<1> QED
  BY <1>5, <1>6

\* What the powers of two are, and that the smallest page is one.
LEMMA PowersAre ==
  /\ Powers \subseteq 1..Pow[AddressBits] /\ Pow[AddressBits] \in Powers
  /\ SmallestPage \in Powers /\ Powers \subseteq Nat \ {0}
  /\ \A p, q \in Powers : p <= q => q % p = 0
<1>1. AddressBits \in 0..AddressBits
  BY PowIs
<1>2. ASSUME NEW p \in Powers PROVE p \in 1..Pow[AddressBits]
  <2>1. PICK i \in 0..AddressBits : p = Pow[i]
    BY DEF Powers
  <2> QED BY <1>1, <2>1, PowIs, PowUp
<1>3. Pow[AddressBits] \in Powers /\ SmallestPage \in Powers
  BY <1>1, FindingsAssumption DEF Powers, FindingsAssumption
<1>4. ASSUME NEW p \in Powers, NEW q \in Powers, p <= q PROVE q % p = 0
  <2>1. PICK i \in 0..AddressBits, j \in 0..AddressBits : p = Pow[i] /\ q = Pow[j]
    BY DEF Powers
  <2>2. CASE i <= j
    BY <2>1, <2>2, PowUp
  <2>3. CASE j <= i
    <3>1. q <= p /\ p \in Nat \ {0} /\ q \in Nat \ {0}
      BY <2>1, <2>3, PowUp, PowIs
    <3> QED BY <1>4, <3>1
  <2> QED BY <2>2, <2>3
<1>5. Powers \subseteq Nat \ {0}
  <2>1. \A k \in 0..AddressBits : Pow[k] \in Nat \ {0}
    BY PowIs
  <2> QED BY <2>1 DEF Powers
<1> QED
  BY <1>2, <1>3, <1>4, <1>5

\* What the alignment of a number says of the pages it is a multiple of.
LEMMA AlignmentIs ==
  ASSUME NEW x \in Nat
  PROVE  /\ Alignment(x) \in Powers
         /\ \A p \in Powers : x % p = 0 <=> p <= Alignment(x)
<1>1. Powers \subseteq 1..Pow[AddressBits] /\ Pow[AddressBits] \in Nat
  BY PowersAre, PowIs
<1>2. CASE x = 0
  BY <1>1, <1>2, PowersAre DEF Alignment
<1>3. CASE x # 0
  <2> DEFINE S == {p \in Powers : x % p = 0}
  <2>1. 1 \in S
    <3>1. 1 \in Powers
      BY PowIs DEF Powers
    <3> QED BY <3>1
  <2>2. S \subseteq 0..Pow[AddressBits]
    <3>1. \A p \in Powers : p \in 0..Pow[AddressBits]
      BY <1>1
    <3> QED BY <3>1
  <2>3. \A m \in S : m \in Powers /\ x % m = 0
    OBVIOUS
  <2>4. \A p \in Powers : x % p = 0 => p \in S
    OBVIOUS
  <2>5. Alignment(x) = Max(S)
    BY <1>3 DEF Alignment
  <2>6. PICK m \in Powers : m = Alignment(x) /\ x % m = 0 /\ \A p \in Powers : x % p = 0 => p <= m
    <3> HIDE DEF S
    <3>1. Max(S) \in S /\ \A p \in S : p <= Max(S)
      BY <1>1, <2>1, <2>2, MaxIs
    <3> QED BY <2>3, <2>4, <2>5, <3>1
  <2>7. ASSUME NEW p \in Powers, p <= m PROVE x % p = 0
    <3>1. m \in Nat \ {0} /\ p \in Nat \ {0} /\ x \in Int /\ m % p = 0
      BY <2>7, PowersAre
    <3> QED BY <2>6, <3>1, DividesTrans
  <2> QED BY <2>6, <2>7
<1> QED
  BY <1>2, <1>3

\* Aligned up, an address is the next multiple of the page.
LEMMA AlignUpIs ==
  ASSUME NEW x \in Nat, NEW p \in Nat \ {0}
  PROVE  /\ AlignUp(x, p) \in Nat /\ AlignUp(x, p) >= x /\ AlignUp(x, p) % p = 0
         /\ \A y \in Nat : y >= x /\ y % p = 0 => AlignUp(x, p) <= y
<1> DEFINE d == (x + p - 1) \div p
<1>1. d \in Nat /\ x + p - 1 = (d * p) + ((x + p - 1) % p) /\ (x + p - 1) % p \in 0..(p - 1)
  OBVIOUS
<1>2. AlignUp(x, p) = d * p /\ d * p \in Nat
  BY <1>1 DEF AlignUp
<1>3. d * p >= x
  BY <1>1, <1>2
<1>4. AlignUp(x, p) % p = 0
  <2>1. \E m \in Int : AlignUp(x, p) = m * p
    <3>1. d \in Int /\ AlignUp(x, p) = d * p
      BY <1>1, <1>2
    <3> HIDE DEF d
    <3> QED BY <3>1
  <2> QED BY <1>2, <2>1, Divides
<1>5. ASSUME NEW y \in Nat, y >= x, y % p = 0 PROVE d * p <= y
  <2>1. PICK m \in Int : y = m * p
    BY <1>5, Divides
  <2>2. m * p > (d - 1) * p
    BY <1>1, <1>5, <2>1
  <2>3. m > d - 1
    <3> HIDE DEF d
    <3> SUFFICES ASSUME m <= d - 1 PROVE FALSE
      BY <1>1
    <3>1. ((d - 1) - m) * p >= 0
      BY <1>1
    <3> QED BY <1>1, <2>2, <3>1
  <2>4. (m - d) * p >= 0
    <3> HIDE DEF d
    <3> QED BY <1>1, <2>3
  <2> QED BY <1>1, <2>1, <2>4
<1> QED
  BY <1>2, <1>3, <1>4, <1>5

\* A page that is larger than the smallest fits if and only if the doubling gets to it.
LEMMA LargestFitIs ==
  ASSUME NEW iova \in Nat, NEW nbytes \in Nat
  PROVE  /\ LargestFit(iova, nbytes) \in Powers /\ LargestFit(iova, nbytes) >= SmallestPage
         /\ \A p \in Powers : p > SmallestPage =>
              (FitsIn(iova, nbytes, p) <=> p <= LargestFit(iova, nbytes))
<1> DEFINE Good(p) == /\ p >= SmallestPage
                      /\ \A q \in Powers : q > SmallestPage /\ q <= p => FitsIn(iova, nbytes, q)
           S == {p \in Powers : Good(p)}
<1>1. Powers \subseteq Nat \ {0} /\ SmallestPage \in Powers /\ Pow[AddressBits] \in Nat
  BY PowersAre
<1>2. SmallestPage \in S
  BY <1>1
<1>3. S \subseteq 0..Pow[AddressBits]
  <2>1. \A p \in Powers : p \in 0..Pow[AddressBits]
    BY PowersAre
  <2> QED BY <2>1
<1>4. LargestFit(iova, nbytes) = Max(S)
  BY DEF LargestFit
<1>5. \A p \in S : p \in Powers /\ Good(p)
  OBVIOUS
<1>6. \A p \in Powers : Good(p) => p \in S
  OBVIOUS
<1>7. PICK m \in Powers : m = LargestFit(iova, nbytes) /\ Good(m) /\ \A p \in Powers : Good(p) => p <= m
  <2> HIDE DEF S, Good
  <2>1. Max(S) \in S /\ \A p \in S : p <= Max(S)
    BY <1>1, <1>2, <1>3, MaxIs
  <2> QED BY <1>4, <1>5, <1>6, <2>1
<1>8. ASSUME NEW p \in Powers, p > SmallestPage, FitsIn(iova, nbytes, p) PROVE Good(p)
  <2> SUFFICES ASSUME NEW q \in Powers, q > SmallestPage, q <= p PROVE FitsIn(iova, nbytes, q)
    BY <1>1, <1>8
  <2>1. p \in Nat \ {0} /\ q \in Nat \ {0} /\ p % q = 0
    BY PowersAre
  <2>2. /\ AlignUp(iova, p) \in Nat /\ AlignUp(iova, p) >= iova /\ AlignUp(iova, p) % p = 0
    BY <2>1, AlignUpIs
  <2>3. AlignUp(iova, p) % q = 0
    BY <2>1, <2>2, DividesTrans
  <2>4. AlignUp(iova, q) \in Nat /\ AlignUp(iova, q) <= AlignUp(iova, p)
    BY <2>1, <2>2, <2>3, AlignUpIs
  <2> QED BY <1>8, <2>1, <2>2, <2>4 DEF FitsIn
<1> HIDE DEF S
<1> QED
  BY <1>1, <1>7, <1>8

\* A page could back part of a mapping if and only if it fits and the addresses line up.
LEMMA UsableIs ==
  ASSUME NEW iova \in Nat, NEW paddr \in Nat, NEW nbytes \in Nat, NEW p \in Powers
  PROVE  /\ FitsIn(iova, nbytes, p) => p <= nbytes
         /\ Usable(p, iova, paddr, nbytes) <=>
              FitsIn(iova, nbytes, p) /\ p <= Alignment(Distance(iova, paddr))
<1> DEFINE up == AlignUp(iova, p)
<1>1. /\ p \in Nat \ {0} /\ up \in Nat /\ up >= iova /\ up % p = 0
      /\ \A y \in Nat : y >= iova /\ y % p = 0 => up <= y
  BY PowersAre, AlignUpIs
<1>2. Distance(iova, paddr) \in Nat
  BY DEF Distance
<1>3. p <= Alignment(Distance(iova, paddr)) <=> Distance(iova, paddr) % p = 0
  BY <1>2, AlignmentIs
<1>4. Distance(iova, paddr) % p = 0 <=> (iova - paddr) % p = 0
  <2>1. CASE iova < paddr
    <3> DEFINE d == paddr - iova
    <3>1. d \in Int /\ -d \in Int /\ -d = iova - paddr /\ -(-d) = d /\ Distance(iova, paddr) = d
      BY <2>1 DEF Distance
    <3> HIDE DEF d
    <3>2. d % p = 0 => (-d) % p = 0
      BY <1>1, <3>1, DividesSum
    <3>3. (-d) % p = 0 => (-(-d)) % p = 0
      BY <1>1, <3>1, DividesSum
    <3> QED BY <3>1, <3>2, <3>3
  <2>2. CASE ~(iova < paddr)
    BY <2>2 DEF Distance
  <2> QED BY <2>1, <2>2
<1>5. ASSUME NEW a \in Nat, a % p = 0
      PROVE  (a - iova + paddr) % p = 0 <=> (iova - paddr) % p = 0
  <2> DEFINE d == iova - paddr
  <2>1. d \in Int /\ a \in Int /\ a - iova + paddr = a - d
    OBVIOUS
  <2> HIDE DEF d
  <2>2. (a - d) % p = 0 <=> d % p = 0
    BY <1>1, <1>5, <2>1, DividesSum
  <2> QED BY <2>1, <2>2 DEF d
<1> HIDE DEF up
<1>6. FitsIn(iova, nbytes, p) <=> up + p <= iova + nbytes
  BY DEF FitsIn, up
<1>7. ASSUME Usable(p, iova, paddr, nbytes)
      PROVE  FitsIn(iova, nbytes, p) /\ (iova - paddr) % p = 0
  <2>1. PICK a \in iova..(iova + nbytes - p) : a % p = 0 /\ (a - iova + paddr) % p = 0
    BY <1>7 DEF Usable
  <2>2. a \in Nat /\ a >= iova /\ a + p <= iova + nbytes
    BY <1>1, <2>1
  <2>3. up <= a
    BY <1>1, <2>1, <2>2
  <2>4. (iova - paddr) % p = 0
    BY <1>5, <2>1, <2>2
  <2> QED BY <1>1, <1>6, <2>2, <2>3, <2>4
<1>8. ASSUME FitsIn(iova, nbytes, p), (iova - paddr) % p = 0
      PROVE  Usable(p, iova, paddr, nbytes)
  <2>1. up \in iova..(iova + nbytes - p)
    BY <1>1, <1>6, <1>8
  <2>2. (up - iova + paddr) % p = 0
    BY <1>1, <1>5, <1>8
  <2> QED BY <1>1, <2>1, <2>2 DEF Usable
<1>9. FitsIn(iova, nbytes, p) => p <= nbytes
  BY <1>1, <1>6
<1> QED
  BY <1>3, <1>4, <1>7, <1>8, <1>9

\* The largest page of some calls
Largest(calls) == Max({calls[i].size : i \in DOMAIN calls})

\* The larger pages that a mapping could have used.
Larger(size, iova, paddr, nbytes) ==
  {p \in Powers : p > size /\ p <= nbytes /\ Usable(p, iova, paddr, nbytes)}

\* A verdict that says this page, of these calls, and names the domain only if
\* a larger one could have been used
Explains(v, page, calls, iova, paddr, nbytes) ==
  /\ v.largest = page /\ v.pages = Pages(calls)
  /\ IF v.cap = {"domain"} THEN Larger(page, iova, paddr, nbytes) # {}
                           ELSE v.cap # {} /\ Larger(page, iova, paddr, nbytes) = {}

\* What a verdict says, of calls whose largest page is this one: it names the domain if
\* a larger page could have been used, and otherwise addresses or range.
LEMMA CapIs ==
  ASSUME NEW iova \in Nat, NEW paddr \in Nat, NEW nbytes \in Nat, NEW calls,
         calls[1].paddr = paddr, NEW largest \in Powers, largest >= SmallestPage,
         largest = Largest(calls)
  PROVE  Explains(Verdict(iova, nbytes, calls), largest, calls, iova, paddr, nbytes)
<1> DEFINE v == Verdict(iova, nbytes, calls)
           lines == Alignment(Distance(iova, paddr))
           fits == LargestFit(iova, nbytes)
           allowed == Smaller(lines, fits)
           bigger == Larger(largest, iova, paddr, nbytes)
<1> USE DEF Larger, Largest, Explains
<1>1. /\ v.largest = largest /\ v.pages = Pages(calls)
      /\ v.cap = IF largest < allowed THEN {"domain"}
                 ELSE {why \in {"addresses", "range"} :
                         allowed = IF why = "range" THEN fits ELSE lines}
  BY DEF Verdict
<1>2. Powers \subseteq Nat \ {0} /\ SmallestPage \in Powers
  BY PowersAre
<1>3. lines \in Powers /\ fits \in Powers
  <2>1. Distance(iova, paddr) \in Nat
    BY DEF Distance
  <2> QED BY <2>1, AlignmentIs, LargestFitIs
<1>4. ASSUME NEW p \in Powers, p > SmallestPage
      PROVE  Usable(p, iova, paddr, nbytes) <=> p <= fits /\ p <= lines
  BY <1>4, UsableIs, LargestFitIs
<1>5. ASSUME NEW p \in Powers, p > SmallestPage, p <= fits PROVE p <= nbytes
  BY <1>5, UsableIs, LargestFitIs
<1> HIDE DEF v, lines, fits
<1>6. allowed \in {lines, fits} /\ allowed <= lines /\ allowed <= fits
      /\ (allowed = lines \/ allowed = fits) /\ \A p \in Powers : p <= lines /\ p <= fits => p <= allowed
  BY <1>2, <1>3 DEF Smaller
<1> HIDE DEF allowed
<1>7. CASE largest < allowed
  <2>1. allowed \in Powers /\ allowed > SmallestPage
    BY <1>2, <1>3, <1>6, <1>7
  <2>2. allowed \in bigger
    BY <1>4, <1>5, <1>6, <1>7, <2>1
  <2> HIDE DEF bigger
  <2> QED BY <1>1, <1>7, <2>2 DEF v, bigger
<1>8. CASE ~(largest < allowed)
  <2>1. ASSUME NEW p \in bigger PROVE FALSE
    <3>1. p \in Powers /\ p > largest /\ Usable(p, iova, paddr, nbytes) /\ p > SmallestPage
      BY <1>2
    <3>2. p <= allowed
      BY <1>4, <1>6, <3>1
    <3>3. allowed \in Nat /\ largest \in Nat /\ p \in Nat
      BY <1>2, <1>3, <1>6, <3>1
    <3>4. p > largest /\ p <= allowed /\ ~(largest < allowed)
      BY <1>8, <3>1, <3>2
    <3> HIDE DEF bigger
    <3> QED BY <3>3, <3>4
  <2>2. bigger = {}
    BY <2>1
  <2>3. v.cap # {"domain"} /\ v.cap # {}
    <3>1. v.cap = {why \in {"addresses", "range"} : allowed = IF why = "range" THEN fits ELSE lines}
      BY <1>1, <1>8
    <3>2. "domain" \notin v.cap
      BY <3>1
    <3>3. "addresses" \in v.cap \/ "range" \in v.cap
      BY <1>6, <3>1
    <3> QED BY <3>2, <3>3
  <2> HIDE DEF bigger
  <2> QED BY <1>1, <2>2, <2>3 DEF v, bigger
<1> QED
  BY <1>7, <1>8

-----------------------------------------------------------------------------
(* Traces *)

\* What an event has.
LEMMA EventIs ==
  ASSUME NEW e \in Events
  PROVE  /\ e.by \in {"probe", "other"} /\ e.at \in {"call", "map"}
         /\ e.iova \in Nat /\ e.paddr \in Nat /\ e.size \in Nat /\ e.count \in Nat
         /\ e.size * e.count \in Nat
<1>1. e.by \in {"probe", "other"} /\ e.at \in {"call", "map"} /\ e.iova \in Nat /\ e.paddr \in Nat
  BY DEF Events
<1>2. e.size \in Nat /\ e.count \in Nat
  BY DEF Events
<1> QED
  BY <1>1, <1>2

\* What the sum of n numbers goes through
Sums(f, n, worth) ==
  /\ f \in [0..n -> Nat] /\ f[0] = 0
  /\ \A i \in 1..n : f[i] = f[i - 1] + worth[i]

\* Total is the last of the sums.
LEMMA TotalSums ==
  ASSUME NEW n \in Nat, NEW worth \in [1..n -> Nat]
  PROVE  \E f : Sums(f, n, worth) /\ Total(n, worth) = f[n]
<1> DEFINE step == [i \in 1..n |-> [x \in Nat |-> x + worth[i]]]
<1>3. step \in [1..n -> [Nat -> Nat]]
  OBVIOUS
<1>4. PICK f \in [0..n -> Nat] : Iterates(f, 0, step, n)
  <2> HIDE DEF step
  <2> QED BY <1>3, RecDef
<1>5. f[0] = 0 /\ \A i \in 1..n : f[i] = f[i - 1] + worth[i]
  <2>1. \A i \in 1..n : i - 1 \in 0..n
    OBVIOUS
  <2> QED BY <1>4, <2>1 DEF Iterates
<1>6. f = [i \in 0..n |-> IF i = 0 THEN 0 ELSE f[i - 1] + worth[i]]
  <2>1. \A i \in 0..n : f[i] = IF i = 0 THEN 0 ELSE f[i - 1] + worth[i]
    BY <1>5
  <2> QED BY <1>4, <2>1
<1> DEFINE Is(g) == g = [i \in 0..n |-> IF i = 0 THEN 0 ELSE g[i - 1] + worth[i]]
           g == CHOOSE h : Is(h)
<1>7. Is(g)
  BY <1>6
<1>8. Total(n, worth) = g[n]
  BY DEF Total
<1> HIDE DEF g
<1> DEFINE S == {i \in 0..n : g[i] = f[i]}
<1>9. 0..n \subseteq S
  <2>1. 0 \in S
    BY <1>5, <1>7
  <2>2. ASSUME NEW i \in 0..(n - 1), i \in S PROVE i + 1 \in S
    <3>1. i + 1 \in 1..n /\ i + 1 \in 0..n /\ i + 1 # 0 /\ (i + 1) - 1 = i
      OBVIOUS
    <3>2. g[i + 1] = g[i] + worth[i + 1] /\ f[i + 1] = f[i] + worth[i + 1]
      BY <1>5, <1>7, <3>1
    <3> QED BY <2>2, <3>1, <3>2
  <2> HIDE DEF S
  <2> QED BY <2>1, <2>2, Induct
<1>10. g[n] = f[n]
  BY <1>9
<1>11. Sums(f, n, worth)
  BY <1>4, <1>5 DEF Sums
<1> QED
  BY <1>8, <1>10, <1>11

\* Two runs of the sum go through the same as far as the numbers are the same.
LEMMA SumsAgree ==
  ASSUME NEW n \in Nat, NEW m \in Nat, n <= m, NEW v \in [1..n -> Nat], NEW w \in [1..m -> Nat],
         NEW f, Sums(f, n, v), NEW g, Sums(g, m, w), \A i \in 1..n : v[i] = w[i]
  PROVE  \A i \in 0..n : f[i] = g[i]
<1> DEFINE S == {i \in 0..n : f[i] = g[i]}
<1>1. 0 \in S
  BY DEF Sums
<1>2. ASSUME NEW i \in 0..(n - 1), i \in S PROVE i + 1 \in S
  <2>1. i + 1 \in 1..n /\ i + 1 \in 1..m /\ (i + 1) - 1 = i /\ i + 1 \in 0..n
    OBVIOUS
  <2>2. f[i + 1] = f[i] + v[i + 1] /\ g[i + 1] = g[i] + w[i + 1]
    BY <2>1 DEF Sums
  <2> QED BY <1>2, <2>1, <2>2
<1> HIDE DEF S
<1>3. 0..n \subseteq S
  BY <1>1, <1>2, Induct
<1> QED
  BY <1>3 DEF S

\* What a sum is, of nothing, with one more, and at the least.
LEMMA TotalIs ==
  ASSUME NEW n \in Nat, NEW worth \in [1..n -> Nat]
  PROVE  /\ Total(n, worth) \in Nat
         /\ n = 0 => Total(n, worth) = 0
         /\ n > 0 => worth[1] <= Total(n, worth)
         /\ \A w \in [1..(n + 1) -> Nat] :
              (\A i \in 1..n : w[i] = worth[i]) => Total(n + 1, w) = Total(n, worth) + w[n + 1]
<1>1. PICK f : Sums(f, n, worth) /\ Total(n, worth) = f[n]
  BY TotalSums
<1>2. n > 0 => worth[1] <= f[n]
  <2> SUFFICES ASSUME n > 0 PROVE worth[1] <= f[n]
    OBVIOUS
  <2> DEFINE k == n - 1
             S == {i \in 0..k : worth[1] <= f[i + 1]}
  <2>1. k \in Nat
    OBVIOUS
  <2>2. 0 \in S
    <3>1. f[1] = f[0] + worth[1] /\ worth[1] \in Nat
      BY <1>1 DEF Sums
    <3> QED BY <1>1, <3>1 DEF Sums
  <2>3. ASSUME NEW i \in 0..(k - 1), i \in S PROVE i + 1 \in S
    <3>1. i + 2 \in 1..n /\ (i + 2) - 1 = i + 1 /\ (i + 1) + 1 = i + 2 /\ i + 1 \in 0..k /\ i + 1 \in 0..n
      OBVIOUS
    <3>2. f[i + 2] = f[i + 1] + worth[i + 2] /\ f[i + 1] \in Nat /\ worth[i + 2] \in Nat /\ worth[1] \in Nat
      BY <1>1, <3>1 DEF Sums
    <3> QED BY <2>3, <3>1, <3>2
  <2>4. 0..k \subseteq S
    <3> HIDE DEF S, k
    <3> QED BY <2>1, <2>2, <2>3, Induct
  <2>5. k \in 0..k /\ k + 1 = n
    OBVIOUS
  <2> QED BY <2>4, <2>5
<1>3. ASSUME NEW w \in [1..(n + 1) -> Nat], \A i \in 1..n : w[i] = worth[i]
      PROVE  Total(n + 1, w) = Total(n, worth) + w[n + 1]
  <2>1. n + 1 \in Nat /\ n <= n + 1 /\ n + 1 \in 1..(n + 1) /\ (n + 1) - 1 = n /\ n \in 0..n
    OBVIOUS
  <2>2. PICK g : Sums(g, n + 1, w) /\ Total(n + 1, w) = g[n + 1]
    BY <2>1, TotalSums
  <2>3. f[n] = g[n]
    BY <1>1, <1>3, <2>1, <2>2, SumsAgree
  <2>4. g[n + 1] = g[n] + w[n + 1]
    BY <2>1, <2>2 DEF Sums
  <2> QED BY <1>1, <2>2, <2>3, <2>4
<1>4. f[n] \in Nat /\ f[0] = 0
  BY <1>1 DEF Sums
<1> QED
  BY <1>1, <1>2, <1>3, <1>4

\* What calls cover: nothing without a call, one more call's pages, no less than the first.
LEMMA CoveredIs ==
  ASSUME NEW s \in Seq(Events)
  PROVE  /\ Covered(s) \in Nat /\ Pages(s) \in Nat
         /\ s = << >> => Covered(s) = 0
         /\ s # << >> => s[1].size * s[1].count <= Covered(s)
         /\ \A e \in Events : Covered(Append(s, e)) = Covered(s) + e.size * e.count
<1> DEFINE n == Len(s)
           w == [i \in 1..n |-> s[i].size * s[i].count]
           c == [i \in 1..n |-> s[i].count]
<1>1. n \in Nat /\ \A i \in 1..n : s[i] \in Events
  BY ElementOfSeq, LenProperties
<1>2. w \in [1..n -> Nat] /\ c \in [1..n -> Nat]
  BY <1>1, EventIs
<1>3. s = << >> <=> n = 0
  BY EmptySeq
<1>4. Covered(s) = Total(n, w) /\ Pages(s) = Total(n, c)
  BY DEF Covered, Pages
<1>5. n > 0 => w[1] = s[1].size * s[1].count
  BY <1>1
<1>6. ASSUME NEW e \in Events PROVE Covered(Append(s, e)) = Covered(s) + e.size * e.count
  <2> DEFINE t == Append(s, e)
             v == [i \in 1..(n + 1) |-> t[i].size * t[i].count]
  <2>1. /\ t \in Seq(Events) /\ Len(t) = n + 1 /\ t[n + 1] = e
        /\ \A i \in 1..n : t[i] = s[i]
    BY AppendProperties
  <2>2. \A i \in 1..(n + 1) : t[i] \in Events
    BY <2>1, ElementOfSeq
  <2> HIDE DEF t
  <2>3. v \in [1..(n + 1) -> Nat]
    BY <2>2, EventIs
  <2>4. \A i \in 1..n : v[i] = w[i]
    BY <1>1, <2>1
  <2>5. v[n + 1] = e.size * e.count
    BY <1>1, <2>1
  <2>6. Covered(t) = Total(n + 1, v)
    BY <2>1 DEF Covered
  <2> HIDE DEF v, w, n
  <2>7. Total(n + 1, v) = Total(n, w) + v[n + 1]
    BY <1>1, <1>2, <2>3, <2>4, TotalIs
  <2> QED BY <1>4, <2>5, <2>6, <2>7 DEF t
<1> HIDE DEF w, c, n
<1>7. /\ Total(n, w) \in Nat /\ Total(n, c) \in Nat
      /\ n = 0 => Total(n, w) = 0
      /\ n > 0 => w[1] <= Total(n, w)
  BY <1>1, <1>2, TotalIs
<1>8. s # << >> => n > 0
  BY <1>1, <1>3
<1> QED
  BY <1>1, <1>3, <1>4, <1>5, <1>6, <1>7, <1>8

\* An event goes somewhere into the sequence, and to its end if it comes after all of it.
LEMMA InsertIs ==
  ASSUME NEW T, T \subseteq Events, NEW s \in Seq(T), NEW e \in T
  PROVE  /\ Insert(s, e) \in Seq(T)
         /\ (\A j \in 1..Len(s) : ~After(s[j], e)) => Insert(s, e) = Append(s, e)
<1> DEFINE n == Len(s)
           Place(k) == /\ \A j \in 1..(k - 1) : ~After(s[j], e)
                       /\ k <= n => After(s[k], e)
           place == CHOOSE k \in 1..(n + 1) : Place(k)
<1>1. n \in Nat /\ \A j \in 1..n : s[j] \in T
  BY ElementOfSeq, LenProperties
<1>2. \E k \in 1..(n + 1) : Place(k)
  <2> DEFINE B == {k \in 1..(n + 1) : k <= n => After(s[k], e)}
  <2>1. n + 1 \in B /\ B \subseteq Nat
    BY <1>1
  <2>2. PICK k \in B : \A j \in B : k <= j
    <3> HIDE DEF B
    <3> QED BY <2>1, Least
  <2>3. ASSUME NEW j \in 1..(k - 1) PROVE ~After(s[j], e)
    <3>1. j \in 1..(n + 1) /\ j \notin B
      BY <1>1, <2>2
    <3> QED BY <3>1
  <2> QED BY <2>2, <2>3
<1>3. place \in 1..(n + 1) /\ Place(place)
  BY <1>2
<1>4. Insert(s, e) = SubSeq(s, 1, place - 1) \o <<e>> \o SubSeq(s, place, n)
  BY DEF Insert, InsertAt
<1> HIDE DEF place
<1>5. SubSeq(s, 1, place - 1) \in Seq(T) /\ SubSeq(s, place, n) \in Seq(T) /\ <<e>> \in Seq(T)
  <2>1. \A i \in 1..(place - 1) : s[i] \in T
    BY <1>1, <1>3
  <2>2. \A i \in place..n : s[i] \in T
    BY <1>1, <1>3
  <2>3. place \in Int /\ place - 1 \in Int /\ n \in Int
    BY <1>1, <1>3
  <2> HIDE DEF n
  <2> QED BY <2>1, <2>2, <2>3, SubSeqProperties
<1>6. Insert(s, e) \in Seq(T)
  BY <1>4, <1>5, ConcatProperties
<1>7. ASSUME \A j \in 1..n : ~After(s[j], e) PROVE Insert(s, e) = Append(s, e)
  <2>1. place = n + 1
    BY <1>1, <1>3, <1>7
  <2>2. SubSeq(s, place, n) = << >>
    BY <1>1, <2>1, SubSeqEmpty
  <2>3. SubSeq(s, 1, place - 1) = s
    BY <1>1, <2>1, SubSeqFull
  <2>4. s \o <<e>> \in Seq(T) /\ s \o <<e>> = Append(s, e)
    BY <1>5, ConcatProperties, AppendIsConcat
  <2> QED BY <1>4, <2>2, <2>3, <2>4, ConcatEmptySeq
<1> QED
  BY <1>6, <1>7

\* The calls a sorted trace is made of
Hits(t, processes, addresses) ==
  {e \in {t[i] : i \in 1..Len(t)} : /\ e.at = "call" /\ e.by \in processes
                                   /\ e.iova \in addresses}

SortedSteps(f, t, hits) ==
  /\ f \in [0..Len(t) -> Seq(hits)] /\ f[0] = << >>
  /\ \A i \in 1..Len(t) : f[i] = IF t[i] \in hits THEN Insert(f[i - 1], t[i]) ELSE f[i - 1]

\* Sorted inserts the trace's hits one after the other.
LEMMA SortedIs ==
  ASSUME NEW t \in Seq(Events), NEW processes, NEW addresses
  PROVE  \E f : /\ SortedSteps(f, t, Hits(t, processes, addresses))
                /\ Sorted(t, processes, addresses) = f[Len(t)]
<1> DEFINE n == Len(t)
           H == Hits(t, processes, addresses)
           next(i, x) == IF t[i] \in H THEN Insert(x, t[i]) ELSE x
           step == [i \in 1..n |-> [x \in Seq(H) |-> next(i, x)]]
<1>1. n \in Nat /\ \A i \in 1..n : t[i] \in Events
  BY ElementOfSeq, LenProperties
<1>2. H \subseteq Events /\ << >> \in Seq(H)
  BY <1>1, EmptySeq DEF Hits
<1> HIDE DEF H
<1>3. \A i \in 1..n, x \in Seq(H) : next(i, x) \in Seq(H)
  BY <1>2, InsertIs
<1>4. step \in [1..n -> [Seq(H) -> Seq(H)]]
  <2> HIDE DEF next
  <2> QED BY <1>3
<1>5. PICK f \in [0..n -> Seq(H)] : Iterates(f, << >>, step, n)
  <2> HIDE DEF step, n
  <2> QED BY <1>1, <1>2, <1>4, RecDef
<1>6. f[0] = << >> /\ \A i \in 1..n : f[i] = next(i, f[i - 1])
  <2> HIDE DEF next
  <2>1. \A i \in 1..n : i - 1 \in 0..n
    BY <1>1
  <2> QED BY <1>5, <2>1 DEF Iterates
<1> DEFINE Is(g) == g = [i \in 0..n |-> IF i = 0 THEN << >> ELSE next(i, g[i - 1])]
           g == CHOOSE h : Is(h)
<1>7. Is(f)
  <2> HIDE DEF next
  <2>1. \A i \in 0..n : f[i] = IF i = 0 THEN << >> ELSE next(i, f[i - 1])
    BY <1>1, <1>6
  <2> QED BY <1>5, <2>1
<1>8. Is(g)
  <2> HIDE DEF Is
  <2> QED BY <1>7
<1>9. Sorted(t, processes, addresses) = g[n]
  <2> DEFINE In(i) == /\ t[i].at = "call" /\ t[i].by \in processes /\ t[i].iova \in addresses
             raw(h) == [i \in 0..n |-> IF i = 0 THEN << >>
                                       ELSE IF In(i) THEN Insert(h[i - 1], t[i]) ELSE h[i - 1]]
  <2>1. \A i \in 1..n : In(i) <=> t[i] \in H
    BY <1>1 DEF H, Hits
  <2>2. ASSUME NEW h PROVE raw(h) = [i \in 0..n |-> IF i = 0 THEN << >> ELSE next(i, h[i - 1])]
    <3>1. \A i \in 0..n : i = 0 \/ i \in 1..n
      BY <1>1
    <3> HIDE DEF In
    <3> QED BY <2>1, <3>1
  <2>3. Sorted(t, processes, addresses) = (CHOOSE h : h = raw(h))[n]
    BY DEF Sorted
  <2> HIDE DEF raw, next
  <2>4. \A h : (h = raw(h)) <=> Is(h)
    BY <2>2
  <2> HIDE DEF Is
  <2>5. (CHOOSE h : h = raw(h)) = (CHOOSE h : Is(h))
    BY <2>4
  <2> QED BY <2>3, <2>5
<1> HIDE DEF g
<1> DEFINE S == {i \in 0..n : g[i] = f[i]}
<1>10. 0..n \subseteq S
  <2> HIDE DEF next
  <2>1. 0 \in S
    BY <1>1, <1>6, <1>8
  <2>2. ASSUME NEW i \in 0..(n - 1), i \in S PROVE i + 1 \in S
    <3>1. i + 1 \in 1..n /\ i + 1 \in 0..n /\ i + 1 # 0 /\ (i + 1) - 1 = i
      BY <1>1
    <3>2. g[i + 1] = next(i + 1, g[i]) /\ f[i + 1] = next(i + 1, f[i])
      BY <1>6, <1>8, <3>1
    <3> QED BY <2>2, <3>1, <3>2
  <2> HIDE DEF S
  <2> QED BY <1>1, <2>1, <2>2, Induct
<1>11. g[n] = f[n]
  BY <1>1, <1>10
<1>12. SortedSteps(f, t, H)
  BY <1>5, <1>6 DEF SortedSteps
<1> QED
  BY <1>9, <1>11, <1>12 DEF H

-----------------------------------------------------------------------------
(* The kernel's mapping *)

Mappings == [iova : Iovas, paddr : Paddrs, nbytes : Sizes, domain : Domains,
             slots : Slots, op : Formats \cup {None}]

\* What the constants say of a mapping.
LEMMA MappingIs ==
  ASSUME map \in Mappings
  PROVE  /\ map.iova \in Nat /\ map.paddr \in Nat /\ map.nbytes \in Nat \ {0}
         /\ map.iova % SmallestPage = 0 /\ map.paddr % SmallestPage = 0
         /\ map.nbytes % SmallestPage = 0
         /\ SmallestPage \in map.domain /\ map.domain \subseteq Powers
         /\ map.iova \in Iovas /\ map.paddr \in Paddrs /\ map.nbytes \in Sizes
         /\ map.slots \in {"same", "next", "previous", "swapped"} /\ map.slots \in Slots
<1>1. /\ map.iova \in Iovas /\ map.paddr \in Paddrs /\ map.nbytes \in Sizes
      /\ map.domain \in Domains /\ map.slots \in Slots
  BY DEF Mappings
<1>2. /\ Iovas \cup Paddrs \cup Others \subseteq 0..(Pow[AddressBits] - 1)
      /\ Sizes \subseteq Nat \ {0}
      /\ \A a \in Iovas \cup Paddrs \cup Sizes : a % SmallestPage = 0
      /\ \A pages \in Domains : SmallestPage \in pages /\ pages \subseteq Powers
      /\ Slots \subseteq {"same", "next", "previous", "swapped"}
  BY TraceAssumption, Zenon DEF TraceAssumption
<1>3. Iovas \subseteq Nat /\ Paddrs \subseteq Nat
  BY <1>2
<1> QED
  BY <1>1, <1>2, <1>3

\* A page of this size could be used at this offset.
UsedAt(p, offset) ==
  /\ (map.iova + offset) % p = 0 /\ (map.paddr + offset) % p = 0
  /\ offset + p <= map.nbytes

\* There is a page at every offset that is a multiple of the smallest, and it is the largest.
LEMMA PageAtIs ==
  ASSUME map \in Mappings, NEW offset \in Nat, offset % SmallestPage = 0, offset < map.nbytes
  PROVE  /\ PageAt(offset) \in map.domain /\ UsedAt(PageAt(offset), offset)
         /\ PageAt(offset) >= SmallestPage
         /\ \A p \in map.domain : UsedAt(p, offset) => p <= PageAt(offset)
<1> DEFINE S == {p \in map.domain : UsedAt(p, offset)}
<1>1. PageAt(offset) = Max(S)
  BY DEF PageAt, UsedAt
<1>2. /\ SmallestPage \in Nat \ {0} /\ Pow[AddressBits] \in Nat
      /\ \A p \in map.domain : p \in 0..Pow[AddressBits]
  <2>1. SmallestPage \in Nat \ {0} /\ Pow[AddressBits] \in Nat
    BY PowersAre
  <2>2. \A p \in Powers : p \in 0..Pow[AddressBits]
    BY PowersAre
  <2>3. map.domain \subseteq Powers
    BY MappingIs
  <2> QED BY <2>1, <2>2, <2>3
<1>3. SmallestPage \in S
  <2>1. (offset + map.iova) % SmallestPage = 0 /\ (offset + map.paddr) % SmallestPage = 0
    BY <1>2, MappingIs, DividesSum
  <2>2. offset + map.iova = map.iova + offset /\ offset + map.paddr = map.paddr + offset
    BY MappingIs
  <2>3. offset + SmallestPage <= map.nbytes
    <3> DEFINE left == map.nbytes - offset
    <3>1. left \in Nat \ {0} /\ map.nbytes \in Int /\ offset \in Int
      BY MappingIs
    <3>2. left % SmallestPage = 0
      BY <1>2, <3>1, MappingIs, DividesSum
    <3>3. left >= SmallestPage
      <4> HIDE DEF left
      <4> QED BY <1>2, <3>1, <3>2
    <3> QED BY <1>2, <3>3, MappingIs
  <2> QED BY <2>1, <2>2, <2>3, MappingIs DEF UsedAt
<1>4. S \subseteq 0..Pow[AddressBits]
  BY <1>2
<1>5. \A p \in S : p \in map.domain /\ UsedAt(p, offset)
  OBVIOUS
<1>6. \A p \in map.domain : UsedAt(p, offset) => p \in S
  OBVIOUS
<1> HIDE DEF S
<1>7. Max(S) \in S /\ \A p \in S : p <= Max(S)
  BY <1>2, <1>3, <1>4, MaxIs
<1> QED
  BY <1>1, <1>3, <1>5, <1>6, <1>7

InRow(offset) ==
  {k \in 1..map.nbytes : \A j \in 0..(k - 1) :
     /\ offset + (j + 1) * PageAt(offset) <= map.nbytes
     /\ PageAt(offset + j * PageAt(offset)) = PageAt(offset)}

\* One call of the kernel: pages of one size in a row, and none of them could be larger.
LEMMA RowIs ==
  ASSUME map \in Mappings, NEW offset \in Nat, offset % SmallestPage = 0, offset < map.nbytes,
         NEW size, size = PageAt(offset), NEW count, count = Max(InRow(offset))
  PROVE  /\ count \in Nat \ {0} /\ size * count \in Nat \ {0} /\ offset + size * count <= map.nbytes
         /\ \A j \in 0..(count - 1) :
              j * size \in Nat /\ offset + (j + 1) * size <= map.nbytes /\ PageAt(offset + j * size) = size
<1>1. size \in Nat \ {0} /\ map.nbytes \in Nat \ {0}
  BY PageAtIs, MappingIs, PowersAre
<1>2. 1 \in InRow(offset)
  <2> SUFFICES ASSUME NEW j \in 0..(1 - 1)
               PROVE  offset + (j + 1) * size <= map.nbytes /\ PageAt(offset + j * size) = size
    BY <1>1 DEF InRow
  <2>1. j = 0 /\ (j + 1) * size = size /\ j * size = 0 /\ offset + j * size = offset
    BY <1>1
  <2> QED BY <2>1, PageAtIs DEF UsedAt
<1>3. InRow(offset) \subseteq 0..map.nbytes
  BY DEF InRow
<1>4. count \in InRow(offset)
  BY <1>1, <1>2, <1>3, MaxIs
<1>5. count \in Nat \ {0}
  BY <1>1, <1>4 DEF InRow
<1>6. ASSUME NEW j \in 0..(count - 1)
      PROVE  j * size \in Nat /\ offset + (j + 1) * size <= map.nbytes /\ PageAt(offset + j * size) = size
  <2>1. j \in Nat
    BY <1>5
  <2>2. j * size \in Nat
    BY <1>1, <2>1
  <2>3. offset + (j + 1) * PageAt(offset) <= map.nbytes /\ PageAt(offset + j * PageAt(offset)) = PageAt(offset)
    BY <1>4 DEF InRow
  <2> QED BY <2>2, <2>3
<1>7. size * count \in Nat \ {0}
  BY <1>1, <1>5
<1>8. offset + size * count <= map.nbytes
  <2>1. count - 1 \in 0..(count - 1) /\ ((count - 1) + 1) * size = size * count
    BY <1>1, <1>5
  <2> QED BY <1>6, <2>1
<1> QED
  BY <1>5, <1>6, <1>7, <1>8

\* In a row of pages no larger page of the domain could be used.
LEMMA RowLargest ==
  ASSUME map \in Mappings, NEW offset \in Nat, offset % SmallestPage = 0, offset < map.nbytes,
         NEW size, size = PageAt(offset), NEW count, count = Max(InRow(offset)),
         NEW a \in Nat, offset <= a, a < offset + size * count,
         NEW p \in map.domain, UsedAt(p, a)
  PROVE  p <= size
<1> SUFFICES ASSUME size < p PROVE FALSE
  <2>1. p \in Nat /\ size \in Nat
    BY PageAtIs, MappingIs, PowersAre
  <2> QED BY <2>1
<1>1. /\ size \in Nat \ {0} /\ p \in Nat \ {0} /\ p % size = 0 /\ map.iova \in Nat /\ map.paddr \in Nat
      /\ map.nbytes \in Nat
  <2>1. map.iova \in Nat /\ map.paddr \in Nat /\ map.nbytes \in Nat /\ map.domain \subseteq Powers
    BY MappingIs
  <2>2. size \in map.domain
    BY PageAtIs
  <2>3. size \in Powers /\ p \in Powers
    BY <2>1, <2>2
  <2>4. size \in Nat \ {0} /\ p \in Nat \ {0}
    BY <2>3, PowersAre
  <2> QED BY <2>1, <2>3, <2>4, PowersAre
<1>2. count \in Nat \ {0}
  BY RowIs
<1>3. PICK j \in Nat, r \in 0..(size - 1) : a - offset = size * j + r
  <2>1. PICK d \in Nat : d = a - offset
    OBVIOUS
  <2>2. \E j \in Nat, r \in 0..(size - 1) : d = size * j + r
    BY <1>1, Remainder
  <2> QED BY <2>1, <2>2
<1>4. j < count
  <2> SUFFICES ASSUME j >= count PROVE FALSE
    BY <1>2, <1>3
  <2>1. size * (j - count) >= 0
    BY <1>1, <1>2, <1>3
  <2>2. size * j >= size * count
    BY <1>1, <1>2, <1>3, <2>1
  <2> QED BY <1>1, <1>2, <1>3, <2>2
<1>5. PICK b \in Nat : b = offset + j * size
  BY <1>1, <1>3
<1>6. PageAt(b) = size /\ b < map.nbytes
  <2>1. j \in 0..(count - 1)
    BY <1>2, <1>3, <1>4
  <2>2. offset + (j + 1) * size <= map.nbytes /\ PageAt(b) = size
    BY <1>5, <2>1, RowIs
  <2>3. offset + (j + 1) * size = b + size
    BY <1>1, <1>3, <1>5
  <2> QED BY <1>1, <2>2, <2>3
<1>7. b % SmallestPage = 0
  <2>1. SmallestPage \in Nat \ {0} /\ size % SmallestPage = 0
    BY PageAtIs, MappingIs, PowersAre
  <2>2. PICK y \in Int : y = j * size
    BY <1>1, <1>3
  <2>3. y % SmallestPage = 0
    BY <1>1, <1>3, <2>1, <2>2, DividesProduct
  <2>4. (offset + y) % SmallestPage = 0
    BY <2>1, <2>2, <2>3, DividesSum
  <2> QED BY <1>5, <2>2, <2>4
<1>8. UsedAt(size, b)
  BY <1>6, <1>7, PageAtIs
<1>9. a = b + r
  <2>1. PICK y \in Nat : y = size * j
    BY <1>1
  <2>2. j * size = y
    BY <1>1, <2>1
  <2> QED BY <1>3, <1>5, <2>1, <2>2
<1>10. r = 0
  <2> DEFINE x == map.iova + b
             y == map.iova + a
  <2>1. x \in Int /\ y \in Int /\ y - x = r
    BY <1>1, <1>3, <1>9
  <2>2. x % size = 0 /\ y % p = 0
    BY <1>8 DEF UsedAt
  <2> HIDE DEF x, y
  <2>3. y % size = 0
    BY <1>1, <2>1, <2>2, DividesTrans
  <2>4. (y - x) % size = 0
    BY <1>1, <2>1, <2>2, <2>3, DividesSum
  <2> QED BY <1>1, <1>3, <2>1, <2>4
<1>11. a = b
  BY <1>5, <1>9, <1>10
<1> QED
  BY <1>1, <1>6, <1>7, <1>11, PageAtIs

-----------------------------------------------------------------------------
(* The calls that are made for the mapping *)

End(c) == c.iova + c.size * c.count

\* A call for the mapping, of pages its addresses are aligned to
Piece(c, m) ==
  /\ c \in Events /\ c.by = "probe" /\ c.at = "call"
  /\ c.size \in m.domain /\ c.size >= SmallestPage /\ c.count >= 1
  /\ c.iova >= m.iova /\ c.paddr = m.paddr + (c.iova - m.iova)
  /\ c.iova % c.size = 0 /\ c.paddr % c.size = 0

\* The calls follow each other from the start of the mapping, and where a page
\* could have been used none of them is smaller
CallsInv ==
  /\ mapped \in Seq(Events) /\ Position <= map.nbytes /\ Position % SmallestPage = 0
  /\ \A i \in 1..Len(mapped) : Piece(mapped[i], map) /\ End(mapped[i]) <= map.iova + Position
  /\ \A i \in 1..(Len(mapped) - 1) : mapped[i + 1].iova = End(mapped[i])
  /\ \A i, j \in 1..Len(mapped) : i < j => mapped[i].iova < mapped[j].iova
  /\ mapped # << >> => /\ mapped[1].iova = map.iova
                       /\ End(mapped[Len(mapped)]) = map.iova + Position
  /\ \A p \in map.domain, a \in 0..(Position - 1) :
       UsedAt(p, a) => \E i \in 1..Len(mapped) : mapped[i].size >= p

\* What the kprobe sees of a call of the probe's.
Seen(c, slots) == Record("probe", slots, c.iova, c.paddr, c.size, c.count)

\* A piece has pages, and ends after it begins.
LEMMA PieceIs ==
  ASSUME map \in Mappings, NEW c, Piece(c, map)
  PROVE  /\ c.size \in Powers /\ c.size \in Nat \ {0} /\ c.count \in Nat \ {0} /\ c.size * c.count \in Nat
         /\ c.size <= c.size * c.count /\ c.count <= c.size * c.count
         /\ c.iova \in Nat /\ c.paddr \in Nat /\ End(c) \in Nat /\ End(c) > c.iova
<1>1. c.iova \in Nat /\ c.paddr \in Nat /\ c.size \in Nat /\ c.count \in Nat
  BY EventIs DEF Piece
<1>2. c.size \in Powers
  BY MappingIs DEF Piece
<1>3. c.size \in Nat \ {0} /\ c.count \in Nat \ {0}
  BY <1>1, <1>2, PowersAre DEF Piece
<1>4. c.size * c.count \in Nat /\ c.size <= c.size * c.count /\ c.count <= c.size * c.count
  BY <1>3
<1> QED
  BY <1>1, <1>2, <1>3, <1>4 DEF End

\* The kernel's next call is a piece, at the position the calls have got to.
LEMMA NextPiece ==
  ASSUME map \in Mappings, CallsInv, MapPages
  PROVE  \E c : /\ Piece(c, map) /\ mapped' = Append(mapped, c)
                /\ trace' = trace \o Recorded(Seen(c, map.slots))
                /\ c.iova = map.iova + Position /\ Position + c.size * c.count <= map.nbytes
                /\ (Position + c.size * c.count) % SmallestPage = 0
                /\ \A p \in map.domain, a \in Nat :
                     Position <= a /\ a < Position + c.size * c.count /\ UsedAt(p, a) => p <= c.size
<1> DEFINE P == Position
           size == PageAt(P)
           count == Max(InRow(P))
           c == Record("probe", "same", map.iova + P, map.paddr + P, size, count)
<1>1. P \in Nat /\ P % SmallestPage = 0 /\ P < map.nbytes
  BY CoveredIs DEF CallsInv, MapPages, Position
<1>2. mapped' = Append(mapped, c) /\ trace' = trace \o Recorded(
        Record("probe", map.slots, map.iova + P, map.paddr + P, size, count))
  BY DEF MapPages, InRow
<1> HIDE DEF P
<1>3. size \in map.domain /\ UsedAt(size, P) /\ size >= SmallestPage
  BY <1>1, PageAtIs
<1>4. /\ count \in Nat \ {0} /\ size * count \in Nat \ {0} /\ P + size * count <= map.nbytes
  BY <1>1, RowIs
<1>5. ASSUME NEW p \in map.domain, NEW a \in Nat, P <= a, a < P + size * count, UsedAt(p, a)
      PROVE  p <= size
  BY <1>1, <1>5, RowLargest
<1>6. map.iova \in Nat /\ map.paddr \in Nat /\ size \in Powers /\ SmallestPage \in Nat \ {0}
  BY <1>3, MappingIs, PowersAre
<1>7. size \in Nat \ {0} /\ size % SmallestPage = 0
  BY <1>3, <1>6, PowersAre
<1> HIDE DEF size, count
<1>8. (P + size * count) % SmallestPage = 0
  <2>1. PICK y \in Int : y = count * size
    BY <1>4, <1>7
  <2>2. y % SmallestPage = 0
    <3>1. size \in Int /\ count \in Int /\ size % SmallestPage = 0 /\ SmallestPage \in Nat \ {0}
      BY <1>4, <1>6, <1>7
    <3>2. PICK m \in Int : size = m * SmallestPage
      BY <3>1, Divides
    <3>3. PICK h \in Int : h = count * m
      BY <3>1
    <3>4. y = h * SmallestPage
      BY <2>1, <3>1, <3>2, <3>3
    <3> QED BY <3>1, <3>4, Divides
  <2>3. size * count = y
    BY <1>4, <1>7, <2>1
  <2>4. (P + y) % SmallestPage = 0
    BY <1>1, <1>6, <2>1, <2>2, DividesSum
  <2> QED BY <2>3, <2>4
<1>9. c = [by |-> "probe", at |-> "call", iova |-> map.iova + P, paddr |-> map.paddr + P,
           size |-> size, count |-> count]
  BY DEF Record
<1> HIDE DEF c
<1>10. Piece(c, map)
  <2>1. c \in Events
    BY <1>1, <1>4, <1>6, <1>7, <1>9 DEF Events
  <2>2. c.iova >= map.iova /\ c.paddr = map.paddr + (c.iova - map.iova)
    BY <1>1, <1>6, <1>9
  <2>3. c.iova % c.size = 0 /\ c.paddr % c.size = 0
    BY <1>3, <1>9 DEF UsedAt
  <2>4. c.size \in map.domain /\ c.size >= SmallestPage /\ c.count >= 1
    BY <1>3, <1>4, <1>9
  <2>5. c.by = "probe" /\ c.at = "call"
    BY <1>9
  <2> QED BY <2>1, <2>2, <2>3, <2>4, <2>5 DEF Piece
<1>11. Seen(c, map.slots) = Record("probe", map.slots, map.iova + P, map.paddr + P, size, count)
  BY <1>9 DEF Seen
<1>12. c.iova = map.iova + P /\ c.size = size /\ c.count = count
  BY <1>9
<1> QED
  BY <1>2, <1>4, <1>5, <1>8, <1>10, <1>11, <1>12 DEF P

\* The calls keep their order, with that piece.
LEMMA CallsStep ==
  ASSUME map \in Mappings, CallsInv, MapPages
  PROVE  CallsInv'
<1>1. PICK c : /\ Piece(c, map) /\ mapped' = Append(mapped, c)
               /\ c.iova = map.iova + Position /\ Position + c.size * c.count <= map.nbytes
               /\ (Position + c.size * c.count) % SmallestPage = 0
               /\ \A p \in map.domain, a \in Nat :
                    Position <= a /\ a < Position + c.size * c.count /\ UsedAt(p, a) => p <= c.size
  BY NextPiece
<1>2. map' = map
  BY DEF MapPages, mapVars
<1> DEFINE n == Len(mapped)
           P == Position
<1>3. n \in Nat /\ P \in Nat /\ map.iova \in Nat /\ \A i \in 1..n : mapped[i] \in Events
  BY CoveredIs, MappingIs, LenProperties, ElementOfSeq DEF CallsInv, Position
<1>4. c \in Events /\ c.size * c.count \in Nat /\ c.size * c.count >= 1 /\ c.size \in Nat
      /\ End(c) = c.iova + c.size * c.count
  BY <1>1, PieceIs DEF Piece, End
<1>5. /\ mapped' \in Seq(Events) /\ Len(mapped') = n + 1 /\ mapped'[n + 1] = c
      /\ \A i \in 1..n : mapped'[i] = mapped[i]
  BY <1>1, <1>4, AppendProperties DEF CallsInv
<1>6. Position' = P + c.size * c.count
  BY <1>1, <1>4, CoveredIs DEF CallsInv, Position
<1>7. PICK w \in Nat : w = c.size * c.count /\ w >= 1
  BY <1>4
<1>8. End(c) = map.iova + Position' /\ Position' = P + w /\ Position' \in Nat
  BY <1>1, <1>3, <1>4, <1>6, <1>7
<1> HIDE DEF P, n
<1>9. Position' <= map'.nbytes /\ Position' % SmallestPage = 0
  BY <1>1, <1>2, <1>6 DEF P
<1>10. ASSUME NEW i \in 1..(n + 1)
       PROVE  /\ Piece(mapped'[i], map') /\ End(mapped'[i]) <= map'.iova + Position'
  <2>1. CASE i = n + 1
    BY <1>1, <1>2, <1>3, <1>5, <1>8, <2>1
  <2>2. CASE i \in 1..n
    <3>1. Piece(mapped[i], map) /\ End(mapped[i]) <= map.iova + P
      BY <2>2 DEF CallsInv, P, n
    <3>2. End(mapped[i]) \in Nat
      BY <3>1, PieceIs
    <3> QED BY <1>2, <1>3, <1>5, <1>8, <2>2, <3>1, <3>2
  <2> QED BY <1>3, <2>1, <2>2
<1>11. mapped'[1].iova = map'.iova
  <2>1. CASE n = 0
    <3>1. mapped = << >>
      BY <1>3, <2>1, EmptySeq DEF CallsInv, n
    <3>2. P = 0
      BY <3>1, CoveredIs DEF CallsInv, P, Position
    <3> QED BY <1>1, <1>2, <1>3, <1>5, <2>1, <3>2 DEF P
  <2>2. CASE n # 0
    <3>1. mapped # << >> /\ 1 \in 1..n
      BY <1>3, <2>2, EmptySeq DEF n
    <3> QED BY <1>2, <1>5, <3>1 DEF CallsInv
  <2> QED BY <2>1, <2>2
<1>12. ASSUME NEW i \in 1..n PROVE mapped'[i + 1].iova = End(mapped'[i])
  <2>1. CASE i = n
    <3>1. mapped # << >>
      BY <1>3, EmptySeq DEF n
    <3>2. End(mapped[n]) = map.iova + P
      BY <3>1 DEF CallsInv, P, n
    <3> QED BY <1>1, <1>3, <1>5, <2>1, <3>2 DEF P
  <2>2. CASE i # n
    <3>1. i \in 1..(n - 1) /\ i + 1 \in 1..n
      BY <1>3, <2>2
    <3>2. mapped[i + 1].iova = End(mapped[i])
      BY <3>1 DEF CallsInv, n
    <3> QED BY <1>5, <3>1, <3>2
  <2> QED BY <2>1, <2>2
<1>13. ASSUME NEW i \in 1..(n + 1), NEW j \in 1..(n + 1), i < j
       PROVE  mapped'[i].iova < mapped'[j].iova
  <2>1. i \in 1..n
    BY <1>3, <1>13
  <2>2. CASE j = n + 1
    <3>1. Piece(mapped[i], map) /\ End(mapped[i]) <= map.iova + P
      BY <2>1 DEF CallsInv, P, n
    <3>2. End(mapped[i]) \in Nat /\ mapped[i].iova \in Nat /\ mapped[i].iova < End(mapped[i])
      BY <3>1, PieceIs
    <3> QED BY <1>1, <1>3, <1>5, <2>1, <2>2, <3>1, <3>2 DEF P
  <2>3. CASE j \in 1..n
    BY <1>5, <1>13, <2>1, <2>3 DEF CallsInv, n
  <2> QED BY <1>3, <2>2, <2>3
<1>14. ASSUME NEW p \in map'.domain, NEW a \in 0..(Position' - 1), UsedAt(p, a)'
       PROVE  \E i \in 1..(n + 1) : mapped'[i].size >= p
  <2>1. UsedAt(p, a) /\ a \in Nat /\ p \in map.domain
    BY <1>2, <1>8, <1>14 DEF UsedAt
  <2>2. CASE a < P
    <3>1. a \in 0..(P - 1)
      BY <1>3, <2>1, <2>2
    <3>2. PICK i \in 1..n : mapped[i].size >= p
      BY <2>1, <3>1 DEF CallsInv, P, n
    <3> QED BY <1>3, <1>5, <3>2
  <2>3. CASE P <= a
    <3>1. a < P + c.size * c.count
      BY <1>3, <1>6, <1>8, <1>14, <2>1
    <3>2. p <= c.size
      BY <1>1, <2>1, <2>3, <3>1 DEF P
    <3>3. p \in Nat
      BY <2>1, MappingIs, PowersAre
    <3>4. n + 1 \in 1..(n + 1) /\ mapped'[n + 1].size >= p
      BY <1>3, <1>4, <1>5, <3>2, <3>3
    <3> QED BY <3>4
  <2> QED BY <1>3, <2>1, <2>2, <2>3
<1>15. End(mapped'[n + 1]) = map'.iova + Position'
  BY <1>2, <1>5, <1>8
<1>16. (n + 1) - 1 = n
  BY <1>3
<1> QED
  BY <1>5, <1>9, <1>10, <1>11, <1>12, <1>13, <1>14, <1>15, <1>16 DEF CallsInv

-----------------------------------------------------------------------------
(* What the instance records of them *)

AllSlots == {"same", "next", "previous", "swapped"}

ProbeCall(e) == e.by = "probe" /\ e.at = "call"

\* How many of the calls the trace has got to, at each of its events: those it
\* still has of the probe are the last of the calls, in their order
Tracks(g, t, calls, slots) ==
  /\ g \in [0..Len(t) -> 0..Len(calls)] /\ g[Len(t)] = Len(calls)
  /\ \A i \in 1..Len(t) :
       IF ProbeCall(t[i]) THEN g[i] = g[i - 1] + 1 /\ t[i] = Seen(calls[g[i]], slots)
                          ELSE g[i] = g[i - 1]

CallsBy(who) ==
  [by : {who}, at : {"call"}, iova : Nat, paddr : Nat, size : Nat, count : Nat]

\* A kprobe's record of a call is a call of its process.
LEMMA RecordIs ==
  ASSUME NEW who \in {"probe", "other"}, NEW slots \in AllSlots,
         NEW iova \in Nat, NEW paddr \in Nat, NEW size \in Nat, NEW count \in Nat
  PROVE  Record(who, slots, iova, paddr, size, count) \in CallsBy(who)
<1>1. Junk \in Nat
  BY TraceAssumption, Zenon DEF TraceAssumption
<1>2. CASE slots = "same"
  BY <1>2 DEF Record, CallsBy
<1>3. CASE slots = "next"
  BY <1>1, <1>3 DEF Record, CallsBy
<1>4. CASE slots = "previous"
  BY <1>1, <1>4 DEF Record, CallsBy
<1>5. CASE slots = "swapped"
  BY <1>5 DEF Record, CallsBy
<1> QED
  BY <1>2, <1>3, <1>4, <1>5 DEF AllSlots

\* And so an event.
LEMMA CallIs ==
  ASSUME NEW who \in {"probe", "other"}, NEW e \in CallsBy(who)
  PROVE  e \in Events /\ e.by = who /\ e.at = "call"
BY DEF CallsBy, Events

\* What is seen of the probe's calls is one of its calls.
LEMMA SeenIs ==
  ASSUME NEW slots \in AllSlots, NEW c \in Events
  PROVE  Seen(c, slots) \in Events /\ ProbeCall(Seen(c, slots))
<1>1. Seen(c, slots) \in CallsBy("probe")
  BY RecordIs, EventIs DEF Seen
<1> QED
  BY <1>1, CallIs DEF ProbeCall

\* A call of the probe's is one more for the trace to have got to.
LEMMA TracksCall ==
  ASSUME NEW t \in Seq(Events), NEW calls \in Seq(Events), NEW slots \in AllSlots, NEW c \in Events,
         NEW g, Tracks(g, t, calls, slots)
  PROVE  \E h : Tracks(h, Append(t, Seen(c, slots)), Append(calls, c), slots) /\ h[0] = g[0]
<1> DEFINE e == Seen(c, slots)
           s == Append(t, e)
           d == Append(calls, c)
           n == Len(t)
           k == Len(calls)
           h == [i \in 0..(n + 1) |-> IF i = n + 1 THEN k + 1 ELSE g[i]]
<1>1. e \in Events /\ ProbeCall(e)
  BY SeenIs
<1> HIDE DEF e
<1>2. s \in Seq(Events) /\ Len(s) = n + 1 /\ s[n + 1] = e /\ \A i \in 1..n : s[i] = t[i]
  BY <1>1, AppendProperties
<1>3. d \in Seq(Events) /\ Len(d) = k + 1 /\ d[k + 1] = c /\ \A i \in 1..k : d[i] = calls[i]
  BY AppendProperties
<1>4. n \in Nat /\ k \in Nat
  BY LenProperties
<1>5. /\ g \in [0..n -> 0..k] /\ g[n] = k
      /\ \A i \in 1..n : IF ProbeCall(t[i]) THEN g[i] = g[i - 1] + 1 /\ t[i] = Seen(calls[g[i]], slots)
                                            ELSE g[i] = g[i - 1]
  BY DEF Tracks
<1> HIDE DEF s, d, n, k
<1>6. h \in [0..(n + 1) -> 0..(k + 1)] /\ h[n + 1] = k + 1 /\ h[0] = g[0]
  BY <1>4, <1>5
<1>7. ASSUME NEW i \in 1..(n + 1)
      PROVE  IF ProbeCall(s[i]) THEN h[i] = h[i - 1] + 1 /\ s[i] = Seen(d[h[i]], slots)
                                ELSE h[i] = h[i - 1]
  <2>1. CASE i = n + 1
    <3>1. h[i] = k + 1 /\ h[i - 1] = k
      BY <1>4, <1>5, <2>1
    <3>2. s[i] = e /\ e = Seen(d[k + 1], slots)
      BY <1>2, <1>3, <2>1 DEF e
    <3> QED BY <1>1, <3>1, <3>2
  <2>2. CASE i \in 1..n
    <3>1. h[i] = g[i] /\ h[i - 1] = g[i - 1] /\ s[i] = t[i] /\ i - 1 \in 0..n
      BY <1>2, <1>4, <2>2
    <3>2. g[i] \in 0..k /\ g[i - 1] \in 0..k
      BY <1>5, <2>2, <3>1
    <3>3. CASE ProbeCall(t[i])
      <4>1. g[i] = g[i - 1] + 1 /\ t[i] = Seen(calls[g[i]], slots)
        BY <1>5, <2>2, <3>3
      <4>2. g[i] \in 1..k
        BY <1>4, <3>2, <4>1
      <4>3. d[g[i]] = calls[g[i]]
        BY <1>3, <4>2
      <4> QED BY <3>1, <3>3, <4>1, <4>3
    <3>4. CASE ~ProbeCall(t[i])
      BY <1>5, <2>2, <3>1, <3>4
    <3> QED BY <3>3, <3>4
  <2> QED BY <1>4, <2>1, <2>2
<1> HIDE DEF h
<1> QED
  BY <1>2, <1>3, <1>6, <1>7 DEF Tracks, s, d, e

\* Any other event leaves it where it was.
LEMMA TracksOther ==
  ASSUME NEW t \in Seq(Events), NEW calls \in Seq(Events), NEW slots \in AllSlots, NEW e \in Events,
         ~ProbeCall(e), NEW g, Tracks(g, t, calls, slots)
  PROVE  \E h : Tracks(h, Append(t, e), calls, slots) /\ h[0] = g[0]
<1> DEFINE s == Append(t, e)
           n == Len(t)
           k == Len(calls)
           h == [i \in 0..(n + 1) |-> IF i = n + 1 THEN k ELSE g[i]]
<1>2. s \in Seq(Events) /\ Len(s) = n + 1 /\ s[n + 1] = e /\ \A i \in 1..n : s[i] = t[i]
  BY AppendProperties
<1>4. n \in Nat /\ k \in Nat
  BY LenProperties
<1>5. /\ g \in [0..n -> 0..k] /\ g[n] = k
      /\ \A i \in 1..n : IF ProbeCall(t[i]) THEN g[i] = g[i - 1] + 1 /\ t[i] = Seen(calls[g[i]], slots)
                                            ELSE g[i] = g[i - 1]
  BY DEF Tracks
<1> HIDE DEF s, n, k
<1>6. h \in [0..(n + 1) -> 0..k] /\ h[n + 1] = k /\ h[0] = g[0]
  BY <1>4, <1>5
<1>7. ASSUME NEW i \in 1..(n + 1)
      PROVE  IF ProbeCall(s[i]) THEN h[i] = h[i - 1] + 1 /\ s[i] = Seen(calls[h[i]], slots)
                                ELSE h[i] = h[i - 1]
  <2>1. CASE i = n + 1
    <3>1. h[i] = k /\ h[i - 1] = k /\ s[i] = e
      BY <1>2, <1>4, <1>5, <2>1
    <3> QED BY <3>1
  <2>2. CASE i \in 1..n
    <3>1. h[i] = g[i] /\ h[i - 1] = g[i - 1] /\ s[i] = t[i]
      BY <1>2, <1>4, <2>2
    <3> QED BY <1>5, <2>2, <3>1
  <2> QED BY <1>4, <2>1, <2>2
<1> HIDE DEF h
<1> QED
  BY <1>2, <1>6, <1>7 DEF Tracks, s, k

\* A trace that lost its first event begins with a call or two later.
LEMMA TracksTail ==
  ASSUME NEW t \in Seq(Events), t # << >>, NEW calls, Len(calls) \in Nat, NEW slots,
         NEW g, Tracks(g, t, calls, slots)
  PROVE  \E h : Tracks(h, Tail(t), calls, slots)
<1> DEFINE s == Tail(t)
           n == Len(t)
           k == Len(calls)
           h == [i \in 0..(n - 1) |-> g[i + 1]]
<1>2. s \in Seq(Events) /\ Len(s) = n - 1 /\ \A i \in 1..(n - 1) : s[i] = t[i + 1]
  BY HeadTailProperties
<1>4. n \in Nat /\ n # 0 /\ k \in Nat
  BY LenProperties, EmptySeq
<1>5. /\ g \in [0..n -> 0..k] /\ g[n] = k
      /\ \A i \in 1..n : IF ProbeCall(t[i]) THEN g[i] = g[i - 1] + 1 /\ t[i] = Seen(calls[g[i]], slots)
                                            ELSE g[i] = g[i - 1]
  BY DEF Tracks
<1> HIDE DEF s, n, k
<1>6. h \in [0..(n - 1) -> 0..k] /\ h[n - 1] = k
  BY <1>4, <1>5
<1>7. ASSUME NEW i \in 1..(n - 1)
      PROVE  IF ProbeCall(s[i]) THEN h[i] = h[i - 1] + 1 /\ s[i] = Seen(calls[h[i]], slots)
                                ELSE h[i] = h[i - 1]
  <2>1. h[i] = g[i + 1] /\ h[i - 1] = g[i] /\ s[i] = t[i + 1]
    BY <1>2, <1>4
  <2>2. i + 1 \in 1..n /\ (i + 1) - 1 = i
    BY <1>4
  <2>3. IF ProbeCall(t[i + 1]) THEN g[i + 1] = g[i] + 1 /\ t[i + 1] = Seen(calls[g[i + 1]], slots)
                               ELSE g[i + 1] = g[i]
    BY <1>5, <2>2
  <2> QED BY <2>1, <2>3
<1> HIDE DEF h
<1> QED
  BY <1>2, <1>6, <1>7 DEF Tracks, s, k

\* The call of another process for its own mapping, and what the trace has of
\* a mapping as a whole
OtherCall(e, m) ==
  \E p \in Others, size \in m.domain, count \in Nat \ {0} :
    count * size = m.nbytes /\ e = Record("other", m.slots, m.iova, p, size, count)
OtherMap(e)   == e \in Events /\ e.by = "other" /\ e.at = "map"
ProbeMap(m)   == MapRecord("probe", m.iova, m.paddr, m.nbytes)
NoCall(e, m)  == OtherCall(e, m) \/ OtherMap(e) \/ e = ProbeMap(m)

\* A trace of these calls, with the kprobe of the domain's op enabled or not,
\* and with its oldest events lost or not
TraceOf(t, calls, m, on, lost) ==
  /\ t \in Seq(Events)
  /\ \A i \in 1..Len(t) : ProbeCall(t[i]) \/ NoCall(t[i], m)
  /\ ~on => \A i \in 1..Len(t) : t[i].at = "map"
  /\ on => \E g : Tracks(g, t, calls, m.slots) /\ (~lost => g[0] = 0)

\* None of these is a call of the probe's.
LEMMA NoCallIs ==
  ASSUME NEW m \in Mappings, map = m, NEW e, NoCall(e, m)
  PROVE  e \in Events /\ ~ProbeCall(e)
<1>1. /\ m.iova \in Nat /\ m.paddr \in Nat /\ m.nbytes \in Nat /\ m.slots \in AllSlots
      /\ m.domain \subseteq Nat
  <2>1. m.domain \subseteq Powers /\ Powers \subseteq Nat
    BY MappingIs, PowersAre
  <2> QED BY <2>1, MappingIs DEF AllSlots
<1>2. Others \subseteq Nat
  <2>1. Iovas \cup Paddrs \cup Others \subseteq 0..(Pow[AddressBits] - 1)
    BY TraceAssumption, Zenon DEF TraceAssumption
  <2> QED BY <2>1
<1>3. CASE OtherCall(e, m)
  <2>1. PICK p \in Others, size \in m.domain, count \in Nat \ {0} :
          e = Record("other", m.slots, m.iova, p, size, count)
    BY <1>3 DEF OtherCall
  <2>2. p \in Nat /\ size \in Nat /\ count \in Nat
    BY <1>1, <1>2
  <2>3. e \in CallsBy("other")
    BY <1>1, <2>1, <2>2, RecordIs
  <2>4. e \in Events /\ e.by = "other"
    BY <2>3, CallIs
  <2> QED BY <2>4 DEF ProbeCall
<1>4. CASE OtherMap(e)
  BY <1>4 DEF OtherMap, ProbeCall
<1>5. CASE e = ProbeMap(m)
  BY <1>1, <1>5 DEF ProbeMap, MapRecord, Events, ProbeCall
<1> QED
  BY <1>3, <1>4, <1>5 DEF NoCall

\* The first calls are of no trace yet.
LEMMA TraceBegins ==
  ASSUME NEW m, NEW on, NEW lost
  PROVE  TraceOf(<< >>, << >>, m, on, lost)
<1>1. << >> \in Seq(Events) /\ Len(<< >>) = 0
  BY EmptySeq
<1>2. Tracks([i \in 0..0 |-> 0], << >>, << >>, m.slots)
  BY <1>1 DEF Tracks
<1>3. [i \in 0..0 |-> 0][0] = 0
  OBVIOUS
<1> QED
  BY <1>1, <1>2, <1>3 DEF TraceOf

\* It grows by an event that is no call of the probe's.
LEMMA TraceOther ==
  ASSUME NEW m \in Mappings, map = m, NEW on, NEW lost, NEW t, NEW calls \in Seq(Events),
         TraceOf(t, calls, m, on, lost), NEW e, NoCall(e, m), ~on => e.at = "map"
  PROVE  TraceOf(Append(t, e), calls, m, on, lost)
<1>1. e \in Events /\ ~ProbeCall(e) /\ t \in Seq(Events) /\ m.slots \in AllSlots
  BY NoCallIs, MappingIs DEF TraceOf, AllSlots
<1> DEFINE s == Append(t, e)
           n == Len(t)
<1>2. s \in Seq(Events) /\ Len(s) = n + 1 /\ s[n + 1] = e /\ \A i \in 1..n : s[i] = t[i]
  BY <1>1, AppendProperties
<1>3. n \in Nat
  BY <1>1, LenProperties
<1>4. on => \E h : Tracks(h, s, calls, m.slots) /\ (~lost => h[0] = 0)
  <2> SUFFICES ASSUME on PROVE \E h : Tracks(h, s, calls, m.slots) /\ (~lost => h[0] = 0)
    OBVIOUS
  <2>1. PICK g : Tracks(g, t, calls, m.slots) /\ (~lost => g[0] = 0)
    BY DEF TraceOf
  <2>2. PICK h : Tracks(h, s, calls, m.slots) /\ h[0] = g[0]
    BY <1>1, <2>1, TracksOther
  <2> QED BY <2>1, <2>2
<1> HIDE DEF s
<1>5. \A i \in 1..(n + 1) : (ProbeCall(s[i]) \/ NoCall(s[i], m)) /\ (~on => s[i].at = "map")
  <2> SUFFICES ASSUME NEW i \in 1..(n + 1)
               PROVE  (ProbeCall(s[i]) \/ NoCall(s[i], m)) /\ (~on => s[i].at = "map")
    OBVIOUS
  <2>1. i = n + 1 \/ i \in 1..n
    BY <1>3
  <2> QED BY <1>2, <2>1 DEF TraceOf
<1> QED
  BY <1>2, <1>4, <1>5 DEF TraceOf, s

\* It grows by what is recorded of a call, if anything is.
LEMMA TraceCall ==
  ASSUME NEW m \in Mappings, map = m, NEW on, NEW lost, NEW t, NEW calls \in Seq(Events), NEW c \in Events,
         TraceOf(t, calls, m, on, lost)
  PROVE  TraceOf(t \o (IF on THEN <<Seen(c, m.slots)>> ELSE << >>), Append(calls, c), m, on, lost)
<1>1. t \in Seq(Events) /\ m.slots \in AllSlots
  BY MappingIs DEF TraceOf, AllSlots
<1> DEFINE e == Seen(c, m.slots)
           s == Append(t, e)
           n == Len(t)
<1>2. e \in Events /\ ProbeCall(e)
  BY <1>1, SeenIs
<1>3. CASE ~on
  <2>1. t \o << >> = t
    BY <1>1, ConcatEmptySeq
  <2> QED BY <1>3, <2>1 DEF TraceOf
<1>4. CASE on
  <2>1. t \o <<e>> = s
    BY <1>1, <1>2, AppendIsConcat
  <2>2. s \in Seq(Events) /\ Len(s) = n + 1 /\ s[n + 1] = e /\ \A i \in 1..n : s[i] = t[i]
    BY <1>1, <1>2, AppendProperties
  <2>3. PICK g : Tracks(g, t, calls, m.slots) /\ (~lost => g[0] = 0)
    BY <1>4 DEF TraceOf
  <2>4. PICK h : Tracks(h, s, Append(calls, c), m.slots) /\ h[0] = g[0]
    BY <1>1, <2>3, TracksCall
  <2>5. n \in Nat
    BY <1>1, LenProperties
  <2> HIDE DEF s, e
  <2>6. \A i \in 1..(n + 1) : ProbeCall(s[i]) \/ NoCall(s[i], m)
    <3> SUFFICES ASSUME NEW i \in 1..(n + 1) PROVE ProbeCall(s[i]) \/ NoCall(s[i], m)
      OBVIOUS
    <3>1. i = n + 1 \/ i \in 1..n
      BY <2>5
    <3> QED BY <1>2, <2>2, <3>1 DEF TraceOf
  <2> QED BY <1>4, <2>1, <2>2, <2>3, <2>4, <2>6 DEF TraceOf, e
<1> QED
  BY <1>3, <1>4

\* It loses its first event.
LEMMA TraceTail ==
  ASSUME NEW m, NEW on, NEW lost, NEW t, t # << >>, NEW calls \in Seq(Events),
         TraceOf(t, calls, m, on, lost)
  PROVE  TraceOf(Tail(t), calls, m, on, TRUE)
<1> DEFINE s == Tail(t)
           n == Len(t)
<1>1. t \in Seq(Events) /\ Len(calls) \in Nat
  BY LenProperties DEF TraceOf
<1>2. s \in Seq(Events) /\ Len(s) = n - 1 /\ \A i \in 1..(n - 1) : s[i] = t[i + 1]
  BY <1>1, HeadTailProperties
<1>3. n \in Nat
  BY <1>1, LenProperties
<1>4. on => \E h : Tracks(h, s, calls, m.slots)
  BY <1>1, TracksTail DEF TraceOf
<1> HIDE DEF s
<1>5. \A i \in 1..(n - 1) : (ProbeCall(s[i]) \/ NoCall(s[i], m)) /\ (~on => s[i].at = "map")
  <2> SUFFICES ASSUME NEW i \in 1..(n - 1)
               PROVE  (ProbeCall(s[i]) \/ NoCall(s[i], m)) /\ (~on => s[i].at = "map")
    OBVIOUS
  <2>1. i + 1 \in 1..n
    BY <1>3
  <2> QED BY <1>2, <2>1 DEF TraceOf
<1> QED
  BY <1>2, <1>4, <1>5 DEF TraceOf, s

\* An event that was lost or not is either.
LEMMA TraceLost ==
  ASSUME NEW m, NEW on, NEW lost, NEW t, NEW calls, TraceOf(t, calls, m, on, lost)
  PROVE  TraceOf(t, calls, m, on, TRUE)
BY DEF TraceOf

-----------------------------------------------------------------------------
(* What a run records and goes by *)

Early  == {"check", "mktemp", "put", "compile", "mkdir", "setup", "register", "append", "enable"}
During == {"mapping", "cat", "findings"}

\* What is mapped is what the kernel has made of the mapping, the trace is of
\* that, and what was read and printed is what the run goes by
RecordedInv ==
  /\ pc \in Early => mapped = << >> /\ trace = << >>
  /\ pc \in During => /\ map \in Mappings /\ CallsInv
                      /\ TraceOf(trace, mapped, map, map.op \in enabled, faults > 0)
  /\ pc = "findings" => read = trace \/ (read = None /\ faults > 0)
  /\ probe = "passed" /\ pc \in During =>
       /\ out = [misc |-> map.paddr, iova |-> map.iova, nbytes |-> map.nbytes]
       /\ faults = 0 => \E i \in 1..Len(trace) : trace[i] = ProbeMap(map)

\* The kernel has mapped nothing yet.
LEMMA NothingMapped ==
  ASSUME mapped = << >>, map \in Mappings
  PROVE  CallsInv
<1>1. mapped \in Seq(Events) /\ Len(mapped) = 0
  BY EmptySeq
<1>2. Position = 0
  BY <1>1, CoveredIs DEF Position
<1>3. map.nbytes \in Nat /\ SmallestPage \in Nat \ {0}
  BY MappingIs, PowersAre
<1>4. 0 % SmallestPage = 0
  BY <1>3
<1> QED
  BY <1>1, <1>2, <1>3, <1>4 DEF CallsInv

\* The probe begins with nothing mapped and nothing recorded.
LEMMA RecordedStart ==
  ASSUME RecordedInv, TypeOK, PassedInv, StartProbe
  PROVE  RecordedInv'
<1>1. /\ pc = "register" /\ pc' = "mapping" /\ mapped' = mapped /\ trace' = trace /\ enabled' = enabled
      /\ faults' = faults /\ probe' = probe
  BY DEF StartProbe
<1>2. mapped = << >> /\ trace = << >>
  BY <1>1 DEF RecordedInv, Early
<1>3. map' \in Mappings
  <2>1. PICK i \in Iovas, p \in Paddrs, n \in Sizes, d \in Domains, s \in Slots, op \in symbols \cup {None} :
          map' = [iova |-> i, paddr |-> p, nbytes |-> n, domain |-> d, slots |-> s, op |-> op]
    BY DEF StartProbe
  <2>2. op \in Formats \cup {None}
    BY DEF TypeOK
  <2> QED BY <2>1, <2>2 DEF Mappings
<1>4. CallsInv'
  <2>1. mapped' = << >>
    BY <1>1, <1>2
  <2>2. (mapped = << >> /\ map \in Mappings => CallsInv)'
    BY NothingMapped, PTL
  <2> QED BY <1>3, <2>1, <2>2
<1>5. TraceOf(trace', mapped', map', (map.op \in enabled)', (faults > 0)')
  BY <1>1, <1>2, TraceBegins
<1>6. probe' # "passed"
  BY <1>1 DEF PassedInv
<1> QED
  BY <1>1, <1>3, <1>4, <1>5, <1>6 DEF RecordedInv, Early, During

\* The kernel's next call is recorded as it is made.
LEMMA RecordedMap ==
  ASSUME RecordedInv, PassedInv, MapPages
  PROVE  RecordedInv'
<1>1. /\ pc = "mapping" /\ pc' = pc /\ enabled' = enabled /\ faults' = faults /\ probe' = probe /\ map' = map
  BY DEF MapPages
<1>2. map \in Mappings /\ CallsInv /\ TraceOf(trace, mapped, map, map.op \in enabled, faults > 0)
  BY <1>1 DEF RecordedInv, During
<1>3. CallsInv'
  BY <1>2, CallsStep
<1>4. PICK c : /\ Piece(c, map) /\ mapped' = Append(mapped, c)
               /\ trace' = trace \o Recorded(Seen(c, map.slots))
  BY <1>2, NextPiece
<1>5. c \in Events /\ mapped \in Seq(Events)
  BY <1>2, <1>4 DEF Piece, CallsInv
<1>6. TraceOf(trace', mapped', map, map.op \in enabled, faults > 0)
  BY <1>2, <1>4, <1>5, TraceCall DEF Recorded
<1>7. probe' # "passed"
  BY <1>1 DEF PassedInv
<1> QED
  BY <1>1, <1>2, <1>3, <1>6, <1>7 DEF RecordedInv, Early, During

\* The probe's own event ends it.
LEMMA RecordedEnd ==
  ASSUME RecordedInv, TypeOK, PassedInv, ProbePasses \/ ProbeFails
  PROVE  RecordedInv'
<1>1. /\ pc = "mapping" /\ pc' = "cat" /\ enabled' = enabled /\ faults' = faults /\ map' = map
      /\ mapped' = mapped
  BY DEF ProbePasses, ProbeFails, Goto
<1>2. map \in Mappings /\ CallsInv /\ TraceOf(trace, mapped, map, map.op \in enabled, faults > 0)
  BY <1>1 DEF RecordedInv, During
<1>3. CallsInv'
  BY <1>1, <1>2 DEF CallsInv, Position, Piece, End, UsedAt
<1>4. CASE ProbeFails
  <2>1. trace' = trace /\ probe' # "passed"
    BY <1>4 DEF ProbeFails
  <2> QED BY <1>1, <1>2, <1>3, <2>1 DEF RecordedInv, Early, During
<1>5. CASE ProbePasses
  <2>1. translated
    BY <1>1 DEF PassedInv
  <2>2. /\ trace' = trace \o <<ProbeMap(map)>>
        /\ out' = [misc |-> map.paddr, iova |-> map.iova, nbytes |-> map.nbytes]
    BY <1>5, <2>1 DEF ProbePasses, ProbeMap
  <2>3. NoCall(ProbeMap(map), map) /\ ProbeMap(map).at = "map" /\ trace \in Seq(Events)
    BY <1>2 DEF NoCall, ProbeMap, MapRecord, TraceOf
  <2>4. ProbeMap(map) \in Events
    BY <1>2, <2>3, NoCallIs
  <2>5. trace' = Append(trace, ProbeMap(map))
    BY <2>2, <2>3, <2>4, AppendIsConcat
  <2>6. mapped \in Seq(Events)
    BY <1>2 DEF CallsInv
  <2>7. TraceOf(trace', mapped, map, map.op \in enabled, faults > 0)
    BY <1>2, <2>3, <2>5, <2>6, TraceOther
  <2>8. Len(trace') \in 1..Len(trace') /\ trace'[Len(trace')] = ProbeMap(map)
    <3>1. Len(trace) \in Nat /\ Len(trace') = Len(trace) + 1 /\ trace'[Len(trace) + 1] = ProbeMap(map)
      BY <2>3, <2>4, <2>5, LenProperties, AppendProperties
    <3> QED BY <3>1
  <2> QED BY <1>1, <1>2, <1>3, <2>2, <2>7, <2>8 DEF RecordedInv, Early, During
<1> QED
  BY <1>4, <1>5

\* Another process maps as much.
LEMMA RecordedOther ==
  ASSUME RecordedInv, PassedInv, OtherMaps
  PROVE  RecordedInv'
<1>1. /\ pc = "mapping" /\ pc' = pc /\ enabled' = enabled /\ faults' = faults /\ map' = map
      /\ mapped' = mapped /\ probe' = probe
  BY DEF OtherMaps
<1>2. map \in Mappings /\ CallsInv /\ TraceOf(trace, mapped, map, map.op \in enabled, faults > 0)
  BY <1>1 DEF RecordedInv, During
<1>3. CallsInv'
  BY <1>1, <1>2 DEF CallsInv, Position, Piece, End, UsedAt
<1>4. PICK p \in Others, size \in map.domain :
        LET count == map.nbytes \div size
        IN  /\ count * size = map.nbytes
            /\ trace' = trace \o Recorded(Record("other", map.slots, map.iova, p, size, count))
                              \o <<MapRecord("other", map.iova, p, map.nbytes)>>
  BY DEF OtherMaps
<1> DEFINE count == map.nbytes \div size
           e == Record("other", map.slots, map.iova, p, size, count)
           f == MapRecord("other", map.iova, p, map.nbytes)
           s == trace \o Recorded(e)
<1>5. count * size = map.nbytes /\ trace' = s \o <<f>>
  BY <1>4
<1>6. size \in Nat \ {0} /\ map.nbytes \in Nat \ {0} /\ map.iova \in Nat
  <2>1. map.domain \subseteq Powers /\ map.nbytes \in Nat \ {0} /\ map.iova \in Nat
    BY <1>2, MappingIs
  <2> QED BY <2>1, PowersAre
<1>7. count \in Nat \ {0}
  <2>1. count \in Int
    BY <1>6
  <2> HIDE DEF count
  <2>2. count > 0
    <3> SUFFICES ASSUME count <= 0 PROVE FALSE
      BY <2>1
    <3>1. count * size <= 0
      BY <1>6, <2>1
    <3> QED BY <1>5, <1>6, <3>1
  <2> QED BY <2>1, <2>2
<1>8. p \in Nat
  <2>1. Iovas \cup Paddrs \cup Others \subseteq 0..(Pow[AddressBits] - 1)
    BY TraceAssumption, Zenon DEF TraceAssumption
  <2> QED BY <2>1
<1>9. OtherMap(f) /\ f.at = "map"
  BY <1>6, <1>8 DEF OtherMap, MapRecord, Events
<1> HIDE DEF count, f
<1>10. OtherCall(e, map)
  BY <1>5, <1>7 DEF OtherCall
<1> HIDE DEF e
<1>11. mapped \in Seq(Events) /\ trace \in Seq(Events)
  BY <1>2 DEF CallsInv, TraceOf
<1>12. NoCall(e, map) /\ NoCall(f, map)
  BY <1>9, <1>10 DEF NoCall
<1>13. e \in Events /\ f \in Events
  BY <1>2, <1>12, NoCallIs
<1> HIDE DEF s
<1>14. TraceOf(s, mapped, map, map.op \in enabled, faults > 0)
  <2>1. CASE map.op \in enabled
    <3>1. s = Append(trace, e)
      BY <1>11, <1>13, <2>1, AppendIsConcat DEF Recorded, s
    <3> QED BY <1>2, <1>11, <1>12, <2>1, <3>1, TraceOther
  <2>2. CASE map.op \notin enabled
    <3>1. s = trace
      BY <1>11, <2>2, ConcatEmptySeq DEF Recorded, s
    <3> QED BY <1>2, <1>11, <3>1
  <2> QED BY <2>1, <2>2
<1>15. trace' = Append(s, f)
  <2>1. s \in Seq(Events)
    BY <1>14 DEF TraceOf
  <2> QED BY <1>5, <1>13, <2>1, AppendIsConcat
<1>16. TraceOf(trace', mapped, map, map.op \in enabled, faults > 0)
  BY <1>2, <1>9, <1>11, <1>12, <1>14, <1>15, TraceOther
<1>17. probe' # "passed"
  BY <1>1 DEF PassedInv
<1> QED
  BY <1>1, <1>2, <1>3, <1>16, <1>17 DEF RecordedInv, Early, During

\* The oldest event is lost.
LEMMA RecordedLost ==
  ASSUME RecordedInv, TypeOK, PassedInv, Overwritten
  PROVE  RecordedInv'
<1>1. /\ pc = "mapping" /\ pc' = pc /\ enabled' = enabled /\ faults' = faults + 1 /\ map' = map
      /\ mapped' = mapped /\ probe' = probe /\ trace # << >> /\ trace' = Tail(trace)
  BY DEF Overwritten
<1>2. map \in Mappings /\ CallsInv /\ TraceOf(trace, mapped, map, map.op \in enabled, faults > 0)
  BY <1>1 DEF RecordedInv, During
<1>3. CallsInv'
  BY <1>1, <1>2 DEF CallsInv, Position, Piece, End, UsedAt
<1>4. (faults > 0)' = TRUE
  BY <1>1 DEF TypeOK
<1>5. TraceOf(trace', mapped, map, map.op \in enabled, TRUE)
  BY <1>1, <1>2, TraceTail DEF CallsInv
<1>6. probe' # "passed"
  BY <1>1 DEF PassedInv
<1> QED
  BY <1>1, <1>2, <1>3, <1>4, <1>5, <1>6 DEF RecordedInv, Early, During

\* The trace is read as it is, or not at all.
LEMMA RecordedRead ==
  ASSUME RecordedInv, TypeOK, PassedInv, ReadTrace \/ ReadFails
  PROVE  RecordedInv'
<1>1. /\ pc = "cat" /\ pc' = "findings" /\ enabled' = enabled /\ map' = map
      /\ mapped' = mapped /\ probe' = probe /\ trace' = trace /\ out' = out
  BY DEF ReadTrace, ReadFails, Goto, Strikes
<1>2. map \in Mappings /\ CallsInv /\ TraceOf(trace, mapped, map, map.op \in enabled, faults > 0)
  BY <1>1 DEF RecordedInv, During
<1>3. CallsInv'
  BY <1>1, <1>2 DEF CallsInv, Position, Piece, End, UsedAt
<1>4. CASE ReadTrace
  <2>1. faults' = faults /\ read' = trace
    BY <1>4 DEF ReadTrace
  <2> QED BY <1>1, <1>2, <1>3, <2>1 DEF RecordedInv, Early, During
<1>5. CASE ReadFails
  <2>1. faults' = faults + 1 /\ read' = None /\ faults' > 0
    BY <1>5 DEF ReadFails, Strikes, TypeOK
  <2>2. TraceOf(trace', mapped', map', (map.op \in enabled)', TRUE)
    BY <1>1, <1>2, TraceLost
  <2>3. (faults > 0)' = TRUE /\ faults' # 0
    BY <2>1 DEF TypeOK
  <2> QED BY <1>1, <1>2, <1>3, <2>1, <2>2, <2>3 DEF RecordedInv, Early, During
<1> QED
  BY <1>4, <1>5

\* Every other step is before the probe, or leads out of what is about it.
LEMMA RecordedRest ==
  ASSUME RecordedInv,
         \/ CheckTarget \/ Mktemp \/ PutSource \/ Compile \/ Mkdir \/ Setup \/ Register
         \/ AppendName \/ Enable \/ Conclude \/ Rmdir \/ RemoveKprobe \/ CleanupProbe
         \/ StagingFails \/ SetupFails \/ KprobeFails \/ RemovalFails \/ Interrupt \/ UNCHANGED vars
  PROVE  RecordedInv'
<1>1. CASE UNCHANGED vars
  BY <1>1 DEF vars, RecordedInv, CallsInv, Position, Piece, End, UsedAt
<1> USE DEF Goto, Ends, Strikes
<1>2. CASE CheckTarget \/ Mktemp \/ PutSource \/ Compile \/ Mkdir \/ Setup \/ Register \/ AppendName \/ Enable
  <2>1. pc \in Early /\ pc' \notin During /\ mapped' = mapped /\ trace' = trace
    <3>1. CASE CheckTarget \/ Mktemp \/ PutSource \/ Compile \/ Mkdir
      BY <3>1 DEF CheckTarget, Mktemp, PutSource, Compile, Mkdir, Early, During
    <3>2. CASE Setup \/ Register \/ AppendName \/ Enable
      BY <3>2 DEF Setup, Register, AppendName, Enable, Early, During
    <3> QED BY <1>2, <3>1, <3>2
  <2> QED BY <2>1 DEF RecordedInv, During
<1>3. CASE Conclude \/ Rmdir \/ RemoveKprobe \/ CleanupProbe \/ StagingFails \/ SetupFails \/ RemovalFails
  <2>1. pc' \notin Early /\ pc' \notin During
    <3>1. CASE Conclude
      BY <3>1 DEF Conclude, Early, During
    <3>2. CASE Rmdir \/ RemoveKprobe \/ CleanupProbe
      BY <3>2 DEF Rmdir, RemoveKprobe, CleanupProbe, Early, During
    <3>3. CASE StagingFails \/ SetupFails \/ RemovalFails
      BY <3>3 DEF StagingFails, SetupFails, RemovalFails, Early, During
    <3> QED BY <1>3, <3>1, <3>2, <3>3
  <2> QED BY <2>1 DEF RecordedInv, During
<1>4. CASE KprobeFails
  <2>1. pc \in Early /\ pc' \notin During /\ mapped' = mapped /\ trace' = trace
    BY <1>4 DEF KprobeFails, Early, During
  <2> QED BY <2>1 DEF RecordedInv, During
<1>5. CASE Interrupt
  <2>1. pc' \notin Early /\ pc' \notin During
    BY <1>5 DEF Interrupt, Early, During
  <2> QED BY <2>1 DEF RecordedInv, During
<1> QED
  BY <1>1, <1>2, <1>3, <1>4, <1>5

-----------------------------------------------------------------------------
(* The calls, as they are read from the trace *)

\* Where the kprobe reads the right arguments, what is seen of a call is the call.
LEMMA SameSeen ==
  ASSUME NEW c \in Events, c.by = "probe", c.at = "call"
  PROVE  Seen(c, "same") = c
<1>1. Seen(c, "same") = [by |-> "probe", at |-> "call", iova |-> c.iova, paddr |-> c.paddr,
                         size |-> c.size, count |-> c.count]
  BY DEF Seen, Record
<1>2. c = [by |-> c.by, at |-> c.at, iova |-> c.iova, paddr |-> c.paddr,
           size |-> c.size, count |-> c.count]
  BY DEF Events
<1> QED
  BY <1>1, <1>2

InMap == map.iova..(map.iova + map.nbytes - 1)

\* Every call for the mapping is at one of its addresses.
LEMMA PiecesInMap ==
  ASSUME map \in Mappings, CallsInv, NEW i \in 1..Len(mapped)
  PROVE  /\ Piece(mapped[i], map) /\ mapped[i].iova \in InMap
         /\ mapped[i].size * mapped[i].count <= map.nbytes
<1>1. Piece(mapped[i], map) /\ End(mapped[i]) <= map.iova + Position
  BY DEF CallsInv
<1>2. /\ mapped[i].iova \in Nat /\ mapped[i].size * mapped[i].count \in Nat
      /\ mapped[i].size <= mapped[i].size * mapped[i].count /\ mapped[i].size \in Nat \ {0}
  BY <1>1, PieceIs
<1>3. map.iova \in Nat /\ map.nbytes \in Nat /\ Position \in Nat /\ Position <= map.nbytes
  BY MappingIs, CoveredIs DEF CallsInv, Position
<1>4. mapped[i].iova >= map.iova
  BY <1>1 DEF Piece
<1>5. PICK w \in Nat : w = mapped[i].size * mapped[i].count
  BY <1>2
<1>6. mapped[i].iova + w <= map.iova + Position /\ w >= 1
  BY <1>1, <1>2, <1>5 DEF End
<1>7. w <= map.nbytes /\ mapped[i].iova \in InMap
  <2>1. PICK x \in Nat, a \in Nat, n \in Nat, q \in Nat :
          x = mapped[i].iova /\ a = map.iova /\ n = map.nbytes /\ q = Position
    BY <1>2, <1>3
  <2>2. x >= a /\ x + w <= a + q /\ w >= 1 /\ q <= n
    BY <1>3, <1>4, <1>6, <2>1
  <2>3. w <= n /\ x \in a..(a + n - 1)
    BY <2>2
  <2> QED BY <2>1, <2>3 DEF InMap
<1> QED
  BY <1>1, <1>5, <1>7

\* The calls that a trace of the mapping has of the probe are sorted as they were made.
LEMMA SortedCalls ==
  ASSUME map \in Mappings, CallsInv, NEW t \in Seq(Events), NEW g, Tracks(g, t, mapped, "same")
  PROVE  Sorted(t, {"probe"}, InMap) = SubSeq(mapped, g[0] + 1, Len(mapped))
<1> DEFINE n == Len(t)
           k == Len(mapped)
           H == Hits(t, {"probe"}, InMap)
           Part(j) == SubSeq(mapped, g[0] + 1, j)
<1>1. n \in Nat /\ k \in Nat /\ mapped \in Seq(Events) /\ \A i \in 1..n : t[i] \in Events
  BY LenProperties, ElementOfSeq DEF CallsInv
<1>2. /\ g \in [0..n -> 0..k] /\ g[n] = k
      /\ \A i \in 1..n : IF ProbeCall(t[i]) THEN g[i] = g[i - 1] + 1 /\ t[i] = Seen(mapped[g[i]], "same")
                                            ELSE g[i] = g[i - 1]
  BY DEF Tracks
<1>3. PICK f : SortedSteps(f, t, H) /\ Sorted(t, {"probe"}, InMap) = f[n]
  BY SortedIs
<1>4. f[0] = << >> /\ \A i \in 1..n : f[i] = IF t[i] \in H THEN Insert(f[i - 1], t[i]) ELSE f[i - 1]
  BY <1>3 DEF SortedSteps
<1> DEFINE S == {i \in 0..n : g[0] <= g[i] /\ f[i] = Part(g[i])}
<1>5. 0 \in S
  <2>1. g[0] \in 0..k /\ 0 \in 0..n
    BY <1>1, <1>2
  <2>2. Part(g[0]) = << >>
    BY <2>1, SubSeqEmpty
  <2> HIDE DEF Part
  <2> QED BY <1>4, <2>1, <2>2
<1>6. ASSUME NEW i \in 0..(n - 1), i \in S PROVE i + 1 \in S
  <2>1. i + 1 \in 1..n /\ (i + 1) - 1 = i /\ i \in 0..n /\ i + 1 \in 0..n /\ 0 \in 0..n
    BY <1>1
  <2>2. g[0] <= g[i] /\ f[i] = Part(g[i]) /\ g[0] \in 0..k /\ g[i] \in 0..k /\ g[i + 1] \in 0..k
    BY <1>2, <1>6, <2>1
  <2>3. CASE ~ProbeCall(t[i + 1])
    <3>1. g[i + 1] = g[i]
      BY <1>2, <2>1, <2>3
    <3>2. t[i + 1] \notin H
      BY <2>3 DEF Hits, ProbeCall
    <3>3. f[i + 1] = f[i]
      BY <1>4, <2>1, <3>2
    <3> QED BY <2>1, <2>2, <3>1, <3>3
  <2>4. CASE ProbeCall(t[i + 1])
    <3> DEFINE j == g[i] + 1
               c == mapped[j]
    <3>1. g[i + 1] = j /\ t[i + 1] = Seen(mapped[j], "same")
      BY <1>2, <2>1, <2>4
    <3>2. j \in 1..k
      BY <1>1, <2>2, <3>1
    <3>3. Piece(c, map) /\ c.iova \in InMap
      BY <3>2, PiecesInMap
    <3>4. c \in Events /\ c.by = "probe" /\ c.at = "call"
      BY <3>3 DEF Piece
    <3>5. t[i + 1] = c
      BY <3>1, <3>4, SameSeen
    <3>6. c \in H
      BY <2>1, <3>3, <3>4, <3>5 DEF Hits
    <3>7. f[i + 1] = Insert(Part(g[i]), c)
      BY <1>4, <2>1, <2>2, <3>5, <3>6
    <3>8. /\ Part(g[i]) \in Seq(Events) /\ Len(Part(g[i])) = g[i] - g[0]
          /\ \A l \in 1..(g[i] - g[0]) : Part(g[i])[l] = mapped[g[0] + l]
      <4>1. \A l \in (g[0] + 1)..g[i] : mapped[l] \in Events
        BY <1>1, <2>2, ElementOfSeq
      <4>2. g[0] + 1 \in Int /\ g[i] \in Int /\ g[i] - (g[0] + 1) + 1 = g[i] - g[0]
        BY <2>2
      <4>3. /\ Part(g[i]) \in Seq(Events)
            /\ Len(Part(g[i])) = IF g[0] + 1 <= g[i] THEN g[i] - (g[0] + 1) + 1 ELSE 0
            /\ \A l \in 1..(g[i] - (g[0] + 1) + 1) : Part(g[i])[l] = mapped[g[0] + 1 + l - 1]
        <5>1. PICK a \in Int, b \in Int : a = g[0] + 1 /\ b = g[i]
          BY <4>2
        <5>2. \A l \in a..b : mapped[l] \in Events
          BY <4>1, <5>1
        <5>3. /\ SubSeq(mapped, a, b) \in Seq(Events)
              /\ Len(SubSeq(mapped, a, b)) = IF a <= b THEN b - a + 1 ELSE 0
              /\ \A l \in 1..(b - a + 1) : SubSeq(mapped, a, b)[l] = mapped[a + l - 1]
          BY <5>2, SubSeqProperties
        <5> QED BY <5>1, <5>3
      <4>4. \A l \in 1..(g[i] - g[0]) : g[0] + 1 + l - 1 = g[0] + l
        BY <2>2
      <4>5. Len(Part(g[i])) = g[i] - g[0]
        <5>1. PICK u \in 0..k, v \in 0..k : u = g[0] /\ v = g[i] /\ u <= v
          BY <2>2
        <5> HIDE DEF Part, k
        <5>2. Len(Part(g[i])) = IF u + 1 <= v THEN v - (u + 1) + 1 ELSE 0
          BY <4>3, <5>1
        <5>3. u \in Int /\ v \in Int
          BY <1>1
        <5>4. (IF u + 1 <= v THEN v - (u + 1) + 1 ELSE 0) = v - u
          BY <5>1, <5>3
        <5> QED BY <5>1, <5>2, <5>4
      <4> HIDE DEF Part
      <4>6. ASSUME NEW l \in 1..(g[i] - g[0]) PROVE Part(g[i])[l] = mapped[g[0] + l]
        BY <4>2, <4>3, <4>4
      <4> QED BY <4>3, <4>5, <4>6
    <3>9. ASSUME NEW l \in 1..(g[i] - g[0]) PROVE ~After(Part(g[i])[l], c)
      <4>1. g[0] + l \in 1..k /\ g[0] + l < j
        <5>1. PICK u \in 0..k, v \in 0..k : u = g[0] /\ v = g[i]
          BY <2>2
        <5>2. l \in 1..(v - u)
          BY <5>1
        <5> HIDE DEF k
        <5>3. u \in Nat /\ v \in Nat /\ v <= k /\ k \in Nat
          BY <1>1
        <5>4. u + l \in 1..k /\ u + l < v + 1
          BY <5>2, <5>3
        <5> QED BY <5>1, <5>4
      <4>2. mapped[g[0] + l].iova < c.iova
        BY <3>2, <4>1 DEF CallsInv
      <4>3. mapped[g[0] + l] \in Events /\ mapped[g[0] + l].iova \in Nat /\ c.iova \in Nat
        BY <1>1, <3>4, <4>1, ElementOfSeq, EventIs
      <4>4. Part(g[i])[l] = mapped[g[0] + l]
        BY <3>8
      <4> HIDE DEF Part, c
      <4> QED BY <4>2, <4>3, <4>4 DEF After
    <3>10. f[i + 1] = Append(Part(g[i]), c)
      <4> HIDE DEF Part, c
      <4>1. Insert(Part(g[i]), c) = Append(Part(g[i]), c)
        BY <3>4, <3>8, <3>9, InsertIs
      <4> QED BY <3>7, <4>1
    <3>11. Part(j) = Part(g[i]) \o <<c>>
      <4>1. g[0] + 1 \in 1..k /\ j \in (g[0] + 1)..k /\ j - 1 = g[i]
        <5>1. PICK u \in 0..k, v \in 0..k : u = g[0] /\ v = g[i] /\ u <= v
          BY <2>2
        <5>2. v + 1 \in 1..k /\ k \in Nat
          BY <1>1, <3>2, <5>1
        <5> HIDE DEF k
        <5>3. u <= v /\ v + 1 <= k
          BY <5>1, <5>2
        <5>4. u + 1 <= k /\ u + 1 <= v + 1 /\ (v + 1) - 1 = v
          BY <5>2, <5>3
        <5>5. u + 1 \in 1..k /\ v + 1 \in (u + 1)..k
          BY <5>2, <5>3, <5>4
        <5> QED BY <5>1, <5>4, <5>5
      <4>2. PICK a \in 1..k : a = g[0] + 1
        BY <4>1
      <4>3. PICK b \in a..k : b = j
        BY <4>1, <4>2
      <4>4. SubSeq(mapped, a, b) = SubSeq(mapped, a, b - 1) \o <<mapped[b]>>
        BY <1>1, SubSeqRecursiveSecond
      <4> QED BY <4>1, <4>2, <4>3, <4>4
    <3>12. Part(g[i]) \o <<c>> = Append(Part(g[i]), c)
      BY <3>4, <3>8, AppendIsConcat
    <3>13. g[0] <= j
      BY <2>2
    <3> QED BY <2>1, <3>1, <3>10, <3>11, <3>12, <3>13
  <2> QED BY <2>3, <2>4
<1>7. 0..n \subseteq S
  <2> HIDE DEF S, n
  <2> QED BY <1>1, <1>5, <1>6, Induct
<1>8. f[n] = Part(k)
  BY <1>1, <1>2, <1>7
<1> QED
  BY <1>3, <1>8

-----------------------------------------------------------------------------
(* A verdict on what is read *)

\* VerdictTrue, of a verdict
TrueOf(v) ==
  LET bigger == {p \in Powers : /\ p > v.largest /\ p <= map.nbytes
                                /\ Usable(p, map.iova, map.paddr, map.nbytes)}
  IN  /\ Covered(mapped) = map.nbytes
      /\ v.largest = Max({mapped[i].size : i \in DOMAIN mapped})
      /\ v.pages = Pages(mapped)
      /\ IF v.cap = {"domain"} THEN bigger # {} /\ bigger \cap map.domain = {}
                               ELSE v.cap # {} /\ bigger = {}

\* The records of kernels whose op has its arguments elsewhere can be told apart
\* by their values: a BAR is aligned to its size, and no page is a single byte
ToldApart ==
  "swapped" \notin Slots /\ SmallestPage > 1 /\ \A p \in Paddrs, n \in Sizes : p >= n

\* What was recorded of a mapping that is complete, and printed by the probe
Complete(t, on, lost) ==
  /\ map \in Mappings /\ CallsInv /\ Position = map.nbytes
  /\ TraceOf(t, mapped, map, on, lost)
  /\ out = [misc |-> map.paddr, iova |-> map.iova, nbytes |-> map.nbytes]

\* The largest page of a complete mapping is a page, and no other that could have
\* been used, of those the domain has, is larger.
LEMMA LargestIs ==
  ASSUME map \in Mappings, CallsInv, Position = map.nbytes
  PROVE  LET largest == Largest(mapped)
         IN  /\ mapped # << >>
             /\ largest \in Powers /\ largest >= SmallestPage
             /\ \A p \in map.domain : Usable(p, map.iova, map.paddr, map.nbytes) => p <= largest
<1> DEFINE n == Len(mapped)
           S == {mapped[i].size : i \in DOMAIN mapped}
<1>1. mapped \in Seq(Events) /\ n \in Nat /\ DOMAIN mapped = 1..n
  BY LenProperties DEF CallsInv
<1>2. map.nbytes \in Nat \ {0} /\ map.iova \in Nat /\ map.paddr \in Nat /\ map.domain \subseteq Powers
  BY MappingIs
<1>3. mapped # << >> /\ 1 \in 1..n
  <2>1. mapped # << >>
    <3>1. mapped = << >> => Position = 0
      BY <1>1, CoveredIs DEF Position
    <3> QED BY <1>2, <3>1
  <2> QED BY <1>1, <2>1, EmptySeq
<1>4. \A i \in 1..n : mapped[i].size \in Powers /\ mapped[i].size >= SmallestPage
  BY <1>1, PiecesInMap, PieceIs DEF Piece
<1>5. Powers \subseteq 0..Pow[AddressBits] /\ Pow[AddressBits] \in Nat /\ SmallestPage \in Nat
  <2>1. Powers \subseteq 1..Pow[AddressBits] /\ Pow[AddressBits] \in Nat /\ SmallestPage \in Nat
    BY PowersAre
  <2> QED BY <2>1
<1>6. \A x \in S : x \in Powers /\ x >= SmallestPage
  BY <1>1, <1>4
<1>7. mapped[1].size \in S
  BY <1>1, <1>3
<1>8. \A i \in 1..n : mapped[i].size \in S
  BY <1>1
<1> HIDE DEF S
<1>9. Max(S) \in S /\ \A x \in S : x <= Max(S)
  <2>1. S \subseteq 0..Pow[AddressBits] /\ S # {}
    BY <1>5, <1>6, <1>7
  <2> QED BY <1>5, <2>1, MaxIs
<1>10. ASSUME NEW p \in map.domain, Usable(p, map.iova, map.paddr, map.nbytes) PROVE p <= Max(S)
  <2>1. PICK addr \in map.iova..(map.iova + map.nbytes - p) :
          addr % p = 0 /\ (addr - map.iova + map.paddr) % p = 0
    BY <1>10 DEF Usable
  <2>2. p \in Nat \ {0}
    BY <1>2, PowersAre
  <2> DEFINE a == addr - map.iova
  <2>3. /\ a \in Nat /\ a \in 0..(Position - 1) /\ a + p <= map.nbytes
        /\ map.iova + a = addr /\ map.paddr + a = addr - map.iova + map.paddr
    BY <1>2, <2>1, <2>2
  <2>4. UsedAt(p, a)
    BY <2>1, <2>3 DEF UsedAt
  <2> HIDE DEF a
  <2>5. PICK i \in 1..n : mapped[i].size >= p
    BY <2>3, <2>4 DEF CallsInv
  <2>6. mapped[i].size \in S /\ mapped[i].size \in Powers /\ Max(S) \in Powers
    BY <1>4, <1>6, <1>8, <1>9
  <2>7. mapped[i].size \in Nat /\ Max(S) \in Nat
    <3>1. \A q \in Powers : q \in Nat
      BY PowersAre
    <3> QED BY <2>6, <3>1
  <2> QED BY <1>9, <2>2, <2>5, <2>6, <2>7
<1> QED
  BY <1>3, <1>6, <1>9, <1>10 DEF S, Largest

\* Of all calls that were made for a complete mapping, the verdict is true.
LEMMA VerdictOfAll ==
  ASSUME map \in Mappings, CallsInv, Position = map.nbytes
  PROVE  TrueOf(Verdict(map.iova, map.nbytes, mapped))
<1> DEFINE v == Verdict(map.iova, map.nbytes, mapped)
           bigger(l) == Larger(l, map.iova, map.paddr, map.nbytes)
<1>1. PICK largest \in Powers :
        /\ largest = Largest(mapped)
        /\ mapped # << >> /\ largest >= SmallestPage
        /\ \A p \in map.domain : Usable(p, map.iova, map.paddr, map.nbytes) => p <= largest
  BY LargestIs
<1>2. map.iova \in Nat /\ map.paddr \in Nat /\ map.nbytes \in Nat /\ map.domain \subseteq Powers
  BY MappingIs
<1>3. mapped[1].paddr = map.paddr
  <2>1. mapped \in Seq(Events) /\ 1 \in 1..Len(mapped) /\ mapped[1].iova = map.iova
    BY <1>1, LenProperties, EmptySeq DEF CallsInv
  <2>2. mapped[1].paddr = map.paddr + (mapped[1].iova - map.iova)
    BY <2>1 DEF CallsInv, Piece
  <2> QED BY <1>2, <2>1, <2>2
<1>4. /\ v.largest = largest /\ v.pages = Pages(mapped)
      /\ IF v.cap = {"domain"} THEN bigger(largest) # {} ELSE v.cap # {} /\ bigger(largest) = {}
  <2>1. PICK iova \in Nat, paddr \in Nat, nbytes \in Nat :
          iova = map.iova /\ paddr = map.paddr /\ nbytes = map.nbytes
    BY <1>2
  <2> HIDE DEF v
  <2>2. mapped[1].paddr = paddr /\ v = Verdict(iova, nbytes, mapped)
    BY <1>3, <2>1 DEF v
  <2>3. Explains(v, largest, mapped, iova, paddr, nbytes)
    BY <1>1, <2>2, CapIs
  <2> QED BY <2>1, <2>3 DEF Explains
<1>5. bigger(largest) \cap map.domain = {}
  <2> SUFFICES ASSUME NEW p \in bigger(largest), p \in map.domain PROVE FALSE
    OBVIOUS
  <2>1. p \in Powers /\ p > largest /\ Usable(p, map.iova, map.paddr, map.nbytes)
    BY DEF Larger
  <2>2. p \in Nat /\ largest \in Nat
    BY <2>1, PowersAre
  <2>3. p <= largest
    BY <1>1, <2>1
  <2> QED BY <2>1, <2>2, <2>3
<1>6. Covered(mapped) = map.nbytes
  BY DEF Position
<1> HIDE DEF v
<1> QED
  BY <1>1, <1>4, <1>5, <1>6 DEF TrueOf, v, Larger, Largest

\* And it is a verdict.
LEMMA VerdictIs ==
  ASSUME map \in Mappings, CallsInv, Position = map.nbytes
  PROVE  Verdict(map.iova, map.nbytes, mapped) \in Verdicts
<1> DEFINE v == Verdict(map.iova, map.nbytes, mapped)
<1>1. v.largest \in Powers
  <2>1. v.largest = Largest(mapped)
    BY DEF Verdict, Largest
  <2> QED BY <2>1, LargestIs
<1>2. v.largest \in Nat
  BY <1>1, PowersAre
<1>3. v.pages \in Nat
  <2>1. v.pages = Pages(mapped)
    BY DEF Verdict
  <2> QED BY <2>1, CoveredIs DEF CallsInv
<1>4. v.cap \in SUBSET {"domain", "addresses", "range"}
  BY DEF Verdict
<1>5. v = [largest |-> v.largest, pages |-> v.pages, cap |-> v.cap]
  BY DEF Verdict
<1> HIDE DEF v
<1> QED
  BY <1>2, <1>3, <1>4, <1>5 DEF Verdicts, v

-----------------------------------------------------------------------------
(* Findings are true *)

\* What the findings go by.
LEMMA FindingsIs ==
  ASSUME NEW t, map \in Mappings,
         out = [misc |-> map.paddr, iova |-> map.iova, nbytes |-> map.nbytes],
         NEW calls, calls = Calls(t, map.iova, map.nbytes)
  PROVE  Findings(t, out) =
           IF /\ map.iova # map.paddr
              /\ Agree(map.iova, map.nbytes, map.paddr, MapEvent(t, map.iova), calls)
           THEN Verdict(map.iova, map.nbytes, calls) ELSE None
<1>1. None \notin Nat
  BY TraceAssumption, Zenon DEF TraceAssumption
<1>2. map.iova \in Nat /\ map.paddr \in Nat
  BY MappingIs
<1>3. map.iova # None /\ map.paddr # None
  BY <1>1, <1>2
<1>4. out.misc = map.paddr /\ out.iova = map.iova /\ out.nbytes = map.nbytes
  OBVIOUS
<1>5. MiscAddress(out) = map.paddr
  BY <1>3, <1>4 DEF MiscAddress
<1> QED
  BY <1>3, <1>4, <1>5 DEF Findings

\* The first call of the findings is in the trace, of the process they are about.
LEMMA FirstCall ==
  ASSUME NEW t \in Seq(Events), NEW calls, calls = Calls(t, map.iova, map.nbytes), calls # << >>
  PROVE  /\ calls \in Seq(Events) /\ 1 \in 1..Len(calls)
         /\ \E i \in 1..Len(t) : /\ calls[1] = t[i] /\ t[i] \in Events /\ t[i].at = "call"
                                 /\ t[i].by = Caller(t, map.iova)
<1> DEFINE H == Hits(t, {Caller(t, map.iova)}, InMap)
<1>1. calls = Sorted(t, {Caller(t, map.iova)}, InMap)
  BY DEF Calls, InMap
<1>2. PICK f : SortedSteps(f, t, H) /\ Sorted(t, {Caller(t, map.iova)}, InMap) = f[Len(t)]
  BY SortedIs
<1>3. Len(t) \in 0..Len(t)
  BY LenProperties
<1>4. calls \in Seq(H)
  BY <1>1, <1>2, <1>3 DEF SortedSteps
<1>5. \A i \in 1..Len(t) : t[i] \in Events
  BY ElementOfSeq
<1>6. H \subseteq Events
  BY <1>5 DEF Hits
<1>7. 1 \in 1..Len(calls)
  <2> HIDE DEF H
  <2> QED BY <1>4, LenProperties, EmptySeq
<1>8. calls[1] \in H /\ calls \in Seq(Events)
  <2> HIDE DEF H
  <2>1. calls[1] \in H /\ \A i \in 1..Len(calls) : calls[i] \in H
    BY <1>4, <1>7, ElementOfSeq
  <2>2. calls \in Seq(Events)
    BY <1>4, <1>6, <2>1
  <2> QED BY <2>1, <2>2
<1>9. PICK i \in 1..Len(t) : /\ calls[1] = t[i] /\ t[i].at = "call"
                             /\ t[i].by \in {Caller(t, map.iova)}
  BY <1>8 DEF Hits
<1> QED
  BY <1>5, <1>7, <1>8, <1>9

\* Calls of another process, or read from other arguments, disagree.
LEMMA OthersDisagree ==
  ASSUME ToldApart, NEW t, NEW on, NEW lost, Complete(t, on, lost),
         NEW calls, calls = Calls(t, map.iova, map.nbytes), map.iova # map.paddr,
         Agree(map.iova, map.nbytes, map.paddr, MapEvent(t, map.iova), calls)
  PROVE  on /\ map.slots = "same" /\ Caller(t, map.iova) = "probe"
<1> USE DEF Complete
<1>1. /\ calls # << >> /\ WellFormed(calls[1]) /\ Covered(calls) = map.nbytes
      /\ calls[1].paddr = map.paddr
  <2>0. t \in Seq(Events)
    BY DEF TraceOf
  <2>1. calls # << >>
    BY DEF Agree
  <2>2. 1 \in DOMAIN calls
    BY <2>0, <2>1, FirstCall, LenProperties
  <2>3. map.paddr # None
    <3>1. None \notin Nat
      BY TraceAssumption, Zenon DEF TraceAssumption
    <3> QED BY <3>1, MappingIs
  <2> QED BY <2>1, <2>2, <2>3 DEF Agree
<1>2. t \in Seq(Events) /\ calls \in Seq(Events) /\ 1 \in 1..Len(calls)
  BY <1>1, FirstCall DEF TraceOf
<1>3. PICK i \in 1..Len(t) : /\ calls[1] = t[i] /\ t[i] \in Events /\ t[i].at = "call"
                             /\ t[i].by = Caller(t, map.iova)
  BY <1>1, <1>2, FirstCall
<1> DEFINE e == t[i]
<1>4. on
  <2>1. ~on => e.at = "map"
    BY DEF TraceOf
  <2> QED BY <1>3, <2>1
<1>5. ProbeCall(e) \/ OtherCall(e, map)
  <2>1. ProbeCall(e) \/ NoCall(e, map)
    BY DEF TraceOf
  <2>2. ~OtherMap(e)
    BY <1>3 DEF OtherMap
  <2>3. e # ProbeMap(map)
    BY <1>3 DEF ProbeMap, MapRecord
  <2> QED BY <2>1, <2>2, <2>3 DEF NoCall
<1>6. e.size * e.count <= map.nbytes /\ e.size >= SmallestPage /\ e.paddr = map.paddr
  BY <1>1, <1>2, <1>3, CoveredIs DEF WellFormed
<1>7. /\ map.slots \in {"same", "next", "previous"}
      /\ map.paddr >= map.nbytes /\ SmallestPage > 1 /\ SmallestPage \in Nat
  BY MappingIs, PowersAre DEF ToldApart
<1>8. map.paddr \in Nat /\ map.nbytes \in Nat \ {0} /\ map.iova \in Nat /\ map.domain \subseteq Powers
      /\ map.paddr \in Paddrs
  BY MappingIs
<1> HIDE DEF e
<1>9. CASE OtherCall(e, map)
  <2>1. PICK p \in Others, size \in map.domain, count \in Nat \ {0} :
          count * size = map.nbytes /\ e = Record("other", map.slots, map.iova, p, size, count)
    BY <1>9 DEF OtherCall
  <2>2. size \in Nat \ {0}
    BY <1>8, PowersAre
  <2>3. CASE map.slots = "same"
    <3>1. e.paddr = p
      BY <2>1, <2>3 DEF Record
    <3>2. Paddrs \cap Others = {}
      BY TraceAssumption, Zenon DEF TraceAssumption
    <3> QED BY <1>6, <1>8, <3>1, <3>2
  <2>4. CASE map.slots = "next"
    <3>1. e.paddr = map.iova
      BY <2>1, <2>4 DEF Record
    <3> QED BY <1>6, <3>1
  <2>5. CASE map.slots = "previous"
    <3>1. e.paddr = size /\ e.size = count
      BY <2>1, <2>5 DEF Record
    <3>2. size >= map.nbytes /\ count >= 2
      BY <1>6, <1>7, <3>1
    <3>3. count * size >= 2 * size
      BY <2>2, <3>2, Products
    <3> QED BY <1>8, <2>1, <2>2, <3>2, <3>3
  <2> QED BY <1>7, <2>3, <2>4, <2>5
<1>10. CASE ProbeCall(e)
  <2>1. PICK g : Tracks(g, t, mapped, map.slots)
    BY <1>4 DEF TraceOf
  <2>2. g[i] = g[i - 1] + 1 /\ e = Seen(mapped[g[i]], map.slots)
    BY <1>10, <2>1 DEF Tracks, e
  <2>3. g[i] \in 0..Len(mapped) /\ g[i - 1] \in 0..Len(mapped) /\ Len(mapped) \in Nat
    <3>1. i \in 0..Len(t) /\ i - 1 \in 0..Len(t)
      BY <1>2, LenProperties
    <3> QED BY <2>1, <3>1, LenProperties DEF Tracks, CallsInv
  <2>4. g[i] \in 1..Len(mapped)
    BY <2>2, <2>3
  <2> DEFINE c == mapped[g[i]]
  <2>5. Piece(c, map) /\ c.size * c.count <= map.nbytes
    BY <2>4, PiecesInMap
  <2>6. e = Record("probe", map.slots, c.iova, c.paddr, c.size, c.count)
    BY <2>2 DEF Seen
  <2> HIDE DEF c
  <2>7. /\ c.size \in Nat \ {0} /\ c.count \in Nat \ {0} /\ c.iova \in Nat /\ c.paddr \in Nat
        /\ c.size >= SmallestPage /\ c.paddr >= map.paddr
    <3>1. c.size >= SmallestPage /\ c.paddr = map.paddr + (c.iova - map.iova) /\ c.iova >= map.iova
      BY <2>5 DEF Piece
    <3>2. /\ c.size \in Nat \ {0} /\ c.count \in Nat \ {0} /\ c.iova \in Nat /\ c.paddr \in Nat
      BY <2>5, PieceIs
    <3> QED BY <1>8, <3>1, <3>2
  <2>8. CASE map.slots = "next"
    <3>1. e.size = c.paddr /\ e.count = c.size
      BY <2>6, <2>8 DEF Record
    <3>2. c.paddr * c.size >= c.paddr * 2
      <4>1. c.size >= 2
        BY <1>7, <2>7
      <4> QED BY <2>7, <4>1, Products
    <3>3. c.paddr >= map.nbytes
      BY <1>7, <1>8, <2>7
    <3> QED BY <1>6, <1>8, <2>7, <3>1, <3>2, <3>3
  <2>9. CASE map.slots = "previous"
    <3>1. e.paddr = c.size /\ e.size = c.count
      BY <2>6, <2>9 DEF Record
    <3>2. c.size >= map.nbytes /\ c.count >= 2
      BY <1>6, <1>7, <2>7, <3>1
    <3>3. c.size * c.count >= c.size * 2
      BY <2>7, <3>2, Products
    <3>4. PICK w \in Nat, x \in Nat \ {0} : w = c.size * c.count /\ x = c.size
      BY <2>7
    <3>5. w <= map.nbytes /\ x >= map.nbytes /\ w >= x * 2
      BY <2>5, <3>2, <3>3, <3>4
    <3> QED BY <1>8, <3>4, <3>5
  <2>10. Caller(t, map.iova) = "probe"
    BY <1>3, <1>10 DEF ProbeCall, e
  <2> QED BY <1>4, <1>7, <2>8, <2>9, <2>10
<1> QED
  BY <1>5, <1>9, <1>10

\* The probe's calls, read as they are, are those from the first that was not lost.
LEMMA ProbeCalls ==
  ASSUME NEW t, NEW on, NEW lost, Complete(t, on, lost), on, map.slots = "same",
         Caller(t, map.iova) = "probe"
  PROVE  \E k \in 0..Len(mapped) : /\ Calls(t, map.iova, map.nbytes) = SubSeq(mapped, k + 1, Len(mapped))
                                   /\ ~lost => k = 0
<1> USE DEF Complete
<1>1. PICK g : Tracks(g, t, mapped, "same") /\ (~lost => g[0] = 0)
  BY DEF TraceOf
<1>2. t \in Seq(Events)
  BY DEF TraceOf
<1>3. Sorted(t, {"probe"}, InMap) = SubSeq(mapped, g[0] + 1, Len(mapped))
  BY <1>1, <1>2, SortedCalls
<1>4. Calls(t, map.iova, map.nbytes) = Sorted(t, {"probe"}, InMap)
  BY DEF Calls, InMap
<1>5. g[0] \in 0..Len(mapped)
  <2>1. 0 \in 0..Len(t)
    BY <1>2, LenProperties
  <2> QED BY <1>1, <2>1 DEF Tracks
<1> QED
  BY <1>1, <1>3, <1>4, <1>5

\* A verdict on a complete mapping is true of it.
LEMMA FoundTrue ==
  ASSUME ToldApart, NEW t, NEW on, NEW lost, Complete(t, on, lost), Findings(t, out) # None
  PROVE  TrueOf(Findings(t, out))
<1> DEFINE calls == Calls(t, map.iova, map.nbytes)
<1>0. /\ map \in Mappings /\ CallsInv /\ Position = map.nbytes
      /\ out = [misc |-> map.paddr, iova |-> map.iova, nbytes |-> map.nbytes]
  BY DEF Complete
<1>1. /\ map.iova # map.paddr
      /\ Agree(map.iova, map.nbytes, map.paddr, MapEvent(t, map.iova), calls)
      /\ Findings(t, out) = Verdict(map.iova, map.nbytes, calls)
  BY <1>0, FindingsIs
<1>2. on /\ map.slots = "same" /\ Caller(t, map.iova) = "probe"
  BY <1>1, OthersDisagree
<1>3. PICK k \in 0..Len(mapped) : calls = SubSeq(mapped, k + 1, Len(mapped))
  BY <1>2, ProbeCalls
<1>4. calls # << >> /\ calls[1].paddr = map.paddr
  <2>1. map.paddr # None
    <3>1. None \notin Nat
      BY TraceAssumption, Zenon DEF TraceAssumption
    <3> QED BY <1>0, <3>1, MappingIs
  <2> QED BY <1>1, <2>1 DEF Agree
<1> HIDE DEF calls
<1>5. mapped \in Seq(Events) /\ Len(mapped) \in Nat
  BY <1>0, LenProperties DEF CallsInv
<1>6. k + 1 \in 1..Len(mapped)
  <2>1. k < Len(mapped)
    <3> SUFFICES ASSUME k = Len(mapped) PROVE FALSE
      BY <1>5
    <3>1. calls = << >>
      BY <1>3, <1>5, SubSeqEmpty
    <3> QED BY <1>4, <3>1
  <2> QED BY <1>5, <2>1
<1>7. calls[1] = mapped[k + 1]
  <2>1. \A j \in (k + 1)..Len(mapped) : mapped[j] \in Events
    BY <1>5, ElementOfSeq
  <2>2. PICK a \in Int, b \in Int : a = k + 1 /\ b = Len(mapped)
    BY <1>5
  <2>3. \A j \in 1..(b - a + 1) : SubSeq(mapped, a, b)[j] = mapped[a + j - 1]
    BY <2>1, <2>2, SubSeqProperties
  <2>4. 1 \in 1..(b - a + 1) /\ a + 1 - 1 = a
    BY <1>6, <2>2
  <2> QED BY <1>3, <2>2, <2>3, <2>4
<1>8. k = 0
  <2> SUFFICES ASSUME k # 0 PROVE FALSE
    OBVIOUS
  <2>1. 1 \in 1..Len(mapped) /\ 1 < k + 1
    BY <1>6
  <2>2. mapped[1].iova < mapped[k + 1].iova
    BY <1>0, <1>6, <2>1 DEF CallsInv
  <2>3. mapped[1].iova = map.iova
    BY <1>0, <1>5, <2>1, EmptySeq DEF CallsInv
  <2>4. Piece(mapped[k + 1], map)
    BY <1>0, <1>6, PiecesInMap
  <2>5. mapped[k + 1].paddr = map.paddr + (mapped[k + 1].iova - map.iova) /\ mapped[k + 1].iova \in Nat
    BY <1>0, <2>4, PieceIs DEF Piece
  <2>6. map.iova \in Nat /\ map.paddr \in Nat
    BY <1>0, MappingIs
  <2> QED BY <1>4, <1>7, <2>2, <2>3, <2>5, <2>6
<1>9. calls = mapped
  BY <1>3, <1>5, <1>8, SubSeqFull
<1> QED
  BY <1>0, <1>1, <1>9, VerdictOfAll

-----------------------------------------------------------------------------
(* Findings there are *)

\* A call for the mapping is well formed.
LEMMA PieceFormed ==
  ASSUME map \in Mappings, NEW c, Piece(c, map)
  PROVE  WellFormed(c)
<1>1. /\ c.size \in Powers /\ c.size \in Nat \ {0} /\ c.iova \in Nat /\ c.paddr \in Nat
  BY PieceIs
<1>2. c.size >= SmallestPage /\ c.iova % c.size = 0 /\ c.paddr % c.size = 0
  BY DEF Piece
<1>3. c.size <= Alignment(c.iova) /\ c.size <= Alignment(c.paddr)
  BY <1>1, <1>2, AlignmentIs
<1>4. Alignment(c.size) = c.size
  <2>1. PICK a \in Powers : a = Alignment(c.size)
    BY <1>1, AlignmentIs
  <2>2. (c.size) % (c.size) = 0
    BY <1>1
  <2>3. c.size <= a
    BY <1>1, <2>1, <2>2, AlignmentIs
  <2>4. a \in Nat \ {0} /\ a <= a
    BY PowersAre
  <2>5. (c.size) % a = 0
    BY <1>1, <2>1, <2>4, AlignmentIs
  <2>6. a <= c.size
    BY <1>1, <2>4, <2>5
  <2> QED BY <1>1, <2>1, <2>3, <2>4, <2>6
<1>5. Smaller(Alignment(c.iova), Alignment(c.paddr)) >= c.size
  BY <1>3 DEF Smaller
<1> QED
  BY <1>2, <1>4, <1>5 DEF WellFormed

\* The calls of a complete mapping agree with the probe and with its own event.
LEMMA AllAgree ==
  ASSUME map \in Mappings, CallsInv, Position = map.nbytes
  PROVE  Agree(map.iova, map.nbytes, map.paddr, ProbeMap(map), mapped)
<1>1. mapped # << >>
  BY LargestIs
<1>2. mapped \in Seq(Events) /\ Len(mapped) \in Nat /\ 1 \in 1..Len(mapped) /\ DOMAIN mapped = 1..Len(mapped)
  BY <1>1, LenProperties, EmptySeq DEF CallsInv
<1>3. \A i \in DOMAIN mapped : WellFormed(mapped[i])
  BY <1>2, PiecesInMap, PieceFormed
<1>4. /\ map.iova \in Nat /\ map.paddr \in Nat /\ map.nbytes \in Nat
  BY MappingIs
<1>5. ProbeMap(map).size = map.nbytes /\ ProbeMap(map).paddr = map.paddr /\ ProbeMap(map) # None
  <2>1. ProbeMap(map) \in Events
    BY NoCallIs DEF NoCall
  <2>2. None \notin Events
    BY TraceAssumption, Zenon DEF TraceAssumption
  <2> QED BY <2>1, <2>2 DEF ProbeMap, MapRecord
<1>6. Covered(mapped) = map.nbytes
  BY DEF Position
<1>7. mapped[1].paddr = map.paddr
  <2>1. mapped[1].iova = map.iova /\ mapped[1].paddr = map.paddr + (mapped[1].iova - map.iova)
    BY <1>1, <1>2 DEF CallsInv, Piece
  <2> QED BY <1>4, <2>1
<1>8. ASSUME NEW i \in 1..(Len(mapped) - 1) PROVE Follows(mapped[i], mapped[i + 1])
  <2>1. i \in 1..Len(mapped) /\ i + 1 \in 1..Len(mapped)
    BY <1>2
  <2>2. mapped[i + 1].iova = End(mapped[i])
    BY DEF CallsInv
  <2>3. /\ mapped[i].iova \in Nat /\ mapped[i + 1].iova \in Nat
        /\ mapped[i].paddr = map.paddr + (mapped[i].iova - map.iova)
        /\ mapped[i + 1].paddr = map.paddr + (mapped[i + 1].iova - map.iova)
    BY <2>1, PiecesInMap, PieceIs DEF Piece
  <2>4. mapped[i + 1].paddr - mapped[i + 1].iova = mapped[i].paddr - mapped[i].iova
    <3>1. PICK x \in Nat, y \in Nat, a \in Nat, b \in Nat :
            x = mapped[i].iova /\ y = mapped[i + 1].iova /\ a = map.iova /\ b = map.paddr
      BY <1>4, <2>3
    <3>2. (b + (y - a)) - y = (b + (x - a)) - x
      OBVIOUS
    <3> QED BY <2>3, <3>1, <3>2
  <2> QED BY <2>2, <2>4 DEF Follows, End
<1> QED
  BY <1>1, <1>3, <1>5, <1>6, <1>7, <1>8 DEF Agree

\* With nothing lost the first call at the mapping's address that is the probe's is there.
LEMMA CallerIs ==
  ASSUME NEW t, Complete(t, TRUE, FALSE), map.slots = "same"
  PROVE  Caller(t, map.iova) \in {"probe", "other"}
<1> USE DEF Complete
<1>1. t \in Seq(Events) /\ Len(t) \in Nat /\ DOMAIN t = 1..Len(t) /\ \A i \in 1..Len(t) : t[i] \in Events
  BY LenProperties, ElementOfSeq DEF TraceOf
<1>2. PICK g : Tracks(g, t, mapped, "same") /\ g[0] = 0
  BY DEF TraceOf
<1> DEFINE n == Len(t)
           k == Len(mapped)
<1>3. /\ g \in [0..n -> 0..k] /\ g[n] = k
      /\ \A i \in 1..n : IF ProbeCall(t[i]) THEN g[i] = g[i - 1] + 1 /\ t[i] = Seen(mapped[g[i]], "same")
                                            ELSE g[i] = g[i - 1]
  BY <1>2 DEF Tracks
<1>4. mapped \in Seq(Events) /\ k \in Nat /\ k >= 1 /\ 1 \in 1..k
  <2>1. mapped # << >>
    BY LargestIs
  <2> QED BY <2>1, LenProperties, EmptySeq DEF CallsInv
<1> DEFINE B == {i \in 0..n : g[i] >= 1}
<1>5. PICK i \in B : \A j \in B : i <= j
  <2>1. n \in B /\ B \subseteq Nat
    BY <1>1, <1>3, <1>4
  <2> HIDE DEF B
  <2> QED BY <2>1, Least
<1>6. i \in 1..n /\ i - 1 \in 0..n /\ i - 1 \notin B
  BY <1>1, <1>2, <1>5
<1>7. g[i - 1] = 0 /\ g[i] >= 1
  BY <1>3, <1>5, <1>6
<1>8. g[i] = 1 /\ t[i] = Seen(mapped[1], "same")
  BY <1>3, <1>6, <1>7
<1>9. Piece(mapped[1], map) /\ mapped[1].iova = map.iova
  BY <1>4, PiecesInMap, EmptySeq DEF CallsInv
<1>10. t[i] = mapped[1] /\ t[i].at = "call" /\ t[i].iova = map.iova
  BY <1>8, <1>9, SameSeen DEF Piece
<1> DEFINE hits == {j \in DOMAIN t : t[j].at = "call" /\ t[j].iova = map.iova}
<1>11. i \in hits /\ hits \subseteq Nat /\ hits # {}
  BY <1>1, <1>6, <1>10
<1>12. Min(hits) \in hits
  <2> HIDE DEF hits
  <2> QED BY <1>11, MinIs
<1>13. Caller(t, map.iova) = t[Min(hits)].by
  BY <1>11 DEF Caller
<1>14. t[Min(hits)] \in Events
  BY <1>1, <1>12
<1> HIDE DEF hits
<1> QED
  BY <1>13, <1>14, EventIs

\* The first event of the mapping as a whole is the probe's own.
LEMMA OwnEvent ==
  ASSUME NEW t, NEW on, NEW lost, Complete(t, on, lost), Caller(t, map.iova) = "probe",
         \E i \in 1..Len(t) : t[i] = ProbeMap(map)
  PROVE  MapEvent(t, map.iova) = ProbeMap(map)
<1> USE DEF Complete
<1>1. t \in Seq(Events) /\ Len(t) \in Nat /\ DOMAIN t = 1..Len(t)
  BY LenProperties DEF TraceOf
<1>2. PICK i \in 1..Len(t) : t[i] = ProbeMap(map)
  OBVIOUS
<1> DEFINE own == {j \in DOMAIN t : t[j].by = "probe" /\ t[j].at = "map" /\ t[j].iova = map.iova}
<1>3. i \in own /\ own \subseteq Nat /\ own # {}
  <2>1. ProbeMap(map).by = "probe" /\ ProbeMap(map).at = "map" /\ ProbeMap(map).iova = map.iova
    BY DEF ProbeMap, MapRecord
  <2> QED BY <1>1, <1>2, <2>1
<1>4. MapEvent(t, map.iova) = t[Min(own)]
  BY <1>3 DEF MapEvent
<1>5. Min(own) \in own
  <2> HIDE DEF own
  <2> QED BY <1>3, MinIs
<1>6. PICK j \in 1..Len(t) : j = Min(own) /\ t[j].by = "probe" /\ t[j].at = "map"
  BY <1>1, <1>5
<1> HIDE DEF own
<1>7. NoCall(t[j], map)
  BY <1>6 DEF TraceOf, ProbeCall
<1>8. ~OtherMap(t[j])
  BY <1>6 DEF OtherMap
<1>9. ~OtherCall(t[j], map)
  <2> SUFFICES ASSUME OtherCall(t[j], map) PROVE FALSE
    OBVIOUS
  <2>1. PICK p \in Others, size \in map.domain, count \in Nat \ {0} :
          t[j] = Record("other", map.slots, map.iova, p, size, count)
    BY DEF OtherCall
  <2>2. t[j].by = "other"
    BY <2>1 DEF Record
  <2> QED BY <1>6, <2>2
<1> QED
  BY <1>4, <1>6, <1>7, <1>8, <1>9 DEF NoCall

\* Of a complete mapping, with nothing lost, there is a verdict, unless another
\* process was the first to call at its address.
LEMMA FoundAlways ==
  ASSUME NEW t, Complete(t, TRUE, FALSE), map.slots = "same", map.iova # map.paddr,
         Caller(t, map.iova) # "other", \E i \in 1..Len(t) : t[i] = ProbeMap(map)
  PROVE  Findings(t, out) # None
<1>0. /\ map \in Mappings /\ CallsInv /\ Position = map.nbytes
      /\ out = [misc |-> map.paddr, iova |-> map.iova, nbytes |-> map.nbytes]
  BY DEF Complete
<1>1. Caller(t, map.iova) = "probe"
  BY CallerIs
<1>2. MapEvent(t, map.iova) = ProbeMap(map)
  BY <1>1, OwnEvent
<1>3. Calls(t, map.iova, map.nbytes) = mapped
  <2>1. PICK k \in 0..Len(mapped) : /\ Calls(t, map.iova, map.nbytes) = SubSeq(mapped, k + 1, Len(mapped))
                                    /\ k = 0
    BY <1>1, ProbeCalls
  <2>2. mapped \in Seq(Events)
    BY <1>0 DEF CallsInv
  <2> QED BY <2>1, <2>2, SubSeqFull
<1>4. Findings(t, out) = Verdict(map.iova, map.nbytes, mapped)
  BY <1>0, <1>2, <1>3, AllAgree, FindingsIs
<1>5. Findings(t, out) \in Verdicts
  BY <1>0, <1>4, VerdictIs
<1>6. None \notin Verdicts
  BY TraceAssumption, Zenon DEF TraceAssumption
<1> QED
  BY <1>5, <1>6

-----------------------------------------------------------------------------
(* Verdicts and alarms *)

\* Symbols that the loop has passed have their kprobe enabled, unless something
\* failed, and the run's kprobes, and the op of the mapping, are of this kernel
EnabledInv ==
  /\ kprobes \subseteq symbols
  /\ pc \in {"append", "enable"} => MAP_PAGES[fmt] \in symbols
  /\ pc \in During => map.op \in symbols \/ symbols = {}
  /\ faults = 0 /\ pc \in {"register", "append", "enable"} \cup During =>
       \A i \in 1..5 : MAP_PAGES[i] \in symbols =>
         MAP_PAGES[i] \in enabled \/ (i >= fmt /\ pc \notin During)

\* Each step of the loop over MAP_PAGES, and the others, keep this.
LEMMA EnabledStep ==
  ASSUME EnabledInv, TypeOK, LoopInv, [Next]_vars
  PROVE  EnabledInv'
<1> USE MapPagesDomain DEF EnabledInv, Goto, Ends, Strikes, During
<1>1. CASE CheckTarget \/ Mktemp \/ PutSource \/ Compile \/ Mkdir
  BY <1>1 DEF CheckTarget, Mktemp, PutSource, Compile, Mkdir
<1>2. CASE Setup
  BY <1>2 DEF Setup, LoopInv
<1>3. CASE Register
  BY <1>3 DEF Register, TypeOK
<1>4. CASE AppendName
  BY <1>4 DEF AppendName
<1>5. CASE Enable
  BY <1>5 DEF Enable, TypeOK
<1>6. CASE StartProbe
  <2>1. /\ pc = "register" /\ pc' = "mapping" /\ fmt \notin 1..5
        /\ UNCHANGED <<symbols, enabled, kprobes, fmt, faults>>
    BY <1>6 DEF StartProbe
  <2>2. map'.op \in symbols \/ symbols = {}
    <3>1. PICK i \in Iovas, p \in Paddrs, n \in Sizes, d \in Domains, s \in Slots, op \in symbols \cup {None} :
            /\ op = None => symbols = {}
            /\ map' = [iova |-> i, paddr |-> p, nbytes |-> n, domain |-> d, slots |-> s, op |-> op]
      BY <1>6 DEF StartProbe
    <3> QED BY <3>1
  <2>3. \A i \in 1..5 : ~(i >= fmt)
    BY <2>1 DEF TypeOK
  <2> QED BY <2>1, <2>2, <2>3
<1>7. CASE MapPages \/ ProbePasses \/ ProbeFails \/ OtherMaps \/ Overwritten \/ ReadTrace \/ ReadFails
  <2>1. /\ pc \in During /\ pc' \in During
        /\ UNCHANGED <<symbols, enabled, kprobes, map>> /\ (faults' = 0 => faults = 0)
    <3>1. CASE MapPages \/ ProbePasses \/ ProbeFails \/ OtherMaps
      BY <3>1 DEF MapPages, ProbePasses, ProbeFails, OtherMaps
    <3>2. CASE Overwritten \/ ReadTrace \/ ReadFails
      BY <3>2 DEF Overwritten, ReadTrace, ReadFails, TypeOK
    <3> QED BY <1>7, <3>1, <3>2
  <2> QED BY <2>1
<1>8. CASE Conclude \/ Rmdir \/ CleanupProbe \/ StagingFails \/ SetupFails \/ Interrupt
  <2>1. /\ pc' \notin {"register", "append", "enable"} \cup During
        /\ UNCHANGED <<symbols, kprobes>>
    <3>1. CASE Conclude \/ Rmdir \/ CleanupProbe
      BY <3>1 DEF Conclude, Rmdir, CleanupProbe
    <3>2. CASE StagingFails \/ SetupFails \/ Interrupt
      BY <3>2 DEF StagingFails, SetupFails, Interrupt
    <3> QED BY <1>8, <3>1, <3>2
  <2> QED BY <2>1
<1>9. CASE RemoveKprobe \/ RemovalFails
  <2>1. CASE RemoveKprobe
    BY <2>1 DEF RemoveKprobe
  <2>2. CASE RemovalFails
    BY <2>2 DEF RemovalFails
  <2> QED BY <1>9, <2>1, <2>2
<1>10. CASE KprobeFails
  <2>1. faults' # 0 /\ pc' = "register" /\ UNCHANGED <<symbols, kprobes>>
    BY <1>10 DEF KprobeFails, TypeOK
  <2> QED BY <2>1
<1>11. CASE UNCHANGED vars
  BY <1>11 DEF vars
<1> QED
  BY <1>1, <1>2, <1>3, <1>4, <1>5, <1>6, <1>7, <1>8, <1>9, <1>10, <1>11 DEF Next

\* What is recorded is of the mapping, at every step.
LEMMA RecordedStep ==
  ASSUME RecordedInv, TypeOK, PassedInv, [Next]_vars
  PROVE  RecordedInv'
  BY RecordedStart, RecordedMap, RecordedEnd, RecordedOther, RecordedLost, RecordedRead,
     RecordedRest DEF Next

\* Both hold throughout a run.
LEMMA RecordedAlways == Spec => [](TracedInv /\ RecordedInv /\ EnabledInv)
<1>1. Init => RecordedInv /\ EnabledInv
  BY DEF Init, RecordedInv, EnabledInv, Early, During
<1>2. TracedInv /\ RecordedInv /\ EnabledInv /\ [Next]_vars => RecordedInv' /\ EnabledInv'
  BY RecordedStep, EnabledStep DEF TracedInv
<1> QED
  BY <1>1, <1>2, TracedAlways, PTL DEF Spec

\* What the order of the conditions of result() comes to.
LEMMA ResultIs ==
  ASSUME NEW v
  PROVE  /\ probe = "passed" /\ read = None => Result(v) = "trace"
         /\ Result(v) = "disagree" => probe \notin {"timeout", "failed"}
         /\ Result(v) = "disagree" => kprobes # {} /\ v = None
<1>1. CASE probe = "timeout"
  <2>1. Result(v) = "timeout"
    BY <1>1 DEF Result
  <2> QED BY <1>1, <2>1
<1>2. CASE probe = "failed"
  <2>1. Result(v) = "probe"
    BY <1>2 DEF Result
  <2> QED BY <1>2, <2>1
<1>3. CASE probe \notin {"timeout", "failed"} /\ read = None
  <2>1. Result(v) = "trace"
    BY <1>3 DEF Result
  <2> QED BY <1>3, <2>1
<1>4. CASE probe \notin {"timeout", "failed"} /\ read # None /\ kprobes # {} /\ v = None
  BY <1>4
<1>5. CASE probe \notin {"timeout", "failed"} /\ read # None /\ ~(kprobes # {} /\ v = None)
  <2>1. Result(v) = "ok"
    BY <1>5 DEF Result
  <2> QED BY <1>5, <2>1
<1> QED
  BY <1>1, <1>2, <1>3, <1>4, <1>5

\* A verdict is given of a complete mapping.
LEMMA ConcludedOf ==
  ASSUME TracedInv, RecordedInv, Conclude, err' # "trace", probe = "passed"
  PROVE  /\ read = trace /\ read # None
         /\ Complete(read, map.op \in enabled, faults > 0)
         /\ found' = IF kprobes = {} THEN None ELSE Findings(read, out)
<1>1. pc = "findings" /\ err' = Result(found')
  BY DEF Conclude, Goto, Ends
<1>2. /\ map \in Mappings /\ CallsInv /\ TraceOf(trace, mapped, map, map.op \in enabled, faults > 0)
      /\ read = trace \/ read = None
      /\ out = [misc |-> map.paddr, iova |-> map.iova, nbytes |-> map.nbytes]
  BY <1>1 DEF RecordedInv, During
<1>3. read # None
  BY <1>1, ResultIs
<1>4. Position = map.nbytes
  BY DEF TracedInv, PassedInv, Position
<1> QED
  BY <1>2, <1>3, <1>4 DEF Complete, Conclude

\* The verdict a run ends with is true when it is given, and stays so.
TruthInv == err = "ok" /\ found # None => TrueOf(found)

(* parse_records(), mapping_findings() and verdict(): whoever else mapped at  *)
(* the same address, whatever the ring buffer lost and wherever the kernel    *)
(* keeps the op's arguments, what a run says of the mapping is true of it.    *)
THEOREM VerdictsTrue == ASSUME ToldApart PROVE Spec => []VerdictTrue
<1>1. Init => TruthInv
  BY DEF Init, TruthInv
<1>2. TracedInv /\ RecordedInv /\ TruthInv /\ [Next]_vars => TruthInv'
  <2> SUFFICES ASSUME TracedInv, RecordedInv, TruthInv, [Next]_vars, err' = "ok", found' # None
               PROVE  TrueOf(found)'
    BY DEF TruthInv
  <2>1. CASE Conclude
    <3>1. pc = "findings" /\ err' = Result(found') /\ map' = map /\ mapped' = mapped
      BY <2>1 DEF Conclude, Goto, Ends
    <3>2. probe = "passed"
      BY <3>1 DEF Result, TracedInv, PassedInv
    <3>3. found' = Findings(read, out) /\ Complete(read, map.op \in enabled, faults > 0)
      BY <2>1, <3>2, ConcludedOf
    <3>4. TrueOf(found')
      BY <3>3, FoundTrue
    <3> QED BY <3>1, <3>4 DEF TrueOf
  <2>2. CASE ~Conclude
    <3>1. err = "ok" /\ UNCHANGED <<map, mapped, found>>
      <4> USE DEF Goto, Ends, Strikes
      <4>1. err = "ok" => pc \in {"rmdir", "remove", "cleanup", "done"}
        BY DEF TracedInv, OkInv
      <4>2. CASE CheckTarget \/ Mktemp \/ PutSource \/ Compile \/ Mkdir \/ Setup \/ Register
                 \/ AppendName \/ Enable
        BY <4>1, <4>2 DEF CheckTarget, Mktemp, PutSource, Compile, Mkdir, Setup, Register,
           AppendName, Enable
      <4>3. CASE StartProbe \/ MapPages \/ ProbePasses \/ ProbeFails \/ OtherMaps \/ Overwritten
                 \/ ReadTrace
        BY <4>1, <4>3 DEF StartProbe, MapPages, ProbePasses, ProbeFails, OtherMaps, Overwritten,
           ReadTrace
      <4>4. CASE Rmdir \/ RemoveKprobe \/ CleanupProbe
        BY <4>4 DEF Rmdir, RemoveKprobe, CleanupProbe
      <4>5. CASE StagingFails \/ SetupFails \/ KprobeFails \/ ReadFails \/ RemovalFails \/ Interrupt
        BY <4>1, <4>5 DEF StagingFails, SetupFails, KprobeFails, ReadFails, RemovalFails, Interrupt
      <4>6. CASE UNCHANGED vars
        BY <4>6 DEF vars
      <4> QED BY <2>2, <4>2, <4>3, <4>4, <4>5, <4>6 DEF Next
    <3>2. TrueOf(found)
      BY <3>1 DEF TruthInv
    <3> QED BY <3>1, <3>2 DEF TrueOf
  <2> QED BY <2>1, <2>2
<1>3. TruthInv => VerdictTrue
  BY DEF TruthInv, VerdictTrue, TrueOf
<1> QED
  BY <1>1, <1>2, <1>3, RecordedAlways, PTL DEF Spec

\* No buffer is mapped at an IOVA equal to its address
Remapped == Iovas \cap Paddrs = {}

\* Only a run whose findings are in doubt is failed by them
AlarmInv ==
  err = "disagree" =>
    /\ pc \in {"rmdir", "remove", "cleanup", "done"}
    /\ faults > 0 \/ map.slots # "same" \/ Caller(read, map.iova) = "other"

(* result(): when no step has failed, no event was lost and the kernel's      *)
(* arguments are where the trace expects them, the observers agree, unless    *)
(* another process was the first to call at the probe's address.              *)
THEOREM NoFalseAlarms == ASSUME Remapped PROVE Spec => []NoFalseAlarm
<1>1. Init => AlarmInv
  BY DEF Init, AlarmInv
<1>2. TracedInv /\ RecordedInv /\ EnabledInv /\ AlarmInv /\ [Next]_vars => AlarmInv'
  <2> SUFFICES ASSUME TracedInv, RecordedInv, EnabledInv, AlarmInv, [Next]_vars, err' = "disagree"
               PROVE  /\ pc' \in {"rmdir", "remove", "cleanup", "done"}
                      /\ (faults > 0 \/ map.slots # "same" \/ Caller(read, map.iova) = "other")'
    BY DEF AlarmInv
  <2>1. CASE Conclude
    <3>1. /\ pc = "findings" /\ pc' = "rmdir" /\ err' = Result(found')
          /\ map' = map /\ read' = read /\ faults' = faults
      BY <2>1 DEF Conclude, Goto, Ends
    <3>2. probe = "passed" /\ kprobes # {} /\ found' = None
      <4>1. probe \notin {"timeout", "failed"} /\ kprobes # {} /\ found' = None
        BY <3>1, ResultIs
      <4> QED BY <3>1, <4>1 DEF TracedInv, PassedInv
    <3>3. /\ read = trace /\ found' = Findings(read, out)
          /\ Complete(read, map.op \in enabled, faults > 0)
      BY <2>1, <3>2, ConcludedOf
    <3> SUFFICES ASSUME faults = 0, map.slots = "same", Caller(read, map.iova) # "other"
                 PROVE  FALSE
      BY <3>1 DEF TracedInv, TypeOK
    <3>4. map.op \in enabled
      <4>1. map.op \in symbols /\ symbols \subseteq Formats
        BY <3>1, <3>2 DEF EnabledInv, During, TracedInv, TypeOK
      <4>2. PICK i \in 1..5 : map.op = MAP_PAGES[i]
        BY <4>1, MapPagesDomain DEF Formats
      <4> QED BY <3>1, <4>1, <4>2 DEF EnabledInv, During
    <3>5. ~(faults > 0)
      OBVIOUS
    <3>6. Complete(read, TRUE, FALSE)
      <4>1. (map.op \in enabled) = TRUE /\ (faults > 0) = FALSE
        BY <3>4, <3>5
      <4> QED BY <3>3, <4>1
    <3>7. map.iova # map.paddr
      <4>1. map.iova \in Iovas /\ map.paddr \in Paddrs
        BY <3>6 DEF Complete, Mappings
      <4> QED BY <4>1 DEF Remapped
    <3>8. \E i \in 1..Len(read) : read[i] = ProbeMap(map)
      BY <3>1, <3>2, <3>3 DEF RecordedInv, During
    <3> QED BY <3>2, <3>3, <3>6, <3>7, <3>8, FoundAlways
  <2>2. CASE ~Conclude
    <3>1. /\ err = "disagree" /\ UNCHANGED <<map, read>> /\ faults' \in {faults, faults + 1}
          /\ pc' \in {"rmdir", "remove", "cleanup", "done"}
      <4> USE DEF Goto, Ends, Strikes
      <4>1. /\ err = "disagree" => pc \in {"rmdir", "remove", "cleanup", "done"}
            /\ faults \in Nat
        BY DEF AlarmInv, TracedInv, TypeOK
      <4>2. CASE CheckTarget \/ Mktemp \/ PutSource \/ Compile \/ Mkdir \/ Setup \/ Register
                 \/ AppendName \/ Enable
        BY <4>1, <4>2 DEF CheckTarget, Mktemp, PutSource, Compile, Mkdir, Setup, Register,
           AppendName, Enable
      <4>3. CASE StartProbe \/ MapPages \/ ProbePasses \/ ProbeFails \/ OtherMaps \/ Overwritten
                 \/ ReadTrace
        BY <4>1, <4>3 DEF StartProbe, MapPages, ProbePasses, ProbeFails, OtherMaps, Overwritten,
           ReadTrace
      <4>4. CASE Rmdir \/ RemoveKprobe \/ CleanupProbe
        BY <4>1, <4>4 DEF Rmdir, RemoveKprobe, CleanupProbe
      <4>5. CASE StagingFails \/ SetupFails \/ KprobeFails
        BY <4>1, <4>5 DEF StagingFails, SetupFails, KprobeFails
      <4>6. CASE ReadFails \/ RemovalFails \/ Interrupt
        BY <4>1, <4>6 DEF ReadFails, RemovalFails, Interrupt
      <4>7. CASE UNCHANGED vars
        BY <4>1, <4>7 DEF vars
      <4> QED BY <2>2, <4>2, <4>3, <4>4, <4>5, <4>6, <4>7 DEF Next
    <3>2. faults > 0 => faults' > 0
      <4>1. faults \in Nat
        BY DEF TracedInv, TypeOK
      <4> QED BY <3>1, <4>1
    <3> QED BY <3>1, <3>2 DEF AlarmInv
  <2> QED BY <2>1, <2>2
<1>3. AlarmInv => NoFalseAlarm
  BY DEF AlarmInv, NoFalseAlarm
<1> QED
  BY <1>1, <1>2, <1>3, RecordedAlways, PTL DEF Spec
=============================================================================
