------------------------------ MODULE BenchRun ------------------------------
(***************************************************************************)
(* The benchmark runner: scripts/bench_runall.py takes a matrix of tests,  *)
(* sets the target's SMT, turbo and CPU frequencies for each, and has      *)
(* scripts/bench_helper.py measure its repetitions with the frequency      *)
(* logger (cpu_freq_helper.py) and dcgmi (dcgm_helper.py) running beside.  *)
(* Results persist in results_dir, where a later runner finds them;        *)
(* scripts/bench_combine.py makes the report of them.                      *)
(*                                                                         *)
(* What the target is set to outlives a runner, and a runner that is       *)
(* killed leaves its monitors running.  A target that restarts comes back, *)
(* with the firmware's settings and an empty /tmp (the workflows are for   *)
(* Ubuntu 26.04, where that is a tmpfs), while the runner goes on with     *)
(* what it had set.                                                        *)
(***************************************************************************)
EXTENDS Integers, FiniteSets, Sequences

CONSTANTS
  Cores,       \* the target's, of two hardware threads each
  Matrices,    \* what a workflow may ask for
  Repetitions,
  Dcgm,        \* the backend is upcie-cuda
  NamesRw,     \* the tool is fio_xnvme
  MaxRuns,     \* bound: runs of the workflow
  MaxFaults    \* bound: faults

\* The "with" of a step, as far as the steps differ here
Args == [hyperthreads : SUBSET {0, 1}, turbo : Seq({0, 1}), smt : Seq({0, 1}),
         stress : Seq({0, 1}), numcpus_range : Nat \X Nat, cpu_freqs : Seq(STRING), rws : Seq(STRING)]

ASSUME BenchAssumption ==
  /\ Cores \in Nat \ {0} /\ Repetitions \in Nat \ {0}
  /\ Matrices \subseteq Args
  /\ Dcgm \in BOOLEAN /\ NamesRw \in BOOLEAN
  /\ MaxRuns \in Nat /\ MaxFaults \in Nat

VARIABLES
  \* the target
  smt, turbo, governor,  \* governor[c] is what CPU c is set to
  passed,                \* the CPUs that could not be set, which the loop passed over (history)
  tmp,                   \* /tmp has what this runner has put there
  loggers, dcgmis,       \* the monitors that run: the runner's own, or left by another
  log, dcgmOut,          \* the samples in their files: see Samples
  checkout,              \* the build of the software that is measured
  \* the initiator's files
  results,               \* results_dir
  report,                \* benchmark-results.json
  \* the runner
  pc, outcome, tests, at, rep,
  link,                  \* its connection to the target
  knownSmt, knownTurbo,  \* CpuFrequencyHelper._smt, ._turbo: what it has set, if anything
  thrsib,                \* BenchHelper.use_thrsib
  supported,             \* CpuFrequencyHelper.cpu_control_supported
  pairs,                 \* BenchHelper.cpu_pairs
  logging, monitoring,   \* ._is_running of the two helpers
  versions,              \* BenchHelper.versions: the stamp of the checkout, if it could be read
  got,                   \* what run_benchmark has of this measurement
  \* bounds
  runs, faults

settings == <<smt, turbo, governor, passed>>
monitors == <<loggers, dcgmis, log, dcgmOut>>
files    == <<results, report>>
place    == <<tests, at, rep>>
helpers  == <<knownSmt, knownTurbo, thrsib, supported, pairs>>
flags    == <<logging, monitoring>>
reach    == <<link, tmp>>
stamps   == <<checkout, versions>>
vars == <<settings, monitors, files, pc, outcome, place, reach, helpers, flags, stamps, got, runs,
          faults>>

\* What there is of a result that has not been written
Torn == << >>

Running == outcome = "running"

-----------------------------------------------------------------------------
(* CPUs: thread c and thread c + Cores are of one core *)

CPUs    == 0..(2 * Cores - 1)
Core(c) == c % Cores
Online  == { c \in CPUs : smt = 1 \/ c < Cores }

\* cpu_masks[n] is the first n of the CPUs that lscpu had, in this order
Before(c, d) ==
  IF thrsib = 1 THEN Core(c) < Core(d) \/ (Core(c) = Core(d) /\ c < d) ELSE c < d

Mask(n) == { d \in pairs : Cardinality({ c \in pairs : Before(c, d) }) < n }

-----------------------------------------------------------------------------
(* Tests *)

\* Each end, from 1 and inclusive, is cut to the list by itself
CreateRange(ends, n) ==
  << IF ends[1] \in 1..n THEN ends[1] ELSE 1, IF ends[2] \in 1..n THEN ends[2] ELSE n >>

\* The k-th value of a loop over seq around inner iterations of others
Nth(seq, k, inner) == seq[(((k - 1) \div inner) % Len(seq)) + 1]

\* itertools.product, with the numbers of CPUs lo..hi
Product(a, ht, lo, hi) ==
  LET rw == Len(a.rws)
      cpus == (hi - lo + 1) * rw
      freq == Len(a.cpu_freqs) * cpus
      st == Len(a.stress) * freq
      sm == Len(a.smt) * st
  IN  [ k \in 1..(Len(a.turbo) * sm) |->
          [ht |-> ht, tu |-> Nth(a.turbo, k, sm), sm |-> Nth(a.smt, k, st),
           st |-> Nth(a.stress, k, freq), freq |-> Nth(a.cpu_freqs, k, cpus),
           cpus |-> Nth([ i \in 1..(hi - lo + 1) |-> lo + i - 1 ], k, rw),
           rw |-> Nth(a.rws, k, 1)] ]

\* A range of cores is one of twice as many hyperthreads, and of those tests the
\* ones without SMT are dropped
Tests(a, lo, hi) ==
  LET on == [ i \in 1..Cardinality({ j \in DOMAIN a.smt : a.smt[j] = 1 }) |-> 1 ]
      of(ht) == IF ht \notin a.hyperthreads \/ lo > hi THEN << >>
                ELSE IF ht = 0 THEN Product(a, 0, lo, hi)
                ELSE Product([a EXCEPT !.smt = on], 1, 2 * lo - 1, 2 * hi)
  IN  of(0) \o of(1)

Test == tests[at]

\* Mutant of Filename: the number of CPUs is not in the name either
FilenameOfSettings(t, i) == [ht |-> t.ht, tu |-> t.tu, sm |-> t.sm, st |-> t.st,
                             freq |-> t.freq, cpus |-> 1, rw |-> "", rep |-> i]

\* The I/O pattern is in the name of fio_xnvme's results only
Filename(t, i) == [ht |-> t.ht, tu |-> t.tu, sm |-> t.sm, st |-> t.st, freq |-> t.freq,
                   cpus |-> t.cpus, rw |-> IF NamesRw THEN t.rw ELSE "", rep |-> i]

-----------------------------------------------------------------------------
(* The runner *)

\* The steps that run no command: on files of the initiator, or with nothing to set
Quiet == \/ pc \in {"exists", "create", "dump", "combine"}
         \/ pc = "smt" /\ knownSmt = {Test.sm}
         \/ pc = "turbo" /\ knownTurbo = {Test.tu}
         \/ pc = "siblings" /\ thrsib = Test.ht
         \/ pc \in {"dcgm", "dabort"} /\ ~Dcgm

At(step) == Running /\ pc = step /\ (link \/ Quiet)

Strikes == faults < MaxFaults /\ faults' = faults + 1

Goes(step) == pc' = step /\ UNCHANGED <<outcome, reach, runs>>

Fails == outcome' = "failed" /\ UNCHANGED <<pc, reach, runs>>

\* Mutant of SettingAfter: the masks stay those of the first CPUs lscpu had
SettingAfterMasksKept(step) == IF step = "smt" THEN "turbo" ELSE "exists"

SettingAfter(step) ==
  CASE step = "smt" -> "turbo" [] step = "turbo" -> "siblings" [] OTHER -> "exists"

\* The stamp of a checkout names its commit, however much else git says of it.
\* Without one the results carry none
TargetVersions ==
  \/ versions' = {checkout} /\ UNCHANGED faults
  \/ versions' = {} /\ Strikes

\* BenchHelper() reads the stamp and makes the first masks, and main() the tests,
\* of the CPUs that are online now; without any test print_progress divides by zero
Begin ==
  /\ ~Running /\ runs < MaxRuns /\ runs' = runs + 1
  /\ \E a \in Matrices :
       LET range == CreateRange(a.numcpus_range, Cardinality(Online))
       IN  tests' = Tests(a, range[1], range[2])
  /\ outcome' = IF tests' = << >> THEN "failed" ELSE "running"
  /\ pc' = "smt" /\ at' = 1 /\ rep' = 0 /\ link' = TRUE /\ tmp' = TRUE
  /\ knownSmt' = {} /\ knownTurbo' = {} /\ thrsib' = 0 /\ supported' = TRUE /\ pairs' = Online
  /\ logging' = FALSE /\ monitoring' = FALSE /\ got' = Torn /\ report' = << >>
  /\ loggers' = { "left" : x \in loggers } /\ dcgmis' = { "left" : x \in dcgmis }
  /\ TargetVersions
  /\ UNCHANGED <<settings, log, dcgmOut, results, checkout>>

ToggleSmt ==
  /\ At("smt")
  /\ \/ /\ smt' = (IF knownSmt = {Test.sm} THEN smt ELSE Test.sm)
        /\ knownSmt' = {Test.sm}
        /\ Goes(SettingAfter("smt")) /\ UNCHANGED faults
     \/ knownSmt # {Test.sm} /\ Strikes /\ Fails /\ UNCHANGED <<smt, knownSmt>>
  /\ UNCHANGED <<stamps, turbo, governor, passed, monitors, files, place, knownTurbo, thrsib,
                 supported, pairs, flags, got>>

\* Mutant of Unsupported: a setting that failed is only warned of
UnsupportedOnlyWarned == UNCHANGED supported

\* A setting that fails does not stop the runner, and is not tried again
Unsupported == supported' = FALSE

ToggleTurbo ==
  /\ At("turbo")
  /\ \/ /\ turbo' = (IF knownTurbo = {Test.tu} THEN turbo ELSE Test.tu)
        /\ UNCHANGED <<supported, faults>>
     \/ knownTurbo # {Test.tu} /\ Strikes /\ Unsupported /\ UNCHANGED turbo
  /\ knownTurbo' = {Test.tu}
  /\ Goes(SettingAfter("turbo"))
  /\ UNCHANGED <<stamps, smt, governor, passed, monitors, files, place, knownSmt, thrsib, pairs,
                 flags, got>>

UseThreadSiblings ==
  /\ At("siblings")
  /\ \/ /\ pairs' = (IF thrsib = Test.ht THEN pairs ELSE Online)
        /\ thrsib' = Test.ht
        /\ Goes(SettingAfter("siblings")) /\ UNCHANGED faults
     \/ thrsib # Test.ht /\ Strikes /\ Fails /\ UNCHANGED <<pairs, thrsib>>
  /\ UNCHANGED <<stamps, settings, monitors, files, place, knownSmt, knownTurbo, supported, flags,
                 got>>

\* Mutant of NextRep: there is one repetition too many
NextRepInclusive ==
  \/ rep < Repetitions /\ rep' = rep + 1 /\ Goes("exists") /\ UNCHANGED <<tests, at>>
  \/ /\ rep = Repetitions /\ rep' = 0 /\ UNCHANGED tests
     /\ IF at < Len(tests) THEN at' = at + 1 /\ Goes("smt") ELSE Goes("combine") /\ UNCHANGED at

NextRep ==
  \/ rep + 1 < Repetitions /\ rep' = rep + 1 /\ Goes("exists") /\ UNCHANGED <<tests, at>>
  \/ /\ rep + 1 = Repetitions /\ rep' = 0 /\ UNCHANGED tests
     /\ IF at < Len(tests) THEN at' = at + 1 /\ Goes("smt") ELSE Goes("combine") /\ UNCHANGED at

Exists == Filename(Test, rep) \in DOMAIN results

\* A result that is there is not measured again, and one that is torn cannot be
\* read; cpu_masks may not have the number of CPUs
FindResult ==
  /\ At("exists")
  /\ \/ Exists /\ results[Filename(Test, rep)] # Torn /\ NextRep
     \/ Exists /\ results[Filename(Test, rep)] = Torn /\ Fails /\ UNCHANGED place
     \/ ~Exists /\ Test.cpus \in 1..Cardinality(pairs) /\ Goes("freq") /\ UNCHANGED place
     \/ ~Exists /\ Test.cpus > Cardinality(pairs) /\ Fails /\ UNCHANGED place
  /\ UNCHANGED <<stamps, settings, monitors, files, helpers, flags, got, faults>>

Last(cpus) == CHOOSE c \in cpus : \A d \in cpus : d <= c

\* The frequencies of all CPUs are freed and those of the mask set, one after the
\* other: the status of the loop is that of its last command
SetCpuFreq ==
  /\ At("freq")
  /\ LET mask == Mask(Test.cpus)
     IN  \E freed \in BOOLEAN, set \in SUBSET mask :
           /\ governor' = [ c \in CPUs |->
                IF c \notin Online THEN governor[c]
                ELSE IF c \in set THEN Test.freq
                ELSE IF freed THEN "ondemand" ELSE governor[c] ]
           /\ passed' = (mask \ set) \ {Last(mask)}
           /\ IF freed /\ Last(mask) \in set THEN UNCHANGED supported ELSE Unsupported
           /\ IF freed /\ set = mask THEN UNCHANGED faults ELSE Strikes
  /\ Goes("start")
  /\ UNCHANGED <<stamps, smt, turbo, monitors, files, place, knownSmt, knownTurbo, thrsib, pairs,
                 flags, got>>

\* Mutant of Removed: a monitor appends to what is there
NotRemoved(file) == { "other" : sample \in file }

\* rm -f of a monitor's file, before it starts.  No logger that runs is stopped then
Removed(file) == {}

StartLogging ==
  /\ At("start")
  /\ \/ logging /\ Goes("dcgm") /\ UNCHANGED <<loggers, log, logging, faults>>
     \/ /\ ~logging /\ tmp /\ logging' = TRUE /\ Goes("dcgm") /\ UNCHANGED faults
        /\ loggers' = loggers \cup {"own"} /\ log' = Removed(log)
     \/ ~logging /\ tmp /\ Strikes /\ Fails /\ UNCHANGED <<loggers, log, logging>>
     \/ ~logging /\ ~tmp /\ Fails /\ UNCHANGED <<loggers, log, logging, faults>>
  /\ UNCHANGED <<stamps, settings, dcgmis, dcgmOut, files, place, helpers, monitoring, got>>

StartDcgm ==
  /\ At("dcgm")
  /\ \/ (~Dcgm \/ monitoring) /\ Goes("bench") /\ UNCHANGED <<monitors, flags, faults>>
     \/ /\ Dcgm /\ ~monitoring /\ monitoring' = TRUE /\ Goes("bench")
        /\ dcgmis' = dcgmis \cup {"own"} /\ dcgmOut' = Removed(dcgmOut)
        /\ UNCHANGED <<loggers, log, logging, faults>>
     \/ /\ Dcgm /\ ~monitoring /\ Strikes /\ Fails
        /\ loggers' = {} /\ logging' = FALSE /\ dcgmOut' = {}
        /\ UNCHANGED <<dcgmis, log, monitoring>>
  /\ UNCHANGED <<stamps, settings, files, place, helpers, got>>

\* Mutant of BenchFails: the monitors are left running
BenchFailsAtOnce == Fails

\* abort_monitors
BenchFails == Goes("abort")

\* The other CPUs, as the code counts them: up to the number of CPUs lscpu had
Stressed == IF Test.st = 0 THEN {} ELSE (0..(Cardinality(pairs) - 1)) \ Mask(Test.cpus)

\* With others stressed the command ends in `wait', and with the status of that: a
\* benchmark that failed is noticed if its output cannot be parsed.  The monitors
\* take samples all the while, of dcgmi some in which nothing is transferred
Bench ==
  /\ At("bench")
  /\ \/ \E ended \in {TRUE} \cup (IF Stressed = {} THEN {} ELSE {FALSE}),
             samples \in {{"idle"}, {"idle", "own"}} :
          /\ got' = [smt |-> smt, turbo |-> turbo, cpus |-> Mask(Test.cpus) \cap Online,
                     governors |-> { governor[c] : c \in (Mask(Test.cpus) \cap Online) \ passed },
                     rw |-> Test.rw, cpu_freqs |-> {}, dcgm |-> {}, supported |-> supported,
                     versions |-> versions, build |-> checkout, ended |-> ended]
          /\ ended => "own" \in samples
          /\ log' = log \cup loggers
          /\ dcgmOut' = IF "own" \in dcgmis THEN dcgmOut \cup samples ELSE dcgmOut
          /\ Goes("stop")
          /\ IF ended THEN UNCHANGED faults ELSE Strikes
     \/ Strikes /\ BenchFails /\ UNCHANGED <<got, log, dcgmOut>>
  /\ UNCHANGED <<stamps, settings, loggers, dcgmis, files, place, helpers, flags>>

\* pkill of the loggers, and their file: it can be gone or unreadable, or have too
\* little
StopLogging ==
  /\ At("stop")
  /\ loggers' = {} /\ logging' = FALSE
  /\ \/ /\ tmp /\ got' = [got EXCEPT !.cpu_freqs = IF supported THEN log ELSE {}]
        /\ Goes(IF Dcgm THEN "dstop" ELSE "create") /\ UNCHANGED <<supported, faults>>
     \/ /\ tmp /\ Strikes /\ Unsupported /\ UNCHANGED got
        /\ Goes(IF Dcgm THEN "dstop" ELSE "create")
     \/ tmp /\ Strikes /\ Goes("dabort") /\ UNCHANGED <<got, supported>>
     \/ ~tmp /\ Goes("dabort") /\ UNCHANGED <<got, supported, faults>>
  /\ UNCHANGED <<stamps, settings, dcgmis, log, dcgmOut, files, place, knownSmt, knownTurbo,
                 thrsib, pairs, monitoring>>

\* The samples in which the GPU ran a kernel or received data; if there are none, all
Described(samples) == IF samples \subseteq {"idle"} THEN samples ELSE samples \ {"idle"}

StopDcgm ==
  /\ At("dstop")
  /\ dcgmis' = {} /\ monitoring' = FALSE
  /\ \/ tmp /\ got' = [got EXCEPT !.dcgm = Described(dcgmOut)] /\ Goes("create") /\ UNCHANGED faults
     \/ tmp /\ Strikes /\ Fails /\ UNCHANGED got
     \/ ~tmp /\ Fails /\ UNCHANGED <<got, faults>>
  /\ UNCHANGED <<stamps, settings, loggers, log, dcgmOut, files, place, helpers, logging>>

\* The rest of abort_monitors; what it parses goes nowhere
AbortLogging ==
  /\ At("abort")
  /\ loggers' = {} /\ logging' = FALSE
  /\ Goes("dabort")
  /\ UNCHANGED <<stamps, settings, dcgmis, log, dcgmOut, files, place, helpers, monitoring, got,
                 faults>>

AbortDcgm ==
  /\ At("dabort")
  /\ IF Dcgm THEN dcgmis' = {} /\ monitoring' = FALSE ELSE UNCHANGED <<dcgmis, monitoring>>
  /\ Fails
  /\ UNCHANGED <<stamps, settings, loggers, log, dcgmOut, files, place, helpers, logging, got,
                 faults>>

Put(result) ==
  results' = [ f \in DOMAIN results \cup {Filename(Test, rep)} |->
                 IF f = Filename(Test, rep) THEN result ELSE results[f] ]

\* open("x") creates the file before json.dump writes it
CreateResult ==
  /\ At("create")
  /\ Put(Torn) /\ Goes("dump")
  /\ UNCHANGED <<stamps, settings, monitors, report, place, helpers, flags, got, faults>>

WriteResult ==
  /\ At("dump")
  /\ Put([got EXCEPT !.supported = supported]) /\ got' = Torn /\ NextRep
  /\ UNCHANGED <<stamps, settings, monitors, report, helpers, flags, faults>>

\* bench_combine: every repetition there is of whatever has a first one; they
\* have to agree on all that is not a measurement
Repeats(f) == { g \in DOMAIN results : [g EXCEPT !.rep = 0] = f }

\* Mutant of MergeVersions: the stamp of one of them
MergeVersionsOfFirst(rs) == results[CHOOSE g \in rs : \A h \in rs : g.rep <= h.rep].versions

\* Repetitions of several builds are named by all of them
MergeVersions(rs) == UNION { results[g].versions : g \in rs }

Combinable ==
  \A f \in { g \in DOMAIN results : g.rep = 0 }, g \in DOMAIN results :
     g \in Repeats(f) => /\ results[f] # Torn /\ results[g] # Torn
                         /\ results[g].supported = results[f].supported
                         /\ results[g].rw = results[f].rw

Combine ==
  /\ At("combine")
  /\ \/ /\ Combinable
        /\ report' = [ f \in { g \in DOMAIN results : g.rep = 0 } |->
             [repeats |-> Repeats(f), versions |-> MergeVersions(Repeats(f))] ]
        /\ outcome' = "ok" /\ UNCHANGED <<pc, reach, runs>>
     \/ ~Combinable /\ Fails /\ UNCHANGED report
  /\ UNCHANGED <<stamps, settings, monitors, results, place, helpers, flags, got, faults>>

\* Mutant of Unreachable: a command waits for a target that is gone
UnreachableWaits == FALSE

\* A command that finds no target fails, and the runner with it
Unreachable ==
  /\ Running /\ ~link /\ ~Quiet
  /\ Fails
  /\ UNCHANGED <<stamps, settings, monitors, files, place, helpers, flags, got, faults>>

\* Where the settings of the CPUs go on over a command that failed, this is one
UnreachableSetting ==
  /\ Running /\ ~link /\ ~Quiet /\ Unsupported
  /\ \/ pc = "turbo" /\ knownTurbo' = {Test.tu} /\ Goes(SettingAfter("turbo"))
     \/ pc = "freq" /\ UNCHANGED knownTurbo /\ Goes("start")
  /\ UNCHANGED <<stamps, settings, monitors, files, place, knownSmt, thrsib, pairs, flags, got,
                 faults>>

Step ==
  \/ ToggleSmt \/ ToggleTurbo \/ UseThreadSiblings \/ FindResult \/ SetCpuFreq
  \/ StartLogging \/ StartDcgm \/ Bench \/ StopLogging \/ StopDcgm
  \/ AbortLogging \/ AbortDcgm \/ CreateResult \/ WriteResult \/ Combine \/ Unreachable
  \/ UnreachableSetting

-----------------------------------------------------------------------------
(* The target, and faults *)

\* From the start of the first monitor to the stop of the last
Measuring == Running /\ pc \in {"dcgm", "bench", "stop", "dstop", "abort", "dabort"}

\* The monitors that a killed runner has left: a logger appends to the file of
\* that name, a dcgmi to the file it has opened, which the next one's start removes
LeftSamples ==
  /\ loggers \cup dcgmis # {} /\ ~Measuring
  /\ log' = IF loggers = {} THEN log ELSE log \cup {"other"}
  /\ dcgmOut' = IF "own" \in dcgmis THEN dcgmOut \cup {"other"} ELSE dcgmOut
  /\ UNCHANGED <<stamps, settings, loggers, dcgmis, files, pc, outcome, place, reach, helpers,
                 flags, got, runs, faults>>

\* An exception, or a signal
Killed ==
  /\ Running /\ Strikes
  /\ outcome' = "killed"
  /\ UNCHANGED <<stamps, settings, monitors, files, pc, place, reach, helpers, flags, got, runs>>

\* Another build is made between two runs
Upgrade ==
  /\ ~Running /\ Strikes
  /\ checkout' = checkout + 1
  /\ UNCHANGED <<settings, monitors, files, pc, outcome, place, reach, helpers, flags, versions,
                 got, runs>>

\* The target restarts, with the firmware's settings and an empty /tmp
Reboot ==
  /\ Strikes
  /\ smt' = 1 /\ turbo' = 1 /\ governor' = [ c \in CPUs |-> "ondemand" ]
  /\ loggers' = {} /\ dcgmis' = {} /\ log' = {} /\ dcgmOut' = {}
  /\ link' = FALSE /\ tmp' = FALSE
  /\ UNCHANGED <<stamps, passed, files, pc, outcome, place, helpers, flags, got, runs>>

\* It is up again, and the runner's next command reaches it
Reconnect ==
  /\ Running /\ ~link /\ link' = TRUE
  /\ UNCHANGED <<stamps, settings, monitors, files, pc, outcome, place, tmp, helpers, flags, got,
                 runs, faults>>

-----------------------------------------------------------------------------

Init ==
  /\ smt \in {0, 1} /\ turbo \in {0, 1} /\ governor = [ c \in CPUs |-> "ondemand" ]
  /\ loggers = {} /\ dcgmis = {} /\ log = {} /\ dcgmOut = {}
  /\ results = << >> /\ report = << >>
  /\ pc = "smt" /\ outcome = "none" /\ tests = << >> /\ at = 1 /\ rep = 0 /\ link = FALSE
  /\ tmp = FALSE /\ passed = {}
  /\ knownSmt = {} /\ knownTurbo = {} /\ thrsib = 0 /\ supported = TRUE /\ pairs = {}
  /\ logging = FALSE /\ monitoring = FALSE /\ got = Torn
  /\ checkout = 1 /\ versions = {}
  /\ runs = 0 /\ faults = 0

Next == Begin \/ Step \/ LeftSamples \/ Killed \/ Reboot \/ Reconnect \/ Upgrade

Spec == Init /\ [][Next]_vars

\* The runner's commands end, one way or the other
FairSpec == Spec /\ WF_vars(Step)

-----------------------------------------------------------------------------
(* Properties *)

\* A sample of the measurement that its own monitor took or a logger that was left,
\* or of another time; "idle" is one of dcgmi's in which nothing was transferred
Samples == {"own", "left", "other", "idle"}

Whole == { f \in DOMAIN results : results[f] # Torn }

\* The type of every variable; a runner is at a test and a repetition it has.
TypeOK ==
  /\ smt \in {0, 1} /\ turbo \in {0, 1} /\ DOMAIN governor = CPUs
  /\ loggers \subseteq {"own", "left"} /\ dcgmis \subseteq {"own", "left"}
  /\ log \subseteq Samples \ {"idle"} /\ dcgmOut \subseteq Samples \ {"left"}
  /\ outcome \in {"none", "running", "ok", "failed", "killed"}
  /\ Running => at \in 1..Len(tests) /\ rep \in 0..(Repetitions - 1)
  /\ knownSmt \subseteq {0, 1} /\ knownTurbo \subseteq {0, 1} /\ thrsib \in {0, 1}
  /\ pairs \subseteq CPUs
  /\ supported \in BOOLEAN /\ logging \in BOOLEAN /\ monitoring \in BOOLEAN /\ link \in BOOLEAN
  /\ tmp \in BOOLEAN /\ passed \subseteq CPUs
  /\ checkout \in Nat /\ versions \subseteq Nat
  /\ runs \in 0..MaxRuns /\ faults \in 0..MaxFaults

\* A result was measured with the SMT its name says and, unless it says itself
\* that the CPUs could not be controlled, with its turbo and frequency, although
\* the helper keeps in mind what it has set, goes on when it could not, and may have
\* a target that restarted meanwhile.  Of the frequencies this is not so for a CPU
\* that could not be set and that others come after: only the last one's counts.
MeasuredAsNamed ==
  \A f \in Whole :
    LET r == results[f]
    IN  /\ r.smt = f.sm
        /\ r.supported => r.turbo = f.tu /\ r.governors \subseteq {f.freq}

\* "This will ensure that the lowest number of cores needed are used": a result
\* is of as many CPUs as its name says, with thread siblings on half as many
\* cores and without on cores of their own, whatever SMT was when the masks
\* were made.
RunsOnItsCpus ==
  \A f \in Whole :
    LET cpus == results[f].cpus
    IN  /\ Cardinality(cpus) = f.cpus
        /\ Cardinality({ Core(c) : c \in cpus }) =
             IF f.ht = 1 THEN (f.cpus + 1) \div 2 ELSE f.cpus

\* What a result reports of frequencies and of the GPU was sampled in its own
\* measurement, also when the monitors of a runner that was killed are still at
\* work: of dcgmi by its own, and "not of the whole monitoring window" unless nothing
\* was transferred in all of it; of the frequencies by its own logger or by one that
\* was left, which writes to the same file and is stopped with the other.
OwnSamples ==
  \A f \in Whole : /\ results[f].cpu_freqs \subseteq {"own", "left"}
                   /\ results[f].dcgm \subseteq {"own"} \/ results[f].dcgm = {"idle"}

\* A runner that ends by itself, at whatever step it fails, has no monitor running.
MonitorsStopped ==
  outcome \in {"ok", "failed"} => "own" \notin loggers \cup dcgmis

\* "Already existing results will not be benchmarked again", and the others are:
\* a runner that ends well has, in its report, every repetition of every test
\* measured with its I/O pattern and number of CPUs, by it or by one before it, and
\* by a benchmark that succeeded unless other CPUs were stressed meanwhile.
AllCasesMeasured ==
  outcome = "ok" =>
    \A i \in DOMAIN tests, k \in 0..(Repetitions - 1) :
      LET f == Filename(tests[i], k)
      IN  /\ f \in Whole /\ f \in report[[f EXCEPT !.rep = 0]].repeats
          /\ results[f].rw = tests[i].rw /\ Cardinality(results[f].cpus) = tests[i].cpus
          /\ results[f].ended \/ tests[i].st = 1

\* "A component built differently across them is named by every stamp it carried":
\* an entry of the report names the build of each of its repetitions, unless it
\* could not be read, and no other, although it may be of many runs' results.
BuildsNamed ==
  \A f \in DOMAIN report :
    LET builds(rs) == { results[g].build : g \in rs }
        stamped == { g \in report[f].repeats : results[g].versions # {} }
    IN  report[f].versions = builds(stamped)

\* The runner ends.
RunnerEnds == Running ~> ~Running
=============================================================================
