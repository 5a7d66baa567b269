# AiSIO: models, model checks and proofs

AiSIO is a set of [cijoe](https://github.com/refenv/cijoe) workflows (`tasks/*.yaml`), Python steps
(`scripts/*.py`) and helpers that run on the machine under test (`auxiliary/*`). They install a storage
stack, bring its daemons up over NVMe drives, and measure them. Nothing in it is a server: an operator
starts a workflow on an *initiator*, cijoe runs its steps in order and stops at the first one that
fails, and every `cijoe.run(...)` is a command on the *target*. The one long-running program is
`aisio-docs-serve`, which rebuilds the documentation while its author writes.

What makes it hard is therefore not what one workflow does from beginning to end. It is

- what **else** moves between two commands: systemd restarts a unit, a daemon dies, the target
  reboots, somebody mounts a drive;
- what is **left** when a step fails or a run is killed, since nothing is undone, and what the next
  run, or the run of *another* workflow, then does with it;
- what **persists** over runs and reboots (result files, a grub configuration, CPU settings, mounts,
  drivers) and is taken, by its mere existence, for what it should be.

None of this is reached by a test, because each case needs a failure at one particular command of a
workflow that takes hours on hardware, or two threads at one particular place each. The modules here
are about these three things.

## 1. Inventory

| Component | State it keeps | Operations | What makes it correct |
|---|---|---|---|
| **Daemon step** `scripts/daemon.py` | locals of a step; the systemd unit it looks at (ActiveState, NRestarts, Result, InvocationID, journal) | `start`, `stop` | a step that ends well means what it says of a unit that lives its own life meanwhile; it always ends |
| **Daemon workflows** `tasks/smoke_daemons.yaml`, `smoke_p2p.yaml`, `setup_dataset.yaml`, `configure_daemons.yaml`, `bench_aisio.yaml`, `bench_io_modes.yaml` | the drive's driver, file system and mounts; the ublk device; units; the index in `/dev/shm` | their steps | the system's disk is never taken; nothing is unbound under its user; a run recovers from whatever an earlier one left; a unit that died is reported; the index is complete |
| **Drive guard** `scripts/drive_guard.py` | none, reads sysfs and lsblk | `main` | a drive in use is refused |
| **Model-load benchmark** `scripts/llama_prep.py`, `llama_load.py`, `tasks/bench_llama_load.yaml` | as the daemon workflows; results | prepare, load, parse | nothing is written to a drive that is mounted elsewhere; a load that fell back to another reader is an error |
| **IOMMU overhead: boots** `scripts/iommu_boot.py`, `iommu_common.py`, `auxiliary/iommu_grub_update.py`, `tasks/bench_iommu_overhead_{host,gpu}.yaml` | `/etc/default/grub`, its backup, the boot loader's file, the kernel's command line | check-kernel, set-off, set-on, verify-off, verify-on; reboot and waits; recovery | the original configuration is never lost; each half is measured in the boot it is named after |
| **IOMMU overhead: measurement** `scripts/iommu_overhead.py` | result files; driver of the drives | collect, resume | no rows of two collections in one sum; no row of the wrong boot; drives are handed back |
| **IOMMU overhead: report** `scripts/iommu_overhead_combine.py` | `benchmark-results.json` | load, aggregate, pair | only sums of whole device sets are paired |
| **Benchmark runner** `scripts/bench_runall.py`, `bench_helper.py`, `bench_combine.py`, `version_helper.py` | `results_dir`; what it believes the target is set to | test matrix, settings, stress, repetitions, report | a result was measured under what its name says, on the CPUs it says; all asked for is measured; the report names the builds it is of |
| **Benchmark monitors** `scripts/cpu_freq_helper.py`, `dcgm_helper.py`, `auxiliary/cpu_freq_logger.sh` | background processes and their files on the target | start, stop and parse | samples are of this measurement; no monitor outlives its runner |
| **Benchmark tools** `scripts/xnvmeperf.py`, `fio_xnvme.py`, `filperf.py`, ... | none | build a command line, parse its output | arithmetic and parsing |
| **IOMMU trace** `scripts/iommu_trace_gpu.py`, **dma-buf probe** `scripts/dmabuf_import_probe.py`, `auxiliary/dmabuf_import_probe.c` | a tracefs instance, kprobes and a work directory on the target | trace, cross-check, verdict, clean up | the verdict is true of the probe's own mapping; a run that ends well has traced one; nothing is left in the kernel |
| **Dataset generation** `scripts/generate_dataset.py`, `auxiliary/generate_dataset.sh` | the files | ranges, workers, batches | every file once, and the same whatever the number of jobs |
| **Guest, root access** `scripts/qemu_guest_start_nvme.py`, `root_unlock.py` | sshd's configuration | start, unlock | unlocking again over an unlocked machine is harmless |
| **Stack and version checks**, **fio comparison**, **installation workflows** | none that later steps could find changed | | |
| **Documentation tooling** `docs/tooling/aisio_docs.py`, `plots.py` | the threads, the watcher's queue and debounce, pyplot's list of figures, the images, LaTeX files and PDF of the build directory, the build status | serve: watch, build the PDF, draw, show the status; one-shot builds | the badge OK is of the text as it is; a change during a build leads to another one; each file holds its own figure |
| **Release and lint tooling** `.github/` | tags, releases | release, bump, lint | a version is released once, from a tested tree |
| **Plots and templates** | none | | presentation |

How they interact: the daemon workflows and the model-load benchmark share **one drive**, the units'
configuration files and `/dev/shm`, and call the daemon step and the drive guard. The IOMMU workflow
calls *boots*, then *measurement*, then again, then *report*; boots and measurement share the boot the
target is in, measurement and report the result files. The benchmark runner calls the monitors around
every measurement and shares `results_dir` with the runners before and after it. In all of these,
concurrency is between the step at hand and the target. `aisio-docs-serve` is different: its main thread
draws plots and serves pages, its watcher's thread builds the PDF with the same drawing functions, and
both use the one list of figures that pyplot keeps for the process.

`PROJECT.json` lists every hazard with its line and the properties that would catch it going wrong.

## 2. Modules

| Module | Models | Lines it stands for |
|---|---|---|
| `Daemon` | the two operations of `daemon.py`, command by command, with a systemd unit beside them | `scripts/daemon.py` |
| `AisioStack` | seven workflows over one drive, with deaths, failures, busy mounts, foreign mounts and reboots | seven `tasks/*.yaml`, `drive_guard.py`, `llama_prep.py`, `llama_load.py` |
| `IommuOverhead` | a collection and the report | `iommu_overhead.py`, `iommu_overhead_combine.py` |
| `IommuBoot`, `MCIommuBoot` | the grub edit, its backup, reboots, waits, verification | `iommu_boot.py`, `iommu_common.py`, `iommu_grub_update.py`, the workflow |
| `BenchRun`, `MCBenchRun` | a matrix of tests, settings, monitors, result files, the report | `bench_runall.py`, `bench_helper.py`, `bench_combine.py`, `version_helper.py`, `cpu_freq_helper.py`, `dcgm_helper.py`, `cpu_freq_logger.sh` |
| `TraceFindings` | what the trace's records say: pure operators | `iommu_trace_gpu.py` |
| `TraceGpu` | one run of the trace, with the kernel's mapping, other processes, failures and interrupts | `iommu_trace_gpu.py`, `dmabuf_import_probe.py` |
| `LiveDocs` | the status page as its author understands it: the abstract specification | the promises of `docs/README.md` and of the page |
| `DocsServe`, `MCDocsServe` | `aisio-docs-serve` with its threads; it implements `LiveDocs` | `aisio_docs.py`, `plots.py` |
| `AisioPrograms` | lemmas about the workflows as sequences of commands | |
| `DaemonProofs`, `AisioStackProofs`, `IommuOverheadProofs`, `IommuBootProofs`, `BenchRunProofs`, `TraceGpuProofs`, `DocsServeProofs` | the theorems about each | |

The modules with `Mutant of ...` definitions carry, next to a definition, what a plausible mistake
would make of it; each property is shown to fail with one of them (the pairs are in `PROJECT.json`), so
that it says something about the code and not only about the model.

**Daemon.** A step's `pc` is at one command of `start()` (`reset_failed`, `systemctl_start`,
`start_wait`, `poll`, `poll_invocation`, `poll_journal`) or of `stop()` (`check`, `restarts`,
`systemctl_stop`, `stop_wait`, `result`); the unit's own steps (`UnitUp`, `UnitLogsReady`, `UnitDies`,
`UnitExits`, `UnitRestarts`, `UnitStopped`) come in between. A *run* of the unit is a systemd
invocation. `journal()` is two commands, so it is two steps. `died`, `first`, `lost` and `seen` are
history: nothing reads them but the properties.

**AisioStack.** A workflow is a sequence of commands, `Program(w)`; `pc` is the one at hand, and a
command is an action that either goes on or ends the run as failed, leaving everything as it is. The
drive is its `driver`, the file system on it, whether that has changes that are only in the cache
(`dirty`), what is mounted where and from which device, the ublk devices, the units that run, and for
every index in `/dev/shm` whether it has all of the files. `daemon.py`'s `stop` is
two steps, as module `Daemon` shows it: its look at the unit (`Look`: ActiveState and NRestarts) and then `systemctl stop`
with the look at `Result` (`Stop`), so that a unit can die in between; if it ends well, or is restarted, nobody
sees that (`unseen`, a history variable). Clients (xnvmeperf, filperf, OpenDS)
are what they need to work (`Holds`, and `Loads` for llama.cpp). The three ways the workflows stop a unit are three
commands: `daemon.py`, which fails for a unit that died or was restarted, `systemctl stop`, which does not,
and the stop of `bench_io_modes.yaml`, which reads the unit's `Result`. The operator runs any workflow after any other, as far as the
README of the repository does not ask for another one first (`Prepared`).

**IommuOverhead.** Every result file is a row: the fields of its name, whether it was written whole,
and, as history, by which collection and in which boot. The loop over runners, cases and repetitions,
the skip of what is there, the refusal of a partial set, the retry, and the `finally` that hands the
drives back are actions. Two commands fail without a word: the `ls` of the IOMMU units, whose failure reads as
"none" (`UnitsSeen`, `misread`), and the reset of the drives, whose result `main()` drops (`Reset`, `stuck`). Kills, torn writes, reboots and changes of `[[devices]]` come at any point.
What a row says in numbers is left out, so the report is which devices' rows it sums (`Report`).

**IommuBoot.** A file is whether it is there, empty or whole, whether it has the line the script edits,
and that line's tokens. A half goes through backup, write, update-grub, the scheduled reboot, both waits,
the verification and the measurement, each an action; `Units` is what the kernel makes of its command
line and of the firmware. The regular expression that finds the line is abstracted to there being one.

**BenchRun.** The target's SMT, turbo and governors are one side, what the helpers remember of them
(`knownSmt`, `knownTurbo`, `thrsib`, `pairs`, `supported`) the other. The monitors are processes that
belong to the runner (`own`) or were left by one that was killed (`left`), and a monitor's file is
whose samples it has. A result is what it was measured with; its file name is a record of those fields
that `run_benchmark` puts in the name. `Tests` is the matrix in the order of `itertools.product`.
The frequency is set CPU by CPU in a shell loop whose status is its last command's (`SetCpuFreq`): any of the CPUs
may fail, and only the last one is noticed; those it passed over are `passed`, a history variable. A target that
reboots has the firmware's settings and an empty `/tmp` (a tmpfs in Ubuntu 26.04, which the workflows are for), and comes
back (`Reconnect`), be it before the runner notices: it then goes on with the settings it has cached. While the target
is away a command fails and the runner with it (`Unreachable`), but the settings of turbo and frequency go on
(`UnreachableSetting`), and steps that run no command do not notice (`Quiet`). The logger's script and the monitors'
files are in `/tmp`, so that after a restart no logger starts and no file can be read.
With stress, the command's status is that of `wait`, so a benchmark that failed may still leave a result.
`checkout` is the build installed on the target, `versions` what `version_helper.py` could read of it when
the run began, and the report merges what its repetitions were stamped with (`MergeVersions`); new
builds are installed between runs only.

**TraceGpu.** A run is at one command of the script (`pc`), from looking for the tools over the work
directory, the instance, one kprobe after the other, the probe, to the reading of the trace and the
cleanup, which has one step per thing to remove. A command fails, or the operator interrupts, at each of
them, a removal of the cleanup included, whose result the script does not look at (`RemovalFails`, `stuck`); the `finally` and `except` clauses are where the steps lead then. Beside the script the kernel maps the
probe's buffer (`map`): with pages as large as addresses, size and the domain allow, each mapping one call
of `map_pages` and one event, and another process may map at the same IOVA, before or after. The kprobe
reads the op's arguments from the registers of `Slots`, which need not be right. `TraceFindings` is
`records`, `check_records`, `largest_fit` and `verdict` over such a trace, as operators; addresses are a few
bits wide, and pages powers of two (`Pow`) from `SmallestPage` up. The calls are sorted one after the other
(`Sorted`, `Insert`) in the order of their tuples (`After`), and added up by `Total`. What the findings are
compared with (`VerdictTrue`) is stated from the mapping and not from the records.

**DocsServe.** Both threads are at a step of drawing (`read`, `open`, `save`, `close` of the plot `at`), of
building (`sphinx`, `make`) or idle; `figures` is pyplot's stack, whose top is what `savefig` saves, whoever
opened it. The watcher takes one event after the other, drops those within the debounce of the last
build's beginning, and has what arrived meanwhile in its queue. A file that is removed, or that another one is
moved over, raises an event for which it has no method (`Replace`), and a build whose `find_docs_src()` fails
has used up its event before it set the status (`NoSource`). The PDF is a version of the text, torn
while `make` writes it. Archives may be Git LFS pointers, or be from before a plot was introduced
(`lacking`, per plot as in `plots.py`). The process ends and is started again; its files stay.
`LiveDocs` has the text, the text when the last build began, the text in the last PDF, and the badge: a
build delivers what has at least all that was there when the page began to say Building. `LiveSpec` maps the
status and the files to them.

## 3. Runs

| Run | Module, bounds | What it shows |
|---|---|---|
| `daemon` | `Daemon`, 2 polls, 3 runs of the unit | A `stop` that returns 0 saw every death before it looked (`StopCatchesEarlierDeaths`); a `start` that returns 0 saw a text of a run it began or found or of a later one, never an older one (`StartOkMeansReady`); a unit reported to have stopped first did (`StoppedFirstIsReal`); every step ends (`StepEnds`) |
| `daemon_stop_lost` | 2 runs | **violated**: a death between `stop`'s look and `systemctl stop` is not reported |
| `stack` | `AisioStack`, all seven workflows; 4 workflow runs, 3 faults of every kind | `SystemDiskSafe`, `IndexComplete`, `DeathsReported`, `CleanOnSuccess`, `RerunSucceeds`, `DriveTakenOnlyWhenFree`, each about what a workflow finds of the others' failed runs. What they exempt is below |
| `stack_elsewhere` | 4 runs, 1 fault | **violated**: `bench_llama_load` formats a drive that is still mounted elsewhere through the ublk device of a `bench_aisio` that failed |
| `iommu_overhead` | `IommuOverhead`, device sets {d1, d2} and {d1}, 2 cases, 2 repetitions, 2 retries, 2 collections, 2 faults | `LabelMatchesBoot`, `RowsFromOneRun`, `CompleteHasAllRows`, `DrivesHandedBack`, `ReportsWholeDeviceSets`, `RunEnds` |
| `iommu_boot` | `IommuBoot`, 4 grub lines, 3 base lines, 2 runs, 2 faults, tears of the grub file | `OriginalNeverLost`, `OnlyIommuTokensChange`, `RebootIsOver`, `MeasuredAsConfigured`, `WorkflowEnds` |
| `iommu_boot_torn` | tears of the backup | **violated**: a torn backup is taken for one, and the original is edited with no copy of it |
| `bench` | `BenchRun`, 2 cores of 2 threads, 2 matrices, 2 repetitions, 2 runners, 2 faults | `MeasuredAsNamed`, `RunsOnItsCpus`, `OwnSamples`, `MonitorsStopped`, `AllCasesMeasured`, `BuildsNamed`, `RunnerEnds` |
| `bench_rw` | 2 I/O patterns, 1 CPU | **violated**: the name of a result has no I/O pattern for most tools, so the second pattern's case is the first's result |
| `trace_gpu` | `TraceGpu`, 6 address bits, 2 sizes, 2 IOVAs, 3 physical addresses, 3 domains, 3 kernels, 3 slots, 2 faults | Nothing of a run is left on the target but what a removal failed for (`NothingLeft`); what it finds is true (`VerdictTrue`), a run in which nothing went wrong is not failed by its findings (`NoFalseAlarm`), and one that ends well traced a whole mapping (`OkMeansTraced`) |
| `docs` | `DocsServe`, 2 plots, 2 edits, 2 starts | `OkIsCurrent`, `OwnFigures`, `SettlesCurrent`, and that it implements `LiveDocs` (`LiveSpec`) |
| `docs_figures` | 1 edit, 1 start | **violated**: both threads draw at once, and a figure is saved under the name of another |

The passing runs also check the module's `TypeOK`, except for `daemon`, `trace_gpu` and `docs`, where it is proved.

### What the violations say

Each is a counterexample to a sentence of the repository, quoted in `PROJECT.json` under `findings`.
`daemon_stop_lost` and `iommu_boot_torn` need a death or a crash in a gap of one command.
`stack_elsewhere` needs a failed benchmark and then the other workflow on the same drive. `bench_rw`
needs nothing but a matrix of two patterns, and `docs_figures` an edit while the plots of the HTML pages
are still drawn.

### What the properties leave out

Some gaps nothing in the code closes. A property that would say they are closed is false of it; the ones
here name the gap in their formula, and so say that there is no other.

- `StartOkMeansReady` accepts the ready text of a run that replaced the one `start` looked at.
- `DeathsReported`: a unit that dies between the look of its `stop` and `systemctl stop` (`daemon_stop_lost`).
- `SystemDiskSafe` and `DriveTakenOnlyWhenFree`: a mount that came after the guard's look; the latter also a run
  that met a fault, as its umount may have found the mount busy and gone on.
- `CleanOnSuccess`: the index that `smoke_p2p`, which starts no xal-server, finds.
- `RerunSucceeds`: a run fails for units of another id, in `bench_aisio` for the ublk device of a lost qublk, and
  is refused for a mount of the drive's own namespace that its guard does not accept, also when it was an
  earlier run of another workflow that left it (`spread`, `Accepts`).
- `LabelMatchesBoot`: a `uio` result of a collection whose look at the IOMMU units failed. A `vfio` result is always
  of an enforcing boot.
- `DrivesHandedBack`: drives of a reset that failed, over which `main()` may return 0.
- `MeasuredAsNamed`: the frequency of a CPU that could not be set and that was not the loop's last.
- `OwnSamples`: a logger that a killed runner left is stopped with the next one's own, not before it starts, so
  that samples it takes within a measurement are among that one's. They are of the same CPUs and the same time, so what
  is stated is that no sample of another time is.
- `NothingLeft`: what a removal failed for, and interrupts where the script knows nothing of what it made.
- `NoFalseAlarm`: a run in which another process made the first call at the probe's IOVA.
- `OkIsCurrent` and `SettlesCurrent`: changes by a removal or a file moved over another, and an event lost on a build
  that did not begin. Then OK stays over a PDF of the older text, although `docs/README.md:48` speaks of
  whenever the sources change.

### Bounds, and why they are enough

- *Runs of a workflow or runner* (2 to 4): every property relates what one run does to what an earlier
  one left. Two suffice for that; `AisioStack` has more because three different workflows and their
  preparation can be involved in one leftover.
- *Faults* (1 to 3): a fault in an earlier run, one in this run, and for `AisioStack` one in between. In
  `TraceGpu`, which keeps nothing from run to run, two: one in the run and one in the cleanup after it.
- *Runs of a unit* (3): one before `start`, one that it begins, one that replaces it.
- *Repetitions, cases, retries* (2): first, last, and the step from one to the next.
- *Device sets* {d1, d2} and {d1}: a set with a part, and a change of the configuration to it. Two sets
  of one size are outside the bounds on purpose: see `SizesDiffer` below.
- *CPUs*: two cores of two threads are the fewest for which both orders of `_create_cpumasks` differ
  and SMT changes the masks. The matrices ask for one CPU, `numcpus_range` 1 to 1, which leaves one for the
  stress of the second and keeps the product of SMT, turbo, siblings, stress, builds and faults small;
  `numcpus_range` counts cores (`scripts/bench_runall.py:248-253`).
- *Addresses* (6 bits, pages of 2 to 16): aligned and unaligned at every size of page, buffers that one
  large page fits in and does not, domains with and without the page in between.
- *Plots* (2): one that needs its data and one that may lack it, so that a thread can be between two
  plots. *Edits* (2): one before and one during a build.

`CHECK_DEADLOCK FALSE` is set where the operator has no run left, which is a bound and no deadlock;
`Daemon` has no such end and is checked for deadlock.

### Fairness

Safety is checked of `Spec`. Liveness is checked of `FairSpec`, which adds weak fairness of the script's
own steps (`Step`): cijoe runs on, and a command that was sent ends, as the ssh connection of a target
that is gone breaks (`Unreachable`, `UnreachableSetting`). `Daemon` adds that systemd bounds how long a unit takes to start
(`UnitUp`) and to stop (`UnitStopped`), which are `TimeoutStartSec` and `TimeoutStopSec`. Nothing is assumed of
faults, of reboots, of a target coming back, of a unit logging its text or staying alive: the timeouts of
the code are there for these, and the liveness properties hold because of them.

`DocsServe` states its fairness in `Spec`: the watcher's thread runs on (`Watch`), and so does its drawing
(`Draw("pdf")`), as threads of one process do, and time passes (`DebounceEnds`). Nothing is assumed of the
author, of the main thread, or of the process being ended.

## 4. Proofs

The theorems hold for every value of the constants: any number of runs, faults, cases, repetitions,
devices, CPUs, addresses, pages, and any matrix and grub line. Some properties do not hold for every value, and
their theorems say for which they do (`SizesDiffer`, `FitsCores`, `PatternsTold`, `ToldApart` and
`Remapped`, below), and `OriginalKept` is about crashes that do not tear the backup, as `iommu_boot_torn` shows what they lead to.

| Theorem | Property | Along |
|---|---|---|
| `DaemonProofs!TypeCorrect` | `TypeOK` | `TypeInv`: a live unit has a run, a poll has polls left |
| `DaemonProofs!StopSafe`, `StartSafe`, `NoFalseAlarm` | `StopCatchesEarlierDeaths`, `StartOkMeansReady`, `StoppedFirstIsReal` | `IInv` |
| `AisioStackProofs!TypeCorrect`, `DiskSafe` | `TypeOK`, `SystemDiskSafe` | `IInv` |
| `AisioStackProofs!DeathsSeen`, `Clean` | `DeathsReported`, `CleanOnSuccess` | `LookInv`, `EndInv` |
| `AisioStackProofs!TakenFree`, `CompleteIndex`, `Reruns` | `DriveTakenOnlyWhenFree`, `IndexComplete`, `RerunSucceeds` | `Inv`: `IInv`, `LookInv`, `SpreadInv`, `EndInv` and `KnowInv` |
| `IommuOverheadProofs!TypeCorrect`, `BootSafe`, `DrivesSafe` | `TypeOK`, `LabelMatchesBoot`, `DrivesHandedBack` | `SafeInv` |
| `IommuOverheadProofs!Complete` | `CompleteHasAllRows` | `OrderInv` |
| `IommuOverheadProofs!OneRun` | `RowsFromOneRun`, given `SizesDiffer` | `OriginInv` |
| `IommuOverheadProofs!WholeSets` | `ReportsWholeDeviceSets`, given `SizesDiffer` | `Safety`, `OriginInv` |
| `IommuBootProofs!OriginalKept` | `OriginalNeverLost`, given that no crash tears the backup | `BackupInv` |
| `IommuBootProofs!RebootOver`, `Measured` | `RebootIsOver`, `MeasuredAsConfigured` | `BootInv` |
| `IommuBootProofs!TypeCorrect`, `TokensSafe` | `TypeOK`, `OnlyIommuTokensChange` | `TokensInv`, on lemmas about `Only` |
| `BenchRunProofs!MonitorsSafe` | `MonitorsStopped` | `MonitorInv` |
| `BenchRunProofs!NamedRight` | `MeasuredAsNamed` | `NamedInv` |
| `BenchRunProofs!BuildsRight` | `BuildsNamed` | `StampInv` |
| `BenchRunProofs!SamplesOwn` | `OwnSamples` | `SampleInv` |
| `BenchRunProofs!TypeCorrect` | `TypeOK` | `TypeInv`, on lemmas about `Tests` |
| `BenchRunProofs!CpusRight` | `RunsOnItsCpus`, given `FitsCores` | `CpusInv` |
| `BenchRunProofs!Complete` | `AllCasesMeasured`, given `FitsCores` and `PatternsTold` | `CpusInv`, `CasesInv` |
| `TraceGpuProofs!TypeCorrect` | `TypeOK` | `LoopInv` |
| `TraceGpuProofs!TargetClean` | `NothingLeft` | `LeftInv` |
| `TraceGpuProofs!OkTraced` | `OkMeansTraced` | `TracedInv` |
| `TraceGpuProofs!VerdictsTrue` | `VerdictTrue`, given `ToldApart` | `RecordedInv`, `TruthInv` |
| `TraceGpuProofs!NoFalseAlarms` | `NoFalseAlarm`, given `Remapped` | `RecordedInv`, `EnabledInv` |
| `DocsServeProofs!OkCurrent` | `OkIsCurrent` | `CurrentInv` |
| `DocsServeProofs!Implements` | `LiveSpec`: `Spec` implements `LiveDocs` | `CurrentInv` |
| `DocsServeProofs!FiguresOwn` | `OwnFigures` | `FigureInv` |
| `DocsServeProofs!TypeCorrect` | `TypeOK` | `RestInv` |

The strengthenings, and why the properties are not inductive without them:

- `Daemon`, `IInv`: that `lost` is empty when `stop` returns 0 rests on `NRestarts` being above 0
  whenever a run since the start has died and the unit lives again (`DeathInv`). It does not hold
  between `reset-failed` and `systemctl start`, since the reset clears the counter while the
  history is still of the unit's former life, hence the exemption of that one `pc`. `UpInv` and
  `ReadInv` say which run a poll may be looking at.
- `AisioStack`, `IInv`: `DriveInv` is about the drive alone, at any time: a homi runs only off the kernel's
  driver, a live ublk device has its homi and its qublk, and a drive that somebody else has mounted is
  the kernel's and still has their files. `GuardInv` is what a run knows: once it has looked, the drive is not
  mounted elsewhere unless by a later mount; once it has made a file system, nobody's files are left.
  Each command that takes or writes the drive is safe because of what its program has before it,
  which is where `AisioPrograms` comes in: `ProgramOrder` says that every workflow looks before it takes the
  drive and makes a file system before it writes through a mount. `EndInv` follows what a run has closed:
  a unit it stopped does not run and has not died but where `unseen` says so, the mounts that unit served are gone, the index goes with
  xal-server, provided its configuration names the run's mountpoint, and the drive stays with the kernel once
  handed back. Nothing opens these again, as `ClosingOrder` says that no start, mount or bind follows the
  first stop. At the end of the program everything is closed. `LookInv` says what
  a `stop` knows between its look and `systemctl stop`, and that there is such a look at a stop only. `SpreadInv` is that a
  mount of the namespace outside of the run's own mountpoint was there when the run began, or came by a fault:
  a refusal is for one of these (`RefusedForSpread`), since a workflow mounts nothing itself or has told its looks the
  mountpoint it mounts at (`LooksOrder` of `AisioPrograms`).
- `AisioStack`, `KnowInv`: what a run knows at each of its commands, whichever of the seven programs it
  runs. `Since(G, L)` says that the run has done one of the commands `G` and none of `L` since, and each
  conjunct of `KnowInv` is what follows from such a past. `Known` holds whatever happens beside the run: a homi
  that was stopped is down, the controller is bound as it was last bound, what was filled is on the drive once
  its mount has been unmounted, and from the start of xal-server on, while nothing is written, its index is
  not stale. `Free` holds in a run without a fault: nothing of the drive is mounted but by the run. `Served`
  holds if no unit of the other id was there either: what the run brought (units, ublk device, mounts, files,
  index) is there until it takes it away. The proof has three parts. Lemmas about *effects* say what each
  command does to the units, devices, mounts, files and indexes, without a program (`UnitEffects` to
  `IndexEffects`), and about what goes on beside a run (`Besides`). `SmokeReady` to `ModesReady` of `AisioPrograms`
  say of each program that before each command come those that bring what it needs, with none that takes it
  away in between (`Ready`): the umount and the stops before a bind, the remount before xal-server, the mount before a
  fill. `SinceReady` puts the two together. From `KnowInv`, no command of a run without a fault finds a state
  in which it fails (`NotBroken`), no unit it stops was restarted (`StopsCleanly`), and so a run fails for a fault
  of its own only. That is `RerunSucceeds`, with the exemptions it states.
- `IommuOverhead`, `BootInv`: while a collection is at work the boot is the one its label needs, unless its look
  failed, as a reboot ends it. `OrderInv`: everything before the place the loops are at has its rows, in the order of
  the loops. `OriginInv`: while a workload runs there is no row of it yet, and while its rows are
  written all there are are this collection's. This needs the name of a row to tell device sets apart, and it has only their
  number: `SizesDiffer` assumes that no two configured sets have the same number of devices. Without it
  the refusal of partial sets does not see that the rows it finds are of other devices. With it the report
  pairs sums of whole sets only, since a total of as many rows as the set has devices is of all of them.
- `IommuBoot`, `BackupInv`: as long as there is no backup the file is the original, a backup is the
  original, and at the write there is one. `BootInv`: once the target is up again after the wait for
  *down*, no reboot is pending, and the command line is the one the boot loader still holds, so that a
  crash between the verification and the measurement leads to the same boot again. `TokensInv`: any whole
  file has the other tokens of the original in their order, and of those of an IOMMU what it had or what a
  half puts there, so that edits do not add up. It rests on what the filter `Only` does to a concatenation.
- `BenchRun`, `MonitorInv`: which flags and processes there can be at which step. `NamedInv`: what the
  helpers know is what the target is set to as long as it has not restarted (`KnownInv`), governors
  follow from the last step that set them, but for those `passed` over (`GovernorInv`), and what was measured is of that
  (`GotInv`). `tmp` matters: after a reboot the helpers' memory is wrong, also once the target is back, and it is the
  missing script and file of the logger that keep the runner from a result with it. `StampInv`: a stamp is of the build on the target, as nothing is
  installed during a run, and the report is of the results as they are. `SampleInv`: from its start to its
  stop a monitor's file has samples of this measurement only, since it is removed before the start and read
  after the stop; a logger that an earlier runner left writes to it as well, within the same time. `TypeInv`: every test of a matrix is a combination of its values
  (`TestsOf`). `CpusInv`: the pairs `lscpu` gave have every core, and both threads of each when hyperthreads are
  asked for, so that the mask of a test has as many CPUs as its name says, on as few cores (`ItsMask`).
  `FitsCores` is that no matrix asks for more CPUs than there are cores, which the script takes for granted: a
  slice of the pairs is short otherwise. `CasesInv`: what is before the place at hand is there, and a file
  that is there is not written again; the names of two repetitions differ, and `PatternsTold` is that those of
  two cases do (`bench_rw` is about a matrix of which it does not hold).
- `TraceGpu`, `LeftInv`: what is on the target at each step, the run knows of, and has a step to come that
  removes it, or had one that failed (`stuck`). The exemptions of `NothingLeft` are its own: an interrupt between a kprobe's registration and
  its name in the list, and one during the cleanup. `TracedInv`: only a target whose IOMMU translates, and a
  probe that passed, get as far as the verdict.
- `TraceGpu`, `RecordedInv`: what the kernel has mapped and what the trace has of it. `CallsInv` is that the
  calls follow each other from the beginning of the buffer, each for pages of one size (`Piece`), and that
  no page of the domain that could be used inside of what is mapped is larger than all of theirs. `TraceOf`
  is that a trace has a call of the probe for each of these in their order, but for the oldest if events are
  lost, through the registers of `Slots` (`Tracks`), and else only what others mapped, which comes with
  addresses that are not the probe's (`NoCall`). From there the proof is about operators. `SortedCalls` says
  that reading such a trace gives the calls back; `OthersDisagree` that no observer agrees when the first
  call at the IOVA is another process's, or when the registers are not the op's; `ProbeCalls` that what is
  left after a loss are the last of the calls, which cover less than the buffer unless they are all. So
  `Agree` holds of the kernel's calls only (`FoundTrue`), and with nothing lost it does hold of them
  (`FoundAlways`). `CapIs` and `UsableIs` relate what `verdict` computes, the alignment of the distance and
  the largest page that fits, to the pages that could back a part of the mapping. `EnabledInv` is that,
  without a fault, the kprobe of the op the domain uses is enabled before the probe starts. `ToldApart` has
  three parts. A physical address is no smaller than the buffer's size, as a buffer is in a BAR, which is
  aligned to its size; a page is more than one byte (it is 4 KiB); and the registers are off by one at most:
  with size and count exchanged (`"swapped"`) a call of as many bytes is read, and the cross-check may pass
  although its docstring has such a kernel fail (`scripts/iommu_trace_gpu.py:192`). `Remapped` is that no
  IOVA is the buffer's physical address, which the script takes for a mapping that is not translated.
- `DocsServe`, `CurrentInv`: a build reads the text after the event it was started for (`asked`), so that whatever it
  missed of what the watcher was `told` is in the queue, and the debounce only drops events of texts that the build at
  hand has yet to read, unless that build did not begin (`lost`). `FigureInv`: a thread that draws alone has its own figure on top.

Assumptions on constants are the named `ASSUME` of each module, which the runs evaluate.

Recursion is by recursive functions, as no module here has a `RECURSIVE` operator. What such a function
computes is proved by induction from the least counterexample (`Least`, `Induct`, `SeqInduct` and
`RecDef` of `IommuBootProofs`; `TraceGpuProofs` has its own), which needs the library's `WFMin` and the well-foundedness of `<` on the
naturals, in terms of sets: the theorems that take a predicate as a parameter cannot be instantiated. Hence
`Only` in `IommuBoot`, where `SelectSeq` would do for TLC alone, a product in `Tests` of `BenchRun` that
has its elements by their number (`Nth`), and `Pow`, `Sorted` and `Total` in `TraceFindings`.

Every invariant and every action property that a run checks is stated by a theorem. Only model-checked is liveness under
fairness (`StepEnds`, `RunEnds`, `WorkflowEnds`, `RunnerEnds`, `SettlesCurrent`), which is out of the prover's reach.

## 5. What is not modelled, and why

- *Numbers*: what a benchmark measures, means, deviations, percentiles. The properties are about what
  was measured under which conditions.
- *Parsing and formatting* of tool output: a parse is one that works or fails.
- In `AisioStack`: configurations of several drives; `devbind`'s outcome for a drive that is held is any. A
  drive that somebody mounts after the guard's look is exempt from `SystemDiskSafe` (`late`), as nothing in
  these workflows closes the gap between the guard and `devbind`. Repetitions of `filperf.py`, of which it
  reports the last one's error only: no workflow asks for more than one. `RerunSucceeds` leaves out the cases the code knows no remedy for
  (above).
- In `IommuOverhead`: an unfinished repetition that a report averages over fewer repetitions.
- In `IommuBoot`: a `GRUB_CMDLINE_LINUX_DEFAULT` in single quotes, which the script's expression does
  not match, so that it appends a line that takes the place of the operator's.
- In `BenchRun`: GPU-local devices, the matrix of `xnvmeperf-cuda` (it sets no CPU), fields of the name that do
  not vary in a matrix, builds installed while a run is at work, and GPU fields that dcgm does not monitor.
- In `TraceGpu`: the regular expressions (an event is a record or is lost), the printing, and the probe's
  own ioctls, which fail by themselves.
- In `DocsServe`: the one-shot commands, which run the same steps in one thread, and how a plot looks. A
  missing image is no error of Sphinx (`docs/src/conf.py:87`) but one of LaTeX's `make`, and is modelled as that.
  `docs/README.md:48` speaks of any change of the sources, where only `*.md` files are watched; the model's
  edits and replacements are of those.
- Benchmark tools, dataset generation, version checks, guests, installation workflows, templates, linters and
  the release: no state that a later step could find changed, or one pass over files. They are a command
  that works or fails for the workflows that call them.

## 6. Plan

Done, in this order: `Daemon` (everything rests on it), `AisioStack` (which composes its promises),
`IommuOverhead` and `IommuBoot` (the two halves of one workflow), `BenchRun`, `TraceGpu`, `DocsServe` with
the abstract `LiveDocs`, and the proofs of each.

Left, by weight:

1. An abstract drive (free, taken by the kernel, taken by the daemons) that `AisioStack` implements, and
   an abstract comparison (two halves, each measured once in its boot) that `IommuBoot` and
   `IommuOverhead` implement.
2. `DriveGuard`: the tree of lsblk, multipath and controllers that are not the kernel's, over several drives.
3. Algorithms against reference definitions: the dataset's ranges and batches, `create_range`, the DCGM
   selection, version ordering, the aggregation of the report.
4. The one-shot documentation builds, `root_unlock.py` and the release workflow.
