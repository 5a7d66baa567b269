------------------------------ MODULE TraceGpu ------------------------------
(***************************************************************************)
(* scripts/iommu_trace_gpu.py and the probe's staging in                   *)
(* scripts/dmabuf_import_probe.py: one run of the trace on a target.       *)
(*                                                                         *)
(* The run makes a work directory, a tracefs instance and kprobes of its   *)
(* own, lets the probe import its buffer for an NVMe while the kernel      *)
(* splits the mapping into pages and other processes map theirs, reads the *)
(* trace and says what it found.  Commands fail and the operator           *)
(* interrupts the run; what it made is then to be gone all the same.       *)
(* The kernel, the probe and the other processes are external.             *)
(***************************************************************************)
EXTENDS TraceFindings

CONSTANTS
  Kernels,    \* the map_pages symbols a kernel has, one set per kernel
  Slots,      \* which of the op's arguments the kprobe's $arg2..$arg5 are
  Iovas, Paddrs, Sizes, Domains,  \* mappings, and the page sizes of a domain
  Others,     \* the physical addresses another process maps
  Junk,       \* what a slot reads that is no address and no size
  MaxFaults   \* bound: commands that fail, and interrupts

MAP_PAGES == <<"intel", "amd", "vtdss", "x86_64", "amdv1">>
Formats   == {MAP_PAGES[i] : i \in DOMAIN MAP_PAGES}

Events   == [by : {"probe", "other"}, at : {"call", "map"}, iova : Nat, paddr : Nat,
             size : Nat, count : Nat]
Verdicts == [largest : Nat, pages : Nat, cap : SUBSET {"domain", "addresses", "range"}]

ASSUME TraceAssumption ==
  /\ Kernels \subseteq SUBSET Formats
  /\ Slots \subseteq {"same", "next", "previous", "swapped"}
  /\ Iovas \cup Paddrs \cup Others \subseteq 0..(Pow[AddressBits] - 1)
  /\ Sizes \subseteq Nat \ {0}
  /\ \A a \in Iovas \cup Paddrs \cup Sizes : a % SmallestPage = 0
  /\ \A pages \in Domains : SmallestPage \in pages /\ pages \subseteq Powers
  /\ Paddrs \cap Others = {}
  /\ Junk \in Nat /\ MaxFaults \in Nat
  /\ None \notin Nat /\ None \notin Events /\ None \notin Seq(Events) /\ None \notin Verdicts

VARIABLES
  \* the target
  driver,     \* what the NVMe is bound to
  translated, \* an IOMMU translates the NVMe's DMA
  symbols,    \* the map_pages symbols of the kernel
  \* what the run has made there
  workdir, instance,
  registered, \* the kprobes in kprobe_events
  enabled,    \* those the instance has enabled
  trace,      \* the instance's events
  \* the kernel's mapping for the probe
  map,        \* its addresses, the domain's pages, the op's arguments
  mapped,     \* the calls that were made for it
  \* the run
  pc, err,
  kprobes,    \* the kprobes the run knows it has registered
  fmt,        \* the next of MAP_PAGES
  probe,      \* the probe's status
  out,        \* and its output
  read,       \* the trace as it was read
  found,      \* the verdict
  \* history and bounds
  cut,        \* the run was interrupted where it could not know, or in cleanup
  stuck,      \* what a removal of the cleanup failed for
  noise, faults

targetVars  == <<driver, translated, symbols>>
tracefsVars == <<workdir, instance, registered, enabled, trace>>
mapVars     == <<map, mapped>>
resultVars  == <<probe, out, read, found>>
boundVars   == <<cut, stuck, noise, faults>>
vars        == <<targetVars, tracefsVars, mapVars, pc, err, kprobes, fmt,
                 resultVars, boundVars>>

NoOutput == [misc |-> None, iova |-> None, nbytes |-> 0]

\* The whole run, in the order of its commands
Steps == {"check", "mktemp", "put", "compile", "mkdir", "setup", "register",
          "append", "enable", "probe", "mapping", "cat", "findings",
          "rmdir", "remove", "cleanup", "done"}

\* Inside the try of main(): whatever happens, the finally is run
Guarded == {"mkdir", "setup", "register", "append", "enable", "probe",
            "mapping", "cat", "findings"}

\* What the cleanup removes from the target
Removals == {"instance", "kprobes", "workdir"}

Goto(from, to) == pc = from /\ pc' = to
Ends(value)    == err' = value

-----------------------------------------------------------------------------
(* check_target() and stage_probe() *)

\* Mutant of CheckTarget: the domain of the NVMe's group is not looked at
CheckDriverOnly ==
  /\ \/ driver = "nvme" /\ Goto("check", "mktemp") /\ UNCHANGED err
     \/ driver # "nvme" /\ Goto("check", "done") /\ Ends("refused")
  /\ UNCHANGED <<targetVars, tracefsVars, mapVars, kprobes, fmt, resultVars, boundVars>>

CheckTarget ==
  /\ \/ translated /\ driver = "nvme" /\ Goto("check", "mktemp") /\ UNCHANGED err
     \/ ~(translated /\ driver = "nvme") /\ Goto("check", "done") /\ Ends("refused")
  /\ UNCHANGED <<targetVars, tracefsVars, mapVars, kprobes, fmt, resultVars, boundVars>>

Mktemp ==
  /\ Goto("mktemp", "put")
  /\ workdir' = TRUE
  /\ UNCHANGED <<targetVars, instance, registered, enabled, trace, mapVars, err,
                 kprobes, fmt, resultVars, boundVars>>

PutSource ==
  /\ Goto("put", "compile")
  /\ UNCHANGED <<targetVars, tracefsVars, mapVars, err, kprobes, fmt, resultVars, boundVars>>

\* nvcc, or else gcc
Compile ==
  /\ Goto("compile", "mkdir")
  /\ UNCHANGED <<targetVars, tracefsVars, mapVars, err, kprobes, fmt, resultVars, boundVars>>

-----------------------------------------------------------------------------
(* trace_probe(), up to the probe *)

Mkdir ==
  /\ Goto("mkdir", "setup")
  /\ instance' = TRUE
  /\ UNCHANGED <<targetVars, workdir, registered, enabled, trace, mapVars, err,
                 kprobes, fmt, resultVars, boundVars>>

\* The buffer's size and the two tracepoints
Setup ==
  /\ Goto("setup", "register")
  /\ UNCHANGED <<targetVars, tracefsVars, mapVars, err, kprobes, fmt, resultVars, boundVars>>

\* A symbol the kernel does not have is passed over
Register ==
  /\ pc = "register" /\ fmt \in DOMAIN MAP_PAGES
  /\ \/ /\ MAP_PAGES[fmt] \in symbols
        /\ registered' = registered \cup {MAP_PAGES[fmt]}
        /\ pc' = "append" /\ UNCHANGED fmt
     \/ /\ MAP_PAGES[fmt] \notin symbols
        /\ fmt' = fmt + 1 /\ UNCHANGED <<pc, registered>>
  /\ UNCHANGED <<targetVars, workdir, instance, enabled, trace, mapVars, err,
                 kprobes, resultVars, boundVars>>

\* Mutant of AppendName: only a kprobe that could be enabled is remembered
AppendEnabled ==
  /\ Goto("append", "enable")
  /\ UNCHANGED <<targetVars, tracefsVars, mapVars, err, kprobes, fmt, resultVars, boundVars>>

AppendName ==
  /\ Goto("append", "enable")
  /\ kprobes' = kprobes \cup {MAP_PAGES[fmt]}
  /\ UNCHANGED <<targetVars, tracefsVars, mapVars, err, fmt, resultVars, boundVars>>

Enable ==
  /\ Goto("enable", "register")
  /\ enabled' = enabled \cup {MAP_PAGES[fmt]}
  /\ fmt' = fmt + 1
  /\ UNCHANGED <<targetVars, workdir, instance, registered, trace, mapVars, err,
                 kprobes, resultVars, boundVars>>

-----------------------------------------------------------------------------
(* The kernel, the probe and other processes *)

\* What the kprobe reads where it expects iova, paddr, pgsize and pgcount
Record(by, slots, iova, paddr, size, count) ==
  LET arg == CASE slots = "same"     -> <<iova, paddr, size, count>>
               [] slots = "next"     -> <<Junk, iova, paddr, size>>
               [] slots = "previous" -> <<paddr, size, count, Junk>>
               [] slots = "swapped"  -> <<iova, paddr, count, size>>
  IN  [by |-> by, at |-> "call", iova |-> arg[1], paddr |-> arg[2],
       size |-> arg[3], count |-> arg[4]]

MapRecord(by, iova, paddr, nbytes) ==
  [by |-> by, at |-> "map", iova |-> iova, paddr |-> paddr, size |-> nbytes, count |-> 1]

\* A call is recorded once the instance has its kprobe enabled
Recorded(call) == IF map.op \in enabled THEN <<call>> ELSE << >>

\* The misc import has no IOMMU behind it; the --bdf import begins
StartProbe ==
  /\ pc = "register" /\ fmt \notin DOMAIN MAP_PAGES /\ map = None
  /\ pc' = "mapping"
  /\ \E i \in Iovas, p \in Paddrs, n \in Sizes, d \in Domains,
        s \in Slots, op \in symbols \cup {None} :
       /\ op = None => symbols = {}
       /\ map' = [iova |-> i, paddr |-> p, nbytes |-> n, domain |-> d, slots |-> s, op |-> op]
  /\ UNCHANGED <<targetVars, tracefsVars, mapped, err, kprobes, fmt, resultVars, boundVars>>

Position == Covered(mapped)

\* The largest page of the domain that fits at this address
PageAt(offset) ==
  Max({p \in map.domain : /\ (map.iova + offset) % p = 0
                          /\ (map.paddr + offset) % p = 0
                          /\ offset + p <= map.nbytes})

\* iommu_map() splits what is left: as many pages of one size as come in a row
MapPages ==
  /\ pc = "mapping" /\ translated /\ Position < map.nbytes
  /\ LET size  == PageAt(Position)
         inRow == {k \in 1..map.nbytes :
                     \A j \in 0..(k - 1) : /\ Position + (j + 1) * size <= map.nbytes
                                           /\ PageAt(Position + j * size) = size}
         Call(slots) == Record("probe", slots, map.iova + Position,
                               map.paddr + Position, size, Max(inRow))
     IN  /\ mapped' = Append(mapped, Call("same"))
         /\ trace' = trace \o Recorded(Call(map.slots))
  /\ UNCHANGED <<targetVars, workdir, instance, registered, enabled, map, pc, err,
                 kprobes, fmt, resultVars, boundVars>>

\* The probe prints both imports and its checks pass
ProbePasses ==
  /\ Goto("mapping", "cat")
  /\ driver = "nvme" /\ (translated => Position = map.nbytes)
  /\ trace' = trace \o (IF translated
                        THEN <<MapRecord("probe", map.iova, map.paddr, map.nbytes)>>
                        ELSE << >>)
  /\ out' = [misc |-> map.paddr, iova |-> IF translated THEN map.iova ELSE map.paddr,
             nbytes |-> map.nbytes]
  /\ probe' = "passed"
  /\ UNCHANGED <<targetVars, workdir, instance, registered, enabled, mapVars, err,
                 kprobes, fmt, read, found, boundVars>>

\* An import or a check fails, or it hangs until 'timeout' ends it
ProbeFails ==
  /\ Goto("mapping", "cat")
  /\ probe' \in {"failed", "timeout"}
  /\ out' \in {NoOutput, [NoOutput EXCEPT !.iova = map.iova, !.nbytes = map.nbytes]}
  /\ UNCHANGED <<targetVars, tracefsVars, mapVars, err, kprobes, fmt, read, found, boundVars>>

\* A process maps as much at the same IOVA, in a domain of its own
OtherMaps ==
  /\ pc = "mapping" /\ noise = 0 /\ translated
  /\ noise' = 1
  /\ \E p \in Others, size \in map.domain :
       LET count == map.nbytes \div size
       IN  /\ count * size = map.nbytes
           /\ \A addr \in {map.iova, p} : addr % size = 0
           /\ trace' = trace \o Recorded(Record("other", map.slots, map.iova, p, size, count))
                            \o <<MapRecord("other", map.iova, p, map.nbytes)>>
  /\ UNCHANGED <<targetVars, workdir, instance, registered, enabled, mapVars, pc, err,
                 kprobes, fmt, resultVars, cut, stuck, faults>>

\* The ring buffer is full: its oldest event is overwritten
Overwritten ==
  /\ pc = "mapping" /\ trace # << >> /\ faults < MaxFaults
  /\ trace' = Tail(trace)
  /\ faults' = faults + 1
  /\ UNCHANGED <<targetVars, workdir, instance, registered, enabled, mapVars, pc, err,
                 kprobes, fmt, resultVars, cut, stuck, noise>>

-----------------------------------------------------------------------------
(* trace_probe(), after the probe, and the finally of main() *)

ReadTrace ==
  /\ Goto("cat", "findings")
  /\ read' = trace
  /\ UNCHANGED <<targetVars, tracefsVars, mapVars, err, kprobes, fmt, probe, out,
                 found, boundVars>>

\* The first of these that went wrong; without a kprobe there are no findings
Result(verdict) ==
  IF probe = "timeout" THEN "timeout"
  ELSE IF probe = "failed" THEN "probe"
  ELSE IF read = None THEN "trace"
  ELSE IF kprobes # {} /\ verdict = None THEN "disagree"
  ELSE "ok"

Conclude ==
  /\ Goto("findings", "rmdir")
  /\ LET verdict == IF kprobes = {} \/ read = None THEN None ELSE Findings(read, out)
     IN  found' = verdict /\ Ends(Result(verdict))
  /\ UNCHANGED <<targetVars, tracefsVars, mapVars, kprobes, fmt, probe, out, read, boundVars>>

\* With the instance goes what it had enabled
Rmdir ==
  /\ Goto("rmdir", "remove")
  /\ instance' = FALSE /\ enabled' = {} /\ trace' = << >>
  /\ UNCHANGED <<targetVars, workdir, registered, mapVars, err, kprobes, fmt,
                 resultVars, boundVars>>

\* A kprobe that is enabled cannot be removed
RemoveKprobe ==
  /\ pc = "remove"
  /\ \/ /\ kprobes = {} /\ pc' = "cleanup" /\ UNCHANGED <<kprobes, registered>>
     \/ /\ kprobes # {} /\ UNCHANGED pc
        /\ LET k == CHOOSE k \in kprobes : TRUE
           IN  /\ kprobes' = kprobes \ {k}
               /\ registered' = IF k \in enabled THEN registered ELSE registered \ {k}
  /\ UNCHANGED <<targetVars, workdir, instance, enabled, trace, mapVars, err, fmt,
                 resultVars, boundVars>>

CleanupProbe ==
  /\ Goto("cleanup", "done")
  /\ workdir' = FALSE
  /\ UNCHANGED <<targetVars, instance, registered, enabled, trace, mapVars, err,
                 kprobes, fmt, resultVars, boundVars>>

-----------------------------------------------------------------------------
(* Failures and interrupts *)

Strikes == faults < MaxFaults /\ faults' = faults + 1 /\ UNCHANGED noise

\* stage_probe() removes the directory it has made, if it can, and main() returns
StagingFails ==
  /\ pc \in {"mktemp", "put", "compile"} /\ Strikes
  /\ pc' = "done" /\ Ends("staging")
  /\ \/ workdir' = FALSE /\ UNCHANGED stuck
     \/ UNCHANGED workdir /\ stuck' = stuck \cup {"workdir"}
  /\ UNCHANGED <<targetVars, instance, registered, enabled, trace, mapVars, kprobes, fmt,
                 resultVars, cut>>

SetupFails ==
  /\ pc \in {"mkdir", "setup"} /\ Strikes
  /\ pc' = "rmdir" /\ Ends("setup")
  /\ UNCHANGED <<targetVars, tracefsVars, mapVars, kprobes, fmt, resultVars, cut, stuck>>

\* A kprobe that is not taken is passed over; one that cannot be enabled stays
KprobeFails ==
  /\ \/ pc = "register" /\ fmt \in DOMAIN MAP_PAGES /\ UNCHANGED pc
     \/ Goto("enable", "register")
  /\ Strikes
  /\ fmt' = fmt + 1
  /\ UNCHANGED <<targetVars, tracefsVars, mapVars, err, kprobes, resultVars, cut, stuck>>

ReadFails ==
  /\ Goto("cat", "findings") /\ Strikes
  /\ read' = None
  /\ UNCHANGED <<targetVars, tracefsVars, mapVars, err, kprobes, fmt, probe, out, found, cut,
                 stuck>>

\* A removal of the cleanup fails, and none of their results is looked at: somebody
\* reads the instance's trace, when neither it nor its kprobes can go, or the command
\* does not get through
RemovalFails ==
  /\ \/ Goto("rmdir", "remove") /\ stuck' = stuck \cup {"instance"} /\ UNCHANGED kprobes
     \/ /\ pc = "remove" /\ kprobes # {} /\ UNCHANGED pc
        /\ stuck' = stuck \cup {"kprobes"} /\ kprobes' = kprobes \ {CHOOSE k \in kprobes : TRUE}
     \/ Goto("cleanup", "done") /\ stuck' = stuck \cup {"workdir"} /\ UNCHANGED kprobes
  /\ Strikes
  /\ UNCHANGED <<targetVars, tracefsVars, mapVars, err, fmt, resultVars, cut>>

\* The finally removes what the run knows of; outside of the try nothing does
Interrupt ==
  /\ pc # "done" /\ Strikes
  /\ Ends("interrupted")
  /\ pc' = IF pc \in Guarded THEN "rmdir" ELSE "done"
  /\ cut' = (cut \/ pc \notin Guarded \/ pc = "append")
  /\ UNCHANGED <<targetVars, tracefsVars, mapVars, kprobes, fmt, resultVars, stuck>>

Init ==
  /\ driver \in {"nvme", "vfio-pci", "none"} /\ translated \in BOOLEAN
  /\ symbols \in Kernels
  /\ workdir = FALSE /\ instance = FALSE
  /\ registered = {} /\ enabled = {} /\ trace = << >>
  /\ map = None /\ mapped = << >>
  /\ pc = "check" /\ err = "none" /\ kprobes = {} /\ fmt = 1
  /\ probe = "none" /\ out = NoOutput /\ read = << >> /\ found = None
  /\ cut = FALSE /\ stuck = {} /\ noise = 0 /\ faults = 0

Next ==
  \/ CheckTarget \/ Mktemp \/ PutSource \/ Compile \/ Mkdir \/ Setup
  \/ Register \/ AppendName \/ Enable
  \/ StartProbe \/ MapPages \/ ProbePasses \/ ProbeFails \/ OtherMaps \/ Overwritten
  \/ ReadTrace \/ Conclude \/ Rmdir \/ RemoveKprobe \/ CleanupProbe
  \/ StagingFails \/ SetupFails \/ KprobeFails \/ ReadFails \/ RemovalFails \/ Interrupt

Spec == Init /\ [][Next]_vars

-----------------------------------------------------------------------------
(* Properties *)

\* The type of every variable.
TypeOK ==
  /\ driver \in {"nvme", "vfio-pci", "none"} /\ translated \in BOOLEAN
  /\ symbols \in SUBSET Formats
  /\ workdir \in BOOLEAN /\ instance \in BOOLEAN
  /\ registered \in SUBSET Formats /\ enabled \in SUBSET Formats
  /\ kprobes \in SUBSET Formats
  /\ pc \in Steps /\ fmt \in 1..(Len(MAP_PAGES) + 1)
  /\ cut \in BOOLEAN /\ stuck \subseteq Removals
  /\ noise \in {0, 1} /\ faults \in 0..MaxFaults

\* "removes the instance and its kprobes afterward", and the probe's directory: once
\* a run is over nothing of it is left on the target, whichever of its other commands
\* failed or was interrupted, but for what a removal itself failed for: a directory
\* that could not be removed, and kprobes that could not, or whose instance could
\* not.  Except after an interrupt between a kprobe and its name in the list, outside
\* of the try, or of the cleanup itself.
NothingLeft ==
  pc = "done" /\ ~cut =>
    /\ workdir => "workdir" \in stuck
    /\ instance => "instance" \in stuck
    /\ registered # {} => {"instance", "kprobes"} \cap stuck # {}

\* The verdict is true of the probe's own mapping, whoever else mapped at the
\* same IOVA, whatever the ring buffer lost and wherever the kernel keeps the
\* op's arguments: the largest page and the number of pages are what the kernel
\* used, the domain is named only when it lacks a page that would have fit, and
\* the addresses or the range only when no larger page could be used at all.
VerdictTrue ==
  err = "ok" /\ found # None =>
    LET bigger == {p \in Powers : /\ p > found.largest /\ p <= map.nbytes
                                  /\ Usable(p, map.iova, map.paddr, map.nbytes)}
    IN  /\ Covered(mapped) = map.nbytes
        /\ found.largest = Max({mapped[i].size : i \in DOMAIN mapped})
        /\ found.pages = Pages(mapped)
        /\ IF found.cap = {"domain"} THEN bigger # {} /\ bigger \cap map.domain = {}
                                     ELSE found.cap # {} /\ bigger = {}

\* A run in which nothing went wrong is not failed by its findings: what other
\* processes map at the same IOVA after the probe's first call is left out.
NoFalseAlarm ==
  err = "disagree" => \/ faults > 0 \/ map.slots # "same"
                      \/ Caller(read, map.iova) = "other"

\* "an empty trace would read like no mappings": a run that ends well had the
\* kernel translate and map the whole buffer while it was recording, and comes
\* with a verdict unless no kprobe could be registered.
OkMeansTraced ==
  err = "ok" => /\ translated /\ Covered(mapped) = map.nbytes
                /\ probe = "passed"
                /\ found = None => symbols = {} \/ faults > 0
=============================================================================
