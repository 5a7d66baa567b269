---------------------------- MODULE TraceFindings ----------------------------
(***************************************************************************)
(* scripts/iommu_trace_gpu.py: what it finds in the records of a trace.    *)
(* Pure operators: which records are the probe's, whether they agree with  *)
(* the probe's own output, and what capped the page size of the mapping.   *)
(*                                                                         *)
(* A trace is a sequence of events [by, at, iova, paddr, size, count]:     *)
(* "map" is the iommu:map tracepoint, "call" the kprobe on map_pages.      *)
(* Addresses and sizes are scaled down, to AddressBits bits.               *)
(***************************************************************************)
EXTENDS Integers, Sequences, FiniteSetsExt, SequencesExt

CONSTANTS
  SmallestPage,  \* SMALLEST_PAGE
  AddressBits,   \* bound: the width of an address, 64
  None           \* Python's None, as a process, an address or an event

\* Two to the power of k
Pow[k \in 0..AddressBits] == IF k = 0 THEN 1 ELSE 2 * Pow[k - 1]

ASSUME FindingsAssumption ==
  /\ AddressBits \in Nat
  /\ \E k \in 0..AddressBits : SmallestPage = Pow[k]

Powers == {Pow[k] : k \in 0..AddressBits}

Smaller(a, b) == IF a < b THEN a ELSE b
Distance(a, b) == IF a < b THEN b - a ELSE a - b
AlignUp(addr, page) == ((addr + page - 1) \div page) * page

\* The largest power of two that addr is a multiple of: addr & -addr
Alignment(addr) ==
  IF addr = 0 THEN Pow[AddressBits] ELSE Max({p \in Powers : addr % p = 0})

FitsIn(iova, nbytes, page) == AlignUp(iova, page) + page <= iova + nbytes

\* Double the page for as long as the next one still fits
LargestFit(iova, nbytes) ==
  Max({p \in Powers : /\ p >= SmallestPage
                      /\ \A q \in Powers : q > SmallestPage /\ q <= p => FitsIn(iova, nbytes, q)})

-----------------------------------------------------------------------------
(* The probe's records *)

\* The process of the first call at this IOVA: IOVAs repeat across domains
Caller(trace, iova) ==
  LET hits == {i \in DOMAIN trace : trace[i].at = "call" /\ trace[i].iova = iova}
  IN  IF hits = {} THEN None ELSE trace[Min(hits)].by

MapEvent(trace, iova) ==
  LET own == {i \in DOMAIN trace : /\ trace[i].by = Caller(trace, iova)
                                   /\ trace[i].at = "map" /\ trace[i].iova = iova}
  IN  IF own = {} THEN None ELSE trace[Min(own)]

\* As tuples: by iova, then paddr, size and count
After(a, b) ==
  \/ a.iova > b.iova
  \/ a.iova = b.iova /\ a.paddr > b.paddr
  \/ a.iova = b.iova /\ a.paddr = b.paddr /\ a.size > b.size
  \/ a.iova = b.iova /\ a.paddr = b.paddr /\ a.size = b.size /\ a.count > b.count

\* In front of the first that comes after it
Insert(calls, e) ==
  LET place == CHOOSE k \in 1..(Len(calls) + 1) :
                 /\ \A j \in 1..(k - 1) : ~After(calls[j], e)
                 /\ k <= Len(calls) => After(calls[k], e)
  IN  InsertAt(calls, place, e)

\* The calls of these processes at these addresses, by address
Sorted(trace, processes, addresses) ==
  LET sorted[i \in 0..Len(trace)] ==
        IF i = 0 THEN << >>
        ELSE IF /\ trace[i].at = "call" /\ trace[i].by \in processes
                /\ trace[i].iova \in addresses
             THEN Insert(sorted[i - 1], trace[i]) ELSE sorted[i - 1]
  IN  sorted[Len(trace)]

\* Mutant of Calls: every process's calls in the range
CallsOfAll(trace, iova, nbytes) ==
  Sorted(trace, {trace[i].by : i \in DOMAIN trace}, iova..(iova + nbytes - 1))

Calls(trace, iova, nbytes) ==
  Sorted(trace, {Caller(trace, iova)}, iova..(iova + nbytes - 1))

\* The sum of n numbers
Total(n, worth) ==
  LET sum[i \in 0..n] == IF i = 0 THEN 0 ELSE sum[i - 1] + worth[i]
  IN  sum[n]

Pages(calls)   == Total(Len(calls), [i \in 1..Len(calls) |-> calls[i].count])
Covered(calls) == Total(Len(calls), [i \in 1..Len(calls) |-> calls[i].size * calls[i].count])

-----------------------------------------------------------------------------
(* check_records, verdict and mapping_findings *)

\* Aligned to its own page size, at both ends of the translation
WellFormed(call) ==
  /\ call.size >= SmallestPage
  /\ Alignment(call.size) = call.size
  /\ Smaller(Alignment(call.iova), Alignment(call.paddr)) >= call.size

Follows(cur, next) ==
  /\ next.iova = cur.iova + cur.size * cur.count
  /\ next.paddr - next.iova = cur.paddr - cur.iova

\* Mutant of Agree: the calls need not begin where the other observers say
AgreeAnywhere(iova, nbytes, misc, event, calls) ==
  /\ event # None /\ calls # << >>
  /\ \A i \in DOMAIN calls : WellFormed(calls[i])
  /\ Covered(calls) = event.size /\ event.size = nbytes
  /\ \A i \in 1..(Len(calls) - 1) : Follows(calls[i], calls[i + 1])

\* Every observer saw the same mapping
Agree(iova, nbytes, misc, event, calls) ==
  /\ event # None /\ calls # << >>
  /\ \A i \in DOMAIN calls : WellFormed(calls[i])
  /\ Covered(calls) = event.size /\ event.size = nbytes
  /\ \A i \in 1..(Len(calls) - 1) : Follows(calls[i], calls[i + 1])
  /\ calls[1].paddr = event.paddr
  /\ misc \in {None, calls[1].paddr}

\* The page size the mapping got, what capped it, and its number of pages
Verdict(iova, nbytes, calls) ==
  LET largest == Max({calls[i].size : i \in DOMAIN calls})
      linesUp == Alignment(Distance(iova, calls[1].paddr))
      fits    == LargestFit(iova, nbytes)
      allowed == Smaller(linesUp, fits)
  IN  [largest |-> largest,
       pages   |-> Pages(calls),
       cap     |-> IF largest < allowed THEN {"domain"}
                   ELSE {why \in {"addresses", "range"} :
                           allowed = IF why = "range" THEN fits ELSE linesUp}]

\* The first dma_addr after "== misc device": when that import printed none,
\* the search runs on into the --bdf import
MiscAddress(out) == IF out.misc = None THEN out.iova ELSE out.misc

\* A verdict, or None when the observers disagree
Findings(trace, out) ==
  LET misc  == MiscAddress(out)
      calls == Calls(trace, out.iova, out.nbytes)
  IN  IF /\ out.iova # None /\ out.iova # misc
         /\ Agree(out.iova, out.nbytes, misc, MapEvent(trace, out.iova), calls)
      THEN Verdict(out.iova, out.nbytes, calls)
      ELSE None

-----------------------------------------------------------------------------
(* What a verdict is to be, said without the trace *)

\* A page of this size could back part of the mapping, in a domain that has it
Usable(page, iova, paddr, nbytes) ==
  \E addr \in iova..(iova + nbytes - page) :
    addr % page = 0 /\ (addr - iova + paddr) % page = 0
=============================================================================
