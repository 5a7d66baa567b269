----------------------------- MODULE DocsServe -----------------------------
(***************************************************************************)
(* 'aisio-docs-serve', docs/tooling/aisio_docs.py with its plots.py: the   *)
(* main thread, which draws the plots of the HTML pages and then serves    *)
(* them, the watcher's thread, which builds the PDF when a Markdown file   *)
(* has changed, and the status and PDF servers.  Both threads draw with    *)
(* matplotlib's pyplot, whose list of figures is the process's.            *)
(*                                                                         *)
(* The author edits, the archives may not be fetched yet, builds fail and  *)
(* the process ends and is started again.                                  *)
(***************************************************************************)
EXTENDS Integers, Sequences, SequencesExt

CONSTANTS
  Plots,      \* the plots that are drawn, in the order of make_plots
  MaxEdits,   \* bound: edits of the text
  MaxServes   \* bound: starts of the process

VARIABLES
  \* the author's files
  text,       \* the version of the Markdown files
  fetched,    \* the plots' archives are there, not just Git LFS pointers to them
  data,       \* the images for which they have data: an archive from before a plot
              \* was introduced has none
  \* the process
  serving,
  events,     \* changes of Markdown files that the watcher has not handled
  recent,     \* the last build began less than the debounce ago: _last
  status,     \* _build_status
  step, at,   \* what each thread does, and which plot it is at
  figures,    \* pyplot's open figures, the current one last
  \* the build directory
  image,      \* what is drawn in each image file of the HTML and of the PDF
  source,     \* the version of the text in the LaTeX files
  pdf,        \* and in the aisio.pdf that the PDF server sends: None is a 404,
              \* Torn while make writes it
  \* history and bounds
  built,      \* the version in the last PDF that was built
  asked,      \* the version of the text when the last build began
  told,       \* the version of the text after the last change the watcher was told of
  lost,       \* the last build did not begin: its event is gone, the status is not its
  overlap,    \* both threads have been drawing at the same time
  edits, serves

authorVars  == <<text, fetched, data, edits>>
processVars == <<serving, serves>>
watchVars   == <<events, recent, asked, told, lost>>
drawVars    == <<figures, image, overlap>>
buildVars   == <<source, pdf, built>>
vars == <<authorVars, processVars, watchVars, status, step, at, drawVars, buildVars>>

Threads == {"html", "pdf"}
None    == 0
Torn    == -1
Names   == {Plots[i].image : i \in DOMAIN Plots}
Drawing == {"read", "open", "save", "close"}

\* The plots: the image each makes, and whether a plot whose data the archive
\* lacks raises an exception or draws nothing
barplot_tool == [image |-> "barplot-tool", lacking |-> "raises"]

barplot_sat == [image |-> "barplot-sat", lacking |-> "raises"]

lineplot(sweep) == [image |-> sweep, lacking |-> "skips"]

iommu_overhead == [image |-> "iommu-overhead-throughput", lacking |-> "raises"]

iommu_overhead_delta == [image |-> "iommu-overhead-delta", lacking |-> "raises"]

iommu_overhead_latency == [image |-> "iommu-overhead-latency", lacking |-> "raises"]

make_plots ==
  <<barplot_tool, barplot_sat,
    lineplot("spdk-ncpus"), lineplot("spdk-qdepth"), lineplot("spdk-iosize"),
    lineplot("spdk-ndevs"), lineplot("upcie-ncpus"), lineplot("cuda-iosize"),
    lineplot("cuda-iosize-sm"), lineplot("cuda-qdepth"), lineplot("cuda-qdepth-sm"),
    lineplot("cuda-qdepth-occupancy"),
    iommu_overhead, iommu_overhead_delta, iommu_overhead_latency>>

ASSUME DocsAssumption ==
  /\ Plots \in Seq(Range(make_plots)) /\ Plots # << >>
  /\ MaxEdits \in Nat /\ MaxServes \in Nat

\* What comes of a plot: the archive is opened, and the plot's file is read in it
Reading(plot) ==
  CASE ~fetched                       -> "raises"
    [] fetched /\ plot.image \in data -> "draws"
    [] OTHER                          -> plot.lacking

Plot(t) == Plots[at[t]]

\* Both threads use pyplot
Overlapping(steps) == \A t \in Threads : steps[t] \in Drawing

Moves(t, to) ==
  /\ step' = [step EXCEPT ![t] = to]
  /\ overlap' = (overlap \/ Overlapping(step'))

\* _set_build_status() and the badge of the status page
SetStatus(value) == status' = value

Badge == CASE status = "ok"      -> "OK"
           [] status = "running" -> "Building"
           [] status = "error"   -> "Error"
           [] status = "none"    -> "Unknown"

-----------------------------------------------------------------------------
(* The author *)

\* A save creates or modifies a file, or both.  The watcher's queue leaves out an
\* event that repeats its last one
Edit ==
  /\ edits < MaxEdits
  /\ text' = text + 1 /\ edits' = edits + 1
  /\ IF serving
       THEN /\ events' \in {events + 1, events + 2} \cup (IF events > 0 THEN {events} ELSE {})
            /\ told' = text'
       ELSE UNCHANGED <<events, told>>
  /\ UNCHANGED <<fetched, data, processVars, recent, asked, lost, status, step, at, drawVars, buildVars>>

\* A file is removed, or another one moved over it, as 'sed -i' and many editors save:
\* the watcher has no method for these events
Replace ==
  /\ edits < MaxEdits /\ serving
  /\ text' = text + 1 /\ edits' = edits + 1
  /\ UNCHANGED <<fetched, data, processVars, watchVars, status, step, at, drawVars, buildVars>>

\* 'git lfs pull'
Fetch ==
  /\ ~fetched /\ fetched' = TRUE
  /\ data' \in SUBSET Names
  /\ UNCHANGED <<text, edits, processVars, watchVars, status, step, at, drawVars, buildVars>>

-----------------------------------------------------------------------------
(* make_plots() and plots.py, in either thread *)

\* On to the next plot.  All of them take longer than the debounce
NextPlot(t) ==
  IF at[t] < Len(Plots)
    THEN at' = [at EXCEPT ![t] = @ + 1] /\ Moves(t, "read")
    ELSE /\ t = "pdf" => ~recent
         /\ Moves(t, IF t = "pdf" THEN "sphinx" ELSE "autobuild")
         /\ UNCHANGED at

Read(t) ==
  /\ step[t] = "read" /\ Reading(Plot(t)) = "draws"
  /\ Moves(t, "open")
  /\ UNCHANGED <<authorVars, processVars, watchVars, status, at, figures, image, buildVars>>

Skip(t) ==
  /\ step[t] = "read" /\ Reading(Plot(t)) = "skips"
  /\ NextPlot(t)
  /\ UNCHANGED <<authorVars, processVars, watchVars, status, figures, image, buildVars>>

\* plt.subplots(): a figure of the thread's own, and pyplot's current one
Open(t) ==
  /\ step[t] = "open"
  /\ figures' = Append(figures, <<t, Plot(t).image>>)
  /\ Moves(t, "save")
  /\ UNCHANGED <<authorVars, processVars, watchVars, status, at, image, buildVars>>

\* Mutant of Save: figure number 1, the oldest that is open
SaveFirst(t) ==
  /\ step[t] = "save"
  /\ image' = [image EXCEPT ![t][Plot(t).image] = figures[1][2]]
  /\ Moves(t, "close")
  /\ UNCHANGED <<authorVars, processVars, watchVars, status, at, figures, buildVars>>

\* plt.savefig(): the current figure, whichever it is
Save(t) ==
  /\ step[t] = "save"
  /\ image' = [image EXCEPT ![t][Plot(t).image] = Last(figures)[2]]
  /\ Moves(t, "close")
  /\ UNCHANGED <<authorVars, processVars, watchVars, status, at, figures, buildVars>>

\* plt.close(fig): the thread's own figure, the last of its name
Close(t) ==
  /\ step[t] = "close"
  /\ \E i \in DOMAIN figures :
       /\ figures[i] = <<t, Plot(t).image>>
       /\ \A j \in DOMAIN figures : j > i => figures[j] # figures[i]
       /\ figures' = RemoveAt(figures, i)
  /\ NextPlot(t)
  /\ UNCHANGED <<authorVars, processVars, watchVars, status, image, buildVars>>

-----------------------------------------------------------------------------
(* The watcher's thread: _trigger() and build_pdf() *)

\* An event that is handled within half a second of the last build's start
Debounced ==
  /\ serving /\ step["pdf"] = "idle" /\ events > 0 /\ recent
  /\ events' = events - 1
  /\ UNCHANGED <<authorVars, processVars, recent, asked, told, lost, status, step, at, drawVars,
                 buildVars>>

\* find_docs_src() finds no conf.py, as while another branch is checked out: this is
\* before the status is set, so it stays that of the build before
NoSource ==
  /\ serving /\ step["pdf"] = "idle" /\ events > 0 /\ ~recent
  /\ events' = events - 1 /\ recent' = TRUE /\ lost' = TRUE
  /\ UNCHANGED <<authorVars, processVars, asked, told, status, step, at, drawVars, buildVars>>

\* Mutant of BeginBuild: the build is not marked as in progress
BeginUnmarked ==
  /\ serving /\ step["pdf"] = "idle" /\ events > 0 /\ ~recent
  /\ events' = events - 1 /\ recent' = TRUE /\ asked' = text /\ lost' = FALSE
  /\ Moves("pdf", "read") /\ at' = [at EXCEPT !["pdf"] = 1]
  /\ UNCHANGED <<authorVars, processVars, told, status, figures, image, buildVars>>

BeginBuild ==
  /\ serving /\ step["pdf"] = "idle" /\ events > 0 /\ ~recent
  /\ events' = events - 1 /\ recent' = TRUE /\ asked' = text /\ lost' = FALSE
  /\ SetStatus("running")
  /\ Moves("pdf", "read") /\ at' = [at EXCEPT !["pdf"] = 1]
  /\ UNCHANGED <<authorVars, processVars, told, figures, image, buildVars>>

DebounceEnds ==
  /\ recent /\ recent' = FALSE
  /\ UNCHANGED <<authorVars, processVars, events, asked, told, lost, status, step, at, drawVars,
                 buildVars>>

\* sphinx-build reads the Markdown files and writes the LaTeX files
Sphinx ==
  /\ step["pdf"] = "sphinx"
  /\ source' = text
  /\ Moves("pdf", "make")
  /\ UNCHANGED <<authorVars, processVars, watchVars, status, at, figures, image, pdf, built>>

\* make writes aisio.pdf in place
MakeWrites ==
  /\ step["pdf"] = "make" /\ pdf # Torn
  /\ pdf' = Torn
  /\ UNCHANGED <<authorVars, processVars, watchVars, status, step, at, drawVars, source, built>>

\* Mutant of MakeEnds: the debounce runs from the end of a build
MakeEndsDebouncing ==
  /\ step["pdf"] = "make" /\ pdf = Torn
  /\ pdf' = source /\ built' = source /\ recent' = TRUE
  /\ SetStatus("ok") /\ Moves("pdf", "idle")
  /\ UNCHANGED <<authorVars, processVars, events, asked, told, lost, at, figures, image, source>>

\* latex_theme.py names the PDF aisio.pdf already: renaming it changes nothing.
\* LaTeX needs the file of every figure
MakeEnds ==
  /\ step["pdf"] = "make" /\ pdf = Torn
  /\ \A p \in Names : image["pdf"][p] # "none"
  /\ pdf' = source /\ built' = source
  /\ SetStatus("ok") /\ Moves("pdf", "idle")
  /\ UNCHANGED <<authorVars, processVars, watchVars, at, figures, image, source>>

\* Mutant of BuildFails: only the watcher sees the exception
BuildFailsUnseen ==
  /\ step["pdf"] \in {"read", "save", "sphinx", "make"}
  /\ Moves("pdf", "idle")
  /\ UNCHANGED <<authorVars, processVars, watchVars, status, at, figures, image, buildVars>>

\* A plot has no data or cannot be read, drawing it fails and leaves its figure open,
\* sphinx warns, or LaTeX fails
BuildFails ==
  /\ step["pdf"] \in {"read", "save", "sphinx", "make"}
  /\ SetStatus("error") /\ Moves("pdf", "idle")
  /\ UNCHANGED <<authorVars, processVars, watchVars, at, figures, image, buildVars>>

-----------------------------------------------------------------------------
(* The process: serve() *)

\* The watcher and the servers are started before the plots are drawn
Serve ==
  /\ ~serving /\ serves < MaxServes
  /\ serving' = TRUE /\ serves' = serves + 1
  /\ events' = 0 /\ recent' = FALSE /\ lost' = FALSE /\ SetStatus("none")
  /\ step' = [html |-> "read", pdf |-> "idle"]
  /\ at' = [t \in Threads |-> 1] /\ figures' = << >>
  /\ UNCHANGED <<authorVars, asked, told, image, overlap, buildVars>>

\* The main thread fails to draw, the HTML server ends, or the author interrupts
\* it: the other threads end with it, wherever they are
ServeEnds ==
  /\ serving
  /\ serving' = FALSE
  /\ SetStatus("none")
  /\ step' = [t \in Threads |-> "idle"]
  /\ UNCHANGED <<authorVars, serves, watchVars, at, drawVars, buildVars>>

Init ==
  /\ text = 1 /\ edits = 0
  /\ fetched \in BOOLEAN /\ data \in IF fetched THEN SUBSET Names ELSE {{}}
  /\ serving = FALSE /\ serves = 0
  /\ events = 0 /\ recent = FALSE /\ asked = 0 /\ told = 0 /\ lost = FALSE
  /\ status = "none"
  /\ step = [t \in Threads |-> "idle"] /\ at = [t \in Threads |-> 1]
  /\ figures = << >>
  /\ image = [t \in Threads |-> [p \in Names |-> "none"]]
  /\ source = 0 /\ pdf = None /\ built = 0 /\ overlap = FALSE

Draw(t) == Read(t) \/ Skip(t) \/ Open(t) \/ Save(t) \/ Close(t)
Watch   == Debounced \/ NoSource \/ BeginBuild \/ Sphinx \/ MakeWrites \/ MakeEnds \/ BuildFails

Next ==
  \/ Edit \/ Replace \/ Fetch \/ DebounceEnds \/ Serve \/ ServeEnds
  \/ \E t \in Threads : Draw(t)
  \/ Watch

\* A thread that can go on does, and the clock does
Fairness == WF_vars(Watch) /\ WF_vars(Draw("pdf")) /\ WF_vars(DebounceEnds)

Spec == Init /\ [][Next]_vars /\ Fairness

-----------------------------------------------------------------------------
(* Properties *)

\* The type of every variable.
TypeOK ==
  /\ text \in Nat /\ edits \in 0..MaxEdits
  /\ fetched \in BOOLEAN /\ data \subseteq Names
  /\ serving \in BOOLEAN /\ serves \in 0..MaxServes
  /\ events \in Nat /\ recent \in BOOLEAN 
  /\ asked \in Nat /\ told \in Nat /\ lost \in BOOLEAN
  /\ status \in {"none", "running", "ok", "error"}
  /\ step \in [Threads -> Drawing \cup {"idle", "sphinx", "make", "autobuild"}]
  /\ at \in [Threads -> DOMAIN Plots]
  /\ figures \in Seq(Threads \X Names)
  /\ image \in [Threads -> [Names -> Names \cup {"none"}]]
  /\ source \in Nat /\ pdf \in Nat \cup {Torn} /\ built \in Nat
  /\ overlap \in BOOLEAN

\* Under the badge OK the PDF server serves a whole PDF, the last one built, and
\* it has every change of a file that the watcher was told of, saved in place or
\* created, unless an event of a change is still in the queue, or was lost on a
\* build that did not begin.  Of a removal, and a file moved over another, it is told
\* nothing: OK then stays, and the PDF without that change.
OkIsCurrent ==
  Badge = "OK" => pdf = built /\ (built >= told \/ events > 0 \/ lost)

\* Every file a build leaves holds the figure it is named for, as long as the
\* two threads have not been drawing at once.
OwnFigures ==
  \A t \in Threads, p \in Names : image[t][p] \in {"none", p} \/ overlap

\* docs/src/experiments: each figure under its own caption.  Under the badge OK
\* the PDF shows in each place the figure that belongs there.
OkMeansOwnFigures ==
  Badge = "OK" => \A p \in Names : image["pdf"][p] = p

\* The author stops editing: the status page then never says OK for good of a text
\* older than the last change the watcher was told of, unless its last event was lost
\* on a build that did not begin; and a build that runs ends.
SettlesCurrent ==
  /\ <>[](Badge = "OK" => pdf >= told \/ lost)
  /\ Badge = "Building" ~> Badge # "Building"

\* What is served and shown implements what is promised.
Live == INSTANCE LiveDocs WITH report <- built, badge <- Badge

LiveSpec == Live!Spec
=============================================================================
