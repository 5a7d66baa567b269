-------------------------- MODULE DocsServeProofs --------------------------
(***************************************************************************)
(* What holds of every run of 'aisio-docs-serve', for any plots, edits and *)
(* restarts: its badge OK is true, it implements what LiveDocs promises,   *)
(* and the figures are right while its threads draw one after the other.   *)
(***************************************************************************)
EXTENDS DocsServe, SequenceTheorems, TLAPS

USE DEF authorVars, processVars, watchVars, drawVars, buildVars

Building == step["pdf"] # "idle"

\* The queue, the debounce and the versions, between the text and the PDF
CurrentInv ==
  /\ text \in Nat /\ source \in Nat /\ built \in Nat /\ events \in Nat
  /\ asked \in Nat /\ told \in Nat
  /\ step \in [Threads -> Drawing \cup {"idle", "sphinx", "make", "autobuild"}]
  /\ status \in {"none", "running", "ok", "error"}
  /\ built <= source /\ source <= text /\ asked <= text /\ told <= text
  /\ Building <=> status = "running"
  /\ status # "none" => serving
  /\ step["pdf"] # "autobuild"
  /\ step["pdf"] \in {"sphinx", "make"} => ~recent
  /\ status = "ok" => ~recent \/ lost
  /\ step["pdf"] = "make" => asked <= source /\ (source >= told \/ events > 0)
  /\ status = "ok" => source >= told \/ events > 0 \/ lost
  /\ status = "ok" => pdf = built /\ built = source

\* The steps of a thread that only draw
LEMMA Drawings ==
  ASSUME CurrentInv, NEW t \in Threads, Draw(t)
  PROVE  /\ step[t] \in Drawing
         /\ UNCHANGED <<text, status, serving, events, recent, asked, told, lost, source, pdf, built>>
         /\ \E to \in Drawing \cup {IF t = "pdf" THEN "sphinx" ELSE "autobuild"} :
              /\ step' = [step EXCEPT ![t] = to]
              /\ to = "sphinx" => ~recent
<1> USE DEF Moves, Drawing, NextPlot
<1>1. CASE Read(t)
  BY <1>1 DEF Read
<1>2. CASE Skip(t)
  BY <1>2 DEF Skip
<1>3. CASE Open(t)
  BY <1>3 DEF Open
<1>4. CASE Save(t)
  BY <1>4 DEF Save
<1>5. CASE Close(t)
  BY <1>5 DEF Close
<1> QED
  BY <1>1, <1>2, <1>3, <1>4, <1>5 DEF Draw

\* CurrentInv is an invariant.
LEMMA CurrentInvariant == Spec => []CurrentInv
<1>1. Init => CurrentInv
  BY DEF Init, CurrentInv, Building, Threads
<1>2. CurrentInv /\ [Next]_vars => CurrentInv'
  <2> SUFFICES ASSUME CurrentInv, [Next]_vars PROVE CurrentInv'
    OBVIOUS
  <2> USE DEF CurrentInv, Building, Threads, Moves, SetStatus
  <2>1. CASE Edit
    BY <2>1 DEF Edit
  <2>2. CASE Replace \/ Fetch
    BY <2>2 DEF Replace, Fetch
  <2>3. CASE DebounceEnds
    BY <2>3 DEF DebounceEnds
  <2>4. CASE Serve
    BY <2>4 DEF Serve, Drawing
  <2>5. CASE ServeEnds
    BY <2>5 DEF ServeEnds
  <2>6. ASSUME NEW t \in Threads, Draw(t)  PROVE CurrentInv'
    BY <2>6, Drawings DEF Drawing
  <2>7. CASE Debounced \/ NoSource
    BY <2>7 DEF Debounced, NoSource
  <2>8. CASE BeginBuild
    BY <2>8 DEF BeginBuild, Drawing
  <2>9. CASE Sphinx
    BY <2>9 DEF Sphinx
  <2>10. CASE MakeWrites
    BY <2>10 DEF MakeWrites
  <2>11. CASE MakeEnds
    BY <2>11 DEF MakeEnds
  <2>12. CASE BuildFails
    BY <2>12 DEF BuildFails
  <2>13. CASE UNCHANGED vars
    BY <2>13 DEF vars
  <2> QED
    BY <2>1, <2>2, <2>3, <2>4, <2>5, <2>6, <2>7, <2>8, <2>9, <2>10, <2>11, <2>12, <2>13
       DEF Next, Watch
<1> QED
  BY <1>1, <1>2, PTL DEF Spec

(* _trigger() and build_pdf(): under the badge OK the PDF is whole, the last one *)
(* built, and has every change the watcher was told of, unless an event is still *)
(* in the queue or was lost on a build that did not begin.                       *)
THEOREM OkCurrent == Spec => []OkIsCurrent
<1>1. CurrentInv => OkIsCurrent
  BY DEF CurrentInv, OkIsCurrent, Badge
<1> QED
  BY <1>1, CurrentInvariant, PTL

-----------------------------------------------------------------------------

(* The watcher, its builds and the servers implement the promise of LiveDocs. *)
THEOREM Implements == Spec => LiveSpec
<1>1. Init => Live!Init
  BY DEF Init, Live!Init, Badge
<1>2. CurrentInv /\ [Next]_vars => [Live!Next]_(Live!vars)
  <2> SUFFICES ASSUME CurrentInv, [Next]_vars PROVE Live!Next \/ UNCHANGED Live!vars
    OBVIOUS
  <2> USE DEF Live!vars, Badge, SetStatus
  <2>1. CASE Edit \/ Replace
    BY <2>1 DEF Edit, Replace, Live!Next, Live!Edit
  <2>2. CASE Serve \/ ServeEnds
    BY <2>2 DEF Serve, ServeEnds, Live!Next, Live!Restart
  <2>3. CASE BeginBuild
    <3>1. Badge # "Building" /\ Badge' = "Building" /\ asked' = text /\ UNCHANGED <<text, built>>
      BY <2>3 DEF BeginBuild, CurrentInv, Building
    <3> QED
      BY <3>1 DEF Live!Next, Live!Build
  <2>4. CASE MakeEnds
    <3>1. Badge = "Building" /\ Badge' = "OK" /\ UNCHANGED <<text, asked>> /\ built' = source
      BY <2>4 DEF MakeEnds, CurrentInv, Building
    <3>2. source \in asked..text
      BY <2>4 DEF MakeEnds, CurrentInv
    <3> QED
      BY <3>1, <3>2 DEF Live!Next, Live!Deliver
  <2>5. CASE BuildFails
    <3>1. Badge = "Building" /\ Badge' = "Error" /\ UNCHANGED <<text, asked, built>>
      BY <2>5 DEF BuildFails, CurrentInv, Building
    <3> QED
      BY <3>1 DEF Live!Next, Live!Fail
  <2>6. CASE Fetch \/ DebounceEnds \/ Debounced \/ NoSource \/ Sphinx \/ MakeWrites \/ UNCHANGED vars
    BY <2>6 DEF Fetch, DebounceEnds, Debounced, NoSource, Sphinx, MakeWrites, vars
  <2>7. ASSUME NEW t \in Threads, Draw(t)  PROVE UNCHANGED Live!vars
    BY <2>7, Drawings
  <2> QED
    BY <2>1, <2>2, <2>3, <2>4, <2>5, <2>6, <2>7 DEF Next, Watch
<1> QED
  BY <1>1, <1>2, CurrentInvariant, PTL DEF Spec, LiveSpec, Live!Spec

-----------------------------------------------------------------------------

\* The images of the plots are their names
LEMMA NamesOfPlots == \A i \in DOMAIN Plots : Plots[i].image \in Names
  BY DEF Names

\* A plot after one that is not the last is a plot
LEMMA NextOfPlots ==
  /\ 1 \in DOMAIN Plots
  /\ \A i \in DOMAIN Plots : i < Len(Plots) => i + 1 \in DOMAIN Plots
  BY DocsAssumption DEF DocsAssumption

\* The arithmetic of an index that moves down by one.
LEMMA Shifted ==
  ASSUME NEW i \in Nat, NEW k \in Nat, NEW n \in Nat, 1 <= i, i < k, k <= n
  PROVE  /\ ~(k - 1 <= i - 1) /\ (k - 1) - (i - 1) = k - i
         /\ k - i \in 1..(n - i) /\ i + (k - i) = k
         /\ k - 1 \in 1..((i - 1) + (n - i))
  OBVIOUS

\* What RemoveAt leaves of a sequence: all but the one.
LEMMA Removed ==
  ASSUME NEW S, NEW s \in Seq(S), NEW i \in DOMAIN s
  PROVE  /\ RemoveAt(s, i) \in Seq(S)
         /\ \A k \in DOMAIN s : k # i =>
              \E j \in DOMAIN RemoveAt(s, i) : RemoveAt(s, i)[j] = s[k]
<1> DEFINE first == SubSeq(s, 1, i - 1)  rest == SubSeq(s, i + 1, Len(s))
<1>i. i \in 1..Len(s) /\ Len(s) \in Nat /\ \A k \in 1..Len(s) : s[k] \in S
  OBVIOUS
<1>1. /\ first \in Seq(S) /\ Len(first) = i - 1
      /\ \A k \in 1..(i - 1) : first[k] = s[k]
  BY <1>i, SubSeqProperties
<1>2. /\ rest \in Seq(S) /\ Len(rest) = Len(s) - i
      /\ \A k \in 1..(Len(s) - i) : rest[k] = s[i + k]
  BY <1>i, SubSeqProperties
<1> DEFINE whole == first \o rest
<1> HIDE DEF first, rest
<1>3. /\ whole \in Seq(S) /\ Len(whole) = Len(first) + Len(rest)
      /\ \A k \in 1..(Len(first) + Len(rest)) :
           whole[k] = IF k <= Len(first) THEN first[k] ELSE rest[k - Len(first)]
  BY <1>1, <1>2, ConcatProperties
<1> HIDE DEF whole
<1>4. ASSUME NEW k \in 1..Len(s), k # i
      PROVE  \E j \in 1..Len(whole) : whole[j] = s[k]
  <2>1. CASE k < i
    <3>1. k \in 1..(i - 1) /\ k \in 1..Len(whole) /\ k <= Len(first)
      BY <1>i, <1>1, <1>2, <1>3, <2>1
    <3> QED
      BY <1>1, <1>2, <1>3, <3>1
  <2>2. CASE k > i
    <3>a. /\ i \in Nat /\ k \in Nat /\ Len(s) \in Nat /\ i < k /\ i >= 1 /\ k <= Len(s)
          /\ Len(first) = i - 1 /\ Len(whole) = (i - 1) + (Len(s) - i)
          /\ Len(first) + Len(rest) = Len(whole)
      BY <1>i, <1>1, <1>2, <1>3, <2>2
    <3>b. /\ ~(k - 1 <= i - 1) /\ (k - 1) - (i - 1) = k - i
          /\ k - i \in 1..(Len(s) - i) /\ i + (k - i) = k
          /\ k - 1 \in 1..((i - 1) + (Len(s) - i))
      BY <3>a, Shifted
    <3>1. /\ k - 1 \in 1..Len(whole) /\ k - 1 \in 1..(Len(first) + Len(rest))
          /\ ~(k - 1 <= Len(first)) /\ (k - 1) - Len(first) = k - i
          /\ k - i \in 1..(Len(s) - i) /\ i + (k - i) = k
      BY <3>a, <3>b, Zenon
    <3>2. whole[k - 1] = rest[k - i]
      BY <1>3, <3>1
    <3>3. rest[k - i] = s[k]
      BY <1>2, <3>1
    <3> QED
      BY <3>1, <3>2, <3>3
  <2> QED
    BY <1>4, <1>i, <2>1, <2>2
<1>5. RemoveAt(s, i) = whole
  BY DEF RemoveAt, whole, first, rest
<1>6. DOMAIN whole = 1..Len(whole) /\ DOMAIN s = 1..Len(s)
  BY <1>3
<1> QED
  BY <1>3, <1>4, <1>5, <1>6

Stepping == [Threads -> Drawing \cup {"idle", "sphinx", "make", "autobuild"}]

\* Whoever draws has a figure open
HasFigure(t) == \E i \in DOMAIN figures : figures[i] = <<t, Plot(t).image>>

FigureInv ==
  /\ step \in Stepping
  /\ at \in [Threads -> DOMAIN Plots]
  /\ image \in [Threads -> [Names -> Names \cup {"none"}]]
  /\ figures \in Seq(Threads \X Names)
  /\ overlap \in BOOLEAN
  /\ ~overlap => ~Overlapping(step)
  /\ \A t \in Threads : step[t] \in {"save", "close"} => HasFigure(t)
  /\ ~overlap => \A t \in Threads : step[t] = "save" => Last(figures) = <<t, Plot(t).image>>
  /\ OwnFigures

\* NextPlot leaves the figures alone, and its thread nowhere near one.
LEMMA NextPlots ==
  ASSUME FigureInv, NEW t \in Threads, NextPlot(t), step[t] \in {"read", "close"}
  PROVE  /\ at' \in [Threads -> DOMAIN Plots] /\ step' \in Stepping
         /\ overlap' = (overlap \/ Overlapping(step'))
         /\ step'[t] \notin {"save", "close"}
         /\ \A u \in Threads : u # t => step'[u] = step[u] /\ at'[u] = at[u]
<1> USE DEF FigureInv, Stepping, Moves
<1>1. CASE at[t] < Len(Plots)
  <2>1. at' = [at EXCEPT ![t] = @ + 1] /\ Moves(t, "read")
    BY <1>1 DEF NextPlot
  <2>2. at[t] + 1 \in DOMAIN Plots
    BY <1>1, NextOfPlots
  <2> QED
    BY <2>1, <2>2 DEF Drawing
<1>2. CASE ~(at[t] < Len(Plots))
  <2>1. Moves(t, IF t = "pdf" THEN "sphinx" ELSE "autobuild") /\ at' = at
    BY <1>2 DEF NextPlot
  <2> QED
    BY <2>1
<1> QED
  BY <1>1, <1>2

\* What a thread's own steps do to the figures and the images.
LEMMA DrawsFigures ==
  ASSUME FigureInv, NEW t \in Threads, Draw(t)
  PROVE  FigureInv'
<1> USE DEF FigureInv
<1>1. Plot(t).image \in Names
  BY NamesOfPlots DEF Plot
<1>2. CASE Read(t)
  <2>1. step' = [step EXCEPT ![t] = "open"] /\ step[t] = "read"
        /\ overlap' = (overlap \/ Overlapping(step')) /\ UNCHANGED <<at, figures, image>>
    BY <1>2 DEF Read, Moves
  <2> QED
    BY <2>1 DEF OwnFigures, Plot, HasFigure, Stepping, Drawing
<1>3. CASE Skip(t)
  <2>1. NextPlot(t) /\ step[t] = "read" /\ UNCHANGED <<image, figures>>
    BY <1>3 DEF Skip
  <2> QED
    <3>1. \A u \in Threads : step'[u] \in {"save", "close"} =>
            u # t /\ step[u] = step'[u] /\ Plot(u)' = Plot(u)
      BY <2>1, NextPlots DEF Plot
    <3>2. /\ at' \in [Threads -> DOMAIN Plots] /\ step' \in Stepping
          /\ overlap' = (overlap \/ Overlapping(step'))
      BY <2>1, NextPlots
    <3>3. \A u \in Threads : step'[u] \in {"save", "close"} => HasFigure(u)'
      BY <2>1, <3>1 DEF HasFigure
    <3> QED
      BY <2>1, <3>1, <3>2, <3>3 DEF OwnFigures
<1>4. CASE Open(t)
  <2>1. step' = [step EXCEPT ![t] = "save"] /\ step[t] = "open"
        /\ overlap' = (overlap \/ Overlapping(step')) /\ UNCHANGED <<at, image>>
        /\ figures' = Append(figures, <<t, Plot(t).image>>)
    BY <1>4 DEF Open, Moves
  <2>2. figures' \in Seq(Threads \X Names) /\ Len(figures') = Len(figures) + 1
        /\ figures'[Len(figures')] = <<t, Plot(t).image>>
        /\ \A i \in DOMAIN figures : i \in DOMAIN figures' /\ figures'[i] = figures[i]
    BY <1>1, <2>1
  <2>3. ASSUME ~overlap', NEW u \in Threads, step'[u] = "save"
        PROVE  u = t
    BY <2>1, <2>3 DEF Overlapping, Drawing, Threads
  <2>4. \A u \in Threads : Plot(u)' = Plot(u)
    BY <2>1 DEF Plot
  <2>5. \A u \in Threads : step'[u] \in {"save", "close"} => HasFigure(u)'
    <3>1. HasFigure(t)'
      BY <2>2, <2>4 DEF HasFigure
    <3>2. ASSUME NEW u \in Threads, u # t, step'[u] \in {"save", "close"}
          PROVE  HasFigure(u)'
      <4>1. PICK i \in DOMAIN figures : figures[i] = <<u, Plot(u).image>>
        BY <2>1, <3>2 DEF HasFigure
      <4> QED
        BY <2>2, <2>4, <4>1 DEF HasFigure
    <3> QED
      BY <3>1, <3>2
  <2>6. OwnFigures' /\ step' \in Stepping /\ overlap' \in BOOLEAN
    BY <2>1 DEF Stepping, Drawing, OwnFigures
  <2> QED
    BY <2>1, <2>2, <2>3, <2>4, <2>5, <2>6 DEF Last
<1>5. CASE Save(t)
  <2>1. step' = [step EXCEPT ![t] = "close"] /\ step[t] = "save"
        /\ overlap' = (overlap \/ Overlapping(step')) /\ UNCHANGED <<at, figures>>
        /\ image' = [image EXCEPT ![t][Plot(t).image] = Last(figures)[2]]
    BY <1>5 DEF Save, Moves
  <2>2. Last(figures)[2] \in Names
    BY <2>1 DEF Last, HasFigure
  <2>3. \/ overlap' /\ overlap' \in BOOLEAN
        \/ Last(figures)[2] = Plot(t).image /\ ~overlap /\ ~overlap'
    BY <2>1 DEF Overlapping
  <2>4. image' \in [Threads -> [Names -> Names \cup {"none"}]] /\ OwnFigures'
    BY <1>1, <2>1, <2>2, <2>3 DEF OwnFigures
  <2> QED
    BY <2>1, <2>3, <2>4 DEF Plot, HasFigure, Stepping, Drawing
<1>6. CASE Close(t)
  <2>1. PICK i \in DOMAIN figures :
          figures[i] = <<t, Plot(t).image>> /\ figures' = RemoveAt(figures, i)
    BY <1>6 DEF Close
  <2>2. NextPlot(t) /\ step[t] = "close" /\ UNCHANGED image
    BY <1>6 DEF Close
  <2>3. figures' \in Seq(Threads \X Names)
    BY <2>1, Removed
  <2>4. ASSUME ~overlap', NEW u \in Threads
        PROVE  step'[u] # "save"
    BY <2>2, <2>4, NextPlots DEF Overlapping, Drawing, Threads
  <2>5. ASSUME NEW u \in Threads, step'[u] \in {"save", "close"}
        PROVE  HasFigure(u)'
    <3>1. u # t /\ step[u] = step'[u] /\ Plot(u)' = Plot(u)
      BY <2>2, <2>5, NextPlots DEF Plot
    <3>2. PICK k \in DOMAIN figures : figures[k] = <<u, Plot(u).image>>
      BY <2>5, <3>1 DEF HasFigure
    <3>3. k # i
      BY <2>1, <3>1, <3>2
    <3> QED
      BY <2>1, <3>1, <3>2, <3>3, Removed DEF HasFigure
  <2> QED
    BY <2>2, <2>3, <2>4, <2>5, NextPlots DEF OwnFigures
<1> QED
  BY <1>2, <1>3, <1>4, <1>5, <1>6 DEF Draw

\* FigureInv is an invariant.
LEMMA FigureInvariant == Spec => []FigureInv
<1>1. Init => FigureInv
  <2> SUFFICES ASSUME Init PROVE FigureInv
    OBVIOUS
  <2>1. step \in Stepping /\ ~Overlapping(step) /\ overlap = FALSE
    BY DEF Init, Stepping, Overlapping, Threads, Drawing
  <2>2. \A t \in Threads : step[t] = "idle" /\ at[t] = 1
    BY DEF Init
  <2>3. at \in [Threads -> DOMAIN Plots] /\ figures \in Seq(Threads \X Names)
    BY NextOfPlots DEF Init
  <2>4. image \in [Threads -> [Names -> Names \cup {"none"}]] /\ OwnFigures
    BY DEF Init, OwnFigures
  <2> QED
    BY <2>1, <2>2, <2>3, <2>4 DEF FigureInv
<1>2. FigureInv /\ [Next]_vars => FigureInv'
  <2> SUFFICES ASSUME FigureInv, [Next]_vars PROVE FigureInv'
    OBVIOUS
  <2>u. ASSUME UNCHANGED <<at, image, figures>>, overlap' = (overlap \/ Overlapping(step')),
               \/ step' = step
               \/ \E to \in {"idle", "read", "sphinx", "make"} : step' = [step EXCEPT !["pdf"] = to]
        PROVE  FigureInv'
    <3>1. \A t \in Threads : Plot(t)' = Plot(t) /\ HasFigure(t)' = HasFigure(t)
      BY <2>u DEF Plot, HasFigure
    <3>2. /\ step' \in Stepping
          /\ \A t \in Threads : step'[t] \in {"save", "close"} => step'[t] = step[t]
      BY <2>u DEF FigureInv, Stepping, Drawing
    <3> QED
      BY <2>u, <3>1, <3>2 DEF FigureInv, OwnFigures
  <2>1. CASE Edit \/ Replace \/ Fetch \/ DebounceEnds \/ Debounced \/ NoSource \/ MakeWrites
             \/ UNCHANGED vars
    <3>1. UNCHANGED <<at, image, figures, step, overlap>>
      BY <2>1 DEF Edit, Replace, Fetch, DebounceEnds, Debounced, NoSource, MakeWrites, vars
    <3> QED
      BY <3>1 DEF FigureInv, Plot, HasFigure, OwnFigures
  <2>2. CASE Serve
    BY <2>2, NextOfPlots DEF Serve, FigureInv, Overlapping, OwnFigures, Threads, Drawing, Stepping
  <2>3. CASE ServeEnds
    BY <2>3 DEF ServeEnds, FigureInv, Overlapping, OwnFigures, Threads, Drawing, Stepping
  <2>4. CASE Sphinx \/ MakeEnds \/ BuildFails
    BY <2>4, <2>u DEF Sphinx, MakeEnds, BuildFails, Moves
  <2>5. CASE BeginBuild
    <3>1. step' = [step EXCEPT !["pdf"] = "read"] /\ UNCHANGED <<image, figures>>
          /\ overlap' = (overlap \/ Overlapping(step')) /\ at' = [at EXCEPT !["pdf"] = 1]
      BY <2>5 DEF BeginBuild, Moves
    <3> QED
      BY <3>1, NextOfPlots DEF FigureInv, Plot, HasFigure, OwnFigures, Stepping, Drawing
  <2> QED
    BY <2>1, <2>2, <2>3, <2>4, <2>5, DrawsFigures DEF Next, Watch
<1> QED
  BY <1>1, <1>2, PTL DEF Spec

(* make_plots() in two threads: as long as they have not drawn at the same time, *)
(* every image file holds the figure it is named for.                            *)
THEOREM FiguresOwn == Spec => []OwnFigures
<1>1. FigureInv => OwnFigures
  BY DEF FigureInv
<1> QED
  BY <1>1, FigureInvariant, PTL

-----------------------------------------------------------------------------

\* The types that neither CurrentInv nor FigureInv has
RestInv ==
  /\ fetched \in BOOLEAN /\ data \subseteq Names /\ edits \in 0..MaxEdits
  /\ serving \in BOOLEAN /\ serves \in 0..MaxServes /\ recent \in BOOLEAN
  /\ lost \in BOOLEAN /\ pdf \in Nat \cup {Torn}

(* Every variable keeps its type. *)
THEOREM TypeCorrect == Spec => []TypeOK
<1>1. Init => RestInv
  <2>1. MaxEdits \in Nat /\ MaxServes \in Nat
    BY DocsAssumption DEF DocsAssumption
  <2>2. ASSUME Init
        PROVE  /\ fetched \in BOOLEAN /\ data \subseteq Names /\ edits = 0 /\ serving = FALSE
               /\ serves = 0 /\ recent = FALSE /\ lost = FALSE /\ pdf = 0
    BY <2>2, Zenon DEF Init, None
  <2> QED
    BY <2>1, <2>2 DEF RestInv
<1>2. RestInv /\ CurrentInv /\ [Next]_vars => RestInv'
  <2> SUFFICES ASSUME RestInv, CurrentInv, [Next]_vars PROVE RestInv'
    OBVIOUS
  <2>b. MaxEdits \in Nat /\ MaxServes \in Nat
    BY DocsAssumption DEF DocsAssumption
  <2> USE DEF RestInv
  <2>1. CASE Edit \/ Replace
    BY <2>1, <2>b DEF Edit, Replace
  <2>2. CASE Fetch \/ DebounceEnds \/ ServeEnds
    BY <2>2 DEF Fetch, DebounceEnds, ServeEnds
  <2>3. CASE Serve
    <3>1. /\ serves < MaxServes /\ serves' = serves + 1 /\ serving' = TRUE /\ recent' = FALSE
          /\ lost' = FALSE /\ UNCHANGED <<fetched, data, edits, pdf>>
      BY <2>3, Zenon DEF Serve
    <3>2. serves' \in 0..MaxServes
      BY <3>1, <2>b
    <3> QED
      BY <3>1, <3>2
  <2>4. ASSUME NEW t \in Threads, Draw(t)  PROVE RestInv'
    BY <2>4 DEF Draw, Read, Skip, Open, Save, Close
  <2>5. CASE Debounced \/ NoSource \/ BeginBuild \/ Sphinx \/ MakeWrites
    BY <2>5 DEF Debounced, NoSource, BeginBuild, Sphinx, MakeWrites
  <2>6. CASE MakeEnds \/ BuildFails
    BY <2>6 DEF MakeEnds, BuildFails, CurrentInv
  <2>7. CASE UNCHANGED vars
    BY <2>7 DEF vars
  <2> QED
    BY <2>1, <2>2, <2>3, <2>4, <2>5, <2>6, <2>7 DEF Next, Watch
<1>3. RestInv /\ CurrentInv /\ FigureInv => TypeOK
  BY DEF RestInv, CurrentInv, FigureInv, Stepping, TypeOK
<1> QED
  BY <1>1, <1>2, <1>3, CurrentInvariant, FigureInvariant, PTL DEF Spec
=============================================================================
