--------------------------- MODULE BenchRunProofs ---------------------------
(***************************************************************************)
(* What holds of BenchRun for every matrix, every machine and however many *)
(* runners are killed, fail and go on with what others have left.          *)
(***************************************************************************)
EXTENDS BenchRun, FiniteSetTheorems, TLAPS

\* A monitor of the runner's own runs where a step is to come that stops it
MonitorInv ==
  /\ ~link => loggers = {} /\ dcgmis = {}
  /\ "own" \in loggers =>
       outcome = "killed" \/ (Running /\ pc \in {"dcgm", "bench", "stop", "abort"})
  /\ "own" \in dcgmis =>
       \/ outcome = "killed"
       \/ Running /\ Dcgm /\ pc \in {"bench", "stop", "dstop", "abort", "dabort"}
-----------------------------------------------------------------------------

(* run_benchmark's abort_monitors and its other early returns: whatever step *)
(* fails, the logger and dcgmi of this runner are stopped before it returns. *)
THEOREM MonitorsSafe == Spec => []MonitorsStopped
<1>1. Init => MonitorInv
  BY DEF Init, MonitorInv
<1>2. MonitorInv /\ [Next]_vars => MonitorInv'
  <2> SUFFICES ASSUME MonitorInv, [Next]_vars PROVE MonitorInv'
    OBVIOUS
  <2> USE DEF MonitorInv, settings, monitors, files, place, helpers, flags, reach, Running
  \* A step that leaves the monitors, from where there are none or to the same place
  <2>k. ASSUME UNCHANGED <<loggers, dcgmis, link>>,
               "own" \notin loggers /\ "own" \notin dcgmis
        PROVE  MonitorInv'
    BY <2>k
  <2>1. CASE ToggleSmt
    BY <2>1, <2>k DEF ToggleSmt, At, Goes, Fails
  <2>2. CASE ToggleTurbo
    BY <2>2, <2>k DEF ToggleTurbo, At, Goes
  <2>3. CASE UseThreadSiblings
    BY <2>3, <2>k DEF UseThreadSiblings, At, Goes, Fails
  <2>4. CASE FindResult
    BY <2>4, <2>k DEF FindResult, At, Goes, Fails, NextRep
  <2>5. CASE SetCpuFreq
    BY <2>5, <2>k DEF SetCpuFreq, At, Goes
  <2>6. CASE StartLogging
    BY <2>6 DEF StartLogging, At, Goes, Fails, Quiet
  <2>7. CASE StartDcgm
    BY <2>7 DEF StartDcgm, At, Goes, Fails, Quiet
  <2>8. CASE Bench
    <3>1. pc = "bench" /\ Running /\ UNCHANGED <<loggers, dcgmis>>
      BY <2>8 DEF Bench, At
    <3>2. pc' \in {"stop", "abort"} /\ UNCHANGED <<outcome, link>>
      BY <2>8, Zenon DEF Bench, Goes, BenchFails
    <3> QED
      BY <3>1, <3>2
  <2>9. CASE StopLogging
    BY <2>9 DEF StopLogging, At, Goes
  <2>10. CASE StopDcgm
    BY <2>10 DEF StopDcgm, At, Goes, Fails
  <2>11. CASE AbortLogging
    BY <2>11 DEF AbortLogging, At, Goes
  <2>12. CASE AbortDcgm
    BY <2>12 DEF AbortDcgm, At, Fails
  <2>13. CASE CreateResult
    BY <2>13, <2>k DEF CreateResult, At, Goes
  <2>14. CASE WriteResult
    BY <2>14, <2>k DEF WriteResult, At, Goes, NextRep
  <2>15. CASE Combine
    BY <2>15, <2>k DEF Combine, At, Fails
  <2>16. CASE Unreachable
    BY <2>16 DEF Unreachable, Fails
  <2>17. CASE Begin
    BY <2>17 DEF Begin
  <2>18. CASE LeftSamples
    BY <2>18 DEF LeftSamples
  <2>19. CASE Killed
    BY <2>19 DEF Killed
  <2>20. CASE Reboot
    BY <2>20 DEF Reboot
  <2>21. CASE Upgrade
    BY <2>21 DEF Upgrade
  <2>22. CASE UNCHANGED vars
    BY <2>22 DEF vars
  <2>23. CASE UnreachableSetting
    BY <2>23, <2>k DEF UnreachableSetting, Goes
  <2>24. CASE Reconnect
    BY <2>24 DEF Reconnect
  <2> QED
    BY <2>1, <2>2, <2>3, <2>4, <2>5, <2>6, <2>7, <2>8, <2>9, <2>10, <2>11, <2>12, <2>13,
       <2>14, <2>15, <2>16, <2>17, <2>18, <2>19, <2>20, <2>21, <2>22, <2>23,
       <2>24 DEF Next, Step
<1>3. MonitorInv => MonitorsStopped
  BY DEF MonitorInv, MonitorsStopped, Running
<1> QED
  BY <1>1, <1>2, <1>3, PTL DEF Spec
-----------------------------------------------------------------------------

GotRecord == got = [smt |-> got.smt, turbo |-> got.turbo, cpus |-> got.cpus,
                    governors |-> got.governors, rw |-> got.rw, cpu_freqs |-> got.cpu_freqs,
                    dcgm |-> got.dcgm, supported |-> got.supported, versions |-> got.versions,
                    build |-> got.build, ended |-> got.ended]

\* What the helper has in mind is what the target is set to, until that restarts,
\* and what the test of the moment asks for, once it has been set
KnownInv ==
  Running =>
    /\ tmp => knownSmt \subseteq {smt}
    /\ 1 \in knownSmt => smt = 1
    /\ tmp /\ supported => knownTurbo \subseteq {turbo}
    /\ pc \notin {"smt", "combine"} => knownSmt = {Test.sm}
    /\ pc \notin {"smt", "turbo", "combine"} => knownTurbo = {Test.tu}

GovernorInv ==
  Running /\ tmp /\ supported /\ pc \in {"start", "dcgm", "bench"} =>
    \A c \in (Mask(Test.cpus) \cap Online) \ passed : governor[c] = Test.freq

GotInv ==
  Running /\ pc \in {"stop", "dstop", "create", "dump"} =>
    /\ GotRecord
    /\ tmp \/ pc # "stop" =>
         /\ got.smt = Test.sm
         /\ supported => got.turbo = Test.tu /\ got.governors \subseteq {Test.freq}

NamedInv == KnownInv /\ GovernorInv /\ GotInv /\ MeasuredAsNamed

\* NamedInv is an invariant.
LEMMA NamedInvariant == Spec => []NamedInv
<1>1. Init => NamedInv
  BY DEF Init, NamedInv, KnownInv, GovernorInv, GotInv, MeasuredAsNamed, Whole, Running
<1>2. NamedInv /\ [Next]_vars => NamedInv'
  <2> SUFFICES ASSUME NamedInv, [Next]_vars PROVE NamedInv'
    OBVIOUS
  <2> USE DEF settings, monitors, files, place, helpers, flags, reach
  <2>r. UNCHANGED results => MeasuredAsNamed'
    BY DEF NamedInv, MeasuredAsNamed, Whole
  \* A step that leaves the settings and what is known of them
  <2>s. ASSUME UNCHANGED <<settings, helpers, tests, at, tmp>>, Running' => Running,
               pc' = pc \/ pc \notin {"smt", "turbo", "combine"}
        PROVE  KnownInv'
    BY <2>s DEF NamedInv, KnownInv, Test
  <2>g. ASSUME UNCHANGED <<settings, helpers, tests, at, tmp>>, Running' => Running,
               pc \in {"start", "dcgm", "bench"}
        PROVE  GovernorInv'
    BY <2>g DEF NamedInv, GovernorInv, Test, Mask, Before, Core, Online, CPUs
  <2>1. CASE ToggleSmt
    <3>1. KnownInv'
      BY <2>1 DEF ToggleSmt, At, Goes, Fails, SettingAfter, NamedInv, KnownInv, Test, Running
    <3>2. GovernorInv' /\ GotInv'
      BY <2>1 DEF ToggleSmt, At, Goes, Fails, SettingAfter, GovernorInv, GotInv, Running
    <3> QED
      BY <2>1, <2>r, <3>1, <3>2 DEF ToggleSmt, NamedInv
  <2>2. CASE ToggleTurbo
    <3>1. KnownInv'
      BY <2>2 DEF ToggleTurbo, At, Goes, SettingAfter, NamedInv, KnownInv, Test, Running,
                  Unsupported
    <3>2. GovernorInv' /\ GotInv'
      BY <2>2 DEF ToggleTurbo, At, Goes, SettingAfter, GovernorInv, GotInv
    <3> QED
      BY <2>2, <2>r, <3>1, <3>2 DEF ToggleTurbo, NamedInv
  <2>3. CASE UseThreadSiblings
    <3>1. KnownInv'
      BY <2>3 DEF UseThreadSiblings, At, Goes, Fails, SettingAfter, NamedInv, KnownInv, Test, Running
    <3>2. GovernorInv' /\ GotInv'
      BY <2>3 DEF UseThreadSiblings, At, Goes, Fails, SettingAfter, GovernorInv, GotInv, Running
    <3> QED
      BY <2>3, <2>r, <3>1, <3>2 DEF UseThreadSiblings, NamedInv
  \* To the next repetition, of this test or of another
  <2>n. ASSUME NextRep, UNCHANGED <<settings, helpers, tmp>>, Running,
               pc \notin {"smt", "turbo", "combine"}
        PROVE  KnownInv' /\ GovernorInv' /\ GotInv'
    BY <2>n DEF NextRep, Goes, NamedInv, KnownInv, GovernorInv, GotInv, Test, Running
  <2>4. CASE FindResult
    <3>1. CASE NextRep
      BY <2>4, <3>1, <2>n, <2>r DEF FindResult, At, NextRep, Goes, NamedInv
    <3>2. CASE Fails
      BY <2>4, <3>2, <2>r DEF FindResult, Fails, NamedInv, KnownInv, GovernorInv, GotInv, Running
    <3>3. CASE Goes("freq") /\ UNCHANGED place
      <4>1. KnownInv'
        BY <2>4, <3>3, <2>s DEF FindResult, At, Goes, Running
      <4> QED
        BY <2>4, <3>3, <4>1, <2>r DEF FindResult, Goes, NamedInv, GovernorInv, GotInv
    <3> QED
      BY <2>4, <3>1, <3>2, <3>3 DEF FindResult
  <2>5. CASE SetCpuFreq
    <3>1. KnownInv'
      BY <2>5 DEF SetCpuFreq, At, Goes, NamedInv, KnownInv, Test, Running, Unsupported
    <3>2. GovernorInv'
      <4> DEFINE mask == Mask(Test.cpus)
      <4>1. PICK freed \in BOOLEAN, set \in SUBSET mask :
              /\ governor' = [ c \in CPUs |->
                   IF c \notin Online THEN governor[c]
                   ELSE IF c \in set THEN Test.freq
                   ELSE IF freed THEN "ondemand" ELSE governor[c] ]
              /\ passed' = (mask \ set) \ {Last(mask)}
              /\ IF freed /\ Last(mask) \in set THEN UNCHANGED supported ELSE Unsupported
        BY <2>5 DEF SetCpuFreq
      <4>2. Test' = Test /\ Mask(Test.cpus)' = mask /\ Online' = Online
        BY <2>5 DEF SetCpuFreq, Test, Mask, Before, Core, Online, CPUs
      <4>3. Online \subseteq CPUs
        BY DEF Online
      <4>4. supported' => Last(mask) \in set
        BY <4>1 DEF Unsupported
      <4> HIDE DEF mask
      <4>5. ASSUME supported', NEW c \in (mask \cap Online) \ passed'
            PROVE  c \in set /\ governor'[c] = Test.freq
        BY <4>1, <4>3, <4>4, <4>5
      <4> QED
        BY <4>2, <4>5 DEF GovernorInv
    <3> QED
      BY <2>5, <3>1, <3>2, <2>r DEF SetCpuFreq, Goes, NamedInv, GotInv
  <2>6. CASE StartLogging
    <3>1. /\ pc = "start" /\ pc' \in {"start", "dcgm"} /\ (Running' => Running)
          /\ UNCHANGED <<settings, helpers, tests, at, tmp, results>>
      BY <2>6 DEF StartLogging, At, Goes, Fails, Running
    <3> QED
      BY <3>1, <2>s, <2>g, <2>r DEF NamedInv, GotInv
  <2>7. CASE StartDcgm
    <3>1. /\ pc = "dcgm" /\ pc' \in {"dcgm", "bench"} /\ (Running' => Running)
          /\ UNCHANGED <<settings, helpers, tests, at, tmp, results>>
      BY <2>7 DEF StartDcgm, At, Goes, Fails, Running
    <3> QED
      BY <3>1, <2>s, <2>g, <2>r DEF NamedInv, GotInv
  <2>8. CASE Bench
    <3>1. /\ Running /\ pc = "bench" /\ outcome' = outcome /\ pc' \in {"stop", "abort"}
          /\ UNCHANGED <<settings, helpers, tests, at, tmp, results>>
      BY <2>8 DEF Bench, At, Goes, BenchFails
    <3>2. KnownInv' /\ GovernorInv'
      BY <3>1, <2>s DEF GovernorInv, Running
    <3>3. ASSUME pc' = "stop"  PROVE GotInv'
      <4>1. PICK ended : got' =
              [smt |-> smt, turbo |-> turbo, cpus |-> Mask(Test.cpus) \cap Online,
               governors |-> { governor[c] : c \in (Mask(Test.cpus) \cap Online) \ passed },
               rw |-> Test.rw, cpu_freqs |-> {}, dcgm |-> {}, supported |-> supported,
               versions |-> versions, build |-> checkout, ended |-> ended]
        BY <2>8, <3>3 DEF Bench, BenchFails, Goes
      <4>2. GotRecord'
        BY <4>1 DEF GotRecord
      <4>3. Test' = Test /\ supported' = supported
        BY <3>1 DEF Test
      <4>4. tmp => smt = Test.sm /\ (supported => turbo = Test.tu)
        BY <3>1 DEF NamedInv, KnownInv
      <4>5. tmp /\ supported => got'.governors \subseteq {Test.freq}
        BY <3>1, <4>1 DEF NamedInv, GovernorInv
      <4> QED
        BY <3>1, <3>3, <4>1, <4>2, <4>3, <4>4, <4>5 DEF GotInv
    <3> QED
      BY <3>1, <3>2, <3>3, <2>r DEF NamedInv, GotInv
  <2>9. CASE StopLogging
    <3>1. /\ Running /\ pc = "stop" /\ outcome' = outcome /\ pc' \in {"dstop", "create", "dabort"}
          /\ UNCHANGED <<settings, knownSmt, knownTurbo, thrsib, pairs, tests, at, tmp, results>>
          /\ (supported' => supported) /\ (pc' # "dabort" => tmp)
      BY <2>9 DEF StopLogging, At, Goes, Unsupported
    <3>2. KnownInv' /\ GovernorInv'
      BY <3>1 DEF NamedInv, KnownInv, GovernorInv, Test, Running
    <3>3. got' = got \/ got' = [got EXCEPT !.cpu_freqs = IF supported THEN log ELSE {}]
      BY <2>9 DEF StopLogging
    <3>4. GotInv'
      BY <3>1, <3>3 DEF NamedInv, GotInv, GotRecord, Test
    <3> QED
      BY <3>1, <3>2, <3>4, <2>r DEF NamedInv
  <2>10. CASE StopDcgm
    <3>1. /\ Running /\ pc = "dstop" /\ pc' \in {"dstop", "create"}
          /\ UNCHANGED <<settings, helpers, tests, at, tmp, results>>
      BY <2>10 DEF StopDcgm, At, Goes, Fails
    <3>2. KnownInv' /\ GovernorInv'
      BY <3>1, <2>s DEF GovernorInv
    <3>3. got' = got \/ got' = [got EXCEPT !.dcgm = Described(dcgmOut)]
      BY <2>10 DEF StopDcgm
    <3>4. GotInv'
      BY <3>1, <3>3 DEF NamedInv, GotInv, GotRecord, Test
    <3> QED
      BY <3>1, <3>2, <3>4, <2>r DEF NamedInv
  <2>11. CASE AbortLogging
    BY <2>11, <2>s, <2>r DEF AbortLogging, At, Goes, NamedInv, GovernorInv, GotInv, Running
  <2>12. CASE AbortDcgm
    BY <2>12, <2>r DEF AbortDcgm, Fails, NamedInv, KnownInv, GovernorInv, GotInv, Running
  <2>13. CASE CreateResult
    <3>1. /\ Running /\ pc = "create" /\ pc' = "dump"
          /\ UNCHANGED <<settings, helpers, tests, at, tmp, got>>
      BY <2>13 DEF CreateResult, At, Goes
    <3>2. KnownInv' /\ GovernorInv'
      BY <3>1, <2>s DEF GovernorInv
    <3>3. GotInv'
      BY <3>1 DEF NamedInv, GotInv, GotRecord, Test
    <3>4. MeasuredAsNamed'
      BY <2>13 DEF CreateResult, Put, NamedInv, MeasuredAsNamed, Whole
    <3> QED
      BY <3>2, <3>3, <3>4 DEF NamedInv
  <2>14. CASE WriteResult
    <3> DEFINE name == Filename(Test, rep)
               result == [got EXCEPT !.supported = supported]
    <3>1. /\ Running /\ pc = "dump" /\ NextRep /\ UNCHANGED <<settings, helpers, tmp>>
          /\ results' = [ f \in DOMAIN results \cup {name} |->
                            IF f = name THEN result ELSE results[f] ]
      BY <2>14 DEF WriteResult, At, Put, NextRep, Goes
    <3>2. KnownInv' /\ GovernorInv' /\ GotInv'
      BY <3>1, <2>n
    <3>3. name.sm = Test.sm /\ name.tu = Test.tu /\ name.freq = Test.freq
      BY DEF Filename
    <3>4. /\ result.smt = name.sm
          /\ result.supported => result.turbo = name.tu /\ result.governors \subseteq {name.freq}
      BY <3>1, <3>3 DEF NamedInv, GotInv, GotRecord
    <3>5. MeasuredAsNamed'
      BY <3>1, <3>4 DEF NamedInv, MeasuredAsNamed, Whole
    <3> QED
      BY <3>2, <3>5 DEF NamedInv
  <2>15. CASE Combine
    BY <2>15, <2>r DEF Combine, Fails, NamedInv, KnownInv, GovernorInv, GotInv, Running
  <2>16. CASE Unreachable
    BY <2>16, <2>r DEF Unreachable, Fails, NamedInv, KnownInv, GovernorInv, GotInv, Running
  <2>17. CASE Begin
    BY <2>17, <2>r DEF Begin, NamedInv, KnownInv, GovernorInv, GotInv, Running
  \* A step that leaves the runner where it is
  <2>u. ASSUME UNCHANGED <<settings, helpers, tests, at, tmp, pc, got, results>>,
               Running' => Running
        PROVE  NamedInv'
    <3>1. KnownInv' /\ GotInv'
      BY <2>u DEF NamedInv, KnownInv, GotInv, GotRecord, Test
    <3>2. GovernorInv'
      BY <2>u, <2>g DEF GovernorInv
    <3> QED
      BY <2>u, <3>1, <3>2, <2>r DEF NamedInv
  <2>18. CASE LeftSamples
    BY <2>18, <2>u DEF LeftSamples, Running
  <2>19. CASE Killed
    BY <2>19, <2>u DEF Killed, Running
  <2>20. CASE Reboot
    <3>1. ~tmp' /\ smt' = 1 /\ UNCHANGED <<helpers, tests, at, pc, outcome, got, results>>
      BY <2>20 DEF Reboot
    <3>2. KnownInv' /\ GotInv' /\ GovernorInv'
      BY <3>1 DEF NamedInv, KnownInv, GotInv, GovernorInv, GotRecord, Test, Running
    <3> QED
      BY <3>1, <3>2, <2>r DEF NamedInv
  <2>21. CASE Upgrade
    BY <2>21, <2>u DEF Upgrade, Running
  <2>22. CASE UNCHANGED vars
    BY <2>22, <2>u DEF vars, Running
  <2>23. CASE UnreachableSetting
    <3>1. Running' => ~supported' /\ pc' \in {"siblings", "start"}
      BY <2>23 DEF UnreachableSetting, Unsupported, Goes, SettingAfter
    <3>2. KnownInv'
      BY <2>23, <3>1 DEF UnreachableSetting, Goes, SettingAfter, NamedInv, KnownInv, Test, Running
    <3> QED
      BY <2>23, <3>1, <3>2, <2>r DEF UnreachableSetting, NamedInv, GovernorInv, GotInv
  <2>24. CASE Reconnect
    BY <2>24, <2>u DEF Reconnect, Running
  <2> QED
    BY <2>1, <2>2, <2>3, <2>4, <2>5, <2>6, <2>7, <2>8, <2>9, <2>10, <2>11, <2>12, <2>13,
       <2>14, <2>15, <2>16, <2>17, <2>18, <2>19, <2>20, <2>21, <2>22, <2>23,
       <2>24 DEF Next, Step
<1> QED
  BY <1>1, <1>2, PTL DEF Spec

(* CpuFrequencyHelper sets the target only when that is not what it has set     *)
(* before, and goes on where it cannot or where the target has restarted: the   *)
(* label is right, or the result says that the CPUs could not be controlled. Of *)
(* the frequencies this is not so for a CPU the loop passed over, which could   *)
(* not be set and came before another.                                          *)
THEOREM NamedRight == Spec => []MeasuredAsNamed
<1>1. NamedInv => MeasuredAsNamed
  BY DEF NamedInv
<1> QED
  BY <1>1, NamedInvariant, PTL
-----------------------------------------------------------------------------

\* What a result is made of while it is being made
Making == Running /\ pc \in {"stop", "dstop", "create", "dump"}

\* A stamp, where there is one, is of the build that is measured; the report is of
\* the results as they are
StampInv ==
  /\ Running => report = << >> /\ versions \subseteq {checkout}
  /\ Making => GotRecord /\ got.versions \subseteq {got.build}
  /\ \A f \in Whole : results[f].versions \subseteq {results[f].build}

\* merge_versions: what several runs, with builds made between them, have left in
\* results_dir is named in the report by every build it is of.
THEOREM BuildsRight == Spec => []BuildsNamed
<1> DEFINE Inv == StampInv /\ BuildsNamed
<1>1. Init => Inv
  BY DEF Init, StampInv, BuildsNamed, Making, Whole, Running
<1>2. Inv /\ [Next]_vars => Inv'
  <2> SUFFICES ASSUME StampInv, BuildsNamed, [Next]_vars PROVE Inv'
    OBVIOUS
  <2> USE DEF settings, monitors, files, place, helpers, flags, reach, stamps, Making
  <2>e. report' = << >> => BuildsNamed'
    BY DEF BuildsNamed
  <2>b. UNCHANGED <<results, report>> => BuildsNamed'
    BY DEF BuildsNamed
  \* A step that leaves the results and what a result is made of
  <2>u. ASSUME UNCHANGED <<results, report, checkout, versions, got>>, Making' => Making,
               Running' => Running
        PROVE  Inv'
    BY <2>u, <2>b DEF StampInv, GotRecord, Whole
  <2>1. CASE ToggleSmt
    BY <2>1, <2>u DEF ToggleSmt, At, Goes, Fails, SettingAfter, Running
  <2>2. CASE ToggleTurbo
    BY <2>2, <2>u DEF ToggleTurbo, At, Goes, SettingAfter, Running
  <2>3. CASE UseThreadSiblings
    BY <2>3, <2>u DEF UseThreadSiblings, At, Goes, Fails, SettingAfter, Running
  <2>4. CASE FindResult
    BY <2>4, <2>u DEF FindResult, At, Goes, Fails, NextRep, Running
  <2>5. CASE SetCpuFreq
    BY <2>5, <2>u DEF SetCpuFreq, At, Goes, Running
  <2>6. CASE StartLogging
    BY <2>6, <2>u DEF StartLogging, At, Goes, Fails, Running
  <2>7. CASE StartDcgm
    BY <2>7, <2>u DEF StartDcgm, At, Goes, Fails, Running
  <2>8. CASE Bench
    <3>1. Running /\ pc = "bench" /\ UNCHANGED <<results, report, checkout, versions, outcome>>
      BY <2>8 DEF Bench, At, Goes, BenchFails
    <3>2. \/ pc' = "abort"
          \/ \E ended : got' =
               [smt |-> smt, turbo |-> turbo, cpus |-> Mask(Test.cpus) \cap Online,
                governors |-> { governor[c] : c \in (Mask(Test.cpus) \cap Online) \ passed },
                rw |-> Test.rw, cpu_freqs |-> {}, dcgm |-> {}, supported |-> supported,
                versions |-> versions, build |-> checkout, ended |-> ended]
      BY <2>8 DEF Bench, BenchFails, Goes
    <3>3. pc' # "abort" => GotRecord' /\ got'.versions \subseteq {got'.build}
      BY <3>1, <3>2 DEF GotRecord, StampInv
    <3> QED
      BY <3>1, <3>3, <2>b DEF StampInv, Whole, Running
  <2>9. CASE StopLogging
    <3>1. /\ pc = "stop" /\ Running
          /\ UNCHANGED <<results, report, checkout, versions, outcome>>
          /\ got' = got \/ got' = [got EXCEPT !.cpu_freqs = IF supported THEN log ELSE {}]
      BY <2>9 DEF StopLogging, At, Goes
    <3>2. GotRecord' /\ got'.versions \subseteq {got'.build}
      BY <3>1 DEF GotRecord, StampInv
    <3> QED
      BY <3>1, <3>2, <2>b DEF StampInv, Whole, Running
  <2>10. CASE StopDcgm
    <3>1. /\ pc = "dstop" /\ Running
          /\ UNCHANGED <<results, report, checkout, versions>>
          /\ got' = got \/ got' = [got EXCEPT !.dcgm = Described(dcgmOut)]
      BY <2>10 DEF StopDcgm, At
    <3>2. GotRecord' /\ got'.versions \subseteq {got'.build}
      BY <3>1 DEF GotRecord, StampInv
    <3> QED
      BY <3>1, <3>2, <2>b DEF StampInv, Whole
  <2>11. CASE AbortLogging
    BY <2>11, <2>u DEF AbortLogging, At, Goes, Running
  <2>12. CASE AbortDcgm
    BY <2>12, <2>u DEF AbortDcgm, Fails, At, Running
  <2>13. CASE CreateResult
    <3>1. /\ Running /\ pc = "create" /\ UNCHANGED <<report, checkout, versions, got, outcome>>
          /\ results' = [ f \in DOMAIN results \cup {Filename(Test, rep)} |->
                            IF f = Filename(Test, rep) THEN Torn ELSE results[f] ]
      BY <2>13 DEF CreateResult, At, Goes, Put
    <3>2. \A f \in Whole' : f \in Whole /\ results'[f] = results[f]
      BY <3>1 DEF Whole
    <3> QED
      BY <3>1, <3>2, <2>e DEF StampInv, GotRecord, Running
  <2>14. CASE WriteResult
    <3> DEFINE name == Filename(Test, rep)
               result == [got EXCEPT !.supported = supported]
    <3>1. /\ Running /\ pc = "dump" /\ UNCHANGED <<report, checkout, versions, outcome>>
          /\ pc' \in {"exists", "smt", "combine"}
          /\ results' = [ f \in DOMAIN results \cup {name} |->
                            IF f = name THEN result ELSE results[f] ]
      BY <2>14 DEF WriteResult, At, Put, NextRep, Goes
    <3>2. result.versions \subseteq {result.build}
      BY <3>1 DEF StampInv, GotRecord
    <3>3. \A f \in Whole' : results'[f].versions \subseteq {results'[f].build}
      BY <3>1, <3>2 DEF Whole, StampInv
    <3> QED
      BY <3>1, <3>3, <2>e DEF StampInv, Running
  <2>15. CASE Combine
    <3>1. CASE Fails
      BY <2>15, <3>1, <2>u DEF Combine, Fails, At, Running
    <3>2. CASE /\ Combinable /\ outcome' = "ok"
               /\ report' = [ f \in { g \in DOMAIN results : g.rep = 0 } |->
                    [repeats |-> Repeats(f), versions |-> MergeVersions(Repeats(f))] ]
      <4>1. UNCHANGED <<results, checkout, versions, got>>
        BY <2>15 DEF Combine
      <4>2. StampInv'
        BY <3>2, <4>1 DEF StampInv, Whole, Running
      <4>3. ASSUME NEW f \in DOMAIN report'
            PROVE  report'[f].versions =
                     { results[g].build : g \in { h \in Repeats(f) : results[h].versions # {} } }
        <5>1. Repeats(f) \subseteq Whole
          BY <3>2, <4>3 DEF Combinable, Repeats, Whole
        <5>2. report'[f].versions = UNION { results[g].versions : g \in Repeats(f) }
          BY <3>2, <4>3 DEF MergeVersions
        <5>3. \A g \in Repeats(f) : results[g].versions \subseteq {results[g].build}
          BY <5>1 DEF StampInv
        <5>4. ASSUME NEW stamp, NEW g \in Repeats(f), stamp \in results[g].versions
              PROVE  stamp = results[g].build /\ results[g].versions # {}
          BY <5>3, <5>4
        <5>5. ASSUME NEW g \in Repeats(f), results[g].versions # {}
              PROVE  results[g].build \in results[g].versions
          BY <5>3, <5>5
        <5> QED
          BY <5>2, <5>4, <5>5
      <4>4. \A f \in DOMAIN report' : report'[f].repeats = Repeats(f)
        BY <3>2
      <4> QED
        BY <4>1, <4>2, <4>3, <4>4 DEF BuildsNamed
    <3> QED
      BY <2>15, <3>1, <3>2 DEF Combine
  <2>16. CASE Unreachable
    BY <2>16, <2>u DEF Unreachable, Fails, Running
  <2>17. CASE Begin
    <3>1. UNCHANGED <<results, checkout>> /\ report' = << >> /\ pc' = "smt"
      BY <2>17 DEF Begin
    <3>2. versions' \subseteq {checkout}
      BY <2>17 DEF Begin, TargetVersions
    <3> QED
      BY <3>1, <3>2, <2>e DEF StampInv, Whole
  <2>18. CASE LeftSamples
    BY <2>18, <2>u DEF LeftSamples, Running
  <2>19. CASE Killed
    BY <2>19, <2>u DEF Killed, Running
  <2>20. CASE Reboot
    BY <2>20, <2>u DEF Reboot, Running
  <2>21. CASE Upgrade
    BY <2>21, <2>b DEF Upgrade, StampInv, Whole, Running
  <2>22. CASE UNCHANGED vars
    BY <2>22, <2>u DEF vars, Running
  <2>23. CASE UnreachableSetting
    BY <2>23, <2>u DEF UnreachableSetting, Goes, SettingAfter, Running
  <2>24. CASE Reconnect
    BY <2>24, <2>u DEF Reconnect, Running
  <2> QED
    BY <2>1, <2>2, <2>3, <2>4, <2>5, <2>6, <2>7, <2>8, <2>9, <2>10, <2>11, <2>12, <2>13,
       <2>14, <2>15, <2>16, <2>17, <2>18, <2>19, <2>20, <2>21, <2>22, <2>23,
       <2>24 DEF Next, Step
<1> QED
  BY <1>1, <1>2, PTL DEF Spec
-----------------------------------------------------------------------------

\* No matrix asks for more CPUs than the target has cores, for each of which there
\* is one with SMT or without
FitsCores ==
  \A a \in Matrices : a.numcpus_range[1] \in 1..Cores /\ a.numcpus_range[2] \in 1..Cores

\* The name of a result tells the I/O patterns that are asked for apart
Patterns == UNION { { a.rws[j] : j \in DOMAIN a.rws } : a \in Matrices }
PatternsTold == NamesRw \/ \A v, w \in Patterns : v = w

TestSet == [ht : {0, 1}, tu : {0, 1}, sm : {0, 1}, st : {0, 1}, freq : STRING,
            cpus : Nat \ {0}, rw : Patterns]

\* A test that fits has hyperthreads only with SMT, and as many as its cores have
Fits(t) == t.cpus \in 1..(Cores * (t.ht + 1)) /\ (t.ht = 1 => t.sm = 1)

TestsInv ==
  /\ tests \in Seq(TestSet)
  /\ FitsCores => \A i \in 1..Len(tests) : Fits(tests[i])
  /\ Running => at \in 1..Len(tests) /\ rep \in 0..(Repetitions - 1)
  /\ Running /\ pc = "combine" => at = Len(tests)

TypeInv == TypeOK /\ TestsInv

\* The CPUs that lscpu had are those of every core and, for hyperthreads, all of them
MaskInv ==
  Running =>
    /\ thrsib \in {0, 1} /\ pairs \subseteq CPUs /\ 0..(Cores - 1) \subseteq pairs
    /\ thrsib = 1 => pairs = CPUs
    /\ pc \notin {"smt", "turbo", "siblings", "combine"} => thrsib = Test.ht

\* As many CPUs as the name says, on as few cores as those can be of
ItsCpus(cpus, f) ==
  /\ Cardinality(cpus) = f.cpus
  /\ Cardinality({ Core(c) : c \in cpus }) = IF f.ht = 1 THEN (f.cpus + 1) \div 2 ELSE f.cpus

CpusInv ==
  /\ MaskInv
  /\ Running /\ pc \in {"stop", "dstop", "create", "dump"} => ItsCpus(got.cpus, Test)
  /\ RunsOnItsCpus

\* What is in the results, whoever wrote them
Content(r, f) == /\ r.rw \in Patterns /\ (NamesRw => r.rw = f.rw)
                 /\ r.ended \/ f.st = 1

\* There is a result of that case and repetition, and it is in the report
Reported(t, k) ==
  LET f == Filename(t, k)
  IN  f \in Whole /\ f \in report[[f EXCEPT !.rep = 0]].repeats

\* A name is taken only by the step that writes to it, and the cases up to the one
\* at hand have their results
CasesInv ==
  /\ Running /\ pc \in {"freq", "start", "dcgm", "bench", "stop", "dstop", "create"} => ~Exists
  /\ Running /\ pc = "dump" => Exists /\ results[Filename(Test, rep)] = Torn
  /\ Running /\ pc \in {"stop", "dstop", "create", "dump"} => Content(got, Filename(Test, rep))
  /\ \A f \in Whole : Content(results[f], f)
  /\ Running => \A i \in 1..Len(tests), k \in 0..(Repetitions - 1) :
       i < at \/ (i = at /\ k < rep) \/ pc = "combine" => Filename(tests[i], k) \in Whole
  /\ outcome = "ok" =>
       \A i \in 1..Len(tests), k \in 0..(Repetitions - 1) : Reported(tests[i], k)

-----------------------------------------------------------------------------

\* A loop over a list is at an element of it
LEMMA NthIn ==
  ASSUME NEW T, NEW s \in Seq(T), Len(s) # 0, NEW k \in Nat \ {0}, NEW inner \in Nat \ {0}
  PROVE  Nth(s, k, inner) \in T
<1>1. (k - 1) \div inner \in Int
  OBVIOUS
<1>2. ((k - 1) \div inner) % Len(s) \in 0..(Len(s) - 1)
  BY <1>1
<1> QED
  BY <1>2 DEF Nth

\* A product that is not 0 has no factor that is
LEMMA Factors ==
  ASSUME NEW m \in Nat, NEW n \in Nat
  PROVE  m * n \in Nat /\ (m * n # 0 => m # 0 /\ n # 0)
  OBVIOUS

\* What itertools.product makes of the lists of a step
LEMMA ProductOf ==
  ASSUME NEW a \in Args, NEW ht \in {0, 1}, NEW lo \in Nat \ {0}, NEW hi \in Nat, lo <= hi,
         NEW R, a.rws \in Seq(R)
  PROVE  Product(a, ht, lo, hi) \in
           Seq([ht : {ht}, tu : {0, 1}, sm : {a.smt[j] : j \in 1..Len(a.smt)}, st : {0, 1},
                freq : STRING, cpus : lo..hi, rw : R])
<1> DEFINE rw == Len(a.rws)
           cpus == (hi - lo + 1) * rw
           freq == Len(a.cpu_freqs) * cpus
           st == Len(a.stress) * freq
           sm == Len(a.smt) * st
           n == Len(a.turbo) * sm
           range == [ i \in 1..(hi - lo + 1) |-> lo + i - 1 ]
           S == {a.smt[j] : j \in 1..Len(a.smt)}
           T == [ht : {ht}, tu : {0, 1}, sm : S, st : {0, 1},
                 freq : STRING, cpus : lo..hi, rw : R]
           row(k) == [ht |-> ht, tu |-> Nth(a.turbo, k, sm), sm |-> Nth(a.smt, k, st),
                      st |-> Nth(a.stress, k, freq), freq |-> Nth(a.cpu_freqs, k, cpus),
                      cpus |-> Nth(range, k, rw), rw |-> Nth(a.rws, k, 1)]
<1>1. Product(a, ht, lo, hi) = [ k \in 1..n |-> row(k) ]
  BY DEF Product
<1>2. /\ a.turbo \in Seq({0, 1}) /\ a.smt \in Seq({0, 1}) /\ a.stress \in Seq({0, 1})
      /\ a.cpu_freqs \in Seq(STRING) /\ hi - lo + 1 \in Nat \ {0}
  BY DEF Args
<1>3. /\ Len(a.turbo) \in Nat /\ Len(a.smt) \in Nat /\ Len(a.stress) \in Nat
      /\ Len(a.cpu_freqs) \in Nat /\ rw \in Nat
  BY <1>2
<1>4. cpus \in Nat /\ (cpus # 0 => rw # 0)
  <2> HIDE DEF rw
  <2> QED BY <1>2, <1>3, Factors
<1>5. freq \in Nat /\ (freq # 0 => Len(a.cpu_freqs) # 0 /\ cpus # 0)
  <2> HIDE DEF cpus
  <2> QED BY <1>3, <1>4, Factors
<1>6. st \in Nat /\ (st # 0 => Len(a.stress) # 0 /\ freq # 0)
  <2> HIDE DEF freq
  <2> QED BY <1>3, <1>5, Factors
<1>7. sm \in Nat /\ (sm # 0 => Len(a.smt) # 0 /\ st # 0)
  <2> HIDE DEF st
  <2> QED BY <1>3, <1>6, Factors
<1>8. n \in Nat /\ (n # 0 => Len(a.turbo) # 0 /\ sm # 0)
  <2> HIDE DEF sm
  <2> QED BY <1>3, <1>7, Factors
<1>9. range \in Seq(lo..hi) /\ Len(range) # 0
  BY <1>2
<1>10. a.smt \in Seq(S)
  <2> DEFINE s == a.smt
  <2>1. s \in Seq({0, 1}) /\ Len(s) \in Nat /\ \A j \in 1..Len(s) : s[j] \in S
    BY <1>2, <1>3
  <2> HIDE DEF s, S
  <2>2. s = [ j \in 1..Len(s) |-> s[j] ]
    BY <2>1
  <2>3. [ j \in 1..Len(s) |-> s[j] ] \in Seq(S)
    BY <2>1
  <2>4. s \in Seq(S)
    BY <2>2, <2>3
  <2> QED BY <2>4 DEF s
<1>11. ASSUME NEW k \in 1..n PROVE row(k) \in T
  <2> HIDE DEF rw, cpus, freq, st, sm, n, range, S
  <2>1. k \in Nat \ {0} /\ n # 0
    BY <1>8
  <2>2. Nth(a.turbo, k, sm) \in {0, 1}
    BY <2>1, <1>2, <1>7, <1>8, NthIn
  <2>3. Nth(a.smt, k, st) \in S
    BY <2>1, <1>6, <1>7, <1>8, <1>10, NthIn
  <2>4. Nth(a.stress, k, freq) \in {0, 1}
    BY <2>1, <1>2, <1>5, <1>6, <1>7, <1>8, NthIn
  <2>5. Nth(a.cpu_freqs, k, cpus) \in STRING
    BY <2>1, <1>2, <1>4, <1>5, <1>6, <1>7, <1>8, NthIn
  <2>6. Nth(range, k, rw) \in lo..hi
    BY <2>1, <1>3, <1>4, <1>5, <1>6, <1>7, <1>8, <1>9, NthIn
  <2>7. Nth(a.rws, k, 1) \in R
    <3>1. Len(a.rws) # 0
      BY <2>1, <1>4, <1>5, <1>6, <1>7, <1>8 DEF rw
    <3> QED BY <2>1, <3>1, NthIn
  <2> QED BY <2>2, <2>3, <2>4, <2>5, <2>6, <2>7
<1>12. [ k \in 1..n |-> row(k) ] \in Seq(T)
  <2> HIDE DEF n, row, T
  <2> QED BY <1>8, <1>11
<1> QED
  BY <1>1, <1>12

\* Whether SMT is on or off the first thread of every core is online
LEMMA Machine ==
  /\ CPUs = 0..(2 * Cores - 1) /\ 0..(Cores - 1) \subseteq Online /\ Online \subseteq CPUs
  /\ IsFiniteSet(CPUs) /\ IsFiniteSet(Online)
  /\ Cardinality(Online) \in Nat /\ Cardinality(Online) >= Cores
<1>1. /\ CPUs = 0..(2 * Cores - 1) /\ 0..(Cores - 1) \subseteq Online /\ Online \subseteq CPUs
  BY BenchAssumption DEF CPUs, Online
<1>2. IsFiniteSet(CPUs)
  BY <1>1, BenchAssumption, FS_Interval
<1>3. IsFiniteSet(Online)
  BY <1>1, <1>2, FS_Subset
<1>4. Cardinality(0..(Cores - 1)) = Cores
  BY BenchAssumption, FS_Interval
<1>5. Cardinality(0..(Cores - 1)) <= Cardinality(Online)
  BY <1>1, <1>3, FS_Subset
<1> QED BY <1>1, <1>2, <1>3, <1>4, <1>5, FS_CardinalityType

\* Tests of some hyperthreads, SMTs and numbers of CPUs
LEMMA Narrower ==
  ASSUME NEW H, H \subseteq {0, 1}, NEW S, S \subseteq {0, 1}, NEW C, C \subseteq Nat \ {0}
  PROVE  [ht : H, tu : {0, 1}, sm : S, st : {0, 1}, freq : STRING, cpus : C, rw : Patterns]
           \subseteq TestSet
  BY DEF TestSet

\* The tests of a matrix, and that those of cores the target has fit
LEMMA TestsOf ==
  ASSUME NEW a \in Matrices, NEW lo, NEW hi,
         <<lo, hi>> = CreateRange(a.numcpus_range, Cardinality(Online))
  PROVE  /\ Tests(a, lo, hi) \in Seq(TestSet)
         /\ FitsCores => \A i \in 1..Len(Tests(a, lo, hi)) : Fits(Tests(a, lo, hi)[i])
<1> DEFINE on == [ i \in 1..Cardinality({ j \in DOMAIN a.smt : a.smt[j] = 1 }) |-> 1 ]
           b  == [a EXCEPT !.smt = on]
           of(ht) == IF ht \notin a.hyperthreads \/ lo > hi THEN << >>
                     ELSE IF ht = 0 THEN Product(a, 0, lo, hi)
                     ELSE Product(b, 1, 2 * lo - 1, 2 * hi)
           Good == {t \in TestSet : FitsCores => Fits(t)}
<1>1. a \in Args /\ a.rws \in Seq(Patterns)
  <2>1. a \in Args
    BY BenchAssumption
  <2> DEFINE s == a.rws
  <2>2. s \in Seq(STRING) /\ Len(s) \in Nat /\ DOMAIN s = 1..Len(s)
    BY <2>1 DEF Args
  <2>3. \A j \in 1..Len(s) : s[j] \in Patterns
    BY <2>2 DEF Patterns
  <2> HIDE DEF s
  <2>4. s = [ j \in 1..Len(s) |-> s[j] ]
    BY <2>2
  <2>5. [ j \in 1..Len(s) |-> s[j] ] \in Seq(Patterns)
    BY <2>2, <2>3
  <2>6. s \in Seq(Patterns)
    BY <2>4, <2>5
  <2> QED BY <2>1, <2>6 DEF s
<1>2. on \in Seq({0, 1}) /\ \A j \in 1..Len(on) : on[j] = 1
  <2> DEFINE J == { j \in DOMAIN a.smt : a.smt[j] = 1 }
  <2>1. a.smt \in Seq({0, 1})
    BY <1>1 DEF Args
  <2>2. DOMAIN a.smt = 1..Len(a.smt) /\ Len(a.smt) \in Nat
    BY <2>1
  <2>3. IsFiniteSet(1..Len(a.smt)) /\ J \subseteq 1..Len(a.smt)
    BY <2>2, FS_Interval
  <2>4. Cardinality(J) \in Nat
    BY <2>3, FS_Subset, FS_CardinalityType
  <2> DEFINE n == Cardinality(J)
  <2> HIDE DEF n, J
  <2>5. [ i \in 1..n |-> 1 ] \in Seq({0, 1}) /\ Len([ i \in 1..n |-> 1 ]) = n
    BY <2>4 DEF n
  <2>6. on = [ i \in 1..n |-> 1 ]
    BY DEF n, J
  <2> HIDE DEF on
  <2> QED BY <2>5, <2>6
<1>3. b \in Args /\ b.rws = a.rws /\ b.smt = on
  <2> HIDE DEF on
  <2> QED BY <1>1, <1>2 DEF Args
<1>4. /\ lo \in Nat \ {0} /\ hi \in Nat
      /\ FitsCores => lo \in 1..Cores /\ hi \in 1..Cores
  <2>1. a.numcpus_range \in Nat \X Nat
    BY <1>1 DEF Args
  <2>2. Cardinality(Online) \in Nat /\ Cardinality(Online) >= Cores
    BY Machine
  <2>3. Cores \in Nat \ {0}
    BY BenchAssumption
  <2> QED BY <2>1, <2>2, <2>3 DEF CreateRange, FitsCores
<1>5. of(0) \in Seq(Good)
  <2>1. CASE of(0) = << >>
    <3>1. << >> \in Seq(Good)
      <4> HIDE DEF Good
      <4> QED OBVIOUS
    <3> HIDE DEF of, Good
    <3> QED BY <2>1, <3>1
  <2>2. CASE of(0) # << >>
    <3>1. lo <= hi /\ of(0) = Product(a, 0, lo, hi)
      BY <2>2, <1>4
    <3> DEFINE S == {a.smt[j] : j \in 1..Len(a.smt)}
               C == lo..hi
               T == [ht : {0}, tu : {0, 1}, sm : S, st : {0, 1},
                     freq : STRING, cpus : C, rw : Patterns]
    <3>2. Product(a, 0, lo, hi) \in Seq(T)
      BY <1>1, <1>4, <3>1, ProductOf
    <3>3. S \subseteq {0, 1}
      BY <1>1 DEF Args
    <3>4. T \subseteq Good
      <4> SUFFICES ASSUME NEW t \in T PROVE t \in Good
        OBVIOUS
      <4>1. t \in TestSet
        <5>1. C \subseteq Nat \ {0}
          BY <1>4
        <5> HIDE DEF S, C
        <5> QED BY <3>3, <5>1, Narrower
      <4> HIDE DEF S
      <4>2. FitsCores => Fits(t)
        BY <1>4, BenchAssumption DEF Fits
      <4> QED BY <4>1, <4>2
    <3> HIDE DEF T, Good, of
    <3> QED BY <3>1, <3>2, <3>4
  <2> HIDE DEF of, Good
  <2> QED BY <2>1, <2>2
<1>6. of(1) \in Seq(Good)
  <2>1. CASE of(1) = << >>
    <3>1. << >> \in Seq(Good)
      <4> HIDE DEF Good
      <4> QED OBVIOUS
    <3> HIDE DEF of, Good
    <3> QED BY <2>1, <3>1
  <2>2. CASE of(1) # << >>
    <3>1. lo <= hi /\ of(1) = Product(b, 1, 2 * lo - 1, 2 * hi)
      BY <2>2, <1>4
    <3> DEFINE S == {b.smt[j] : j \in 1..Len(b.smt)}
               C == (2 * lo - 1)..(2 * hi)
               T == [ht : {1}, tu : {0, 1}, sm : S, st : {0, 1},
                     freq : STRING, cpus : C, rw : Patterns]
    <3>2. Product(b, 1, 2 * lo - 1, 2 * hi) \in Seq(T)
      <4>1. 2 * lo - 1 \in Nat \ {0} /\ 2 * hi \in Nat /\ 2 * lo - 1 <= 2 * hi
        BY <1>4, <3>1
      <4>2. b.rws \in Seq(Patterns)
        BY <1>1, <1>3
      <4> HIDE DEF b
      <4> QED BY <1>3, <4>1, <4>2, ProductOf
    <3>3. S \subseteq {1}
      <4> HIDE DEF b, on
      <4> QED BY <1>2, <1>3
    <3>4. T \subseteq Good
      <4> SUFFICES ASSUME NEW t \in T PROVE t \in Good
        OBVIOUS
      <4>1. t \in TestSet
        <5>1. C \subseteq Nat \ {0}
          BY <1>4
        <5> HIDE DEF S, C
        <5> QED BY <3>3, <5>1, Narrower
      <4> HIDE DEF S
      <4>2. FitsCores => Fits(t)
        <5>1. t.ht = 1 /\ t.sm = 1 /\ t.cpus \in (2 * lo - 1)..(2 * hi)
          BY <3>3
        <5>2. Cores * (t.ht + 1) = 2 * Cores
          BY <5>1, BenchAssumption
        <5> HIDE DEF T
        <5> QED BY <1>4, <5>1, <5>2, BenchAssumption DEF Fits
      <4> QED BY <4>1, <4>2
    <3> HIDE DEF T, Good, of
    <3> QED BY <3>1, <3>2, <3>4
  <2> HIDE DEF of, Good
  <2> QED BY <2>1, <2>2
<1>7. Tests(a, lo, hi) = of(0) \o of(1)
  BY DEF Tests
<1>8. Tests(a, lo, hi) \in Seq(Good)
  <2> HIDE DEF of, Good
  <2> QED BY <1>5, <1>6, <1>7
<1>9. Tests(a, lo, hi) \in Seq(TestSet)
  <2>1. Good \subseteq TestSet
    OBVIOUS
  <2> HIDE DEF Good, of
  <2> QED BY <2>1, <1>8
<1>10. \A i \in 1..Len(Tests(a, lo, hi)) : Tests(a, lo, hi)[i] \in Good
  <2> HIDE DEF Good, of
  <2> QED BY <1>8
<1> QED BY <1>9, <1>10
-----------------------------------------------------------------------------

\* The two threads of a core
LEMMA CoreOf ==
  \A c \in CPUs : /\ c < Cores => Core(c) = c
                  /\ c >= Cores => Core(c) = c - Cores
<1> SUFFICES ASSUME NEW c \in CPUs
             PROVE  (c < Cores => Core(c) = c) /\ (c >= Cores => Core(c) = c - Cores)
  OBVIOUS
<1>1. c \in 0..(2 * Cores - 1) /\ Cores \in Nat \ {0}
  BY Machine, BenchAssumption
<1>2. c < Cores => c % Cores = c
  BY <1>1
<1>3. c >= Cores => c % Cores = c - Cores
  BY <1>1
<1> QED BY <1>2, <1>3 DEF Core

\* Two stretches of CPUs that do not overlap
LEMMA Stretches ==
  ASSUME NEW m \in Nat, NEW k \in Nat, m <= Cores
  PROVE  /\ IsFiniteSet((0..(m - 1)) \cup (Cores..(Cores + k - 1)))
         /\ Cardinality((0..(m - 1)) \cup (Cores..(Cores + k - 1))) = m + k
<1>1. Cores \in Nat
  BY BenchAssumption
<1>2. IsFiniteSet(0..(m - 1)) /\ Cardinality(0..(m - 1)) = m
  BY FS_Interval
<1>3. IsFiniteSet(Cores..(Cores + k - 1)) /\ Cardinality(Cores..(Cores + k - 1)) = k
  BY <1>1, FS_Interval
<1>4. (0..(m - 1)) \cap (Cores..(Cores + k - 1)) = {}
  BY <1>1
<1>5. Cardinality({}) = 0
  BY FS_EmptySet
<1> DEFINE A == 0..(m - 1)
           B == Cores..(Cores + k - 1)
<1>6. /\ IsFiniteSet(A) /\ IsFiniteSet(B) /\ A \cap B = {}
      /\ Cardinality(A) = m /\ Cardinality(B) = k
  BY <1>2, <1>3, <1>4
<1>7. IsFiniteSet(A \cup B) /\ Cardinality(A \cup B) = m + k - 0
  <2> HIDE DEF A, B
  <2>1. Cardinality(A \cup B) = Cardinality(A) + Cardinality(B) - Cardinality(A \cap B)
    BY <1>6, FS_Union
  <2>2. IsFiniteSet(A \cup B)
    BY <1>6, FS_Union
  <2> QED BY <1>5, <1>6, <2>1, <2>2
<1> QED BY <1>7

\* In the order of their numbers the first CPUs are of one core each
LEMMA MaskOfCores ==
  ASSUME thrsib = 0, pairs \subseteq CPUs, 0..(Cores - 1) \subseteq pairs, NEW n \in 1..Cores
  PROVE  Mask(n) = 0..(n - 1)
<1> DEFINE below(d) == { c \in pairs : Before(c, d) }
<1>1. Cores \in Nat \ {0} /\ CPUs = 0..(2 * Cores - 1) /\ IsFiniteSet(pairs)
  BY BenchAssumption, Machine, FS_Subset
<1>2. \A c, d : Before(c, d) <=> c < d
  BY DEF Before
<1>3. ASSUME NEW d \in 0..(Cores - 1) PROVE Cardinality(below(d)) = d
  <2>1. below(d) = { c \in pairs : c < d }
    BY <1>2
  <2>2. { c \in pairs : c < d } \subseteq 0..(d - 1)
    <3>1. ASSUME NEW c \in pairs, c < d PROVE c \in 0..(d - 1)
      <4>1. c \in 0..(2 * Cores - 1)
        BY <1>1
      <4> QED BY <1>1, <3>1, <4>1
    <3> QED BY <3>1
  <2>3. 0..(d - 1) \subseteq { c \in pairs : c < d }
    <3>1. ASSUME NEW c \in 0..(d - 1) PROVE c \in 0..(Cores - 1) /\ c < d
      BY <1>1
    <3> QED BY <3>1
  <2>4. Cardinality(0..(d - 1)) = d
    BY FS_Interval
  <2> HIDE DEF below
  <2>5. below(d) = 0..(d - 1)
    BY <2>1, <2>2, <2>3
  <2> QED BY <2>4, <2>5
<1>4. ASSUME NEW d \in pairs, d >= Cores
      PROVE  Cardinality(below(d)) \in Nat /\ Cardinality(below(d)) >= Cores
  <2>1. 0..(Cores - 1) \subseteq below(d)
    BY <1>1, <1>2, <1>4
  <2>2. IsFiniteSet(below(d))
    BY <1>1, FS_Subset
  <2>3. Cardinality(0..(Cores - 1)) = Cores
    BY <1>1, FS_Interval
  <2> HIDE DEF below
  <2> QED BY <2>1, <2>2, <2>3, FS_Subset, FS_CardinalityType
<1>5. Mask(n) = { d \in pairs : Cardinality(below(d)) < n }
  BY DEF Mask
<1> HIDE DEF below
<1>6. ASSUME NEW d \in Mask(n) PROVE d \in 0..(n - 1)
  <2>1. d \in pairs /\ Cardinality(below(d)) < n /\ d \in 0..(2 * Cores - 1)
    BY <1>1, <1>5
  <2>2. d \in 0..(Cores - 1)
    BY <1>1, <1>4, <2>1
  <2> QED BY <1>3, <2>1, <2>2
<1>7. ASSUME NEW d \in 0..(n - 1) PROVE d \in Mask(n)
  <2>1. d \in 0..(Cores - 1) /\ d < n
    BY <1>1
  <2> QED BY <1>3, <1>5, <2>1
<1> QED BY <1>6, <1>7

\* With thread siblings they are both those of one core before the next
LEMMA MaskOfThreads ==
  ASSUME thrsib = 1, pairs = CPUs, NEW n \in 1..(2 * Cores)
  PROVE  Mask(n) = (0..(((n + 1) \div 2) - 1)) \cup (Cores..(Cores + (n \div 2) - 1))
<1> DEFINE below(d) == { c \in CPUs : Before(c, d) }
<1>1. Cores \in Nat \ {0} /\ CPUs = 0..(2 * Cores - 1)
  BY BenchAssumption, Machine
<1>2. \A c, d : Before(c, d) <=> Core(c) < Core(d) \/ (Core(c) = Core(d) /\ c < d)
  BY DEF Before
<1>3. ASSUME NEW d \in CPUs, d < Cores PROVE Cardinality(below(d)) = 2 * d
  <2>1. below(d) = (0..(d - 1)) \cup (Cores..(Cores + d - 1))
    BY <1>1, <1>2, <1>3, CoreOf
  <2>2. d \in Nat /\ d <= Cores
    BY <1>1, <1>3
  <2>3. Cardinality((0..(d - 1)) \cup (Cores..(Cores + d - 1))) = d + d
    BY <2>2, Stretches
  <2> HIDE DEF below
  <2> QED BY <2>1, <2>2, <2>3
<1>4. ASSUME NEW d \in CPUs, d >= Cores PROVE Cardinality(below(d)) = 2 * (d - Cores) + 1
  <2> DEFINE m == d - Cores + 1
             k == d - Cores
  <2>1. below(d) = (0..(m - 1)) \cup (Cores..(Cores + k - 1))
    BY <1>1, <1>2, <1>4, CoreOf
  <2>2. m \in Nat /\ k \in Nat /\ m <= Cores /\ m + k = 2 * (d - Cores) + 1
    BY <1>1, <1>4
  <2> HIDE DEF below, m, k
  <2> QED BY <2>1, <2>2, Stretches
<1>5. Mask(n) = { d \in CPUs : Cardinality(below(d)) < n }
  BY DEF Mask
<1>6. ASSUME NEW d \in CPUs
      PROVE  d \in Mask(n) <=> (d < Cores /\ 2 * d < n)
                               \/ (d >= Cores /\ 2 * (d - Cores) + 1 < n)
  <2>1. d \in Mask(n) <=> Cardinality(below(d)) < n
    BY <1>5
  <2>2. d < Cores \/ d >= Cores
    BY <1>1
  <2> HIDE DEF below
  <2> QED BY <1>3, <1>4, <2>1, <2>2
<1>7. /\ (n + 1) \div 2 \in Nat /\ n \div 2 \in Nat
      /\ (n + 1) \div 2 <= Cores /\ n \div 2 <= Cores
      /\ \A x \in Nat : 2 * x < n <=> x <= ((n + 1) \div 2) - 1
      /\ \A x \in Nat : 2 * x + 1 < n <=> x <= (n \div 2) - 1
  BY <1>1
<1> DEFINE h == (n + 1) \div 2
           g == n \div 2
<1>8. /\ h \in Nat /\ g \in Nat /\ h <= Cores /\ g <= Cores
      /\ \A x \in Nat : 2 * x < n <=> x <= h - 1
      /\ \A x \in Nat : 2 * x + 1 < n <=> x <= g - 1
  BY <1>7
<1>9. Mask(n) \subseteq CPUs
  BY <1>5
<1> HIDE DEF below, h, g
<1>10. Mask(n) = (0..(h - 1)) \cup (Cores..(Cores + g - 1))
  <2>1. ASSUME NEW d \in CPUs
        PROVE  d \in Mask(n) <=> d \in (0..(h - 1)) \cup (Cores..(Cores + g - 1))
    <3>1. CASE d < Cores
      BY <1>1, <1>6, <1>8, <3>1
    <3>2. CASE d >= Cores
      <4>1. d - Cores \in Nat
        BY <1>1, <3>2
      <4>2. 2 * (d - Cores) + 1 < n <=> d - Cores <= g - 1
        BY <1>8, <4>1
      <4> QED BY <1>1, <1>6, <1>8, <3>2, <4>2
    <3> QED BY <1>1, <3>1, <3>2
  <2>2. (0..(h - 1)) \cup (Cores..(Cores + g - 1)) \subseteq CPUs
    BY <1>1, <1>8
  <2> QED BY <1>9, <2>1, <2>2
<1> QED BY <1>10 DEF h, g
\* The CPUs of a measurement
LEMMA ItsMask ==
  ASSUME NEW t \in TestSet, Fits(t), thrsib = t.ht, pairs \subseteq CPUs,
         0..(Cores - 1) \subseteq pairs, thrsib = 1 => pairs = CPUs, t.ht = 1 => smt = 1
  PROVE  ItsCpus(Mask(t.cpus) \cap Online, t)
<1>1. /\ Cores \in Nat \ {0} /\ CPUs = 0..(2 * Cores - 1) /\ t.ht \in {0, 1}
      /\ 0..(Cores - 1) \subseteq Online
  BY BenchAssumption, Machine DEF TestSet
<1> DEFINE n == t.cpus
<1>2. CASE t.ht = 0
  <2>1. n \in 1..Cores
    BY <1>1, <1>2 DEF Fits
  <2>2. Mask(n) = 0..(n - 1)
    BY <1>2, <2>1, MaskOfCores
  <2> HIDE DEF n
  <2>3. 0..(n - 1) \subseteq 0..(Cores - 1) /\ Cardinality(0..(n - 1)) = n
    <3>1. n \in Nat /\ n <= Cores
      BY <1>1, <2>1
    <3>2. Cardinality(0..(n - 1)) = IF 0 > n - 1 THEN 0 ELSE (n - 1) - 0 + 1
      BY <3>1, FS_Interval
    <3> QED BY <1>1, <3>1, <3>2
  <2>4. Mask(n) \cap Online = 0..(n - 1)
    BY <1>1, <2>2, <2>3
  <2>5. { Core(c) : c \in 0..(n - 1) } = 0..(n - 1)
    <3>1. \A c \in 0..(n - 1) : Core(c) = c
      BY <1>1, <2>1, CoreOf
    <3> QED BY <3>1
  <2> DEFINE M == 0..(n - 1)
  <2>6. Mask(n) \cap Online = M /\ Cardinality(M) = n /\ { Core(c) : c \in M } = M
    BY <2>3, <2>4, <2>5
  <2> HIDE DEF M
  <2>7. Cardinality(M) = t.cpus /\ Cardinality({ Core(c) : c \in M }) = t.cpus /\ t.ht # 1
    BY <1>2, <2>6 DEF n
  <2>8. ItsCpus(M, t)
    BY <2>7, Zenon DEF ItsCpus
  <2> QED BY <2>6, <2>8 DEF n
<1>3. CASE t.ht = 1
  <2>1. n \in 1..(2 * Cores)
    BY <1>1, <1>3 DEF Fits
  <2> DEFINE h == (n + 1) \div 2
             g == n \div 2
             M == (0..(h - 1)) \cup (Cores..(Cores + g - 1))
  <2>2. Mask(n) = M
    BY <1>3, <2>1, MaskOfThreads
  <2> HIDE DEF n
  <2>3. h \in Nat /\ g \in Nat /\ h <= Cores /\ g <= Cores /\ h + g = n /\ g <= h
    BY <1>1, <2>1
  <2> HIDE DEF h, g
  <2>4. Cardinality(M) = n
    <3>1. Cardinality(M) = h + g
      BY <2>3, Stretches
    <3> HIDE DEF M
    <3> QED BY <2>3, <3>1
  <2>5. M \subseteq CPUs
    BY <1>1, <2>3
  <2>6. Online = CPUs
    BY <1>3 DEF Online
  <2>7. { Core(c) : c \in M } = 0..(h - 1)
    <3>1. ASSUME NEW c \in M PROVE Core(c) \in 0..(h - 1)
      BY <1>1, <2>3, <2>5, CoreOf
    <3>2. ASSUME NEW c \in 0..(h - 1) PROVE c \in M /\ Core(c) = c
      BY <1>1, <2>3, <2>5, CoreOf
    <3> HIDE DEF M
    <3> QED BY <3>1, <3>2
  <2>8. Cardinality(0..(h - 1)) = h
    BY <2>3, FS_Interval
  <2>9. Mask(n) \cap Online = M
    BY <2>2, <2>5, <2>6
  <2> HIDE DEF M
  <2> QED BY <1>3, <2>4, <2>7, <2>8, <2>9 DEF ItsCpus, h, n
<1> QED BY <1>1, <1>2, <1>3

-----------------------------------------------------------------------------

\* TypeInv is an invariant: every step keeps the tests, and goes on to a test there is
LEMMA TypesInvariant == Spec => []TypeInv
<1> USE DEF settings, monitors, files, place, helpers, flags, reach, stamps
<1>1. Init => TypeInv
  <2> SUFFICES ASSUME Init PROVE TypeInv
    OBVIOUS
  <2>1. tests = << >> /\ ~Running
    BY DEF Init, Running
  <2>2. TestsInv
    BY <2>1 DEF TestsInv
  <2>3. governor = [ c \in CPUs |-> "ondemand" ] /\ runs = 0 /\ faults = 0
    BY DEF Init
  <2>4. TypeOK
    <3>1. DOMAIN governor = CPUs /\ runs \in 0..MaxRuns /\ faults \in 0..MaxFaults
      BY <2>3, BenchAssumption
    <3>2. /\ smt \in {0, 1} /\ turbo \in {0, 1}
          /\ loggers = {} /\ dcgmis = {} /\ log = {} /\ dcgmOut = {} /\ outcome = "none"
          /\ knownSmt = {} /\ knownTurbo = {} /\ thrsib = 0 /\ pairs = {}
          /\ supported \in BOOLEAN /\ logging \in BOOLEAN /\ monitoring \in BOOLEAN
          /\ link \in BOOLEAN /\ checkout = 1 /\ versions = {}
          /\ tmp \in BOOLEAN /\ passed = {}
      BY DEF Init
    <3> QED BY <2>1, <3>1, <3>2 DEF TypeOK, Samples
  <2> QED BY <2>2, <2>4 DEF TypeInv
<1>2. TypeInv /\ [Next]_vars => TypeInv'
  <2> SUFFICES ASSUME TypeInv, [Next]_vars PROVE TypeInv'
    OBVIOUS
  <2>t. TypeOK /\ TestsInv /\ tests \in Seq(TestSet)
    BY DEF TypeInv, TestsInv
  <2>x. Running => /\ at \in 1..Len(tests) /\ Test.sm \in {0, 1} /\ Test.tu \in {0, 1}
                   /\ Test.ht \in {0, 1}
    <3> SUFFICES ASSUME Running
                 PROVE  /\ at \in 1..Len(tests) /\ Test.sm \in {0, 1}
                        /\ Test.tu \in {0, 1} /\ Test.ht \in {0, 1}
      OBVIOUS
    <3>1. at \in 1..Len(tests)
      BY <2>t DEF TestsInv
    <3>2. Test \in TestSet
      BY <2>t, <3>1 DEF Test
    <3> QED BY <3>1, <3>2 DEF TestSet
  <2>s. Strikes => faults' \in 0..MaxFaults
    BY <2>t, BenchAssumption DEF Strikes, TypeOK
  <2>o. Online \subseteq CPUs
    BY Machine
  \* A step that leaves the tests, and is not to combine
  <2>k. ASSUME UNCHANGED place, Running' => Running /\ pc' # "combine" PROVE TestsInv'
    BY <2>k, <2>t DEF TestsInv, Fits, Running
  <2>g. ASSUME NEW s, Goes(s), s # "combine", Running
        PROVE  (Running' => Running /\ pc' # "combine") /\ UNCHANGED <<outcome, reach, runs>>
    BY <2>g DEF Goes, Running
  <2>f. Fails => /\ Running' => Running /\ pc' # "combine"
                 /\ outcome' = "failed" /\ UNCHANGED <<reach, runs>>
    BY DEF Fails, Running
  <2>n. ASSUME NextRep, Running
        PROVE  TestsInv' /\ UNCHANGED <<outcome, reach, runs>>
    <3>1. Len(tests) \in Nat /\ Repetitions \in Nat \ {0} /\ Running
      BY <2>t, <2>n, BenchAssumption
    <3> QED BY <2>t, <2>n, <3>1 DEF NextRep, Goes, TestsInv, Fits, Running
  <2>1. CASE ToggleSmt
    <3>1. TestsInv'
      BY <2>1, <2>k, <2>f DEF ToggleSmt, At, Goes, SettingAfter
    <3>2. /\ smt' \in {0, 1} /\ knownSmt' \subseteq {0, 1} /\ faults' \in 0..MaxFaults
          /\ outcome' \in {outcome, "failed"} /\ UNCHANGED <<reach, runs>>
      BY <2>1, <2>t, <2>x, <2>s DEF ToggleSmt, At, Goes, Fails, TypeOK
    <3>3. UNCHANGED <<stamps, turbo, governor, passed, monitors, knownTurbo, thrsib, supported, pairs,
                      flags>>
      BY <2>1 DEF ToggleSmt
    <3>4. TypeOK'
      BY <2>t, <3>1, <3>2, <3>3 DEF TypeOK, Samples, TestsInv, CPUs
    <3> QED BY <3>1, <3>4 DEF TypeInv
  <2>2. CASE ToggleTurbo
    <3>1. TestsInv'
      BY <2>2, <2>k DEF ToggleTurbo, At, Goes, SettingAfter, Running
    <3>2. /\ turbo' \in {0, 1} /\ knownTurbo' \subseteq {0, 1} /\ faults' \in 0..MaxFaults
          /\ supported' \in BOOLEAN /\ UNCHANGED <<outcome, reach, runs>>
      BY <2>2, <2>t, <2>x, <2>s DEF ToggleTurbo, At, Goes, Unsupported, TypeOK
    <3>3. UNCHANGED <<stamps, smt, governor, passed, monitors, knownSmt, thrsib, pairs, flags>>
      BY <2>2 DEF ToggleTurbo
    <3>4. TypeOK'
      BY <2>t, <3>1, <3>2, <3>3 DEF TypeOK, Samples, TestsInv, CPUs
    <3> QED BY <3>1, <3>4 DEF TypeInv
  <2>3. CASE UseThreadSiblings
    <3>1. TestsInv'
      BY <2>3, <2>k, <2>f DEF UseThreadSiblings, At, Goes, SettingAfter, Running
    <3>2. /\ pairs' \subseteq CPUs /\ thrsib' \in {0, 1} /\ faults' \in 0..MaxFaults
          /\ outcome' \in {outcome, "failed"} /\ UNCHANGED <<reach, runs>>
      BY <2>3, <2>t, <2>x, <2>s, <2>o DEF UseThreadSiblings, At, Goes, Fails, TypeOK
    <3>3. UNCHANGED <<stamps, settings, monitors, knownSmt, knownTurbo, supported, flags>>
      BY <2>3 DEF UseThreadSiblings
    <3>4. TypeOK'
      BY <2>t, <3>1, <3>2, <3>3 DEF TypeOK, Samples, TestsInv, CPUs
    <3> QED BY <3>1, <3>4 DEF TypeInv
  <2>4. CASE FindResult
    <3>1. TestsInv'
      <4>1. CASE NextRep
        BY <2>4, <4>1, <2>n DEF FindResult, At
      <4>2. CASE ~NextRep
        BY <2>4, <4>2, <2>k, <2>f DEF FindResult, At, Goes, Running
      <4> QED BY <4>1, <4>2
    <3>2. outcome' \in {outcome, "failed"} /\ UNCHANGED <<reach, runs>>
      BY <2>4 DEF FindResult, NextRep, Goes, Fails
    <3>3. TypeOK'
      BY <2>4, <2>t, <3>1, <3>2 DEF FindResult, TypeOK, TestsInv, CPUs
    <3> QED BY <3>1, <3>3 DEF TypeInv
  <2>5. CASE SetCpuFreq
    <3>1. TestsInv'
      BY <2>5, <2>k DEF SetCpuFreq, At, Goes, Running
    <3>2. /\ DOMAIN governor' = CPUs /\ supported' \in BOOLEAN /\ faults' \in 0..MaxFaults
          /\ passed' \subseteq Mask(Test.cpus)
      BY <2>5, <2>t, <2>s DEF SetCpuFreq, TypeOK, Unsupported
    <3>4. passed' \subseteq CPUs
      BY <2>t, <3>2 DEF Mask, TypeOK
    <3>3. TypeOK'
      BY <2>5, <2>t, <3>1, <3>2, <3>4 DEF SetCpuFreq, Goes, TypeOK, TestsInv, CPUs
    <3> QED BY <3>1, <3>3 DEF TypeInv
  <2>6. CASE StartLogging
    <3>1. TestsInv'
      BY <2>6, <2>k, <2>f DEF StartLogging, At, Goes, Running
    <3>2. /\ UNCHANGED <<stamps, settings, dcgmis, dcgmOut, helpers, monitoring, reach, runs>>
          /\ outcome' \in {outcome, "failed"} /\ faults' \in 0..MaxFaults
          /\ logging' \in BOOLEAN
      BY <2>6, <2>t, <2>s DEF StartLogging, Goes, Fails, TypeOK
    <3>3. loggers' \subseteq {"own", "left"} /\ (log' = log \/ log' = {})
      BY <2>6, <2>t DEF StartLogging, Removed, TypeOK
    <3>4. TypeOK'
      BY <2>t, <3>1, <3>2, <3>3 DEF TypeOK, TestsInv, CPUs
    <3> QED BY <3>1, <3>4 DEF TypeInv
  <2>7. CASE StartDcgm
    <3>1. TestsInv'
      BY <2>7, <2>k, <2>f DEF StartDcgm, At, Goes, Running
    <3>2. /\ UNCHANGED <<stamps, settings, helpers, reach, runs>>
          /\ outcome' \in {outcome, "failed"} /\ faults' \in 0..MaxFaults
          /\ logging' \in BOOLEAN /\ monitoring' \in BOOLEAN
      BY <2>7, <2>t, <2>s DEF StartDcgm, Goes, Fails, TypeOK
    <3>3. /\ dcgmis' \subseteq {"own", "left"} /\ (dcgmOut' = dcgmOut \/ dcgmOut' = {})
          /\ log' = log /\ (loggers' = loggers \/ loggers' = {})
      BY <2>7, <2>t DEF StartDcgm, Removed, TypeOK
    <3>4. TypeOK'
      BY <2>t, <3>1, <3>2, <3>3 DEF TypeOK, TestsInv, CPUs
    <3> QED BY <3>1, <3>4 DEF TypeInv
  <2>8. CASE Bench
    <3>1. /\ pc = "bench" /\ Running /\ UNCHANGED <<place, outcome, reach, runs>>
          /\ UNCHANGED <<stamps, settings, loggers, dcgmis, files, helpers, flags>>
          /\ pc' \in {"stop", "abort"} /\ faults' \in 0..MaxFaults
      BY <2>8, <2>t, <2>s, Zenon DEF Bench, At, Goes, BenchFails, TypeOK
    <3>2. log' \subseteq Samples \ {"idle"} /\ dcgmOut' \subseteq Samples \ {"left"}
      BY <2>8, <2>t DEF Bench, TypeOK, Samples
    <3>3. TestsInv'
      BY <3>1, <2>k
    <3>4. TypeOK'
      BY <2>t, <3>1, <3>2, <3>3 DEF TypeOK, Samples, TestsInv, CPUs
    <3> QED BY <3>3, <3>4 DEF TypeInv
  <2>9. CASE StopLogging
    <3>1. TestsInv'
      BY <2>9, <2>k DEF StopLogging, At, Goes, Running
    <3>2. TypeOK'
      BY <2>9, <2>t, <2>s, <3>1 DEF StopLogging, At, Goes, Unsupported, TypeOK, TestsInv, CPUs
    <3> QED BY <3>1, <3>2 DEF TypeInv
  <2>10. CASE StopDcgm
    <3>1. TestsInv'
      BY <2>10, <2>k, <2>f DEF StopDcgm, At, Goes, Running
    <3>2. TypeOK'
      BY <2>10, <2>t, <2>s, <3>1 DEF StopDcgm, At, Goes, Fails, TypeOK, TestsInv, CPUs
    <3> QED BY <3>1, <3>2 DEF TypeInv
  <2>11. CASE AbortLogging
    <3>1. TestsInv'
      BY <2>11, <2>k DEF AbortLogging, At, Goes, Running
    <3>2. TypeOK'
      BY <2>11, <2>t, <3>1 DEF AbortLogging, At, Goes, TypeOK, TestsInv, CPUs
    <3> QED BY <3>1, <3>2 DEF TypeInv
  <2>12. CASE AbortDcgm
    <3>1. TestsInv'
      BY <2>12, <2>k, <2>f DEF AbortDcgm, At, Running
    <3>2. TypeOK'
      BY <2>12, <2>t, <3>1 DEF AbortDcgm, At, Fails, TypeOK, TestsInv, CPUs
    <3> QED BY <3>1, <3>2 DEF TypeInv
  <2>13. CASE CreateResult
    <3>1. TestsInv'
      BY <2>13, <2>k DEF CreateResult, At, Goes, Running
    <3>2. TypeOK'
      BY <2>13, <2>t, <3>1 DEF CreateResult, At, Goes, TypeOK, TestsInv, CPUs
    <3> QED BY <3>1, <3>2 DEF TypeInv
  <2>14. CASE WriteResult
    <3>1. TestsInv' /\ UNCHANGED <<outcome, reach, runs>>
      BY <2>14, <2>n DEF WriteResult, At
    <3>2. TypeOK'
      BY <2>14, <2>t, <3>1 DEF WriteResult, TypeOK, TestsInv, CPUs
    <3> QED BY <3>1, <3>2 DEF TypeInv
  <2>15. CASE Combine
    <3>1. ~Running' /\ UNCHANGED <<reach, runs>> /\ outcome' \in {"ok", "failed"}
      BY <2>15 DEF Combine, Fails, Running
    <3>2. TestsInv'
      BY <2>15, <2>k, <3>1 DEF Combine
    <3>3. TypeOK'
      BY <2>15, <2>t, <3>1, <3>2 DEF Combine, TypeOK, TestsInv, CPUs
    <3> QED BY <3>2, <3>3 DEF TypeInv
  <2>16. CASE Unreachable
    <3>1. TestsInv'
      BY <2>16, <2>k, <2>f DEF Unreachable
    <3>2. TypeOK'
      BY <2>16, <2>t, <3>1 DEF Unreachable, Fails, TypeOK, TestsInv, CPUs
    <3> QED BY <3>1, <3>2 DEF TypeInv
  <2>17. CASE Begin
    <3>1. /\ tests' \in Seq(TestSet)
          /\ FitsCores => \A i \in 1..Len(tests') : Fits(tests'[i])
      <4>1. PICK a \in Matrices :
              LET range == CreateRange(a.numcpus_range, Cardinality(Online))
              IN  tests' = Tests(a, range[1], range[2])
        BY <2>17 DEF Begin
      <4> DEFINE range == CreateRange(a.numcpus_range, Cardinality(Online))
                 lo == range[1]
                 hi == range[2]
      <4>2. <<lo, hi>> = CreateRange(a.numcpus_range, Cardinality(Online))
        BY DEF CreateRange
      <4>3. tests' = Tests(a, lo, hi)
        BY <4>1
      <4> HIDE DEF range, lo, hi
      <4> QED BY <4>2, <4>3, TestsOf
    <3>2. tests' # << >> => 1 \in 1..Len(tests')
      BY <3>1
    <3>3. /\ outcome' = IF tests' = << >> THEN "failed" ELSE "running"
          /\ pc' = "smt" /\ at' = 1 /\ rep' = 0
      BY <2>17 DEF Begin
    <3>4. TestsInv'
      BY <3>1, <3>2, <3>3, BenchAssumption DEF TestsInv, Running, Fits
    <3>5. runs' \in 0..MaxRuns /\ versions' \subseteq Nat /\ faults' \in 0..MaxFaults
      BY <2>17, <2>t, <2>s, BenchAssumption DEF Begin, TargetVersions, TypeOK
    <3>6. /\ loggers' \subseteq {"own", "left"} /\ dcgmis' \subseteq {"own", "left"}
          /\ pairs' \subseteq CPUs
      BY <2>17, <2>o DEF Begin
    <3>7. TypeOK'
      BY <2>17, <2>t, <3>3, <3>4, <3>5, <3>6 DEF Begin, TypeOK, TestsInv, CPUs
    <3> QED BY <3>4, <3>7 DEF TypeInv
  <2>18. CASE LeftSamples
    <3>1. TestsInv'
      BY <2>18, <2>t DEF LeftSamples, Samples, TestsInv, Running, Fits
    <3>2. TypeOK'
      BY <2>18, <2>t, <3>1 DEF LeftSamples, Samples, TypeOK, TestsInv, CPUs
    <3> QED BY <3>1, <3>2 DEF TypeInv
  <2>19. CASE Killed
    <3>1. TestsInv'
      BY <2>19, <2>k DEF Killed, Running
    <3>2. TypeOK'
      BY <2>19, <2>t, <2>s, <3>1 DEF Killed, TypeOK, TestsInv, CPUs
    <3> QED BY <3>1, <3>2 DEF TypeInv
  <2>20. CASE Reboot
    <3>1. TestsInv'
      BY <2>20, <2>t DEF Reboot, Samples, TestsInv, Running, Fits
    <3>2. TypeOK'
      BY <2>20, <2>t, <2>s, <3>1 DEF Reboot, Samples, TypeOK, TestsInv, CPUs
    <3> QED BY <3>1, <3>2 DEF TypeInv
  <2>21. CASE Upgrade
    <3>1. TestsInv'
      BY <2>21, <2>t DEF Upgrade, TestsInv, Running, Fits
    <3>2. TypeOK'
      BY <2>21, <2>t, <2>s, <3>1 DEF Upgrade, TypeOK, TestsInv, CPUs
    <3> QED BY <3>1, <3>2 DEF TypeInv
  <2>22. CASE UNCHANGED vars
    BY <2>22 DEF vars, TypeInv, TypeOK, TestsInv, Running, Fits, CPUs
  <2>23. CASE UnreachableSetting
    <3>1. TestsInv'
      BY <2>23, <2>k DEF UnreachableSetting, Goes, SettingAfter, Running
    <3>2. /\ knownTurbo' \subseteq {0, 1} /\ supported' \in BOOLEAN
          /\ UNCHANGED <<outcome, reach, runs>>
      BY <2>23, <2>t, <2>x DEF UnreachableSetting, Goes, Unsupported, TypeOK
    <3>3. TypeOK'
      BY <2>23, <2>t, <3>1, <3>2 DEF UnreachableSetting, TypeOK, TestsInv, CPUs
    <3> QED BY <3>1, <3>3 DEF TypeInv
  <2>24. CASE Reconnect
    <3>1. TestsInv'
      BY <2>24, <2>t DEF Reconnect, TestsInv, Running, Fits
    <3>2. TypeOK'
      BY <2>24, <2>t, <3>1 DEF Reconnect, TypeOK, TestsInv, CPUs
    <3> QED BY <3>1, <3>2 DEF TypeInv
  <2> QED
    BY <2>1, <2>2, <2>3, <2>4, <2>5, <2>6, <2>7, <2>8, <2>9, <2>10, <2>11, <2>12, <2>13,
       <2>14, <2>15, <2>16, <2>17, <2>18, <2>19, <2>20, <2>21, <2>22, <2>23,
       <2>24 DEF Next, Step
<1> QED
  BY <1>1, <1>2, PTL DEF Spec

(* main() and run_benchmark() keep to the tests and the repetitions they have,   *)
(* whatever fails and is run again; CPUs and monitors are those of the target.   *)
THEOREM TypeCorrect == Spec => []TypeOK
  BY TypesInvariant, PTL DEF TypeInv

-----------------------------------------------------------------------------

\* No monitor is taken for running before it has been started, nor after it has
\* been stopped
FlagInv ==
  Running =>
    /\ pc \notin {"dcgm", "bench", "stop", "abort"} => ~logging
    /\ pc \notin {"bench", "stop", "dstop", "abort", "dabort"} => ~monitoring
    /\ monitoring \/ pc = "dstop" => Dcgm

\* From its start to its stop a monitor's file has samples of this measurement only
FileInv ==
  Running =>
    /\ pc \in {"dcgm", "bench", "stop"} => log \subseteq {"own", "left"}
    /\ Dcgm /\ pc \in {"bench", "stop", "dstop"} => dcgmOut \subseteq {"own", "idle"}

Own(r) == r.cpu_freqs \subseteq {"own", "left"} /\ (r.dcgm \subseteq {"own"} \/ r.dcgm = {"idle"})

SampleInv == FlagInv /\ FileInv /\ (Making => GotRecord /\ Own(got)) /\ OwnSamples

\* CpuFrequencyHelper and DcgmHelper: whatever monitors a killed runner has left
\* running, what a result has of frequencies and of the GPU was sampled in its own
\* measurement, of the frequencies by its own logger or, as long as none has been
\* stopped since, by one that was left.
THEOREM SamplesOwn == Spec => []OwnSamples
<1>1. Init => SampleInv
  BY DEF Init, SampleInv, FlagInv, FileInv, OwnSamples, Making, Whole, Running
<1>2. TypeInv /\ SampleInv /\ [Next]_vars => SampleInv'
  <2> SUFFICES ASSUME TypeInv, SampleInv, [Next]_vars PROVE SampleInv'
    OBVIOUS
  <2> USE DEF settings, monitors, files, place, helpers, flags, reach, stamps, Making
  <2>r. UNCHANGED results => OwnSamples'
    BY DEF SampleInv, OwnSamples, Whole
  \* A step that leaves the files, the flags and the result in the making
  <2>u. ASSUME UNCHANGED <<results, got, log, dcgmOut, logging, monitoring>>,
               Running' => Running,
               pc' = pc \/ (/\ pc' \notin {"dcgm", "bench", "stop", "dstop", "create", "dump"}
                            /\ ~logging /\ ~monitoring)
        PROVE  SampleInv'
    <3>1. FlagInv' /\ FileInv'
      BY <2>u DEF SampleInv, FlagInv, FileInv
    <3>2. Making' => GotRecord' /\ Own(got)'
      BY <2>u DEF SampleInv, GotRecord, Own
    <3> QED
      BY <3>1, <3>2, <2>u, <2>r DEF SampleInv
  \* A step of a runner that has no monitor yet
  <2>n. ASSUME UNCHANGED <<results, got, log, dcgmOut, logging, monitoring>>,
               Running' => Running,
               Running => pc \in {"smt", "turbo", "siblings", "exists", "freq"},
               pc' = pc \/ pc' \in {"smt", "turbo", "siblings", "exists", "freq", "start", "combine"}
        PROVE  SampleInv'
    <3>1. Running => ~logging /\ ~monitoring
      BY <2>n DEF SampleInv, FlagInv
    <3> QED
      BY <2>n, <2>r, <3>1 DEF SampleInv, FlagInv, FileInv
  <2>1. CASE ToggleSmt
    BY <2>1, <2>n DEF ToggleSmt, At, Goes, Fails, SettingAfter, Running
  <2>2. CASE ToggleTurbo
    BY <2>2, <2>n DEF ToggleTurbo, At, Goes, SettingAfter, Running
  <2>3. CASE UseThreadSiblings
    BY <2>3, <2>n DEF UseThreadSiblings, At, Goes, Fails, SettingAfter, Running
  <2>4. CASE FindResult
    BY <2>4, <2>n DEF FindResult, At, Goes, Fails, NextRep, Running
  <2>5. CASE SetCpuFreq
    BY <2>5, <2>n DEF SetCpuFreq, At, Goes, Running
  <2>6. CASE StartLogging
    <3>1. /\ Running /\ pc = "start" /\ UNCHANGED <<results, got, dcgmOut, monitoring>>
          /\ ~logging /\ ~monitoring
      BY <2>6 DEF StartLogging, At, SampleInv, FlagInv
    <3>2. \/ pc' = "dcgm" /\ log' = {} /\ outcome' = outcome
          \/ outcome' = "failed" /\ pc' = pc
      BY <2>6, <3>1 DEF StartLogging, Goes, Fails, Removed
    <3> QED
      BY <3>1, <3>2, <2>r DEF SampleInv, FlagInv, FileInv, Running
  <2>7. CASE StartDcgm
    <3>1. /\ Running /\ pc = "dcgm" /\ UNCHANGED <<results, got>> /\ ~monitoring
      BY <2>7 DEF StartDcgm, At, SampleInv, FlagInv
    <3>2. \/ pc' = "bench" /\ UNCHANGED <<outcome, log>> /\ ~Dcgm /\ UNCHANGED monitoring
          \/ pc' = "bench" /\ UNCHANGED <<outcome, log>> /\ Dcgm /\ dcgmOut' = {}
          \/ outcome' = "failed" /\ pc' = pc
      BY <2>7, <3>1 DEF StartDcgm, Goes, Fails, Removed
    <3> QED
      BY <3>1, <3>2, <2>r DEF SampleInv, FlagInv, FileInv, Running
  <2>8. CASE Bench
    <3>1. /\ Running /\ pc = "bench"
          /\ UNCHANGED <<results, logging, monitoring, outcome>>
      BY <2>8 DEF Bench, At, Goes, BenchFails
    <3>2. CASE pc' = "abort"
      BY <3>1, <3>2, <2>r DEF SampleInv, FlagInv, FileInv, Running
    <3>3. CASE pc' # "abort"
      <4>1. PICK ended \in BOOLEAN, samples \in {{"idle"}, {"idle", "own"}} :
              /\ got' =
                   [smt |-> smt, turbo |-> turbo, cpus |-> Mask(Test.cpus) \cap Online,
                    governors |-> { governor[c] : c \in (Mask(Test.cpus) \cap Online) \ passed },
                    rw |-> Test.rw, cpu_freqs |-> {}, dcgm |-> {}, supported |-> supported,
                    versions |-> versions, build |-> checkout, ended |-> ended]
              /\ log' = log \cup loggers
              /\ dcgmOut' = IF "own" \in dcgmis THEN dcgmOut \cup samples ELSE dcgmOut
              /\ pc' = "stop"
        BY <2>8, <3>3 DEF Bench, BenchFails, Goes
      <4>2. GotRecord' /\ Own(got)'
        BY <4>1 DEF GotRecord, Own
      <4>3. loggers \subseteq {"own", "left"}
        BY DEF TypeInv, TypeOK
      <4>4. FlagInv' /\ FileInv'
        BY <3>1, <4>1, <4>3 DEF SampleInv, FlagInv, FileInv, Running
      <4> QED
        BY <3>1, <4>2, <4>4, <2>r DEF SampleInv
    <3> QED
      BY <3>2, <3>3
  <2>9. CASE StopLogging
    <3>1. /\ Running /\ pc = "stop" /\ ~logging'
          /\ UNCHANGED <<results, outcome, monitoring, log, dcgmOut>>
          /\ pc' \in {"dstop", "create", "dabort"}
          /\ pc' = "create" => ~Dcgm
          /\ pc' = "dstop" => Dcgm
      BY <2>9 DEF StopLogging, At, Goes
    <3>2. \/ got' = got
          \/ got' = [got EXCEPT !.cpu_freqs = IF supported THEN log ELSE {}]
      BY <2>9 DEF StopLogging
    <3>3. GotRecord' /\ Own(got)'
      BY <3>1, <3>2 DEF SampleInv, FileInv, GotRecord, Own
    <3>4. FlagInv' /\ FileInv'
      BY <3>1 DEF SampleInv, FlagInv, FileInv, Running
    <3> QED
      BY <3>1, <3>3, <3>4, <2>r DEF SampleInv
  <2>10. CASE StopDcgm
    <3>1. /\ Running /\ pc = "dstop" /\ ~logging /\ ~monitoring'
          /\ UNCHANGED <<results, logging, log, dcgmOut>>
          /\ \/ outcome' = "failed" /\ pc' = pc
             \/ /\ outcome' = outcome /\ pc' = "create"
                /\ got' = [got EXCEPT !.dcgm = Described(dcgmOut)]
      BY <2>10 DEF StopDcgm, At, Goes, Fails, SampleInv, FlagInv
    <3>2. CASE outcome' = "failed" /\ pc' = pc
      BY <3>1, <3>2, <2>r DEF SampleInv, FlagInv, FileInv, Running
    <3>3. CASE outcome' = outcome /\ pc' = "create"
      <4>1. got' = [got EXCEPT !.dcgm = Described(dcgmOut)]
        BY <3>1, <3>3
      <4>2. dcgmOut \subseteq {"own", "idle"}
        BY <3>1 DEF SampleInv, FlagInv, FileInv
      <4>3. Described(dcgmOut) \subseteq {"own"} \/ Described(dcgmOut) = {"idle"}
        BY <4>2 DEF Described
      <4>4. GotRecord' /\ Own(got)'
        BY <3>1, <4>1, <4>3 DEF SampleInv, GotRecord, Own
      <4>5. FlagInv' /\ FileInv'
        BY <3>1, <3>3 DEF SampleInv, FlagInv, FileInv, Running
      <4> QED
        BY <3>1, <4>4, <4>5, <2>r DEF SampleInv
    <3> QED
      BY <3>1, <3>2, <3>3
  <2>11. CASE AbortLogging
    BY <2>11, <2>r DEF AbortLogging, At, Goes, SampleInv, FlagInv, FileInv, Running
  <2>12. CASE AbortDcgm
    BY <2>12, <2>r DEF AbortDcgm, Fails, At, SampleInv, FlagInv, FileInv, Running
  <2>13. CASE CreateResult
    <3>1. /\ Running /\ pc = "create" /\ pc' = "dump"
          /\ UNCHANGED <<got, logging, monitoring, log, dcgmOut, outcome>>
          /\ results' = [ f \in DOMAIN results \cup {Filename(Test, rep)} |->
                            IF f = Filename(Test, rep) THEN Torn ELSE results[f] ]
      BY <2>13 DEF CreateResult, At, Goes, Put
    <3>2. OwnSamples'
      BY <3>1 DEF SampleInv, OwnSamples, Whole
    <3>3. FlagInv' /\ FileInv'
      BY <3>1 DEF SampleInv, FlagInv, FileInv, Running
    <3> QED
      BY <3>1, <3>2, <3>3 DEF SampleInv, GotRecord, Own, Running
  <2>14. CASE WriteResult
    <3> DEFINE name == Filename(Test, rep)
               result == [got EXCEPT !.supported = supported]
    <3>1. /\ Running /\ pc = "dump" /\ pc' \in {"exists", "smt", "combine"}
          /\ UNCHANGED <<logging, monitoring, log, dcgmOut, outcome>>
          /\ results' = [ f \in DOMAIN results \cup {name} |->
                            IF f = name THEN result ELSE results[f] ]
      BY <2>14 DEF WriteResult, At, Put, NextRep, Goes
    <3>2. Own(result)
      BY <3>1 DEF SampleInv, GotRecord, Own
    <3>3. OwnSamples'
      BY <3>1, <3>2 DEF SampleInv, OwnSamples, Whole, Own
    <3>4. FlagInv' /\ FileInv'
      BY <3>1 DEF SampleInv, FlagInv, FileInv, Running
    <3> QED
      BY <3>1, <3>3, <3>4 DEF SampleInv
  <2>15. CASE Combine
    BY <2>15, <2>r DEF Combine, Fails, At, SampleInv, FlagInv, FileInv, Running
  <2>16. CASE Unreachable
    BY <2>16, <2>r DEF Unreachable, Fails, SampleInv, FlagInv, FileInv, Running
  <2>17. CASE Begin
    BY <2>17, <2>r DEF Begin, SampleInv, FlagInv, FileInv
  <2>18. CASE LeftSamples
    <3>1. /\ ~Measuring /\ log' \subseteq log \cup {"other"}
          /\ UNCHANGED <<results, got, pc, outcome, logging, monitoring>>
      BY <2>18 DEF LeftSamples
    <3> QED
      BY <3>1, <2>r DEF SampleInv, FlagInv, FileInv, GotRecord, Own, Running, Measuring
  <2>19. CASE Killed
    BY <2>19, <2>r DEF Killed, SampleInv, FlagInv, FileInv, Running
  <2>20. CASE Reboot
    BY <2>20, <2>r DEF Reboot, SampleInv, FlagInv, FileInv, GotRecord, Own, Running
  <2>21. CASE Upgrade
    BY <2>21, <2>r DEF Upgrade, SampleInv, FlagInv, FileInv, Running
  <2>22. CASE UNCHANGED vars
    BY <2>22, <2>r DEF vars, SampleInv, FlagInv, FileInv, GotRecord, Own, Running
  <2>23. CASE UnreachableSetting
    BY <2>23, <2>n DEF UnreachableSetting, Goes, SettingAfter, Running
  <2>24. CASE Reconnect
    BY <2>24, <2>u DEF Reconnect, Running
  <2> QED
    BY <2>1, <2>2, <2>3, <2>4, <2>5, <2>6, <2>7, <2>8, <2>9, <2>10, <2>11, <2>12, <2>13,
       <2>14, <2>15, <2>16, <2>17, <2>18, <2>19, <2>20, <2>21, <2>22, <2>23,
       <2>24 DEF Next, Step
<1>3. SampleInv => OwnSamples
  BY DEF SampleInv
<1> QED
  BY <1>1, <1>2, <1>3, TypesInvariant, PTL DEF Spec

-----------------------------------------------------------------------------

\* CpusInv is an invariant: the masks are made anew of what is online when siblings
\* come to be used, and those of before are of every core
LEMMA CpusInvariant == ASSUME FitsCores PROVE Spec => []CpusInv
<1>1. Init => CpusInv
  BY DEF Init, CpusInv, MaskInv, RunsOnItsCpus, Whole, Running
<1>2. TypeInv /\ NamedInv /\ CpusInv /\ [Next]_vars => CpusInv'
  <2> SUFFICES ASSUME TypeInv, NamedInv, CpusInv, [Next]_vars PROVE CpusInv'
    OBVIOUS
  <2> USE DEF settings, monitors, files, place, helpers, flags, reach, stamps
  <2>t. Running => Test \in TestSet /\ Fits(Test)
    BY DEF TypeInv, TestsInv, Test
  <2>r. UNCHANGED results => RunsOnItsCpus'
    BY DEF CpusInv, RunsOnItsCpus, Whole, Core
  <2>m. ASSUME UNCHANGED <<thrsib, pairs, tests, at>>, Running' => Running,
               pc \in {"smt", "turbo", "siblings", "combine"} => ~Running'
                 \/ pc' \in {"smt", "turbo", "siblings", "combine"}
        PROVE  MaskInv'
    BY <2>m DEF CpusInv, MaskInv, Test, CPUs
  \* A step that is not to what follows the benchmark
  <2>k. ASSUME MaskInv', UNCHANGED results,
               ~Running' \/ pc' \notin {"stop", "dstop", "create", "dump"}
        PROVE  CpusInv'
    BY <2>k, <2>r DEF CpusInv
  \* A step behind the benchmark
  <2>g. ASSUME UNCHANGED <<thrsib, pairs, tests, at, results>>, Running,
               pc \in {"stop", "dstop", "create", "dump"}, got'.cpus = got.cpus
        PROVE  CpusInv'
    <3>1. MaskInv'
      BY <2>g, <2>m
    <3>2. ItsCpus(got'.cpus, Test')
      BY <2>g DEF CpusInv, Test
    <3> QED BY <2>g, <2>r, <3>1, <3>2 DEF CpusInv, ItsCpus, Core
  \* To the next repetition, of this test or of another
  <2>n. ASSUME NextRep, UNCHANGED <<thrsib, pairs>>, Running, pc \in {"exists", "dump"}
        PROVE  MaskInv' /\ pc' \in {"exists", "smt", "combine"}
    BY <2>n DEF NextRep, Goes, CpusInv, MaskInv, Test, CPUs, Running
  <2>1. CASE ToggleSmt
    BY <2>1, <2>m, <2>k DEF ToggleSmt, At, Goes, Fails, SettingAfter, Running
  <2>2. CASE ToggleTurbo
    BY <2>2, <2>m, <2>k DEF ToggleTurbo, At, Goes, SettingAfter, Running
  <2>3. CASE UseThreadSiblings
    <3>1. /\ Running /\ pc = "siblings"
          /\ UNCHANGED <<tests, at, results, smt>>
      BY <2>3 DEF UseThreadSiblings, At
    <3>2. CASE Fails
      <4>1. ~Running'
        BY <3>2 DEF Fails, Running
      <4> QED BY <3>1, <4>1, <2>k DEF MaskInv
    <3>3. CASE ~Fails
      <4>1. /\ pc' = "exists" /\ thrsib' = Test.ht
            /\ pairs' = (IF thrsib = Test.ht THEN pairs ELSE Online)
        BY <2>3, <3>3 DEF UseThreadSiblings, Goes, SettingAfter
      <4>2. Test.ht = 1 => smt = 1
        <5>1. knownSmt = {Test.sm} /\ (1 \in knownSmt => smt = 1)
          BY <3>1 DEF NamedInv, KnownInv
        <5> QED BY <3>1, <5>1, <2>t DEF Fits
      <4>3. smt = 1 => Online = CPUs
        BY DEF Online
      <4>4. Test.ht \in {0, 1} /\ Test' = Test
        BY <2>t, <3>1 DEF TestSet, Test
      <4>5. MaskInv'
        BY <3>1, <4>1, <4>2, <4>3, <4>4, Machine DEF CpusInv, MaskInv, CPUs
      <4> QED BY <3>1, <4>1, <4>5, <2>k
    <3> QED BY <3>2, <3>3
  <2>4. CASE FindResult
    <3>1. CASE NextRep
      BY <2>4, <3>1, <2>n, <2>k DEF FindResult, At
    <3>2. CASE ~NextRep
      BY <2>4, <3>2, <2>m, <2>k DEF FindResult, At, Goes, Fails, Running
    <3> QED BY <3>1, <3>2
  <2>5. CASE SetCpuFreq
    BY <2>5, <2>m, <2>k DEF SetCpuFreq, At, Goes, Running
  <2>6. CASE StartLogging
    BY <2>6, <2>m, <2>k DEF StartLogging, At, Goes, Fails, Running
  <2>7. CASE StartDcgm
    BY <2>7, <2>m, <2>k DEF StartDcgm, At, Goes, Fails, Running
  <2>8. CASE Bench
    <3>1. /\ Running /\ pc = "bench" /\ pc' \in {"stop", "abort"}
          /\ UNCHANGED <<tests, at, results, thrsib, pairs, smt>>
      BY <2>8, Zenon DEF Bench, At, Goes, BenchFails
    <3>2. \/ pc' = "abort"
          \/ \E ended : got' =
               [smt |-> smt, turbo |-> turbo, cpus |-> Mask(Test.cpus) \cap Online,
                governors |-> { governor[c] : c \in (Mask(Test.cpus) \cap Online) \ passed },
                rw |-> Test.rw, cpu_freqs |-> {}, dcgm |-> {}, supported |-> supported,
                versions |-> versions, build |-> checkout, ended |-> ended]
      BY <2>8 DEF Bench, BenchFails, Goes
    <3>3. MaskInv'
      BY <3>1, <2>m
    <3>4. CASE pc' = "abort"
      BY <3>1, <3>3, <3>4, <2>k
    <3>5. CASE pc' # "abort"
      <4>1. Test.ht = 1 => smt = 1
        <5>1. knownSmt = {Test.sm} /\ (1 \in knownSmt => smt = 1)
          BY <3>1 DEF NamedInv, KnownInv
        <5> QED BY <3>1, <5>1, <2>t DEF Fits
      <4>2. ItsCpus(Mask(Test.cpus) \cap Online, Test)
        BY <2>t, <3>1, <4>1, ItsMask DEF CpusInv, MaskInv
      <4>3. got'.cpus = Mask(Test.cpus) \cap Online /\ Test' = Test
        BY <3>1, <3>2, <3>5 DEF Test
      <4>4. ItsCpus(got'.cpus, Test')
        BY <4>2, <4>3
      <4> QED BY <3>1, <3>3, <4>4, <2>r DEF CpusInv, ItsCpus, Core
    <3> QED BY <3>4, <3>5
  <2>9. CASE StopLogging
    <3>1. /\ Running /\ pc = "stop"
          /\ UNCHANGED <<thrsib, pairs, tests, at, results>>
          /\ got' = got \/ got' = [got EXCEPT !.cpu_freqs = IF supported THEN log ELSE {}]
      BY <2>9 DEF StopLogging, At
    <3>2. got'.cpus = got.cpus
      BY <3>1 DEF NamedInv, GotInv, GotRecord
    <3> QED BY <3>1, <3>2, <2>g
  <2>10. CASE StopDcgm
    <3>1. /\ Running /\ pc = "dstop"
          /\ UNCHANGED <<thrsib, pairs, tests, at, results>>
          /\ got' = got \/ got' = [got EXCEPT !.dcgm = Described(dcgmOut)]
      BY <2>10 DEF StopDcgm, At
    <3>2. got'.cpus = got.cpus
      BY <3>1 DEF NamedInv, GotInv, GotRecord
    <3> QED BY <3>1, <3>2, <2>g
  <2>11. CASE AbortLogging
    BY <2>11, <2>m, <2>k DEF AbortLogging, At, Goes, Running
  <2>12. CASE AbortDcgm
    BY <2>12, <2>m, <2>k DEF AbortDcgm, At, Fails, Running
  <2>13. CASE CreateResult
    <3>1. /\ Running /\ pc = "create" /\ UNCHANGED <<thrsib, pairs, tests, at, got>>
          /\ results' = [ f \in DOMAIN results \cup {Filename(Test, rep)} |->
                            IF f = Filename(Test, rep) THEN Torn ELSE results[f] ]
      BY <2>13 DEF CreateResult, At, Put
    <3>2. MaskInv'
      BY <3>1, <2>m
    <3>3. ItsCpus(got'.cpus, Test')
      BY <3>1 DEF CpusInv, Test
    <3>4. \A f \in Whole' : f \in Whole /\ results'[f] = results[f]
      BY <3>1 DEF Whole
    <3>5. RunsOnItsCpus'
      BY <3>4 DEF CpusInv, RunsOnItsCpus, Core
    <3> QED BY <3>2, <3>3, <3>5 DEF CpusInv, ItsCpus, Core
  <2>14. CASE WriteResult
    <3> DEFINE name == Filename(Test, rep)
               result == [got EXCEPT !.supported = supported]
    <3>1. /\ Running /\ pc = "dump" /\ NextRep /\ UNCHANGED <<thrsib, pairs>>
          /\ results' = [ f \in DOMAIN results \cup {name} |->
                            IF f = name THEN result ELSE results[f] ]
      BY <2>14 DEF WriteResult, At, Put
    <3>2. name.cpus = Test.cpus /\ name.ht = Test.ht
      BY DEF Filename
    <3>3. ItsCpus(got.cpus, Test) /\ result.cpus = got.cpus
      BY <3>1 DEF CpusInv, NamedInv, GotInv, GotRecord
    <3>4. ItsCpus(result.cpus, name)
      <4> HIDE DEF name, result
      <4> QED BY <3>2, <3>3 DEF ItsCpus
    <3>5. \A f \in Whole' : ItsCpus(results'[f].cpus, f)
      <4>1. \A f \in Whole : ItsCpus(results[f].cpus, f)
        BY DEF CpusInv, RunsOnItsCpus, ItsCpus
      <4>2. \A f \in Whole' : \/ f = name /\ results'[f] = result
                              \/ f \in Whole /\ results'[f] = results[f]
        <5>1. results' = [ f \in DOMAIN results \cup {name} |->
                             IF f = name THEN result ELSE results[f] ]
          BY <3>1
        <5> HIDE DEF name, result
        <5> QED BY <5>1 DEF Whole
      <4> HIDE DEF name, result
      <4> QED BY <3>4, <4>1, <4>2
    <3>6. RunsOnItsCpus'
      BY <3>5 DEF RunsOnItsCpus, ItsCpus, Core
    <3> QED BY <3>1, <3>6, <2>n DEF CpusInv
  <2>15. CASE Combine
    BY <2>15, <2>k DEF Combine, Fails, Running, MaskInv
  <2>16. CASE Unreachable
    BY <2>16, <2>k DEF Unreachable, Fails, Running, MaskInv
  <2>17. CASE Begin
    <3>1. /\ pc' = "smt" /\ thrsib' = 0 /\ pairs' = Online /\ UNCHANGED results
      BY <2>17 DEF Begin
    <3>2. MaskInv'
      BY <3>1, Machine DEF MaskInv, CPUs
    <3> QED BY <3>1, <3>2, <2>k
  <2>u. ASSUME UNCHANGED <<thrsib, pairs, tests, at, pc, got, results>>, Running' => Running
        PROVE  CpusInv'
    <3>1. MaskInv'
      BY <2>u DEF CpusInv, MaskInv, Test, CPUs
    <3>2. Running' /\ pc' \in {"stop", "dstop", "create", "dump"} => ItsCpus(got'.cpus, Test')
      BY <2>u DEF CpusInv, Test
    <3> QED BY <2>u, <2>r, <3>1, <3>2 DEF CpusInv, ItsCpus, Core
  <2>18. CASE LeftSamples
    BY <2>18, <2>u DEF LeftSamples, Running
  <2>19. CASE Killed
    BY <2>19, <2>u DEF Killed, Running
  <2>20. CASE Reboot
    BY <2>20, <2>u DEF Reboot, Running
  <2>21. CASE Upgrade
    BY <2>21, <2>u DEF Upgrade, Running
  <2>22. CASE UNCHANGED vars
    BY <2>22, <2>u DEF vars, Running
  <2>23. CASE UnreachableSetting
    BY <2>23, <2>m, <2>k DEF UnreachableSetting, Goes, SettingAfter, Running
  <2>24. CASE Reconnect
    BY <2>24, <2>u DEF Reconnect, Running
  <2> QED
    BY <2>1, <2>2, <2>3, <2>4, <2>5, <2>6, <2>7, <2>8, <2>9, <2>10, <2>11, <2>12, <2>13,
       <2>14, <2>15, <2>16, <2>17, <2>18, <2>19, <2>20, <2>21, <2>22, <2>23,
       <2>24 DEF Next, Step
<1> QED
  BY <1>1, <1>2, TypesInvariant, NamedInvariant, PTL DEF Spec

(* _create_cpumasks(): a result is of as many CPUs as its name says, on as few   *)
(* cores as those can be of, although SMT may have been switched since the masks *)
(* were made. A matrix that asks for more CPUs than cores would find them short. *)
THEOREM CpusRight == ASSUME FitsCores PROVE Spec => []RunsOnItsCpus
  BY CpusInvariant, PTL DEF CpusInv

-----------------------------------------------------------------------------

\* The steps at which the name at hand is still free, and those with a measurement
Unnamed == pc \in {"freq", "start", "dcgm", "bench", "stop", "dstop", "create"}
Measured == pc \in {"stop", "dstop", "create", "dump"}

\* Of the cases and repetitions before those at hand
Passed(i, k) == i < at \/ (i = at /\ k < rep) \/ pc = "combine"

\* The names of a case differ in their repetition
LEMMA FirstRep ==
  ASSUME NEW t, NEW k
  PROVE  /\ [Filename(t, k) EXCEPT !.rep = 0] = Filename(t, 0)
         /\ Filename(t, 0).rep = 0
<1> DEFINE rw == IF NamesRw THEN t.rw ELSE ""
           name(i) == [ht |-> t.ht, tu |-> t.tu, sm |-> t.sm, st |-> t.st, freq |-> t.freq,
                       cpus |-> t.cpus, rw |-> rw, rep |-> i]
<1>1. \A i : Filename(t, i) = name(i)
  BY DEF Filename
<1>2. [name(k) EXCEPT !.rep = 0] = name(0)
  <2> HIDE DEF rw
  <2> QED OBVIOUS
<1>3. name(0).rep = 0
  OBVIOUS
<1> HIDE DEF name
<1> QED BY <1>1, <1>2, <1>3

\* CasesInv is an invariant: no result that is there is written again or goes away
LEMMA CasesInvariant == Spec => []CasesInv
<1>1. Init => CasesInv
  BY DEF Init, CasesInv, Whole, Running
<1>2. TypeInv /\ NamedInv /\ CasesInv /\ [Next]_vars => CasesInv'
  <2> SUFFICES ASSUME TypeInv, NamedInv, CasesInv, [Next]_vars PROVE CasesInv'
    OBVIOUS
  <2> USE DEF settings, monitors, files, place, helpers, flags, reach, stamps
  <2> DEFINE name == Filename(Test, rep)
  <2>t. Running => /\ Test \in TestSet /\ at \in 1..Len(tests) /\ rep \in 0..(Repetitions - 1)
                   /\ Len(tests) \in Nat /\ Repetitions \in Nat \ {0}
    BY BenchAssumption DEF TypeInv, TestsInv, Test
  <2>i. /\ Running /\ Unnamed => ~Exists
        /\ Running /\ pc = "dump" => Exists /\ results[name] = Torn
        /\ Running /\ Measured => Content(got, name)
        /\ \A f \in Whole : Content(results[f], f)
        /\ Running => \A i \in 1..Len(tests), k \in 0..(Repetitions - 1) :
                        Passed(i, k) => Filename(tests[i], k) \in Whole
    BY DEF CasesInv, Unnamed, Measured, Passed
  \* A step that leaves the place and the results
  <2>k. ASSUME UNCHANGED <<place, results>>, Running' => Running, outcome' # "ok",
               Running' /\ Unnamed' => Unnamed \/ ~Exists,
               Running' /\ pc' = "dump" => pc = "dump",
               Running' /\ Measured' => Content(got', name),
               Running' /\ pc' = "combine" => pc = "combine"
        PROVE  CasesInv'
    <3>1. Exists' = Exists /\ Whole' = Whole /\ Test' = Test
      BY <2>k DEF Exists, Whole, Test, Filename
    <3> QED BY <2>k, <2>i, <3>1 DEF CasesInv, Unnamed, Measured, Passed, Filename, Content, Test
  \* To the next repetition, of this test or of another
  <2>n. ASSUME NextRep, Running, pc # "combine", name \in Whole', Whole \subseteq Whole',
               \A f \in Whole' : Content(results'[f], f)
        PROVE  CasesInv'
    <3>1. /\ outcome' = "running" /\ Running' /\ tests' = tests
          /\ pc' \in {"exists", "smt", "combine"}
      BY <2>n DEF NextRep, Goes, Running
    <3>2. ASSUME NEW i \in 1..Len(tests), NEW k \in 0..(Repetitions - 1), Passed(i, k)'
          PROVE  Passed(i, k) \/ (i = at /\ k = rep)
      BY <2>n, <2>t, <3>1, <3>2 DEF NextRep, Goes, Passed
    <3>3. ASSUME NEW i \in 1..Len(tests), NEW k \in 0..(Repetitions - 1), Passed(i, k)'
          PROVE  Filename(tests[i], k) \in Whole'
      BY <2>n, <2>i, <3>2, <3>3 DEF Test
    <3> QED BY <2>n, <3>1, <3>3 DEF CasesInv, Passed, Filename, Content
  <2>1. CASE ToggleSmt
    BY <2>1, <2>k DEF ToggleSmt, At, Goes, Fails, SettingAfter, Running, Unnamed, Measured
  <2>2. CASE ToggleTurbo
    BY <2>2, <2>k DEF ToggleTurbo, At, Goes, SettingAfter, Running, Unnamed, Measured
  <2>3. CASE UseThreadSiblings
    BY <2>3, <2>k DEF UseThreadSiblings, At, Goes, Fails, SettingAfter, Running, Unnamed, Measured
  <2>4. CASE FindResult
    <3>1. CASE Exists /\ results[Filename(Test, rep)] # Torn /\ NextRep
      <4>1. results' = results /\ Running /\ pc = "exists"
        BY <2>4 DEF FindResult, At
      <4>2. Whole' = Whole /\ name \in Whole
        BY <3>1, <4>1 DEF Whole, Exists
      <4> QED BY <3>1, <4>1, <4>2, <2>n, <2>i
    <3>2. CASE Fails /\ UNCHANGED place
      BY <2>4, <3>2, <2>k DEF FindResult, Fails, Running
    <3>3. CASE ~Exists /\ Goes("freq") /\ UNCHANGED place
      BY <2>4, <3>3, <2>k DEF FindResult, At, Goes, Running, Measured
    <3> QED BY <2>4, <3>1, <3>2, <3>3 DEF FindResult
  <2>5. CASE SetCpuFreq
    BY <2>5, <2>k DEF SetCpuFreq, At, Goes, Running, Unnamed, Measured
  <2>6. CASE StartLogging
    BY <2>6, <2>k DEF StartLogging, At, Goes, Fails, Running, Unnamed, Measured
  <2>7. CASE StartDcgm
    BY <2>7, <2>k DEF StartDcgm, At, Goes, Fails, Running, Unnamed, Measured
  <2>8. CASE Bench
    <3>1. /\ Running /\ pc = "bench" /\ pc' \in {"stop", "abort"}
          /\ UNCHANGED <<place, results, outcome>>
      BY <2>8, Zenon DEF Bench, At, Goes, BenchFails
    <3>2. \/ pc' = "abort"
          \/ \E ended \in {TRUE} \cup (IF Stressed = {} THEN {} ELSE {FALSE}) : got' =
               [smt |-> smt, turbo |-> turbo, cpus |-> Mask(Test.cpus) \cap Online,
                governors |-> { governor[c] : c \in (Mask(Test.cpus) \cap Online) \ passed },
                rw |-> Test.rw, cpu_freqs |-> {}, dcgm |-> {}, supported |-> supported,
                versions |-> versions, build |-> checkout, ended |-> ended]
      BY <2>8 DEF Bench, BenchFails, Goes
    <3>3. ASSUME pc' # "abort" PROVE Content(got', name)
      <4>1. got'.rw = Test.rw /\ (got'.ended \/ Stressed # {})
        <5>1. PICK ended \in {TRUE} \cup (IF Stressed = {} THEN {} ELSE {FALSE}) : got' =
               [smt |-> smt, turbo |-> turbo, cpus |-> Mask(Test.cpus) \cap Online,
                governors |-> { governor[c] : c \in (Mask(Test.cpus) \cap Online) \ passed },
                rw |-> Test.rw, cpu_freqs |-> {}, dcgm |-> {}, supported |-> supported,
                versions |-> versions, build |-> checkout, ended |-> ended]
          BY <3>2, <3>3
        <5>2. ended \/ Stressed # {}
          OBVIOUS
        <5>3. got'.rw = Test.rw /\ got'.ended = ended
          BY <5>1
        <5> QED BY <5>2, <5>3
      <4>2. Test.rw \in Patterns /\ Test.st \in {0, 1}
        BY <2>t, <3>1 DEF TestSet
      <4>3. name.st = Test.st /\ (NamesRw => name.rw = Test.rw)
        BY DEF Filename
      <4>4. Stressed # {} => Test.st = 1
        BY <4>2 DEF Stressed
      <4> HIDE DEF name
      <4> QED BY <4>1, <4>2, <4>3, <4>4 DEF Content
    <3> QED BY <3>1, <3>3, <2>k DEF Running, Unnamed, Measured
  <2>9. CASE StopLogging
    <3>1. /\ Running /\ pc = "stop" /\ pc' \in {"dstop", "create", "dabort"}
          /\ UNCHANGED <<place, results, outcome>>
          /\ got' = got \/ got' = [got EXCEPT !.cpu_freqs = IF supported THEN log ELSE {}]
      BY <2>9 DEF StopLogging, At, Goes
    <3>2. got'.rw = got.rw /\ got'.ended = got.ended
      BY <3>1 DEF NamedInv, GotInv, GotRecord
    <3>3. Content(got', name)
      BY <2>i, <3>1, <3>2 DEF Content, Measured
    <3> QED BY <3>1, <3>3, <2>k DEF Running, Unnamed, Measured
  <2>10. CASE StopDcgm
    <3>1. /\ Running /\ pc = "dstop" /\ UNCHANGED <<place, results>>
          /\ outcome' = "failed" \/ (pc' = "create" /\ UNCHANGED outcome)
          /\ got' = got \/ got' = [got EXCEPT !.dcgm = Described(dcgmOut)]
      BY <2>10 DEF StopDcgm, At, Goes, Fails
    <3>2. got'.rw = got.rw /\ got'.ended = got.ended
      BY <3>1 DEF NamedInv, GotInv, GotRecord
    <3>3. Content(got', name)
      BY <2>i, <3>1, <3>2 DEF Content, Measured
    <3> QED BY <3>1, <3>3, <2>k DEF Running, Unnamed, Measured
  <2>11. CASE AbortLogging
    BY <2>11, <2>k DEF AbortLogging, At, Goes, Running, Unnamed, Measured
  <2>12. CASE AbortDcgm
    BY <2>12, <2>k DEF AbortDcgm, At, Fails, Running
  <2>13. CASE CreateResult
    <3>1. /\ Running /\ pc = "create" /\ pc' = "dump" /\ UNCHANGED <<place, got, outcome>>
          /\ results' = [ f \in DOMAIN results \cup {name} |->
                            IF f = name THEN Torn ELSE results[f] ]
      BY <2>13 DEF CreateResult, At, Goes, Put
    <3>2. name \notin DOMAIN results
      BY <2>i, <3>1 DEF Unnamed, Exists
    <3>3. Whole' = Whole /\ \A f \in Whole : results'[f] = results[f]
      <4> HIDE DEF name
      <4> QED BY <3>1, <3>2 DEF Whole
    <3>4. name' = name /\ Test' = Test /\ name \in DOMAIN results' /\ results'[name] = Torn
      <4>1. Test' = Test /\ name' = name
        BY <3>1 DEF Test, Filename
      <4> HIDE DEF name
      <4> QED BY <3>1, <4>1
    <3>5. Content(got', name)
      BY <2>i, <3>1 DEF Measured
    <3>6. \A f \in Whole' : Content(results'[f], f)
      BY <2>i, <3>3
    <3>7. \A i \in 1..Len(tests), k \in 0..(Repetitions - 1) :
            Passed(i, k)' => Filename(tests[i], k) \in Whole'
      BY <2>i, <3>1, <3>3 DEF Passed
    <3> QED BY <3>1, <3>4, <3>5, <3>6, <3>7 DEF CasesInv, Exists, Running, Passed, Content, Filename
  <2>14. CASE WriteResult
    <3> DEFINE result == [got EXCEPT !.supported = supported]
    <3>1. /\ Running /\ pc = "dump" /\ NextRep
          /\ results' = [ f \in DOMAIN results \cup {name} |->
                            IF f = name THEN result ELSE results[f] ]
      BY <2>14 DEF WriteResult, At, Put
    <3>2. result.rw = got.rw /\ result.ended = got.ended /\ result # Torn
      <4>1. GotRecord
        BY <3>1 DEF NamedInv, GotInv
      <4>2. "rw" \in DOMAIN result /\ result.rw = got.rw /\ result.ended = got.ended
        BY <4>1 DEF GotRecord
      <4>3. DOMAIN Torn = {}
        BY DEF Torn
      <4> QED BY <4>2, <4>3
    <3>3. Content(result, name)
      <4>1. Content(got, name)
        BY <2>i, <3>1 DEF Measured
      <4> HIDE DEF name, result
      <4> QED BY <3>2, <4>1 DEF Content
    <3>4. name \in Whole' /\ Whole \subseteq Whole'
      <4> HIDE DEF name, result
      <4> QED BY <3>1, <3>2 DEF Whole
    <3>5. \A f \in Whole' : Content(results'[f], f)
      <4>1. \A f \in Whole' : \/ f = name /\ results'[f] = result
                              \/ f \in Whole /\ results'[f] = results[f]
        <5>1. results' = [ f \in DOMAIN results \cup {name} |->
                             IF f = name THEN result ELSE results[f] ]
          BY <3>1
        <5> HIDE DEF name, result
        <5> QED BY <5>1 DEF Whole
      <4> HIDE DEF name, result
      <4> QED BY <2>i, <3>3, <4>1
    <3> QED BY <3>1, <3>4, <3>5, <2>n
  <2>15. CASE Combine
    <3>1. Running /\ pc = "combine" /\ UNCHANGED <<place, results>> /\ ~Running'
      BY <2>15 DEF Combine, At, Fails, Running
    <3>2. CASE outcome' # "ok"
      BY <3>1, <3>2, <2>k
    <3>3. CASE outcome' = "ok"
      <4>1. report' = [ f \in { g \in DOMAIN results : g.rep = 0 } |->
               [repeats |-> Repeats(f), versions |-> MergeVersions(Repeats(f))] ]
        BY <2>15, <3>3 DEF Combine, Fails
      <4>2. Whole' = Whole /\ \A f \in Whole' : Content(results'[f], f)
        BY <2>i, <3>1 DEF Whole
      <4>3. ASSUME NEW i \in 1..Len(tests), NEW k \in 0..(Repetitions - 1)
            PROVE  Reported(tests[i], k)'
        <5> DEFINE f == Filename(tests[i], k)
                   first == Filename(tests[i], 0)
        <5>1. f \in Whole /\ first \in Whole
          BY <2>i, <2>t, <3>1 DEF Passed
        <5>2. [f EXCEPT !.rep = 0] = first /\ first.rep = 0
          BY FirstRep
        <5>3. f \in DOMAIN results /\ first \in DOMAIN results
          BY <5>1 DEF Whole
        <5> HIDE DEF f, first
        <5>4. f \in Repeats(first)
          BY <5>2, <5>3 DEF Repeats
        <5>5. report'[first].repeats = Repeats(first)
          BY <4>1, <5>2, <5>3
        <5>6. f \in Whole /\ f \in report'[[f EXCEPT !.rep = 0]].repeats
          BY <5>1, <5>2, <5>4, <5>5
        <5>7. tests'[i] = tests[i] /\ Whole' = Whole
          BY <3>1, <4>2
        <5> QED BY <5>6, <5>7 DEF f, Reported, Filename
      <4> QED BY <3>1, <4>2, <4>3 DEF CasesInv, Content
    <3> QED BY <3>2, <3>3
  <2>16. CASE Unreachable
    BY <2>16, <2>k DEF Unreachable, Fails, Running
  <2>17. CASE Begin
    <3>1. /\ pc' = "smt" /\ at' = 1 /\ rep' = 0 /\ results' = results
          /\ outcome' \in {"failed", "running"}
      BY <2>17 DEF Begin
    <3>2. Whole' = Whole /\ \A f \in Whole' : Content(results'[f], f)
      BY <2>i, <3>1 DEF Whole
    <3>3. \A i \in 1..Len(tests'), k \in 0..(Repetitions - 1) : ~Passed(i, k)'
      BY <3>1, BenchAssumption DEF Passed
    <3> QED BY <3>1, <3>2, <3>3 DEF CasesInv, Passed, Content
  \* A step that leaves the runner where it is
  <2>u. ASSUME UNCHANGED <<place, results, pc, got>>, Running' => Running, outcome' # "ok"
        PROVE  CasesInv'
    BY <2>u, <2>k, <2>i DEF Unnamed, Measured
  \* A step that leaves the report and the outcome as well
  <2>v. ASSUME UNCHANGED <<place, results, pc, got, report, outcome>>
        PROVE  CasesInv'
    <3>1. Exists' = Exists /\ Whole' = Whole /\ Test' = Test
      BY <2>v DEF Exists, Whole, Test, Filename
    <3>2. \A t, k : Reported(t, k)' = Reported(t, k)
      BY <2>v, <3>1 DEF Reported, Filename
    <3>3. \A t, k : Filename(t, k)' = Filename(t, k)
      BY DEF Filename
    <3>4. \A i, k : (Reported(tests[i], k))' = Reported(tests[i], k)
      BY <2>v, <3>1 DEF Reported, Filename
    <3> QED BY <2>v, <3>1, <3>3, <3>4 DEF CasesInv, Content, Running
  <2>18. CASE LeftSamples
    BY <2>18, <2>v DEF LeftSamples
  <2>19. CASE Killed
    BY <2>19, <2>u DEF Killed, Running
  <2>20. CASE Reboot
    BY <2>20, <2>v DEF Reboot
  <2>21. CASE Upgrade
    BY <2>21, <2>v DEF Upgrade
  <2>22. CASE UNCHANGED vars
    BY <2>22, <2>v DEF vars
  <2>23. CASE UnreachableSetting
    BY <2>23, <2>k DEF UnreachableSetting, Goes, SettingAfter, Running, Unnamed, Measured
  <2>24. CASE Reconnect
    BY <2>24, <2>v DEF Reconnect
  <2> QED
    BY <2>1, <2>2, <2>3, <2>4, <2>5, <2>6, <2>7, <2>8, <2>9, <2>10, <2>11, <2>12, <2>13,
       <2>14, <2>15, <2>16, <2>17, <2>18, <2>19, <2>20, <2>21, <2>22, <2>23,
       <2>24 DEF Next, Step
<1> QED
  BY <1>1, <1>2, TypesInvariant, NamedInvariant, PTL DEF Spec

(* A runner that ends well has a result of every case and repetition in its      *)
(* report, found or made, with the pattern and the CPUs of the case. Without     *)
(* PatternsTold it has not: the name of a result then leaves out its pattern.    *)
THEOREM Complete == ASSUME FitsCores, PatternsTold PROVE Spec => []AllCasesMeasured
<1>1. TypeInv /\ CpusInv /\ CasesInv => AllCasesMeasured
  <2> SUFFICES ASSUME TypeInv, CpusInv, CasesInv, outcome = "ok",
                      NEW i \in DOMAIN tests, NEW k \in 0..(Repetitions - 1)
               PROVE  LET f == Filename(tests[i], k)
                      IN  /\ f \in Whole /\ f \in report[[f EXCEPT !.rep = 0]].repeats
                          /\ results[f].rw = tests[i].rw
                          /\ Cardinality(results[f].cpus) = tests[i].cpus
                          /\ results[f].ended \/ tests[i].st = 1
    BY DEF AllCasesMeasured
  <2> DEFINE t == tests[i]
             f == Filename(t, k)
  <2>1. tests \in Seq(TestSet) /\ i \in 1..Len(tests)
    BY DEF TypeInv, TestsInv
  <2>2. t \in TestSet /\ t.rw \in Patterns
    <3>1. t \in TestSet
      BY <2>1
    <3> HIDE DEF t
    <3> QED BY <3>1 DEF TestSet
  <2>3. f \in Whole /\ f \in report[[f EXCEPT !.rep = 0]].repeats
    BY <2>1 DEF CasesInv, Reported
  <2>4. Content(results[f], f) /\ Cardinality(results[f].cpus) = f.cpus
    BY <2>3 DEF CasesInv, CpusInv, RunsOnItsCpus
  <2>5. f.cpus = t.cpus /\ f.st = t.st /\ (NamesRw => f.rw = t.rw)
    BY DEF Filename
  <2>6. results[f].rw = t.rw /\ (results[f].ended \/ t.st = 1)
    BY <2>2, <2>4, <2>5 DEF Content, PatternsTold
  <2> QED BY <2>3, <2>4, <2>5, <2>6
<1> QED
  BY <1>1, TypesInvariant, CpusInvariant, CasesInvariant, PTL
=============================================================================
