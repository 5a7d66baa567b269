-------------------------- MODULE IommuBootProofs --------------------------
(***************************************************************************)
(* What holds of IommuBoot for every grub configuration, every kernel and  *)
(* however often the workflow is aborted, crashes, is recovered from and   *)
(* run again.                                                              *)
(***************************************************************************)
EXTENDS IommuBoot, SequenceTheorems, WellFoundedInduction, TLAPS

\* The backup is made once, before the first edit, of what was there
BackupInv ==
  /\ pc \in 1..18 /\ orig # NoFile
  /\ backup = NoFile => grub = orig
  /\ backup \in {NoFile, orig}
  /\ At("write") => backup = orig

\* From the reboot that was waited for to the end of the half
AfterReboot == \/ At("wait") /\ Mode = "up" /\ machine = "up"
               \/ At("verify") \/ At("bench")

BootInv ==
  /\ pc \in 1..18
  /\ AfterReboot => ~pending /\ cmdline = base \o loaded
  /\ At("bench") => (Mode = "off") = HasOff /\ (Mode = "on" /\ strict => Has(cmdline, "strict_1"))
  /\ MeasuredAsConfigured
\* What is at 0 and follows step by step, up to n
Iterates(f, start, step, n) == f[0] = start /\ \A i \in 1..n : f[i] = step[i][f[i - 1]]

\* What Only computes on its way, up to the n-th token
OnlySteps(f, tokens, kept, n) ==
  /\ f[0] = << >>
  /\ \A i \in 1..n :
       f[i] = IF tokens[i] \in kept THEN Append(f[i - 1], tokens[i]) ELSE f[i - 1]

\* The tokens that are not of an IOMMU
Others == Tokens \ DropTokens

\* A file with the other tokens of the original, in their order, and with either
\* its tokens of an IOMMU or those of a half
SameButIommu(f) ==
  /\ Only(f.tokens, Others) = Only(orig.tokens, Others)
  /\ Only(f.tokens, DropTokens) \in {Only(orig.tokens, DropTokens), << "vendor_off" >>,
                                      << "vendor_on" >>, << "vendor_on", "strict_1" >>}

TokensInv ==
  /\ TypeOK
  /\ orig.is = "whole"
  /\ \A f \in {grub, backup, text} : f.is = "whole" => SameButIommu(f)
  /\ ~damaged => grub.is = "whole" /\ (At("write") => text.is = "whole")
-----------------------------------------------------------------------------

\* What the program does at each of its steps
LEMMA Steps ==
  /\ Len(Program) = 18
  /\ Program[1][1] = "kernel"
  /\ \A i \in {2, 10} : Program[i][1] = "backup"
  /\ \A i \in {3, 11} : Program[i][1] = "write"
  /\ \A i \in {4, 12} : Program[i][1] = "update"
  /\ \A i \in {5, 13} : Program[i][1] = "reboot"
  /\ \A i \in {6, 14} : Program[i] = <<"wait", "down">>
  /\ \A i \in {7, 15} : Program[i] = <<"wait", "up">>
  /\ Program[8] = <<"verify", "off">> /\ Program[16] = <<"verify", "on">>
  /\ Program[9] = <<"bench", "off">> /\ Program[17] = <<"bench", "on">>
  /\ Program[18][1] = "combine"
  BY DEF Program

(* iommu_grub_update.py, which writes the backup only where there is none,  *)
(* and before the file: the original is in one or the other.                *)
THEOREM OriginalKept == ASSUME "backup" \notin Torn PROVE Spec => []OriginalNeverLost
<1>1. Init => BackupInv
  BY DEF Init, BackupInv, File, NoFile, At, Running
<1>2. BackupInv /\ [Next]_vars => BackupInv'
  <2> SUFFICES ASSUME BackupInv, [Next]_vars PROVE BackupInv'
    OBVIOUS
  <2> USE DEF BackupInv, fileVars, bootVars, fixedVars
  <2>l. Len(Program) = 18
    BY DEF Program
  <2>p. \A i \in 1..17 : Program[i + 1][1] = "write" => Program[i][1] = "backup"
    BY Steps
  <2>a. ASSUME Advance
        PROVE  pc' \in 1..18 /\ orig' = orig /\ (At("write")' => At("backup"))
    <3>1. CASE pc = Len(Program)
      BY <2>a, <3>1, <2>l DEF Advance, At, Running
    <3>2. CASE pc # Len(Program)
      <4>1. pc \in 1..17 /\ pc' = pc + 1 /\ outcome' = outcome /\ orig' = orig
        BY <2>a, <3>2, <2>l DEF Advance
      <4> QED
        BY <4>1, <2>p DEF At, Op, Running
    <3> QED
      BY <3>1, <3>2
  <2>b. ASSUME Advance, UNCHANGED <<grub, backup>>, ~At("backup")
        PROVE  BackupInv'
    BY <2>a, <2>b
  <2>k. ASSUME UNCHANGED <<grub, backup, orig, pc>>, Running' => Running
        PROVE  BackupInv'
    BY <2>k DEF At, Op
  <2>1. CASE CheckOrCombine
    BY <2>1, <2>b DEF CheckOrCombine, At
  <2>2. CASE Backup
    BY <2>2, <2>a DEF Backup, BackedUp
  <2>3. CASE WriteGrub
    <3>1. ~At("backup") /\ Advance /\ backup' = backup /\ backup = orig
      BY <2>3 DEF WriteGrub, At
    <3> QED
      BY <3>1, <2>a
  <2>4. CASE UpdateGrub
    BY <2>4, <2>b DEF UpdateGrub, At
  <2>5. CASE ScheduleReboot
    BY <2>5, <2>b DEF ScheduleReboot, At
  <2>6. CASE Wait
    BY <2>6, <2>b, <2>k DEF Wait, Fails, At, Running
  <2>7. CASE VerifyMode
    BY <2>7, <2>b, <2>k DEF VerifyMode, Fails, At, Running
  <2>8. CASE Bench
    BY <2>8, <2>b, <2>k DEF Bench, Fails, At, Running
  <2>9. CASE Unreachable
    BY <2>9, <2>k DEF Unreachable, Fails, Running
  <2>10. CASE GoesDown
    BY <2>10, <2>k DEF GoesDown, Down, Running
  <2>11. CASE ComesUp
    BY <2>11, <2>k DEF ComesUp, Running
  <2>12. CASE Crash
    <3>1. CASE UNCHANGED <<grub, backup, damaged>>
      BY <2>12, <3>1, <2>k DEF Crash, Down, Running
    <3>2. CASE At("write") /\ grub' = EmptyFile /\ backup' = backup /\ Down(TRUE)
      BY <3>2 DEF Down, At, Running
    <3> QED
      BY <2>12, <3>1, <3>2 DEF Crash
  <2>13. CASE Abort
    BY <2>13, <2>k DEF Abort, Running
  <2>14. CASE Recover
    BY <2>14 DEF Recover, At, Running, NoFile
  <2>15. CASE Begin
    <3>1. Program[1][1] # "write"
      BY DEF Program
    <3> QED
      BY <2>15, <3>1 DEF Begin, At, Op
  <2>16. CASE UNCHANGED vars
    BY <2>16, <2>k DEF vars, Running
  <2> QED
    BY <2>1, <2>2, <2>3, <2>4, <2>5, <2>6, <2>7, <2>8, <2>9, <2>10, <2>11, <2>12, <2>13,
       <2>14, <2>15, <2>16 DEF Next, Step
<1>3. BackupInv => OriginalNeverLost
  BY DEF BackupInv, OriginalNeverLost
<1> QED
  BY <1>1, <1>2, <1>3, PTL DEF Spec
-----------------------------------------------------------------------------

\* Where an Advance leads that matters here
LEMMA Leads ==
  ASSUME pc \in 1..18, Advance
  PROVE  /\ pc' \in 1..18
         /\ ~At("wait") /\ ~At("verify") => ~(At("wait") /\ Mode = "up")' /\ ~At("verify")' /\ ~At("bench")'
         /\ At("wait") /\ Mode = "down" => (At("wait") /\ Mode = "up")' /\ ~At("verify")' /\ ~At("bench")'
         /\ At("wait") => (At("wait") \/ At("verify"))' /\ ~At("bench")'
         /\ At("verify") => At("bench")' /\ Mode' = Mode
<1>1. CASE pc = Len(Program)
  BY <1>1, Steps DEF Advance, At, Running, Op
<1>2. CASE pc # Len(Program)
  <2>1. pc \in 1..17 /\ pc' = pc + 1 /\ outcome' = outcome
    BY <1>2, Steps DEF Advance
  <2>2. pc \in {1, 2, 3, 4, 5, 9, 10, 11, 12, 13, 17} \cup {6, 14} \cup {7, 15} \cup {8, 16}
    BY <2>1
  <2>3. CASE pc \in {1, 2, 3, 4, 5, 9, 10, 11, 12, 13, 17}
    <3>1. Program[pc][1] \notin {"wait", "verify"}
      BY <2>3, Steps
    <3>2. Program[pc + 1] # <<"wait", "up">> /\ Program[pc + 1][1] \notin {"verify", "bench"}
      BY <2>3, Steps
    <3>3. pc + 1 \notin {7, 15}
      BY <2>3
    <3> QED
      BY <2>1, <3>1, <3>2, <3>3, Steps DEF At, Op, Mode, Running
  <2>4. CASE pc \in {6, 14}
    BY <2>1, <2>4, Steps DEF At, Op, Mode, Running
  <2>5. CASE pc \in {7, 15}
    BY <2>1, <2>5, Steps DEF At, Op, Mode, Running
  <2>6. CASE pc \in {8, 16}
    BY <2>1, <2>6, Steps DEF At, Op, Mode, Running
  <2> QED
    BY <2>2, <2>3, <2>4, <2>5, <2>6
<1> QED
  BY <1>1, <1>2

\* BootInv is an invariant.
LEMMA BootInvariant == Spec => []BootInv
<1>1. Init => BootInv
  BY DEF Init, BootInv, AfterReboot, At, Running, MeasuredAsConfigured
<1>2. BootInv /\ [Next]_vars => BootInv'
  <2> SUFFICES ASSUME BootInv, [Next]_vars PROVE BootInv'
    OBVIOUS
  <2> USE DEF fileVars, bootVars, fixedVars
  <2>i. pc \in 1..18
    BY DEF BootInv
  \* A step that leaves the boot, the measurements and the workflow's place
  <2>k. ASSUME UNCHANGED <<base, loaded, strict, pc, measured>>, Running' => Running,
               pending' => pending, machine' = "down" \/ machine' = machine,
               cmdline' = cmdline
        PROVE  BootInv'
    BY <2>k DEF BootInv, AfterReboot, At, Op, Mode, HasOff, Has, MeasuredAsConfigured
  \* A step of the program outside the boots
  <2>e. ASSUME Advance, UNCHANGED measured, ~At("wait"), ~At("verify")
        PROVE  BootInv'
    BY <2>e, <2>i, Leads DEF BootInv, AfterReboot, MeasuredAsConfigured, Advance
  <2>1. CASE CheckOrCombine
    BY <2>1, <2>e DEF CheckOrCombine, At
  <2>2. CASE Backup
    BY <2>2, <2>e DEF Backup, At
  <2>3. CASE WriteGrub
    BY <2>3, <2>e DEF WriteGrub, At
  <2>4. CASE UpdateGrub
    BY <2>4, <2>e DEF UpdateGrub, At
  <2>5. CASE ScheduleReboot
    BY <2>5, <2>e DEF ScheduleReboot, At
  <2>6. CASE Wait
    <3>1. CASE Fails
      BY <3>1, <2>k DEF Fails, Running
    <3>2. CASE Reached /\ Advance /\ UNCHANGED <<fileVars, bootVars, text, measured, damaged>>
      <4>1. CASE Mode = "down"
        BY <2>6, <3>2, <4>1, <2>i, Leads
        DEF Wait, BootInv, AfterReboot, Reached, Advance, MeasuredAsConfigured
      <4>2. CASE Mode # "down"
        <5>1. Mode = "up"
          BY <2>6, <4>2, <2>i, Steps DEF Wait, At, Op, Mode
        <5> QED
          BY <2>6, <3>2, <5>1, <2>i, Leads
          DEF Wait, BootInv, AfterReboot, Reached, Advance, MeasuredAsConfigured
      <4> QED
        BY <4>1, <4>2
    <3> QED
      BY <2>6, <3>1, <3>2 DEF Wait
  <2>7. CASE VerifyMode
    <3>1. CASE Fails
      BY <3>1, <2>k DEF Fails, Running
    <3>2. CASE Verified /\ Advance /\ UNCHANGED <<fileVars, bootVars, text, measured, damaged>>
      <4>1. Mode' = Mode /\ HasOff' = HasOff /\ (\A t : Has(cmdline, t)' = Has(cmdline, t))
        BY <2>7, <3>2, <2>i, Leads DEF VerifyMode, HasOff, Has
      <4>2. pc' \in 1..18 /\ At("bench")' /\ ~pending' /\ cmdline' = base' \o loaded'
        BY <2>7, <3>2, <2>i, Leads DEF VerifyMode, BootInv, AfterReboot, Advance
      <4>3. (Mode = "off") = HasOff /\ (Mode = "on" /\ strict => Has(cmdline, "strict_1"))
        BY <3>2 DEF Verified
      <4>4. strict' = strict /\ MeasuredAsConfigured'
        BY <3>2 DEF Advance, BootInv, MeasuredAsConfigured
      <4> QED
        BY <3>2, <4>1, <4>2, <4>3, <4>4 DEF BootInv
    <3> QED
      BY <2>7, <3>1, <3>2 DEF VerifyMode
  <2>8. CASE Bench
    <3>1. CASE Fails
      BY <3>1, <2>k DEF Fails, Running
    <3>2. CASE ~Fails
      <4> DEFINE half == [mode |-> Mode, off |-> HasOff, units |-> Units,
                          strict |-> Has(cmdline, "strict_1")]
      <4>1. /\ At("bench") /\ Advance /\ measured' = measured \cup {half}
            /\ (Mode = "on") = Units
        BY <2>8, <3>2 DEF Bench
      <4>2. Mode \in {"on", "off"}
        BY <4>1, <2>i, Steps DEF At, Op, Mode
      <4>3. /\ half.units = (half.mode = "on") /\ half.off = (half.mode = "off")
            /\ half.mode = "on" /\ strict => half.strict
        BY <4>1, <4>2 DEF BootInv
      <4>4. MeasuredAsConfigured'
        BY <4>1, <4>3 DEF BootInv, MeasuredAsConfigured, Advance
      <4> QED
        BY <4>1, <4>4, <2>i, Leads DEF BootInv, AfterReboot, At
    <3> QED
      BY <3>1, <3>2
  <2>9. CASE Unreachable
    BY <2>9, <2>k DEF Unreachable, Fails, Running
  <2>10. CASE GoesDown
    BY <2>10, <2>k DEF GoesDown, Down, Running
  <2>11. CASE ComesUp
    <3>1. /\ cmdline' = base' \o loaded' /\ ~pending'
          /\ UNCHANGED <<base, loaded, strict, pc, outcome, measured>>
      BY <2>11 DEF ComesUp
    <3>2. At("bench")' => cmdline' = cmdline
      BY <3>1 DEF BootInv, AfterReboot, At, Op, Running
    <3>3. /\ At("bench")' => At("bench")
          /\ Mode' = Mode
          /\ At("bench")' => HasOff' = HasOff /\ Has(cmdline, "strict_1")' = Has(cmdline, "strict_1")
      BY <3>1, <3>2 DEF At, Op, Mode, Running, HasOff, Has
    <3> QED
      BY <3>1, <3>3 DEF BootInv, MeasuredAsConfigured
  <2>12. CASE Crash
    <3>1. /\ UNCHANGED <<loaded, cmdline, pending, base, strict, pc, measured>>
          /\ machine' = "down" /\ (Running' => Running)
      BY <2>12 DEF Crash, Down, Running
    <3> QED
      BY <3>1, <2>k
  <2>13. CASE Abort
    BY <2>13, <2>k DEF Abort, Running
  <2>14. CASE Recover
    BY <2>14 DEF Recover, BootInv, AfterReboot, At, Running, MeasuredAsConfigured
  <2>15. CASE Begin
    BY <2>15, Steps DEF Begin, BootInv, AfterReboot, At, Op, MeasuredAsConfigured
  <2>16. CASE UNCHANGED vars
    BY <2>16, <2>k DEF vars, Running
  <2> QED
    BY <2>1, <2>2, <2>3, <2>4, <2>5, <2>6, <2>7, <2>8, <2>9, <2>10, <2>11, <2>12, <2>13,
       <2>14, <2>15, <2>16 DEF Next, Step
<1> QED
  BY <1>1, <1>2, PTL DEF Spec

(* iommu_boot.py's verify_mode and iommu_overhead.py look at a boot that     *)
(* the reboot asked for has produced: none is still to come, since the       *)
(* workflow waits for the target to be down before it waits for it to be up. *)
THEOREM RebootOver == Spec => []RebootIsOver
<1>1. BootInv => RebootIsOver
  BY DEF BootInv, AfterReboot, RebootIsOver
<1> QED
  BY <1>1, BootInvariant, PTL

(* Every half that was measured is of a boot that is what verify_mode was to *)
(* see, since what comes up again without a reboot of ours is the same.      *)
THEOREM Measured == Spec => []MeasuredAsConfigured
<1>1. BootInv => MeasuredAsConfigured
  BY DEF BootInv
<1> QED
  BY <1>1, BootInvariant, PTL
-----------------------------------------------------------------------------

\* A set of numbers has a least one
LEMMA Least ==
  ASSUME NEW T, T \subseteq Nat, T # {}
  PROVE  \E x \in T : \A y \in T : x <= y
<1> DEFINE R == OpToRel(<, Nat)
<1>1. IsWellFoundedOn(R, Nat)
  BY NatLessThanWellFounded
<1>2. \A x, y \in Nat : <<x, y>> \in R <=> x < y
  BY DEF OpToRel
<1> HIDE DEF R
<1>3. PICK x \in T : \A y \in T : ~ (<<y, x>> \in R)
  BY <1>1, WFMin
<1>4. \A y \in T : ~(y < x)
  BY <1>2, <1>3
<1>5. x \in Nat /\ \A y \in T : y \in Nat
  OBVIOUS
<1>6. \A y \in T : x <= y
  BY <1>4, <1>5
<1> QED
  BY <1>6

\* Induction, on the set of the numbers for which a claim holds
LEMMA Induct ==
  ASSUME NEW S, 0 \in S, \A n \in Nat : n \in S => n + 1 \in S
  PROVE  Nat \subseteq S
<1> DEFINE T == Nat \ S
<1> SUFFICES ASSUME T # {} PROVE FALSE
  OBVIOUS
<1>1. PICK x \in T : \A y \in T : x <= y
  BY Least
<1>2. x # 0 /\ x \in Nat
  OBVIOUS
<1>3. x - 1 \in Nat /\ x - 1 \in S
  BY <1>1, <1>2
<1>4. (x - 1) + 1 \in S
  BY <1>3
<1> QED
  BY <1>2, <1>4

\* The same on a sequence, by its last element
LEMMA SeqInduct ==
  ASSUME NEW T, NEW P, << >> \in P, \A s \in Seq(T), e \in T : s \in P => Append(s, e) \in P
  PROVE  Seq(T) \subseteq P
<1> DEFINE N == {n \in Nat : \A s \in Seq(T) : Len(s) = n => s \in P}
<1>1. 0 \in N
  BY EmptySeq
<1>2. ASSUME NEW n \in N PROVE n + 1 \in N
  <2> SUFFICES ASSUME NEW s \in Seq(T), Len(s) = n + 1 PROVE s \in P
    OBVIOUS
  <2>1. s # << >>
    BY EmptySeq
  <2>2. PICK t \in Seq(T), e \in T : s = Append(t, e)
    BY <2>1, SequenceEmptyOrAppend
  <2>3. Len(s) = Len(t) + 1 /\ Len(t) \in Nat
    BY <2>2, AppendProperties, LenProperties
  <2>4. t \in P
    BY <2>3
  <2> QED
    BY <2>2, <2>4
<1>3. Nat \subseteq N
  <2> HIDE DEF N
  <2> QED BY <1>1, <1>2, Induct
<1> QED
  BY <1>3, LenProperties

\* A function that is given at 0 and, at each next number, from the one before it
LEMMA RecDef ==
  ASSUME NEW n \in Nat, NEW A, NEW start \in A, NEW step \in [1..n -> [A -> A]]
  PROVE  \E f \in [0..n -> A] : Iterates(f, start, step, n)
<1> USE DEF Iterates
<1> DEFINE Good(f, m) == Iterates(f, start, step, m)
           N == {m \in Nat : m <= n => \E f \in [0..n -> A] : Good(f, m)}
<1>1. 0 \in N
  <2>1. Good([i \in 0..n |-> start], 0)
    OBVIOUS
  <2> QED BY <2>1
<1>2. ASSUME NEW m \in N PROVE m + 1 \in N
  <2> SUFFICES ASSUME m + 1 <= n PROVE \E f \in [0..n -> A] : Good(f, m + 1)
    OBVIOUS
  <2>1. PICK f \in [0..n -> A] : Good(f, m)
    OBVIOUS
  <2> DEFINE g == [f EXCEPT ![m + 1] = step[m + 1][f[m]]]
  <2>2. m \in 0..n /\ m + 1 \in 1..n /\ m + 1 \in 0..n /\ m + 1 # 0
    OBVIOUS
  <2>3. step[m + 1][f[m]] \in A
    BY <2>2
  <2>4. g \in [0..n -> A]
    BY <2>3
  <2>5. g[0] = start
    BY <2>1, <2>2
  <2>6. ASSUME NEW i \in 1..(m + 1) PROVE g[i] = step[i][g[i - 1]]
    <3>1. i - 1 \in 0..n /\ i - 1 # m + 1 /\ i \in 0..n
      BY <2>2
    <3>2. g[i - 1] = f[i - 1]
      BY <3>1
    <3>3. CASE i = m + 1
      BY <3>1, <3>2, <3>3
    <3>4. CASE i # m + 1
      BY <3>1, <3>2, <3>4, <2>1
    <3> QED BY <3>3, <3>4
  <2> QED BY <2>4, <2>5, <2>6
<1>3. Nat \subseteq N
  <2> HIDE DEF N
  <2> QED BY <1>1, <1>2, Induct
<1> QED
  BY <1>3

\* The function Only is read from exists,
LEMMA OnlyExists ==
  ASSUME NEW T, NEW s \in Seq(T), NEW K
  PROVE  \E f \in [0..Len(s) -> Seq(T)] : OnlySteps(f, s, K, Len(s))
<1> DEFINE step == [i \in 1..Len(s) |-> [r \in Seq(T) |->
                      IF s[i] \in K THEN Append(r, s[i]) ELSE r]]
<1>1. Len(s) \in Nat /\ \A i \in 1..Len(s) : s[i] \in T
  BY LenProperties, ElementOfSeq
<1>2. step \in [1..Len(s) -> [Seq(T) -> Seq(T)]]
  BY <1>1, AppendProperties
<1>3. << >> \in Seq(T)
  BY EmptySeq
<1>4. PICK f \in [0..Len(s) -> Seq(T)] :
        f[0] = << >> /\ \A i \in 1..Len(s) : f[i] = step[i][f[i - 1]]
  <2> DEFINE A == Seq(T)
             start == << >>
             n == Len(s)
  <2>1. n \in Nat /\ start \in A /\ step \in [1..n -> [A -> A]]
    BY <1>1, <1>2, <1>3
  <2>2. \E f \in [0..n -> A] : Iterates(f, start, step, n)
    <3> HIDE DEF A, start, n, step
    <3> QED BY <2>1, RecDef
  <2> QED BY <2>2 DEF Iterates
<1>5. \A i \in 1..Len(s) : i - 1 \in 0..Len(s)
  BY <1>1
<1> QED
  BY <1>4, <1>5 DEF OnlySteps

\* is determined by the tokens it has been through,
LEMMA OnlyUnique ==
  ASSUME NEW s, NEW t, NEW K, NEW n \in Nat, NEW f, NEW g,
         \A i \in 1..n : s[i] = t[i],
         OnlySteps(f, s, K, n), OnlySteps(g, t, K, n)
  PROVE  f[n] = g[n]
<1> DEFINE N == {m \in Nat : m <= n => f[m] = g[m]}
<1>1. 0 \in N
  BY DEF OnlySteps
<1>2. ASSUME NEW m \in Nat, m \in N PROVE m + 1 \in N
  <2> SUFFICES ASSUME m + 1 <= n PROVE f[m + 1] = g[m + 1]
    OBVIOUS
  <2>1. f[m] = g[m] /\ m + 1 \in 1..n /\ (m + 1) - 1 = m
    BY <1>2
  <2> QED
    BY <2>1 DEF OnlySteps
<1>3. Nat \subseteq N
  <2> HIDE DEF N
  <2> QED BY <1>1, <1>2, Induct
<1> QED
  BY <1>3

\* and is the one that the definition of Only chooses
LEMMA OnlyIs ==
  ASSUME NEW T, NEW s \in Seq(T), NEW K, NEW f, OnlySteps(f, s, K, Len(s))
  PROVE  Only(s, K) = f[Len(s)]
<1> DEFINE IsOnly(g) == g = [i \in 0..Len(s) |->
             IF i = 0 THEN << >> ELSE IF s[i] \in K THEN Append(g[i - 1], s[i]) ELSE g[i - 1]]
           h == CHOOSE g : IsOnly(g)
<1>1. Len(s) \in Nat
  BY LenProperties
<1>2. \E g : IsOnly(g)
  <2>1. PICK g \in [0..Len(s) -> Seq(T)] : OnlySteps(g, s, K, Len(s))
    BY OnlyExists
  <2>2. \A i \in 0..Len(s) : i # 0 => i \in 1..Len(s)
    BY <1>1
  <2>3. IsOnly(g)
    BY <1>1, <2>1, <2>2 DEF OnlySteps
  <2> QED BY <2>3
<1>3. IsOnly(h)
  <2> HIDE DEF IsOnly
  <2> QED BY <1>2
<1>4. OnlySteps(h, s, K, Len(s))
  <2>1. 0 \in 0..Len(s) /\ \A i \in 1..Len(s) : i \in 0..Len(s) /\ i # 0
    BY <1>1
  <2> QED BY <1>3, <2>1 DEF OnlySteps
<1>5. Only(s, K) = h[Len(s)]
  BY DEF Only
<1>6. h[Len(s)] = f[Len(s)]
  <2> HIDE DEF h
  <2> QED BY <1>1, <1>4, OnlyUnique
<1> QED
  BY <1>5, <1>6

\* Nothing is filtered out of nothing
LEMMA OnlyEmpty == ASSUME NEW K PROVE Only(<< >>, K) = << >>
<1> DEFINE s == << >>
<1>1. s \in Seq({}) /\ Len(s) = 0
  BY EmptySeq
<1>2. PICK f : OnlySteps(f, s, K, Len(s))
  <2> HIDE DEF s
  <2> QED BY <1>1, OnlyExists
<1>3. Only(s, K) = f[Len(s)]
  <2> HIDE DEF s
  <2> QED BY <1>1, <1>2, OnlyIs
<1> QED
  BY <1>1, <1>2, <1>3 DEF OnlySteps

\* The filter decides of one token at a time: the recursion that Only stands for
LEMMA OnlyAppend ==
  ASSUME NEW T, NEW s \in Seq(T), NEW e \in T, NEW K
  PROVE  /\ Only(s, K) \in Seq(T)
         /\ Only(Append(s, e), K) = IF e \in K THEN Append(Only(s, K), e) ELSE Only(s, K)
<1> DEFINE t == Append(s, e)
           n == Len(s)
<1>1. n \in Nat /\ t \in Seq(T) /\ Len(t) = n + 1 /\ t[n + 1] = e
      /\ \A i \in 1..n : s[i] = t[i]
  BY LenProperties, AppendProperties
<1>2. PICK f \in [0..n -> Seq(T)] : OnlySteps(f, s, K, n)
  BY OnlyExists
<1>3. PICK g : OnlySteps(g, t, K, n + 1)
  BY <1>1, OnlyExists
<1>4. Only(s, K) = f[n] /\ Only(t, K) = g[n + 1]
  BY <1>1, <1>2, <1>3, OnlyIs
<1>5. OnlySteps(g, t, K, n)
  BY <1>1, <1>3 DEF OnlySteps
<1>6. f[n] = g[n]
  <2>1. n \in Nat /\ \A i \in 1..n : s[i] = t[i]
    BY <1>1
  <2>2. OnlySteps(f, s, K, n)
    BY <1>2
  <2> HIDE DEF t, n
  <2> QED BY <2>1, <2>2, <1>5, OnlyUnique
<1>7. g[n + 1] = IF e \in K THEN Append(g[n], e) ELSE g[n]
  <2>1. n + 1 \in 1..(n + 1) /\ (n + 1) - 1 = n
    BY <1>1
  <2> QED BY <1>1, <1>3, <2>1 DEF OnlySteps
<1> QED
  BY <1>1, <1>2, <1>4, <1>6, <1>7

\* What is kept of a sequence of T, and when that is all of it or nothing
LEMMA OnlyOf ==
  ASSUME NEW T, NEW K
  PROVE  \A s \in Seq(T) : /\ Only(s, K) \in Seq(T \cap K)
                           /\ T \subseteq K => Only(s, K) = s
                           /\ T \cap K = {} => Only(s, K) = << >>
<1> DEFINE P == {s \in Seq(T) : /\ Only(s, K) \in Seq(T \cap K)
                                /\ T \subseteq K => Only(s, K) = s
                                /\ T \cap K = {} => Only(s, K) = << >>}
<1>1. << >> \in P
  BY OnlyEmpty, EmptySeq
<1>2. ASSUME NEW s \in Seq(T), NEW e \in T, s \in P
      PROVE  Append(s, e) \in P
  <2>1. Only(Append(s, e), K) = IF e \in K THEN Append(Only(s, K), e) ELSE Only(s, K)
    BY OnlyAppend
  <2>2. e \in K => Append(Only(s, K), e) \in Seq(T \cap K)
    BY <1>2, AppendProperties
  <2>3. Append(s, e) \in Seq(T)
    BY AppendProperties
  <2> QED BY <1>2, <2>1, <2>2, <2>3
<1>3. Seq(T) \subseteq P
  <2> HIDE DEF P
  <2> QED BY <1>1, <1>2, SeqInduct
<1> QED
  BY <1>3

\* Appending to the second of two sequences appends to both
LEMMA ConcatAppend ==
  ASSUME NEW T, NEW s \in Seq(T), NEW t \in Seq(T), NEW e \in T
  PROVE  s \o Append(t, e) = Append(s \o t, e)
<1>1. << e >> \in Seq(T) /\ s \o t \in Seq(T)
  BY ConcatProperties
<1>2. Append(t, e) = t \o << e >> /\ Append(s \o t, e) = (s \o t) \o << e >>
  BY <1>1, AppendIsConcat
<1> QED
  BY <1>1, <1>2, ConcatAssociative

\* Two sequences are filtered each on its own
LEMMA OnlyConcat ==
  ASSUME NEW T, NEW s \in Seq(T), NEW K
  PROVE  \A t \in Seq(T) : Only(s \o t, K) = Only(s, K) \o Only(t, K)
<1> DEFINE P == {t \in Seq(T) : Only(s \o t, K) = Only(s, K) \o Only(t, K)}
<1>0. Only(s, K) \in Seq(T)
  <2>1. Only(s, K) \in Seq(T \cap K) /\ T \cap K \subseteq T
    BY OnlyOf
  <2> QED BY <2>1, SeqMonotonic
<1>1. << >> \in P
  BY <1>0, OnlyEmpty, EmptySeq, ConcatEmptySeq
<1>2. ASSUME NEW t \in Seq(T), NEW e \in T, t \in P
      PROVE  Append(t, e) \in P
  <2>1. s \o t \in Seq(T) /\ Only(t, K) \in Seq(T) /\ Append(t, e) \in Seq(T)
    BY ConcatProperties, OnlyAppend, AppendProperties
  <2>2. Only(s \o Append(t, e), K)
          = IF e \in K THEN Append(Only(s \o t, K), e) ELSE Only(s \o t, K)
    <3> DEFINE u == s \o t
    <3>1. s \o Append(t, e) = Append(u, e)
      BY ConcatAppend
    <3>2. u \in Seq(T)
      BY <2>1
    <3>3. Only(Append(u, e), K) = IF e \in K THEN Append(Only(u, K), e) ELSE Only(u, K)
      <4> HIDE DEF u
      <4> QED BY <3>2, OnlyAppend
    <3> QED BY <3>1, <3>3
  <2>3. Only(Append(t, e), K) = IF e \in K THEN Append(Only(t, K), e) ELSE Only(t, K)
    BY OnlyAppend
  <2>4. Only(s, K) \o Append(Only(t, K), e) = Append(Only(s, K) \o Only(t, K), e)
    BY <1>0, <2>1, ConcatAppend
  <2> QED BY <1>2, <2>1, <2>2, <2>3, <2>4
<1>3. Seq(T) \subseteq P
  <2> HIDE DEF P
  <2> QED BY <1>1, <1>2, SeqInduct
<1> QED
  BY <1>3
-----------------------------------------------------------------------------

\* The tokens a half puts there: tokens_for_mode()
LEMMA TokensOfMode ==
  ASSUME NEW mode
  PROVE  /\ TokensForMode(mode) \in Seq(DropTokens)
         /\ TokensForMode(mode) \in
             {<< "vendor_off" >>, << "vendor_on" >>, << "vendor_on", "strict_1" >>}
<1> DEFINE one == << IF mode = "on" THEN "vendor_on" ELSE "vendor_off" >>
           two == IF mode = "on" /\ strict THEN << "strict_1" >> ELSE << >>
<1>1. {"vendor_on", "vendor_off", "strict_1"} \subseteq DropTokens
  BY DEF DropTokens
<1>2. CASE mode = "on" /\ strict
  <2>1. TokensForMode(mode) = << "vendor_on" >> \o << "strict_1" >>
    BY <1>2 DEF TokensForMode
  <2>2. << "vendor_on" >> \o << "strict_1" >> = << "vendor_on", "strict_1" >>
    <3> DEFINE s == << "vendor_on" >>
    <3>1. s \in Seq(DropTokens) /\ "strict_1" \in DropTokens
      BY <1>1
    <3>2. Append(s, "strict_1") = s \o << "strict_1" >>
      <4> HIDE DEF s
      <4> QED BY <3>1, AppendIsConcat
    <3>3. Append(s, "strict_1") = << "vendor_on", "strict_1" >>
      <4> DEFINE both == << "vendor_on", "strict_1" >>
                 longer == Append(s, "strict_1")
      <4>1. Len(s) = 1 /\ s[1] = "vendor_on"
        OBVIOUS
      <4>2. longer \in Seq(DropTokens) /\ Len(longer) = 2 /\ longer[1] = s[1] /\ longer[2] = "strict_1"
        <5>1. /\ longer \in Seq(DropTokens)
              /\ Len(longer) = Len(s) + 1 /\ longer[Len(s) + 1] = "strict_1"
              /\ \A i \in 1..Len(s) : longer[i] = s[i]
          <6> HIDE DEF s
          <6> QED BY <3>1, AppendProperties
        <5> HIDE DEF longer, s
        <5> QED BY <4>1, <5>1
      <4>3. /\ both \in Seq(DropTokens) /\ Len(both) = 2
            /\ both[1] = "vendor_on" /\ both[2] = "strict_1"
        BY <1>1
      <4>4. \A i \in 1..2 : longer[i] = both[i]
        BY <4>1, <4>2, <4>3
      <4> HIDE DEF longer, both
      <4> QED BY <4>2, <4>3, <4>4, SeqEqual DEF longer, both
    <3> QED BY <3>2, <3>3
  <2>3. << "vendor_on", "strict_1" >> \in Seq(DropTokens)
    BY <1>1
  <2> QED BY <2>1, <2>2, <2>3
<1>3. CASE ~(mode = "on" /\ strict)
  <2>1. TokensForMode(mode) = one \o << >>
    BY <1>3 DEF TokensForMode
  <2>2. one \in Seq(DropTokens)
    BY <1>1
  <2>3. one \o << >> = one
    <3> HIDE DEF one
    <3> QED BY <2>2, ConcatEmptySeq
  <2> QED BY <1>1, <2>1, <2>2, <2>3
<1> QED BY <1>2, <1>3

\* The edit changes the tokens of an IOMMU, to those of the half, and no other
LEMMA UpdatedTokens ==
  ASSUME NEW mode, text \in Files
  PROVE  /\ Updated(mode) \in Files /\ Updated(mode).is = text.is
         /\ Only(Updated(mode).tokens, Others) = Only(text.tokens, Others)
         /\ Only(Updated(mode).tokens, DropTokens)
              \in {<< "vendor_off" >>, << "vendor_on" >>, << "vendor_on", "strict_1" >>}
<1> DEFINE kept == Only(text.tokens, Others)
           new  == TokensForMode(mode)
<1>1. /\ text.tokens \in Seq(Tokens)
      /\ Updated(mode) = [text EXCEPT !.line = TRUE, !.tokens = kept \o new]
  BY DEF Files, Updated, Others
<1>2. kept \in Seq(Others)
  <2>1. kept \in Seq(Tokens \cap Others) /\ Tokens \cap Others = Others
    BY <1>1, OnlyOf DEF Others
  <2> QED BY <2>1
<1>3. new \in Seq(DropTokens)
  BY TokensOfMode
<1>4. kept \in Seq(Tokens) /\ new \in Seq(Tokens) /\ DropTokens \subseteq Tokens
  BY <1>2, <1>3, SeqMonotonic DEF Others, DropTokens, Tokens
<1>5. kept \o new \in Seq(Tokens)
  <2> HIDE DEF kept, new
  <2> QED BY <1>4, ConcatProperties
<1>6. Only(kept, Others) = kept /\ Only(kept, DropTokens) = << >>
  <2>1. Others \cap DropTokens = {}
    BY DEF Others
  <2> HIDE DEF kept
  <2> QED BY <1>2, <2>1, OnlyOf
<1>7. Only(new, Others) = << >> /\ Only(new, DropTokens) = new
  <2>1. DropTokens \cap Others = {}
    BY DEF Others
  <2> HIDE DEF new
  <2> QED BY <1>3, <2>1, OnlyOf
<1>8. Only(kept \o new, Others) = kept /\ Only(kept \o new, DropTokens) = new
  <2>1. \A K : Only(kept \o new, K) = Only(kept, K) \o Only(new, K)
    <3> HIDE DEF kept, new
    <3> QED BY <1>4, OnlyConcat
  <2>2. kept \o << >> = kept /\ << >> \o new = new
    <3> HIDE DEF kept, new
    <3> QED BY <1>4, ConcatEmptySeq
  <2> QED BY <1>6, <1>7, <2>1, <2>2
<1>9. /\ Updated(mode).tokens = kept \o new
      /\ Updated(mode).is = text.is /\ Updated(mode) \in Files
  <2> HIDE DEF kept, new
  <2> QED BY <1>1, <1>5 DEF Files
<1> QED
  BY <1>8, <1>9, TokensOfMode

\* A half writes the file right after its backup step
LEMMA AdvanceWrites ==
  ASSUME pc \in 1..18, Advance
  PROVE  pc' \in 1..18 /\ (At("write")' => At("backup"))
<1>1. CASE pc = Len(Program)
  BY <1>1, Steps DEF Advance, At, Running
<1>2. CASE pc # Len(Program)
  <2>1. pc \in 1..17 /\ pc' = pc + 1 /\ outcome' = outcome
    BY <1>2, Steps DEF Advance
  <2>2. \A i \in 1..17 : Program[i + 1][1] = "write" => Program[i][1] = "backup"
    BY Steps
  <2> QED
    BY <2>1, <2>2 DEF At, Op, Running
<1> QED BY <1>1, <1>2

\* The workflow starts well typed
LEMMA TypeInit == Init => TypeOK
<1> USE BootAssumption DEF fileVars, bootVars, fixedVars
<1> SUFFICES ASSUME Init PROVE TypeOK
  OBVIOUS
<1>1. << >> \in Seq(Tokens)
  BY EmptySeq
<1>2. NoFile \in Files /\ grub \in Files
  <2>1. NoFile \in Files
    BY <1>1 DEF Files, NoFile
  <2>2. \A l \in Seq(Tokens), b \in BOOLEAN : File(b, l) \in Files
    BY DEF Files, File
  <2>3. \E l \in Seq(Tokens), b \in BOOLEAN : grub = File(b, l)
    BY <1>1 DEF Init
  <2> QED BY <2>1, <2>2, <2>3
<1>3. grub.tokens \in Seq(Tokens)
  BY <1>2 DEF Files
<1>4. cmdline \in Seq(Tokens)
  BY <1>3, ConcatProperties DEF Init
<1>5. pc \in 1..18 /\ runs \in 0..MaxRuns /\ faults \in 0..MaxFaults
  BY DEF Init
<1>6. backup \in Files /\ text \in Files /\ orig \in Files /\ loaded \in Seq(Tokens)
      /\ base \in Seq(Tokens)
  BY <1>2, <1>3 DEF Init
<1> QED
  BY <1>2, <1>4, <1>5, <1>6 DEF Init, TypeOK

(* The files keep to the shapes and the tokens the edit knows, and the       *)
(* workflow to its steps, whatever crashes, is aborted and is run again.     *)
THEOREM TypeCorrect == Spec => []TypeOK
<1> USE BootAssumption DEF fileVars, bootVars, fixedVars
<1>2. TypeOK /\ [Next]_vars => TypeOK'
  <2> SUFFICES ASSUME TypeOK, [Next]_vars PROVE TypeOK'
    OBVIOUS
  <2>l. Len(Program) = 18
    BY Steps
  <2>t. /\ pc \in 1..18 /\ loaded \in Seq(Tokens) /\ base \in Seq(Tokens)
        /\ grub \in Files /\ backup \in Files /\ text \in Files
    BY DEF TypeOK
  <2>a. Advance => /\ pc' \in 1..18 /\ outcome' \in {"none", "running", "ok", "failed"}
                   /\ UNCHANGED <<fixedVars, runs, faults>>
    BY <2>l DEF Advance, TypeOK
  <2>f. Fails => TypeOK'
    BY DEF Fails, TypeOK
  <2>1. CASE CheckOrCombine
    BY <2>1, <2>a DEF CheckOrCombine, TypeOK
  <2>2. CASE Backup
    BY <2>2, <2>a DEF Backup, BackedUp, TypeOK
  <2>3. CASE WriteGrub
    BY <2>3, <2>t, <2>a, UpdatedTokens DEF WriteGrub, TypeOK
  <2>4. CASE UpdateGrub
    <3>1. grub.tokens \in Seq(Tokens)
      BY <2>t DEF Files
    <3> QED BY <2>4, <3>1, <2>a DEF UpdateGrub, TypeOK
  <2>5. CASE ScheduleReboot
    BY <2>5, <2>a DEF ScheduleReboot, TypeOK
  <2>6. CASE Wait
    BY <2>6, <2>a, <2>f DEF Wait, TypeOK
  <2>7. CASE VerifyMode
    BY <2>7, <2>a, <2>f DEF VerifyMode, TypeOK
  <2>8. CASE Bench
    <3>1. CASE Fails
      BY <3>1, <2>f
    <3>2. CASE ~Fails
      <4> DEFINE half == [mode |-> Mode, off |-> HasOff, units |-> Units,
                          strict |-> Has(cmdline, "strict_1")]
      <4>1. At("bench") /\ Advance /\ measured' = measured \cup {half}
            /\ UNCHANGED <<fileVars, bootVars, text, damaged>>
        BY <2>8, <3>2 DEF Bench
      <4>2. Mode \in {"on", "off"}
        <5>1. Program[pc][1] = "bench"
          BY <4>1 DEF At, Op
        <5>2. \A i \in 1..18 \ {9, 17} : Program[i][1] # "bench"
          BY Steps
        <5>3. Program[9][2] = "off" /\ Program[17][2] = "on"
          BY Steps
        <5>4. pc \in {9, 17}
          BY <5>1, <5>2, <2>t
        <5> QED BY <5>3, <5>4 DEF Mode, Op
      <4>3. HasOff \in BOOLEAN /\ Units \in BOOLEAN /\ Has(cmdline, "strict_1") \in BOOLEAN
        BY DEF HasOff, Units, Has
      <4> QED BY <4>1, <4>2, <4>3, <2>a DEF TypeOK
    <3> QED BY <3>1, <3>2
  <2>9. CASE Unreachable
    BY <2>9, <2>f DEF Unreachable, TypeOK
  <2>10. CASE GoesDown
    BY <2>10 DEF GoesDown, Down, TypeOK
  <2>11. CASE ComesUp
    <3>1. base \o loaded \in Seq(Tokens)
      BY <2>t, ConcatProperties
    <3> QED BY <2>11, <3>1 DEF ComesUp, TypeOK
  <2>12. CASE Crash
    <3>1. EmptyFile \in Files
      BY EmptySeq DEF EmptyFile, Files
    <3>2. faults' \in 0..MaxFaults
      BY <2>12 DEF Crash, Strikes, TypeOK
    <3>3. grub' \in Files /\ backup' \in Files /\ damaged' \in BOOLEAN
      BY <2>12, <3>1 DEF Crash, Down, TypeOK
    <3>4. ASSUME NEW b, Down(b)
          PROVE  /\ machine' \in {"up", "down"}
                 /\ outcome' \in {"none", "running", "ok", "failed"}
                 /\ UNCHANGED <<loaded, pending, cmdline, fixedVars>>
                 /\ UNCHANGED <<pc, text, measured, runs>>
      BY <3>4 DEF Down, TypeOK
    <3>5. \E b \in BOOLEAN : Down(b)
      BY <2>12 DEF Crash, At
    <3> QED BY <3>2, <3>3, <3>4, <3>5 DEF TypeOK
  <2>13. CASE Abort
    BY <2>13 DEF Abort, Strikes, TypeOK
  <2>14. CASE Recover
    <3>1. backup.tokens \in Seq(Tokens)
      BY <2>t DEF Files
    <3> QED BY <2>14, <3>1 DEF Recover, TypeOK
  <2>15. CASE Begin
    BY <2>15 DEF Begin, TypeOK
  <2>16. CASE UNCHANGED vars
    BY <2>16 DEF vars, TypeOK
  <2> QED
    BY <2>1, <2>2, <2>3, <2>4, <2>5, <2>6, <2>7, <2>8, <2>9, <2>10, <2>11, <2>12, <2>13,
       <2>14, <2>15, <2>16 DEF Next, Step
<1> QED
  BY TypeInit, <1>2, PTL DEF Spec

(* What the edit leaves in any whole file are the other tokens of the        *)
(* original, in order, and of those of an IOMMU either what it had or what a *)
(* half puts there: no crash, recovery or second run adds up to anything else.*)
THEOREM TokensSafe == Spec => []OnlyIommuTokensChange
<1>1. Init => TokensInv
  BY TypeInit DEF Init, TokensInv, SameButIommu, File, NoFile, At, Running
<1>2. TokensInv /\ TypeOK' /\ [Next]_vars => TokensInv'
  <2> SUFFICES ASSUME TokensInv, TypeOK', [Next]_vars PROVE TokensInv'
    OBVIOUS
  <2> USE DEF TokensInv, fileVars, bootVars, fixedVars
  <2>t. pc \in 1..18 /\ text \in Files
    BY DEF TypeOK
  <2>s. ASSUME orig' = orig, NEW f \in {grub, backup, text}',
               f.is = "whole" => SameButIommu(f)
        PROVE  f.is = "whole" => SameButIommu(f)'
    BY <2>s DEF SameButIommu
  <2>k. ASSUME UNCHANGED <<grub, backup, text, orig, damaged, pc>>, Running' => Running
        PROVE  TokensInv'
    BY <2>k DEF SameButIommu, At, Op
  <2>w. ASSUME Advance, ~At("backup") PROVE ~At("write")' /\ orig' = orig
    BY <2>w, <2>t, AdvanceWrites DEF Advance
  <2>b. ASSUME Advance, UNCHANGED <<grub, backup, text, damaged>>, ~At("backup")
        PROVE  TokensInv'
    BY <2>b, <2>w DEF SameButIommu
  <2>1. CASE CheckOrCombine
    BY <2>1, <2>b DEF CheckOrCombine, At
  <2>2. CASE Backup
    <3>1. /\ text' = grub /\ backup' \in {grub, backup}
          /\ UNCHANGED <<grub, damaged, orig>>
      BY <2>2 DEF Backup, BackedUp, Advance
    <3> QED BY <3>1 DEF SameButIommu
  <2>3. CASE WriteGrub
    <3>1. At("write") /\ grub' = Updated(Mode) /\ Advance /\ UNCHANGED <<backup, text, damaged>>
      BY <2>3 DEF WriteGrub
    <3>2. ~At("write")' /\ orig' = orig
      BY <3>1, <2>w DEF At
    <3>3. grub'.is = text.is /\ text.is = "whole" => SameButIommu(grub')
      BY <3>1, <2>t, UpdatedTokens DEF SameButIommu
    <3>4. grub'.is = text.is
      BY <3>1, <2>t, UpdatedTokens
    <3> QED BY <3>1, <3>2, <3>3, <3>4 DEF SameButIommu
  <2>4. CASE UpdateGrub
    BY <2>4, <2>b DEF UpdateGrub, At
  <2>5. CASE ScheduleReboot
    BY <2>5, <2>b DEF ScheduleReboot, At
  <2>6. CASE Wait
    BY <2>6, <2>b, <2>k DEF Wait, Fails, At, Running
  <2>7. CASE VerifyMode
    BY <2>7, <2>b, <2>k DEF VerifyMode, Fails, At, Running
  <2>8. CASE Bench
    BY <2>8, <2>b, <2>k DEF Bench, Fails, At, Running
  <2>9. CASE Unreachable
    BY <2>9, <2>k DEF Unreachable, Fails, Running
  <2>10. CASE GoesDown
    BY <2>10, <2>k DEF GoesDown, Down, Running
  <2>11. CASE ComesUp
    BY <2>11, <2>k DEF ComesUp, Running
  <2>12. CASE Crash
    <3>1. CASE UNCHANGED <<grub, backup, damaged>>
      BY <2>12, <3>1, <2>k DEF Crash, Down, Running
    <3>2. CASE /\ grub' = EmptyFile /\ damaged' = TRUE /\ UNCHANGED <<backup, text, orig>>
      <4>1. EmptyFile.is # "whole"
        BY DEF EmptyFile
      <4> QED BY <3>2, <4>1 DEF SameButIommu
    <3>3. CASE /\ backup' = EmptyFile /\ Down(TRUE) /\ UNCHANGED <<grub, damaged>>
      <4>1. EmptyFile.is # "whole"
        BY DEF EmptyFile
      <4> QED BY <3>3, <4>1 DEF SameButIommu, Down, At, Running
    <3> QED
      BY <2>12, <3>1, <3>2, <3>3 DEF Crash, Down
  <2>13. CASE Abort
    BY <2>13, <2>k DEF Abort, Running
  <2>14. CASE Recover
    BY <2>14 DEF Recover, At, Running, SameButIommu
  <2>15. CASE Begin
    <3>1. Program[1][1] # "write"
      BY DEF Program
    <3> QED
      BY <2>15, <3>1 DEF Begin, At, Op, SameButIommu
  <2>16. CASE UNCHANGED vars
    BY <2>16, <2>k DEF vars, Running
  <2> QED
    BY <2>1, <2>2, <2>3, <2>4, <2>5, <2>6, <2>7, <2>8, <2>9, <2>10, <2>11, <2>12, <2>13,
       <2>14, <2>15, <2>16 DEF Next, Step
<1>3. TokensInv => OnlyIommuTokensChange
  BY DEF TokensInv, OnlyIommuTokensChange, SameButIommu, Others
<1> QED
  BY <1>1, <1>2, <1>3, TypeCorrect, PTL DEF Spec
=============================================================================
