--------------------------- MODULE AisioPrograms ---------------------------
(***************************************************************************)
(* What the workflows of AisioStack are as sequences of commands, proved   *)
(* for AisioStackProofs: every command of every workflow, and the orders   *)
(* that its invariants rest on.  A run looks at the drive before it takes  *)
(* it; it makes a file system before it writes to one; and the workflows   *)
(* that promise a clean end open nothing once they have begun to close.    *)
(*                                                                         *)
(* The programs are concatenations, which the provers do not evaluate, so  *)
(* that the lemmas ...Steps list their elements, from Concat.              *)
(***************************************************************************)
EXTENDS AisioStack, SequenceTheorems, TLAPS

\* The commands there are: what they do, and what they do it to
Commands ==
  ({"umount"} \X {"try", "own"}) \cup ({"stop_units"} \X {"all"})
    \cup ({"qublk_del", "rm_shm", "fill", "conf"} \X {"own"})
    \cup ({"guard"} \X {"own", "none", "usable"}) \cup ({"bind"} \X {"nvme", "user"})
    \cup ({"start", "stop", "systemctl_stop", "stop_result"} \X {"homi", "qublk", "xal"})
    \cup ({"mkfs", "mount"} \X {"nvme", "ublk"}) \cup ({"write"} \X {"homi", "bdev"})
    \cup ({"check"} \X {"bdev", "homi", "ublk", "direct", "daemons", "no_shm"})
    \cup ({"load"} \X {"own", "opends"})

\* What two sequences of commands give one after the other.
LEMMA Concat ==
  ASSUME NEW S, NEW s \in Seq(S), NEW t \in Seq(S)
  PROVE  /\ s \o t \in Seq(S) /\ Len(s \o t) = Len(s) + Len(t)
         /\ \A i \in 1..(Len(s) + Len(t)) :
              (s \o t)[i] = IF i <= Len(s) THEN s[i] ELSE t[i - Len(s)]
  BY ConcatProperties

\* Every command the workflows are written with is one of Commands.
LEMMA Literals ==
  /\ <<"umount", "own">> \in Commands /\ <<"umount", "try">> \in Commands
  /\ <<"stop_units", "all">> \in Commands /\ <<"qublk_del", "own">> \in Commands
  /\ <<"rm_shm", "own">> \in Commands /\ <<"guard", "none">> \in Commands
  /\ <<"guard", "own">> \in Commands /\ <<"guard", "usable">> \in Commands
  /\ <<"bind", "nvme">> \in Commands /\ <<"bind", "user">> \in Commands
  /\ <<"start", "homi">> \in Commands /\ <<"start", "qublk">> \in Commands
  /\ <<"start", "xal">> \in Commands /\ <<"stop", "homi">> \in Commands
  /\ <<"stop", "qublk">> \in Commands /\ <<"stop", "xal">> \in Commands
  /\ <<"systemctl_stop", "homi">> \in Commands /\ <<"systemctl_stop", "qublk">> \in Commands
  /\ <<"systemctl_stop", "xal">> \in Commands /\ <<"stop_result", "homi">> \in Commands
  /\ <<"mkfs", "nvme">> \in Commands /\ <<"mkfs", "ublk">> \in Commands
  /\ <<"mount", "nvme">> \in Commands /\ <<"mount", "ublk">> \in Commands
  /\ <<"fill", "own">> \in Commands /\ <<"write", "bdev">> \in Commands
  /\ <<"write", "homi">> \in Commands /\ <<"conf", "own">> \in Commands
  /\ <<"check", "bdev">> \in Commands /\ <<"check", "daemons">> \in Commands
  /\ <<"check", "direct">> \in Commands /\ <<"check", "homi">> \in Commands
  /\ <<"check", "no_shm">> \in Commands /\ <<"check", "ublk">> \in Commands
  /\ <<"load", "opends">> \in Commands /\ <<"load", "own">> \in Commands
  BY DEF Commands

\* The commands of Cleanup, one by one.
LEMMA CleanupSteps ==
  /\ Cleanup \in Seq(Commands) /\ Len(Cleanup) = 3
  /\ Cleanup[1] = <<"umount", "try">> /\ Cleanup[2] = <<"stop_units", "all">>
  /\ Cleanup[3] = <<"qublk_del", "own">>
<1>1. /\ Cleanup[1] = <<"umount", "try">> /\ Cleanup[2] = <<"stop_units", "all">>
      /\ Cleanup[3] = <<"qublk_del", "own">>
  BY DEF Cleanup
<1>2. Cleanup = [i \in 1..3 |-> Cleanup[i]]
  BY DEF Cleanup
<1>3. /\ Cleanup[1] \in Commands /\ Cleanup[2] \in Commands /\ Cleanup[3] \in Commands
  BY <1>1, Literals
<1>4. \A i \in 1..3 : Cleanup[i] \in Commands
  BY <1>3
<1>5. Cleanup \in Seq(Commands) /\ Len(Cleanup) = 3
  BY <1>2, <1>4
<1> QED
  BY <1>1, <1>5

\* The commands of Remount, one by one.
LEMMA RemountSteps ==
  /\ Remount \in Seq(Commands) /\ Len(Remount) = 2
  /\ Remount[1] = <<"umount", "own">> /\ Remount[2] = <<"mount", "ublk">>
<1>1. /\ Remount[1] = <<"umount", "own">> /\ Remount[2] = <<"mount", "ublk">>
  BY DEF Remount
<1>2. Remount = [i \in 1..2 |-> Remount[i]]
  BY DEF Remount
<1>3. /\ Remount[1] \in Commands /\ Remount[2] \in Commands
  BY <1>1, Literals
<1>4. \A i \in 1..2 : Remount[i] \in Commands
  BY <1>3
<1>5. Remount \in Seq(Commands) /\ Len(Remount) = 2
  BY <1>2, <1>4
<1> QED
  BY <1>1, <1>5

\* The commands of Handback, one by one.
LEMMA HandbackSteps ==
  /\ Handback \in Seq(Commands) /\ Len(Handback) = 2
  /\ Handback[1] = <<"stop", "homi">> /\ Handback[2] = <<"bind", "nvme">>
<1>1. /\ Handback[1] = <<"stop", "homi">> /\ Handback[2] = <<"bind", "nvme">>
  BY DEF Handback
<1>2. Handback = [i \in 1..2 |-> Handback[i]]
  BY DEF Handback
<1>3. /\ Handback[1] \in Commands /\ Handback[2] \in Commands
  BY <1>1, Literals
<1>4. \A i \in 1..2 : Handback[i] \in Commands
  BY <1>3
<1>5. Handback \in Seq(Commands) /\ Len(Handback) = 2
  BY <1>2, <1>4
<1> QED
  BY <1>1, <1>5

\* smoke_daemons.yaml, command by command.
LEMMA SmokeSteps ==
  /\ Smoke \in Seq(Commands) /\ Len(Smoke) = 25
  /\ Smoke[1] = <<"umount", "try">> /\ Smoke[2] = <<"stop_units", "all">>
  /\ Smoke[3] = <<"qublk_del", "own">> /\ Smoke[4] = <<"rm_shm", "own">>
  /\ Smoke[5] = <<"guard", "own">> /\ Smoke[6] = <<"bind", "user">>
  /\ Smoke[7] = <<"start", "homi">> /\ Smoke[8] = <<"check", "homi">>
  /\ Smoke[9] = <<"start", "qublk">> /\ Smoke[10] = <<"mkfs", "ublk">>
  /\ Smoke[11] = <<"mount", "ublk">> /\ Smoke[12] = <<"fill", "own">>
  /\ Smoke[13] = <<"umount", "own">> /\ Smoke[14] = <<"mount", "ublk">>
  /\ Smoke[15] = <<"conf", "own">> /\ Smoke[16] = <<"start", "xal">>
  /\ Smoke[17] = <<"check", "daemons">> /\ Smoke[18] = <<"check", "ublk">>
  /\ Smoke[19] = <<"check", "direct">> /\ Smoke[20] = <<"stop", "xal">>
  /\ Smoke[21] = <<"umount", "own">> /\ Smoke[22] = <<"check", "no_shm">>
  /\ Smoke[23] = <<"stop", "qublk">> /\ Smoke[24] = <<"stop", "homi">>
  /\ Smoke[25] = <<"bind", "nvme">>
<1> DEFINE a == << <<"rm_shm", "own">>, <<"guard", "own">>, <<"bind", "user">>,
                   <<"start", "homi">>, <<"check", "homi">>, <<"start", "qublk">>,
                   <<"mkfs", "ublk">>, <<"mount", "ublk">>, <<"fill", "own">> >>
           b == << <<"conf", "own">>, <<"start", "xal">>, <<"check", "daemons">>,
                   <<"check", "ublk">>, <<"check", "direct">>, <<"stop", "xal">>,
                   <<"umount", "own">>, <<"check", "no_shm">>, <<"stop", "qublk">> >>
<1>1. Smoke = (((Cleanup \o a) \o Remount) \o b) \o Handback
  BY Zenon DEF Smoke
<1>2. /\ a \in Seq(Commands) /\ Len(a) = 9
      /\ a[1] = <<"rm_shm", "own">> /\ a[2] = <<"guard", "own">> /\ a[3] = <<"bind", "user">>
      /\ a[4] = <<"start", "homi">> /\ a[5] = <<"check", "homi">>
      /\ a[6] = <<"start", "qublk">> /\ a[7] = <<"mkfs", "ublk">>
      /\ a[8] = <<"mount", "ublk">> /\ a[9] = <<"fill", "own">>
  <2>1. /\ a[1] = <<"rm_shm", "own">> /\ a[2] = <<"guard", "own">> /\ a[3] = <<"bind", "user">>
        /\ a[4] = <<"start", "homi">> /\ a[5] = <<"check", "homi">>
        /\ a[6] = <<"start", "qublk">> /\ a[7] = <<"mkfs", "ublk">>
        /\ a[8] = <<"mount", "ublk">> /\ a[9] = <<"fill", "own">>
    OBVIOUS
  <2>2. a = [i \in 1..9 |-> a[i]]
    OBVIOUS
  <2> HIDE DEF a
  <2>3. /\ a[1] \in Commands /\ a[2] \in Commands /\ a[3] \in Commands /\ a[4] \in Commands
        /\ a[5] \in Commands /\ a[6] \in Commands /\ a[7] \in Commands /\ a[8] \in Commands
        /\ a[9] \in Commands
    BY <2>1, Literals
  <2>4. \A i \in 1..9 : a[i] \in Commands
    BY <2>3
  <2>5. a \in Seq(Commands) /\ Len(a) = 9
    BY <2>2, <2>4
  <2> QED
    BY <2>1, <2>5
<1>3. /\ b \in Seq(Commands) /\ Len(b) = 9
      /\ b[1] = <<"conf", "own">> /\ b[2] = <<"start", "xal">> /\ b[3] = <<"check", "daemons">>
      /\ b[4] = <<"check", "ublk">> /\ b[5] = <<"check", "direct">>
      /\ b[6] = <<"stop", "xal">> /\ b[7] = <<"umount", "own">>
      /\ b[8] = <<"check", "no_shm">> /\ b[9] = <<"stop", "qublk">>
  <2>1. /\ b[1] = <<"conf", "own">> /\ b[2] = <<"start", "xal">>
        /\ b[3] = <<"check", "daemons">> /\ b[4] = <<"check", "ublk">>
        /\ b[5] = <<"check", "direct">> /\ b[6] = <<"stop", "xal">>
        /\ b[7] = <<"umount", "own">> /\ b[8] = <<"check", "no_shm">>
        /\ b[9] = <<"stop", "qublk">>
    OBVIOUS
  <2>2. b = [i \in 1..9 |-> b[i]]
    OBVIOUS
  <2> HIDE DEF b
  <2>3. /\ b[1] \in Commands /\ b[2] \in Commands /\ b[3] \in Commands /\ b[4] \in Commands
        /\ b[5] \in Commands /\ b[6] \in Commands /\ b[7] \in Commands /\ b[8] \in Commands
        /\ b[9] \in Commands
    BY <2>1, Literals
  <2>4. \A i \in 1..9 : b[i] \in Commands
    BY <2>3
  <2>5. b \in Seq(Commands) /\ Len(b) = 9
    BY <2>2, <2>4
  <2> QED
    BY <2>1, <2>5
<1> HIDE DEF a, b
<1> DEFINE p1 == Cleanup \o a
<1>4. /\ p1 \in Seq(Commands) /\ Len(p1) = 12
      /\ p1[1] = <<"umount", "try">> /\ p1[2] = <<"stop_units", "all">>
      /\ p1[3] = <<"qublk_del", "own">> /\ p1[4] = <<"rm_shm", "own">>
      /\ p1[5] = <<"guard", "own">> /\ p1[6] = <<"bind", "user">>
      /\ p1[7] = <<"start", "homi">> /\ p1[8] = <<"check", "homi">>
      /\ p1[9] = <<"start", "qublk">> /\ p1[10] = <<"mkfs", "ublk">>
      /\ p1[11] = <<"mount", "ublk">> /\ p1[12] = <<"fill", "own">>
  <2>1. Cleanup \in Seq(Commands) /\ a \in Seq(Commands) /\ Len(Cleanup) = 3 /\ Len(a) = 9
    BY CleanupSteps, <1>2
  <2>2. /\ p1 \in Seq(Commands) /\ Len(p1) = Len(Cleanup) + Len(a)
        /\ \A i \in 1..(Len(Cleanup) + Len(a)) :
             p1[i] = IF i <= Len(Cleanup) THEN Cleanup[i] ELSE a[i - Len(Cleanup)]
    BY <2>1, Concat, Zenon
  <2> HIDE DEF p1
  <2>3. /\ p1[1] = Cleanup[1] /\ p1[2] = Cleanup[2] /\ p1[3] = Cleanup[3] /\ p1[4] = a[1]
        /\ p1[5] = a[2] /\ p1[6] = a[3] /\ p1[7] = a[4] /\ p1[8] = a[5] /\ p1[9] = a[6]
        /\ p1[10] = a[7] /\ p1[11] = a[8] /\ p1[12] = a[9]
    BY <2>1, <2>2
  <2>4. p1 \in Seq(Commands) /\ Len(p1) = 12
    BY <2>1, <2>2
  <2> QED
    BY <2>3, <2>4, CleanupSteps, <1>2
<1> HIDE DEF p1
<1> DEFINE p2 == p1 \o Remount
<1>5. /\ p2 \in Seq(Commands) /\ Len(p2) = 14
      /\ p2[1] = <<"umount", "try">> /\ p2[2] = <<"stop_units", "all">>
      /\ p2[3] = <<"qublk_del", "own">> /\ p2[4] = <<"rm_shm", "own">>
      /\ p2[5] = <<"guard", "own">> /\ p2[6] = <<"bind", "user">>
      /\ p2[7] = <<"start", "homi">> /\ p2[8] = <<"check", "homi">>
      /\ p2[9] = <<"start", "qublk">> /\ p2[10] = <<"mkfs", "ublk">>
      /\ p2[11] = <<"mount", "ublk">> /\ p2[12] = <<"fill", "own">>
      /\ p2[13] = <<"umount", "own">> /\ p2[14] = <<"mount", "ublk">>
  <2>1. p1 \in Seq(Commands) /\ Remount \in Seq(Commands) /\ Len(p1) = 12 /\ Len(Remount) = 2
    BY <1>4, RemountSteps
  <2>2. /\ p2 \in Seq(Commands) /\ Len(p2) = Len(p1) + Len(Remount)
        /\ \A i \in 1..(Len(p1) + Len(Remount)) :
             p2[i] = IF i <= Len(p1) THEN p1[i] ELSE Remount[i - Len(p1)]
    BY <2>1, Concat, Zenon
  <2> HIDE DEF p2
  <2>3. /\ p2[1] = p1[1] /\ p2[2] = p1[2] /\ p2[3] = p1[3] /\ p2[4] = p1[4] /\ p2[5] = p1[5]
        /\ p2[6] = p1[6] /\ p2[7] = p1[7] /\ p2[8] = p1[8] /\ p2[9] = p1[9]
        /\ p2[10] = p1[10] /\ p2[11] = p1[11] /\ p2[12] = p1[12] /\ p2[13] = Remount[1]
        /\ p2[14] = Remount[2]
    BY <2>1, <2>2
  <2>4. p2 \in Seq(Commands) /\ Len(p2) = 14
    BY <2>1, <2>2
  <2> QED
    BY <2>3, <2>4, <1>4, RemountSteps
<1> HIDE DEF p2
<1> DEFINE p3 == p2 \o b
<1>6. /\ p3 \in Seq(Commands) /\ Len(p3) = 23
      /\ p3[1] = <<"umount", "try">> /\ p3[2] = <<"stop_units", "all">>
      /\ p3[3] = <<"qublk_del", "own">> /\ p3[4] = <<"rm_shm", "own">>
      /\ p3[5] = <<"guard", "own">> /\ p3[6] = <<"bind", "user">>
      /\ p3[7] = <<"start", "homi">> /\ p3[8] = <<"check", "homi">>
      /\ p3[9] = <<"start", "qublk">> /\ p3[10] = <<"mkfs", "ublk">>
      /\ p3[11] = <<"mount", "ublk">> /\ p3[12] = <<"fill", "own">>
      /\ p3[13] = <<"umount", "own">> /\ p3[14] = <<"mount", "ublk">>
      /\ p3[15] = <<"conf", "own">> /\ p3[16] = <<"start", "xal">>
      /\ p3[17] = <<"check", "daemons">> /\ p3[18] = <<"check", "ublk">>
      /\ p3[19] = <<"check", "direct">> /\ p3[20] = <<"stop", "xal">>
      /\ p3[21] = <<"umount", "own">> /\ p3[22] = <<"check", "no_shm">>
      /\ p3[23] = <<"stop", "qublk">>
  <2>1. p2 \in Seq(Commands) /\ b \in Seq(Commands) /\ Len(p2) = 14 /\ Len(b) = 9
    BY <1>5, <1>3
  <2>2. /\ p3 \in Seq(Commands) /\ Len(p3) = Len(p2) + Len(b)
        /\ \A i \in 1..(Len(p2) + Len(b)) :
             p3[i] = IF i <= Len(p2) THEN p2[i] ELSE b[i - Len(p2)]
    BY <2>1, Concat, Zenon
  <2> HIDE DEF p3
  <2>3. /\ p3[1] = p2[1] /\ p3[2] = p2[2] /\ p3[3] = p2[3] /\ p3[4] = p2[4] /\ p3[5] = p2[5]
        /\ p3[6] = p2[6] /\ p3[7] = p2[7] /\ p3[8] = p2[8] /\ p3[9] = p2[9]
        /\ p3[10] = p2[10] /\ p3[11] = p2[11] /\ p3[12] = p2[12] /\ p3[13] = p2[13]
        /\ p3[14] = p2[14] /\ p3[15] = b[1] /\ p3[16] = b[2] /\ p3[17] = b[3]
        /\ p3[18] = b[4] /\ p3[19] = b[5] /\ p3[20] = b[6] /\ p3[21] = b[7] /\ p3[22] = b[8]
        /\ p3[23] = b[9]
    BY <2>1, <2>2
  <2>4. p3 \in Seq(Commands) /\ Len(p3) = 23
    BY <2>1, <2>2
  <2> QED
    BY <2>3, <2>4, <1>5, <1>3
<1> HIDE DEF p3
<1> DEFINE p4 == p3 \o Handback
<1>7. /\ p4 \in Seq(Commands) /\ Len(p4) = 25
      /\ p4[1] = <<"umount", "try">> /\ p4[2] = <<"stop_units", "all">>
      /\ p4[3] = <<"qublk_del", "own">> /\ p4[4] = <<"rm_shm", "own">>
      /\ p4[5] = <<"guard", "own">> /\ p4[6] = <<"bind", "user">>
      /\ p4[7] = <<"start", "homi">> /\ p4[8] = <<"check", "homi">>
      /\ p4[9] = <<"start", "qublk">> /\ p4[10] = <<"mkfs", "ublk">>
      /\ p4[11] = <<"mount", "ublk">> /\ p4[12] = <<"fill", "own">>
      /\ p4[13] = <<"umount", "own">> /\ p4[14] = <<"mount", "ublk">>
      /\ p4[15] = <<"conf", "own">> /\ p4[16] = <<"start", "xal">>
      /\ p4[17] = <<"check", "daemons">> /\ p4[18] = <<"check", "ublk">>
      /\ p4[19] = <<"check", "direct">> /\ p4[20] = <<"stop", "xal">>
      /\ p4[21] = <<"umount", "own">> /\ p4[22] = <<"check", "no_shm">>
      /\ p4[23] = <<"stop", "qublk">> /\ p4[24] = <<"stop", "homi">>
      /\ p4[25] = <<"bind", "nvme">>
  <2>1. p3 \in Seq(Commands) /\ Handback \in Seq(Commands) /\ Len(p3) = 23 /\ Len(Handback) = 2
    BY <1>6, HandbackSteps
  <2>2. /\ p4 \in Seq(Commands) /\ Len(p4) = Len(p3) + Len(Handback)
        /\ \A i \in 1..(Len(p3) + Len(Handback)) :
             p4[i] = IF i <= Len(p3) THEN p3[i] ELSE Handback[i - Len(p3)]
    BY <2>1, Concat, Zenon
  <2> HIDE DEF p4
  <2>3. /\ p4[1] = p3[1] /\ p4[2] = p3[2] /\ p4[3] = p3[3] /\ p4[4] = p3[4] /\ p4[5] = p3[5]
        /\ p4[6] = p3[6] /\ p4[7] = p3[7] /\ p4[8] = p3[8] /\ p4[9] = p3[9]
        /\ p4[10] = p3[10] /\ p4[11] = p3[11] /\ p4[12] = p3[12] /\ p4[13] = p3[13]
        /\ p4[14] = p3[14] /\ p4[15] = p3[15] /\ p4[16] = p3[16] /\ p4[17] = p3[17]
        /\ p4[18] = p3[18] /\ p4[19] = p3[19] /\ p4[20] = p3[20] /\ p4[21] = p3[21]
        /\ p4[22] = p3[22] /\ p4[23] = p3[23] /\ p4[24] = Handback[1]
        /\ p4[25] = Handback[2]
    BY <2>1, <2>2
  <2>4. p4 \in Seq(Commands) /\ Len(p4) = 25
    BY <2>1, <2>2
  <2> QED
    BY <2>3, <2>4, <1>6, HandbackSteps
<1> HIDE DEF p4
<1>8. Smoke = p4
  BY <1>1, Zenon DEF p1, p2, p3, p4
<1> QED
  BY <1>7, <1>8, Zenon

\* smoke_p2p.yaml, command by command.
LEMMA P2pSteps ==
  /\ P2p \in Seq(Commands) /\ Len(P2p) = 12
  /\ P2p[1] = <<"guard", "none">> /\ P2p[2] = <<"umount", "try">>
  /\ P2p[3] = <<"stop_units", "all">> /\ P2p[4] = <<"qublk_del", "own">>
  /\ P2p[5] = <<"bind", "user">> /\ P2p[6] = <<"start", "homi">>
  /\ P2p[7] = <<"check", "homi">> /\ P2p[8] = <<"write", "homi">>
  /\ P2p[9] = <<"stop", "homi">> /\ P2p[10] = <<"bind", "nvme">>
  /\ P2p[11] = <<"check", "bdev">> /\ P2p[12] = <<"write", "bdev">>
<1> DEFINE a == << <<"guard", "none">> >>
           b == << <<"bind", "user">>, <<"start", "homi">>, <<"check", "homi">>,
                   <<"write", "homi">> >>
           c == << <<"check", "bdev">>, <<"write", "bdev">> >>
<1>1. P2p = (((a \o Cleanup) \o b) \o Handback) \o c
  BY Zenon DEF P2p
<1>2. /\ a \in Seq(Commands) /\ Len(a) = 1
      /\ a[1] = <<"guard", "none">>
  <2>1. /\ a[1] = <<"guard", "none">>
    OBVIOUS
  <2>2. a = [i \in 1..1 |-> a[i]]
    OBVIOUS
  <2> HIDE DEF a
  <2>3. /\ a[1] \in Commands
    BY <2>1, Literals
  <2>4. \A i \in 1..1 : a[i] \in Commands
    BY <2>3
  <2>5. a \in Seq(Commands) /\ Len(a) = 1
    BY <2>2, <2>4
  <2> QED
    BY <2>1, <2>5
<1>3. /\ b \in Seq(Commands) /\ Len(b) = 4
      /\ b[1] = <<"bind", "user">> /\ b[2] = <<"start", "homi">>
      /\ b[3] = <<"check", "homi">> /\ b[4] = <<"write", "homi">>
  <2>1. /\ b[1] = <<"bind", "user">> /\ b[2] = <<"start", "homi">>
        /\ b[3] = <<"check", "homi">> /\ b[4] = <<"write", "homi">>
    OBVIOUS
  <2>2. b = [i \in 1..4 |-> b[i]]
    OBVIOUS
  <2> HIDE DEF b
  <2>3. /\ b[1] \in Commands /\ b[2] \in Commands /\ b[3] \in Commands /\ b[4] \in Commands
    BY <2>1, Literals
  <2>4. \A i \in 1..4 : b[i] \in Commands
    BY <2>3
  <2>5. b \in Seq(Commands) /\ Len(b) = 4
    BY <2>2, <2>4
  <2> QED
    BY <2>1, <2>5
<1>4. /\ c \in Seq(Commands) /\ Len(c) = 2
      /\ c[1] = <<"check", "bdev">> /\ c[2] = <<"write", "bdev">>
  <2>1. /\ c[1] = <<"check", "bdev">> /\ c[2] = <<"write", "bdev">>
    OBVIOUS
  <2>2. c = [i \in 1..2 |-> c[i]]
    OBVIOUS
  <2> HIDE DEF c
  <2>3. /\ c[1] \in Commands /\ c[2] \in Commands
    BY <2>1, Literals
  <2>4. \A i \in 1..2 : c[i] \in Commands
    BY <2>3
  <2>5. c \in Seq(Commands) /\ Len(c) = 2
    BY <2>2, <2>4
  <2> QED
    BY <2>1, <2>5
<1> HIDE DEF a, b, c
<1> DEFINE p1 == a \o Cleanup
<1>5. /\ p1 \in Seq(Commands) /\ Len(p1) = 4
      /\ p1[1] = <<"guard", "none">> /\ p1[2] = <<"umount", "try">>
      /\ p1[3] = <<"stop_units", "all">> /\ p1[4] = <<"qublk_del", "own">>
  <2>1. a \in Seq(Commands) /\ Cleanup \in Seq(Commands) /\ Len(a) = 1 /\ Len(Cleanup) = 3
    BY <1>2, CleanupSteps
  <2>2. /\ p1 \in Seq(Commands) /\ Len(p1) = Len(a) + Len(Cleanup)
        /\ \A i \in 1..(Len(a) + Len(Cleanup)) :
             p1[i] = IF i <= Len(a) THEN a[i] ELSE Cleanup[i - Len(a)]
    BY <2>1, Concat, Zenon
  <2> HIDE DEF p1
  <2>3. /\ p1[1] = a[1] /\ p1[2] = Cleanup[1] /\ p1[3] = Cleanup[2] /\ p1[4] = Cleanup[3]
    BY <2>1, <2>2
  <2>4. p1 \in Seq(Commands) /\ Len(p1) = 4
    BY <2>1, <2>2
  <2> QED
    BY <2>3, <2>4, <1>2, CleanupSteps
<1> HIDE DEF p1
<1> DEFINE p2 == p1 \o b
<1>6. /\ p2 \in Seq(Commands) /\ Len(p2) = 8
      /\ p2[1] = <<"guard", "none">> /\ p2[2] = <<"umount", "try">>
      /\ p2[3] = <<"stop_units", "all">> /\ p2[4] = <<"qublk_del", "own">>
      /\ p2[5] = <<"bind", "user">> /\ p2[6] = <<"start", "homi">>
      /\ p2[7] = <<"check", "homi">> /\ p2[8] = <<"write", "homi">>
  <2>1. p1 \in Seq(Commands) /\ b \in Seq(Commands) /\ Len(p1) = 4 /\ Len(b) = 4
    BY <1>5, <1>3
  <2>2. /\ p2 \in Seq(Commands) /\ Len(p2) = Len(p1) + Len(b)
        /\ \A i \in 1..(Len(p1) + Len(b)) :
             p2[i] = IF i <= Len(p1) THEN p1[i] ELSE b[i - Len(p1)]
    BY <2>1, Concat, Zenon
  <2> HIDE DEF p2
  <2>3. /\ p2[1] = p1[1] /\ p2[2] = p1[2] /\ p2[3] = p1[3] /\ p2[4] = p1[4] /\ p2[5] = b[1]
        /\ p2[6] = b[2] /\ p2[7] = b[3] /\ p2[8] = b[4]
    BY <2>1, <2>2
  <2>4. p2 \in Seq(Commands) /\ Len(p2) = 8
    BY <2>1, <2>2
  <2> QED
    BY <2>3, <2>4, <1>5, <1>3
<1> HIDE DEF p2
<1> DEFINE p3 == p2 \o Handback
<1>7. /\ p3 \in Seq(Commands) /\ Len(p3) = 10
      /\ p3[1] = <<"guard", "none">> /\ p3[2] = <<"umount", "try">>
      /\ p3[3] = <<"stop_units", "all">> /\ p3[4] = <<"qublk_del", "own">>
      /\ p3[5] = <<"bind", "user">> /\ p3[6] = <<"start", "homi">>
      /\ p3[7] = <<"check", "homi">> /\ p3[8] = <<"write", "homi">>
      /\ p3[9] = <<"stop", "homi">> /\ p3[10] = <<"bind", "nvme">>
  <2>1. p2 \in Seq(Commands) /\ Handback \in Seq(Commands) /\ Len(p2) = 8 /\ Len(Handback) = 2
    BY <1>6, HandbackSteps
  <2>2. /\ p3 \in Seq(Commands) /\ Len(p3) = Len(p2) + Len(Handback)
        /\ \A i \in 1..(Len(p2) + Len(Handback)) :
             p3[i] = IF i <= Len(p2) THEN p2[i] ELSE Handback[i - Len(p2)]
    BY <2>1, Concat, Zenon
  <2> HIDE DEF p3
  <2>3. /\ p3[1] = p2[1] /\ p3[2] = p2[2] /\ p3[3] = p2[3] /\ p3[4] = p2[4] /\ p3[5] = p2[5]
        /\ p3[6] = p2[6] /\ p3[7] = p2[7] /\ p3[8] = p2[8] /\ p3[9] = Handback[1]
        /\ p3[10] = Handback[2]
    BY <2>1, <2>2
  <2>4. p3 \in Seq(Commands) /\ Len(p3) = 10
    BY <2>1, <2>2
  <2> QED
    BY <2>3, <2>4, <1>6, HandbackSteps
<1> HIDE DEF p3
<1> DEFINE p4 == p3 \o c
<1>8. /\ p4 \in Seq(Commands) /\ Len(p4) = 12
      /\ p4[1] = <<"guard", "none">> /\ p4[2] = <<"umount", "try">>
      /\ p4[3] = <<"stop_units", "all">> /\ p4[4] = <<"qublk_del", "own">>
      /\ p4[5] = <<"bind", "user">> /\ p4[6] = <<"start", "homi">>
      /\ p4[7] = <<"check", "homi">> /\ p4[8] = <<"write", "homi">>
      /\ p4[9] = <<"stop", "homi">> /\ p4[10] = <<"bind", "nvme">>
      /\ p4[11] = <<"check", "bdev">> /\ p4[12] = <<"write", "bdev">>
  <2>1. p3 \in Seq(Commands) /\ c \in Seq(Commands) /\ Len(p3) = 10 /\ Len(c) = 2
    BY <1>7, <1>4
  <2>2. /\ p4 \in Seq(Commands) /\ Len(p4) = Len(p3) + Len(c)
        /\ \A i \in 1..(Len(p3) + Len(c)) :
             p4[i] = IF i <= Len(p3) THEN p3[i] ELSE c[i - Len(p3)]
    BY <2>1, Concat, Zenon
  <2> HIDE DEF p4
  <2>3. /\ p4[1] = p3[1] /\ p4[2] = p3[2] /\ p4[3] = p3[3] /\ p4[4] = p3[4] /\ p4[5] = p3[5]
        /\ p4[6] = p3[6] /\ p4[7] = p3[7] /\ p4[8] = p3[8] /\ p4[9] = p3[9]
        /\ p4[10] = p3[10] /\ p4[11] = c[1] /\ p4[12] = c[2]
    BY <2>1, <2>2
  <2>4. p4 \in Seq(Commands) /\ Len(p4) = 12
    BY <2>1, <2>2
  <2> QED
    BY <2>3, <2>4, <1>7, <1>4
<1> HIDE DEF p4
<1>9. P2p = p4
  BY <1>1, Zenon DEF p1, p2, p3, p4
<1> QED
  BY <1>8, <1>9, Zenon

\* bench_llama_load.yaml, command by command.
LEMMA LlamaSteps ==
  /\ Llama \in Seq(Commands) /\ Len(Llama) = 26
  /\ Llama[1] = <<"umount", "try">> /\ Llama[2] = <<"stop_units", "all">>
  /\ Llama[3] = <<"qublk_del", "own">> /\ Llama[4] = <<"rm_shm", "own">>
  /\ Llama[5] = <<"guard", "own">> /\ Llama[6] = <<"bind", "nvme">>
  /\ Llama[7] = <<"check", "bdev">> /\ Llama[8] = <<"guard", "usable">>
  /\ Llama[9] = <<"umount", "try">> /\ Llama[10] = <<"mkfs", "nvme">>
  /\ Llama[11] = <<"mount", "nvme">> /\ Llama[12] = <<"fill", "own">>
  /\ Llama[13] = <<"load", "own">> /\ Llama[14] = <<"umount", "own">>
  /\ Llama[15] = <<"bind", "user">> /\ Llama[16] = <<"conf", "own">>
  /\ Llama[17] = <<"start", "homi">> /\ Llama[18] = <<"start", "qublk">>
  /\ Llama[19] = <<"mount", "ublk">> /\ Llama[20] = <<"start", "xal">>
  /\ Llama[21] = <<"load", "opends">> /\ Llama[22] = <<"stop", "xal">>
  /\ Llama[23] = <<"umount", "own">> /\ Llama[24] = <<"stop", "qublk">>
  /\ Llama[25] = <<"stop", "homi">> /\ Llama[26] = <<"bind", "nvme">>
<1> DEFINE a == << <<"rm_shm", "own">>, <<"guard", "own">>, <<"bind", "nvme">>,
                   <<"check", "bdev">>, <<"guard", "usable">>, <<"umount", "try">>,
                   <<"mkfs", "nvme">>, <<"mount", "nvme">>, <<"fill", "own">>,
                   <<"load", "own">>, <<"umount", "own">>, <<"bind", "user">>,
                   <<"conf", "own">>, <<"start", "homi">>, <<"start", "qublk">>,
                   <<"mount", "ublk">>, <<"start", "xal">>, <<"load", "opends">>,
                   <<"stop", "xal">>, <<"umount", "own">>, <<"stop", "qublk">> >>
<1>1. Llama = (Cleanup \o a) \o Handback
  BY Zenon DEF Llama
<1>2. /\ a \in Seq(Commands) /\ Len(a) = 21
      /\ a[1] = <<"rm_shm", "own">> /\ a[2] = <<"guard", "own">> /\ a[3] = <<"bind", "nvme">>
      /\ a[4] = <<"check", "bdev">> /\ a[5] = <<"guard", "usable">>
      /\ a[6] = <<"umount", "try">> /\ a[7] = <<"mkfs", "nvme">>
      /\ a[8] = <<"mount", "nvme">> /\ a[9] = <<"fill", "own">> /\ a[10] = <<"load", "own">>
      /\ a[11] = <<"umount", "own">> /\ a[12] = <<"bind", "user">> /\ a[13] = <<"conf", "own">>
      /\ a[14] = <<"start", "homi">> /\ a[15] = <<"start", "qublk">>
      /\ a[16] = <<"mount", "ublk">> /\ a[17] = <<"start", "xal">>
      /\ a[18] = <<"load", "opends">> /\ a[19] = <<"stop", "xal">>
      /\ a[20] = <<"umount", "own">> /\ a[21] = <<"stop", "qublk">>
  <2>1. /\ a[1] = <<"rm_shm", "own">> /\ a[2] = <<"guard", "own">> /\ a[3] = <<"bind", "nvme">>
        /\ a[4] = <<"check", "bdev">> /\ a[5] = <<"guard", "usable">>
        /\ a[6] = <<"umount", "try">> /\ a[7] = <<"mkfs", "nvme">>
        /\ a[8] = <<"mount", "nvme">> /\ a[9] = <<"fill", "own">> /\ a[10] = <<"load", "own">>
        /\ a[11] = <<"umount", "own">> /\ a[12] = <<"bind", "user">>
        /\ a[13] = <<"conf", "own">> /\ a[14] = <<"start", "homi">>
        /\ a[15] = <<"start", "qublk">> /\ a[16] = <<"mount", "ublk">>
        /\ a[17] = <<"start", "xal">> /\ a[18] = <<"load", "opends">>
        /\ a[19] = <<"stop", "xal">> /\ a[20] = <<"umount", "own">>
        /\ a[21] = <<"stop", "qublk">>
    OBVIOUS
  <2>2. a = [i \in 1..21 |-> a[i]]
    OBVIOUS
  <2> HIDE DEF a
  <2>3. /\ a[1] \in Commands /\ a[2] \in Commands /\ a[3] \in Commands /\ a[4] \in Commands
        /\ a[5] \in Commands /\ a[6] \in Commands /\ a[7] \in Commands /\ a[8] \in Commands
        /\ a[9] \in Commands /\ a[10] \in Commands /\ a[11] \in Commands
        /\ a[12] \in Commands /\ a[13] \in Commands /\ a[14] \in Commands
        /\ a[15] \in Commands /\ a[16] \in Commands /\ a[17] \in Commands
        /\ a[18] \in Commands /\ a[19] \in Commands /\ a[20] \in Commands
        /\ a[21] \in Commands
    BY <2>1, Literals
  <2>4. \A i \in 1..21 : a[i] \in Commands
    BY <2>3
  <2>5. a \in Seq(Commands) /\ Len(a) = 21
    BY <2>2, <2>4
  <2> QED
    BY <2>1, <2>5
<1> HIDE DEF a
<1> DEFINE p1 == Cleanup \o a
<1>3. /\ p1 \in Seq(Commands) /\ Len(p1) = 24
      /\ p1[1] = <<"umount", "try">> /\ p1[2] = <<"stop_units", "all">>
      /\ p1[3] = <<"qublk_del", "own">> /\ p1[4] = <<"rm_shm", "own">>
      /\ p1[5] = <<"guard", "own">> /\ p1[6] = <<"bind", "nvme">>
      /\ p1[7] = <<"check", "bdev">> /\ p1[8] = <<"guard", "usable">>
      /\ p1[9] = <<"umount", "try">> /\ p1[10] = <<"mkfs", "nvme">>
      /\ p1[11] = <<"mount", "nvme">> /\ p1[12] = <<"fill", "own">>
      /\ p1[13] = <<"load", "own">> /\ p1[14] = <<"umount", "own">>
      /\ p1[15] = <<"bind", "user">> /\ p1[16] = <<"conf", "own">>
      /\ p1[17] = <<"start", "homi">> /\ p1[18] = <<"start", "qublk">>
      /\ p1[19] = <<"mount", "ublk">> /\ p1[20] = <<"start", "xal">>
      /\ p1[21] = <<"load", "opends">> /\ p1[22] = <<"stop", "xal">>
      /\ p1[23] = <<"umount", "own">> /\ p1[24] = <<"stop", "qublk">>
  <2>1. Cleanup \in Seq(Commands) /\ a \in Seq(Commands) /\ Len(Cleanup) = 3 /\ Len(a) = 21
    BY CleanupSteps, <1>2
  <2>2. /\ p1 \in Seq(Commands) /\ Len(p1) = Len(Cleanup) + Len(a)
        /\ \A i \in 1..(Len(Cleanup) + Len(a)) :
             p1[i] = IF i <= Len(Cleanup) THEN Cleanup[i] ELSE a[i - Len(Cleanup)]
    BY <2>1, Concat, Zenon
  <2> HIDE DEF p1
  <2>3. /\ p1[1] = Cleanup[1] /\ p1[2] = Cleanup[2] /\ p1[3] = Cleanup[3] /\ p1[4] = a[1]
        /\ p1[5] = a[2] /\ p1[6] = a[3] /\ p1[7] = a[4] /\ p1[8] = a[5] /\ p1[9] = a[6]
        /\ p1[10] = a[7] /\ p1[11] = a[8] /\ p1[12] = a[9] /\ p1[13] = a[10]
        /\ p1[14] = a[11] /\ p1[15] = a[12] /\ p1[16] = a[13] /\ p1[17] = a[14]
        /\ p1[18] = a[15] /\ p1[19] = a[16] /\ p1[20] = a[17] /\ p1[21] = a[18]
        /\ p1[22] = a[19] /\ p1[23] = a[20] /\ p1[24] = a[21]
    BY <2>1, <2>2
  <2>4. p1 \in Seq(Commands) /\ Len(p1) = 24
    BY <2>1, <2>2
  <2> QED
    BY <2>3, <2>4, CleanupSteps, <1>2
<1> HIDE DEF p1
<1> DEFINE p2 == p1 \o Handback
<1>4. /\ p2 \in Seq(Commands) /\ Len(p2) = 26
      /\ p2[1] = <<"umount", "try">> /\ p2[2] = <<"stop_units", "all">>
      /\ p2[3] = <<"qublk_del", "own">> /\ p2[4] = <<"rm_shm", "own">>
      /\ p2[5] = <<"guard", "own">> /\ p2[6] = <<"bind", "nvme">>
      /\ p2[7] = <<"check", "bdev">> /\ p2[8] = <<"guard", "usable">>
      /\ p2[9] = <<"umount", "try">> /\ p2[10] = <<"mkfs", "nvme">>
      /\ p2[11] = <<"mount", "nvme">> /\ p2[12] = <<"fill", "own">>
      /\ p2[13] = <<"load", "own">> /\ p2[14] = <<"umount", "own">>
      /\ p2[15] = <<"bind", "user">> /\ p2[16] = <<"conf", "own">>
      /\ p2[17] = <<"start", "homi">> /\ p2[18] = <<"start", "qublk">>
      /\ p2[19] = <<"mount", "ublk">> /\ p2[20] = <<"start", "xal">>
      /\ p2[21] = <<"load", "opends">> /\ p2[22] = <<"stop", "xal">>
      /\ p2[23] = <<"umount", "own">> /\ p2[24] = <<"stop", "qublk">>
      /\ p2[25] = <<"stop", "homi">> /\ p2[26] = <<"bind", "nvme">>
  <2>1. p1 \in Seq(Commands) /\ Handback \in Seq(Commands) /\ Len(p1) = 24 /\ Len(Handback) = 2
    BY <1>3, HandbackSteps
  <2>2. /\ p2 \in Seq(Commands) /\ Len(p2) = Len(p1) + Len(Handback)
        /\ \A i \in 1..(Len(p1) + Len(Handback)) :
             p2[i] = IF i <= Len(p1) THEN p1[i] ELSE Handback[i - Len(p1)]
    BY <2>1, Concat, Zenon
  <2> HIDE DEF p2
  <2>3. /\ p2[1] = p1[1] /\ p2[2] = p1[2] /\ p2[3] = p1[3] /\ p2[4] = p1[4] /\ p2[5] = p1[5]
        /\ p2[6] = p1[6] /\ p2[7] = p1[7] /\ p2[8] = p1[8] /\ p2[9] = p1[9]
        /\ p2[10] = p1[10] /\ p2[11] = p1[11] /\ p2[12] = p1[12] /\ p2[13] = p1[13]
        /\ p2[14] = p1[14] /\ p2[15] = p1[15] /\ p2[16] = p1[16] /\ p2[17] = p1[17]
        /\ p2[18] = p1[18] /\ p2[19] = p1[19] /\ p2[20] = p1[20] /\ p2[21] = p1[21]
        /\ p2[22] = p1[22] /\ p2[23] = p1[23] /\ p2[24] = p1[24] /\ p2[25] = Handback[1]
        /\ p2[26] = Handback[2]
    BY <2>1, <2>2
  <2>4. p2 \in Seq(Commands) /\ Len(p2) = 26
    BY <2>1, <2>2
  <2> QED
    BY <2>3, <2>4, <1>3, HandbackSteps
<1> HIDE DEF p2
<1>5. Llama = p2
  BY <1>1, Zenon DEF p1, p2
<1> QED
  BY <1>4, <1>5, Zenon

\* setup_dataset.yaml, command by command.
LEMMA DatasetSteps ==
  /\ Dataset \in Seq(Commands) /\ Len(Dataset) = 6
  /\ Dataset[1] = <<"guard", "own">> /\ Dataset[2] = <<"check", "bdev">>
  /\ Dataset[3] = <<"umount", "try">> /\ Dataset[4] = <<"mkfs", "nvme">>
  /\ Dataset[5] = <<"mount", "nvme">> /\ Dataset[6] = <<"fill", "own">>
<1>1. /\ Dataset[1] = <<"guard", "own">> /\ Dataset[2] = <<"check", "bdev">>
      /\ Dataset[3] = <<"umount", "try">> /\ Dataset[4] = <<"mkfs", "nvme">>
      /\ Dataset[5] = <<"mount", "nvme">> /\ Dataset[6] = <<"fill", "own">>
  BY DEF Dataset
<1>2. Dataset = [i \in 1..6 |-> Dataset[i]]
  BY DEF Dataset
<1>3. /\ Dataset[1] \in Commands /\ Dataset[2] \in Commands /\ Dataset[3] \in Commands
      /\ Dataset[4] \in Commands /\ Dataset[5] \in Commands /\ Dataset[6] \in Commands
  BY <1>1, Literals
<1>4. \A i \in 1..6 : Dataset[i] \in Commands
  BY <1>3
<1>5. Dataset \in Seq(Commands) /\ Len(Dataset) = 6
  BY <1>2, <1>4
<1> QED
  BY <1>1, <1>5

\* configure_daemons.yaml, command by command.
LEMMA ConfigureSteps ==
  /\ Configure \in Seq(Commands) /\ Len(Configure) = 7
  /\ Configure[1] = <<"guard", "own">> /\ Configure[2] = <<"umount", "try">>
  /\ Configure[3] = <<"stop_units", "all">> /\ Configure[4] = <<"qublk_del", "own">>
  /\ Configure[5] = <<"rm_shm", "own">> /\ Configure[6] = <<"bind", "user">>
  /\ Configure[7] = <<"conf", "own">>
<1> DEFINE a == << <<"guard", "own">> >>
           b == << <<"rm_shm", "own">>, <<"bind", "user">>, <<"conf", "own">> >>
<1>1. Configure = (a \o Cleanup) \o b
  BY Zenon DEF Configure
<1>2. /\ a \in Seq(Commands) /\ Len(a) = 1
      /\ a[1] = <<"guard", "own">>
  <2>1. /\ a[1] = <<"guard", "own">>
    OBVIOUS
  <2>2. a = [i \in 1..1 |-> a[i]]
    OBVIOUS
  <2> HIDE DEF a
  <2>3. /\ a[1] \in Commands
    BY <2>1, Literals
  <2>4. \A i \in 1..1 : a[i] \in Commands
    BY <2>3
  <2>5. a \in Seq(Commands) /\ Len(a) = 1
    BY <2>2, <2>4
  <2> QED
    BY <2>1, <2>5
<1>3. /\ b \in Seq(Commands) /\ Len(b) = 3
      /\ b[1] = <<"rm_shm", "own">> /\ b[2] = <<"bind", "user">> /\ b[3] = <<"conf", "own">>
  <2>1. /\ b[1] = <<"rm_shm", "own">> /\ b[2] = <<"bind", "user">> /\ b[3] = <<"conf", "own">>
    OBVIOUS
  <2>2. b = [i \in 1..3 |-> b[i]]
    OBVIOUS
  <2> HIDE DEF b
  <2>3. /\ b[1] \in Commands /\ b[2] \in Commands /\ b[3] \in Commands
    BY <2>1, Literals
  <2>4. \A i \in 1..3 : b[i] \in Commands
    BY <2>3
  <2>5. b \in Seq(Commands) /\ Len(b) = 3
    BY <2>2, <2>4
  <2> QED
    BY <2>1, <2>5
<1> HIDE DEF a, b
<1> DEFINE p1 == a \o Cleanup
<1>4. /\ p1 \in Seq(Commands) /\ Len(p1) = 4
      /\ p1[1] = <<"guard", "own">> /\ p1[2] = <<"umount", "try">>
      /\ p1[3] = <<"stop_units", "all">> /\ p1[4] = <<"qublk_del", "own">>
  <2>1. a \in Seq(Commands) /\ Cleanup \in Seq(Commands) /\ Len(a) = 1 /\ Len(Cleanup) = 3
    BY <1>2, CleanupSteps
  <2>2. /\ p1 \in Seq(Commands) /\ Len(p1) = Len(a) + Len(Cleanup)
        /\ \A i \in 1..(Len(a) + Len(Cleanup)) :
             p1[i] = IF i <= Len(a) THEN a[i] ELSE Cleanup[i - Len(a)]
    BY <2>1, Concat, Zenon
  <2> HIDE DEF p1
  <2>3. /\ p1[1] = a[1] /\ p1[2] = Cleanup[1] /\ p1[3] = Cleanup[2] /\ p1[4] = Cleanup[3]
    BY <2>1, <2>2
  <2>4. p1 \in Seq(Commands) /\ Len(p1) = 4
    BY <2>1, <2>2
  <2> QED
    BY <2>3, <2>4, <1>2, CleanupSteps
<1> HIDE DEF p1
<1> DEFINE p2 == p1 \o b
<1>5. /\ p2 \in Seq(Commands) /\ Len(p2) = 7
      /\ p2[1] = <<"guard", "own">> /\ p2[2] = <<"umount", "try">>
      /\ p2[3] = <<"stop_units", "all">> /\ p2[4] = <<"qublk_del", "own">>
      /\ p2[5] = <<"rm_shm", "own">> /\ p2[6] = <<"bind", "user">> /\ p2[7] = <<"conf", "own">>
  <2>1. p1 \in Seq(Commands) /\ b \in Seq(Commands) /\ Len(p1) = 4 /\ Len(b) = 3
    BY <1>4, <1>3
  <2>2. /\ p2 \in Seq(Commands) /\ Len(p2) = Len(p1) + Len(b)
        /\ \A i \in 1..(Len(p1) + Len(b)) :
             p2[i] = IF i <= Len(p1) THEN p1[i] ELSE b[i - Len(p1)]
    BY <2>1, Concat, Zenon
  <2> HIDE DEF p2
  <2>3. /\ p2[1] = p1[1] /\ p2[2] = p1[2] /\ p2[3] = p1[3] /\ p2[4] = p1[4] /\ p2[5] = b[1]
        /\ p2[6] = b[2] /\ p2[7] = b[3]
    BY <2>1, <2>2
  <2>4. p2 \in Seq(Commands) /\ Len(p2) = 7
    BY <2>1, <2>2
  <2> QED
    BY <2>3, <2>4, <1>4, <1>3
<1> HIDE DEF p2
<1>6. Configure = p2
  BY <1>1, Zenon DEF p1, p2
<1> QED
  BY <1>5, <1>6, Zenon

\* bench_aisio.yaml, command by command.
LEMMA AisioSteps ==
  /\ Aisio \in Seq(Commands) /\ Len(Aisio) = 10
  /\ Aisio[1] = <<"start", "homi">> /\ Aisio[2] = <<"start", "qublk">>
  /\ Aisio[3] = <<"mount", "ublk">> /\ Aisio[4] = <<"start", "xal">>
  /\ Aisio[5] = <<"check", "homi">> /\ Aisio[6] = <<"check", "direct">>
  /\ Aisio[7] = <<"systemctl_stop", "xal">> /\ Aisio[8] = <<"umount", "own">>
  /\ Aisio[9] = <<"systemctl_stop", "qublk">> /\ Aisio[10] = <<"systemctl_stop", "homi">>
<1>1. /\ Aisio[1] = <<"start", "homi">> /\ Aisio[2] = <<"start", "qublk">>
      /\ Aisio[3] = <<"mount", "ublk">> /\ Aisio[4] = <<"start", "xal">>
      /\ Aisio[5] = <<"check", "homi">> /\ Aisio[6] = <<"check", "direct">>
      /\ Aisio[7] = <<"systemctl_stop", "xal">> /\ Aisio[8] = <<"umount", "own">>
      /\ Aisio[9] = <<"systemctl_stop", "qublk">>
      /\ Aisio[10] = <<"systemctl_stop", "homi">>
  BY DEF Aisio
<1>2. Aisio = [i \in 1..10 |-> Aisio[i]]
  BY DEF Aisio
<1>3. /\ Aisio[1] \in Commands /\ Aisio[2] \in Commands /\ Aisio[3] \in Commands
      /\ Aisio[4] \in Commands /\ Aisio[5] \in Commands /\ Aisio[6] \in Commands
      /\ Aisio[7] \in Commands /\ Aisio[8] \in Commands /\ Aisio[9] \in Commands
      /\ Aisio[10] \in Commands
  BY <1>1, Literals
<1>4. \A i \in 1..10 : Aisio[i] \in Commands
  BY <1>3
<1>5. Aisio \in Seq(Commands) /\ Len(Aisio) = 10
  BY <1>2, <1>4
<1> QED
  BY <1>1, <1>5

\* bench_io_modes.yaml, command by command.
LEMMA ModesSteps ==
  /\ Modes \in Seq(Commands) /\ Len(Modes) = 6
  /\ Modes[1] = <<"guard", "none">> /\ Modes[2] = <<"bind", "user">>
  /\ Modes[3] = <<"systemctl_stop", "homi">> /\ Modes[4] = <<"start", "homi">>
  /\ Modes[5] = <<"check", "homi">> /\ Modes[6] = <<"stop_result", "homi">>
<1>1. /\ Modes[1] = <<"guard", "none">> /\ Modes[2] = <<"bind", "user">>
      /\ Modes[3] = <<"systemctl_stop", "homi">> /\ Modes[4] = <<"start", "homi">>
      /\ Modes[5] = <<"check", "homi">> /\ Modes[6] = <<"stop_result", "homi">>
  BY DEF Modes
<1>2. Modes = [i \in 1..6 |-> Modes[i]]
  BY DEF Modes
<1>3. /\ Modes[1] \in Commands /\ Modes[2] \in Commands /\ Modes[3] \in Commands
      /\ Modes[4] \in Commands /\ Modes[5] \in Commands /\ Modes[6] \in Commands
  BY <1>1, Literals
<1>4. \A i \in 1..6 : Modes[i] \in Commands
  BY <1>3
<1>5. Modes \in Seq(Commands) /\ Len(Modes) = 6
  BY <1>2, <1>4
<1> QED
  BY <1>1, <1>5

\* An element of a sequence of commands is a command.
LEMMA Elements == \A s \in Seq(Commands) : \A i \in 1..Len(s) : s[i] \in Commands
  OBVIOUS

\* Smoke, part by part.
LEMMA SmokeParts ==
  /\ Len(Smoke) = 25 /\ \A i \in 1..25 : Smoke[i] \in Commands
  /\ Smoke[1][1] = "umount" /\ Smoke[1][2] = "try"
  /\ Smoke[2][1] = "stop_units" /\ Smoke[2][2] = "all"
  /\ Smoke[3][1] = "qublk_del" /\ Smoke[3][2] = "own"
  /\ Smoke[4][1] = "rm_shm" /\ Smoke[4][2] = "own"
  /\ Smoke[5][1] = "guard" /\ Smoke[5][2] = "own"
  /\ Smoke[6][1] = "bind" /\ Smoke[6][2] = "user"
  /\ Smoke[7][1] = "start" /\ Smoke[7][2] = "homi"
  /\ Smoke[8][1] = "check" /\ Smoke[8][2] = "homi"
  /\ Smoke[9][1] = "start" /\ Smoke[9][2] = "qublk"
  /\ Smoke[10][1] = "mkfs" /\ Smoke[10][2] = "ublk"
  /\ Smoke[11][1] = "mount" /\ Smoke[11][2] = "ublk"
  /\ Smoke[12][1] = "fill" /\ Smoke[12][2] = "own"
  /\ Smoke[13][1] = "umount" /\ Smoke[13][2] = "own"
  /\ Smoke[14][1] = "mount" /\ Smoke[14][2] = "ublk"
  /\ Smoke[15][1] = "conf" /\ Smoke[15][2] = "own"
  /\ Smoke[16][1] = "start" /\ Smoke[16][2] = "xal"
  /\ Smoke[17][1] = "check" /\ Smoke[17][2] = "daemons"
  /\ Smoke[18][1] = "check" /\ Smoke[18][2] = "ublk"
  /\ Smoke[19][1] = "check" /\ Smoke[19][2] = "direct"
  /\ Smoke[20][1] = "stop" /\ Smoke[20][2] = "xal"
  /\ Smoke[21][1] = "umount" /\ Smoke[21][2] = "own"
  /\ Smoke[22][1] = "check" /\ Smoke[22][2] = "no_shm"
  /\ Smoke[23][1] = "stop" /\ Smoke[23][2] = "qublk"
  /\ Smoke[24][1] = "stop" /\ Smoke[24][2] = "homi"
  /\ Smoke[25][1] = "bind" /\ Smoke[25][2] = "nvme"
<1>1. /\ Smoke[1] = <<"umount", "try">> /\ Smoke[2] = <<"stop_units", "all">>
      /\ Smoke[3] = <<"qublk_del", "own">> /\ Smoke[4] = <<"rm_shm", "own">>
      /\ Smoke[5] = <<"guard", "own">> /\ Smoke[6] = <<"bind", "user">>
      /\ Smoke[7] = <<"start", "homi">> /\ Smoke[8] = <<"check", "homi">>
      /\ Smoke[9] = <<"start", "qublk">> /\ Smoke[10] = <<"mkfs", "ublk">>
      /\ Smoke[11] = <<"mount", "ublk">> /\ Smoke[12] = <<"fill", "own">>
      /\ Smoke[13] = <<"umount", "own">> /\ Smoke[14] = <<"mount", "ublk">>
      /\ Smoke[15] = <<"conf", "own">> /\ Smoke[16] = <<"start", "xal">>
      /\ Smoke[17] = <<"check", "daemons">> /\ Smoke[18] = <<"check", "ublk">>
      /\ Smoke[19] = <<"check", "direct">> /\ Smoke[20] = <<"stop", "xal">>
      /\ Smoke[21] = <<"umount", "own">> /\ Smoke[22] = <<"check", "no_shm">>
      /\ Smoke[23] = <<"stop", "qublk">> /\ Smoke[24] = <<"stop", "homi">>
      /\ Smoke[25] = <<"bind", "nvme">>
  BY SmokeSteps
<1>2. /\ Smoke[1][1] = "umount" /\ Smoke[1][2] = "try"
      /\ Smoke[2][1] = "stop_units" /\ Smoke[2][2] = "all"
      /\ Smoke[3][1] = "qublk_del" /\ Smoke[3][2] = "own"
      /\ Smoke[4][1] = "rm_shm" /\ Smoke[4][2] = "own"
      /\ Smoke[5][1] = "guard" /\ Smoke[5][2] = "own"
      /\ Smoke[6][1] = "bind" /\ Smoke[6][2] = "user"
      /\ Smoke[7][1] = "start" /\ Smoke[7][2] = "homi"
      /\ Smoke[8][1] = "check" /\ Smoke[8][2] = "homi"
      /\ Smoke[9][1] = "start" /\ Smoke[9][2] = "qublk"
      /\ Smoke[10][1] = "mkfs" /\ Smoke[10][2] = "ublk"
      /\ Smoke[11][1] = "mount" /\ Smoke[11][2] = "ublk"
      /\ Smoke[12][1] = "fill" /\ Smoke[12][2] = "own"
      /\ Smoke[13][1] = "umount" /\ Smoke[13][2] = "own"
      /\ Smoke[14][1] = "mount" /\ Smoke[14][2] = "ublk"
      /\ Smoke[15][1] = "conf" /\ Smoke[15][2] = "own"
      /\ Smoke[16][1] = "start" /\ Smoke[16][2] = "xal"
      /\ Smoke[17][1] = "check" /\ Smoke[17][2] = "daemons"
      /\ Smoke[18][1] = "check" /\ Smoke[18][2] = "ublk"
      /\ Smoke[19][1] = "check" /\ Smoke[19][2] = "direct"
      /\ Smoke[20][1] = "stop" /\ Smoke[20][2] = "xal"
      /\ Smoke[21][1] = "umount" /\ Smoke[21][2] = "own"
      /\ Smoke[22][1] = "check" /\ Smoke[22][2] = "no_shm"
      /\ Smoke[23][1] = "stop" /\ Smoke[23][2] = "qublk"
      /\ Smoke[24][1] = "stop" /\ Smoke[24][2] = "homi"
      /\ Smoke[25][1] = "bind" /\ Smoke[25][2] = "nvme"
  BY <1>1
<1>3. Len(Smoke) = 25 /\ Smoke \in Seq(Commands)
  BY SmokeSteps
<1>4. \A i \in 1..25 : Smoke[i] \in Commands
  BY <1>3, Elements
<1> QED
  BY <1>2, <1>3, <1>4

\* P2p, part by part.
LEMMA P2pParts ==
  /\ Len(P2p) = 12 /\ \A i \in 1..12 : P2p[i] \in Commands
  /\ P2p[1][1] = "guard" /\ P2p[1][2] = "none" /\ P2p[2][1] = "umount" /\ P2p[2][2] = "try"
  /\ P2p[3][1] = "stop_units" /\ P2p[3][2] = "all"
  /\ P2p[4][1] = "qublk_del" /\ P2p[4][2] = "own" /\ P2p[5][1] = "bind" /\ P2p[5][2] = "user"
  /\ P2p[6][1] = "start" /\ P2p[6][2] = "homi" /\ P2p[7][1] = "check" /\ P2p[7][2] = "homi"
  /\ P2p[8][1] = "write" /\ P2p[8][2] = "homi" /\ P2p[9][1] = "stop" /\ P2p[9][2] = "homi"
  /\ P2p[10][1] = "bind" /\ P2p[10][2] = "nvme" /\ P2p[11][1] = "check" /\ P2p[11][2] = "bdev"
  /\ P2p[12][1] = "write" /\ P2p[12][2] = "bdev"
<1>1. /\ P2p[1] = <<"guard", "none">> /\ P2p[2] = <<"umount", "try">>
      /\ P2p[3] = <<"stop_units", "all">> /\ P2p[4] = <<"qublk_del", "own">>
      /\ P2p[5] = <<"bind", "user">> /\ P2p[6] = <<"start", "homi">>
      /\ P2p[7] = <<"check", "homi">> /\ P2p[8] = <<"write", "homi">>
      /\ P2p[9] = <<"stop", "homi">> /\ P2p[10] = <<"bind", "nvme">>
      /\ P2p[11] = <<"check", "bdev">> /\ P2p[12] = <<"write", "bdev">>
  BY P2pSteps
<1>2. /\ P2p[1][1] = "guard" /\ P2p[1][2] = "none" /\ P2p[2][1] = "umount" /\ P2p[2][2] = "try"
      /\ P2p[3][1] = "stop_units" /\ P2p[3][2] = "all"
      /\ P2p[4][1] = "qublk_del" /\ P2p[4][2] = "own"
      /\ P2p[5][1] = "bind" /\ P2p[5][2] = "user" /\ P2p[6][1] = "start" /\ P2p[6][2] = "homi"
      /\ P2p[7][1] = "check" /\ P2p[7][2] = "homi" /\ P2p[8][1] = "write" /\ P2p[8][2] = "homi"
      /\ P2p[9][1] = "stop" /\ P2p[9][2] = "homi" /\ P2p[10][1] = "bind" /\ P2p[10][2] = "nvme"
      /\ P2p[11][1] = "check" /\ P2p[11][2] = "bdev"
      /\ P2p[12][1] = "write" /\ P2p[12][2] = "bdev"
  BY <1>1
<1>3. Len(P2p) = 12 /\ P2p \in Seq(Commands)
  BY P2pSteps
<1>4. \A i \in 1..12 : P2p[i] \in Commands
  BY <1>3, Elements
<1> QED
  BY <1>2, <1>3, <1>4

\* Dataset, part by part.
LEMMA DatasetParts ==
  /\ Len(Dataset) = 6 /\ \A i \in 1..6 : Dataset[i] \in Commands
  /\ Dataset[1][1] = "guard" /\ Dataset[1][2] = "own"
  /\ Dataset[2][1] = "check" /\ Dataset[2][2] = "bdev"
  /\ Dataset[3][1] = "umount" /\ Dataset[3][2] = "try"
  /\ Dataset[4][1] = "mkfs" /\ Dataset[4][2] = "nvme"
  /\ Dataset[5][1] = "mount" /\ Dataset[5][2] = "nvme"
  /\ Dataset[6][1] = "fill" /\ Dataset[6][2] = "own"
<1>1. /\ Dataset[1] = <<"guard", "own">> /\ Dataset[2] = <<"check", "bdev">>
      /\ Dataset[3] = <<"umount", "try">> /\ Dataset[4] = <<"mkfs", "nvme">>
      /\ Dataset[5] = <<"mount", "nvme">> /\ Dataset[6] = <<"fill", "own">>
  BY DatasetSteps
<1>2. /\ Dataset[1][1] = "guard" /\ Dataset[1][2] = "own"
      /\ Dataset[2][1] = "check" /\ Dataset[2][2] = "bdev"
      /\ Dataset[3][1] = "umount" /\ Dataset[3][2] = "try"
      /\ Dataset[4][1] = "mkfs" /\ Dataset[4][2] = "nvme"
      /\ Dataset[5][1] = "mount" /\ Dataset[5][2] = "nvme"
      /\ Dataset[6][1] = "fill" /\ Dataset[6][2] = "own"
  BY <1>1
<1>3. Len(Dataset) = 6 /\ Dataset \in Seq(Commands)
  BY DatasetSteps
<1>4. \A i \in 1..6 : Dataset[i] \in Commands
  BY <1>3, Elements
<1> QED
  BY <1>2, <1>3, <1>4

\* Configure, part by part.
LEMMA ConfigureParts ==
  /\ Len(Configure) = 7 /\ \A i \in 1..7 : Configure[i] \in Commands
  /\ Configure[1][1] = "guard" /\ Configure[1][2] = "own"
  /\ Configure[2][1] = "umount" /\ Configure[2][2] = "try"
  /\ Configure[3][1] = "stop_units" /\ Configure[3][2] = "all"
  /\ Configure[4][1] = "qublk_del" /\ Configure[4][2] = "own"
  /\ Configure[5][1] = "rm_shm" /\ Configure[5][2] = "own"
  /\ Configure[6][1] = "bind" /\ Configure[6][2] = "user"
  /\ Configure[7][1] = "conf" /\ Configure[7][2] = "own"
<1>1. /\ Configure[1] = <<"guard", "own">> /\ Configure[2] = <<"umount", "try">>
      /\ Configure[3] = <<"stop_units", "all">> /\ Configure[4] = <<"qublk_del", "own">>
      /\ Configure[5] = <<"rm_shm", "own">> /\ Configure[6] = <<"bind", "user">>
      /\ Configure[7] = <<"conf", "own">>
  BY ConfigureSteps
<1>2. /\ Configure[1][1] = "guard" /\ Configure[1][2] = "own"
      /\ Configure[2][1] = "umount" /\ Configure[2][2] = "try"
      /\ Configure[3][1] = "stop_units" /\ Configure[3][2] = "all"
      /\ Configure[4][1] = "qublk_del" /\ Configure[4][2] = "own"
      /\ Configure[5][1] = "rm_shm" /\ Configure[5][2] = "own"
      /\ Configure[6][1] = "bind" /\ Configure[6][2] = "user"
      /\ Configure[7][1] = "conf" /\ Configure[7][2] = "own"
  BY <1>1
<1>3. Len(Configure) = 7 /\ Configure \in Seq(Commands)
  BY ConfigureSteps
<1>4. \A i \in 1..7 : Configure[i] \in Commands
  BY <1>3, Elements
<1> QED
  BY <1>2, <1>3, <1>4

\* Aisio, part by part.
LEMMA AisioParts ==
  /\ Len(Aisio) = 10 /\ \A i \in 1..10 : Aisio[i] \in Commands
  /\ Aisio[1][1] = "start" /\ Aisio[1][2] = "homi"
  /\ Aisio[2][1] = "start" /\ Aisio[2][2] = "qublk"
  /\ Aisio[3][1] = "mount" /\ Aisio[3][2] = "ublk"
  /\ Aisio[4][1] = "start" /\ Aisio[4][2] = "xal"
  /\ Aisio[5][1] = "check" /\ Aisio[5][2] = "homi"
  /\ Aisio[6][1] = "check" /\ Aisio[6][2] = "direct"
  /\ Aisio[7][1] = "systemctl_stop" /\ Aisio[7][2] = "xal"
  /\ Aisio[8][1] = "umount" /\ Aisio[8][2] = "own"
  /\ Aisio[9][1] = "systemctl_stop" /\ Aisio[9][2] = "qublk"
  /\ Aisio[10][1] = "systemctl_stop" /\ Aisio[10][2] = "homi"
<1>1. /\ Aisio[1] = <<"start", "homi">> /\ Aisio[2] = <<"start", "qublk">>
      /\ Aisio[3] = <<"mount", "ublk">> /\ Aisio[4] = <<"start", "xal">>
      /\ Aisio[5] = <<"check", "homi">> /\ Aisio[6] = <<"check", "direct">>
      /\ Aisio[7] = <<"systemctl_stop", "xal">> /\ Aisio[8] = <<"umount", "own">>
      /\ Aisio[9] = <<"systemctl_stop", "qublk">> /\ Aisio[10] = <<"systemctl_stop", "homi">>
  BY AisioSteps
<1>2. /\ Aisio[1][1] = "start" /\ Aisio[1][2] = "homi"
      /\ Aisio[2][1] = "start" /\ Aisio[2][2] = "qublk"
      /\ Aisio[3][1] = "mount" /\ Aisio[3][2] = "ublk"
      /\ Aisio[4][1] = "start" /\ Aisio[4][2] = "xal"
      /\ Aisio[5][1] = "check" /\ Aisio[5][2] = "homi"
      /\ Aisio[6][1] = "check" /\ Aisio[6][2] = "direct"
      /\ Aisio[7][1] = "systemctl_stop" /\ Aisio[7][2] = "xal"
      /\ Aisio[8][1] = "umount" /\ Aisio[8][2] = "own"
      /\ Aisio[9][1] = "systemctl_stop" /\ Aisio[9][2] = "qublk"
      /\ Aisio[10][1] = "systemctl_stop" /\ Aisio[10][2] = "homi"
  BY <1>1
<1>3. Len(Aisio) = 10 /\ Aisio \in Seq(Commands)
  BY AisioSteps
<1>4. \A i \in 1..10 : Aisio[i] \in Commands
  BY <1>3, Elements
<1> QED
  BY <1>2, <1>3, <1>4

\* Llama, part by part.
LEMMA LlamaParts ==
  /\ Len(Llama) = 26 /\ \A i \in 1..26 : Llama[i] \in Commands
  /\ Llama[1][1] = "umount" /\ Llama[1][2] = "try"
  /\ Llama[2][1] = "stop_units" /\ Llama[2][2] = "all"
  /\ Llama[3][1] = "qublk_del" /\ Llama[3][2] = "own"
  /\ Llama[4][1] = "rm_shm" /\ Llama[4][2] = "own"
  /\ Llama[5][1] = "guard" /\ Llama[5][2] = "own"
  /\ Llama[6][1] = "bind" /\ Llama[6][2] = "nvme"
  /\ Llama[7][1] = "check" /\ Llama[7][2] = "bdev"
  /\ Llama[8][1] = "guard" /\ Llama[8][2] = "usable"
  /\ Llama[9][1] = "umount" /\ Llama[9][2] = "try"
  /\ Llama[10][1] = "mkfs" /\ Llama[10][2] = "nvme"
  /\ Llama[11][1] = "mount" /\ Llama[11][2] = "nvme"
  /\ Llama[12][1] = "fill" /\ Llama[12][2] = "own"
  /\ Llama[13][1] = "load" /\ Llama[13][2] = "own"
  /\ Llama[14][1] = "umount" /\ Llama[14][2] = "own"
  /\ Llama[15][1] = "bind" /\ Llama[15][2] = "user"
  /\ Llama[16][1] = "conf" /\ Llama[16][2] = "own"
  /\ Llama[17][1] = "start" /\ Llama[17][2] = "homi"
  /\ Llama[18][1] = "start" /\ Llama[18][2] = "qublk"
  /\ Llama[19][1] = "mount" /\ Llama[19][2] = "ublk"
  /\ Llama[20][1] = "start" /\ Llama[20][2] = "xal"
  /\ Llama[21][1] = "load" /\ Llama[21][2] = "opends"
  /\ Llama[22][1] = "stop" /\ Llama[22][2] = "xal"
  /\ Llama[23][1] = "umount" /\ Llama[23][2] = "own"
  /\ Llama[24][1] = "stop" /\ Llama[24][2] = "qublk"
  /\ Llama[25][1] = "stop" /\ Llama[25][2] = "homi"
  /\ Llama[26][1] = "bind" /\ Llama[26][2] = "nvme"
<1>1. /\ Llama[1] = <<"umount", "try">> /\ Llama[2] = <<"stop_units", "all">>
      /\ Llama[3] = <<"qublk_del", "own">> /\ Llama[4] = <<"rm_shm", "own">>
      /\ Llama[5] = <<"guard", "own">> /\ Llama[6] = <<"bind", "nvme">>
      /\ Llama[7] = <<"check", "bdev">> /\ Llama[8] = <<"guard", "usable">>
      /\ Llama[9] = <<"umount", "try">> /\ Llama[10] = <<"mkfs", "nvme">>
      /\ Llama[11] = <<"mount", "nvme">> /\ Llama[12] = <<"fill", "own">>
      /\ Llama[13] = <<"load", "own">> /\ Llama[14] = <<"umount", "own">>
      /\ Llama[15] = <<"bind", "user">> /\ Llama[16] = <<"conf", "own">>
      /\ Llama[17] = <<"start", "homi">> /\ Llama[18] = <<"start", "qublk">>
      /\ Llama[19] = <<"mount", "ublk">> /\ Llama[20] = <<"start", "xal">>
      /\ Llama[21] = <<"load", "opends">> /\ Llama[22] = <<"stop", "xal">>
      /\ Llama[23] = <<"umount", "own">> /\ Llama[24] = <<"stop", "qublk">>
      /\ Llama[25] = <<"stop", "homi">> /\ Llama[26] = <<"bind", "nvme">>
  BY LlamaSteps
<1>2. /\ Llama[1][1] = "umount" /\ Llama[1][2] = "try"
      /\ Llama[2][1] = "stop_units" /\ Llama[2][2] = "all"
      /\ Llama[3][1] = "qublk_del" /\ Llama[3][2] = "own"
      /\ Llama[4][1] = "rm_shm" /\ Llama[4][2] = "own"
      /\ Llama[5][1] = "guard" /\ Llama[5][2] = "own"
      /\ Llama[6][1] = "bind" /\ Llama[6][2] = "nvme"
      /\ Llama[7][1] = "check" /\ Llama[7][2] = "bdev"
      /\ Llama[8][1] = "guard" /\ Llama[8][2] = "usable"
      /\ Llama[9][1] = "umount" /\ Llama[9][2] = "try"
      /\ Llama[10][1] = "mkfs" /\ Llama[10][2] = "nvme"
      /\ Llama[11][1] = "mount" /\ Llama[11][2] = "nvme"
      /\ Llama[12][1] = "fill" /\ Llama[12][2] = "own"
      /\ Llama[13][1] = "load" /\ Llama[13][2] = "own"
      /\ Llama[14][1] = "umount" /\ Llama[14][2] = "own"
      /\ Llama[15][1] = "bind" /\ Llama[15][2] = "user"
      /\ Llama[16][1] = "conf" /\ Llama[16][2] = "own"
      /\ Llama[17][1] = "start" /\ Llama[17][2] = "homi"
      /\ Llama[18][1] = "start" /\ Llama[18][2] = "qublk"
      /\ Llama[19][1] = "mount" /\ Llama[19][2] = "ublk"
      /\ Llama[20][1] = "start" /\ Llama[20][2] = "xal"
      /\ Llama[21][1] = "load" /\ Llama[21][2] = "opends"
      /\ Llama[22][1] = "stop" /\ Llama[22][2] = "xal"
      /\ Llama[23][1] = "umount" /\ Llama[23][2] = "own"
      /\ Llama[24][1] = "stop" /\ Llama[24][2] = "qublk"
      /\ Llama[25][1] = "stop" /\ Llama[25][2] = "homi"
      /\ Llama[26][1] = "bind" /\ Llama[26][2] = "nvme"
  BY <1>1
<1>3. Len(Llama) = 26 /\ Llama \in Seq(Commands)
  BY LlamaSteps
<1>4. \A i \in 1..26 : Llama[i] \in Commands
  BY <1>3, Elements
<1> QED
  BY <1>2, <1>3, <1>4

\* Modes, part by part.
LEMMA ModesParts ==
  /\ Len(Modes) = 6 /\ \A i \in 1..6 : Modes[i] \in Commands
  /\ Modes[1][1] = "guard" /\ Modes[1][2] = "none"
  /\ Modes[2][1] = "bind" /\ Modes[2][2] = "user"
  /\ Modes[3][1] = "systemctl_stop" /\ Modes[3][2] = "homi"
  /\ Modes[4][1] = "start" /\ Modes[4][2] = "homi"
  /\ Modes[5][1] = "check" /\ Modes[5][2] = "homi"
  /\ Modes[6][1] = "stop_result" /\ Modes[6][2] = "homi"
<1>1. /\ Modes[1] = <<"guard", "none">> /\ Modes[2] = <<"bind", "user">>
      /\ Modes[3] = <<"systemctl_stop", "homi">> /\ Modes[4] = <<"start", "homi">>
      /\ Modes[5] = <<"check", "homi">> /\ Modes[6] = <<"stop_result", "homi">>
  BY ModesSteps
<1>2. /\ Modes[1][1] = "guard" /\ Modes[1][2] = "none"
      /\ Modes[2][1] = "bind" /\ Modes[2][2] = "user"
      /\ Modes[3][1] = "systemctl_stop" /\ Modes[3][2] = "homi"
      /\ Modes[4][1] = "start" /\ Modes[4][2] = "homi"
      /\ Modes[5][1] = "check" /\ Modes[5][2] = "homi"
      /\ Modes[6][1] = "stop_result" /\ Modes[6][2] = "homi"
  BY <1>1
<1>3. Len(Modes) = 6 /\ Modes \in Seq(Commands)
  BY ModesSteps
<1>4. \A i \in 1..6 : Modes[i] \in Commands
  BY <1>3, Elements
<1> QED
  BY <1>2, <1>3, <1>4

-----------------------------------------------------------------------------
(* What comes before what *)

\* Commands that do one thing, or do it to one
Verb(verbs)      == {c \in Commands : c[1] \in verbs}
Cmd(verbs, args) == {c \in Commands : c[1] \in verbs /\ c[2] \in args}

\* The looks at the drive, and what it is taken or written by
Guards == Verb({"guard"})
Takes  == Verb({"bind", "mkfs", "fill", "write"})

\* What replaces the drive's file system, and what writes to one a run has made
Renews     == Verb({"mkfs", "write"})
Overwrites == Verb({"fill"}) \cup Cmd({"write"}, {"bdev"})

\* What brings a unit, a mount or a driver, and what stops a unit
StopVerbs     == {"stop", "systemctl_stop", "stop_result"}
Starts(kind)  == Cmd({"start"}, {kind})
StopsOf(kind) == Cmd(StopVerbs, {kind}) \cup Verb({"stop_units"})
Mounts(kind)  == Cmd({"mount"}, {kind})
Binds(to)     == Cmd({"bind"}, {to})
Confs         == Verb({"conf"})
XalStop       == Cmd({"stop"}, {"xal"})
Cleanly       == {"stop", "stop_result"}

\* What takes a unit, the ublk device, a mount, the files or an index away
Downs(kind) == StopsOf(kind) \cup Verb({"bind"})
Losers      == StopsOf("homi") \cup StopsOf("qublk") \cup Verb({"qublk_del", "bind"})
Unmounts    == Losers \cup Verb({"umount"})
Emptiers    == StopsOf("homi") \cup StopsOf("qublk") \cup Verb({"mkfs", "write", "qublk_del"})
Unindexes   == StopsOf("xal") \cup Verb({"rm_shm"})

\* What an index no longer fits, what leaves no live ublk device, what changes whether
\* there is one, and what leaves nothing of a device mounted at the run's mountpoint
Changes   == Verb({"mkfs", "fill", "write"})
UblkEnds  == StopsOf("qublk") \cup Verb({"qublk_del"})
UblkMoves == StopsOf("qublk") \cup Starts("qublk")
OffNvme   == Verb({"umount"}) \cup Cmd({"guard"}, {"none"})
OffUblk   == Verb({"umount"}) \cup Starts("qublk")

\* What needs homi, the ublk device, a mount of it, or any mount
HomiUsers   == Starts("qublk") \cup Cmd({"check"}, {"homi", "direct"})
                 \cup Cmd({"stop", "stop_result", "write"}, {"homi"}) \cup Cmd({"load"}, {"opends"})
UblkUsers   == Cmd({"mkfs", "mount"}, {"ublk"}) \cup Cmd({"check"}, {"daemons"})
UblkReaders == Starts("xal") \cup Cmd({"check"}, {"ublk"}) \cup Cmd({"load"}, {"opends"})
MountUsers  == Verb({"fill"}) \cup Cmd({"umount"}, {"own"})

\* What needs the namespace free of mounts, and what needs the namespace
NvmeTakers == Binds("user") \cup Cmd({"mkfs", "mount"}, {"nvme"})
NvmeUsers  == Cmd({"mkfs", "mount"}, {"nvme"}) \cup Cmd({"write", "check"}, {"bdev"})

\* What needs the run's files, an index, or one that is complete
FileReaders  == Cmd({"check"}, {"ublk", "direct"}) \cup Verb({"load"})
IndexUsers   == Cmd({"check"}, {"daemons", "direct"}) \cup Cmd({"load"}, {"opends"})
IndexReaders == Cmd({"check"}, {"direct"}) \cup Cmd({"load"}, {"opends"})

\* A command of s in N has one in G before it, and none in L between the two.
Ready(s, G, L, N) ==
  \A i \in 1..Len(s) : s[i] \in N =>
    \E j \in 1..(i - 1) : s[j] \in G /\ \A k \in (j + 1)..(i - 1) : s[k] \notin L

\* The drive is looked at before it is taken, and made new before it is written to.
Careful(s) ==
  /\ Ready(s, Guards, {}, Takes)
  /\ Ready(s, Renews, {}, Overwrites)

\* What uses a unit, a device, a mount or an index comes after what brings it, with
\* nothing in between that takes it away; the namespace is taken once nothing is mounted
\* from it at the workflow's mountpoint, and from homi once that is stopped.
Serves(s) ==
  /\ Ready(s, Starts("homi"), Downs("homi"), HomiUsers)
  /\ Ready(s, Starts("qublk"), Downs("qublk"), Cmd(Cleanly, {"qublk"}))
  /\ Ready(s, Starts("xal"), Downs("xal"), Cmd(Cleanly, {"xal"}))
  /\ Ready(s, Starts("qublk"), Losers, UblkUsers)
  /\ Ready(s, Mounts("ublk"), Unmounts, UblkReaders)
  /\ Ready(s, Mounts("nvme"), Unmounts, Cmd({"load"}, {"own"}))
  /\ Ready(s, Verb({"mount"}), Unmounts, MountUsers)
  /\ Ready(s, OffNvme, Mounts("nvme"), NvmeTakers)
  /\ Ready(s, OffUblk, Mounts("ublk"), Mounts("ublk"))
  /\ Ready(s, Starts("qublk"), Mounts("ublk"), Cmd({"mkfs"}, {"ublk"}))
  /\ Ready(s, Starts("xal"), Unindexes, IndexUsers)
  /\ Ready(s, Starts("xal"), Changes, IndexReaders)
  /\ Ready(s, StopsOf("homi"), Starts("homi"), Binds("nvme"))
  /\ Ready(s, XalStop, Starts("xal"), Cmd({"check"}, {"no_shm"}))
  /\ Ready(s, Confs, {}, XalStop)

\* What the workflows make for themselves: all but bench_aisio, which runs on the
\* datasets and the configuration of other workflows.
Makes(s) ==
  /\ Ready(s, Verb({"mkfs"}), Verb({"write"}), Verb({"mount"}))
  /\ Ready(s, Verb({"fill"}), Emptiers, FileReaders)
  /\ Ready(s, Verb({"qublk_del"}), UblkMoves, Starts("qublk"))
  /\ Ready(s, Binds("user"), Binds("nvme"), Starts("homi"))
  /\ Ready(s, Confs, {}, Starts("xal"))
  /\ Ready(s, Verb({"fill"}), {}, Starts("xal"))
  /\ Ready(s, Cmd({"umount"}, {"own"}), Verb({"fill"}), Starts("xal"))

\* The namespace is used on the kernel's driver; setup_dataset finds it there.
Kernel(s) ==
  Ready(s, Binds("nvme"), Binds("user"), NvmeUsers)

\* The model of bench_llama_load is written before there is a ublk device.
FillsNvme(s) ==
  Ready(s, Verb({"qublk_del"}), Starts("qublk"), Verb({"fill"}))

\* s[j] brings what the commands of s in N need, which all come after it and not
\* after s[e], and nothing between takes it away.
Span(s, j, e, G, L, N) ==
  /\ j \in 1..Len(s) /\ e \in Nat /\ s[j] \in G
  /\ \A i \in (j + 1)..(e - 1) : s[i] \notin L
  /\ \A i \in 1..Len(s) : s[i] \in N => i \in (j + 1)..e

\* So do s[j] and s[k], for those up to s[e] and from there to s[f].
Spans(s, j, e, k, f, G, L, N) ==
  /\ j \in 1..Len(s) /\ e \in Nat /\ s[j] \in G
  /\ k \in 1..Len(s) /\ f \in Nat /\ s[k] \in G
  /\ \A i \in (j + 1)..(e - 1) : s[i] \notin L
  /\ \A i \in (k + 1)..(f - 1) : s[i] \notin L
  /\ \A i \in 1..Len(s) : s[i] \in N => i \in (j + 1)..e \/ i \in (k + 1)..f

\* s has no command in N.
Never(s, N) == \A i \in 1..Len(s) : s[i] \notin N

\* What follows s[j] to the end takes nothing away that it brings.
Leaves(s, G, L) ==
  \E j \in 1..Len(s) : s[j] \in G /\ \A k \in (j + 1)..Len(s) : s[k] \notin L

\* A span, two spans, or no command in N: each is enough.
LEMMA SpanReady ==
  ASSUME NEW s, NEW G, NEW L, NEW N, Len(s) \in Nat
  PROVE  /\ \A j, e : Span(s, j, e, G, L, N) => Ready(s, G, L, N)
         /\ \A j, e, k, f : Spans(s, j, e, k, f, G, L, N) => Ready(s, G, L, N)
         /\ Never(s, N) => Ready(s, G, L, N)
<1>1. ASSUME NEW j \in 1..Len(s), NEW e \in Nat, s[j] \in G,
             \A i \in (j + 1)..(e - 1) : s[i] \notin L,
             NEW i \in (j + 1)..e, i \in 1..Len(s)
      PROVE  \E jj \in 1..(i - 1) : s[jj] \in G /\ \A k \in (jj + 1)..(i - 1) : s[k] \notin L
  <2>1. j \in 1..(i - 1) /\ \A k \in (j + 1)..(i - 1) : k \in (j + 1)..(e - 1)
    BY <1>1
  <2> QED
    BY <1>1, <2>1
<1>2. \A j, e : Span(s, j, e, G, L, N) => Ready(s, G, L, N)
  BY <1>1 DEF Span, Ready
<1>3. \A j, e, k, f : Spans(s, j, e, k, f, G, L, N) => Ready(s, G, L, N)
  BY <1>1 DEF Spans, Ready
<1>4. Never(s, N) => Ready(s, G, L, N)
  BY DEF Never, Ready
<1> QED
  BY <1>2, <1>3, <1>4

\* smoke_daemons.yaml.
LEMMA SmokeReady ==
  Careful(Smoke) /\ Serves(Smoke) /\ Makes(Smoke) /\ Kernel(Smoke)
<1>1. Span(Smoke, 5, 25, Guards, {}, Takes)
  BY SmokeParts DEF Span, Guards, Takes, Verb
<1>2. Span(Smoke, 10, 12, Renews, {}, Overwrites)
  BY SmokeParts DEF Span, Cmd, Overwrites, Renews, Verb
<1>3. Span(Smoke, 7, 24, Starts("homi"), Downs("homi"), HomiUsers)
  BY SmokeParts DEF Span, Cmd, Downs, HomiUsers, Starts, StopVerbs, StopsOf, Verb
<1>4. Span(Smoke, 9, 23, Starts("qublk"), Downs("qublk"), Cmd(Cleanly, {"qublk"}))
  BY SmokeParts DEF Span, Cleanly, Cmd, Downs, Starts, StopVerbs, StopsOf, Verb
<1>5. Span(Smoke, 16, 20, Starts("xal"), Downs("xal"), Cmd(Cleanly, {"xal"}))
  BY SmokeParts DEF Span, Cleanly, Cmd, Downs, Starts, StopVerbs, StopsOf, Verb
<1>6. Span(Smoke, 9, 17, Starts("qublk"), Losers, UblkUsers)
  BY SmokeParts DEF Span, Cmd, Losers, Starts, StopVerbs, StopsOf, UblkUsers, Verb
<1>7. Span(Smoke, 14, 18, Mounts("ublk"), Unmounts, UblkReaders)
  BY SmokeParts DEF Span, Cmd, Losers, Mounts, Starts, StopVerbs, StopsOf, UblkReaders,
     Unmounts,
       Verb
<1>8. Spans(Smoke, 11, 13, 14, 21, Verb({"mount"}), Unmounts, MountUsers)
  BY SmokeParts DEF Spans, Cmd, Losers, MountUsers, StopVerbs, StopsOf, Unmounts, Verb
<1>9. Span(Smoke, 1, 6, OffNvme, Mounts("nvme"), NvmeTakers)
  BY SmokeParts DEF Span, Binds, Cmd, Mounts, NvmeTakers, OffNvme, Verb
<1>10. Spans(Smoke, 9, 11, 13, 14, OffUblk, Mounts("ublk"), Mounts("ublk"))
  BY SmokeParts DEF Spans, Cmd, Mounts, OffUblk, Starts, Verb
<1>11. Span(Smoke, 9, 10, Starts("qublk"), Mounts("ublk"), Cmd({"mkfs"}, {"ublk"}))
  BY SmokeParts DEF Span, Cmd, Mounts, Starts
<1>12. Span(Smoke, 16, 19, Starts("xal"), Unindexes, IndexUsers)
  BY SmokeParts DEF Span, Cmd, IndexUsers, Starts, StopVerbs, StopsOf, Unindexes, Verb
<1>13. Span(Smoke, 16, 19, Starts("xal"), Changes, IndexReaders)
  BY SmokeParts DEF Span, Changes, Cmd, IndexReaders, Starts, Verb
<1>14. Span(Smoke, 24, 25, StopsOf("homi"), Starts("homi"), Binds("nvme"))
  BY SmokeParts DEF Span, Binds, Cmd, Starts, StopVerbs, StopsOf, Verb
<1>15. Span(Smoke, 20, 22, XalStop, Starts("xal"), Cmd({"check"}, {"no_shm"}))
  BY SmokeParts DEF Span, Cmd, Starts, XalStop
<1>16. Span(Smoke, 15, 20, Confs, {}, XalStop)
  BY SmokeParts DEF Span, Cmd, Confs, Verb, XalStop
<1>17. Span(Smoke, 10, 14, Verb({"mkfs"}), Verb({"write"}), Verb({"mount"}))
  BY SmokeParts DEF Span, Verb
<1>18. Span(Smoke, 12, 19, Verb({"fill"}), Emptiers, FileReaders)
  BY SmokeParts DEF Span, Cmd, Emptiers, FileReaders, StopVerbs, StopsOf, Verb
<1>19. Span(Smoke, 3, 9, Verb({"qublk_del"}), UblkMoves, Starts("qublk"))
  BY SmokeParts DEF Span, Cmd, Starts, StopVerbs, StopsOf, UblkMoves, Verb
<1>20. Span(Smoke, 6, 7, Binds("user"), Binds("nvme"), Starts("homi"))
  BY SmokeParts DEF Span, Binds, Cmd, Starts
<1>21. Span(Smoke, 15, 16, Confs, {}, Starts("xal"))
  BY SmokeParts DEF Span, Cmd, Confs, Starts, Verb
<1>22. Span(Smoke, 12, 16, Verb({"fill"}), {}, Starts("xal"))
  BY SmokeParts DEF Span, Cmd, Starts, Verb
<1>23. Span(Smoke, 13, 16, Cmd({"umount"}, {"own"}), Verb({"fill"}), Starts("xal"))
  BY SmokeParts DEF Span, Cmd, Starts, Verb
<1>24. /\ Never(Smoke, Cmd({"load"}, {"own"}))
       /\ Never(Smoke, NvmeUsers)
  BY SmokeParts DEF Never, Cmd, NvmeUsers
<1>25. Len(Smoke) \in Nat
  BY SmokeParts
<1> QED
  BY SpanReady, <1>1, <1>2, <1>3, <1>4, <1>5, <1>6, <1>7, <1>8, <1>9, <1>10, <1>11, <1>12,
     <1>13,
       <1>14, <1>15, <1>16, <1>17, <1>18, <1>19, <1>20, <1>21, <1>22, <1>23, <1>24, <1>25 DEF
       Careful, Serves, Makes, Kernel

\* smoke_p2p.yaml.
LEMMA P2pReady ==
  Careful(P2p) /\ Serves(P2p) /\ Makes(P2p) /\ Kernel(P2p)
<1>1. Span(P2p, 1, 12, Guards, {}, Takes)
  BY P2pParts DEF Span, Guards, Takes, Verb
<1>2. Span(P2p, 8, 12, Renews, {}, Overwrites)
  BY P2pParts DEF Span, Cmd, Overwrites, Renews, Verb
<1>3. Span(P2p, 6, 9, Starts("homi"), Downs("homi"), HomiUsers)
  BY P2pParts DEF Span, Cmd, Downs, HomiUsers, Starts, StopVerbs, StopsOf, Verb
<1>4. Span(P2p, 2, 5, OffNvme, Mounts("nvme"), NvmeTakers)
  BY P2pParts DEF Span, Binds, Cmd, Mounts, NvmeTakers, OffNvme, Verb
<1>5. Span(P2p, 9, 10, StopsOf("homi"), Starts("homi"), Binds("nvme"))
  BY P2pParts DEF Span, Binds, Cmd, Starts, StopVerbs, StopsOf, Verb
<1>6. Span(P2p, 5, 6, Binds("user"), Binds("nvme"), Starts("homi"))
  BY P2pParts DEF Span, Binds, Cmd, Starts
<1>7. Span(P2p, 10, 12, Binds("nvme"), Binds("user"), NvmeUsers)
  BY P2pParts DEF Span, Binds, Cmd, NvmeUsers
<1>8. /\ Never(P2p, Cmd(Cleanly, {"qublk"}))
      /\ Never(P2p, Cmd(Cleanly, {"xal"}))
      /\ Never(P2p, XalStop)
      /\ Never(P2p, UblkUsers)
      /\ Never(P2p, UblkReaders)
      /\ Never(P2p, Cmd({"load"}, {"own"}))
      /\ Never(P2p, MountUsers)
      /\ Never(P2p, Mounts("ublk"))
      /\ Never(P2p, Cmd({"mkfs"}, {"ublk"}))
      /\ Never(P2p, IndexUsers)
      /\ Never(P2p, IndexReaders)
      /\ Never(P2p, Cmd({"check"}, {"no_shm"}))
      /\ Never(P2p, Verb({"mount"}))
      /\ Never(P2p, FileReaders)
      /\ Never(P2p, Starts("qublk"))
      /\ Never(P2p, Starts("xal"))
  BY P2pParts DEF Never, Cleanly, Cmd, FileReaders, IndexReaders, IndexUsers, MountUsers,
     Mounts, Starts,
       UblkReaders, UblkUsers, Verb, XalStop
<1>9. Len(P2p) \in Nat
  BY P2pParts
<1> QED
  BY SpanReady, <1>1, <1>2, <1>3, <1>4, <1>5, <1>6, <1>7, <1>8, <1>9 DEF Careful, Serves,
     Makes,
       Kernel

\* setup_dataset.yaml.
LEMMA DatasetReady ==
  Careful(Dataset) /\ Serves(Dataset) /\ Makes(Dataset)
<1>1. Span(Dataset, 1, 6, Guards, {}, Takes)
  BY DatasetParts DEF Span, Guards, Takes, Verb
<1>2. Span(Dataset, 4, 6, Renews, {}, Overwrites)
  BY DatasetParts DEF Span, Cmd, Overwrites, Renews, Verb
<1>3. Span(Dataset, 5, 6, Verb({"mount"}), Unmounts, MountUsers)
  BY DatasetParts DEF Span, Cmd, Losers, MountUsers, StopVerbs, StopsOf, Unmounts, Verb
<1>4. Span(Dataset, 3, 5, OffNvme, Mounts("nvme"), NvmeTakers)
  BY DatasetParts DEF Span, Binds, Cmd, Mounts, NvmeTakers, OffNvme, Verb
<1>5. Span(Dataset, 4, 5, Verb({"mkfs"}), Verb({"write"}), Verb({"mount"}))
  BY DatasetParts DEF Span, Verb
<1>6. /\ Never(Dataset, HomiUsers)
      /\ Never(Dataset, Cmd(Cleanly, {"qublk"}))
      /\ Never(Dataset, Cmd(Cleanly, {"xal"}))
      /\ Never(Dataset, XalStop)
      /\ Never(Dataset, UblkUsers)
      /\ Never(Dataset, UblkReaders)
      /\ Never(Dataset, Cmd({"load"}, {"own"}))
      /\ Never(Dataset, Mounts("ublk"))
      /\ Never(Dataset, Cmd({"mkfs"}, {"ublk"}))
      /\ Never(Dataset, IndexUsers)
      /\ Never(Dataset, IndexReaders)
      /\ Never(Dataset, Binds("nvme"))
      /\ Never(Dataset, Cmd({"check"}, {"no_shm"}))
      /\ Never(Dataset, FileReaders)
      /\ Never(Dataset, Starts("qublk"))
      /\ Never(Dataset, Starts("homi"))
      /\ Never(Dataset, Starts("xal"))
  BY DatasetParts DEF Never, Cleanly, Binds, Cmd, FileReaders, HomiUsers, IndexReaders,
     IndexUsers,
       Mounts, Starts, UblkReaders, UblkUsers, Verb, XalStop
<1>7. Len(Dataset) \in Nat
  BY DatasetParts
<1> QED
  BY SpanReady, <1>1, <1>2, <1>3, <1>4, <1>5, <1>6, <1>7 DEF Careful, Serves, Makes

\* configure_daemons.yaml.
LEMMA ConfigureReady ==
  Careful(Configure) /\ Serves(Configure) /\ Makes(Configure) /\ Kernel(Configure)
<1>1. Span(Configure, 1, 6, Guards, {}, Takes)
  BY ConfigureParts DEF Span, Guards, Takes, Verb
<1>2. Span(Configure, 2, 6, OffNvme, Mounts("nvme"), NvmeTakers)
  BY ConfigureParts DEF Span, Binds, Cmd, Mounts, NvmeTakers, OffNvme, Verb
<1>3. /\ Never(Configure, Overwrites)
      /\ Never(Configure, HomiUsers)
      /\ Never(Configure, Cmd(Cleanly, {"qublk"}))
      /\ Never(Configure, Cmd(Cleanly, {"xal"}))
      /\ Never(Configure, XalStop)
      /\ Never(Configure, UblkUsers)
      /\ Never(Configure, UblkReaders)
      /\ Never(Configure, Cmd({"load"}, {"own"}))
      /\ Never(Configure, MountUsers)
      /\ Never(Configure, Mounts("ublk"))
      /\ Never(Configure, Cmd({"mkfs"}, {"ublk"}))
      /\ Never(Configure, IndexUsers)
      /\ Never(Configure, IndexReaders)
      /\ Never(Configure, Binds("nvme"))
      /\ Never(Configure, Cmd({"check"}, {"no_shm"}))
      /\ Never(Configure, Verb({"mount"}))
      /\ Never(Configure, FileReaders)
      /\ Never(Configure, Starts("qublk"))
      /\ Never(Configure, Starts("homi"))
      /\ Never(Configure, Starts("xal"))
      /\ Never(Configure, NvmeUsers)
  BY ConfigureParts DEF Never, Cleanly, Binds, Cmd, FileReaders, HomiUsers, IndexReaders,
     IndexUsers,
       MountUsers, Mounts, NvmeUsers, Overwrites, Starts, UblkReaders, UblkUsers, Verb, XalStop
<1>4. Len(Configure) \in Nat
  BY ConfigureParts
<1> QED
  BY SpanReady, <1>1, <1>2, <1>3, <1>4 DEF Careful, Serves, Makes, Kernel

\* bench_aisio.yaml.
LEMMA AisioReady ==
  Careful(Aisio) /\ Serves(Aisio) /\ Kernel(Aisio)
<1>1. Span(Aisio, 1, 6, Starts("homi"), Downs("homi"), HomiUsers)
  BY AisioParts DEF Span, Cmd, Downs, HomiUsers, Starts, StopVerbs, StopsOf, Verb
<1>2. Span(Aisio, 2, 3, Starts("qublk"), Losers, UblkUsers)
  BY AisioParts DEF Span, Cmd, Losers, Starts, StopVerbs, StopsOf, UblkUsers, Verb
<1>3. Span(Aisio, 3, 4, Mounts("ublk"), Unmounts, UblkReaders)
  BY AisioParts DEF Span, Cmd, Losers, Mounts, Starts, StopVerbs, StopsOf, UblkReaders,
     Unmounts,
       Verb
<1>4. Span(Aisio, 3, 8, Verb({"mount"}), Unmounts, MountUsers)
  BY AisioParts DEF Span, Cmd, Losers, MountUsers, StopVerbs, StopsOf, Unmounts, Verb
<1>5. Span(Aisio, 2, 3, OffUblk, Mounts("ublk"), Mounts("ublk"))
  BY AisioParts DEF Span, Cmd, Mounts, OffUblk, Starts, Verb
<1>6. Span(Aisio, 4, 6, Starts("xal"), Unindexes, IndexUsers)
  BY AisioParts DEF Span, Cmd, IndexUsers, Starts, StopVerbs, StopsOf, Unindexes, Verb
<1>7. Span(Aisio, 4, 6, Starts("xal"), Changes, IndexReaders)
  BY AisioParts DEF Span, Changes, Cmd, IndexReaders, Starts, Verb
<1>8. /\ Never(Aisio, Takes)
      /\ Never(Aisio, Overwrites)
      /\ Never(Aisio, Cmd(Cleanly, {"qublk"}))
      /\ Never(Aisio, Cmd(Cleanly, {"xal"}))
      /\ Never(Aisio, XalStop)
      /\ Never(Aisio, Cmd({"load"}, {"own"}))
      /\ Never(Aisio, NvmeTakers)
      /\ Never(Aisio, Cmd({"mkfs"}, {"ublk"}))
      /\ Never(Aisio, Binds("nvme"))
      /\ Never(Aisio, Cmd({"check"}, {"no_shm"}))
      /\ Never(Aisio, NvmeUsers)
  BY AisioParts DEF Never, Cleanly, Binds, Cmd, NvmeTakers, NvmeUsers, Overwrites, Takes,
     Verb, XalStop
<1>9. Len(Aisio) \in Nat
  BY AisioParts
<1> QED
  BY SpanReady, <1>1, <1>2, <1>3, <1>4, <1>5, <1>6, <1>7, <1>8, <1>9 DEF Careful, Serves,
     Kernel

\* bench_llama_load.yaml.
LEMMA LlamaReady ==
  Careful(Llama) /\ Serves(Llama) /\ Makes(Llama) /\ Kernel(Llama) /\ FillsNvme(Llama)
<1>1. Span(Llama, 5, 26, Guards, {}, Takes)
  BY LlamaParts DEF Span, Guards, Takes, Verb
<1>2. Span(Llama, 10, 12, Renews, {}, Overwrites)
  BY LlamaParts DEF Span, Cmd, Overwrites, Renews, Verb
<1>3. Span(Llama, 17, 25, Starts("homi"), Downs("homi"), HomiUsers)
  BY LlamaParts DEF Span, Cmd, Downs, HomiUsers, Starts, StopVerbs, StopsOf, Verb
<1>4. Span(Llama, 18, 24, Starts("qublk"), Downs("qublk"), Cmd(Cleanly, {"qublk"}))
  BY LlamaParts DEF Span, Cleanly, Cmd, Downs, Starts, StopVerbs, StopsOf, Verb
<1>5. Span(Llama, 20, 22, Starts("xal"), Downs("xal"), Cmd(Cleanly, {"xal"}))
  BY LlamaParts DEF Span, Cleanly, Cmd, Downs, Starts, StopVerbs, StopsOf, Verb
<1>6. Span(Llama, 18, 19, Starts("qublk"), Losers, UblkUsers)
  BY LlamaParts DEF Span, Cmd, Losers, Starts, StopVerbs, StopsOf, UblkUsers, Verb
<1>7. Span(Llama, 19, 21, Mounts("ublk"), Unmounts, UblkReaders)
  BY LlamaParts DEF Span, Cmd, Losers, Mounts, Starts, StopVerbs, StopsOf, UblkReaders,
     Unmounts,
       Verb
<1>8. Span(Llama, 11, 13, Mounts("nvme"), Unmounts, Cmd({"load"}, {"own"}))
  BY LlamaParts DEF Span, Cmd, Losers, Mounts, StopVerbs, StopsOf, Unmounts, Verb
<1>9. Spans(Llama, 11, 14, 19, 23, Verb({"mount"}), Unmounts, MountUsers)
  BY LlamaParts DEF Spans, Cmd, Losers, MountUsers, StopVerbs, StopsOf, Unmounts, Verb
<1>10. Spans(Llama, 9, 11, 14, 15, OffNvme, Mounts("nvme"), NvmeTakers)
  BY LlamaParts DEF Spans, Binds, Cmd, Mounts, NvmeTakers, OffNvme, Verb
<1>11. Span(Llama, 18, 19, OffUblk, Mounts("ublk"), Mounts("ublk"))
  BY LlamaParts DEF Span, Cmd, Mounts, OffUblk, Starts, Verb
<1>12. Span(Llama, 20, 21, Starts("xal"), Unindexes, IndexUsers)
  BY LlamaParts DEF Span, Cmd, IndexUsers, Starts, StopVerbs, StopsOf, Unindexes, Verb
<1>13. Span(Llama, 20, 21, Starts("xal"), Changes, IndexReaders)
  BY LlamaParts DEF Span, Changes, Cmd, IndexReaders, Starts, Verb
<1>14. Spans(Llama, 2, 6, 25, 26, StopsOf("homi"), Starts("homi"), Binds("nvme"))
  BY LlamaParts DEF Spans, Binds, Cmd, Starts, StopVerbs, StopsOf, Verb
<1>15. Span(Llama, 16, 22, Confs, {}, XalStop)
  BY LlamaParts DEF Span, Cmd, Confs, Verb, XalStop
<1>16. Span(Llama, 10, 19, Verb({"mkfs"}), Verb({"write"}), Verb({"mount"}))
  BY LlamaParts DEF Span, Verb
<1>17. Span(Llama, 12, 21, Verb({"fill"}), Emptiers, FileReaders)
  BY LlamaParts DEF Span, Cmd, Emptiers, FileReaders, StopVerbs, StopsOf, Verb
<1>18. Span(Llama, 3, 18, Verb({"qublk_del"}), UblkMoves, Starts("qublk"))
  BY LlamaParts DEF Span, Cmd, Starts, StopVerbs, StopsOf, UblkMoves, Verb
<1>19. Span(Llama, 15, 17, Binds("user"), Binds("nvme"), Starts("homi"))
  BY LlamaParts DEF Span, Binds, Cmd, Starts
<1>20. Span(Llama, 16, 20, Confs, {}, Starts("xal"))
  BY LlamaParts DEF Span, Cmd, Confs, Starts, Verb
<1>21. Span(Llama, 12, 20, Verb({"fill"}), {}, Starts("xal"))
  BY LlamaParts DEF Span, Cmd, Starts, Verb
<1>22. Span(Llama, 14, 20, Cmd({"umount"}, {"own"}), Verb({"fill"}), Starts("xal"))
  BY LlamaParts DEF Span, Cmd, Starts, Verb
<1>23. Span(Llama, 6, 11, Binds("nvme"), Binds("user"), NvmeUsers)
  BY LlamaParts DEF Span, Binds, Cmd, NvmeUsers
<1>24. Span(Llama, 3, 12, Verb({"qublk_del"}), Starts("qublk"), Verb({"fill"}))
  BY LlamaParts DEF Span, Cmd, Starts, Verb
<1>25. /\ Never(Llama, Cmd({"mkfs"}, {"ublk"}))
       /\ Never(Llama, Cmd({"check"}, {"no_shm"}))
  BY LlamaParts DEF Never, Cmd
<1>26. Len(Llama) \in Nat
  BY LlamaParts
<1> QED
  BY SpanReady, <1>1, <1>2, <1>3, <1>4, <1>5, <1>6, <1>7, <1>8, <1>9, <1>10, <1>11, <1>12,
     <1>13,
       <1>14, <1>15, <1>16, <1>17, <1>18, <1>19, <1>20, <1>21, <1>22, <1>23, <1>24, <1>25, <1>26
       DEF Careful, Serves, Makes, Kernel, FillsNvme

\* bench_io_modes.yaml.
LEMMA ModesReady ==
  Careful(Modes) /\ Serves(Modes) /\ Makes(Modes) /\ Kernel(Modes)
<1>1. Span(Modes, 1, 2, Guards, {}, Takes)
  BY ModesParts DEF Span, Guards, Takes, Verb
<1>2. Span(Modes, 4, 6, Starts("homi"), Downs("homi"), HomiUsers)
  BY ModesParts DEF Span, Cmd, Downs, HomiUsers, Starts, StopVerbs, StopsOf, Verb
<1>3. Span(Modes, 1, 2, OffNvme, Mounts("nvme"), NvmeTakers)
  BY ModesParts DEF Span, Binds, Cmd, Mounts, NvmeTakers, OffNvme, Verb
<1>4. Span(Modes, 2, 4, Binds("user"), Binds("nvme"), Starts("homi"))
  BY ModesParts DEF Span, Binds, Cmd, Starts
<1>5. /\ Never(Modes, Overwrites)
      /\ Never(Modes, Cmd(Cleanly, {"qublk"}))
      /\ Never(Modes, Cmd(Cleanly, {"xal"}))
      /\ Never(Modes, XalStop)
      /\ Never(Modes, UblkUsers)
      /\ Never(Modes, UblkReaders)
      /\ Never(Modes, Cmd({"load"}, {"own"}))
      /\ Never(Modes, MountUsers)
      /\ Never(Modes, Mounts("ublk"))
      /\ Never(Modes, Cmd({"mkfs"}, {"ublk"}))
      /\ Never(Modes, IndexUsers)
      /\ Never(Modes, IndexReaders)
      /\ Never(Modes, Binds("nvme"))
      /\ Never(Modes, Cmd({"check"}, {"no_shm"}))
      /\ Never(Modes, Verb({"mount"}))
      /\ Never(Modes, FileReaders)
      /\ Never(Modes, Starts("qublk"))
      /\ Never(Modes, Starts("xal"))
      /\ Never(Modes, NvmeUsers)
  BY ModesParts DEF Never, Cleanly, Binds, Cmd, FileReaders, IndexReaders, IndexUsers,
     MountUsers, Mounts,
       NvmeUsers, Overwrites, Starts, UblkReaders, UblkUsers, Verb, XalStop
<1>6. Len(Modes) \in Nat
  BY ModesParts
<1> QED
  BY SpanReady, <1>1, <1>2, <1>3, <1>4, <1>5, <1>6 DEF Careful, Serves, Makes, Kernel

\* What every workflow is.
LEMMA ProgramOrder ==
  ASSUME NEW w \in Workflows
  PROVE  /\ Program(w) \in Seq(Commands) /\ Len(Program(w)) > 0
         /\ Careful(Program(w)) /\ Serves(Program(w))
         /\ w # "aisio" => Makes(Program(w))
         /\ w # "dataset" => Kernel(Program(w))
         /\ w = "llama" => FillsNvme(Program(w))
<1>1. \A n \in {25, 12, 6, 7, 10, 26} : n > 0
  OBVIOUS
<1>2. CASE w = "smoke"
  BY <1>2, <1>1, SmokeSteps, SmokeReady, Zenon DEF Program
<1>3. CASE w = "p2p"
  BY <1>3, <1>1, P2pSteps, P2pReady, Zenon DEF Program
<1>4. CASE w = "dataset"
  BY <1>4, <1>1, DatasetSteps, DatasetReady, Zenon DEF Program
<1>5. CASE w = "configure"
  BY <1>5, <1>1, ConfigureSteps, ConfigureReady, Zenon DEF Program
<1>6. CASE w = "aisio"
  BY <1>6, <1>1, AisioSteps, AisioReady, Zenon DEF Program
<1>7. CASE w = "llama"
  BY <1>7, <1>1, LlamaSteps, LlamaReady, Zenon DEF Program
<1>8. CASE w = "modes"
  BY <1>8, <1>1, ModesSteps, ModesReady, Zenon DEF Program
<1> QED
  BY <1>2, <1>3, <1>4, <1>5, <1>6, <1>7, <1>8, StackAssumption

\* What bench_aisio and setup_dataset leave to the workflows before them, and how
\* configure_daemons and bench_aisio leave the daemons.
LEMMA PreparedOrder ==
  /\ Never(Aisio, Verb({"bind", "mkfs", "fill", "write", "conf"}))
  /\ Never(Dataset, Verb({"bind"}))
  /\ \A i \in 1..Len(Aisio) : Aisio[i] \in Starts("qublk") => i = 2
  /\ Leaves(Configure, Confs, {}) /\ Leaves(Configure, UblkEnds, Starts("qublk"))
  /\ Leaves(Aisio, UblkEnds, Starts("qublk"))
<1>1. Never(Aisio, Verb({"bind", "mkfs", "fill", "write", "conf"}))
  BY AisioParts DEF Never, Verb
<1>2. Never(Dataset, Verb({"bind"}))
  BY DatasetParts DEF Never, Verb
<1>3. \A i \in 1..Len(Aisio) : Aisio[i] \in Starts("qublk") => i = 2
  BY AisioParts DEF Starts, Cmd
<1>4. Leaves(Configure, Confs, {})
  <2>1. 7 \in 1..Len(Configure) /\ Configure[7] \in Confs
    BY ConfigureParts DEF Confs, Verb
  <2> QED
    BY <2>1 DEF Leaves
<1>5. Leaves(Configure, UblkEnds, Starts("qublk"))
  <2>1. 4 \in 1..Len(Configure) /\ Configure[4] \in UblkEnds
    BY ConfigureParts DEF UblkEnds, Verb
  <2>2. \A k \in 5..Len(Configure) : Configure[k] \notin Starts("qublk")
    BY ConfigureParts DEF Starts, Cmd
  <2> QED
    BY <2>1, <2>2 DEF Leaves
<1>6. Leaves(Aisio, UblkEnds, Starts("qublk"))
  <2>1. 9 \in 1..Len(Aisio) /\ Aisio[9] \in UblkEnds
    BY AisioParts DEF UblkEnds, StopsOf, StopVerbs, Cmd
  <2>2. \A k \in 10..Len(Aisio) : Aisio[k] \notin Starts("qublk")
    BY AisioParts DEF Starts, Cmd
  <2> QED
    BY <2>1, <2>2 DEF Leaves
<1> QED
  BY <1>1, <1>2, <1>3, <1>4, <1>5, <1>6

-----------------------------------------------------------------------------
(* The clean end *)

\* What a run opens, and the stops it closes with
Opens == Verb({"start", "mount"}) \cup Binds("user")
Stops == Verb({"stop"})

\* The workflows that promise a clean end, and what the shortest leaves out
Checked == {"smoke", "p2p", "llama"}
Extra   == Cmd({"start"}, {"qublk", "xal"}) \cup Verb({"mount"})

\* Up to s[e] nothing is stopped, and after it nothing is opened.
Closes(s, e) ==
  \A i \in 1..Len(s) : /\ s[i] \in Opens => i <= e
                       /\ s[i] \in Stops => i > e

\* A command is one of the sequence, and the drive is given back after homi's stop
In(s, c)     == \E i \in 1..Len(s) : s[i] = c
HandsBack(s) == \E i, j \in 1..Len(s) :
                  i < j /\ s[i] = <<"stop", "homi">> /\ s[j] = <<"bind", "nvme">>

\* Smoke: what it closes.
LEMMA SmokeCloses ==
  /\ In(Smoke, <<"stop", "homi">>) /\ In(Smoke, <<"stop_units", "all">>)
  /\ In(Smoke, <<"qublk_del", "own">>) /\ In(Smoke, <<"stop", "qublk">>)
  /\ In(Smoke, <<"stop", "xal">>)
  /\ HandsBack(Smoke) /\ Closes(Smoke, 16)
<1>1. Smoke \in Seq(Commands) /\ Len(Smoke) = 25
  BY SmokeSteps
<1>2. /\ Smoke[24] = <<"stop", "homi">> /\ Smoke[2] = <<"stop_units", "all">>
      /\ Smoke[3] = <<"qublk_del", "own">> /\ Smoke[23] = <<"stop", "qublk">>
      /\ Smoke[20] = <<"stop", "xal">> /\ Smoke[25] = <<"bind", "nvme">>
  BY SmokeSteps
<1>3. /\ 2 \in 1..Len(Smoke) /\ 3 \in 1..Len(Smoke) /\ 20 \in 1..Len(Smoke)
      /\ 23 \in 1..Len(Smoke) /\ 24 \in 1..Len(Smoke) /\ 25 \in 1..Len(Smoke) /\ 24 < 25
  BY <1>1
<1>4. Closes(Smoke, 16)
  BY SmokeParts DEF Closes, Opens, Stops, Verb, Binds, Cmd
<1> QED
  BY <1>2, <1>3, <1>4, Zenon DEF In, HandsBack

\* P2p: what it closes.
LEMMA P2pCloses ==
  /\ In(P2p, <<"stop", "homi">>) /\ In(P2p, <<"stop_units", "all">>)
  /\ In(P2p, <<"qublk_del", "own">>)
  /\ HandsBack(P2p) /\ Closes(P2p, 6)
  /\ Never(P2p, Extra)
<1>1. P2p \in Seq(Commands) /\ Len(P2p) = 12
  BY P2pSteps
<1>2. /\ P2p[9] = <<"stop", "homi">> /\ P2p[3] = <<"stop_units", "all">>
      /\ P2p[4] = <<"qublk_del", "own">> /\ P2p[10] = <<"bind", "nvme">>
  BY P2pSteps
<1>3. /\ 3 \in 1..Len(P2p) /\ 4 \in 1..Len(P2p) /\ 9 \in 1..Len(P2p) /\ 10 \in 1..Len(P2p)
      /\ 9 < 10
  BY <1>1
<1>4. Closes(P2p, 6)
  BY P2pParts DEF Closes, Opens, Stops, Verb, Binds, Cmd
<1>5. Never(P2p, Extra)
  BY P2pParts DEF Never, Extra, Verb, Cmd
<1> QED
  BY <1>2, <1>3, <1>4, <1>5, Zenon DEF In, HandsBack

\* Llama: what it closes.
LEMMA LlamaCloses ==
  /\ In(Llama, <<"stop", "homi">>) /\ In(Llama, <<"stop_units", "all">>)
  /\ In(Llama, <<"qublk_del", "own">>) /\ In(Llama, <<"stop", "qublk">>)
  /\ In(Llama, <<"stop", "xal">>)
  /\ HandsBack(Llama) /\ Closes(Llama, 20)
<1>1. Llama \in Seq(Commands) /\ Len(Llama) = 26
  BY LlamaSteps
<1>2. /\ Llama[25] = <<"stop", "homi">> /\ Llama[2] = <<"stop_units", "all">>
      /\ Llama[3] = <<"qublk_del", "own">> /\ Llama[24] = <<"stop", "qublk">>
      /\ Llama[22] = <<"stop", "xal">> /\ Llama[26] = <<"bind", "nvme">>
  BY LlamaSteps
<1>3. /\ 2 \in 1..Len(Llama) /\ 3 \in 1..Len(Llama) /\ 22 \in 1..Len(Llama)
      /\ 24 \in 1..Len(Llama) /\ 25 \in 1..Len(Llama) /\ 26 \in 1..Len(Llama) /\ 25 < 26
  BY <1>1
<1>4. Closes(Llama, 20)
  BY LlamaParts DEF Closes, Opens, Stops, Verb, Binds, Cmd
<1> QED
  BY <1>2, <1>3, <1>4, Zenon DEF In, HandsBack

\* The workflows that take the drive and hand it back close what they open, and
\* open nothing after that.
LEMMA ClosingOrder ==
  ASSUME NEW w \in Checked
  PROVE  /\ \E e \in Nat : Closes(Program(w), e)
         /\ HandsBack(Program(w))
         /\ In(Program(w), <<"stop", "homi">>) /\ In(Program(w), <<"stop_units", "all">>)
         /\ In(Program(w), <<"qublk_del", "own">>)
         /\ w # "p2p" => In(Program(w), <<"stop", "qublk">>) /\ In(Program(w), <<"stop", "xal">>)
         /\ w = "p2p" => Never(Program(w), Extra)
<1>1. Program("smoke") = Smoke /\ Program("p2p") = P2p /\ Program("llama") = Llama
  BY DEF Program
<1>2. 16 \in Nat /\ 6 \in Nat /\ 20 \in Nat
  OBVIOUS
<1> QED
  BY <1>1, <1>2, SmokeCloses, P2pCloses, LlamaCloses DEF Checked

\* A workflow that looks for any mount of the drive mounts nothing itself; the others
\* tell their looks the mountpoint they mount at.
LEMMA LooksOrder ==
  ASSUME NEW w \in Workflows
  PROVE  IF w \in {"p2p", "modes"} THEN Never(Program(w), Verb({"mount"}))
                                   ELSE Never(Program(w), Cmd({"guard"}, {"none"}))
<1>1. Never(P2p, Verb({"mount"}))
  BY P2pParts DEF Never, Verb
<1>2. Never(Modes, Verb({"mount"}))
  BY ModesParts DEF Never, Verb
<1>3. Never(Smoke, Cmd({"guard"}, {"none"}))
  BY SmokeParts DEF Never, Cmd
<1>4. Never(Dataset, Cmd({"guard"}, {"none"}))
  BY DatasetParts DEF Never, Cmd
<1>5. Never(Configure, Cmd({"guard"}, {"none"}))
  BY ConfigureParts DEF Never, Cmd
<1>6. Never(Aisio, Cmd({"guard"}, {"none"}))
  BY AisioParts DEF Never, Cmd
<1>7. Never(Llama, Cmd({"guard"}, {"none"}))
  BY LlamaParts DEF Never, Cmd
<1>8. /\ w = "smoke" => Program(w) = Smoke
      /\ w = "p2p" => Program(w) = P2p
      /\ w = "dataset" => Program(w) = Dataset
      /\ w = "configure" => Program(w) = Configure
      /\ w = "aisio" => Program(w) = Aisio
      /\ w = "llama" => Program(w) = Llama
      /\ w = "modes" => Program(w) = Modes
  BY Zenon DEF Program
<1>9. w \in {"smoke", "p2p", "dataset", "configure", "aisio", "llama", "modes"}
  BY StackAssumption
<1> QED
  BY <1>1, <1>2, <1>3, <1>4, <1>5, <1>6, <1>7, <1>8, <1>9, Zenon
=============================================================================
