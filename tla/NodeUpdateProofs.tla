-------------------------- MODULE NodeUpdateProofs --------------------------
(***************************************************************************)
(* Proofs about PidFile, for every set of processes, every assignment of   *)
(* pid lengths and every lock length, and about NodeUpdate: what PidFile   *)
(* guarantees survives supervision and updates, and the updater's          *)
(* "kill -9" finds the node.                                               *)
(***************************************************************************)
EXTENDS NodeUpdate, TLAPS

USE ProcAssumption, LockAssumption, OverlapAssumption, NoProcAssumption, MaxFaultsAssumption,
    ZenonT(5), SMTT(20), ZenonT(40)

(***************************************************************************)
(* What a process writes is a sequence of bytes, and two processes never   *)
(* leave the same complete pid file.                                       *)
(***************************************************************************)
LEMMA DigitsProps ==
  ASSUME NEW p \in Proc
  PROVE  /\ Digits(p) \in Seq(Proc)
         /\ Len(Digits(p)) = PidLen[p]
         /\ \A q \in Proc : Digits(p) = Digits(q) => p = q
<1>1. PidLen[p] \in Nat /\ PidLen[p] >= 1
  OBVIOUS
<1>2. Digits(p) \in Seq(Proc) /\ Len(Digits(p)) = PidLen[p]
  BY <1>1 DEF Digits
<1>3. ASSUME NEW q \in Proc, Digits(p) = Digits(q) PROVE p = q
  <2>1. Digits(p)[1] = p
    BY <1>1 DEF Digits
  <2>2. Digits(q)[1] = q
    BY DEF Digits
  <2> QED
    BY <1>3, <2>1, <2>2
<1> QED
  BY <1>2, <1>3

(***************************************************************************)
(* Overwriting a prefix yields a sequence of bytes; on the empty file it   *)
(* yields exactly the digits written.                                      *)
(***************************************************************************)
LEMMA OverwriteProps ==
  ASSUME NEW p \in Proc, NEW bytes \in Seq(Proc)
  PROVE  /\ Overwrite(bytes, p) \in Seq(Proc)
         /\ bytes = <<>> => Overwrite(bytes, p) = Digits(p)
<1> DEFINE n == IF Len(bytes) > PidLen[p] THEN Len(bytes) ELSE PidLen[p]
<1>1. n \in Nat /\ PidLen[p] \in Nat /\ PidLen[p] >= 1
  OBVIOUS
<1>2. \A i \in 1..n : (IF i <= PidLen[p] THEN p ELSE bytes[i]) \in Proc
  OBVIOUS
<1>3. Overwrite(bytes, p) = [i \in 1..n |-> IF i <= PidLen[p] THEN p ELSE bytes[i]]
  BY DEF Overwrite
<1> HIDE DEF n
<1>4. Overwrite(bytes, p) \in Seq(Proc)
  BY <1>1, <1>2, <1>3
<1>5. ASSUME bytes = <<>> PROVE Overwrite(bytes, p) = Digits(p)
  <2>1. n = PidLen[p]
    BY <1>1, <1>5 DEF n
  <2> QED
    BY <1>1, <1>3, <2>1 DEF Digits
<1> QED
  BY <1>4, <1>5

(***************************************************************************)
(* Every variable keeps its type.                                          *)
(***************************************************************************)
THEOREM TypeCorrect == Spec => []TypeOK
<1>1. Init => TypeOK
  <2> SUFFICES ASSUME Init PROVE TypeOK
    OBVIOUS
  <2>1. pc \in [Proc -> Starting \cup {"idle", "run"}] /\ off \in [Proc -> Nat]
    BY DEF Init
  <2>2. present \in BOOLEAN
    BY DEF Init
  <2>3. file \in Seq(Proc)
    <3>1. <<>> \in Seq(Proc)
      OBVIOUS
    <3>2. \A p \in Proc : Digits(p) \in Seq(Proc)
      BY DigitsProps
    <3>3. file = <<>> \/ \E p \in Proc : file = Digits(p)
      BY DEF Init
    <3> QED
      BY <3>1, <3>2, <3>3
  <2> QED
    BY <2>1, <2>2, <2>3 DEF TypeOK
<1>2. TypeOK /\ [Next]_vars => TypeOK'
  <2> SUFFICES ASSUME TypeOK, [Next]_vars PROVE TypeOK'
    OBVIOUS
  <2> USE DEF TypeOK, Starting, Goto, At, Closed
  <2>1. ASSUME NEW p \in Proc, Start(p) PROVE TypeOK'
    BY <2>1 DEF Start
  <2>2. ASSUME NEW p \in Proc, OpenRead(p) PROVE TypeOK'
    BY <2>2 DEF OpenRead
  <2>3. ASSUME NEW p \in Proc, Scan(p) PROVE TypeOK'
    BY <2>3 DEF Scan
  <2>4. ASSUME NEW p \in Proc, Test(p) PROVE TypeOK'
    BY <2>4 DEF Test
  <2>5. ASSUME NEW p \in Proc, OpenWrite(p) PROVE TypeOK'
    BY <2>5 DEF OpenWrite
  <2>6. ASSUME NEW p \in Proc, OpenWriteFails(p) PROVE TypeOK'
    BY <2>6 DEF OpenWriteFails
  <2>7. ASSUME NEW p \in Proc, WritePid(p) PROVE TypeOK'
    BY <2>7, OverwriteProps DEF WritePid
  <2>8. ASSUME NEW p \in Proc, TryLock(p) PROVE TypeOK'
    BY <2>8 DEF TryLock
  <2>9. ASSUME NEW p \in Proc, Exit(p) PROVE TypeOK'
    BY <2>9 DEF Exit
  <2>10. ASSUME NEW p \in Proc, KilledStarting(p) PROVE TypeOK'
    BY <2>10 DEF KilledStarting
  <2>11. CASE HostDown
    <3>1. present' \in BOOLEAN
      BY <2>11 DEF HostDown
    <3>2. file' \in Seq(Proc)
      <4>1. file' = file \/ file' = <<>>
        BY <2>11 DEF HostDown
      <4>2. <<>> \in Seq(Proc) /\ file \in Seq(Proc)
        OBVIOUS
      <4> QED
        BY <4>1, <4>2
    <3>3. pc' \in [Proc -> Starting \cup {"idle", "run"}] /\ off' \in [Proc -> Nat]
      BY <2>11 DEF HostDown
    <3> QED
      BY <3>1, <3>2, <3>3
  <2>12. CASE UNCHANGED vars
    BY <2>12 DEF vars
  <2> QED
    BY <2>1, <2>2, <2>3, <2>4, <2>5, <2>6, <2>7, <2>8, <2>9, <2>10, <2>11, <2>12
       DEF Next, Check
<1> QED
  BY <1>1, <1>2, PTL DEF Spec

-----------------------------------------------------------------------------
(***************************************************************************)
(* Overlapping starts.  Two nodes never hold intersecting regions, so when *)
(* any two regions intersect there is at most one node.                    *)
(***************************************************************************)
DisjointLocks ==
  \A p, q \in Proc :
    Running(p) /\ Running(q) /\ p # q =>
      PidLen[p] >= PidLen[q] + LockLen \/ PidLen[q] >= PidLen[p] + LockLen

(***************************************************************************)
(* The locked regions of two running nodes are disjoint, however their     *)
(* starts interleave.                                                      *)
(***************************************************************************)
LEMMA LocksDisjoint == Spec => []DisjointLocks
<1>1. Init => DisjointLocks
  BY DEF Init, DisjointLocks, Running
<1>2. TypeOK /\ DisjointLocks /\ [Next]_vars => DisjointLocks'
  <2> SUFFICES ASSUME TypeOK, DisjointLocks, [Next]_vars,
                      NEW p \in Proc, NEW q \in Proc,
                      pc'[p] = "run", pc'[q] = "run", p # q
               PROVE  PidLen[p] >= PidLen[q] + LockLen \/ PidLen[q] >= PidLen[p] + LockLen
    BY DEF DisjointLocks, Running
  <2>1. CASE pc[p] = "run" /\ pc[q] = "run"
    BY <2>1 DEF DisjointLocks, Running
  <2>2. ASSUME NEW r \in Proc, pc[r] # "run", pc'[r] = "run"
        PROVE  TryLock(r) /\ ~LockConflict(r)
    <3> USE DEF Goto, At, TypeOK
    <3>1. PICK s \in Proc : Start(s) \/ Check(s) \/ Exit(s) \/ KilledStarting(s)
      BY <2>2 DEF Next, vars, HostDown
    <3>2. pc' = [pc EXCEPT ![s] = pc'[s]]
      BY <3>1 DEF Check, Start, OpenRead, Scan, Test, OpenWrite, OpenWriteFails,
                  WritePid, TryLock, Exit, KilledStarting
    <3>3. s = r
      BY <2>2, <3>2
    <3>4. TryLock(r)
      BY <2>2, <3>1, <3>3 DEF Check, Start, OpenRead, Scan, Test, OpenWrite,
                  OpenWriteFails, WritePid, Exit, KilledStarting
    <3> QED
      BY <2>2, <3>4 DEF TryLock
  <2>3. CASE pc[p] # "run"
    <3>1. TryLock(p) /\ ~LockConflict(p)
      BY <2>2, <2>3
    <3>2. pc[q] = "run"
      BY <3>1 DEF TryLock, Goto, TypeOK
    <3> QED
      BY <3>1, <3>2 DEF LockConflict, Running
  <2>4. CASE pc[q] # "run"
    <3>1. TryLock(q) /\ ~LockConflict(q)
      BY <2>2, <2>4
    <3>2. pc[p] = "run"
      BY <3>1 DEF TryLock, Goto, TypeOK
    <3> QED
      BY <3>1, <3>2 DEF LockConflict, Running
  <2> QED
    BY <2>1, <2>3, <2>4
<1> QED
  BY <1>1, <1>2, TypeCorrect, PTL DEF Spec

-----------------------------------------------------------------------------
(***************************************************************************)
(* Serialised starts.  One start at a time; a running node is named by the *)
(* file; a start that passed the test runs alone; F_TEST is called with    *)
(* the offset at the end of the file, just below the region of the node    *)
(* the file names.                                                         *)
(***************************************************************************)
SerialInv ==
  /\ \A p, q \in Proc : pc[p] \in Starting /\ pc[q] \in Starting => p = q
  /\ \A p \in Proc : Running(p) => Names(p)
  /\ \A p \in Proc : pc[p] = "test" => off[p] = Len(file)
  /\ \A p \in Proc : pc[p] \in {"trunc", "write", "lock"} => \A q \in Proc : ~Running(q)
  /\ \A p \in Proc : pc[p] = "write" => present /\ file = <<>>
  /\ \A p \in Proc : pc[p] = "lock" => Names(p)

(***************************************************************************)
(* With serialised starts SerialInv holds for ever.                        *)
(***************************************************************************)
LEMMA SerialInvariant == ~Overlap /\ Spec => []SerialInv
<1>1. Init => SerialInv
  BY DEF Init, SerialInv, Running, Starting
<1>2. ~Overlap /\ TypeOK /\ SerialInv /\ [Next]_vars => SerialInv'
  <2> SUFFICES ASSUME ~Overlap, TypeOK, SerialInv, [Next]_vars PROVE SerialInv'
    OBVIOUS
  <2> USE DEF TypeOK, SerialInv, Starting, Goto, At, Closed, Running, Names
  <2>1. ASSUME NEW p \in Proc, Start(p) PROVE SerialInv'
    BY <2>1 DEF Start
  <2>2. ASSUME NEW p \in Proc, OpenRead(p) PROVE SerialInv'
    BY <2>2 DEF OpenRead
  <2>3. ASSUME NEW p \in Proc, Scan(p) PROVE SerialInv'
    BY <2>3 DEF Scan
  <2>4. ASSUME NEW p \in Proc, Test(p) PROVE SerialInv'
    <3>1. ASSUME NEW q \in Proc, Running(q) PROVE TestConflict(p)
      <4>1. q # p
        BY <2>4, <3>1 DEF Test
      <4>2. off[p] = PidLen[q]
        BY <2>4, <3>1, DigitsProps DEF Test
      <4> QED
        BY <3>1, <4>1, <4>2 DEF TestConflict
    <3> QED
      BY <2>4, <3>1 DEF Test
  <2>5. ASSUME NEW p \in Proc, OpenWrite(p) PROVE SerialInv'
    BY <2>5 DEF OpenWrite
  <2>6. ASSUME NEW p \in Proc, OpenWriteFails(p) PROVE SerialInv'
    BY <2>6 DEF OpenWriteFails
  <2>7. ASSUME NEW p \in Proc, WritePid(p) PROVE SerialInv'
    <3>1. file' = Digits(p)
      BY <2>7, OverwriteProps DEF WritePid
    <3> QED
      BY <2>7, <3>1 DEF WritePid
  <2>8. ASSUME NEW p \in Proc, TryLock(p) PROVE SerialInv'
    BY <2>8 DEF TryLock
  <2>9. ASSUME NEW p \in Proc, Exit(p) PROVE SerialInv'
    BY <2>9 DEF Exit
  <2>10. ASSUME NEW p \in Proc, KilledStarting(p) PROVE SerialInv'
    BY <2>10 DEF KilledStarting
  <2>11. CASE HostDown
    BY <2>11 DEF HostDown
  <2>12. CASE UNCHANGED vars
    BY <2>12 DEF vars
  <2> HIDE DEF TypeOK, SerialInv, Starting, Goto, At, Closed, Running, Names
  <2> QED
    BY <2>1, <2>2, <2>3, <2>4, <2>5, <2>6, <2>7, <2>8, <2>9, <2>10, <2>11, <2>12
       DEF Next, Check
<1>3. ~Overlap => [](~Overlap)
  OBVIOUS
<1> QED
  BY <1>1, <1>2, <1>3, TypeCorrect, PTL DEF Spec

(***************************************************************************)
(* With serialised starts the pid file names the running node, whatever    *)
(* the pids: a refused start has left the file alone.                      *)
(***************************************************************************)
THEOREM PidFileTruthful == Spec => []PidFileNamesNode
<1>1. SerialInv => PidFileNamesNode
  BY DEF SerialInv, PidFileNamesNode
<1>2. CASE ~Overlap
  BY <1>1, <1>2, SerialInvariant, PTL
<1>3. CASE Overlap
  <2>1. PidFileNamesNode
    BY <1>3 DEF PidFileNamesNode
  <2> QED
    BY <2>1, PTL
<1> QED
  BY <1>2, <1>3

(***************************************************************************)
(* At most one node gets past s_proc_running_check, with serialised starts *)
(* for all pids, with overlapping starts for pids of close lengths.        *)
(***************************************************************************)
THEOREM MutualExclusion == Spec => []OneNode
<1>1. SerialInv => OneNode
  BY DigitsProps DEF SerialInv, OneNode, Names
<1>2. CloseLengths /\ DisjointLocks => OneNode
  BY DEF CloseLengths, DisjointLocks, OneNode
<1>3. CASE ~Overlap
  BY <1>1, <1>3, SerialInvariant, PTL
<1>4. CASE CloseLengths
  BY <1>2, <1>4, LocksDisjoint, PTL
<1>5. CASE Overlap /\ ~CloseLengths
  <2>1. OneNode
    BY <1>5 DEF OneNode
  <2> QED
    BY <2>1, PTL
<1> QED
  BY <1>3, <1>4, <1>5

(***************************************************************************)
(* Under the condition of MutualExclusion, s_proc_running_check implements *)
(* SingleInstance: the directory is handed from one node to the next only  *)
(* through a moment without any.                                           *)
(***************************************************************************)
THEOREM CheckImplementsSingleInstance ==
  ASSUME ~Overlap \/ CloseLengths
  PROVE  Spec => ImplementsSingleInstance
<1> DEFINE ran == {p \in Proc : Running(p)}
<1>1. Init => Guard!Init
  BY DEF Init, Running, Guard!Init
<1>2. TypeOK /\ OneNode /\ OneNode' /\ [Next]_vars => [Guard!Next]_ran
  <2> SUFFICES ASSUME TypeOK, OneNode, OneNode', [Next]_vars, ran' # ran
               PROVE  Guard!Next
    OBVIOUS
  <2>1. CASE ran' = {}
    BY <2>1 DEF Guard!Next, Guard!Release
  <2>2. ASSUME NEW p \in ran' PROVE Guard!Next
    <3>1. ran' = {p} /\ p \in Proc
      BY <2>2 DEF OneNode, Running
    <3>2. ~HostDown /\ ~UNCHANGED vars
      BY <2>2 DEF HostDown, vars, Running
    <3>3. PICK s \in Proc : Start(s) \/ Check(s) \/ Exit(s) \/ KilledStarting(s)
      BY <3>2 DEF Next
    <3>4. pc' = [pc EXCEPT ![s] = pc'[s]]
      BY <3>3 DEF Check, Start, OpenRead, Scan, Test, OpenWrite, OpenWriteFails,
                  WritePid, TryLock, Exit, KilledStarting, Goto, TypeOK
    <3>5. s # p => p \in ran
      BY <3>1, <3>4 DEF TypeOK, Running
    <3>6. p \in ran => ran = {p}
      BY DEF OneNode, Running
    <3>7. p \notin ran /\ s = p
      BY <3>1, <3>5, <3>6
    <3>8. \A q \in ran : q # p /\ q \in ran'
      BY <3>4, <3>7 DEF TypeOK, Running
    <3>9. ran = {}
      BY <3>1, <3>8
    <3> QED
      BY <3>1, <3>9 DEF Guard!Next, Guard!Acquire
  <2> QED
    BY <2>1, <2>2
<1> QED
  BY <1>1, <1>2, TypeCorrect, MutualExclusion, PTL
     DEF Spec, ImplementsSingleInstance, Guard!Spec

(***************************************************************************)
(* With serialised starts F_TEST decides: no start that truncated the file *)
(* is turned away by F_TLOCK.                                              *)
(***************************************************************************)
THEOREM EarlyTestDecides == Spec => []TestDecides
<1>1. SerialInv => TestDecides
  BY DEF SerialInv, TestDecides, LockConflict
<1>2. CASE ~Overlap
  BY <1>1, <1>2, SerialInvariant, PTL
<1>3. CASE Overlap
  <2>1. TestDecides
    BY <1>3 DEF TestDecides
  <2> QED
    BY <2>1, PTL
<1> QED
  BY <1>2, <1>3

-----------------------------------------------------------------------------
\* The host: supervision and updates.

(***************************************************************************)
(* Every variable of the host keeps its type.                              *)
(***************************************************************************)
LEMMA SysTypeCorrect == SysSpec => []SysTypeOK
<1>1. SysInit => SysTypeOK
  <2> SUFFICES ASSUME SysInit PROVE SysTypeOK
    OBVIOUS
  <2>1. wanted \in BOOLEAN /\ enabled \in BOOLEAN /\ fired \in BOOLEAN
    BY DEF SysInit
  <2>2. /\ svc = NoProc /\ installed = "old" /\ dpkg = "idle" /\ faults = 0
        /\ upd = [u \in Script |-> "idle"] /\ victims = [u \in Script |-> {}]
    BY DEF SysInit
  <2> QED
    BY <2>1, <2>2 DEF SysTypeOK
<1>2. SysTypeOK /\ [SysNext]_allVars => SysTypeOK'
  <2> SUFFICES ASSUME SysTypeOK, [SysNext]_allVars PROVE SysTypeOK'
    OBVIOUS
  <2> USE DEF SysTypeOK, AfterKill, Ended, StopSvc, StopAndKeep, ScriptGoto, Bury, pkgVars
  <2>1. ASSUME NEW p \in Proc, HandStart(p) PROVE SysTypeOK'
    BY <2>1 DEF HandStart, sysVars
  <2>2. ASSUME NEW p \in Proc, SvcStart(p) PROVE SysTypeOK'
    BY <2>2 DEF SvcStart
  <2>3. ASSUME NEW p \in Proc, CheckStep(p) PROVE SysTypeOK'
    BY <2>3 DEF CheckStep
  <2>4. ASSUME NEW p \in Proc, Dies(p) PROVE SysTypeOK'
    BY <2>4 DEF Dies
  <2>5. CASE ServiceStart \/ ServiceStop \/ ServiceRestart
    BY <2>5 DEF ServiceStart, ServiceStop, ServiceRestart
  <2>6. ASSUME NEW on \in BOOLEAN, ServiceEnable(on) PROVE SysTypeOK'
    BY <2>6 DEF ServiceEnable
  <2>7. ASSUME NEW u \in Script, UpdBegin(u) PROVE SysTypeOK'
    BY <2>7 DEF UpdBegin
  <2>8. ASSUME NEW u \in Script, UpdCheck(u) PROVE SysTypeOK'
    BY <2>8 DEF UpdCheck
  <2>9. ASSUME NEW u \in Script, UpdStop(u) \/ UpdStopFails(u) PROVE SysTypeOK'
    <3>1. CASE UpdStop(u)
      <4>1. victims' \in [Script -> SUBSET Proc]
        BY <3>1 DEF UpdStop
      <4>2. svc' \in Proc \cup {NoProc} /\ wanted' \in BOOLEAN
        BY <3>1 DEF UpdStop
      <4> QED
        BY <3>1, <4>1, <4>2 DEF UpdStop
    <3>2. CASE UpdStopFails(u)
      BY <3>2 DEF UpdStopFails
    <3> QED
      BY <2>9, <3>1, <3>2
  <2>10. ASSUME NEW u \in Script, UpdKill(u) PROVE SysTypeOK'
    BY <2>10 DEF UpdKill
  <2>11. ASSUME NEW u \in Script, DpkgLocked(u) \/ Prerm(u) \/ InstallAnew(u) PROVE SysTypeOK'
    <3>1. CASE Prerm(u)
      <4>1. upd' \in [Script -> {"idle", "failed", "check", "stop", "kill"} \cup AfterKill]
        BY <3>1 DEF Prerm, WithoutUpdater, Script
      <4>2. svc' \in Proc \cup {NoProc} /\ wanted' \in BOOLEAN
        BY <3>1 DEF Prerm
      <4> QED
        BY <3>1, <4>1, <4>2 DEF Prerm
    <3>2. CASE DpkgLocked(u) \/ InstallAnew(u)
      BY <3>2 DEF DpkgLocked, InstallAnew
    <3> QED
      BY <2>11, <3>1, <3>2
  <2>12. ASSUME NEW u \in Script, Unpack(u) \/ Postinst(u) PROVE SysTypeOK'
    BY <2>12 DEF Unpack, Postinst
  <2>13. ASSUME NEW u \in Script, UpdRestart(u) PROVE SysTypeOK'
    BY <2>13 DEF UpdRestart
  <2>18. ASSUME NEW u \in Script, UpdClearFails(u) PROVE SysTypeOK'
    BY <2>18 DEF UpdClearFails
  <2>19. ASSUME NEW u \in Script, DpkgFails(u) PROVE SysTypeOK'
    <3>1. faults' \in 0..MaxFaults
      BY <2>19 DEF DpkgFails
    <3>2. wanted' \in BOOLEAN
      BY <2>19 DEF DpkgFails
    <3>3. enabled' \in BOOLEAN /\ fired' \in BOOLEAN
      BY <2>19 DEF DpkgFails
    <3> QED
      BY <2>19, <3>1, <3>2, <3>3 DEF DpkgFails
  <2>14. CASE RemoveStop \/ RemoveStopUpdater
    BY <2>14 DEF RemoveStop, RemoveStopUpdater, WithoutUpdater
  <2>15. CASE RemoveDisable \/ RemoveFiles \/ Install
    <3>1. CASE RemoveDisable
      BY <3>1 DEF RemoveDisable
    <3>2. CASE RemoveFiles
      BY <3>2 DEF RemoveFiles
    <3>3. CASE Install
      BY <3>3 DEF Install
    <3> QED
      BY <2>15, <3>1, <3>2, <3>3
  <2>16. CASE Reboot
    <3>1. faults' \in 0..MaxFaults
      BY <2>16 DEF Reboot
    <3>2. wanted' \in BOOLEAN
      BY <2>16 DEF Reboot
    <3>3. enabled' \in BOOLEAN /\ fired' \in BOOLEAN
      BY <2>16 DEF Reboot
    <3> QED
      BY <2>16, <3>1, <3>2, <3>3 DEF Reboot
  <2>17. CASE UNCHANGED allVars
    BY <2>17 DEF allVars, sysVars
  <2> HIDE DEF SysTypeOK, AfterKill, Ended, StopSvc, StopAndKeep, ScriptGoto, Bury, pkgVars
  <2> QED
    BY <2>1, <2>2, <2>3, <2>4, <2>5, <2>6, <2>7, <2>8, <2>9, <2>10, <2>11, <2>12,
       <2>13, <2>14, <2>15, <2>16, <2>17, <2>18, <2>19
       DEF SysNext, ServiceCommand, UpdateScript, Package
<1> QED
  BY <1>1, <1>2, PTL DEF SysSpec

(***************************************************************************)
(* Steps that leave the processes, the pid file and the victims alone, and *)
(* do not bring the script past its kill.                                  *)
(***************************************************************************)
Silent ==
  /\ UNCHANGED <<vars, victims>>
  /\ \A u \in Script : upd'[u] \in AfterKill => upd[u] \in AfterKill

(***************************************************************************)
(* The steps of one script that are silent.                                *)
(***************************************************************************)
SilentStep(u) ==
  \/ UpdBegin(u) \/ UpdCheck(u) \/ UpdStopFails(u) \/ UpdClearFails(u)
  \/ DpkgLocked(u) \/ InstallAnew(u) \/ Unpack(u) \/ Postinst(u) \/ DpkgFails(u)

(***************************************************************************)
(* Most steps of the scripts are silent.                                   *)
(***************************************************************************)
LEMMA SilentSteps ==
  ASSUME SysTypeOK
  PROVE  /\ ServiceStart => Silent
         /\ \A on \in BOOLEAN : ServiceEnable(on) => Silent
         /\ \A u \in Script : SilentStep(u) => Silent
         /\ RemoveStopUpdater \/ RemoveDisable \/ RemoveFiles \/ Install => Silent
<1> USE DEF Silent, AfterKill, ScriptGoto
<1>1. ServiceStart => Silent
  BY DEF ServiceStart
<1>2. \A on \in BOOLEAN : ServiceEnable(on) => Silent
  BY DEF ServiceEnable
<1>3. ASSUME NEW u \in Script, SilentStep(u) PROVE Silent
  <2>1. PICK to : upd' = [upd EXCEPT ![u] = to] /\ (to \in AfterKill => upd[u] \in AfterKill)
    <3>1. CASE UpdBegin(u) \/ UpdCheck(u) \/ UpdStopFails(u) \/ UpdClearFails(u)
      BY <3>1 DEF UpdBegin, UpdCheck, UpdStopFails, UpdClearFails
    <3>2. CASE DpkgLocked(u) \/ InstallAnew(u) \/ Unpack(u) \/ Postinst(u) \/ DpkgFails(u)
      BY <3>2 DEF DpkgLocked, InstallAnew, Unpack, Postinst, DpkgFails
    <3> QED
      BY <1>3, <3>1, <3>2 DEF SilentStep
  <2>2. \A v \in Script : upd'[v] \in AfterKill => upd[v] \in AfterKill
    BY <2>1 DEF SysTypeOK
  <2>3. UNCHANGED <<vars, victims>>
    BY <1>3 DEF SilentStep, UpdBegin, UpdCheck, UpdStopFails, UpdClearFails, DpkgLocked,
                InstallAnew, Unpack, Postinst, DpkgFails
  <2> QED
    BY <2>2, <2>3
<1>4. RemoveStopUpdater => Silent
  BY DEF RemoveStopUpdater, WithoutUpdater, Ended, Script, SysTypeOK
<1>5. RemoveDisable \/ RemoveFiles \/ Install => Silent
  BY DEF RemoveDisable, RemoveFiles, Install
<1> QED
  BY <1>1, <1>2, <1>3, <1>4, <1>5

(***************************************************************************)
(* Every step on the host is a step of one node process, ends them all, or *)
(* leaves the processes and the pid file alone.                            *)
(***************************************************************************)
LEMMA HostStep == SysTypeOK /\ [SysNext]_allVars => [Next]_vars
<1> SUFFICES ASSUME SysTypeOK, [SysNext]_allVars PROVE [Next]_vars
  OBVIOUS
<1>1. ASSUME NEW p \in Proc, HandStart(p) \/ SvcStart(p) PROVE Next
  BY <1>1 DEF HandStart, SvcStart, Next
<1>2. ASSUME NEW p \in Proc, CheckStep(p) PROVE Next
  BY <1>2 DEF CheckStep, Next, Check
<1>3. ASSUME NEW p \in Proc, Kill(p) PROVE Next
  BY <1>3 DEF Kill, Next
<1>4. ASSUME NEW p \in Proc, Dies(p) PROVE Next
  BY <1>3, <1>4 DEF Dies, Next, Check
<1>5. CASE StopSvc
  BY <1>3, <1>5 DEF StopSvc, SysTypeOK
<1>6. CASE ServiceStop \/ ServiceRestart \/ RemoveStop
  BY <1>5, <1>6 DEF ServiceStop, ServiceRestart, RemoveStop, StopAndKeep
<1>7. ASSUME NEW u \in Script, UpdStop(u) \/ UpdKill(u) \/ Prerm(u) \/ UpdRestart(u)
      PROVE  [Next]_vars
  BY <1>3, <1>5, <1>7 DEF UpdStop, UpdKill, Prerm, UpdRestart, StopAndKeep
<1>8. CASE Silent
  BY <1>8 DEF Silent
<1>9. CASE Reboot
  BY <1>9 DEF Reboot, Next
<1>10. CASE UNCHANGED allVars
  BY <1>10 DEF allVars
<1> QED
  BY <1>1, <1>2, <1>4, <1>6, <1>7, <1>8, <1>9, <1>10, SilentSteps
     DEF SysNext, ServiceCommand, UpdateScript, SilentStep, Package

(***************************************************************************)
(* The host implements PidFile: systemd, the operator and update.sh do     *)
(* nothing to the processes or the pid file that PidFile does not allow,   *)
(* so its theorems hold of the whole host.                                 *)
(***************************************************************************)
THEOREM HostImplementsPidFile == SysSpec => ImplementsPidFile
<1>1. SysInit => Init
  BY DEF SysInit
<1> QED
  BY <1>1, HostStep, SysTypeCorrect, PTL DEF SysSpec, Spec, ImplementsPidFile

-----------------------------------------------------------------------------
(***************************************************************************)
(* The state of the host is well typed, that of the check included.        *)
(***************************************************************************)
THEOREM HostTypeCorrect == SysSpec => []HostTypeOK
BY HostImplementsPidFile, TypeCorrect, SysTypeCorrect, PTL
   DEF ImplementsPidFile, HostTypeOK

(***************************************************************************)
(* A victim is a running node, and none is left after the kill.            *)
(***************************************************************************)
SureInv ==
  /\ \A u \in Script : \A p \in victims[u] : Running(p)
  /\ KillIsSure

(***************************************************************************)
(* What update.sh's comment promises ("for shure"): after its "kill -9" no *)
(* node that survived "service stop" is alive, provided starts do not      *)
(* overlap.  The pid file then names the one running node.                 *)
(***************************************************************************)
THEOREM SerialKill == SysSpec => []SerialKillIsSure
<1>1. SysInit => SureInv
  BY DEF SysInit, SureInv, KillIsSure, AfterKill
<1>2. TypeOK /\ SysTypeOK /\ SerialInv /\ SureInv /\ [SysNext]_allVars => SureInv'
  <2> SUFFICES ASSUME TypeOK, SysTypeOK, SerialInv, SureInv, [SysNext]_allVars
               PROVE  SureInv'
    OBVIOUS
  <2> USE DEF SureInv, KillIsSure, AfterKill, Running, TypeOK, SysTypeOK, Starting,
              Goto, At
  <2>1. ASSUME NEW p \in Proc, HandStart(p) \/ SvcStart(p) PROVE SureInv'
    BY <2>1 DEF HandStart, SvcStart, Start, sysVars
  <2>2. ASSUME NEW p \in Proc, CheckStep(p) PROVE SureInv'
    <3>1. pc[p] # "run"
      BY <2>2 DEF CheckStep, OpenRead, Scan, Test, OpenWrite, WritePid, TryLock
    <3>2. \A q \in Proc : q # p => pc'[q] = pc[q]
      BY <2>2 DEF CheckStep, OpenRead, Scan, Test, OpenWrite, WritePid, TryLock
    <3>3. victims' = victims \/ victims' = [u \in Script |-> victims[u] \ {p}]
      BY <2>2 DEF CheckStep, Bury
    <3>4. upd' = upd
      BY <2>2 DEF CheckStep
    <3> QED
      BY <3>1, <3>2, <3>3, <3>4
  <2>3. ASSUME NEW p \in Proc, Kill(p) PROVE pc' = [pc EXCEPT ![p] = "idle"]
    BY <2>3 DEF Kill, Exit, KilledStarting
  <2>4. ASSUME NEW p \in Proc, Dies(p) PROVE SureInv'
    <3>1. pc' = [pc EXCEPT ![p] = "idle"]
      BY <2>3, <2>4 DEF Dies, OpenWriteFails
    <3> QED
      BY <2>4, <3>1 DEF Dies, Bury
  <2>5. ASSUME StopSvc PROVE pc' = IF svc = NoProc THEN pc ELSE [pc EXCEPT ![svc] = "idle"]
    BY <2>3, <2>5 DEF StopSvc, vars
  <2>13. ASSUME StopSvc, NEW q \in Proc, q # svc PROVE pc'[q] = pc[q]
    BY <2>5, <2>13
  <2>6. ASSUME NEW u \in Script, UpdStop(u) PROVE SureInv'
    <3>1. StopSvc /\ upd' = [upd EXCEPT ![u] = "kill"]
      BY <2>6 DEF UpdStop, ScriptGoto
    <3>2. \A v \in Script : victims'[v] = IF v = u THEN {p \in Proc : pc'[p] = "run"}
                                          ELSE victims[v] \ {svc}
      BY <2>6 DEF UpdStop
    <3>3. \A v \in Script : \A p \in victims'[v] : Running(p)'
      <4> SUFFICES ASSUME NEW v \in Script, NEW p \in victims'[v] PROVE pc'[p] = "run"
        OBVIOUS
      <4>1. CASE v = u
        BY <3>2, <4>1
      <4>2. CASE v # u
        <5>1. victims'[v] = victims[v] \ {svc}
          BY <3>2, <4>2
        <5>2. p \in victims[v] /\ p # svc
          BY <5>1
        <5>3. p \in Proc /\ pc[p] = "run"
          BY <5>2
        <5> QED
          BY <2>13, <3>1, <5>2, <5>3
      <4> QED
        BY <4>1, <4>2
    <3> QED
      BY <3>1, <3>2, <3>3
  <2>7. ASSUME NEW u \in Script, UpdKill(u) PROVE SureInv'
    <3>1. \A v \in Script : \A p \in victims[v] : p \in Proc /\ Names(p)
      BY DEF SerialInv
    <3>2. upd' = [upd EXCEPT ![u] = "install"]
      BY <2>7 DEF UpdKill, ScriptGoto
    <3>3. CASE \E p \in Proc : Names(p) /\ Kill(p) /\ Bury(p)
      <4>1. PICK p \in Proc : Names(p) /\ Kill(p) /\ Bury(p)
        BY <3>3
      <4>2. \A v \in Script : \A q \in victims[v] : q = p
        BY <3>1, <4>1, DigitsProps DEF Names
      <4>3. \A v \in Script : victims'[v] = {}
        BY <4>1, <4>2 DEF Bury
      <4> QED
        BY <4>3
    <3>4. CASE (\A p \in Proc : Names(p) => At(p, "idle")) /\ UNCHANGED <<vars, svc, victims>>
      <4>1. \A v \in Script : victims[v] = {}
        BY <3>1, <3>4
      <4> QED
        BY <3>4, <4>1
    <3> QED
      BY <2>7, <3>3, <3>4 DEF UpdKill
  <2>8. ASSUME NEW u \in Script, Prerm(u) \/ UpdRestart(u) PROVE SureInv'
    <3>1. StopSvc /\ victims' = [v \in Script |-> victims[v] \ {svc}]
      BY <2>8 DEF Prerm, UpdRestart, StopAndKeep
    <3>2. \A v \in Script : upd'[v] \in AfterKill => upd[v] \in AfterKill
      BY <2>8 DEF Prerm, UpdRestart, ScriptGoto, WithoutUpdater, Ended, Script
    <3>3. \A v \in Script : \A p \in victims'[v] : Running(p)'
      BY <2>13, <3>1
    <3> QED
      BY <3>1, <3>2, <3>3
  <2>9. CASE ServiceStop \/ ServiceRestart \/ RemoveStop
    BY <2>5, <2>9 DEF ServiceStop, ServiceRestart, RemoveStop, StopAndKeep
  <2>10. CASE Silent
    BY <2>10 DEF Silent, vars
  <2>11. CASE Reboot
    BY <2>11 DEF Reboot
  <2>12. CASE UNCHANGED allVars
    BY <2>12 DEF allVars, sysVars, vars
  <2> QED
    BY <2>1, <2>2, <2>4, <2>6, <2>7, <2>8, <2>9, <2>10, <2>11, <2>12, SilentSteps
       DEF SysNext, ServiceCommand, UpdateScript, SilentStep, Package
<1>3. SureInv => SerialKillIsSure
  BY DEF SureInv, SerialKillIsSure
<1>4. SysSpec => [](TypeOK /\ SysTypeOK)
  BY HostTypeCorrect, PTL DEF HostTypeOK
<1>5. CASE ~Overlap
  <2>1. SysSpec => []SerialInv
    BY <1>5, HostImplementsPidFile, SerialInvariant, PTL DEF ImplementsPidFile
  <2> QED
    BY <1>1, <1>2, <1>3, <1>4, <2>1, PTL DEF SysSpec
<1>6. CASE Overlap
  <2>1. SerialKillIsSure
    BY <1>6 DEF SerialKillIsSure
  <2> QED
    BY <2>1, PTL
<1> QED
  BY <1>5, <1>6

(***************************************************************************)
(* What holds during a removal, for RemovedIsDown: the package is still    *)
(* there and no other dpkg runs; unless the timer ran the updater, no      *)
(* script does either and the unit stays stopped; before the files go, the *)
(* unit is disabled.                                                       *)
(***************************************************************************)
RemovalInv ==
  /\ dpkg # "idle" => installed # "none" /\ \A u \in Script : ~Installing(u)
  /\ (dpkg # "idle" \/ installed = "none") /\ ~fired =>
       svc = NoProc /\ ~wanted /\ \A u \in Script : Ended(u)
  /\ dpkg = "delete" \/ (installed = "none" /\ ~fired) => ~enabled

(***************************************************************************)
(* A removed package has no process and is neither started nor enabled.    *)
(***************************************************************************)
THEOREM RemovalIsComplete == SysSpec => []RemovedIsDown
<1> USE DEF Ended, Installing, ScriptGoto, pkgVars
<1>1. SysInit => RemovalInv
  BY DEF SysInit, RemovalInv
<1>2. SysTypeOK /\ RemovalInv /\ [SysNext]_allVars => RemovalInv'
  <2> SUFFICES ASSUME SysTypeOK, RemovalInv, [SysNext]_allVars PROVE RemovalInv'
    OBVIOUS
  <2>0. upd \in [Script -> {"idle", "failed", "check", "stop", "kill"} \cup AfterKill]
    BY DEF SysTypeOK
  <2> USE DEF RemovalInv
  <2>1. ASSUME NEW p \in Proc, HandStart(p) \/ SvcStart(p) \/ CheckStep(p) \/ Dies(p)
        PROVE  RemovalInv'
    <3>1. CASE HandStart(p)
      BY <3>1 DEF HandStart, sysVars
    <3>2. CASE SvcStart(p)
      BY <3>2 DEF SvcStart
    <3>3. CASE CheckStep(p)
      BY <3>3 DEF CheckStep, Bury
    <3>4. CASE Dies(p)
      BY <3>4 DEF Dies, Bury, sysVars
    <3> QED
      BY <2>1, <3>1, <3>2, <3>3, <3>4
  <2>2. CASE ServiceStart \/ ServiceStop \/ ServiceRestart
    BY <2>2 DEF ServiceStart, ServiceStop, ServiceRestart, StopAndKeep, StopSvc
  <2>3. ASSUME NEW on \in BOOLEAN, ServiceEnable(on) PROVE RemovalInv'
    BY <2>3 DEF ServiceEnable
  <2>4. ASSUME NEW u \in Script, UpdBegin(u) PROVE RemovalInv'
    BY <2>0, <2>4 DEF UpdBegin
  <2>5. ASSUME NEW u \in Script, UpdCheck(u) \/ UpdStopFails(u) \/ UpdClearFails(u)
        PROVE  RemovalInv'
    BY <2>0, <2>5 DEF UpdCheck, UpdStopFails, UpdClearFails
  <2>6. ASSUME NEW u \in Script, UpdStop(u) \/ UpdKill(u) PROVE RemovalInv'
    BY <2>0, <2>6 DEF UpdStop, UpdKill, StopSvc, Bury
  <2>7. ASSUME NEW u \in Script, DpkgLocked(u) \/ Prerm(u) \/ InstallAnew(u) PROVE RemovalInv'
    <3>1. CASE DpkgLocked(u)
      BY <2>0, <3>1 DEF DpkgLocked
    <3>2. CASE Prerm(u) \/ InstallAnew(u)
      <4>1. dpkg' = "idle" /\ installed' = installed /\ enabled' = enabled /\ fired' = fired
        BY <3>2 DEF Prerm, InstallAnew, DpkgBusy
      <4>2. installed = "none" => fired
        BY <3>2 DEF Prerm, InstallAnew
      <4> QED
        BY <4>1, <4>2
    <3> QED
      BY <2>7, <3>1, <3>2
  <2>8. ASSUME NEW u \in Script, Unpack(u) \/ Postinst(u) \/ DpkgFails(u) PROVE RemovalInv'
    <3>1. Installing(u) /\ dpkg = "idle" /\ (installed = "none" => fired)
      BY <2>8 DEF Unpack, Postinst, DpkgFails
    <3>2. dpkg' = "idle" /\ fired' = fired /\ installed' \in {installed, "new"}
      BY <2>8, <3>1 DEF Unpack, Postinst, DpkgFails
    <3> QED
      BY <3>1, <3>2
  <2>14. ASSUME NEW u \in Script, UpdRestart(u) PROVE RemovalInv'
    BY <2>0, <2>14 DEF UpdRestart, StopAndKeep, StopSvc
  <2>9. CASE RemoveStop
    BY <2>9 DEF RemoveStop, OperatorFree, StopAndKeep, StopSvc, Script
  <2>10. CASE RemoveStopUpdater
    BY <2>0, <2>10 DEF RemoveStopUpdater, WithoutUpdater, Script
  <2>15. CASE RemoveDisable \/ RemoveFiles
    BY <2>15 DEF RemoveDisable, RemoveFiles
  <2>11. CASE Install
    BY <2>11 DEF Install, OperatorFree
  <2>12. CASE Reboot
    BY <2>12 DEF Reboot
  <2>13. CASE UNCHANGED allVars
    BY <2>13 DEF allVars, sysVars
  <2> HIDE DEF RemovalInv, Ended, Installing, ScriptGoto, pkgVars
  <2> QED
    BY <2>1, <2>2, <2>3, <2>4, <2>5, <2>6, <2>7, <2>8, <2>9, <2>10, <2>11, <2>12, <2>13,
       <2>14, <2>15
       DEF SysNext, ServiceCommand, UpdateScript, Package
<1>3. RemovalInv => RemovedIsDown
  BY DEF RemovalInv, RemovedIsDown
<1> QED
  BY <1>1, <1>2, <1>3, SysTypeCorrect, PTL DEF SysSpec
=============================================================================
