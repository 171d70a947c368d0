------------------------------- MODULE PidFile -------------------------------
(***************************************************************************)
(* The single-instance check of the node: s_proc_running_check() of        *)
(* sources/cellframe-node.c, called by main() before any module starts.    *)
(*                                                                         *)
(* A process is named by its pid and is in Proc; its pid has PidLen[p]     *)
(* decimal digits.  The pid file is the sequence of its bytes, each byte   *)
(* identified by the process that wrote it, so that a file left by two     *)
(* writers (both truncated it, then both wrote from offset 0) is told      *)
(* apart from a file that names one process.                               *)
(*                                                                         *)
(* lockf() locks are POSIX record locks that start at the CURRENT offset:  *)
(*   - F_TEST, 0 runs after a buffered read, so it covers everything from  *)
(*     the length of the file at that read to infinity;                    *)
(*   - F_TLOCK, sizeof(pid_t) runs after the pid was written, so it covers *)
(*     LockLen bytes from offset PidLen[p].                                *)
(* A lock lives exactly as long as the process that took it; the file      *)
(* stays, with its last content, when the process ends.                    *)
(***************************************************************************)
EXTENDS Integers, Sequences

CONSTANTS
  Proc,       \* the pids of the node processes that may be started
  PidLen,     \* PidLen[p]: number of decimal digits of pid p
  LockLen,    \* sizeof(pid_t), the length of the locked region
  Overlap     \* TRUE: starts may overlap; FALSE: a supervisor serialises them

ASSUME ProcAssumption == PidLen \in [Proc -> Nat \ {0}]
ASSUME LockAssumption == LockLen \in Nat \ {0}
ASSUME OverlapAssumption == Overlap \in BOOLEAN

VARIABLES
  pc,         \* where each process is in s_proc_running_check
  present,    \* does the pid file exist
  file,       \* the bytes of the pid file
  off         \* file offset of each process that has read the file, else 0

vars == <<pc, present, file, off>>

Starting == {"open", "scan", "test", "trunc", "write", "lock"}
Running(p) == pc[p] = "run"

Goto(p, to) == pc' = [pc EXCEPT ![p] = to]
At(p, from) == pc[p] = from
Closed(p) == off' = [off EXCEPT ![p] = 0]

\* The digits of p, as they are on disk.
Digits(p) == [i \in 1..PidLen[p] |-> p]

\* write() at offset 0 replaces a prefix and keeps what is beyond it.
Overwrite(bytes, p) ==
  [i \in 1..(IF Len(bytes) > PidLen[p] THEN Len(bytes) ELSE PidLen[p]) |->
     IF i <= PidLen[p] THEN p ELSE bytes[i]]

\* The region the node q holds is PidLen[q] .. PidLen[q] + LockLen - 1.
TestConflict(p) ==
  \E q \in Proc \ {p} : Running(q) /\ PidLen[q] + LockLen > off[p]

LockConflict(p) ==
  \E q \in Proc \ {p} :
    /\ Running(q)
    /\ PidLen[p] < PidLen[q] + LockLen
    /\ PidLen[q] < PidLen[p] + LockLen

-----------------------------------------------------------------------------
\* A pid file left by an earlier process, complete, empty, or none at all.
Init ==
  /\ pc = [p \in Proc |-> "idle"]
  /\ off = [p \in Proc |-> 0]
  /\ \/ present = FALSE /\ file = <<>>
     \/ present = TRUE /\ file = <<>>
     \/ present = TRUE /\ \E p \in Proc : file = Digits(p)

\* A process with pid p is created and gets as far as the check.
Start(p) ==
  /\ At(p, "idle")
  /\ Overlap \/ \A q \in Proc : pc[q] \notin Starting
  /\ Goto(p, "open")
  /\ UNCHANGED <<present, file, off>>

\* fopen(path, "r")
OpenRead(p) ==
  /\ At(p, "open")
  /\ Goto(p, IF present THEN "scan" ELSE "trunc")
  /\ UNCHANGED <<present, file, off>>

\* Mutant of Scan: the offset is one short.
ScanShort(p) ==
  /\ At(p, "scan")
  /\ off' = [off EXCEPT ![p] = Len(file) - 1]
  /\ Goto(p, "test")
  /\ UNCHANGED <<present, file>>

\* fscanf(): the stream buffer takes the whole file.  Both a number and the
\* EOF of an empty file are "true" for the condition that follows.
Scan(p) ==
  /\ At(p, "scan")
  /\ off' = [off EXCEPT ![p] = Len(file)]
  /\ Goto(p, "test")
  /\ UNCHANGED <<present, file>>

\* Mutant of Test: its result is not looked at.
TestIgnored(p) ==
  /\ At(p, "test")
  /\ Goto(p, "trunc")
  /\ Closed(p)
  /\ UNCHANGED <<present, file>>

\* lockf(F_TEST, 0): a locked byte at or after the offset ends the process
\* (return 1, main returns 2) with the file untouched.
Test(p) ==
  /\ At(p, "test")
  /\ Goto(p, IF TestConflict(p) THEN "idle" ELSE "trunc")
  /\ Closed(p)
  /\ UNCHANGED <<present, file>>

\* freopen(path, "w") or fopen(path, "w"): truncates or creates the file.
OpenWrite(p) ==
  /\ At(p, "trunc")
  /\ present' = TRUE
  /\ file' = <<>>
  /\ Goto(p, "write")
  /\ UNCHANGED off

\* The same call fails: return 2, main returns 2.
OpenWriteFails(p) ==
  /\ At(p, "trunc")
  /\ Goto(p, "idle")
  /\ UNCHANGED <<present, file, off>>

\* fprintf(pid); fflush()
WritePid(p) ==
  /\ At(p, "write")
  /\ file' = Overwrite(file, p)
  /\ Goto(p, "lock")
  /\ UNCHANGED <<present, off>>

\* Mutants of TryLock: its result is not looked at; F_LOCK, which waits.
LockIgnored(p) ==
  /\ At(p, "lock")
  /\ Goto(p, "run")
  /\ UNCHANGED <<present, file, off>>

LockWaits(p) ==
  /\ At(p, "lock")
  /\ ~LockConflict(p)
  /\ Goto(p, "run")
  /\ UNCHANGED <<present, file, off>>

\* lockf(F_TLOCK): never waits; on failure main returns 2 and the pid this
\* process wrote stays in the file.
TryLock(p) ==
  /\ At(p, "lock")
  /\ Goto(p, IF LockConflict(p) THEN "idle" ELSE "run")
  /\ UNCHANGED <<present, file, off>>

\* The node ends: main returns, exit(0) in sig_exit_handler, or SIGKILL.
\* No path clears the pid file.
Exit(p) ==
  /\ At(p, "run")
  /\ Goto(p, "idle")
  /\ UNCHANGED <<present, file, off>>

\* The process is killed inside the check.
KilledStarting(p) ==
  /\ pc[p] \in Starting
  /\ Goto(p, "idle")
  /\ Closed(p)
  /\ UNCHANGED <<present, file>>

\* The host goes down with all its processes.  The pid file lies on the disk:
\* what was not yet synchronised, its content or the file itself, may be lost.
HostDown ==
  /\ pc' = [p \in Proc |-> "idle"]
  /\ \/ UNCHANGED <<present, file>>
     \/ present' \in {present, FALSE} /\ file' = <<>>
  /\ off' = [p \in Proc |-> 0]

Check(p) ==
  \/ OpenRead(p) \/ Scan(p) \/ Test(p)
  \/ OpenWrite(p) \/ OpenWriteFails(p) \/ WritePid(p) \/ TryLock(p)

Next ==
  \/ \E p \in Proc : Start(p) \/ Check(p) \/ Exit(p) \/ KilledStarting(p)
  \/ HostDown

Spec == Init /\ [][Next]_vars

-----------------------------------------------------------------------------
\* The file holds exactly the digits of p.
Names(p) == present /\ file = Digits(p)

\* Locked regions of any two pids intersect.
CloseLengths == \A p, q \in Proc : PidLen[p] < PidLen[q] + LockLen

TypeOK ==
  /\ pc \in [Proc -> Starting \cup {"idle", "run"}]
  /\ present \in BOOLEAN
  /\ file \in Seq(Proc)
  /\ off \in [Proc -> Nat]

\* s_proc_running_check lets at most one node past it: with serialised starts
\* whatever the pids are, with overlapping starts when the locked regions of
\* any two pids intersect.
OneNode ==
  (~Overlap \/ CloseLengths) => \A p, q \in Proc : Running(p) /\ Running(q) => p = q

\* Under the same condition the check is an implementation of SingleInstance,
\* where the owners are the nodes that run: refused starts, kills and the end of
\* the host are steps that change nothing there, or free the directory.
Guard == INSTANCE SingleInstance WITH owners <- {p \in Proc : Running(p)}
ImplementsSingleInstance == Guard!Spec

\* With serialised starts the pid file names the node that runs: a start that
\* is refused has not touched it.
PidFileNamesNode ==
  ~Overlap => \A p \in Proc : Running(p) => Names(p)

\* With serialised starts a start that gets as far as truncating the pid file
\* is never refused by F_TLOCK afterwards: the early test decides.
TestDecides ==
  ~Overlap => \A p \in Proc : pc[p] \in {"trunc", "write", "lock"} => ~LockConflict(p)

\* The check never blocks a start: it ends running or refused, also while
\* another node holds the lock for ever.
StartSettles ==
  \A p \in Proc : pc[p] \in Starting ~> pc[p] \in {"idle", "run"}
=============================================================================
