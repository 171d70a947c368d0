--------------------------- MODULE KeyStoreProofs ---------------------------
(***************************************************************************)
(* Proofs about KeyStore for any names, keys, tools and number of faults:  *)
(* reported keys are never lost, files change only as asked, and success   *)
(* is real.                                                                *)
(***************************************************************************)
EXTENDS KeyStore, TLAPS

USE StoreAssumption, ZenonT(5), SMTT(20), ZenonT(40)

\* A command that writes has a source and a target of the kinds it works on.
Shape(j) ==
  /\ j.op \in Creates \cup Copies \cup {"cert_create_pkey", "cert_add_metadata"}
  /\ j.dst \in File
  /\ j.op = "cert_create" => j.dst \in Cert
  /\ j.op \in Creates \ {"cert_create"} => j.dst \in Wallet
  /\ j.op = "cert_create_pkey" => j.src \in Cert /\ j.dst \in Path
  /\ j.op \in Copies => j.src \in Cert /\ j.dst \in Cert
  /\ j.op = "cert_add_metadata" => j.src \in Cert /\ j.dst = j.src

\* Each file has contents of its kind.
DiskInv ==
  /\ \A f \in Cert : disk[f] \in CertFile \cup {NoFile, Torn}
  /\ \A f \in Wallet : disk[f] \in WalletFile \cup {NoFile, Torn}
  /\ \A f \in Path : disk[f] \in {PkeyFile, NoFile, Torn}

\* What a tool has in memory.
HeldInv(t) ==
  /\ step[t] = "read" => job[t].op \notin Creates
  /\ step[t] = "test" => job[t].op # "cert_add_metadata"
  /\ step[t] = "delete" => job[t].op = "cert_rename"
  /\ step[t] \in {"test", "save", "write", "delete"} /\ job[t].op \notin Creates =>
       IF job[t].op = "cert_create_pkey" THEN held[t] = PkeyFile ELSE held[t] \in CertFile
  /\ step[t] \in {"save", "write"} /\ job[t].op \in Creates =>
       IF job[t].op = "cert_create" THEN held[t] \in CertFile /\ held[t].priv
                                    ELSE held[t] \in WalletFile

\* What a tool that shares no file with another knows of its files.
OwnFiles(t) ==
  /\ step[t] = "save" =>
       IF job[t].op = "cert_add_metadata"
         THEN /\ disk[job[t].dst] \in CertFile
              /\ held[t] = [disk[job[t].dst] EXCEPT !.meta = TRUE]
         ELSE disk[job[t].dst] = NoFile
  /\ step[t] = "write" => disk[job[t].dst] = Torn
  /\ step[t] = "delete" => disk[job[t].dst] = held[t]
  /\ step[t] \in {"test", "save", "write", "delete"} /\ job[t].op = "cert_rename" =>
       /\ disk[job[t].src] \in CertFile
       /\ held[t] = [disk[job[t].src] EXCEPT !.meta = FALSE]
       /\ step[t] # "test" => job[t].src # job[t].dst

ToolInv(t) ==
  Busy(t) => Shape(job[t]) /\ HeldInv(t) /\ (t \notin rough => OwnFiles(t))

\* Tools that share a file are rough, and rough tools are at work.
RoughInv ==
  /\ \A t \in rough : Busy(t)
  /\ \A t, u \in Tool :
       t # u /\ Busy(t) /\ Busy(u) /\ Writes(job[t]) \cap Writes(job[u]) # {} => t \in rough

\* Where a key is safe: in a file that no rough tool writes, or in the memory of
\* a tool that rewrites its file alone.
InFile(k) == \E f \in File : HasPrivate(f, k) /\ \A t \in rough : f \notin Writes(job[t])
InMemory(k) ==
  \E t \in Tool \ rough :
    /\ step[t] = "write" /\ job[t].op = "cert_add_metadata"
    /\ held[t].key = k /\ held[t].priv

KeyInv == \A k \in promised : InFile(k) \/ InMemory(k)

StoreInv ==
  /\ TypeOK /\ DiskInv /\ RoughInv /\ KeyInv
  /\ \A t \in Tool : ToolInv(t)

-----------------------------------------------------------------------------
\* The contents of files and what tells them apart.
LEMMA Kinds ==
  /\ \A c \in CertFile : c.kind = "cert" /\ c.key \in Key /\ c.priv \in BOOLEAN
  /\ \A c \in WalletFile : c.kind = "wallet" /\ c.key \in Key
  /\ \A c \in CertFile \cup WalletFile : c \notin {NoFile, Torn, PkeyFile}
  /\ Torn # NoFile /\ PkeyFile \notin {NoFile, Torn}
  /\ NoFile \notin Complete /\ Torn \notin Complete
<1>1. /\ NoFile.kind = "none" /\ Torn.kind = "torn" /\ PkeyFile.kind = "pkey"
      /\ \A c \in CertFile : c.kind = "cert" /\ c.key \in Key /\ c.priv \in BOOLEAN
      /\ \A c \in WalletFile : c.kind = "wallet" /\ c.key \in Key
  BY DEF NoFile, Torn, PkeyFile, CertFile, WalletFile
<1> QED
  BY <1>1 DEF Complete

\* A changed flag leaves a certificate a certificate with its key.
LEMMA Flags ==
  ASSUME NEW c \in CertFile
  PROVE  /\ [c EXCEPT !.meta = TRUE] \in CertFile
         /\ [c EXCEPT !.meta = FALSE] \in CertFile
         /\ [c EXCEPT !.priv = FALSE, !.meta = FALSE] \in CertFile
         /\ [c EXCEPT !.meta = TRUE].key = c.key /\ [c EXCEPT !.meta = TRUE].priv = c.priv
         /\ [c EXCEPT !.meta = FALSE].key = c.key /\ [c EXCEPT !.meta = FALSE].priv = c.priv
  BY DEF CertFile

\* The job of a command that writes has the shape the command needs.
LEMMA JobShape ==
  ASSUME NEW j \in Jobs, Handler[j.op] \notin Shows
  PROVE  /\ Handler[j.op] = j.op /\ Shape(j)
         /\ [j EXCEPT !.op = Handler[@]] = j
<1>1. PICK op \in Ops : j \in JobsOf(op)
  BY DEF Jobs
<1> USE DEF Creates, Copies, Shows, WalletShows, Unimplemented
<1>2. ASSUME NEW S, NEW D, j \in [op : {op}, src : S, dst : D, pass : {FALSE}]
      PROVE  /\ j.op = op /\ j.src \in S /\ j.dst \in D
             /\ [j EXCEPT !.op = Handler[@]] = j
  <2>1. j.op = op /\ Handler[op] = op
    BY <1>2
  <2> QED
    BY <1>2, <2>1
<1>3. CASE op \in {"wallet_create", "wallet_create_wp"}
  <2>1. j \in [op : {op}, src : {"none"}, dst : Wallet, pass : {FALSE}]
    BY <1>1, <1>3 DEF JobsOf
  <2> QED
    BY <1>2, <1>3, <2>1 DEF Shape, File
<1>4. CASE op = "cert_create"
  <2>1. j \in [op : {op}, src : {"none"}, dst : Cert, pass : {FALSE}]
    BY <1>1, <1>4 DEF JobsOf
  <2> QED
    BY <1>2, <1>4, <2>1 DEF Shape, File
<1>5. CASE op = "cert_create_pkey"
  <2>1. j \in [op : {op}, src : Cert, dst : Path, pass : {FALSE}]
    BY <1>1, <1>5 DEF JobsOf
  <2> QED
    BY <1>2, <1>5, <2>1 DEF Shape, File
<1>6. CASE op \in Copies
  <2>1. j \in [op : {op}, src : Cert, dst : Cert, pass : {FALSE}]
    BY <1>1, <1>6 DEF JobsOf
  <2> QED
    BY <1>2, <1>6, <2>1 DEF Shape, File
<1>7. CASE op = "cert_add_metadata"
  <2>1. j \in [op : {op}, src : Cert, dst : Cert, pass : {FALSE}] /\ j.src = j.dst
    BY <1>1, <1>7 DEF JobsOf
  <2> QED
    BY <1>2, <1>7, <2>1 DEF Shape, File
<1>8. CASE op \in Shows \cup Unimplemented
  <2>1. op \in Shows => j.op = op
    BY <1>1 DEF JobsOf
  <2>2. op \notin Unimplemented
    BY <1>1 DEF JobsOf
  <2> QED
    BY <1>8, <2>1, <2>2
<1> QED
  BY <1>3, <1>4, <1>5, <1>6, <1>7, <1>8

-----------------------------------------------------------------------------
\* A step of tool t leaves the other tools and the files it does not write alone;
\* t goes on with its job or ends.
Frame(t) ==
  /\ \A u \in Tool \ {t} :
       /\ step'[u] = step[u] /\ job'[u] = job[u] /\ held'[u] = held[u]
       /\ u \in rough' <=> u \in rough
  /\ \A f \in File \ Writes(job[t]) : disk'[f] = disk[f]
  /\ rough' \subseteq rough
  /\ \/ Busy(t) /\ Busy(t)' /\ job'[t] = job[t] /\ (t \in rough' <=> t \in rough)
     \/ ~Busy(t)' /\ t \notin rough'

\* The other tools know as much of their files as before.
LEMMA Others ==
  ASSUME StoreInv, NEW t \in Tool, Busy(t) \/ disk' = disk, Frame(t), NEW u \in Tool \ {t}
  PROVE  ToolInv(u)'
<1>1. /\ step'[u] = step[u] /\ job'[u] = job[u] /\ held'[u] = held[u]
      /\ u \in rough' <=> u \in rough
  BY DEF Frame
<1>2. ASSUME Busy(u) PROVE Shape(job[u])' /\ HeldInv(u)'
  BY <1>1, <1>2 DEF StoreInv, ToolInv, Shape, HeldInv
<1>3. ASSUME Busy(u), u \notin rough PROVE OwnFiles(u)'
  <2>1. Shape(job[u]) /\ OwnFiles(u)
    BY <1>3 DEF StoreInv, ToolInv
  <2>2. \A f \in File : f \in Writes(job[u]) => disk'[f] = disk[f]
    <3>1. CASE disk' = disk
      BY <3>1
    <3>2. CASE Busy(t)
      <4>1. Writes(job[u]) \cap Writes(job[t]) = {}
        BY <1>3, <3>2 DEF StoreInv, RoughInv
      <4> QED
        BY <4>1 DEF Frame
    <3> QED
      BY <3>1, <3>2
  <2>3. disk'[job[u].dst] = disk[job[u].dst]
    BY <2>1, <2>2 DEF Shape, Writes
  <2>4. job[u].op = "cert_rename" => disk'[job[u].src] = disk[job[u].src]
    BY <2>1, <2>2 DEF Shape, Writes, Copies, File
  <2> QED
    BY <1>1, <2>1, <2>3, <2>4 DEF OwnFiles
<1> QED
  BY <1>1, <1>2, <1>3 DEF ToolInv, Busy

\* Who is rough is still the case.
LEMMA RoughStep ==
  ASSUME StoreInv, NEW t \in Tool, Frame(t)
  PROVE  RoughInv'
<1>1. rough \subseteq Tool /\ RoughInv
  BY DEF StoreInv, TypeOK
<1>2. ASSUME NEW u \in rough' PROVE Busy(u)'
  BY <1>1 DEF Frame, RoughInv, Busy
<1>3. ASSUME NEW u \in Tool, NEW v \in Tool, u # v, Busy(u)', Busy(v)',
             Writes(job'[u]) \cap Writes(job'[v]) # {}
      PROVE  u \in rough'
  <2>1. /\ Busy(u) /\ job'[u] = job[u] /\ (u \in rough' <=> u \in rough)
        /\ Busy(v) /\ job'[v] = job[v]
    BY <1>3 DEF Frame, Busy
  <2> QED
    BY <1>1, <1>3, <2>1 DEF RoughInv
<1> QED
  BY <1>2, <1>3 DEF RoughInv, Writes

\* A key stays safe in a file that does not change.
LEMMA FileStays ==
  ASSUME StoreInv, NEW t \in Tool, Frame(t), NEW k, NEW f \in File, HasPrivate(f, k),
         \A u \in rough : f \notin Writes(job[u]), disk'[f] = disk[f]
  PROVE  InFile(k)'
<1>1. HasPrivate(f, k)'
  BY DEF HasPrivate, Readable
<1>2. ASSUME NEW u \in rough' PROVE f \notin Writes(job'[u])
  <2>1. u \in Tool /\ u \in rough /\ job'[u] = job[u]
    BY <1>2 DEF StoreInv, TypeOK, Frame
  <2> QED
    BY <2>1
<1> QED
  BY <1>1, <1>2 DEF InFile, Writes

\* A file of a tool that is not rough is written by no rough one.
LEMMA NewHome ==
  ASSUME StoreInv, NEW t \in Tool \ rough, Busy(t), Frame(t), NEW k, NEW f \in File,
         f \in Writes(job[t]), HasPrivate(f, k)'
  PROVE  InFile(k)'
<1>1. ASSUME NEW u \in rough' PROVE f \notin Writes(job'[u])
  <2>1. u \in Tool /\ u \in rough /\ u # t /\ job'[u] = job[u] /\ Busy(u)
    BY <1>1 DEF StoreInv, TypeOK, Frame, RoughInv
  <2> QED
    BY <2>1 DEF StoreInv, RoughInv
<1> QED
  BY <1>1 DEF InFile, Writes

\* A key stays safe in the memory of another tool.
LEMMA MemoryStays ==
  ASSUME StoreInv, NEW t \in Tool, Frame(t), NEW k, NEW u \in Tool \ rough, u # t,
         step[u] = "write", job[u].op = "cert_add_metadata", held[u].key = k, held[u].priv
  PROVE  InMemory(k)'
<1>1. /\ step'[u] = step[u] /\ job'[u] = job[u] /\ held'[u] = held[u]
      /\ u \in Tool \ rough'
  BY DEF Frame
<1> QED
  BY <1>1 DEF InMemory

-----------------------------------------------------------------------------
\* A tool that ends, and one that goes on, change only their own state.
LEMMA Ends ==
  ASSUME TypeOK, NEW t \in Tool, NEW c \in {"ok", "error"}, Finish(t, c)
  PROVE  /\ \A u \in Tool \ {t} :
              /\ step'[u] = step[u] /\ job'[u] = job[u] /\ held'[u] = held[u]
              /\ u \in rough' <=> u \in rough
         /\ step'[t] = "idle" /\ t \notin rough' /\ rough' \subseteq rough
         /\ job' \in [Tool -> Jobs \cup {NoJob}]
         /\ step' \in [Tool -> {"idle", "read", "test", "save", "write", "delete"}]
         /\ held' \in [Tool -> Complete \cup {NoFile}]
         /\ rough' \in SUBSET Tool /\ status' \in {"ok", "error"}
         /\ ToolInv(t)'
<1> HIDE DEF Jobs, NoJob, NoFile, Complete
<1>1. /\ step'[t] = "idle"
      /\ \A u \in Tool \ {t} : step'[u] = step[u] /\ job'[u] = job[u] /\ held'[u] = held[u]
      /\ job' \in [Tool -> Jobs \cup {NoJob}]
      /\ step' \in [Tool -> {"idle", "read", "test", "save", "write", "delete"}]
      /\ held' \in [Tool -> Complete \cup {NoFile}]
  BY DEF Finish, TypeOK
<1>2. /\ rough' = rough \ {t} /\ status' = c /\ rough \in SUBSET Tool
  BY DEF Finish, TypeOK
<1> QED
  BY <1>1, <1>2 DEF ToolInv, Busy

LEMMA GoesOn ==
  ASSUME TypeOK, NEW t \in Tool, NEW s \in {"read", "test", "save", "write", "delete"}, Goto(t, s)
  PROVE  /\ \A u \in Tool \ {t} :
              step'[u] = step[u] /\ job'[u] = job[u] /\ (u \in rough' <=> u \in rough)
         /\ step'[t] = s /\ job'[t] = job[t] /\ rough' = rough /\ Busy(t)'
         /\ job' \in [Tool -> Jobs \cup {NoJob}]
         /\ step' \in [Tool -> {"idle", "read", "test", "save", "write", "delete"}]
         /\ rough' \in SUBSET Tool /\ status' \in {"ok", "error"}
  BY DEF Goto, TypeOK, Busy

\* The steps of a tool stay in its frame.
LEMMA ToolFrame ==
  ASSUME StoreInv, NEW t \in Tool, ToolStep(t) \/ Killed(t)
  PROVE  Busy(t) /\ Frame(t)
<1>1. TypeOK /\ Busy(t) /\ Shape(job[t])
  BY DEF StoreInv, ToolInv, ToolStep, Killed, ReadSource, TestTarget, OpenTarget, WriteTarget,
    SaveFails, DeleteSource, DeleteFails, Busy
<1> SUFFICES Frame(t)
  BY <1>1
<1>2. ASSUME NEW c \in {"ok", "error"}, Finish(t, c),
             \A f \in File \ Writes(job[t]) : disk'[f] = disk[f]
      PROVE  Frame(t)
  BY <1>1, <1>2, Ends DEF Frame, Busy
<1>3. ASSUME NEW s \in {"read", "test", "save", "write", "delete"}, Goto(t, s),
             \A u \in Tool \ {t} : held'[u] = held[u],
             \A f \in File \ Writes(job[t]) : disk'[f] = disk[f]
      PROVE  Frame(t)
  BY <1>1, <1>3, GoesOn DEF Frame
<1>4. CASE ReadSource(t)
  BY <1>1, <1>2, <1>3, <1>4 DEF ReadSource, TypeOK
<1>5. CASE TestTarget(t)
  BY <1>1, <1>2, <1>3, <1>5 DEF TestTarget, TypeOK
<1>6. CASE OpenTarget(t)
  BY <1>1, <1>3, <1>6 DEF OpenTarget, TypeOK, Writes, Shape
<1>7. CASE WriteTarget(t)
  <2>1. \A f \in File \ Writes(job[t]) : disk'[f] = disk[f]
    BY <1>1, <1>7 DEF WriteTarget, TypeOK, Writes, Shape
  <2> QED
    <3>1. CASE job[t].op = "cert_rename"
      BY <1>3, <1>7, <2>1, <3>1 DEF WriteTarget
    <3>2. CASE job[t].op # "cert_rename"
      BY <1>2, <1>7, <2>1, <3>2 DEF WriteTarget
    <3> QED
      BY <3>1, <3>2
<1>8. CASE SaveFails(t) \/ DeleteFails(t) \/ Killed(t)
  <2>1. disk' = disk /\ (Finish(t, "ok") \/ Finish(t, "error"))
    BY <1>8 DEF SaveFails, DeleteFails, Killed
  <2> QED
    BY <1>2, <2>1
<1>9. CASE DeleteSource(t)
  <2>1. \A f \in File \ Writes(job[t]) : disk'[f] = disk[f]
    BY <1>1, <1>9 DEF DeleteSource, TypeOK, Writes, Shape, StoreInv, ToolInv, HeldInv
  <2> QED
    <3>1. Finish(t, "ok") \/ Finish(t, "error")
      BY <1>9 DEF DeleteSource
    <3> QED
      BY <1>2, <2>1, <3>1
<1> QED
  BY <1>1, <1>4, <1>5, <1>6, <1>7, <1>8, <1>9 DEF ToolStep

\* What a tool writes is of the kind of its file.
LEMMA Written ==
  ASSUME StoreInv, NEW f \in File, NEW c \in Complete \cup {NoFile, Torn},
         f \in Cert => c \in CertFile \cup {NoFile, Torn},
         f \in Wallet => c \in WalletFile \cup {NoFile, Torn},
         f \in Path => c \in {PkeyFile, NoFile, Torn},
         disk' = [disk EXCEPT ![f] = c]
  PROVE  DiskInv' /\ disk' \in [File -> Complete \cup {NoFile, Torn}] /\ disk'[f] = c
<1>1. disk \in [File -> Complete \cup {NoFile, Torn}] /\ DiskInv
  BY DEF StoreInv, TypeOK
<1>2. \A g \in File : disk'[g] = IF g = f THEN c ELSE disk[g]
  BY <1>1
<1>3. DiskInv'
  BY <1>1, <1>2 DEF DiskInv, File
<1> QED
  BY <1>1, <1>2, <1>3

LEMMA Faulty ==
  ASSUME TypeOK, Fault
  PROVE  faults' \in 0..MaxFaults
  BY DEF TypeOK, Fault

\* Each step of a tool keeps the types, and the tool knows its files.
LEMMA ToolTypes ==
  ASSUME StoreInv, NEW t \in Tool, ToolStep(t) \/ Killed(t)
  PROVE  TypeOK' /\ DiskInv' /\ ToolInv(t)'
<1>1. TypeOK /\ DiskInv /\ Busy(t) /\ Shape(job[t]) /\ HeldInv(t) /\ (t \notin rough => OwnFiles(t))
  BY ToolFrame DEF StoreInv, ToolInv
<1>2. CASE ReadSource(t)
  <2>1. CASE ~Readable(job[t].src)
    BY <1>1, <1>2, <2>1, Ends DEF ReadSource, TypeOK, DiskInv
  <2>2. CASE Readable(job[t].src)
    <3> DEFINE c == disk[job[t].src]
    <3>1. job[t].op \in Copies \cup {"cert_create_pkey", "cert_add_metadata"}
      BY <1>1, <1>2 DEF ReadSource, HeldInv, Shape
    <3>2. job[t].src \in Cert /\ c \in CertFile
      BY <1>1, <2>2, <3>1, Kinds DEF Shape, DiskInv, Readable, Complete
    <3> DEFINE s == IF job[t].op = "cert_add_metadata" THEN "save" ELSE "test"
    <3>3. Goto(t, s) /\ held' = [held EXCEPT ![t] = Loaded(job[t].op, c)]
          /\ UNCHANGED <<disk, promised, faults>>
      BY <1>2, <2>2 DEF ReadSource
    <3>4. IF job[t].op = "cert_create_pkey" THEN Loaded(job[t].op, c) = PkeyFile
                                            ELSE Loaded(job[t].op, c) \in CertFile
      BY <3>1, <3>2, Flags DEF Loaded, Copies
    <3>5. held'[t] = Loaded(job[t].op, c) /\ held' \in [Tool -> Complete \cup {NoFile}]
      BY <1>1, <3>3, <3>4 DEF TypeOK, Complete
    <3>6. TypeOK' /\ DiskInv' /\ step'[t] = s /\ job'[t] = job[t]
      BY <1>1, <3>3, <3>5, GoesOn DEF TypeOK, DiskInv
    <3>7. HeldInv(t)'
      BY <3>1, <3>4, <3>5, <3>6 DEF HeldInv, Creates, Copies
    <3>8. OwnFiles(t)'
      BY <1>1, <3>1, <3>2, <3>3, <3>5, <3>6 DEF OwnFiles, Loaded, Shape, Copies
    <3> QED
      BY <1>1, <3>6, <3>7, <3>8 DEF ToolInv, Shape
  <2> QED
    BY <2>1, <2>2
<1>3. CASE TestTarget(t)
  <2>1. CASE Exists(job[t].dst)
    BY <1>1, <1>3, <2>1, Ends DEF TestTarget, TypeOK, DiskInv
  <2>2. CASE ~Exists(job[t].dst)
    <3>1. Goto(t, "save") /\ UNCHANGED <<disk, promised, faults>> /\ disk[job[t].dst] = NoFile
      BY <1>3, <2>2 DEF TestTarget, Exists
    <3>2. TypeOK' <=> held' \in [Tool -> Complete \cup {NoFile}]
      BY <1>1, <3>1, GoesOn DEF TypeOK
    <3>3. step[t] = "test" /\ step'[t] = "save" /\ job'[t] = job[t] /\ rough' = rough /\ DiskInv'
      BY <1>1, <1>3, <3>1, GoesOn DEF TestTarget, DiskInv
    <3>4. CASE job[t].op \in Creates
      <4>1. PICK k \in Key : held' = [held EXCEPT ![t] = Generated(job[t].op, k)]
        BY <1>3, <2>2, <3>4 DEF TestTarget
      <4>2. IF job[t].op = "cert_create"
              THEN Generated(job[t].op, k) \in CertFile /\ Generated(job[t].op, k).priv
              ELSE Generated(job[t].op, k) \in WalletFile
        BY <3>4 DEF Creates, Generated, NewCert, NewWallet, NewWalletWp, CertFile, WalletFile
      <4>3. held' \in [Tool -> Complete \cup {NoFile}] /\ held'[t] = Generated(job[t].op, k)
        BY <1>1, <4>1, <4>2 DEF TypeOK, Complete
      <4>4. HeldInv(t)' /\ OwnFiles(t)'
        BY <3>1, <3>3, <3>4, <4>2, <4>3 DEF HeldInv, OwnFiles, Creates
      <4> QED
        BY <1>1, <3>2, <3>3, <4>3, <4>4 DEF ToolInv, Shape
    <3>5. CASE job[t].op \notin Creates
      <4>1. held' = held
        BY <1>3, <2>2, <3>5 DEF TestTarget
      <4>2. HeldInv(t)'
        BY <1>1, <3>3, <3>5, <4>1 DEF HeldInv
      <4>3. job[t].op # "cert_add_metadata" => (t \notin rough => OwnFiles(t)')
        BY <1>1, <3>1, <3>3, <4>1, Kinds DEF OwnFiles
      <4>4. job[t].op # "cert_add_metadata"
        BY <1>1, <3>3 DEF HeldInv
      <4> QED
        BY <1>1, <3>2, <3>3, <4>1, <4>2, <4>3, <4>4 DEF ToolInv, Shape, TypeOK
    <3> QED
      BY <3>4, <3>5
  <2> QED
    BY <2>1, <2>2
<1>4. CASE OpenTarget(t)
  <2>1. /\ step[t] = "save" /\ Goto(t, "write") /\ UNCHANGED <<held, promised, faults>>
        /\ disk' = [disk EXCEPT ![job[t].dst] = Torn] /\ job[t].dst \in File
    BY <1>1, <1>4 DEF OpenTarget, Shape
  <2>2. DiskInv' /\ disk' \in [File -> Complete \cup {NoFile, Torn}] /\ disk'[job[t].dst] = Torn
    BY <2>1, Written
  <2>3. step'[t] = "write" /\ job'[t] = job[t] /\ rough' = rough /\ TypeOK'
    BY <1>1, <2>1, <2>2, GoesOn DEF TypeOK
  <2>4. HeldInv(t)'
    BY <1>1, <2>1, <2>3 DEF HeldInv
  <2>5. t \notin rough => OwnFiles(t)'
    <3>1. job[t].op = "cert_rename" /\ t \notin rough => disk'[job[t].src] = disk[job[t].src]
      BY <1>1, <2>1 DEF TypeOK, OwnFiles, Shape, Copies, File
    <3> QED
      BY <1>1, <2>1, <2>2, <2>3, <3>1 DEF OwnFiles
  <2> QED
    BY <1>1, <2>2, <2>3, <2>4, <2>5 DEF ToolInv, Shape
<1>5. CASE WriteTarget(t)
  <2>1. /\ step[t] = "write" /\ faults' = faults /\ job[t].dst \in File
        /\ disk' = [disk EXCEPT ![job[t].dst] = held[t]]
    BY <1>1, <1>5 DEF WriteTarget, Shape
  <2>2. /\ held[t] \in Complete
        /\ job[t].dst \in Cert => held[t] \in CertFile
        /\ job[t].dst \in Wallet => held[t] \in WalletFile
        /\ job[t].dst \in Path => held[t] = PkeyFile
    BY <1>1, <2>1 DEF HeldInv, Shape, Complete, Creates, Copies
  <2>3. DiskInv' /\ disk' \in [File -> Complete \cup {NoFile, Torn}] /\ disk'[job[t].dst] = held[t]
    BY <2>1, <2>2, Written
  <2>4. promised' \in SUBSET Key
    <3>1. job[t].op \in Creates => held[t].key \in Key
      BY <1>1, <2>1, Kinds DEF HeldInv
    <3> QED
      BY <1>1, <1>5, <3>1 DEF WriteTarget, TypeOK
  <2>5. CASE job[t].op # "cert_rename"
    BY <1>1, <1>5, <2>1, <2>3, <2>4, <2>5, Ends DEF WriteTarget, TypeOK
  <2>6. CASE job[t].op = "cert_rename"
    <3>1. Goto(t, "delete") /\ held' = held
      BY <1>5, <2>6 DEF WriteTarget
    <3>2. step'[t] = "delete" /\ job'[t] = job[t] /\ rough' = rough /\ TypeOK'
      BY <1>1, <2>1, <2>3, <2>4, <3>1, GoesOn DEF TypeOK
    <3>3. HeldInv(t)'
      BY <1>1, <2>1, <2>6, <3>1, <3>2 DEF HeldInv, Creates
    <3>4. t \notin rough => OwnFiles(t)'
      <4>1. t \notin rough => disk'[job[t].src] = disk[job[t].src]
        BY <1>1, <2>1, <2>6 DEF TypeOK, OwnFiles, Shape, Copies, File
      <4> QED
        BY <1>1, <2>1, <2>3, <2>6, <3>1, <3>2, <4>1 DEF OwnFiles
    <3> QED
      BY <1>1, <2>3, <3>2, <3>3, <3>4 DEF ToolInv, Shape
  <2> QED
    BY <2>5, <2>6
<1>6. CASE SaveFails(t) \/ DeleteFails(t) \/ Killed(t)
  <2>1. disk' = disk /\ Fault /\ (Finish(t, "ok") \/ Finish(t, "error"))
    BY <1>6 DEF SaveFails, DeleteFails, Killed
  <2>2. promised' \in SUBSET Key
    BY <1>1, <1>6 DEF SaveFails, DeleteFails, Killed, Spoil, TypeOK
  <2> QED
    BY <1>1, <2>1, <2>2, Ends, Faulty DEF TypeOK, DiskInv
<1>7. CASE DeleteSource(t)
  <2>1. /\ disk' = [disk EXCEPT ![job[t].src] = NoFile] /\ UNCHANGED <<promised, faults>>
        /\ Finish(t, "ok") \/ Finish(t, "error")
    BY <1>7 DEF DeleteSource
  <2>2. job[t].src \in File
    BY <1>1, <1>7 DEF DeleteSource, HeldInv, Shape, Copies, File
  <2>3. DiskInv' /\ disk' \in [File -> Complete \cup {NoFile, Torn}]
    BY <2>1, <2>2, Written
  <2> QED
    BY <1>1, <2>1, <2>3, Ends DEF TypeOK
<1> QED
  BY <1>2, <1>3, <1>4, <1>5, <1>6, <1>7 DEF ToolStep

-----------------------------------------------------------------------------
\* Each step of a tool keeps every promised key safe.
LEMMA KeyStep ==
  ASSUME StoreInv, NEW t \in Tool, ToolStep(t) \/ Killed(t)
  PROVE  KeyInv'
<1>1. /\ TypeOK /\ DiskInv /\ Busy(t) /\ Frame(t) /\ Shape(job[t]) /\ HeldInv(t)
      /\ t \notin rough => OwnFiles(t)
  BY ToolFrame DEF StoreInv, ToolInv
<1>2. ASSUME NEW k, NEW u \in Tool \ rough, u # t,
             step[u] = "write", job[u].op = "cert_add_metadata", held[u].key = k, held[u].priv
      PROVE  InMemory(k)'
  BY <1>1, <1>2, MemoryStays
<1>3. ASSUME NEW k, NEW f \in File, HasPrivate(f, k),
             \A u \in rough : f \notin Writes(job[u]), disk'[f] = disk[f]
      PROVE  InFile(k)'
  BY <1>1, <1>3, FileStays
<1>4. ASSUME disk' = disk, promised' \subseteq promised,
             step[t] = "write" /\ job[t].op = "cert_add_metadata" => held[t].key \notin promised'
      PROVE  KeyInv'
  <2> SUFFICES ASSUME NEW k \in promised' PROVE InFile(k)' \/ InMemory(k)'
    BY DEF KeyInv
  <2>1. InFile(k) \/ InMemory(k)
    BY <1>4 DEF StoreInv, KeyInv
  <2>2. CASE InFile(k)
    BY <1>3, <1>4, <2>2 DEF InFile
  <2>3. CASE InMemory(k)
    BY <1>2, <1>4, <2>3 DEF InMemory
  <2> QED
    BY <2>1, <2>2, <2>3
<1>5. CASE ReadSource(t) \/ TestTarget(t)
  BY <1>4, <1>5 DEF ReadSource, TestTarget
<1>6. CASE DeleteFails(t)
  BY <1>4, <1>6 DEF DeleteFails
<1>7. CASE SaveFails(t) \/ Killed(t)
  BY <1>4, <1>7 DEF SaveFails, Killed, Spoil
<1>8. CASE OpenTarget(t)
  <2> SUFFICES ASSUME NEW k \in promised' PROVE InFile(k)' \/ InMemory(k)'
    BY DEF KeyInv
  <2>1. /\ step[t] = "save" /\ Goto(t, "write") /\ held' = held /\ promised' = promised
        /\ job[t].dst \in File /\ job[t].dst \in Writes(job[t])
        /\ \A f \in File : f # job[t].dst => disk'[f] = disk[f]
    BY <1>1, <1>8 DEF OpenTarget, Shape, Writes, TypeOK
  <2>2. step'[t] = "write" /\ job'[t] = job[t] /\ rough' = rough
    BY <1>1, <2>1, GoesOn
  <2>3. CASE InMemory(k)
    BY <1>2, <2>1, <2>3 DEF InMemory
  <2>4. CASE InFile(k)
    <3>1. PICK f \in File : HasPrivate(f, k) /\ \A u \in rough : f \notin Writes(job[u])
      BY <2>4 DEF InFile
    <3>2. CASE f # job[t].dst
      BY <1>3, <2>1, <3>1, <3>2
    <3>3. CASE f = job[t].dst
      <4>1. t \notin rough /\ OwnFiles(t) /\ disk[f] # NoFile
        BY <1>1, <2>1, <3>1, <3>3, Kinds DEF HasPrivate, Readable
      <4>2. /\ job[t].op = "cert_add_metadata" /\ disk[f] \in CertFile
            /\ held[t] = [disk[f] EXCEPT !.meta = TRUE] /\ f \in Cert
        BY <1>1, <2>1, <3>3, <4>1 DEF OwnFiles, Shape
      <4>3. disk[f].key = k /\ disk[f].priv
        BY <3>1, <4>2 DEF HasPrivate
      <4>4. held[t].key = disk[f].key /\ held[t].priv = disk[f].priv
        BY <4>2, Flags
      <4>5. held[t].key = k /\ held[t].priv
        BY <4>3, <4>4
      <4> QED
        BY <2>1, <2>2, <4>1, <4>2, <4>5 DEF InMemory
    <3> QED
      BY <3>2, <3>3
  <2> QED
    BY <2>1, <2>3, <2>4 DEF StoreInv, KeyInv
<1>9. CASE WriteTarget(t)
  <2> SUFFICES ASSUME NEW k \in promised' PROVE InFile(k)' \/ InMemory(k)'
    BY DEF KeyInv
  <2>0. PICK d \in File : d = job[t].dst
    BY <1>1 DEF Shape
  <2>1. /\ step[t] = "write" /\ d \in Writes(job[t])
        /\ disk'[d] = held[t] /\ \A f \in File : f # d => disk'[f] = disk[f]
    BY <1>1, <1>9, <2>0 DEF WriteTarget, Shape, Writes, TypeOK
  <2>2. ASSUME t \notin rough, held[t].key = k, d \notin Path, held[t] \in Complete,
               d \in Cert => held[t].priv
        PROVE  InFile(k)'
    <3>1. HasPrivate(d, k)'
      BY <2>1, <2>2 DEF HasPrivate, Readable
    <3> QED
      BY <1>1, <2>1, <2>2, <3>1, NewHome
  <2>3. CASE InMemory(k)
    <3>1. PICK u \in Tool \ rough :
            /\ step[u] = "write" /\ job[u].op = "cert_add_metadata"
            /\ held[u].key = k /\ held[u].priv
      BY <2>3 DEF InMemory
    <3>2. CASE u # t
      BY <1>2, <3>1, <3>2
    <3>3. CASE u = t
      <4>1. d \in Cert /\ d \notin Path /\ held[t] \in Complete
        BY <1>1, <2>0, <3>1, <3>3 DEF Shape, HeldInv, Creates, Complete
      <4> QED
        BY <2>2, <3>1, <3>3, <4>1
    <3> QED
      BY <3>2, <3>3
  <2>4. CASE InFile(k)
    <3>1. PICK f \in File : HasPrivate(f, k) /\ \A u \in rough : f \notin Writes(job[u])
      BY <2>4 DEF InFile
    <3>2. f # d
      BY <1>1, <2>0, <2>1, <3>1, Kinds DEF HasPrivate, Readable, OwnFiles
    <3> QED
      BY <1>3, <2>1, <3>1, <3>2
  <2>5. CASE job[t].op \in Creates /\ t \notin rough /\ k = held[t].key
    <3>1. d \notin Path /\ held[t] \in Complete /\ (d \in Cert => held[t].priv)
      BY <1>1, <2>0, <2>1, <2>5 DEF Shape, HeldInv, Creates, Complete
    <3> QED
      BY <2>2, <2>5, <3>1
  <2> QED
    BY <1>9, <2>3, <2>4, <2>5 DEF WriteTarget, StoreInv, KeyInv
<1>10. CASE DeleteSource(t)
  <2> SUFFICES ASSUME NEW k \in promised' PROVE InFile(k)' \/ InMemory(k)'
    BY DEF KeyInv
  <2>0. PICK s \in Cert, d \in Cert : s = job[t].src /\ d = job[t].dst
    BY <1>1, <1>10 DEF DeleteSource, HeldInv, Shape, Copies
  <2>1. /\ step[t] = "delete" /\ promised' = promised /\ job[t].op = "cert_rename"
        /\ {s, d} = Writes(job[t])
        /\ \A f \in File : f # s => disk'[f] = disk[f]
    BY <1>1, <1>10, <2>0 DEF DeleteSource, HeldInv, Writes, TypeOK
  <2>2. CASE InMemory(k)
    BY <1>2, <2>1, <2>2 DEF InMemory
  <2>3. CASE InFile(k)
    <3>1. PICK f \in File : HasPrivate(f, k) /\ \A u \in rough : f \notin Writes(job[u])
      BY <2>3 DEF InFile
    <3>2. CASE f # s
      BY <1>3, <2>1, <3>1, <3>2
    <3>3. CASE f = s
      <4>1. t \notin rough
        BY <2>1, <3>1, <3>3
      <4>2. /\ s # d /\ disk[d] = held[t] /\ disk[s] \in CertFile
            /\ held[t] = [disk[s] EXCEPT !.meta = FALSE]
        BY <1>1, <2>0, <2>1, <4>1 DEF OwnFiles
      <4>3. disk[s].key = k /\ disk[s].priv
        BY <3>1, <3>3 DEF HasPrivate
      <4>4. held[t] \in CertFile /\ held[t].key = k /\ held[t].priv
        BY <4>2, <4>3, Flags
      <4>5. disk'[d] = held[t]
        BY <2>1, <4>2 DEF File
      <4>6. HasPrivate(d, k)'
        BY <4>4, <4>5 DEF HasPrivate, Readable, Complete
      <4> QED
        BY <1>1, <2>1, <4>1, <4>6, NewHome DEF File
    <3> QED
      BY <3>2, <3>3
  <2> QED
    BY <2>1, <2>2, <2>3 DEF StoreInv, KeyInv
<1> QED
  BY <1>5, <1>6, <1>7, <1>8, <1>9, <1>10 DEF ToolStep

-----------------------------------------------------------------------------
\* A command that writes begins: with its peers it becomes rough, and the keys
\* in their files and memory are no longer promised.
LEMMA BeginStep ==
  ASSUME StoreInv, NEW t \in Tool, NEW j \in Jobs, Begin(t, j)
  PROVE  StoreInv'
<1>1. /\ Handler[j.op] = j.op /\ Shape(j) /\ job' = [job EXCEPT ![t] = j]
      /\ ~Busy(t) /\ UNCHANGED <<disk, status, held, faults>>
      /\ step' = [step EXCEPT ![t] = IF j.op \in Creates THEN "test" ELSE "read"]
  BY JobShape DEF Begin
<1>2. TypeOK /\ DiskInv /\ RoughInv /\ KeyInv /\ \A u \in Tool : ToolInv(u)
  BY DEF StoreInv
<1>3. /\ \A u \in Tool \ {t} : step'[u] = step[u] /\ job'[u] = job[u]
      /\ step'[t] = (IF j.op \in Creates THEN "test" ELSE "read") /\ job'[t] = j
  BY <1>1, <1>2 DEF TypeOK
<1>4. /\ Peers(j) \subseteq Tool \ {t} /\ \A u \in Peers(j) : Busy(u)
      /\ rough' = IF Peers(j) = {} THEN rough ELSE rough \cup Peers(j) \cup {t}
      /\ promised' \subseteq promised
  BY <1>1 DEF Begin, Peers
<1>5. TypeOK' /\ DiskInv'
  <2>1. /\ job' \in [Tool -> Jobs \cup {NoJob}]
        /\ step' \in [Tool -> {"idle", "read", "test", "save", "write", "delete"}]
    BY <1>1, <1>2 DEF TypeOK
  <2>2. rough' \in SUBSET Tool /\ promised' \in SUBSET Key
    BY <1>2, <1>4 DEF TypeOK
  <2> QED
    BY <1>1, <1>2, <2>1, <2>2 DEF TypeOK, DiskInv
<1>6. RoughInv'
  <2>1. ASSUME NEW u \in rough' PROVE Busy(u)'
    BY <1>2, <1>3, <1>4 DEF RoughInv, Busy, TypeOK
  <2>2. ASSUME NEW u \in Tool, NEW v \in Tool, u # v, Busy(u)', Busy(v)',
               Writes(job'[u]) \cap Writes(job'[v]) # {}
        PROVE  u \in rough'
    <3>1. CASE u # t /\ v # t
      BY <1>2, <1>3, <1>4, <2>2, <3>1 DEF RoughInv, Busy
    <3>2. CASE u = t
      <4>1. v \in Peers(j)
        BY <1>3, <2>2, <3>2 DEF Peers, Busy
      <4> QED
        BY <1>4, <3>2, <4>1
    <3>3. CASE v = t
      <4>1. u \in Peers(j)
        BY <1>3, <2>2, <3>3 DEF Peers, Busy
      <4> QED
        BY <1>4, <4>1
    <3> QED
      BY <3>1, <3>2, <3>3
  <2> QED
    BY <2>1, <2>2 DEF RoughInv, Writes
<1>7. ASSUME NEW u \in Tool PROVE ToolInv(u)'
  <2>1. CASE u # t
    <3>1. /\ ToolInv(u) /\ step'[u] = step[u] /\ job'[u] = job[u] /\ held'[u] = held[u]
          /\ disk' = disk /\ (u \notin rough' => u \notin rough)
      BY <1>1, <1>2, <1>3, <1>4, <2>1
    <3>2. /\ Shape(job[u])' <=> Shape(job[u])
          /\ HeldInv(u)' <=> HeldInv(u)
          /\ OwnFiles(u)' <=> OwnFiles(u)
      BY <3>1 DEF Shape, HeldInv, OwnFiles
    <3> QED
      BY <3>1, <3>2 DEF ToolInv, Busy
  <2>2. CASE u = t
    <3>1. HeldInv(t)' /\ OwnFiles(t)'
      BY <1>3 DEF HeldInv, OwnFiles, Creates
    <3> QED
      BY <1>1, <1>3, <2>2, <3>1 DEF ToolInv, Shape
  <2> QED
    BY <2>1, <2>2
<1>8. KeyInv'
  <2> SUFFICES ASSUME NEW k \in promised' PROVE InFile(k)' \/ InMemory(k)'
    BY DEF KeyInv
  <2>1. CASE InFile(k)
    <3>1. PICK f \in File : HasPrivate(f, k) /\ \A u \in rough : f \notin Writes(job[u])
      BY <2>1 DEF InFile
    <3>2. HasPrivate(f, k)'
      BY <1>1, <3>1 DEF HasPrivate, Readable
    <3>3. Peers(j) # {} => f \notin Writes(j) /\ \A u \in Peers(j) : f \notin Writes(job[u])
      <4> DEFINE shared == (UNION {Writes(job[u]) : u \in Peers(j)}) \cup Writes(j)
      <4>1. Peers(j) # {} => k \notin KeysIn(shared)
        <5>1. promised' = promised \ (KeysIn(IF Peers(j) = {} THEN {} ELSE shared)
                                        \cup HeldBy(Peers(j)))
          BY DEF Begin
        <5> HIDE DEF shared
        <5> QED
          BY <5>1
      <4>2. f \in shared => k \in KeysIn(shared)
        <5> HIDE DEF shared
        <5>1. f \in shared => f \in {g \in shared \ Path : Readable(g)}
          BY <3>1 DEF HasPrivate
        <5>2. disk[f].key = k
          BY <3>1 DEF HasPrivate
        <5> QED
          BY <5>1, <5>2 DEF KeysIn
      <4>3. f \notin shared => f \notin Writes(j) /\ \A u \in Peers(j) : f \notin Writes(job[u])
        <5>1. \A u \in Peers(j) : Writes(job[u]) \in {Writes(job[v]) : v \in Peers(j)}
          OBVIOUS
        <5> QED
          BY <5>1
      <4> HIDE DEF shared
      <4> QED
        BY <4>1, <4>2, <4>3
    <3>4. \A u \in rough' : f \notin Writes(job'[u])
      BY <1>1, <1>2, <1>3, <1>4, <3>1, <3>3 DEF RoughInv, TypeOK
    <3> QED
      BY <3>2, <3>4 DEF InFile, Writes
  <2>2. CASE InMemory(k)
    <3>1. PICK u \in Tool \ rough :
            /\ step[u] = "write" /\ job[u].op = "cert_add_metadata"
            /\ held[u].key = k /\ held[u].priv
      BY <2>2 DEF InMemory
    <3>2. u # t /\ held[u] \in CertFile
      BY <1>1, <1>2, <3>1 DEF Busy, ToolInv, HeldInv, Creates
    <3>3. u \notin Peers(j)
      <4>1. Peers(j) # {} => k \notin HeldBy(Peers(j))
        BY DEF Begin
      <4>2. u \in Peers(j) => k \in HeldBy(Peers(j))
        BY <3>1, <3>2, Kinds DEF HeldBy
      <4> QED
        BY <4>1, <4>2
    <3> QED
      BY <1>1, <1>3, <1>4, <3>1, <3>2, <3>3 DEF InMemory
  <2> QED
    BY <1>2, <1>4, <2>1, <2>2 DEF KeyInv
<1> QED
  BY <1>5, <1>6, <1>7, <1>8 DEF StoreInv

\* Commands that write nothing.
LEMMA QuietStep ==
  ASSUME StoreInv, NEW t \in Tool, ~Busy(t), NEW c \in {"ok", "error"}, Finish(t, c),
         UNCHANGED <<disk, promised, faults>>
  PROVE  StoreInv'
<1>1. TypeOK /\ DiskInv /\ KeyInv
  BY DEF StoreInv
<1>2. Frame(t)
  BY <1>1, Ends DEF Frame, Busy
<1>3. TypeOK' /\ DiskInv' /\ ToolInv(t)'
  BY <1>1, Ends DEF TypeOK, DiskInv
<1>4. \A u \in Tool \ {t} : ToolInv(u)'
  BY <1>2, Others
<1>5. ASSUME NEW k \in promised PROVE InFile(k)' \/ InMemory(k)'
  <2>1. CASE InFile(k)
    <3>1. PICK f \in File : HasPrivate(f, k) /\ \A u \in rough : f \notin Writes(job[u])
      BY <2>1 DEF InFile
    <3>2. disk'[f] = disk[f]
      OBVIOUS
    <3> QED
      BY <1>2, <3>1, <3>2, FileStays
  <2>2. CASE InMemory(k)
    <3>1. PICK u \in Tool \ rough : /\ step[u] = "write" /\ job[u].op = "cert_add_metadata"
                                    /\ held[u].key = k /\ held[u].priv
      BY <2>2 DEF InMemory
    <3>2. u # t
      BY <1>2, <3>1 DEF Busy
    <3> QED
      BY <1>2, <3>1, <3>2, MemoryStays
  <2> QED
    BY <1>1, <1>5, <2>1, <2>2 DEF KeyInv
<1>6. KeyInv'
  BY <1>5 DEF KeyInv
<1> QED
  BY <1>2, <1>3, <1>4, <1>6, RoughStep DEF StoreInv

-----------------------------------------------------------------------------
\* StoreInv is an invariant: files have contents of their kind, tools that share
\* a file are rough, the others know their files, and promised keys are safe.
LEMMA StoreInvariant == Spec => []StoreInv
<1>1. Init => StoreInv
  <2> SUFFICES ASSUME Init PROVE StoreInv
    OBVIOUS
  <2>1. TypeOK
    BY DEF Init, TypeOK
  <2>2. DiskInv
    BY DEF Init, DiskInv, File
  <2>3. RoughInv /\ KeyInv /\ \A t \in Tool : ToolInv(t)
    BY DEF Init, RoughInv, KeyInv, ToolInv, Busy
  <2> QED
    BY <2>1, <2>2, <2>3 DEF StoreInv
<1>2. StoreInv /\ [Next]_vars => StoreInv'
  <2> SUFFICES ASSUME StoreInv, [Next]_vars PROVE StoreInv'
    OBVIOUS
  <2>1. ASSUME NEW t \in Tool, NEW op \in Ops, Refused(t, op) PROVE StoreInv'
    <3>1. /\ ~Busy(t) /\ (Finish(t, "ok") \/ Finish(t, "error"))
          /\ UNCHANGED <<disk, promised, faults>>
      BY <2>1 DEF Refused
    <3> QED
      BY <3>1, QuietStep
  <2>2. ASSUME NEW t \in Tool, NEW j \in Jobs, Show(t, j) PROVE StoreInv'
    <3>1. /\ ~Busy(t) /\ (Finish(t, "ok") \/ Finish(t, "error"))
          /\ UNCHANGED <<disk, promised, faults>>
      BY <2>2 DEF Show
    <3> QED
      BY <3>1, QuietStep
  <2>3. ASSUME NEW t \in Tool, NEW j \in Jobs, Begin(t, j) PROVE StoreInv'
    BY <2>3, BeginStep
  <2>4. ASSUME NEW t \in Tool, ToolStep(t) \/ Killed(t) PROVE StoreInv'
    <3>1. Busy(t) /\ Frame(t) /\ TypeOK' /\ DiskInv' /\ ToolInv(t)' /\ KeyInv'
      BY <2>4, ToolFrame, ToolTypes, KeyStep
    <3>2. RoughInv'
      BY <3>1, RoughStep
    <3>3. \A u \in Tool \ {t} : ToolInv(u)'
      BY <3>1, Others
    <3> QED
      BY <3>1, <3>2, <3>3 DEF StoreInv
  <2>5. CASE UNCHANGED vars
    <3>1. TypeOK' /\ DiskInv' /\ RoughInv'
      BY <2>5 DEF vars, StoreInv, TypeOK, DiskInv, RoughInv, Busy, Writes
    <3>2. KeyInv'
      <4>1. promised' = promised
        BY <2>5 DEF vars
      <4>2. ASSUME NEW k \in promised, InFile(k) PROVE InFile(k)'
        BY <2>5, <4>2 DEF vars, InFile, HasPrivate, Readable, Writes
      <4>3. ASSUME NEW k \in promised, InMemory(k) PROVE InMemory(k)'
        BY <2>5, <4>3 DEF vars, InMemory
      <4> QED
        BY <4>1, <4>2, <4>3 DEF StoreInv, KeyInv
    <3>3. \A t \in Tool : ToolInv(t)'
      BY <2>5 DEF vars, StoreInv, ToolInv, Shape, HeldInv, OwnFiles, Busy
    <3> QED
      BY <3>1, <3>2, <3>3 DEF StoreInv
  <2> QED
    BY <2>1, <2>2, <2>3, <2>4, <2>5 DEF Next
<1> QED
  BY <1>1, <1>2, PTL DEF Spec

\* Files, jobs and what tools hold in memory keep their types.
THEOREM StoreTypeCorrect == Spec => []TypeOK
  BY StoreInvariant, PTL DEF StoreInv

\* A private key that "create" reported is never lost, whatever commands run,
\* calls fail and tools are killed, except where the write of an "add_metadata"
\* is cut.
THEOREM ReportedKeysSurvive == Spec => []KeysSurvive
<1>1. StoreInv => KeysSurvive
  BY DEF StoreInv, KeyInv, InFile, InMemory, KeysSurvive
<1> QED
  BY <1>1, StoreInvariant, PTL

\* A complete file that no rough tool writes changes in two ways only: it gets
\* metadata, or it goes when its copy under the new name is complete.
THEOREM ChangesAreAsked == Spec => FilesChangeAsAsked
<1> DEFINE Way(f, t) ==
      \/ t \in rough /\ f \in Writes(job[t])
      \/ job[t].op = "cert_add_metadata" /\ job[t].dst = f
      \/ /\ job[t].op = "cert_rename" /\ job[t].src = f /\ disk'[f] = NoFile
         /\ disk[job[t].dst] = [disk[f] EXCEPT !.meta = FALSE]
    Asked == \A f \in File : Readable(f) /\ disk'[f] # disk[f] => \E t \in Tool : Way(f, t)
<1>1. StoreInv /\ [Next]_vars => Asked
  <2> SUFFICES ASSUME StoreInv, [Next]_vars, NEW f \in File, Readable(f), disk'[f] # disk[f]
               PROVE  \E t \in Tool : Way(f, t)
    OBVIOUS
  <2>1. disk[f] \notin {NoFile, Torn} /\ disk \in [File -> Complete \cup {NoFile, Torn}]
    BY Kinds DEF Readable, StoreInv, TypeOK
  <2>2. PICK t \in Tool : OpenTarget(t) \/ WriteTarget(t) \/ DeleteSource(t)
    BY DEF Next, vars, Refused, Show, Begin, ToolStep, ReadSource, TestTarget, SaveFails,
      DeleteFails, Killed
  <2>3. Shape(job[t]) /\ HeldInv(t) /\ (t \notin rough => OwnFiles(t))
    BY <2>2 DEF StoreInv, ToolInv, Busy, OpenTarget, WriteTarget, DeleteSource
  <2>4. f \in Writes(job[t])
    <3>1. CASE OpenTarget(t) \/ WriteTarget(t)
      <4>1. f = job[t].dst
        BY <2>1, <3>1 DEF OpenTarget, WriteTarget
      <4> QED
        BY <4>1, StoreAssumption DEF Writes
    <3>2. CASE DeleteSource(t)
      <4>1. f = job[t].src
        BY <2>1, <3>2 DEF DeleteSource
      <4>2. job[t].op = "cert_rename"
        BY <2>3, <3>2 DEF DeleteSource, HeldInv
      <4> QED
        BY <4>1, <4>2 DEF Writes
    <3> QED
      BY <2>2, <3>1, <3>2
  <2>5. CASE t \in rough
    BY <2>4, <2>5
  <2>6. CASE t \notin rough
    <3>1. CASE OpenTarget(t)
      BY <2>1, <2>3, <2>6, <3>1 DEF OpenTarget, OwnFiles
    <3>2. CASE WriteTarget(t)
      BY <2>1, <2>3, <2>6, <3>2 DEF WriteTarget, OwnFiles
    <3>3. CASE DeleteSource(t)
      BY <2>1, <2>3, <2>6, <3>3 DEF DeleteSource, OwnFiles, HeldInv
    <3> QED
      BY <2>2, <3>1, <3>2, <3>3
  <2> QED
    BY <2>5, <2>6
<1> QED
  BY <1>1, StoreInvariant, PTL DEF Spec, FilesChangeAsAsked

\* A create, copy or rename of a tool that is not rough and exits with 0 has left
\* a complete file, and a renamed certificate is gone from its old name.
THEOREM SuccessHolds == Spec => SuccessIsReal
<1> DEFINE Real == \A t \in Tool \ rough :
       Busy(t) /\ ~Busy(t)' /\ status' = "ok" /\ job[t].op \in Creates \cup Copies
         => Effect(job[t], held[t])
<1>1. StoreInv /\ [Next]_vars => Real
  <2> SUFFICES ASSUME StoreInv, [Next]_vars, NEW t \in Tool \ rough, Busy(t), ~Busy(t)',
                      status' = "ok", job[t].op \in Creates \cup Copies
               PROVE  Effect(job[t], held[t])
    OBVIOUS
  <2>1. TypeOK /\ Shape(job[t]) /\ HeldInv(t) /\ OwnFiles(t)
    BY DEF StoreInv, ToolInv
  <2>2. WriteTarget(t) \/ DeleteSource(t)
    <3>1. PICK u \in Tool : \/ \E op \in Ops : Refused(u, op)
                            \/ \E j \in Jobs : Show(u, j) \/ Begin(u, j)
                            \/ ToolStep(u) \/ Killed(u)
      BY DEF Next, vars, Busy
    <3>2. u = t
      <4>1. CASE ToolStep(u) \/ Killed(u)
        BY <4>1, ToolFrame DEF Frame, Busy
      <4>2. ASSUME NEW s, step' = [step EXCEPT ![u] = s] PROVE u = t
        BY <2>1, <4>2 DEF TypeOK, Busy
      <4> QED
        BY <3>1, <4>1, <4>2 DEF Refused, Show, Begin, Finish
    <3>3. ToolStep(t) \/ Killed(t)
      BY <3>1, <3>2 DEF Refused, Show, Begin
    <3>4. ~Finish(t, "error")
      BY DEF Finish
    <3>5. ASSUME NEW s \in {"read", "test", "save", "write", "delete"} PROVE ~Goto(t, s)
      BY <2>1, <3>5, GoesOn
    <3> QED
      BY <3>3, <3>4, <3>5 DEF ToolStep, Killed, ReadSource, TestTarget, OpenTarget, SaveFails,
        DeleteFails, Creates, Copies
  <2>3. CASE WriteTarget(t)
    <3>1. job[t].op # "cert_rename"
      BY <2>1, <2>3, GoesOn DEF WriteTarget
    <3>2. held[t] \in Complete /\ job[t].dst \in File
      BY <2>1, <2>3 DEF WriteTarget, HeldInv, Shape, Creates, Copies, Complete
    <3>3. disk'[job[t].dst] = held[t]
      BY <2>1, <2>3, <3>2 DEF WriteTarget, TypeOK
    <3> QED
      BY <3>1, <3>2, <3>3 DEF Effect
  <2>4. CASE DeleteSource(t)
    <3>1. /\ job[t].op = "cert_rename" /\ job[t].src \in File /\ job[t].dst \in File
          /\ job[t].src # job[t].dst
          /\ disk[job[t].dst] = held[t] /\ held[t] \in Complete
      BY <2>1, <2>4 DEF DeleteSource, HeldInv, Shape, OwnFiles, Creates, Copies, Complete, File
    <3>2. disk'[job[t].src] = NoFile /\ disk'[job[t].dst] = held[t]
      BY <2>1, <2>4, <3>1 DEF DeleteSource, TypeOK
    <3> QED
      BY <3>1, <3>2 DEF Effect
  <2> QED
    BY <2>2, <2>3, <2>4
<1> QED
  BY <1>1, StoreInvariant, PTL DEF Spec, SuccessIsReal
=============================================================================
