------------------------------ MODULE KeyStore ------------------------------
(***************************************************************************)
(* The key files of a node and the processes of cellframe-node-tool that   *)
(* work on them (sources/main_node_tool.c): certificates name.dcert,       *)
(* wallets name.dwallet, and public keys exported to a path.               *)
(*                                                                         *)
(* A command reads its source into memory, tests that its target does not  *)
(* exist, and saves the target; "cert rename" deletes its source at last.  *)
(* Other tools run in between, each call may fail and the tool may be      *)
(* killed.  Reading and saving are the SDK's: a save opens the file, which *)
(* is unreadable ("torn") until it is written.  A key is the abstract      *)
(* identity of a key pair; -seed may give the same one twice.              *)
(***************************************************************************)
EXTENDS Integers, Sequences

CONSTANTS
  Cert, Wallet, Path,   \* names of certificates, of wallets, and export paths
  Key,                  \* key pairs
  Tool,                 \* processes of cellframe-node-tool
  Ops,                  \* the commands given to them
  MaxFaults             \* bound on failed calls and killed tools

VARIABLES
  disk,       \* the content of each file
  job,        \* the command each tool executes
  step,       \* what it does next
  status,     \* exit status of the tool that ended last
  held,       \* what it is about to save
  rough,      \* tools that write a file at the same time as another tool
  promised,   \* private keys reported as created and in no file of a rough tool
  faults

vars == <<disk, job, step, status, held, rough, promised, faults>>

File == Cert \cup Wallet \cup Path

NoFile == [kind |-> "none"]
Torn == [kind |-> "torn"]
CertFile == [kind : {"cert"}, key : Key, priv : BOOLEAN, meta : BOOLEAN]
WalletFile == [kind : {"wallet"}, key : Key, pass : BOOLEAN]
PkeyFile == [kind |-> "pkey"]
Complete == CertFile \cup WalletFile \cup {PkeyFile}

Exists(f) == disk[f] # NoFile
\* dap_cert_add_file, dap_chain_wallet_open: only a complete file is read.
Readable(f) == disk[f] \in Complete
KeysIn(files) == {disk[f].key : f \in {g \in files \ Path : Readable(g)}}
HeldBy(tools) == {held[t].key : t \in {u \in tools : held[u] \notin {NoFile, PkeyFile}}}
HasPrivate(f, k) ==
  /\ f \notin Path /\ Readable(f)
  /\ disk[f].key = k
  /\ f \in Cert => disk[f].priv

-----------------------------------------------------------------------------
\* The table of commands: s_opts.
s_opts == <<
  [cmd |-> "wallet", subcmd |-> <<"create">>,           op |-> "wallet_create"],
  [cmd |-> "wallet", subcmd |-> <<"create_from">>,      op |-> "wallet_create_from"],
  [cmd |-> "wallet", subcmd |-> <<"create_wp">>,        op |-> "wallet_create_wp"],
  [cmd |-> "wallet", subcmd |-> <<"pkey", "show">>,     op |-> "wallet_show"],
  [cmd |-> "wallet", subcmd |-> <<"pkey", "show_full">>, op |-> "wallet_show_full"],
  [cmd |-> "cert", subcmd |-> <<"create">>,             op |-> "cert_create"],
  [cmd |-> "cert", subcmd |-> <<"dump">>,               op |-> "cert_dump"],
  [cmd |-> "cert", subcmd |-> <<"create_pkey">>,        op |-> "cert_create_pkey"],
  [cmd |-> "cert", subcmd |-> <<"create_cert_pkey">>,   op |-> "cert_create_cert_pkey"],
  [cmd |-> "cert", subcmd |-> <<"rename">>,             op |-> "cert_rename"],
  [cmd |-> "cert", subcmd |-> <<"add_metadata">>,       op |-> "cert_add_metadata"],
  [cmd |-> "cert", subcmd |-> <<"sign">>,               op |-> "cert_sign"],
  [cmd |-> "cert", subcmd |-> <<"pkey", "show">>,       op |-> "cert_pkey_show"],
  [cmd |-> "cert", subcmd |-> <<"pkey", "show_full">>,  op |-> "cert_pkey_show_full"],
  [cmd |-> "cert", subcmd |-> <<"addr", "show">>,       op |-> "cert_get_addr"] >>

AllOps == {s_opts[i].op : i \in DOMAIN s_opts}
Words(op) == LET i == CHOOSE i \in DOMAIN s_opts : s_opts[i].op = op
             IN <<s_opts[i].cmd>> \o s_opts[i].subcmd

\* The words of entry o are at position start of the command line.
Matches(o, argv, start) ==
  /\ argv[start] = o.cmd
  /\ \A k \in DOMAIN o.subcmd :
       start + k <= Len(argv) /\ argv[start + k] = o.subcmd[k]

\* The loop of main(): the first entry that matches.  argv has lost "-B path"
\* and "start" has grown by two when that option was given.  Behind the
\* last word argv has a null pointer, at which the tool crashes: no handler runs.
Dispatch(argv, start) ==
  LET hits == {i \in DOMAIN s_opts : Matches(s_opts[i], argv, start)}
  IN IF start > Len(argv) THEN "none"
     ELSE IF hits = {} THEN "none"
     ELSE s_opts[CHOOSE i \in hits : \A k \in hits : i <= k].op

-----------------------------------------------------------------------------
Creates == {"wallet_create", "wallet_create_wp", "cert_create"}
Copies == {"cert_create_cert_pkey", "cert_rename"}
WalletShows == {"wallet_show", "wallet_show_full"}
Shows == WalletShows \cup {"cert_dump", "cert_pkey_show", "cert_pkey_show_full", "cert_get_addr"}
Unimplemented == {"wallet_create_from", "cert_sign"}

\* What follows the words of the command: the file it reads, the file it writes,
\* and, to show a wallet, whether the right password is given.
JobsOf(op) ==
  LET With(src, dst) == [op : {op}, src : src, dst : dst, pass : {FALSE}]
  IN CASE op \in {"wallet_create", "wallet_create_wp"} -> With({"none"}, Wallet)
       [] op = "cert_create" -> With({"none"}, Cert)
       [] op \in WalletShows -> [op : {op}, src : Wallet, dst : {"none"}, pass : BOOLEAN]
       [] op \in Shows \ WalletShows -> With(Cert, {"none"})
       [] op = "cert_create_pkey" -> With(Cert, Path)
       [] op \in Copies -> With(Cert, Cert)
       [] op = "cert_add_metadata" -> {j \in With(Cert, Cert) : j.src = j.dst}
       [] op \in Unimplemented -> {}
Jobs == UNION {JobsOf(op) : op \in Ops}
NoJob == [op |-> "none", src |-> "none", dst |-> "none"]

Busy(t) == step[t] # "idle"
\* The files a command writes or removes, and the tools that do so to one of them.
Writes(j) == IF j.op = "cert_rename" THEN {j.src, j.dst} ELSE {j.dst} \ {"none"}
Peers(j) == {u \in Tool : Busy(u) /\ Writes(job[u]) \cap Writes(j) # {}}

Goto(t, s) == step' = [step EXCEPT ![t] = s] /\ UNCHANGED <<job, status, rough>>

\* The tool ends with an exit status.
Finish(t, code) ==
  /\ status' = code
  /\ step' = [step EXCEPT ![t] = "idle"]
  /\ job' = [job EXCEPT ![t] = NoJob]
  /\ held' = [held EXCEPT ![t] = NoFile]
  /\ rough' = rough \ {t}

\* One more failed call.
Fault == faults < MaxFaults /\ faults' = faults + 1

Init ==
  /\ disk = [f \in File |-> NoFile]
  /\ job = [t \in Tool |-> NoJob]
  /\ step = [t \in Tool |-> "idle"]
  /\ status = "ok"
  /\ held = [t \in Tool |-> NoFile]
  /\ rough = {}
  /\ promised = {}
  /\ faults = 0

\* The handler main() calls for the words of a command, without and with -B.
Handler == [op \in AllOps |-> Dispatch(Words(op) \o <<"arg", "arg">>, 1)]
HandlerB == [op \in AllOps |-> Dispatch(Words(op) \o <<"arg", "arg">>, 3)]

\* Names of different kinds differ, and the words of every command reach the
\* handler that the table gives for them.
ASSUME StoreAssumption ==
  /\ Cert \cap Wallet = {} /\ Cert \cap Path = {} /\ Wallet \cap Path = {}
  /\ "none" \notin File
  /\ MaxFaults \in Nat
  /\ Ops \subseteq Creates \cup Copies \cup Shows \cup Unimplemented
                  \cup {"cert_create_pkey", "cert_add_metadata"}
  /\ \A op \in Ops : Handler[op] = op

\* The command does nothing: its handler is not implemented, or refuses its
\* arguments (their number, signature types, names, passwords) before any file
\* is touched, or is not found because -B came first: "start" then counts two
\* words that argv no longer has.  "cert dump" with few arguments returns 0.
Refused(t, op) ==
  /\ ~Busy(t)
  /\ \/ HandlerB[op] = "none" /\ Finish(t, "error")
     \/ Finish(t, IF Handler[op] = "cert_dump" THEN "ok" ELSE "error")
  /\ UNCHANGED <<disk, promised, faults>>

\* dap_cert_find_by_name(), dap_chain_wallet_open().  A wallet with a password
\* is opened by the right password, which only "pkey show" tries.
Show(t, j) ==
  /\ ~Busy(t)
  /\ Handler[j.op] \in Shows
  /\ LET opens == /\ Readable(j.src)
                  /\ Handler[j.op] \in WalletShows /\ disk[j.src].pass
                       => j.pass /\ Handler[j.op] = "wallet_show"
     IN Finish(t, IF opens THEN "ok" ELSE "error")
  /\ UNCHANGED <<disk, promised, faults>>

\* A command that writes: one that creates a key tests for its file first, the
\* others read their source first.
Begin(t, j) ==
  /\ ~Busy(t)
  /\ Handler[j.op] \notin Shows
  /\ LET mates == Peers(j)
         shared == IF mates = {} THEN {} ELSE (UNION {Writes(job[u]) : u \in mates}) \cup Writes(j)
     IN /\ rough' = IF mates = {} THEN rough ELSE rough \cup mates \cup {t}
        /\ promised' = promised \ (KeysIn(shared) \cup HeldBy(mates))
  /\ job' = [job EXCEPT ![t] = [j EXCEPT !.op = Handler[@]]]
  /\ step' = [step EXCEPT ![t] = IF Handler[j.op] \in Creates THEN "test" ELSE "read"]
  /\ UNCHANGED <<disk, status, held, faults>>

-----------------------------------------------------------------------------
\* Mutant of Loaded: the exported key is written as it is in memory.
LoadedWhole(op, c) ==
  CASE op = "cert_create_pkey" -> [kind |-> "pkey", key |-> c.key, priv |-> c.priv]
    [] op = "cert_create_cert_pkey" -> [c EXCEPT !.priv = FALSE, !.meta = FALSE]
    [] op = "cert_rename" -> [c EXCEPT !.meta = FALSE]
    [] op = "cert_add_metadata" -> [c EXCEPT !.meta = TRUE]

\* What a readable certificate c becomes in the memory of the command.
Loaded(op, c) ==
  CASE op = "cert_create_pkey" -> PkeyFile
    [] op = "cert_create_cert_pkey" -> [c EXCEPT !.priv = FALSE, !.meta = FALSE]
    [] op = "cert_rename" -> [c EXCEPT !.meta = FALSE]
    [] op = "cert_add_metadata" -> [c EXCEPT !.meta = TRUE]

\* dap_cert_add_file().  The new certificate of a copy gets the keys of the old
\* one and nothing else.
ReadSource(t) ==
  /\ step[t] = "read"
  /\ IF ~Readable(job[t].src) THEN Finish(t, "error")
     ELSE /\ held' = [held EXCEPT ![t] = Loaded(job[t].op, disk[job[t].src])]
          /\ Goto(t, IF job[t].op = "cert_add_metadata" THEN "save" ELSE "test")
  /\ UNCHANGED <<disk, promised, faults>>

\* What each command that creates a key is about to save.
NewCert(k) == [kind |-> "cert", key |-> k, priv |-> TRUE, meta |-> FALSE]
NewWallet(k) == [kind |-> "wallet", key |-> k, pass |-> FALSE]
NewWalletWp(k) == [kind |-> "wallet", key |-> k, pass |-> TRUE]
Generated(op, k) ==
  CASE op = "cert_create" -> NewCert(k)
    [] op = "wallet_create" -> NewWallet(k)
    [] op = "wallet_create_wp" -> NewWalletWp(k)

\* Mutant of TestTarget: the test is left out.
TestNothing(t) ==
  /\ step[t] = "test"
  /\ IF job[t].op \in Creates
       THEN \E k \in Key : held' = [held EXCEPT ![t] = Generated(job[t].op, k)]
       ELSE UNCHANGED held
  /\ Goto(t, "save")
  /\ UNCHANGED <<disk, promised, faults>>

\* access() or dap_file_test(): a target that exists ends the command.  Then a
\* new certificate or wallet gets its key.
TestTarget(t) ==
  /\ step[t] = "test"
  /\ IF Exists(job[t].dst) THEN Finish(t, "error")
     ELSE /\ IF job[t].op \in Creates
               THEN \E k \in Key : held' = [held EXCEPT ![t] = Generated(job[t].op, k)]
               ELSE UNCHANGED held
          /\ Goto(t, "save")
  /\ UNCHANGED <<disk, promised, faults>>

\* The target is opened for writing.
OpenTarget(t) ==
  /\ step[t] = "save"
  /\ disk' = [disk EXCEPT ![job[t].dst] = Torn]
  /\ Goto(t, "write")
  /\ UNCHANGED <<held, promised, faults>>

\* Mutant of WriteTarget: "cert rename" deletes its source before the save ends.
WriteAfterDelete(t) ==
  /\ step[t] = "write"
  /\ IF job[t].op = "cert_rename" /\ Exists(job[t].src)
       THEN disk' = [disk EXCEPT ![job[t].src] = NoFile] /\ UNCHANGED <<step, status, job, held, rough>>
       ELSE disk' = [disk EXCEPT ![job[t].dst] = held[t]] /\ Finish(t, "ok")
  /\ promised' = IF job[t].op \in Creates /\ t \notin rough
                   THEN promised \cup {held[t].key} ELSE promised
  /\ UNCHANGED faults

\* The content is written; all commands but "cert rename" end with success.
WriteTarget(t) ==
  /\ step[t] = "write"
  /\ disk' = [disk EXCEPT ![job[t].dst] = held[t]]
  /\ IF job[t].op = "cert_rename"
       THEN Goto(t, "delete") /\ UNCHANGED held
       ELSE Finish(t, "ok")
  /\ promised' = IF job[t].op \in Creates /\ t \notin rough
                   THEN promised \cup {held[t].key} ELSE promised
  /\ UNCHANGED faults

\* A key that only the broken file held is no longer promised.
Spoil(t) ==
  promised' = IF step[t] = "write" /\ job[t].op = "cert_add_metadata"
                THEN promised \ {held[t].key} ELSE promised

\* The save fails, at the open or later.  "cert add_metadata" does not look at
\* the result of the save and "cert create_pkey" goes on without a file.
SaveFails(t) ==
  /\ step[t] \in {"save", "write"}
  /\ Fault
  /\ Spoil(t)
  /\ Finish(t, IF job[t].op \in {"cert_create_pkey", "cert_add_metadata"} THEN "ok" ELSE "error")
  /\ UNCHANGED disk

\* dap_cert_delete_file() of the renamed certificate.
DeleteSource(t) ==
  /\ step[t] = "delete"
  /\ disk' = [disk EXCEPT ![job[t].src] = NoFile]
  /\ Finish(t, IF Exists(job[t].src) THEN "ok" ELSE "error")
  /\ UNCHANGED <<promised, faults>>

\* Mutant of DeleteFails: its result is not returned.
DeleteFailsOk(t) ==
  /\ step[t] = "delete"
  /\ Fault
  /\ Finish(t, "ok")
  /\ UNCHANGED <<disk, promised>>

DeleteFails(t) ==
  /\ step[t] = "delete"
  /\ Fault
  /\ Finish(t, "error")
  /\ UNCHANGED <<disk, promised>>

\* The tool is killed, or gives up for want of memory or of a usable key.
Killed(t) ==
  /\ Busy(t)
  /\ Fault
  /\ Spoil(t)
  /\ Finish(t, "error")
  /\ UNCHANGED disk

ToolStep(t) ==
  \/ ReadSource(t) \/ TestTarget(t) \/ OpenTarget(t) \/ WriteTarget(t)
  \/ SaveFails(t) \/ DeleteSource(t) \/ DeleteFails(t)

Next ==
  \E t \in Tool :
    \/ \E op \in Ops : Refused(t, op)
    \/ \E j \in Jobs : Show(t, j) \/ Begin(t, j)
    \/ ToolStep(t) \/ Killed(t)

Spec == Init /\ [][Next]_vars

-----------------------------------------------------------------------------
TypeOK ==
  /\ disk \in [File -> Complete \cup {NoFile, Torn}]
  /\ job \in [Tool -> Jobs \cup {NoJob}]
  /\ step \in [Tool -> {"idle", "read", "test", "save", "write", "delete"}]
  /\ status \in {"ok", "error"}
  /\ held \in [Tool -> Complete \cup {NoFile}]
  /\ rough \in SUBSET Tool
  /\ promised \in SUBSET Key
  /\ faults \in 0..MaxFaults

\* A private key that "create" reported is never lost: renaming, exporting and
\* refused commands keep it in some file, whatever call fails and whenever the
\* tool is killed.  While metadata is added the tool has the only copy, and the
\* key is lost, and no longer promised, when that write is cut (Spoil).
KeysSurvive ==
  \A k \in promised :
    \/ \E f \in File : HasPrivate(f, k)
    \/ \E t \in Tool : /\ step[t] = "write" /\ job[t].op = "cert_add_metadata"
                       /\ held[t].key = k

\* A complete file changes in two ways only, it gets metadata, or it is removed
\* when its copy under the new name is complete, unless a tool that writes it
\* overlapped with another one.
FilesChangeAsAsked ==
  [][\A f \in File : Readable(f) /\ disk'[f] # disk[f] =>
       \E t \in Tool :
         \/ t \in rough /\ f \in Writes(job[t])
         \/ job[t].op = "cert_add_metadata" /\ job[t].dst = f
         \/ /\ job[t].op = "cert_rename" /\ job[t].src = f /\ disk'[f] = NoFile
            /\ disk[job[t].dst] = [disk[f] EXCEPT !.meta = FALSE]]_vars

\* A create, copy or rename that exits with 0 has done what it says: its file
\* is complete, and a renamed certificate is gone from its old name.
Effect(j, h) ==
  /\ disk'[j.dst] \in Complete
  /\ j.op = "cert_rename" => disk'[j.src] = NoFile /\ disk'[j.dst].key = h.key
SuccessIsReal ==
  [][\A t \in Tool \ rough :
       Busy(t) /\ ~Busy(t)' /\ status' = "ok" /\ job[t].op \in Creates \cup Copies
         => Effect(job[t], held[t])]_vars
=============================================================================
