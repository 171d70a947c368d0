----------------------------- MODULE MacInstall -----------------------------
(***************************************************************************)
(* The postinstall script of the macOS package, which keeps the networks   *)
(* of the user as they are: it saves their files, lays out the package,    *)
(* puts the files back, removes the saved ones, runs share/default.setup   *)
(* with the configuration tool and removes duplicates.  It may be          *)
(* interrupted at any step and is run again by the next install.           *)
(*                                                                         *)
(* The package has no network files of its own under etc, so laying it out *)
(* leaves them alone.  Operators run no tool of their own, and move and    *)
(* edit nothing, while the script runs.  Of default.setup the commands on  *)
(* networks are modelled, and that any command may end the run.            *)
(***************************************************************************)
EXTENDS NetworkConfig

VARIABLES
  ins,        \* what the script does next
  todo,       \* the networks its loop has not visited
  cur,        \* the network it visits
  bak,        \* the backup directory of this run
  off,        \* USER_DISABLED_NETWORKS
  edited,     \* networks with a file that the user edited
  cut         \* those whose edit went with a copy or save that was cut short

netVars == <<job, step, at, mem, wish, raced, templated, crashes>>
insVars == <<ins, todo, cur, bak, off, edited, cut>>
macVars == <<vars, insVars>>

Loops == {"bak_cfg", "bak_dis", "restore", "clean", "setup", "config", "enforce", "dups"}
Restoring == {"cp_cfg", "fill_cfg", "rm_dis", "cp_dis", "fill_dis", "rm_cfg"}
NoBackup == [n \in Net |-> [cfg |-> "none", dis |-> "none"]]

Idle == ins = "idle"
NoTool == \A t \in Tool : step[t] = "idle"
Step(from, to) == ins = from /\ ins' = to
Visit(n) == n \in todo /\ todo' = todo \ {n}

\* rm -f n.cfg; rm -f n.cfg.dis
RmCfg(n) == cfg' = [cfg EXCEPT ![n] = "none"] /\ UNCHANGED dis
RmDis(n) == dis' = [dis EXCEPT ![n] = "none"] /\ UNCHANGED cfg

MacInit ==
  /\ Init
  /\ ins = "idle"
  /\ todo = {}
  /\ cur \in Net
  /\ bak = NoBackup
  /\ off = {}
  /\ edited = {}
  /\ cut = {}

-----------------------------------------------------------------------------
\* The script starts; it is to keep the state every network has.
InsBegin ==
  /\ NoTool
  /\ Step("idle", "bak_cfg")
  /\ todo' = Net
  /\ wish' = [n \in Net |-> IF StateOf(n) = "none" THEN wish[n] ELSE StateOf(n)]
  /\ UNCHANGED <<cfg, dis, job, step, at, mem, raced, templated, crashes, cur, bak, off, edited, cut>>

\* cp of *.cfg and then of *.cfg.dis to the backup directory.
BackupCfg(n) ==
  /\ ins = "bak_cfg" /\ Visit(n)
  /\ bak' = [bak EXCEPT ![n].cfg = cfg[n]]
  /\ UNCHANGED <<vars, ins, cur, off, edited, cut>>

BackupDis(n) ==
  /\ ins = "bak_dis" /\ Visit(n)
  /\ bak' = [bak EXCEPT ![n].dis = dis[n]]
  /\ UNCHANGED <<vars, ins, cur, off, edited, cut>>

\* The saved files of a network are put back, n.cfg before n.cfg.dis.
Restore(n) ==
  /\ Step("restore", "cp_cfg") /\ Visit(n)
  /\ cur' = n
  /\ UNCHANGED <<vars, bak, off, edited, cut>>

\* cp creates or truncates the file, and then fills it.
CpCfg ==
  /\ IF bak[cur].cfg = "none"
       THEN Step("cp_cfg", "cp_dis") /\ UNCHANGED <<cfg, dis>>
       ELSE Step("cp_cfg", "fill_cfg") /\ Put(cur, "on", "partial")
  /\ UNCHANGED <<netVars, todo, cur, bak, off, edited, cut>>

FillCfg ==
  /\ Step("fill_cfg", "rm_dis")
  /\ Put(cur, "on", bak[cur].cfg)
  /\ UNCHANGED <<netVars, todo, cur, bak, off, edited, cut>>

RmDisConflict ==
  /\ Step("rm_dis", "cp_dis")
  /\ RmDis(cur)
  /\ UNCHANGED <<netVars, todo, cur, bak, off, edited, cut>>

CpDis ==
  /\ IF bak[cur].dis = "none"
       THEN Step("cp_dis", "restore") /\ UNCHANGED <<cfg, dis>>
       ELSE Step("cp_dis", "fill_dis") /\ Put(cur, "off", "partial")
  /\ UNCHANGED <<netVars, todo, cur, bak, off, edited, cut>>

\* Mutant of FillDis: the file of the template is copied instead of the saved one.
FillDisStock ==
  /\ Step("fill_dis", "rm_cfg")
  /\ Put(cur, "off", "stock")
  /\ off' = off \cup {cur}
  /\ UNCHANGED <<netVars, todo, cur, bak, edited, cut>>

FillDis ==
  /\ Step("fill_dis", "rm_cfg")
  /\ Put(cur, "off", bak[cur].dis)
  /\ off' = off \cup {cur}
  /\ UNCHANGED <<netVars, todo, cur, bak, edited, cut>>

RmCfgConflict ==
  /\ Step("rm_cfg", "restore")
  /\ RmCfg(cur)
  /\ UNCHANGED <<netVars, todo, cur, bak, off, edited, cut>>

\* Of two files n.cfg is removed.
KeepDisabled(n) ==
  IF Enabled(n) /\ Disabled(n) THEN RmCfg(n) ELSE UNCHANGED <<cfg, dis>>

\* Before the setup, and after it.
Clean(n) ==
  /\ ins = "clean" /\ Visit(n)
  /\ KeepDisabled(n)
  /\ UNCHANGED <<netVars, ins, cur, bak, off, edited, cut>>

Duplicates(n) ==
  /\ ins = "dups" /\ Visit(n)
  /\ KeepDisabled(n)
  /\ UNCHANGED <<netVars, ins, cur, bak, off, edited, cut>>

\* default.setup, executed by one process of the tool: first "network n default
\* on|off" for every network,
SetupNet(t, j) ==
  /\ ins = "setup" /\ Visit(j.net)
  /\ NoTool
  /\ j.op = "default" /\ ~j.dry
  /\ Begin(t, j)
  /\ UNCHANGED <<ins, cur, bak, off, edited, cut>>

\* then, one or more times for every network, "config n ... default|ensure ...".
SetupConfig(t, j) ==
  /\ ins = "config" /\ j.net \in todo /\ todo' \in {todo, todo \ {j.net}}
  /\ NoTool
  /\ j.op = "config" /\ ~j.dry
  /\ Begin(t, j)
  /\ UNCHANGED <<ins, cur, bak, off, edited, cut>>

\* The process ends before the end of default.setup, and the script goes on: it
\* could not be parsed, or a command on cellframe-node.cfg threw.
SetupOver == ins' = "config" /\ todo' = {}
SetupFails ==
  /\ ins \in {"setup", "config"} /\ NoTool
  /\ SetupOver
  /\ UNCHANGED <<vars, cur, bak, off, edited, cut>>

\* A network of USER_DISABLED_NETWORKS that has n.cfg is disabled again.
Enforce(n) ==
  /\ ins = "enforce" /\ Visit(n)
  /\ IF Enabled(n)
       THEN /\ cfg' = [cfg EXCEPT ![n] = "none"]
            /\ dis' = [dis EXCEPT ![n] = IF Disabled(n) THEN @ ELSE cfg[n]]
       ELSE UNCHANGED <<cfg, dis>>
  /\ UNCHANGED <<netVars, ins, cur, bak, off, edited, cut>>

\* A loop ends and the next part begins; the backup is removed after "restore".
NextLoop(from, to, over) ==
  /\ Step(from, to)
  /\ todo = {} /\ NoTool
  /\ todo' = over
  /\ bak' = IF from = "restore" THEN NoBackup ELSE bak
  /\ UNCHANGED <<vars, cur, off, edited, cut>>

LoopEnds ==
  \/ NextLoop("bak_cfg", "bak_dis", Net)
  \/ NextLoop("bak_dis", "restore", Net)
  \/ NextLoop("restore", "clean", Net)
  \/ NextLoop("clean", "setup", Net)
  \/ NextLoop("setup", "config", Net)
  \/ NextLoop("config", "enforce", off)
  \/ NextLoop("enforce", "dups", Net)

\* The script ends.  Whatever commands made of a network before, it is orderly.
InsEnd ==
  /\ Step("dups", "idle")
  /\ todo = {}
  /\ raced' = {}
  /\ templated' = {}
  /\ wish' = [n \in Net |-> IF n \in Orderly THEN wish[n] ELSE StateOf(n)]
  /\ edited' = {n \in edited : n \in Orderly \/ "user" \in {cfg[n], dis[n]}}
  /\ cut' = cut \cap Orderly
  /\ off' = {}
  /\ UNCHANGED <<cfg, dis, job, step, at, mem, crashes, todo, cur, bak>>

\* A tool that saves a file holds the user's edit of n in memory.
Holds(t, n) == Works(t, n) /\ step[t] = "write" /\ mem[t] = "user"

\* So does, outside the files, the backup while it is copied back.
Midway(n) ==
  \/ cur = n /\ ins = "fill_cfg" /\ bak[n].cfg = "user"
  \/ cur = n /\ ins = "fill_dis" /\ bak[n].dis = "user"
  \/ \E t \in Tool : Holds(t, n)

\* The script is interrupted, with the tool it runs.
Interrupted ==
  /\ ins # "idle"
  /\ crashes < MaxCrash
  /\ crashes' = crashes + 1
  /\ ins' = "idle"
  /\ todo' = {}
  /\ job' = [t \in Tool |-> NoJob]
  /\ step' = [t \in Tool |-> "idle"]
  /\ at' = [t \in Tool |-> "none"]
  /\ mem' = [t \in Tool |-> "none"]
  /\ cut' = cut \cup {n \in Net : Midway(n)}
  /\ bak' = NoBackup
  /\ off' = {}
  /\ UNCHANGED <<cfg, dis, wish, raced, templated, cur, edited>>

InstallStep ==
  \/ \E n \in Net : BackupCfg(n) \/ BackupDis(n) \/ Restore(n)
  \/ \E n \in Net : Clean(n) \/ Enforce(n) \/ Duplicates(n)
  \/ \E t \in Tool, j \in Jobs : SetupNet(t, j) \/ SetupConfig(t, j)
  \/ CpCfg \/ FillCfg \/ RmDisConflict \/ CpDis \/ FillDis \/ RmCfgConflict
  \/ SetupFails \/ LoopEnds \/ InsEnd

\* Commands of operators, and steps of the tools, the script's included.
Command ==
  /\ \/ Idle /\ \E t \in Tool, j \in Jobs : Begin(t, j)
     \/ \E t \in Tool : ToolStep(t)
     \/ Idle /\ \E n \in Net : UserMoves(n)
  /\ UNCHANGED insVars

\* A tool ends early; in the setup no further command is executed.
ToolEnds(t) ==
  /\ \/ Throws(t) /\ UNCHANGED cut
     \/ Crash(t) /\ cut' = cut \cup {n \in Net : Holds(t, n)}
  /\ IF Idle THEN UNCHANGED <<ins, todo>> ELSE SetupOver
  /\ UNCHANGED <<cur, bak, off, edited>>

Edit ==
  \E n \in Net :
    /\ Idle /\ UserEdits(n)
    /\ edited' = edited \cup {n}
    /\ cut' = cut \ {n}
    /\ UNCHANGED <<ins, todo, cur, bak, off>>

MacNext ==
  \/ InsBegin \/ InstallStep \/ Interrupted \/ Command \/ Edit
  \/ \E t \in Tool : ToolEnds(t)

MacSpec == MacInit /\ [][MacNext]_macVars

-----------------------------------------------------------------------------
MacTypeOK ==
  /\ TypeOK
  /\ ins \in {"idle"} \cup Loops \cup Restoring
  /\ todo \in SUBSET Net
  /\ cur \in Net
  /\ bak \in [Net -> [cfg : Contents, dis : Contents]]
  /\ off \in SUBSET Net
  /\ edited \in SUBSET Net
  /\ cut \in SUBSET Net

\* An edited configuration is not lost by orderly commands and installs: a file
\* of the network holds it or, while the script copies it back, the backup does,
\* or, while a config command saves it, the memory of the tool.  Only a kill in the
\* midst of that copy or save loses it: it is left in a backup directory that no
\* later install reads, or nowhere.
EditsKept ==
  \A n \in edited \cap (Orderly \ cut) : "user" \in {cfg[n], dis[n]} \/ Midway(n)
=============================================================================
