---------------------------- MODULE NetworkConfig ----------------------------
(***************************************************************************)
(* The network configurations of a node: for network n the file n.cfg when *)
(* it is enabled and n.cfg.dis when it is disabled, and the commands of    *)
(* cellframe-node-config that create, move and rewrite them (conftool's    *)
(* NetworkCommand.cpp, FromTemplateCommand.cpp and ConfigCommand.cpp), run *)
(* by installers and by operators, who also move and edit them by hand.    *)
(*                                                                         *)
(* A command first looks at the directory and then acts on what it saw: in *)
(* between others run, and it may be killed.  Copying and saving create or *)
(* truncate a file before they write it, and go on with the file they have *)
(* open when it is moved.  A file is "none", "partial" (truncated or cut   *)
(* short), "stock" (the template's content) or "user": it has an edit of a *)
(* parameter no "config ensure" names.  ConfigFile has the parameters.     *)
(***************************************************************************)
EXTENDS Integers

CONSTANTS
  Net,        \* the networks; each has a template under share/configs
  Tool,       \* processes of cellframe-node-config
  Ops,        \* the commands given to them
  MaxCrash    \* bound on killed commands

VARIABLES
  cfg,        \* cfg[n]: the file n.cfg
  dis,        \* dis[n]: the file n.cfg.dis
  job,        \* the command each tool executes
  step,       \* what it does next
  at,         \* the name that the file it has open for writing has now
  mem,        \* the content it has loaded
  wish,       \* the last state of n somebody explicitly asked for, or "none"
  raced,      \* networks on which commands, moves or edits overlapped
  templated,  \* networks on which fromtemplate was used
  crashes

vars == <<cfg, dis, job, step, at, mem, wish, raced, templated, crashes>>

States == {"on", "off"}
Contents == {"none", "partial", "stock", "user"}
Steps == {"idle", "look", "copy", "overwrite", "fill", "move", "load", "save", "write"}
Templates == {"tmpl_default", "tmpl_ensure"}
OpNames == {"default", "ensure", "config"} \cup Templates

ASSUME ConfigAssumption == Ops \subseteq OpNames /\ MaxCrash \in Nat

\* Commands of Ops, for every network and state, in dry-run mode or not.
Jobs == [op : Ops, net : Net, val : States, dry : BOOLEAN]
NoJob == [op |-> "idle"]

Exists(file, n) == file[n] # "none"
Enabled(n) == Exists(cfg, n)
Disabled(n) == Exists(dis, n)
Opposite(v) == IF v = "on" THEN "off" ELSE "on"

\* What the node makes of the directory: it loads *.cfg.
StateOf(n) == IF Enabled(n) THEN "on" ELSE IF Disabled(n) THEN "off" ELSE "none"

\* config_path(n, CFG_GENERAL, v), and that it takes content c.
File(n, v) == IF v = "on" THEN cfg[n] ELSE dis[n]
Put(n, v, c) ==
  IF v = "on"
    THEN cfg' = [cfg EXCEPT ![n] = c] /\ UNCHANGED dis
    ELSE dis' = [dis EXCEPT ![n] = c] /\ UNCHANGED cfg

Works(t, n) == step[t] # "idle" /\ job[t].net = n
Busy(n) == \E t \in Tool : Works(t, n)
Goto(t, s) == step' = [step EXCEPT ![t] = s] /\ UNCHANGED job
Open(t, v) == at' = [at EXCEPT ![t] = v]

\* The command ends, and the tool.
Ends(t) ==
  /\ job' = [job EXCEPT ![t] = NoJob]
  /\ step' = [step EXCEPT ![t] = "idle"]
  /\ mem' = [mem EXCEPT ![t] = "none"]

\* Mutant of Done: the command does not end.
NeverDone(t) ==
  /\ job' = [job EXCEPT ![t] = NoJob]
  /\ step' = [step EXCEPT ![t] = "done"]
  /\ UNCHANGED <<at, mem>>
Done(t) == Ends(t) /\ Open(t, "none")

\* With --dryrun a command reports what it would do and leaves the files.
ActOr(t, s) == IF job[t].dry THEN Done(t) ELSE Goto(t, s) /\ UNCHANGED <<at, mem>>

\* A file of n is renamed: those who have it open follow it, and those who have
\* the file it replaces open write to no name any more.
Rename(n, from) ==
  /\ cfg' = [cfg EXCEPT ![n] = IF from = "on" THEN "none" ELSE dis[n]]
  /\ dis' = [dis EXCEPT ![n] = IF from = "on" THEN cfg[n] ELSE "none"]
  /\ at' = [t \in Tool |-> IF ~Works(t, n) \/ at[t] \notin States THEN at[t]
                            ELSE IF at[t] = from THEN Opposite(from) ELSE "gone"]

-----------------------------------------------------------------------------
Init ==
  /\ cfg = [n \in Net |-> "none"]
  /\ dis = [n \in Net |-> "none"]
  /\ job = [t \in Tool |-> NoJob]
  /\ step = [t \in Tool |-> "idle"]
  /\ at = [t \in Tool |-> "none"]
  /\ mem = [t \in Tool |-> "none"]
  /\ wish = [n \in Net |-> "none"]
  /\ raced = {}
  /\ templated = {}
  /\ crashes = 0

\* Somebody turns to network n; whoever works on it already is disturbed.
Disturb(n) == raced' = IF Busy(n) THEN raced \cup {n} ELSE raced

\* A command line is parsed; "ensure" states a wish.
Begin(t, j) ==
  /\ step[t] = "idle"
  /\ j.op \in Templates \cup {"config"} => j.val = "on"
  /\ job' = [job EXCEPT ![t] = j]
  /\ step' = [step EXCEPT ![t] = "look"]
  /\ wish' = IF j.op \in {"ensure", "tmpl_ensure"} /\ ~j.dry
               THEN [wish EXCEPT ![j.net] = j.val] ELSE wish
  /\ Disturb(j.net)
  /\ templated' = IF j.op \in Templates THEN templated \cup {j.net} ELSE templated
  /\ UNCHANGED <<cfg, dis, at, mem, crashes>>

-----------------------------------------------------------------------------
\* Mutant of LookDefault: only the file it would create is looked for.
LookDefaultTarget(t) ==
  /\ step[t] = "look" /\ job[t].op = "default"
  /\ LET there == IF job[t].val = "on" THEN Enabled(job[t].net) ELSE Disabled(job[t].net)
     IN IF there THEN Done(t) ELSE ActOr(t, "copy")
  /\ UNCHANGED <<cfg, dis, wish, raced, templated, crashes>>

\* network n default on|off: only a network without any file is set up.
LookDefault(t) ==
  /\ step[t] = "look" /\ job[t].op = "default"
  /\ IF Enabled(job[t].net) \/ Disabled(job[t].net) THEN Done(t) ELSE ActOr(t, "copy")
  /\ UNCHANGED <<cfg, dis, wish, raced, templated, crashes>>

\* Mutant of LookEnsure: the template is copied even when there is a file to move.
LookEnsureCopies(t) ==
  /\ step[t] = "look" /\ job[t].op = "ensure"
  /\ LET n == job[t].net
         already == IF job[t].val = "on" THEN Enabled(n) ELSE ~Enabled(n) /\ Disabled(n)
     IN IF already THEN Done(t) ELSE ActOr(t, "copy")
  /\ UNCHANGED <<cfg, dis, wish, raced, templated, crashes>>

\* network n ensure on|off: move the opposite file, or copy the template.
LookEnsure(t) ==
  /\ step[t] = "look" /\ job[t].op = "ensure"
  /\ LET n == job[t].net
         already == IF job[t].val = "on" THEN Enabled(n) ELSE ~Enabled(n) /\ Disabled(n)
         opposite == IF job[t].val = "on" THEN Disabled(n) ELSE Enabled(n)
     IN IF already THEN Done(t)
        ELSE ActOr(t, IF opposite THEN "move" ELSE "copy")
  /\ UNCHANGED <<cfg, dis, wish, raced, templated, crashes>>

\* fromtemplate n default|ensure: n.cfg is the only file looked at.  A dry run goes
\* on without the copy.
LookTemplate(t) ==
  /\ step[t] = "look" /\ job[t].op \in Templates
  /\ IF job[t].op = "tmpl_default" /\ Enabled(job[t].net) THEN Done(t)
     ELSE /\ Goto(t, IF job[t].dry THEN "load"
                     ELSE IF job[t].op = "tmpl_ensure" THEN "overwrite" ELSE "copy")
          /\ UNCHANGED <<at, mem>>
  /\ UNCHANGED <<cfg, dis, wish, raced, templated, crashes>>

\* config n ...: n.cfg, when there is none n.cfg.dis, and when there is neither
\* n.cfg again.
LookConfig(t) ==
  /\ step[t] = "look" /\ job[t].op = "config"
  /\ job' = [job EXCEPT ![t].val = IF StateOf(job[t].net) = "off" THEN "off" ELSE "on"]
  /\ step' = [step EXCEPT ![t] = "load"]
  /\ UNCHANGED <<cfg, dis, at, mem, wish, raced, templated, crashes>>

-----------------------------------------------------------------------------
\* Mutant of Copy: overwrite_existing.
CopyOver(t) ==
  /\ step[t] = "copy"
  /\ Put(job[t].net, job[t].val, "partial")
  /\ Open(t, job[t].val)
  /\ Goto(t, "fill")
  /\ UNCHANGED <<mem, wish, raced, templated, crashes>>

\* fs::copy and fs::copy_file do not replace a file that has appeared since.
Copy(t) ==
  /\ step[t] = "copy"
  /\ File(job[t].net, job[t].val) = "none"
  /\ Put(job[t].net, job[t].val, "partial")
  /\ Open(t, job[t].val)
  /\ Goto(t, "fill")
  /\ UNCHANGED <<mem, wish, raced, templated, crashes>>

\* copy_options::overwrite_existing
Overwrite(t) ==
  /\ step[t] = "overwrite"
  /\ Put(job[t].net, "on", "partial")
  /\ Open(t, "on")
  /\ Goto(t, "fill")
  /\ UNCHANGED <<mem, wish, raced, templated, crashes>>

\* A tool writes content c to the file it has open.  Over what another wrote since
\* it opened the file, the end of a longer content may be left.
WriteOut(t, c) ==
  IF at[t] \notin States THEN UNCHANGED <<cfg, dis>>
  ELSE LET old == File(job[t].net, at[t])
       IN \E r \in IF old \in {"partial", c} THEN {c} ELSE {c, "partial"} :
            Put(job[t].net, at[t], r)

\* The copy ends; fromtemplate goes on with the placeholders.
Fill(t) ==
  /\ step[t] = "fill"
  /\ WriteOut(t, "stock")
  /\ IF job[t].op \in Templates
       THEN Goto(t, "load") /\ Open(t, "none") /\ UNCHANGED mem
       ELSE Done(t)
  /\ UNCHANGED <<wish, raced, templated, crashes>>

\* CellframeConfigurationFile(path): the file is read into memory.
Load(t) ==
  /\ step[t] = "load"
  /\ File(job[t].net, job[t].val) # "none"
  /\ mem' = [mem EXCEPT ![t] = File(job[t].net, job[t].val)]
  /\ Goto(t, "save")
  /\ UNCHANGED <<cfg, dis, at, wish, raced, templated, crashes>>

\* config get, or config default of a parameter that is set; save() of a dry run.
SaveNothing(t) ==
  /\ step[t] = "save"
  /\ job[t].op = "config" \/ job[t].dry
  /\ Done(t)
  /\ UNCHANGED <<cfg, dis, wish, raced, templated, crashes>>

\* save() truncates what has the name now, or creates it,
OpenForSave(t) ==
  /\ step[t] = "save"
  /\ ~job[t].dry
  /\ Put(job[t].net, job[t].val, "partial")
  /\ Open(t, job[t].val)
  /\ Goto(t, "write")
  /\ UNCHANGED <<mem, wish, raced, templated, crashes>>

\* and writes what was loaded, with the placeholders replaced or one parameter set.
Write(t) ==
  /\ step[t] = "write"
  /\ WriteOut(t, mem[t])
  /\ Done(t)
  /\ UNCHANGED <<wish, raced, templated, crashes>>

\* fs::rename replaces its target.
Move(t) ==
  /\ step[t] = "move"
  /\ File(job[t].net, Opposite(job[t].val)) # "none"
  /\ Rename(job[t].net, Opposite(job[t].val))
  /\ Ends(t)
  /\ UNCHANGED <<wish, raced, templated, crashes>>

\* An exception ends the tool: the target of a copy is there, the source of a move
\* or the file to load is gone, or config meets a line without "=".
Throws(t) ==
  /\ \/ step[t] = "copy" /\ File(job[t].net, job[t].val) # "none"
     \/ step[t] = "move" /\ File(job[t].net, Opposite(job[t].val)) = "none"
     \/ step[t] = "load" /\ File(job[t].net, job[t].val) = "none"
     \/ step[t] = "save" /\ job[t].op = "config"
  /\ Done(t)
  /\ UNCHANGED <<cfg, dis, wish, raced, templated, crashes>>

\* The tool is killed; what it was asked for may not have happened.
Crash(t) ==
  /\ step[t] # "idle"
  /\ crashes < MaxCrash
  /\ crashes' = crashes + 1
  /\ wish' = IF job[t].op \in {"ensure", "tmpl_ensure"}
               THEN [wish EXCEPT ![job[t].net] = "none"] ELSE wish
  /\ Done(t)
  /\ UNCHANGED <<cfg, dis, raced, templated>>

-----------------------------------------------------------------------------
\* By hand: edit a file, or move the only one.
UserEdits(n) ==
  /\ \E v \in States : File(n, v) # "none" /\ Put(n, v, "user")
  /\ Disturb(n)
  /\ UNCHANGED <<job, step, at, mem, wish, templated, crashes>>

UserMoves(n) ==
  /\ Enabled(n) # Disabled(n)
  /\ Rename(n, StateOf(n))
  /\ wish' = [wish EXCEPT ![n] = Opposite(StateOf(n))]
  /\ Disturb(n)
  /\ UNCHANGED <<job, step, mem, templated, crashes>>

ToolStep(t) ==
  \/ LookDefault(t) \/ LookEnsure(t) \/ LookTemplate(t) \/ LookConfig(t)
  \/ Copy(t) \/ Overwrite(t) \/ Fill(t) \/ Move(t)
  \/ Load(t) \/ SaveNothing(t) \/ OpenForSave(t) \/ Write(t)

Next ==
  \/ \E t \in Tool : \/ \E j \in Jobs : Begin(t, j)
                     \/ ToolStep(t) \/ Throws(t) \/ Crash(t)
  \/ \E n \in Net : UserEdits(n) \/ UserMoves(n)

Spec == Init /\ [][Next]_vars

-----------------------------------------------------------------------------
TypeOK ==
  /\ cfg \in [Net -> Contents]
  /\ dis \in [Net -> Contents]
  /\ job \in [Tool -> Jobs \cup {NoJob}]
  /\ step \in [Tool -> Steps]
  /\ at \in [Tool -> States \cup {"none", "gone"}]
  /\ mem \in [Tool -> Contents]
  /\ wish \in [Net -> States \cup {"none"}]
  /\ raced \in SUBSET Net
  /\ templated \in SUBSET Net
  /\ crashes \in 0..MaxCrash

\* The networks whose commands, moves and edits came one at a time, none of them
\* fromtemplate.
Orderly == Net \ (raced \cup templated)

\* The state a network was last asked to have, by "ensure" or by hand, stands
\* whatever commands run afterwards, one at a time.
LastWishStands ==
  \A n \in Net \ raced : wish[n] # "none" /\ ~Busy(n) => StateOf(n) = wish[n]

\* It does while none of them is fromtemplate, whatever runs on other networks.
OrderlyWishStands ==
  \A n \in Orderly : wish[n] # "none" /\ ~Busy(n) => StateOf(n) = wish[n]

\* Then no network is enabled and disabled at once, crashes included: the
\* situation in which "network default" gives up.
OneFilePerNetwork == \A n \in Orderly : ~(Enabled(n) /\ Disabled(n))

\* Which files a command must spare: a dry run all of them; "network default" all
\* but the one it is creating, whoever creates, moves or edits files after it
\* looked; "fromtemplate default", which loads and saves n.cfg again after it has
\* copied it, n.cfg.dis and an edited n.cfg, if nobody else turned to the network.
Spares(t, v) ==
  \/ job[t].dry
  \/ job[t].op = "default" /\ at[t] # v
  \/ /\ job[t].op = "tmpl_default" /\ job[t].net \notin raced
     /\ v = "on" => cfg[job[t].net] = "user"

\* These commands change no complete file they must spare.
DefaultsKeepFiles ==
  [][\A t \in Tool, n \in Net, v \in States :
       Works(t, n) /\ File(n, v) \in {"stock", "user"} /\ Spares(t, v) /\ ToolStep(t)
         => File(n, v)' = File(n, v)]_vars
=============================================================================
