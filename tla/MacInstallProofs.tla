-------------------------- MODULE MacInstallProofs --------------------------
(***************************************************************************)
(* Proofs about MacInstall for any networks, tools and number of           *)
(* interruptions: orderly commands and installs keep one file per network, *)
(* the state that was asked for, and the edits of the user.                *)
(***************************************************************************)
EXTENDS MacInstall, TLAPS

USE ZenonT(5), SMTT(20), ZenonT(40)

-----------------------------------------------------------------------------
\* The inductive invariant, and what each step leaves of one orderly network.
WishHolds(n) == wish[n] \in {"none", StateOf(n)}

\* What the tool at work on an orderly network knows of its files.
Knows(t, n) ==
  /\ job[t].op \in {"default", "ensure", "config"}
  /\ step[t] \in {"copy", "fill", "move", "write"} => ~job[t].dry
  /\ step[t] # "overwrite"
  /\ step[t] \in {"load", "save", "write"} => job[t].op = "config"
  /\ step[t] \in {"copy", "fill", "move"} => job[t].op # "config"
  /\ step[t] = "copy" => cfg[n] = "none" /\ dis[n] = "none"
  /\ step[t] = "move" =>
       /\ job[t].op = "ensure"
       /\ IF job[t].val = "on" THEN cfg[n] = "none" /\ dis[n] # "none"
                               ELSE cfg[n] # "none" /\ dis[n] = "none"
  /\ step[t] = "fill" =>
       /\ at[t] = job[t].val
       /\ IF job[t].val = "on" THEN cfg[n] = "partial" /\ dis[n] = "none"
                               ELSE cfg[n] = "none" /\ dis[n] = "partial"
  /\ step[t] = "save" => mem[t] # "none" /\ File(n, job[t].val) = mem[t]
  /\ step[t] = "write" =>
       mem[t] # "none" /\ at[t] = job[t].val /\ File(n, job[t].val) = "partial"
  /\ IF job[t].op = "ensure" /\ ~job[t].dry THEN wish[n] = job[t].val ELSE WishHolds(n)

\* An orderly network: one file, one tool.
NetInv(n) ==
  /\ cfg[n] = "none" \/ dis[n] = "none"
  /\ (\A t \in Tool : ~Works(t, n)) => WishHolds(n)
  /\ \A t, u \in Tool : Works(t, n) /\ Works(u, n) => t = u
  /\ \A t \in Tool : Works(t, n) => Knows(t, n)

\* What the backup holds of an orderly network is what its files hold, or held.
BakInv(n) ==
  /\ bak[n].cfg # "none" =>
       cfg[n] = IF ins = "fill_cfg" /\ cur = n THEN "partial" ELSE bak[n].cfg
  /\ bak[n].dis # "none" =>
       dis[n] = IF ins = "fill_dis" /\ cur = n THEN "partial" ELSE bak[n].dis
  /\ cur = n /\ ins \in {"fill_cfg", "rm_dis"} => bak[n].cfg # "none"
  /\ cur = n /\ ins \in {"fill_dis", "rm_cfg"} => bak[n].dis # "none"
  /\ n \in off => dis[n] # "none"

JobInv == \A t \in Tool : step[t] # "idle" => job[t] \in Jobs

\* The parts of the script: when tools run, when there is a backup.
ScriptInv ==
  /\ ins \notin {"idle", "setup", "config"} => NoTool
  /\ ins \in {"setup", "config"} =>
       \A t \in Tool : step[t] # "idle" => job[t].op \in {"default", "config"}
  /\ ins \in {"idle", "clean", "setup", "config", "enforce", "dups"} => bak = NoBackup
  /\ ins = "idle" => off = {}
  /\ ins = "enforce" => todo \subseteq off
  /\ ins = "dups" => \A n \in Net \ todo : cfg[n] = "none" \/ dis[n] = "none"

MacInv ==
  /\ MacTypeOK /\ JobInv /\ ScriptInv /\ EditsKept
  /\ \A n \in Orderly : NetInv(n) /\ BakInv(n)

-----------------------------------------------------------------------------
\* A network that no tool works on is orderly when it has one file and the wish
\* for it holds.
LEMMA IdleNet ==
  ASSUME NEW n \in Net, \A t \in Tool : ~Works(t, n)', WishHolds(n)',
         cfg'[n] = "none" \/ dis'[n] = "none"
  PROVE  NetInv(n)'
<1> HIDE DEF Works, WishHolds
<1> QED
  BY DEF NetInv

\* Tool t is where it was.
Same(t) == step'[t] = step[t] /\ job'[t] = job[t] /\ at'[t] = at[t] /\ mem'[t] = mem[t]

\* Nothing about a network changes.
LEMMA SameNet ==
  ASSUME NEW n \in Net, NetInv(n),
         cfg'[n] = cfg[n], dis'[n] = dis[n], wish'[n] = wish[n],
         \A t \in Tool : Works(t, n)' <=> Works(t, n),
         \A t \in Tool : Works(t, n) => Same(t)
  PROVE  NetInv(n)'
<1>1. WishHolds(n)' <=> WishHolds(n)
  BY DEF WishHolds, StateOf, Enabled, Disabled, Exists
<1>2. ASSUME NEW t \in Tool, Works(t, n)' PROVE Knows(t, n)'
  <2>1. Knows(t, n) /\ Same(t)
    BY <1>2 DEF NetInv
  <2> QED
    BY <1>1, <2>1 DEF Knows, Same, File
<1>3. /\ (\A t \in Tool : ~Works(t, n)') => WishHolds(n)'
      /\ \A t, u \in Tool : Works(t, n)' /\ Works(u, n)' => t = u
      /\ cfg'[n] = "none" \/ dis'[n] = "none"
  BY <1>1 DEF NetInv
<1> QED
  BY <1>2, <1>3 DEF NetInv

\* A step of a tool is about its own network, and leaves the other tools there,
\* but for the file they have open on that network.
ToolFrame(t) ==
  /\ step[t] # "idle" /\ job[t] \in Jobs
  /\ UNCHANGED <<wish, raced, templated, crashes>>
  /\ \A u \in Tool \ {t} :
       /\ step'[u] = step[u] /\ job'[u] = job[u] /\ mem'[u] = mem[u]
       /\ ~Works(u, job[t].net) => at'[u] = at[u]
  /\ \A m \in Net : m # job[t].net => cfg'[m] = cfg[m] /\ dis'[m] = dis[m]
  /\ step'[t] # "idle" =>
       job'[t].op = job[t].op /\ job'[t].net = job[t].net /\ job'[t].dry = job[t].dry

LEMMA ToolStepFrame ==
  ASSUME MacTypeOK, JobInv, NEW t \in Tool, ToolStep(t)
  PROVE  ToolFrame(t)
<1> USE DEF MacTypeOK, TypeOK
<1>1. step[t] # "idle"
  BY DEF ToolStep, LookDefault, LookEnsure, LookTemplate, LookConfig, Copy, Overwrite, Fill, Move,
    Load, SaveNothing, OpenForSave, Write
<1>2. job[t] \in Jobs
  BY <1>1 DEF JobInv
<1>3. UNCHANGED <<wish, raced, templated, crashes>>
  BY DEF ToolStep, LookDefault, LookEnsure, LookTemplate, LookConfig, Copy, Overwrite, Fill, Move,
    Load, SaveNothing, OpenForSave, Write
<1>4. ASSUME UNCHANGED <<cfg, dis>> \/ (\E v \in States, c \in Contents : Put(job[t].net, v, c))
      PROVE  \A m \in Net : m # job[t].net => cfg'[m] = cfg[m] /\ dis'[m] = dis[m]
  BY <1>4 DEF Put
<1>5. ASSUME Done(t) \/ Ends(t) \/ UNCHANGED job
      PROVE  step'[t] # "idle" =>
               job'[t].op = job[t].op /\ job'[t].net = job[t].net /\ job'[t].dry = job[t].dry
  BY <1>5 DEF Done, Ends
<1>6. ASSUME Done(t) \/ (\E s \in Steps : Goto(t, s) /\ UNCHANGED <<at, mem>>)
      PROVE  \A u \in Tool \ {t} :
               step'[u] = step[u] /\ job'[u] = job[u] /\ mem'[u] = mem[u] /\ at'[u] = at[u]
  BY <1>6 DEF Done, Ends, Goto, Open
<1>7. CASE LookDefault(t) \/ LookEnsure(t) \/ LookTemplate(t)
  <2>1. UNCHANGED <<cfg, dis>>
    BY <1>7 DEF LookDefault, LookEnsure, LookTemplate
  <2>2. Done(t) \/ (\E s \in Steps : Goto(t, s) /\ UNCHANGED <<at, mem>>)
    BY <1>7 DEF LookDefault, LookEnsure, LookTemplate, ActOr, Steps
  <2>3. Done(t) \/ UNCHANGED job
    BY <2>2 DEF Goto
  <2> QED
    BY <1>1, <1>2, <1>3, <1>4, <1>5, <1>6, <2>1, <2>2, <2>3 DEF ToolFrame
<1>8. CASE LookConfig(t)
  BY <1>1, <1>2, <1>3, <1>8 DEF LookConfig, ToolFrame, Jobs
<1>9. CASE Copy(t) \/ Overwrite(t) \/ OpenForSave(t)
  <2>1. \E v \in States, c \in Contents : Put(job[t].net, v, c)
    BY <1>2, <1>9 DEF Copy, Overwrite, OpenForSave, Jobs, States, Contents
  <2>2. /\ UNCHANGED <<job, mem>>
        /\ \A u \in Tool \ {t} : step'[u] = step[u] /\ at'[u] = at[u]
    BY <1>9 DEF Copy, Overwrite, OpenForSave, Goto, Open
  <2> QED
    BY <1>1, <1>2, <1>3, <1>4, <1>5, <2>1, <2>2 DEF ToolFrame
<1>10. CASE Fill(t) \/ Write(t)
  <2>1. UNCHANGED <<cfg, dis>> \/ \E v \in States, c \in Contents : Put(job[t].net, v, c)
    <3>1. ASSUME NEW c \in Contents, WriteOut(t, c)
          PROVE  UNCHANGED <<cfg, dis>> \/ \E v \in States, r \in Contents : Put(job[t].net, v, r)
      <4>1. "partial" \in Contents
        BY DEF Contents
      <4> HIDE DEF Put, MacTypeOK, TypeOK
      <4> QED
        BY <3>1, <4>1 DEF WriteOut
    <3>2. "stock" \in Contents /\ mem[t] \in Contents
      BY DEF Contents
    <3> QED
      BY <1>10, <3>1, <3>2 DEF Fill, Write
  <2>2. /\ Done(t) \/ UNCHANGED job
        /\ \A u \in Tool \ {t} :
             step'[u] = step[u] /\ job'[u] = job[u] /\ mem'[u] = mem[u] /\ at'[u] = at[u]
    BY <1>10 DEF Fill, Write, Done, Ends, Goto, Open
  <2> QED
    BY <1>1, <1>2, <1>3, <1>4, <1>5, <2>1, <2>2 DEF ToolFrame
<1>11. CASE Load(t) \/ SaveNothing(t)
  <2>1. UNCHANGED <<cfg, dis>>
    BY <1>11 DEF Load, SaveNothing
  <2>2. /\ Done(t) \/ UNCHANGED job
        /\ \A u \in Tool \ {t} :
             step'[u] = step[u] /\ job'[u] = job[u] /\ mem'[u] = mem[u] /\ at'[u] = at[u]
    BY <1>11 DEF Load, SaveNothing, Done, Ends, Goto, Open
  <2> QED
    BY <1>1, <1>2, <1>3, <1>4, <1>5, <2>1, <2>2 DEF ToolFrame
<1>12. CASE Move(t)
  <2>1. /\ \A m \in Net : m # job[t].net => cfg'[m] = cfg[m] /\ dis'[m] = dis[m]
        /\ \A u \in Tool : ~Works(u, job[t].net) => at'[u] = at[u]
    BY <1>12 DEF Move, Rename
  <2>2. Ends(t)
    BY <1>12 DEF Move
  <2>3. \A u \in Tool \ {t} : step'[u] = step[u] /\ job'[u] = job[u] /\ mem'[u] = mem[u]
    BY <2>2 DEF Ends
  <2> QED
    BY <1>1, <1>2, <1>3, <1>5, <2>1, <2>2, <2>3 DEF ToolFrame
<1> QED
  BY <1>7, <1>8, <1>9, <1>10, <1>11, <1>12 DEF ToolStep

\* A step on another network leaves this one as it is.
LEMMA FrameOther ==
  ASSUME NEW t \in Tool, ToolFrame(t), NEW n \in Net, n # job[t].net
  PROVE  /\ \A u \in Tool : Works(u, n)' <=> Works(u, n)
         /\ \A u \in Tool : Works(u, n) => Same(u)
         /\ cfg'[n] = cfg[n] /\ dis'[n] = dis[n] /\ wish'[n] = wish[n]
<1>1. ~Works(t, n) /\ ~Works(t, n)'
  BY DEF Works, ToolFrame
<1>2. \A u \in Tool \ {t} : Works(u, n)' <=> Works(u, n)
  BY DEF Works, ToolFrame
<1>3. \A u \in Tool \ {t} : Works(u, n) => Same(u)
  BY DEF Works, ToolFrame, Same
<1> QED
  BY <1>1, <1>2, <1>3 DEF ToolFrame

\* The user's edit of a network is in a file of it, or a tool is saving it.
Kept(n) == "user" \in {cfg[n], dis[n]} \/ \E t \in Tool : Holds(t, n)

\* What a tool does to an orderly network: it works alone on it and leaves one
\* file, and the user's edit; only "ensure" takes the disabled file away.
LEMMA ToolOnNet ==
  ASSUME MacInv, NEW t \in Tool, ToolStep(t), NEW n \in Orderly
  PROVE  /\ NetInv(n)'
         /\ Kept(n) => Kept(n)'
         /\ job[t].op # "ensure" /\ dis[n] # "none" => dis'[n] # "none"
<1>1. /\ MacTypeOK /\ NetInv(n) /\ n \in Net
      /\ ToolFrame(t)
  BY ToolStepFrame DEF MacInv, Orderly
<1>2. CASE job[t].net # n
  <2>1. /\ \A u \in Tool : Works(u, n)' <=> Works(u, n)
        /\ \A u \in Tool : Works(u, n) => Same(u)
        /\ cfg'[n] = cfg[n] /\ dis'[n] = dis[n] /\ wish'[n] = wish[n]
    BY <1>1, <1>2, FrameOther
  <2>2. NetInv(n)'
    BY <1>1, <2>1, SameNet
  <2>3. \A u \in Tool : Holds(u, n) => Holds(u, n)'
    BY <2>1 DEF Holds, Same
  <2> QED
    BY <2>1, <2>2, <2>3 DEF Kept
<1>3. CASE job[t].net = n
  <2>1. Works(t, n) /\ Knows(t, n) /\ \A u \in Tool : Works(u, n) => u = t
    BY <1>1, <1>3 DEF NetInv, Works, ToolFrame
  <2>2. \A u \in Tool : Works(u, n)' => u = t
    BY <1>1, <2>1 DEF Works, ToolFrame
  <2>3. Holds(t, n)' <=> step'[t] = "write" /\ mem'[t] = "user"
    BY <1>1, <1>3 DEF Holds, Works, ToolFrame
  <2>4. SUFFICES /\ cfg'[n] = "none" \/ dis'[n] = "none"
                 /\ step'[t] = "idle" => WishHolds(n)'
                 /\ step'[t] # "idle" => Knows(t, n)'
                 /\ "user" \in {cfg[n], dis[n]} \/ (step[t] = "write" /\ mem[t] = "user") =>
                      "user" \in {cfg'[n], dis'[n]} \/ (step'[t] = "write" /\ mem'[t] = "user")
                 /\ job[t].op # "ensure" /\ dis[n] # "none" => dis'[n] # "none"
    <3>1. Works(t, n)' <=> step'[t] # "idle"
      BY <1>1, <1>3 DEF Works, ToolFrame
    <3>2. ASSUME step'[t] = "idle" PROVE NetInv(n)'
      BY <2>2, <2>4, <3>1, <3>2, <1>1, IdleNet
    <3>3. ASSUME step'[t] # "idle" PROVE NetInv(n)'
      BY <2>2, <2>4, <3>1, <3>3 DEF NetInv
    <3>4. ASSUME Kept(n) PROVE Kept(n)'
      BY <2>1, <2>3, <2>4, <3>4 DEF Kept, Holds
    <3> QED  BY <2>4, <3>2, <3>3, <3>4
  <2>5. /\ cfg \in [Net -> Contents] /\ dis \in [Net -> Contents] /\ n \in Net
        /\ job \in [Tool -> Jobs \cup {NoJob}] /\ step \in [Tool -> Steps] /\ job[t] \in Jobs
        /\ at \in [Tool -> States \cup {"none", "gone"}] /\ mem \in [Tool -> Contents]
        /\ wish' = wish /\ (cfg[n] = "none" \/ dis[n] = "none")
        /\ job[t].val \in States
    BY <1>1 DEF ToolFrame, MacTypeOK, TypeOK, NetInv, Jobs
  <2> USE DEF Knows, WishHolds, StateOf, Enabled, Disabled, Exists, File
  <2>6. CASE LookDefault(t)
    BY <1>3, <2>1, <2>5, <2>6 DEF LookDefault, Done, Ends, Open, Goto, ActOr
  <2>7. CASE LookEnsure(t)
    BY <1>3, <2>1, <2>5, <2>7 DEF LookEnsure, Done, Ends, Open, Goto, ActOr, States
  <2>8. CASE LookTemplate(t) \/ Overwrite(t)
    BY <2>1, <2>8 DEF LookTemplate, Overwrite, Templates
  <2>9. CASE LookConfig(t)
    BY <1>3, <2>1, <2>5, <2>9 DEF LookConfig
  <2>10. CASE Copy(t)
    BY <1>3, <2>1, <2>5, <2>10 DEF Copy, Goto, Put, Open, States
  <2>11. CASE Fill(t)
    <3>1. /\ Put(n, job[t].val, "stock") /\ Done(t)
      BY <1>3, <2>1, <2>5, <2>11 DEF Fill, WriteOut, Templates
    <3> QED
      BY <1>3, <2>1, <2>5, <2>11, <3>1 DEF Fill, Done, Ends, Put, States
  <2>12. CASE Move(t)
    BY <1>3, <2>1, <2>5, <2>12 DEF Move, Rename, Opposite, Ends, States
  <2>13. CASE Load(t)
    BY <1>3, <2>1, <2>5, <2>13 DEF Load, Goto
  <2>14. CASE SaveNothing(t)
    BY <1>3, <2>1, <2>5, <2>14 DEF SaveNothing, Done, Ends
  <2>15. CASE OpenForSave(t)
    BY <1>3, <2>1, <2>5, <2>15 DEF OpenForSave, Goto, Put, Open, States
  <2>16. CASE Write(t)
    <3>1. /\ Put(n, job[t].val, mem[t]) /\ Done(t)
      BY <1>3, <2>1, <2>5, <2>16 DEF Write, WriteOut
    <3> QED
      BY <1>3, <2>1, <2>5, <2>16, <3>1 DEF Write, Done, Ends, Put, States
  <2> QED
    BY <2>6, <2>7, <2>8, <2>9, <2>10, <2>11, <2>12, <2>13, <2>14, <2>15, <2>16 DEF ToolStep
<1> QED
  BY <1>2, <1>3

-----------------------------------------------------------------------------
\* A command begins on an orderly network, or makes the network disorderly.
LEMMA BeginOnNet ==
  ASSUME MacInv, NEW t \in Tool, NEW j \in Jobs, Begin(t, j), NEW n \in Orderly'
  PROVE  n \in Orderly /\ NetInv(n)' /\ (Kept(n) => Kept(n)')
<1>1. n \in Orderly /\ n \in Net /\ NetInv(n) /\ MacTypeOK
  BY DEF MacInv, Begin, Disturb, Orderly
<1>2. /\ \A u \in Tool \ {t} : step'[u] = step[u] /\ job'[u] = job[u]
      /\ step[t] = "idle" /\ step'[t] = "look" /\ job'[t] = j
      /\ UNCHANGED <<cfg, dis, at, mem>>
  BY <1>1 DEF Begin, MacTypeOK, TypeOK
<1>3. Kept(n) => Kept(n)'
  BY <1>2 DEF Kept, Holds, Works
<1>4. CASE j.net # n
  <2>1. wish'[n] = wish[n]
    BY <1>1, <1>4 DEF Begin, MacTypeOK, TypeOK
  <2>2. /\ \A u \in Tool : Works(u, n)' <=> Works(u, n)
        /\ \A u \in Tool : Works(u, n) => Same(u)
    BY <1>2, <1>4 DEF Works, Same
  <2> QED
    BY <1>1, <1>2, <1>3, <2>1, <2>2, SameNet
<1>5. CASE j.net = n
  <2>1. \A u \in Tool : ~Works(u, n)
    BY <1>1, <1>5 DEF Begin, Disturb, Busy, Orderly
  <2>2. j.op \in {"default", "ensure", "config"}
    BY <1>5, ConfigAssumption DEF Begin, Jobs, OpNames, Templates, Orderly
  <2>3. wish'[n] = IF j.op = "ensure" /\ ~j.dry THEN j.val ELSE wish[n]
    BY <1>1, <1>5, <2>2 DEF Begin, MacTypeOK, TypeOK
  <2>4. \A u \in Tool : Works(u, n)' <=> u = t
    BY <1>2, <1>5, <2>1 DEF Works
  <2>5. Knows(t, n)'
    BY <1>1, <1>2, <2>1, <2>2, <2>3 DEF Knows, NetInv, WishHolds, StateOf, Enabled, Disabled,
      Exists
  <2> QED
    BY <1>1, <1>2, <1>3, <2>4, <2>5 DEF NetInv
<1> QED
  BY <1>4, <1>5

\* A tool that ends leaves the files: it may have been killed, or have thrown.
LEMMA EndOnNet ==
  ASSUME MacInv, NEW t \in Tool, Throws(t) \/ Crash(t), NEW n \in Orderly
  PROVE  NetInv(n)'
<1>1. /\ MacTypeOK /\ JobInv /\ n \in Net /\ NetInv(n)
      /\ UNCHANGED <<cfg, dis>>
  BY DEF MacInv, Orderly, Throws, Crash
<1>2. /\ step[t] # "idle" /\ job[t] \in Jobs /\ step'[t] = "idle"
      /\ \A u \in Tool \ {t} : Same(u)
  BY <1>1 DEF Throws, Crash, Done, Ends, Open, Same, MacTypeOK, TypeOK, JobInv
<1>3. wish'[n] = wish[n] \/ (wish'[n] = "none" /\ job[t].net = n)
  BY <1>1, <1>2 DEF Throws, Crash, MacTypeOK, TypeOK, Jobs
<1>4. CASE job[t].net # n
  <2>1. /\ \A u \in Tool : Works(u, n)' <=> Works(u, n)
        /\ \A u \in Tool : Works(u, n) => Same(u)
    BY <1>2, <1>4 DEF Works, Same
  <2> QED
    BY <1>1, <1>3, <1>4, <2>1, SameNet
<1>5. CASE job[t].net = n
  <2>1. Knows(t, n) /\ \A u \in Tool : Works(u, n) => u = t
    BY <1>1, <1>2, <1>5 DEF NetInv, Works
  <2>2. \A u \in Tool : ~Works(u, n)'
    BY <1>2, <2>1 DEF Works, Same
  <2>3. job[t].op = "ensure" /\ ~job[t].dry => Crash(t) /\ wish'[n] = "none"
    <3>1. ASSUME Throws(t) PROVE job[t].op # "ensure"
      BY <1>5, <2>1, <3>1 DEF Throws, Knows, File, Opposite
    <3>2. ASSUME Crash(t), job[t].op = "ensure" PROVE wish'[n] = "none"
      BY <1>1, <1>5, <3>2 DEF Crash, MacTypeOK, TypeOK
    <3> QED
      BY <3>1, <3>2
  <2>4. WishHolds(n)'
    BY <1>1, <1>3, <2>1, <2>3 DEF Knows, WishHolds, StateOf, Enabled, Disabled, Exists
  <2>5. cfg'[n] = "none" \/ dis'[n] = "none"
    BY <1>1 DEF NetInv
  <2> QED
    BY <1>1, <2>2, <2>4, <2>5, IdleNet
<1> QED
  BY <1>4, <1>5

-----------------------------------------------------------------------------
\* Types, and that a tool which is not idle has a command.
LEMMA TypeInit == MacInit => MacTypeOK /\ JobInv
  BY ConfigAssumption DEF MacInit, Init, MacTypeOK, TypeOK, JobInv, Contents, Steps, States,
    NoBackup, Loops, Restoring

\* The types of a tool's step, in the parts that its actions are made of.
LEMMA PutType ==
  ASSUME MacTypeOK, NEW n, NEW v, NEW c \in Contents, Put(n, v, c)
  PROVE  cfg' \in [Net -> Contents] /\ dis' \in [Net -> Contents]
  BY DEF MacTypeOK, TypeOK, Put

LEMMA RenameType ==
  ASSUME MacTypeOK, NEW n \in Net, NEW v \in States, Rename(n, v)
  PROVE  /\ cfg' \in [Net -> Contents] /\ dis' \in [Net -> Contents]
         /\ at' \in [Tool -> States \cup {"none", "gone"}]
<1>1. /\ cfg' \in [Net -> Contents] /\ dis' \in [Net -> Contents]
  BY DEF MacTypeOK, TypeOK, Rename, Contents
<1>2. at \in [Tool -> States \cup {"none", "gone"}] /\ Opposite(v) \in States
  BY DEF MacTypeOK, TypeOK, Opposite, States
<1>3. at' \in [Tool -> States \cup {"none", "gone"}]
  BY <1>2 DEF Rename
<1> QED
  BY <1>1, <1>3

ToolTypes ==
  /\ job \in [Tool -> Jobs \cup {NoJob}] /\ step \in [Tool -> Steps]
  /\ at \in [Tool -> States \cup {"none", "gone"}] /\ mem \in [Tool -> Contents]
  /\ JobInv

LEMMA DoneType ==
  ASSUME MacTypeOK, JobInv, NEW t \in Tool, Done(t)
  PROVE  ToolTypes'
<1> USE DEF MacTypeOK, TypeOK, JobInv, ToolTypes, Done, Ends, Open
<1>1. "idle" \in Steps /\ "none" \in Contents
  BY DEF Steps, Contents
<1> QED
  BY <1>1

LEMMA GotoType ==
  ASSUME MacTypeOK, JobInv, NEW t \in Tool, NEW s \in Steps, step[t] # "idle", Goto(t, s),
         at' \in [Tool -> States \cup {"none", "gone"}], mem' \in [Tool -> Contents]
  PROVE  ToolTypes'
  BY DEF MacTypeOK, TypeOK, JobInv, ToolTypes, Goto

LEMMA ToolType ==
  ASSUME MacTypeOK, JobInv, NEW t \in Tool, ToolStep(t)
  PROVE  cfg' \in [Net -> Contents] /\ dis' \in [Net -> Contents] /\ ToolTypes'
<1>1. step[t] # "idle" /\ job[t] \in Jobs
  BY ToolStepFrame DEF ToolFrame
<1>2. /\ cfg \in [Net -> Contents] /\ dis \in [Net -> Contents]
      /\ at \in [Tool -> States \cup {"none", "gone"}] /\ mem \in [Tool -> Contents]
      /\ job[t].net \in Net /\ job[t].val \in States
      /\ {"partial", "stock", mem[t]} \subseteq Contents
      /\ {"copy", "overwrite", "fill", "move", "load", "save", "write"} \subseteq Steps
      /\ {"on", "none"} \subseteq States \cup {"none"}
  BY <1>1 DEF MacTypeOK, TypeOK, Jobs, Contents, Steps, States
<1>3. CASE LookDefault(t) \/ LookEnsure(t) \/ LookTemplate(t)
  <2>1. UNCHANGED <<cfg, dis>>
    BY <1>3 DEF LookDefault, LookEnsure, LookTemplate
  <2>2. Done(t) \/ (\E s \in Steps : Goto(t, s) /\ UNCHANGED <<at, mem>>)
    BY <1>3 DEF LookDefault, LookEnsure, LookTemplate, ActOr, Steps
  <2> QED
    BY <1>1, <1>2, <2>1, <2>2, DoneType, GotoType
<1>4. CASE LookConfig(t)
  <2>1. "off" \in States /\ "on" \in States /\ "load" \in Steps
    BY DEF States, Steps
  <2>2. [job[t] EXCEPT !.val = "off"] \in Jobs /\ [job[t] EXCEPT !.val = "on"] \in Jobs
    BY <1>1, <2>1 DEF Jobs
  <2> QED
    BY <1>1, <1>4, <2>1, <2>2 DEF LookConfig, MacTypeOK, TypeOK, ToolTypes, JobInv
<1>5. CASE Copy(t) \/ Overwrite(t) \/ OpenForSave(t)
  <2>1. at' \in [Tool -> States \cup {"none", "gone"}] /\ UNCHANGED mem
    BY <1>2, <1>5 DEF Copy, Overwrite, OpenForSave, Open, States
  <2>2. \E s \in Steps : Goto(t, s)
    BY <1>2, <1>5 DEF Copy, Overwrite, OpenForSave
  <2>3. \E v \in States : Put(job[t].net, v, "partial")
    BY <1>2, <1>5 DEF Copy, Overwrite, OpenForSave, States
  <2> QED
    BY <1>1, <1>2, <2>1, <2>2, <2>3, GotoType, PutType
<1>6. CASE Fill(t) \/ Write(t)
  <2>1. PICK c \in Contents : WriteOut(t, c)
    BY <1>2, <1>6 DEF Fill, Write
  <2>2. UNCHANGED <<cfg, dis>> \/ \E r \in Contents : Put(job[t].net, at[t], r)
    BY <1>2, <2>1 DEF WriteOut
  <2>3. cfg' \in [Net -> Contents] /\ dis' \in [Net -> Contents]
    BY <1>2, <2>2, PutType
  <2>4. Done(t) \/ (Goto(t, "load") /\ Open(t, "none") /\ UNCHANGED mem)
    BY <1>6 DEF Fill, Write
  <2>5. Open(t, "none") => at' \in [Tool -> States \cup {"none", "gone"}]
    BY <1>2 DEF Open
  <2> QED
    BY <1>1, <1>2, <2>3, <2>4, <2>5, DoneType, GotoType
<1>7. CASE Load(t)
  <2>1. mem' \in [Tool -> Contents] /\ UNCHANGED <<cfg, dis, at>> /\ Goto(t, "save")
    BY <1>2, <1>7 DEF Load, File
  <2> QED
    BY <1>1, <1>2, <2>1, GotoType
<1>8. CASE SaveNothing(t)
  BY <1>2, <1>8, DoneType DEF SaveNothing
<1>9. CASE Move(t)
  <2>1. Opposite(job[t].val) \in States
    BY DEF Opposite, States
  <2>2. /\ cfg' \in [Net -> Contents] /\ dis' \in [Net -> Contents]
        /\ at' \in [Tool -> States \cup {"none", "gone"}]
    BY <1>2, <1>9, <2>1, RenameType DEF Move
  <2>3. /\ job' \in [Tool -> Jobs \cup {NoJob}] /\ step' \in [Tool -> Steps]
        /\ mem' \in [Tool -> Contents] /\ JobInv'
    BY <1>9 DEF Move, Ends, MacTypeOK, TypeOK, JobInv, Steps, Contents
  <2> QED
    BY <2>2, <2>3 DEF ToolTypes
<1> QED
  BY <1>3, <1>4, <1>5, <1>6, <1>7, <1>8, <1>9 DEF ToolStep

LEMMA TypeStep ==
  ASSUME MacTypeOK, JobInv, [MacNext]_macVars
  PROVE  MacTypeOK' /\ JobInv'
<1> USE DEF MacTypeOK, TypeOK, JobInv
<1>1. CASE InsBegin
  BY <1>1 DEF InsBegin, Step, StateOf, States, Loops
<1>2. ASSUME NEW n \in Net, BackupCfg(n) \/ BackupDis(n) \/ Restore(n)
      PROVE  MacTypeOK' /\ JobInv'
  <2>1. CASE BackupCfg(n)
    BY <2>1 DEF BackupCfg, Visit, vars
  <2>2. CASE BackupDis(n)
    BY <2>2 DEF BackupDis, Visit, vars
  <2>3. CASE Restore(n)
    BY <2>3 DEF Restore, Visit, Step, vars, Restoring
  <2> QED
    BY <1>2, <2>1, <2>2, <2>3
<1>3. ASSUME NEW n \in Net, Clean(n) \/ Enforce(n) \/ Duplicates(n)
      PROVE  MacTypeOK' /\ JobInv'
  <2>1. cfg' \in [Net -> Contents] /\ dis' \in [Net -> Contents]
    BY <1>3 DEF Clean, Duplicates, KeepDisabled, Enforce, RmCfg, Contents
  <2> QED
    BY <1>3, <2>1 DEF Clean, Duplicates, Enforce, Visit, netVars
<1>4. CASE CpCfg \/ FillCfg \/ RmDisConflict \/ CpDis \/ FillDis \/ RmCfgConflict
  BY <1>4 DEF CpCfg, FillCfg, RmDisConflict, CpDis, FillDis, RmCfgConflict, Step, Put, RmCfg,
    RmDis, Contents, Restoring, Loops, netVars
<1>5. ASSUME NEW t \in Tool, NEW j \in Jobs, Begin(t, j)
      PROVE  TypeOK' /\ JobInv'
  <2>1. "look" \in Steps /\ j.net \in Net /\ j.val \in States
    BY DEF Steps, Jobs
  <2>2. raced' \in SUBSET Net /\ templated' \in SUBSET Net
    BY <1>5, <2>1 DEF Begin, Disturb
  <2> QED
    BY <1>5, <2>1, <2>2 DEF Begin
<1>6. ASSUME NEW t \in Tool, NEW j \in Jobs, SetupNet(t, j) \/ SetupConfig(t, j)
      PROVE  MacTypeOK' /\ JobInv'
  <2>1. Begin(t, j) /\ todo' \in SUBSET Net /\ UNCHANGED <<ins, cur, bak, off, edited, cut>>
    BY <1>6 DEF SetupNet, SetupConfig, Visit
  <2> QED
    BY <1>5, <2>1
<1>7. CASE LoopEnds \/ SetupFails
  BY <1>7 DEF LoopEnds, SetupFails, SetupOver, NextLoop, Step, vars, NoBackup, Contents, Loops
<1>8. CASE InsEnd
  BY <1>8 DEF InsEnd, Step, StateOf, States
<1>9. CASE Interrupted
  <2>1. "idle" \in Steps /\ "none" \in Contents
    BY DEF Steps, Contents
  <2> QED
    BY <1>9, <2>1, ConfigAssumption DEF Interrupted, NoBackup
<1>10. ASSUME NEW t \in Tool, NEW j \in Jobs, Begin(t, j), UNCHANGED insVars
      PROVE  MacTypeOK' /\ JobInv'
  BY <1>5, <1>10 DEF insVars
<1>11. ASSUME NEW t \in Tool, ToolStep(t), UNCHANGED insVars
      PROVE  MacTypeOK' /\ JobInv'
  BY <1>11, ToolType, ToolStepFrame DEF ToolTypes, ToolFrame, insVars
<1>12. ASSUME NEW t \in Tool, ToolEnds(t)
      PROVE  MacTypeOK' /\ JobInv'
  <2>1. Done(t) /\ UNCHANGED <<cfg, dis, raced, templated>>
    BY <1>12 DEF ToolEnds, Throws, Crash
  <2>2. wish' \in [Net -> States \cup {"none"}] /\ crashes' \in 0..MaxCrash
    BY <1>12, ConfigAssumption DEF ToolEnds, Throws, Crash
  <2>3. /\ ins' \in {"idle"} \cup Loops \cup Restoring /\ todo' \in SUBSET Net
        /\ cut' \in SUBSET Net /\ UNCHANGED <<cur, bak, off, edited>>
    BY <1>12 DEF ToolEnds, SetupOver, Loops
  <2> QED
    BY <2>1, <2>2, <2>3, DoneType DEF ToolTypes
<1>13. ASSUME NEW n \in Net, UserMoves(n), UNCHANGED insVars
      PROVE  MacTypeOK' /\ JobInv'
  <2>1. StateOf(n) \in States /\ Opposite(StateOf(n)) \in States
    BY <1>13 DEF UserMoves, StateOf, Opposite, States, Enabled, Disabled, Exists
  <2>2. /\ cfg' \in [Net -> Contents] /\ dis' \in [Net -> Contents]
        /\ at' \in [Tool -> States \cup {"none", "gone"}]
    BY <1>13, <2>1, RenameType DEF UserMoves
  <2>3. raced' \in SUBSET Net /\ wish' \in [Net -> States \cup {"none"}]
    BY <1>13, <2>1 DEF UserMoves, Disturb
  <2> QED
    BY <1>13, <2>2, <2>3 DEF UserMoves, insVars
<1>14. CASE Edit
  <2>1. PICK n \in Net : UserEdits(n) /\ edited' = edited \cup {n} /\ cut' = cut \ {n}
    BY <1>14 DEF Edit
  <2>2. "user" \in Contents
    BY DEF Contents
  <2>3. cfg' \in [Net -> Contents] /\ dis' \in [Net -> Contents] /\ raced' \in SUBSET Net
    BY <2>1, <2>2, PutType DEF UserEdits, Disturb
  <2> QED
    BY <1>14, <2>1, <2>3 DEF Edit, UserEdits
<1>15. CASE UNCHANGED macVars
  BY <1>15 DEF macVars, vars, insVars
<1> HIDE DEF MacTypeOK, TypeOK, JobInv
<1> QED
  BY <1>1, <1>2, <1>3, <1>4, <1>6, <1>7, <1>8, <1>9, <1>10, <1>11, <1>12, <1>13, <1>14, <1>15
  DEF MacNext, InstallStep, Command

-----------------------------------------------------------------------------
\* Every step keeps the part of the invariant about one orderly network: its
\* files, the tool at work on it and its backup.

\* With no tool at work a network is orderly when it has one file and the wish
\* for it holds.
LEMMA QuietNet ==
  ASSUME NEW n \in Net, NoTool', (cfg[n] = "none" \/ dis[n] = "none")', WishHolds(n)'
  PROVE  NetInv(n)'
  BY IdleNet DEF NoTool, Works

\* The script leaves the files of an orderly network what they were in kind.
LEMMA ScriptOnNet ==
  ASSUME NEW n \in Net, NetInv(n), NoTool, UNCHANGED <<job, step>>,
         wish'[n] = wish[n],
         cfg'[n] = "none" <=> cfg[n] = "none",
         dis'[n] = "none" <=> dis[n] = "none"
  PROVE  NetInv(n)'
<1>1. (cfg[n] = "none" \/ dis[n] = "none") /\ WishHolds(n)
  BY DEF NetInv, NoTool, Works
<1>2. NoTool'
  BY DEF NoTool
<1>3. (cfg[n] = "none" \/ dis[n] = "none")' /\ WishHolds(n)'
  BY <1>1 DEF WishHolds, StateOf, Enabled, Disabled, Exists
<1> QED
  BY <1>2, <1>3, QuietNet

\* A step of the script that copies back or removes a file.
LEMMA CopyOnNet ==
  ASSUME MacInv, CpCfg \/ FillCfg \/ RmDisConflict \/ CpDis \/ FillDis \/ RmCfgConflict,
         NEW n \in Orderly
  PROVE  NetInv(n)' /\ BakInv(n)'
<1>1. /\ NetInv(n) /\ BakInv(n) /\ MacTypeOK /\ NoTool /\ n \in Net
      /\ UNCHANGED <<job, step, wish, cur, bak>>
  BY DEF MacInv, ScriptInv, CpCfg, FillCfg, RmDisConflict, CpDis, FillDis, RmCfgConflict, Step,
    netVars, Orderly
<1>2. cfg[n] = "none" \/ dis[n] = "none"
  BY <1>1 DEF NetInv
<1>3. CASE cur # n
  <2>1. cfg'[n] = cfg[n] /\ dis'[n] = dis[n] /\ (n \in off' => n \in off)
    BY <1>1, <1>3 DEF CpCfg, FillCfg, RmDisConflict, CpDis, FillDis, RmCfgConflict, Put, RmCfg,
      RmDis, MacTypeOK, TypeOK
  <2> QED
    BY <1>1, <1>3, <2>1, ScriptOnNet DEF BakInv
<1>4. CASE cur = n
  <2> USE DEF Step, BakInv, MacTypeOK, TypeOK, Put, RmCfg, RmDis
  <2>1. CASE CpCfg
    <3>1. BakInv(n)' /\ (cfg'[n] = "none" <=> cfg[n] = "none") /\ dis'[n] = dis[n]
      BY <1>1, <1>2, <1>4, <2>1 DEF CpCfg
    <3> QED  BY <1>1, <3>1, ScriptOnNet
  <2>2. CASE FillCfg
    <3>1. BakInv(n)' /\ (cfg'[n] = "none" <=> cfg[n] = "none") /\ dis'[n] = dis[n]
      BY <1>1, <1>2, <1>4, <2>2 DEF FillCfg
    <3> QED  BY <1>1, <3>1, ScriptOnNet
  <2>3. CASE RmDisConflict
    <3>1. BakInv(n)' /\ cfg'[n] = cfg[n] /\ dis'[n] = dis[n]
      BY <1>1, <1>2, <1>4, <2>3 DEF RmDisConflict
    <3> QED  BY <1>1, <3>1, ScriptOnNet
  <2>4. CASE CpDis
    <3>1. BakInv(n)' /\ cfg'[n] = cfg[n] /\ (dis'[n] = "none" <=> dis[n] = "none")
      BY <1>1, <1>2, <1>4, <2>4 DEF CpDis
    <3> QED  BY <1>1, <3>1, ScriptOnNet
  <2>5. CASE FillDis
    <3>1. BakInv(n)' /\ cfg'[n] = cfg[n] /\ (dis'[n] = "none" <=> dis[n] = "none")
      BY <1>1, <1>2, <1>4, <2>5 DEF FillDis
    <3> QED  BY <1>1, <3>1, ScriptOnNet
  <2>6. CASE RmCfgConflict
    <3>1. BakInv(n)' /\ cfg'[n] = cfg[n] /\ dis'[n] = dis[n]
      BY <1>1, <1>2, <1>4, <2>6 DEF RmCfgConflict
    <3> QED  BY <1>1, <3>1, ScriptOnNet
  <2> QED
    BY <2>1, <2>2, <2>3, <2>4, <2>5, <2>6
<1> QED
  BY <1>3, <1>4

-----------------------------------------------------------------------------
\* Orderly networks stay orderly, and the backup true to them, in every step.
LEMMA NetStep ==
  ASSUME MacInv, [MacNext]_macVars, NEW n \in Orderly'
  PROVE  NetInv(n)' /\ BakInv(n)'
<1>0. /\ MacTypeOK /\ JobInv /\ ScriptInv /\ \A m \in Orderly : NetInv(m) /\ BakInv(m)
      /\ n \in Net
      /\ UNCHANGED <<raced, templated>> => n \in Orderly
  BY DEF MacInv, Orderly
<1>1. CASE InsBegin
  <2>1. NetInv(n) /\ BakInv(n)
    BY <1>0, <1>1 DEF InsBegin
  <2>2. WishHolds(n)'
    BY <1>0, <1>1, <2>1 DEF InsBegin, NetInv, NoTool, Works, WishHolds, StateOf, Enabled, Disabled,
      Exists
  <2>3. NetInv(n)'
    BY <1>0, <1>1, <2>1, <2>2, QuietNet DEF InsBegin, NoTool, NetInv
  <2> QED
    BY <1>1, <2>1, <2>3 DEF InsBegin, Step, BakInv
<1>2. ASSUME UNCHANGED vars, n \in Orderly PROVE NetInv(n)'
  BY <1>0, <1>2, SameNet DEF vars, Works, Same
<1>3. ASSUME NEW m \in Net, BackupCfg(m) \/ BackupDis(m) \/ Restore(m)
      PROVE  NetInv(n)' /\ BakInv(n)'
  <2>1. UNCHANGED vars
    BY <1>3 DEF BackupCfg, BackupDis, Restore, vars
  <2>2. n \in Orderly /\ NetInv(n) /\ BakInv(n)
    BY <1>0, <2>1 DEF vars
  <2>3. BakInv(n)'
    BY <1>0, <1>3, <2>1, <2>2 DEF BackupCfg, BackupDis, Restore, vars, Step, BakInv, MacTypeOK
  <2> QED
    BY <1>2, <2>1, <2>2, <2>3
<1>4. ASSUME NEW m \in Net, Clean(m) \/ Enforce(m) \/ Duplicates(m)
      PROVE  NetInv(n)' /\ BakInv(n)'
  <2>1. /\ NetInv(n) /\ BakInv(n) /\ NoTool
        /\ UNCHANGED <<job, step, wish, ins, cur, bak, off>>
    BY <1>0, <1>4 DEF Clean, Duplicates, KeepDisabled, Enforce, ScriptInv, netVars
  <2>2. cfg'[n] = cfg[n] /\ dis'[n] = dis[n]
    <3>1. cfg[n] = "none" \/ dis[n] = "none"
      BY <2>1 DEF NetInv
    <3>2. CASE Clean(m) \/ Duplicates(m)
      BY <1>0, <2>1, <3>1, <3>2 DEF Clean, Duplicates, KeepDisabled, Visit, RmCfg, Enabled,
        Disabled, Exists, MacTypeOK, TypeOK
    <3>3. CASE Enforce(m)
      BY <1>0, <2>1, <3>1, <3>3 DEF Enforce, Visit, ScriptInv, RmCfg, BakInv, Enabled, Disabled,
        Exists, MacTypeOK, TypeOK
    <3> QED
      BY <1>4, <3>2, <3>3
  <2> QED
    BY <1>0, <2>1, <2>2, ScriptOnNet DEF BakInv
<1>5. CASE CpCfg \/ FillCfg \/ RmDisConflict \/ CpDis \/ FillDis \/ RmCfgConflict
  <2>1. UNCHANGED <<raced, templated>>
    BY <1>5 DEF CpCfg, FillCfg, RmDisConflict, CpDis, FillDis, RmCfgConflict, netVars
  <2> QED
    BY <1>0, <1>5, <2>1, CopyOnNet
<1>6. ASSUME NEW t \in Tool, NEW j \in Jobs, SetupNet(t, j) \/ SetupConfig(t, j)
      PROVE  NetInv(n)' /\ BakInv(n)'
  <2>1. Begin(t, j)
    BY <1>6 DEF SetupNet, SetupConfig
  <2>2. n \in Orderly /\ NetInv(n)'
    BY <2>1, BeginOnNet
  <2> QED
    BY <1>0, <1>6, <2>1, <2>2 DEF SetupNet, SetupConfig, Begin, BakInv
<1>7. CASE LoopEnds \/ SetupFails
  <2>1. /\ UNCHANGED <<vars, cur, off>>
        /\ bak' \in {bak, NoBackup}
        /\ ins' \notin Restoring /\ ins \notin Restoring
    BY <1>7 DEF LoopEnds, NextLoop, SetupFails, SetupOver, vars, Step, Restoring
  <2>2. n \in Orderly /\ BakInv(n)
    BY <1>0, <2>1 DEF vars
  <2>3. BakInv(n)'
    <3>1. cfg' = cfg /\ dis' = dis /\ cur' = cur /\ off' = off
      BY <2>1 DEF vars
    <3>2. bak'[n] = bak[n] \/ (bak'[n].cfg = "none" /\ bak'[n].dis = "none")
      BY <1>0, <2>1 DEF NoBackup
    <3> QED
      BY <2>1, <2>2, <3>1, <3>2 DEF BakInv, Restoring
  <2> QED
    BY <1>2, <2>1, <2>2, <2>3
<1>8. CASE InsEnd
  <2>1. /\ cfg[n] = "none" \/ dis[n] = "none"
        /\ NoTool /\ bak = NoBackup
        /\ UNCHANGED <<cfg, dis, job, step, bak>> /\ off' = {} /\ ins' = "idle"
    BY <1>0, <1>8 DEF InsEnd, Step, ScriptInv
  <2>2. wish'[n] = IF n \in Orderly THEN wish[n] ELSE StateOf(n)
    BY <1>0, <1>8 DEF InsEnd
  <2>3. n \in Orderly => WishHolds(n)
    BY <1>0, <2>1 DEF NetInv, NoTool, Works
  <2>4. WishHolds(n)' /\ NoTool'
    BY <2>1, <2>2, <2>3 DEF WishHolds, StateOf, Enabled, Disabled, Exists, NoTool
  <2>5. NetInv(n)'
    BY <1>0, <2>1, <2>4, QuietNet
  <2> QED
    BY <1>0, <2>1, <2>5 DEF BakInv, NoBackup
<1>9. CASE Interrupted
  <2>1. /\ NetInv(n)
        /\ NoTool' /\ UNCHANGED <<cfg, dis, wish>> /\ bak' = NoBackup /\ off' = {}
        /\ ins' = "idle"
    BY <1>0, <1>9 DEF Interrupted, NoTool
  <2>2. \A t \in Tool : step[t] # "idle" => job[t].op # "ensure"
    BY <1>0, <1>9 DEF Interrupted, ScriptInv, NoTool
  <2>3. WishHolds(n)
    BY <2>1, <2>2 DEF NetInv, Works, Knows
  <2>4. WishHolds(n)'
    BY <2>1, <2>3 DEF WishHolds, StateOf, Enabled, Disabled, Exists
  <2>5. NetInv(n)'
    BY <1>0, <2>1, <2>4, QuietNet DEF NetInv
  <2> QED
    BY <1>0, <2>1, <2>5 DEF BakInv, NoBackup
<1>10. ASSUME NEW t \in Tool, NEW j \in Jobs, Begin(t, j), UNCHANGED insVars
      PROVE  NetInv(n)' /\ BakInv(n)'
  <2>1. n \in Orderly /\ NetInv(n)'
    BY <1>10, BeginOnNet
  <2> QED
    BY <1>0, <1>10, <2>1 DEF Begin, insVars, BakInv
<1>11. ASSUME NEW t \in Tool, ToolStep(t), UNCHANGED insVars
      PROVE  NetInv(n)' /\ BakInv(n)'
  <2>1. step[t] # "idle" /\ n \in Orderly
    BY <1>0, <1>11, ToolStepFrame DEF ToolFrame
  <2>2. NetInv(n)' /\ (job[t].op # "ensure" /\ dis[n] # "none" => dis'[n] # "none")
    BY <1>11, <2>1, ToolOnNet
  <2>3. bak = NoBackup /\ (n \in off => job[t].op # "ensure") /\ ins \notin Restoring /\ BakInv(n)
    BY <1>0, <2>1 DEF ScriptInv, NoTool, Restoring
  <2>4. n \in off' => dis'[n] # "none"
    BY <1>11, <2>2, <2>3 DEF BakInv, insVars
  <2> QED
    BY <1>0, <1>11, <2>2, <2>3, <2>4 DEF BakInv, NoBackup, insVars, Restoring
<1>12. ASSUME NEW t \in Tool, ToolEnds(t)
      PROVE  NetInv(n)' /\ BakInv(n)'
  <2>1. /\ Throws(t) \/ Crash(t)
        /\ UNCHANGED <<cfg, dis, raced, templated, cur, bak, off>>
        /\ step[t] # "idle" /\ ins' \in {ins, "config"}
    BY <1>12 DEF ToolEnds, Throws, Crash, SetupOver
  <2>2. n \in Orderly /\ NetInv(n)' /\ BakInv(n)
    BY <1>0, <2>1, EndOnNet
  <2>3. ins \notin Restoring
    BY <1>0, <2>1 DEF ScriptInv, NoTool, Restoring
  <2> QED
    BY <2>1, <2>2, <2>3 DEF BakInv, Restoring
<1>13. ASSUME NEW m \in Net, Idle, UserMoves(m), UNCHANGED insVars
      PROVE  NetInv(n)' /\ BakInv(n)'
  <2>1. n \in Orderly /\ NetInv(n) /\ BakInv(n) /\ UNCHANGED <<job, step, mem>>
    BY <1>0, <1>13 DEF UserMoves, Disturb, Orderly
  <2>2. CASE n # m
    <3>1. cfg'[n] = cfg[n] /\ dis'[n] = dis[n] /\ wish'[n] = wish[n]
      BY <1>0, <1>13, <2>2 DEF UserMoves, Rename, MacTypeOK, TypeOK
    <3>2. \A t \in Tool : Works(t, n) => at'[t] = at[t]
      BY <1>13, <2>2 DEF UserMoves, Rename, Works
    <3>3. NetInv(n)'
      BY <1>0, <2>1, <3>1, <3>2, SameNet DEF Works, Same
    <3> QED
      BY <1>13, <2>1, <3>1, <3>3 DEF BakInv, insVars
  <2>3. CASE n = m
    <3>1. \A t \in Tool : ~Works(t, n)
      BY <1>13, <2>3 DEF UserMoves, Disturb, Busy, Orderly
    <3>2. /\ Enabled(n) => cfg'[n] = "none" /\ dis'[n] = cfg[n] /\ wish'[n] = "off"
          /\ ~Enabled(n) => cfg'[n] = dis[n] /\ dis'[n] = "none" /\ wish'[n] = "on"
          /\ Exists(cfg, n) # Exists(dis, n)
      BY <1>0, <1>13, <2>3 DEF UserMoves, Rename, StateOf, Opposite, MacTypeOK, TypeOK, Enabled,
        Disabled, Exists
    <3>3. WishHolds(n)' /\ (cfg'[n] = "none" \/ dis'[n] = "none")
      BY <3>2 DEF WishHolds, StateOf, Enabled, Disabled, Exists
    <3>4. NetInv(n)'
      BY <1>0, <2>1, <3>1, <3>3, IdleNet DEF Works
    <3>5. ins' = "idle" /\ bak' = NoBackup /\ off' = {}
      BY <1>0, <1>13 DEF insVars, ScriptInv, Idle
    <3> QED
      BY <1>0, <3>4, <3>5 DEF BakInv, NoBackup
  <2> QED
    BY <2>2, <2>3
<1>14. CASE Edit
  <2>1. PICK m \in Net : Idle /\ UserEdits(m) /\ UNCHANGED <<ins, cur, bak, off>>
    BY <1>14 DEF Edit
  <2>2. n \in Orderly /\ NetInv(n) /\ UNCHANGED <<job, step, at, mem, wish>>
    BY <1>0, <2>1 DEF UserEdits, Disturb, Orderly
  <2>3. ins' = "idle" /\ bak' = NoBackup /\ off' = {}
    BY <1>0, <2>1 DEF Idle, ScriptInv
  <2>4. CASE n # m
    <3>1. cfg'[n] = cfg[n] /\ dis'[n] = dis[n]
      BY <1>0, <2>1, <2>4 DEF UserEdits, Put, MacTypeOK, TypeOK
    <3> QED
      BY <1>0, <2>2, <2>3, <3>1, SameNet DEF BakInv, NoBackup, Works, Same
  <2>5. CASE n = m
    <3>1. \A t \in Tool : ~Works(t, n)
      BY <2>1, <2>5 DEF UserEdits, Disturb, Busy, Orderly
    <3>2. (cfg'[n] = "none" <=> cfg[n] = "none") /\ (dis'[n] = "none" <=> dis[n] = "none")
      BY <1>0, <2>1, <2>5 DEF UserEdits, Put, File, MacTypeOK, TypeOK
    <3>3. WishHolds(n)' /\ (cfg'[n] = "none" \/ dis'[n] = "none")
      BY <2>2, <3>1, <3>2 DEF NetInv, WishHolds, StateOf, Enabled, Disabled, Exists
    <3>4. NetInv(n)'
      BY <1>0, <2>2, <3>1, <3>3, IdleNet DEF Works
    <3> QED
      BY <1>0, <2>3, <3>4 DEF BakInv, NoBackup
  <2> QED
    BY <2>4, <2>5
<1>15. CASE UNCHANGED macVars
  <2>1. UNCHANGED vars /\ n \in Orderly
    BY <1>0, <1>15 DEF macVars, vars
  <2> QED
    BY <1>0, <1>2, <1>15, <2>1 DEF macVars, vars, insVars, BakInv
<1> QED
  BY <1>1, <1>3, <1>4, <1>5, <1>6, <1>7, <1>8, <1>9, <1>10, <1>11, <1>12, <1>13, <1>14, <1>15
  DEF MacNext, InstallStep, Command

-----------------------------------------------------------------------------
\* Tools run in the two parts of default.setup only; the last part leaves one file
\* per network.
LEMMA ScriptStep ==
  ASSUME MacInv, [MacNext]_macVars
  PROVE  ScriptInv'
<1> USE DEF MacInv, ScriptInv, NoTool
<1>1. CASE InsBegin
  BY <1>1 DEF InsBegin, Step
<1>2. ASSUME NEW n \in Net, BackupCfg(n) \/ BackupDis(n) \/ Restore(n)
      PROVE  ScriptInv'
  BY <1>2 DEF BackupCfg, BackupDis, Restore, Visit, Step, vars
<1>3. ASSUME NEW n \in Net, Clean(n) \/ Enforce(n) \/ Duplicates(n)
      PROVE  ScriptInv'
  BY <1>3 DEF Clean, Duplicates, KeepDisabled, Enforce, Visit, RmCfg, Enabled, Disabled, Exists,
    MacTypeOK, TypeOK, netVars
<1>4. CASE CpCfg \/ FillCfg \/ RmDisConflict \/ CpDis \/ FillDis \/ RmCfgConflict
  BY <1>4 DEF CpCfg, FillCfg, RmDisConflict, CpDis, FillDis, RmCfgConflict, Step, netVars
<1>5. ASSUME NEW t \in Tool, NEW j \in Jobs, SetupNet(t, j) \/ SetupConfig(t, j)
      PROVE  ScriptInv'
  BY <1>5 DEF SetupNet, SetupConfig, Visit, Begin, MacTypeOK, TypeOK
<1>6. CASE LoopEnds \/ SetupFails
  BY <1>6 DEF LoopEnds, NextLoop, SetupFails, SetupOver, Step, vars
<1>7. CASE InsEnd
  BY <1>7 DEF InsEnd, Step
<1>8. CASE Interrupted
  BY <1>8 DEF Interrupted
<1>9. ASSUME NEW t \in Tool, NEW j \in Jobs, Idle, Begin(t, j), UNCHANGED insVars
      PROVE  ScriptInv'
  BY <1>9 DEF Begin, insVars, Idle
<1>10. ASSUME NEW t \in Tool, ToolStep(t), UNCHANGED insVars
      PROVE  ScriptInv'
  <2>1. step[t] # "idle" /\ ToolFrame(t)
    BY <1>10, ToolStepFrame DEF ToolFrame
  <2>2. ins \in {"idle", "setup", "config"}
    BY <2>1
  <2>3. \A u \in Tool : step'[u] # "idle" => step[u] # "idle" /\ job'[u].op = job[u].op
    BY <2>1 DEF ToolFrame
  <2> QED
    BY <1>10, <2>2, <2>3 DEF insVars
<1>11. ASSUME NEW t \in Tool, ToolEnds(t)
      PROVE  ScriptInv'
  <2>1. /\ step[t] # "idle" /\ UNCHANGED <<cfg, dis, bak, off>>
        /\ IF ins = "idle" THEN UNCHANGED <<ins, todo>> ELSE ins' = "config"
    BY <1>11 DEF ToolEnds, Throws, Crash, SetupOver, Idle
  <2>2. ins \in {"idle", "setup", "config"}
    BY <2>1
  <2>3. \A u \in Tool : step'[u] # "idle" => step[u] # "idle" /\ job'[u] = job[u]
    BY <1>11 DEF ToolEnds, Throws, Crash, Done, Ends, MacTypeOK, TypeOK
  <2> QED
    BY <2>1, <2>2, <2>3
<1>12. ASSUME NEW n \in Net, Idle, UserMoves(n), UNCHANGED insVars
      PROVE  ScriptInv'
  BY <1>12 DEF UserMoves, insVars, Idle
<1>13. CASE Edit
  BY <1>13 DEF Edit, UserEdits, Idle
<1>14. CASE UNCHANGED macVars
  BY <1>14 DEF macVars, vars, insVars
<1> HIDE DEF MacInv, ScriptInv, NoTool
<1> QED
  BY <1>1, <1>2, <1>3, <1>4, <1>5, <1>6, <1>7, <1>8, <1>9, <1>10, <1>11, <1>12, <1>13, <1>14
  DEF MacNext, InstallStep, Command

-----------------------------------------------------------------------------
\* The backup alone has the user's edit of n: the script is copying it back.
Copying(n) ==
  \/ cur = n /\ ins = "fill_cfg" /\ bak[n].cfg = "user"
  \/ cur = n /\ ins = "fill_dis" /\ bak[n].dis = "user"

LEMMA KeptOrCopying ==
  EditsKept <=> \A n \in edited \cap (Orderly \ cut) : Kept(n) \/ Copying(n)
<1>1. ASSUME NEW n
      PROVE  "user" \in {cfg[n], dis[n]} \/ Midway(n) <=> Kept(n) \/ Copying(n)
  BY DEF Kept, Copying, Midway
<1> QED
  BY <1>1 DEF EditsKept

\* A step that leaves tools, contents and the script's copy as they are keeps the
\* edit where it is.
LEMMA KeptSame ==
  ASSUME NEW n, Kept(n), cfg'[n] = cfg[n], dis'[n] = dis[n],
         \A t \in Tool : Holds(t, n) => Same(t)
  PROVE  Kept(n)'
  BY DEF Kept, Holds, Works, Same

\* Edits are kept in every step.
LEMMA EditStep ==
  ASSUME MacInv, [MacNext]_macVars
  PROVE  EditsKept'
<1>0. /\ MacTypeOK /\ ScriptInv /\ JobInv
      /\ \A n \in edited \cap (Orderly \ cut) : Kept(n) \/ Copying(n)
      /\ \A n \in Orderly : NetInv(n) /\ BakInv(n) /\ (cfg[n] = "none" \/ dis[n] = "none")
  BY KeptOrCopying DEF MacInv, NetInv
<1> SUFFICES ASSUME NEW n \in (edited \cap (Orderly \ cut))'
             PROVE  Kept(n)' \/ Copying(n)'
  BY DEF EditsKept, Kept, Copying, Midway
<1>1. /\ n \in Net /\ n \in edited' /\ n \in Orderly' /\ n \notin cut'
      /\ UNCHANGED <<raced, templated>> => n \in Orderly
      /\ UNCHANGED <<raced, templated, edited, cut>> => Kept(n) \/ Copying(n)
  BY <1>0 DEF Orderly
<1>2. ASSUME UNCHANGED vars, Kept(n) PROVE Kept(n)'
  BY <1>2, KeptSame DEF vars, Same
<1>3. CASE InsBegin
  <2>1. Kept(n) \/ Copying(n)
    BY <1>1, <1>3 DEF InsBegin
  <2>2. ~Copying(n)
    BY <1>3 DEF InsBegin, Step, Copying
  <2> QED
    BY <1>3, <2>1, <2>2, KeptSame DEF InsBegin, Same
<1>4. ASSUME NEW m \in Net, BackupCfg(m) \/ BackupDis(m) \/ Restore(m)
      PROVE  Kept(n)' \/ Copying(n)'
  <2>1. UNCHANGED vars /\ UNCHANGED <<edited, cut>> /\ ~Copying(n)
    BY <1>4 DEF BackupCfg, BackupDis, Restore, vars, Step, Copying
  <2> QED
    BY <1>1, <1>2, <2>1 DEF vars
<1>5. ASSUME NEW m \in Net, Clean(m) \/ Enforce(m) \/ Duplicates(m)
      PROVE  Kept(n)' \/ Copying(n)'
  <2>1. ~Copying(n) /\ UNCHANGED netVars /\ UNCHANGED <<edited, cut>>
    BY <1>5 DEF Clean, Duplicates, Enforce, netVars, Copying
  <2>2. Kept(n) /\ n \in Orderly
    BY <1>1, <2>1 DEF netVars
  <2>3. cfg'[n] = cfg[n] /\ dis'[n] = dis[n]
    <3>1. CASE Clean(m) \/ Duplicates(m)
      BY <1>0, <1>1, <2>2, <3>1 DEF Clean, Duplicates, KeepDisabled, RmCfg, Enabled, Disabled,
        Exists, MacTypeOK, TypeOK
    <3>2. CASE Enforce(m)
      BY <1>0, <1>1, <2>2, <3>2 DEF Enforce, Visit, ScriptInv, RmCfg, BakInv, Enabled, Disabled,
        Exists, MacTypeOK, TypeOK
    <3> QED
      BY <1>5, <3>1, <3>2
  <2> QED
    BY <2>1, <2>2, <2>3, KeptSame DEF netVars, Same
<1>6. CASE CpCfg \/ FillCfg \/ RmDisConflict \/ CpDis \/ FillDis \/ RmCfgConflict
  <2>1. UNCHANGED netVars /\ UNCHANGED <<cur, bak, edited, cut>> /\ NoTool
    BY <1>0, <1>6 DEF CpCfg, FillCfg, RmDisConflict, CpDis, FillDis, RmCfgConflict, netVars,
      Step, ScriptInv
  <2>2. /\ n \in Orderly /\ BakInv(n) /\ (cfg[n] = "none" \/ dis[n] = "none")
        /\ Kept(n) \/ Copying(n)
    BY <1>0, <1>1, <2>1 DEF netVars
  <2>3. "user" \in {cfg[n], dis[n]} \/ Copying(n)
    BY <2>1, <2>2 DEF Kept, Holds, Works, NoTool
  <2> SUFFICES "user" \in {cfg'[n], dis'[n]} \/ Copying(n)'
    BY DEF Kept
  <2> USE DEF Step, BakInv, MacTypeOK, TypeOK, Put, RmCfg, RmDis, Copying
  <2>4. CASE CpCfg
    BY <1>0, <1>1, <2>1, <2>2, <2>3, <2>4 DEF CpCfg
  <2>5. CASE FillCfg
    BY <1>0, <1>1, <2>1, <2>2, <2>3, <2>5 DEF FillCfg
  <2>6. CASE RmDisConflict
    BY <1>0, <1>1, <2>1, <2>2, <2>3, <2>6 DEF RmDisConflict
  <2>7. CASE CpDis
    BY <1>0, <1>1, <2>1, <2>2, <2>3, <2>7 DEF CpDis
  <2>8. CASE FillDis
    BY <1>0, <1>1, <2>1, <2>2, <2>3, <2>8 DEF FillDis
  <2>9. CASE RmCfgConflict
    BY <1>0, <1>1, <2>1, <2>2, <2>3, <2>9 DEF RmCfgConflict
  <2> QED
    BY <1>6, <2>4, <2>5, <2>6, <2>7, <2>8, <2>9
<1>7. ASSUME NEW t \in Tool, NEW j \in Jobs, Begin(t, j), UNCHANGED <<ins, cur, bak, edited, cut>>
      PROVE  Kept(n)' \/ Copying(n)'
  <2>1. n \in Orderly /\ (Kept(n) => Kept(n)')
    BY <1>1, <1>7, BeginOnNet
  <2>2. Kept(n) \/ Copying(n)
    BY <1>0, <1>1, <1>7, <2>1
  <2>3. Copying(n) => Copying(n)'
    BY <1>7 DEF Copying
  <2> QED
    BY <2>1, <2>2, <2>3
<1>8. ASSUME NEW t \in Tool, NEW j \in Jobs, SetupNet(t, j) \/ SetupConfig(t, j)
      PROVE  Kept(n)' \/ Copying(n)'
  BY <1>7, <1>8 DEF SetupNet, SetupConfig
<1>9. CASE LoopEnds \/ SetupFails
  <2>1. UNCHANGED vars /\ UNCHANGED <<edited, cut>> /\ ~Copying(n)
    BY <1>9 DEF LoopEnds, NextLoop, SetupFails, SetupOver, vars, Step, Copying
  <2> QED
    BY <1>1, <1>2, <2>1 DEF vars
<1>10. CASE InsEnd
  <2>1. n \in edited /\ (n \in Orderly \/ "user" \in {cfg[n], dis[n]})
    BY <1>1, <1>10 DEF InsEnd
  <2>2. n \in Orderly => n \notin cut
    BY <1>1, <1>10 DEF InsEnd
  <2>3. ~Copying(n) /\ UNCHANGED <<cfg, dis, job, step, at, mem>>
    BY <1>10 DEF InsEnd, Step, Copying
  <2>4. Kept(n)
    BY <1>0, <2>1, <2>2, <2>3 DEF Kept
  <2> QED
    BY <2>3, <2>4, KeptSame DEF Same
<1>11. CASE Interrupted
  <2>1. /\ UNCHANGED <<cfg, dis, raced, templated, edited>>
        /\ cut' = cut \cup {m \in Net : Midway(m)}
    BY <1>11 DEF Interrupted
  <2>2. n \in edited \cap (Orderly \ cut) /\ ~Midway(n)
    BY <1>1, <2>1
  <2>3. "user" \in {cfg[n], dis[n]}
    BY <1>0, <2>2 DEF Kept, Copying, Midway
  <2> QED
    BY <2>1, <2>3 DEF Kept
<1>12. ASSUME NEW t \in Tool, ToolStep(t), UNCHANGED insVars
      PROVE  Kept(n)' \/ Copying(n)'
  <2>1. ToolFrame(t)
    BY <1>0, <1>12, ToolStepFrame
  <2>2. n \in Orderly /\ (Kept(n) \/ Copying(n))
    BY <1>1, <1>12, <2>1 DEF ToolFrame, insVars
  <2>3. ~Copying(n)
    BY <1>0, <2>1 DEF ScriptInv, NoTool, ToolFrame, Copying
  <2> QED
    BY <1>12, <2>2, <2>3, ToolOnNet
<1>13. ASSUME NEW t \in Tool, ToolEnds(t)
      PROVE  Kept(n)' \/ Copying(n)'
  <2>1. /\ step[t] # "idle" /\ UNCHANGED <<cfg, dis, raced, templated, edited>>
        /\ \A u \in Tool \ {t} : Same(u)
    BY <1>0, <1>13 DEF ToolEnds, Throws, Crash, Done, Ends, Open, Same, MacTypeOK, TypeOK
  <2>2. n \in edited \cap (Orderly \ cut) /\ ~Holds(t, n)
    <3>1. CASE Throws(t) /\ UNCHANGED cut
      BY <1>1, <2>1, <3>1 DEF Throws, Holds
    <3>2. CASE cut' = cut \cup {m \in Net : Holds(t, m)}
      BY <1>1, <2>1, <3>2
    <3> QED
      BY <1>13, <3>1, <3>2 DEF ToolEnds
  <2>3. ~Copying(n)
    BY <1>0, <2>1 DEF ScriptInv, NoTool, Copying
  <2>4. Kept(n) /\ \A u \in Tool : Holds(u, n) => Same(u)
    BY <1>0, <2>1, <2>2, <2>3
  <2> QED
    BY <2>1, <2>4, KeptSame
<1>14. ASSUME NEW m \in Net, Idle, UserMoves(m), UNCHANGED insVars
      PROVE  Kept(n)' \/ Copying(n)'
  <2>1. n \in edited \cap (Orderly \ cut) /\ UNCHANGED <<job, step, mem>>
    BY <1>1, <1>14 DEF UserMoves, Disturb, Orderly, insVars
  <2>2. ~Copying(n)
    BY <1>14 DEF Idle, Copying
  <2>3. Kept(n)
    BY <1>0, <2>1, <2>2
  <2>4. "user" \in {cfg[n], dis[n]} => "user" \in {cfg'[n], dis'[n]}
    BY <1>0, <1>1, <1>14, <2>1 DEF UserMoves, Rename, StateOf, Enabled, Disabled, Exists,
      MacTypeOK, TypeOK
  <2>5. \A t \in Tool : Holds(t, n) => Holds(t, n)'
    BY <2>1 DEF Holds, Works
  <2> QED
    BY <2>3, <2>4, <2>5 DEF Kept
<1>15. CASE Edit
  <2>1. PICK m \in Net : /\ Idle /\ UserEdits(m)
                         /\ edited' = edited \cup {m} /\ cut' = cut \ {m}
    BY <1>15 DEF Edit
  <2>2. n \in Orderly /\ UNCHANGED <<job, step, at, mem>>
    BY <1>1, <2>1 DEF UserEdits, Disturb, Orderly
  <2>3. CASE n = m
    BY <1>0, <1>1, <2>1, <2>3 DEF Kept, UserEdits, Put, MacTypeOK, TypeOK
  <2>4. CASE n # m
    <3>1. cfg'[n] = cfg[n] /\ dis'[n] = dis[n]
      BY <1>0, <2>1, <2>4 DEF UserEdits, Put, MacTypeOK, TypeOK
    <3>2. ~Copying(n)
      BY <2>1 DEF Idle, Copying
    <3>3. Kept(n)
      BY <1>0, <1>1, <2>1, <2>2, <2>4, <3>2
    <3> QED
      BY <2>2, <3>1, <3>3, KeptSame DEF Same
  <2> QED
    BY <2>3, <2>4
<1>16. CASE UNCHANGED macVars
  <2>1. UNCHANGED vars /\ UNCHANGED insVars
    BY <1>16 DEF macVars
  <2>2. Kept(n) \/ Copying(n)
    BY <1>1, <2>1 DEF vars, insVars
  <2> QED
    BY <1>2, <2>1, <2>2 DEF Copying, insVars
<1>17. ASSUME NEW t \in Tool, NEW j \in Jobs, Begin(t, j), UNCHANGED insVars
      PROVE  Kept(n)' \/ Copying(n)'
  BY <1>7, <1>17 DEF insVars
<1> QED
  BY <1>3, <1>4, <1>5, <1>6, <1>8, <1>9, <1>10, <1>11, <1>12, <1>13, <1>14, <1>15, <1>16, <1>17
  DEF MacNext, InstallStep, Command

-----------------------------------------------------------------------------
LEMMA MacInitInv == MacInit => MacInv
<1> SUFFICES ASSUME MacInit PROVE MacInv
  OBVIOUS
<1>1. MacTypeOK /\ JobInv
  BY TypeInit
<1>2. ScriptInv /\ EditsKept
  BY DEF MacInit, Init, ScriptInv, EditsKept
<1>3. \A n \in Net : NetInv(n) /\ BakInv(n)
  BY DEF MacInit, Init, NetInv, BakInv, Works, WishHolds, NoBackup
<1> QED
  BY <1>1, <1>2, <1>3 DEF MacInv, Orderly

\* MacInv is an invariant of commands, edits, installs and interruptions.
LEMMA MacInvariant == MacSpec => []MacInv
<1>1. ASSUME MacInv, [MacNext]_macVars PROVE MacInv'
  <2>1. MacTypeOK' /\ JobInv'
    BY <1>1, TypeStep DEF MacInv
  <2>2. ScriptInv' /\ EditsKept'
    BY <1>1, ScriptStep, EditStep
  <2>3. \A n \in Orderly' : NetInv(n)' /\ BakInv(n)'
    BY <1>1, NetStep
  <2> QED
    BY <2>1, <2>2, <2>3 DEF MacInv
<1> QED
  BY <1>1, MacInitInv, PTL DEF MacSpec

\* Types, for any networks, tools and number of interruptions.
THEOREM MacTypeCorrect == MacSpec => []MacTypeOK
  BY MacInvariant, PTL DEF MacInv

\* No orderly network is enabled and disabled at once, and every install that
\* ends makes all of them orderly again.
THEOREM OneFile == MacSpec => []OneFilePerNetwork
<1>1. MacInv => OneFilePerNetwork
  BY DEF MacInv, NetInv, OneFilePerNetwork, Enabled, Disabled, Exists
<1> QED
  BY <1>1, MacInvariant, PTL

\* The state asked for by "ensure" or by hand stands, and an install, finished or
\* interrupted, keeps it.
THEOREM WishesStand == MacSpec => []OrderlyWishStands
<1>1. MacInv => OrderlyWishStands
  BY DEF MacInv, NetInv, OrderlyWishStands, Orderly, Busy, Works, WishHolds
<1> QED
  BY <1>1, MacInvariant, PTL

\* The user's edit is in a file of the network, in the backup that the postinstall
\* script is copying back, or in the memory of the config command that is saving
\* it, unless a kill hit that very copy or save.
THEOREM EditsAreKept == MacSpec => []EditsKept
  BY MacInvariant, PTL DEF MacInv

-----------------------------------------------------------------------------
\* What the commands that must spare files do at each step, and what
\* "fromtemplate default" knows of n.cfg while nobody else turns to the network.
Kind(t) ==
  step[t] # "idle" =>
    /\ step[t] \notin {"look", "load", "save"} => ~job[t].dry
    /\ job[t].op = "default" => step[t] \in {"look", "copy", "fill"}
    /\ job[t].op = "tmpl_default" => step[t] \notin {"overwrite", "move"} /\ job[t].val = "on"

KindInv == \A t \in Tool : Kind(t)

Sees(t, n) ==
  job[t].op = "tmpl_default" =>
    /\ step[t] = "copy" => cfg[n] = "none"
    /\ step[t] \in {"fill", "write"} => at[t] = "on" /\ cfg[n] = "partial"
    /\ step[t] \in {"load", "save"} /\ ~job[t].dry => cfg[n] = "stock"

Alone(n) ==
  /\ \A t, u \in Tool : Works(t, n) /\ Works(u, n) => t = u
  /\ \A t \in Tool : Works(t, n) => Sees(t, n)

AloneInv == \A n \in Net \ raced : Alone(n)

\* A step of tool t, as the parts of Kind and Sees need it.
LEMMA KindTool ==
  ASSUME MacTypeOK, JobInv, KindInv, NEW t \in Tool, ToolStep(t)
  PROVE  KindInv'
<1>1. /\ ToolFrame(t) /\ Kind(t)
      /\ step[t] \notin {"look", "load", "save"} => ~job[t].dry
      /\ job[t].op = "default" => step[t] \in {"look", "copy", "fill"}
      /\ job[t].op = "tmpl_default" => step[t] \notin {"overwrite", "move"} /\ job[t].val = "on"
  BY ToolStepFrame DEF KindInv, Kind, ToolFrame
<1>2. \A u \in Tool \ {t} : Kind(u)'
  BY <1>1 DEF ToolFrame, KindInv, Kind
<1> SUFFICES Kind(t)'
  BY <1>2 DEF KindInv
<1>3. /\ job \in [Tool -> Jobs \cup {NoJob}] /\ step \in [Tool -> Steps]
  BY DEF MacTypeOK, TypeOK
<1>4. ASSUME Done(t) \/ Ends(t) PROVE Kind(t)'
  BY <1>3, <1>4 DEF Done, Ends, Kind
<1>5. ASSUME NEW s \in Steps, Goto(t, s),
             s \notin {"look", "load", "save"} => ~job[t].dry,
             job[t].op = "default" => s \in {"look", "copy", "fill"},
             job[t].op = "tmpl_default" => s \notin {"overwrite", "move"} /\ job[t].val = "on"
      PROVE  Kind(t)'
  BY <1>3, <1>5 DEF Goto, Kind
<1>6. {"copy", "overwrite", "fill", "move", "load", "save", "write"} \subseteq Steps
  BY DEF Steps
<1>7. CASE LookDefault(t) \/ LookEnsure(t) \/ LookTemplate(t)
  BY <1>1, <1>4, <1>5, <1>6, <1>7 DEF LookDefault, LookEnsure, LookTemplate, ActOr, Templates
<1>8. CASE LookConfig(t)
  BY <1>3, <1>8 DEF LookConfig, Kind
<1>9. CASE Copy(t) \/ Overwrite(t) \/ Load(t) \/ OpenForSave(t)
  BY <1>1, <1>5, <1>6, <1>9 DEF Copy, Overwrite, Load, OpenForSave
<1>10. CASE Fill(t) \/ Write(t) \/ SaveNothing(t) \/ Move(t)
  BY <1>1, <1>4, <1>5, <1>6, <1>10 DEF Fill, Write, SaveNothing, Move, Templates
<1> QED
  BY <1>7, <1>8, <1>9, <1>10 DEF ToolStep

LEMMA KindStep ==
  ASSUME MacTypeOK, JobInv, KindInv, [MacNext]_macVars
  PROVE  KindInv'
<1> USE DEF KindInv, Kind, MacTypeOK, TypeOK
<1>1. ASSUME UNCHANGED <<job, step>> PROVE KindInv'
  BY <1>1
<1>2. CASE InsBegin \/ LoopEnds \/ SetupFails \/ InsEnd \/ Edit \/ UNCHANGED macVars
  BY <1>1, <1>2 DEF InsBegin, LoopEnds, NextLoop, SetupFails, InsEnd, Edit, UserEdits, macVars, vars
<1>3. ASSUME NEW n \in Net,
             \/ BackupCfg(n) \/ BackupDis(n) \/ Restore(n)
             \/ Clean(n) \/ Enforce(n) \/ Duplicates(n) \/ UserMoves(n)
      PROVE  KindInv'
  BY <1>1, <1>3 DEF BackupCfg, BackupDis, Restore, Clean, Duplicates, Enforce, UserMoves, vars,
    netVars
<1>4. CASE CpCfg \/ FillCfg \/ RmDisConflict \/ CpDis \/ FillDis \/ RmCfgConflict
  BY <1>1, <1>4 DEF CpCfg, FillCfg, RmDisConflict, CpDis, FillDis, RmCfgConflict, netVars
<1>5. ASSUME NEW t \in Tool, NEW j \in Jobs, Begin(t, j) \/ SetupNet(t, j) \/ SetupConfig(t, j)
      PROVE  KindInv'
  BY <1>5 DEF SetupNet, SetupConfig, Begin, Templates
<1>6. CASE Interrupted
  BY <1>6 DEF Interrupted
<1>7. ASSUME NEW t \in Tool, ToolEnds(t)
      PROVE  KindInv'
  BY <1>7 DEF ToolEnds, Throws, Crash, Done, Ends
<1> HIDE DEF KindInv, Kind, MacTypeOK, TypeOK
<1>8. ASSUME NEW t \in Tool, ToolStep(t)
      PROVE  KindInv'
  BY <1>8, KindTool
<1> QED
  BY <1>2, <1>3, <1>4, <1>5, <1>6, <1>7, <1>8 DEF MacNext, InstallStep, Command

\* A network that no tool works on; nothing that matters to its tool changes.
LEMMA AloneIdle ==
  ASSUME NEW n, \A t \in Tool : ~Works(t, n)'
  PROVE  Alone(n)'
  BY DEF Alone

LEMMA AloneSame ==
  ASSUME NEW n, Alone(n), cfg'[n] = cfg[n],
         \A t \in Tool : Works(t, n)' => Works(t, n) /\ Same(t)
  PROVE  Alone(n)'
<1>1. ASSUME NEW t \in Tool, Works(t, n)' PROVE Sees(t, n)'
  <2>1. Sees(t, n) /\ Same(t)
    BY <1>1 DEF Alone
  <2> QED
    BY <2>1 DEF Sees, Same
<1> QED
  BY <1>1 DEF Alone

\* The tool that works alone on a network.
LEMMA AloneTool ==
  ASSUME MacTypeOK, JobInv, KindInv, NEW t \in Tool, ToolStep(t), NEW n \in Net, Alone(n)
  PROVE  Alone(n)'
<1>1. ToolFrame(t) /\ Kind(t)
  BY ToolStepFrame DEF KindInv
<1>2. CASE job[t].net # n
  BY <1>1, <1>2, FrameOther, AloneSame
<1>3. CASE job[t].net = n
  <2>1. Works(t, n) /\ Sees(t, n) /\ \A u \in Tool : Works(u, n) => u = t
    BY <1>1, <1>3 DEF Alone, Works, ToolFrame
  <2>2. \A u \in Tool : Works(u, n)' => u = t
    BY <1>1, <2>1 DEF Works, ToolFrame
  <2> SUFFICES ASSUME step'[t] # "idle", job[t].op = "tmpl_default" PROVE Sees(t, n)'
    <3>1. Works(t, n)' => step'[t] # "idle" /\ job'[t].op = job[t].op
      BY <1>1 DEF Works, ToolFrame
    <3>2. job'[t].op # "tmpl_default" => Sees(t, n)'
      BY DEF Sees
    <3> QED
      BY <2>2, <3>1, <3>2 DEF Alone
  <2>3. /\ cfg \in [Net -> Contents] /\ step \in [Tool -> Steps]
        /\ at \in [Tool -> States \cup {"none", "gone"}] /\ job[t].val = "on"
        /\ step[t] \notin {"overwrite", "move"} /\ job' = job
        /\ job[t].op \in Templates
    <3>1. job[t].val = "on" /\ step[t] \notin {"overwrite", "move"}
      BY <1>1 DEF ToolFrame, Kind
    <3>2. Done(t) => step'[t] = "idle"
      BY DEF Done, Ends, MacTypeOK, TypeOK
    <3>3. UNCHANGED job
      BY <3>1, <3>2 DEF ToolStep, LookDefault, LookEnsure, LookTemplate, LookConfig, Copy,
        Overwrite, Fill, Move, Load, SaveNothing, OpenForSave, Write, Goto, ActOr
    <3> QED
      BY <3>1, <3>3 DEF MacTypeOK, TypeOK, Templates
  <2>4. CASE LookTemplate(t)
    BY <1>3, <2>1, <2>3, <2>4 DEF LookTemplate, Done, Ends, Goto, Sees, Enabled, Exists
  <2>5. CASE Copy(t)
    BY <1>3, <2>1, <2>3, <2>5 DEF Copy, Put, Open, Goto, Sees
  <2>6. CASE Fill(t)
    <3>1. at[t] = "on" /\ cfg[n] = "partial"
      BY <2>1, <2>6 DEF Fill, Sees
    <3>2. Put(n, "on", "stock")
      BY <1>3, <2>6, <3>1 DEF Fill, WriteOut, States, File
    <3> QED
      BY <1>3, <2>1, <2>3, <2>6, <3>2 DEF Fill, Put, Goto, Sees
  <2>7. CASE Load(t)
    BY <1>3, <2>1, <2>3, <2>7 DEF Load, Goto, Sees
  <2>8. CASE OpenForSave(t)
    BY <1>3, <2>1, <2>3, <2>8 DEF OpenForSave, Put, Open, Goto, Sees
  <2>9. CASE SaveNothing(t) \/ Write(t)
    BY <2>3, <2>9 DEF SaveNothing, Write, Done, Ends
  <2> QED
    BY <2>3, <2>4, <2>5, <2>6, <2>7, <2>8, <2>9 DEF ToolStep, LookDefault, LookEnsure, LookConfig,
      Overwrite, Move
<1> QED
  BY <1>2, <1>3

LEMMA AloneStep ==
  ASSUME MacInv, KindInv, AloneInv, [MacNext]_macVars
  PROVE  AloneInv'
<1>0. /\ MacTypeOK /\ JobInv /\ ScriptInv
      /\ step \in [Tool -> Steps] /\ job \in [Tool -> Jobs \cup {NoJob}]
  BY DEF MacInv, MacTypeOK, TypeOK
<1> SUFFICES ASSUME NEW n \in Net \ raced' PROVE Alone(n)'
  BY DEF AloneInv
<1>1. ASSUME UNCHANGED raced PROVE Alone(n)
  BY <1>1 DEF AloneInv
<1>2. ASSUME NoTool' PROVE Alone(n)'
  BY <1>2, AloneIdle DEF NoTool, Works
<1>3. ASSUME UNCHANGED vars PROVE Alone(n)'
  BY <1>1, <1>3, AloneSame DEF vars, Works, Same
<1>4. CASE InsBegin \/ InsEnd \/ Interrupted
  BY <1>0, <1>2, <1>4 DEF InsBegin, InsEnd, Interrupted, NoTool, Step, ScriptInv
<1>5. ASSUME NEW m \in Net, BackupCfg(m) \/ BackupDis(m) \/ Restore(m)
      PROVE  Alone(n)'
  BY <1>3, <1>5 DEF BackupCfg, BackupDis, Restore
<1>6. ASSUME NEW m \in Net, Clean(m) \/ Enforce(m) \/ Duplicates(m)
      PROVE  Alone(n)'
  BY <1>0, <1>2, <1>6 DEF Clean, Duplicates, Enforce, netVars, NoTool, ScriptInv
<1>7. CASE CpCfg \/ FillCfg \/ RmDisConflict \/ CpDis \/ FillDis \/ RmCfgConflict
  BY <1>0, <1>2, <1>7 DEF CpCfg, FillCfg, RmDisConflict, CpDis, FillDis, RmCfgConflict, netVars,
    NoTool, ScriptInv, Step
<1>8. CASE LoopEnds \/ SetupFails \/ UNCHANGED macVars
  BY <1>3, <1>8 DEF LoopEnds, NextLoop, SetupFails, macVars
<1>9. ASSUME NEW t \in Tool, NEW j \in Jobs, Begin(t, j) \/ SetupNet(t, j) \/ SetupConfig(t, j)
      PROVE  Alone(n)'
  <2>1. /\ Begin(t, j)
        /\ \A u \in Tool \ {t} : Same(u)
        /\ step[t] = "idle" /\ step'[t] = "look" /\ job'[t] = j
        /\ cfg' = cfg
    BY <1>0, <1>9 DEF Begin, SetupNet, SetupConfig, Same
  <2>2. Alone(n)
    BY <2>1 DEF Begin, Disturb, AloneInv
  <2>3. CASE j.net # n
    <3>1. \A u \in Tool : Works(u, n)' => Works(u, n) /\ Same(u)
      BY <2>1, <2>3 DEF Works, Same
    <3> QED
      BY <2>1, <2>2, <3>1, AloneSame
  <2>4. CASE j.net = n
    <3>1. \A u \in Tool : ~Works(u, n)
      BY <2>1, <2>4 DEF Begin, Disturb, Busy
    <3>2. \A u \in Tool : Works(u, n)' => u = t
      BY <2>1, <3>1 DEF Works, Same
    <3>3. Sees(t, n)'
      BY <2>1 DEF Sees
    <3> QED
      BY <3>2, <3>3 DEF Alone
  <2> QED
    BY <2>3, <2>4
<1>10. ASSUME NEW t \in Tool, ToolStep(t)
      PROVE  Alone(n)'
  <2>1. UNCHANGED raced
    BY <1>0, <1>10, ToolStepFrame DEF ToolFrame
  <2> QED
    BY <1>0, <1>1, <1>10, <2>1, AloneTool
<1>11. ASSUME NEW t \in Tool, ToolEnds(t)
      PROVE  Alone(n)'
  <2>1. UNCHANGED <<cfg, raced>> /\ step'[t] = "idle" /\ \A u \in Tool \ {t} : Same(u)
    BY <1>0, <1>11 DEF ToolEnds, Throws, Crash, Done, Ends, Open, Same, MacTypeOK, TypeOK
  <2>2. \A u \in Tool : Works(u, n)' => Works(u, n) /\ Same(u)
    BY <2>1 DEF Works, Same
  <2> QED
    BY <1>1, <2>1, <2>2, AloneSame
<1>12. ASSUME NEW m \in Net, UserMoves(m) \/ UserEdits(m)
      PROVE  Alone(n)'
  <2>1. UNCHANGED <<job, step, mem>> /\ Disturb(m)
    BY <1>12 DEF UserMoves, UserEdits
  <2>2. CASE n = m
    <3>1. \A t \in Tool : ~Works(t, n)
      BY <2>1, <2>2 DEF Disturb, Busy
    <3> QED
      BY <2>1, <3>1, AloneIdle DEF Works
  <2>3. CASE n # m
    <3>1. cfg'[n] = cfg[n] /\ \A t \in Tool : Works(t, n) => at'[t] = at[t]
      BY <1>0, <1>12, <2>3 DEF UserMoves, UserEdits, Rename, Put, Works, MacTypeOK, TypeOK
    <3>2. Alone(n)
      BY <2>1, <2>3 DEF Disturb, AloneInv
    <3> QED
      BY <2>1, <3>1, <3>2, AloneSame DEF Works, Same
  <2> QED
    BY <2>2, <2>3
<1> QED
  BY <1>4, <1>5, <1>6, <1>7, <1>8, <1>9, <1>10, <1>11, <1>12
  DEF MacNext, InstallStep, Command, Edit

\* Dry runs, "network default" and "fromtemplate default" change no complete file
\* they must spare, whatever other tools, the user and the script do.
THEOREM DefaultsAreSafe == MacSpec => DefaultsKeepFiles
<1> DEFINE Keeps ==
      \A t \in Tool, n \in Net, v \in States :
        Works(t, n) /\ File(n, v) \in {"stock", "user"} /\ Spares(t, v) /\ ToolStep(t)
          => File(n, v)' = File(n, v)
<1>1. MacInit => KindInv /\ AloneInv
  BY DEF MacInit, Init, KindInv, Kind, AloneInv, Alone, Works
<1>2. MacInv /\ KindInv /\ AloneInv => Keeps
  <2> SUFFICES ASSUME MacInv, KindInv, AloneInv, NEW t \in Tool, NEW n \in Net, NEW v \in States,
                      Works(t, n), File(n, v) \in {"stock", "user"}, Spares(t, v), ToolStep(t)
               PROVE  File(n, v)' = File(n, v)
    OBVIOUS
  <2>1. /\ Kind(t) /\ step[t] # "idle" /\ job[t].net = n
        /\ cfg \in [Net -> Contents] /\ dis \in [Net -> Contents]
    BY DEF MacInv, MacTypeOK, TypeOK, KindInv, Works
  <2>2. job[t].op = "tmpl_default" /\ n \notin raced => Sees(t, n)
    BY DEF AloneInv, Alone
  <2> USE DEF File
  <2>3. ASSUME UNCHANGED <<cfg, dis>> PROVE File(n, v)' = File(n, v)
    BY <2>3
  <2>4. ASSUME NEW w \in States, NEW c, Put(n, w, c), w # v PROVE File(n, v)' = File(n, v)
    BY <2>4 DEF Put, States
  <2>5. CASE LookDefault(t) \/ LookEnsure(t) \/ LookTemplate(t) \/ LookConfig(t)
    BY <2>3, <2>5 DEF LookDefault, LookEnsure, LookTemplate, LookConfig
  <2>6. CASE Load(t) \/ SaveNothing(t)
    BY <2>3, <2>6 DEF Load, SaveNothing
  <2>7. CASE Copy(t)
    <3>1. job[t].val \in States /\ job[t].val # v
      <4>1. job[t] \in Jobs
        BY <2>1 DEF MacInv, JobInv
      <4> QED
        BY <2>1, <2>7, <4>1 DEF Copy, Jobs
    <3> QED
      BY <2>1, <2>4, <2>7, <3>1 DEF Copy
  <2>8. CASE Overwrite(t) \/ Move(t)
    BY <2>1, <2>8 DEF Overwrite, Move, Kind, Spares
  <2>9. CASE Fill(t) \/ Write(t)
    <3>1. at[t] # v
      BY <2>1, <2>2, <2>9 DEF Fill, Write, Kind, Sees, Spares
    <3>2. UNCHANGED <<cfg, dis>> \/ \E w \in States, c \in Contents \cup {mem[t]} :
            w = at[t] /\ Put(n, w, c)
      <4>1. {"stock", "partial"} \subseteq Contents
        BY DEF Contents
      <4> HIDE DEF File
      <4> QED
        BY <2>1, <2>9, <4>1 DEF Fill, Write, WriteOut
    <3> QED
      BY <2>3, <2>4, <3>1, <3>2
  <2>10. CASE OpenForSave(t)
    <3>1. job[t].val = "on" /\ v # "on"
      BY <2>1, <2>2, <2>10 DEF OpenForSave, Kind, Sees, Spares
    <3> QED
      BY <2>1, <2>4, <2>10, <3>1 DEF OpenForSave, States
  <2> QED
    BY <2>5, <2>6, <2>7, <2>8, <2>9, <2>10 DEF ToolStep
<1>3. MacInv /\ KindInv /\ AloneInv /\ [MacNext]_macVars => KindInv' /\ AloneInv'
  BY KindStep, AloneStep DEF MacInv
<1> HIDE DEF Keeps
<1>4. MacSpec => [][Keeps]_vars
  BY <1>1, <1>2, <1>3, MacInvariant, PTL DEF MacSpec
<1> QED
  BY <1>4 DEF Keeps, DefaultsKeepFiles
=============================================================================
