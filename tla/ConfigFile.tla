----------------------------- MODULE ConfigFile -----------------------------
(***************************************************************************)
(* One configuration file and the processes of cellframe-node-config that  *)
(* edit it: the line editor of conftool/config/CellframeConfigFile.cpp and *)
(* the "config" command of conftool/commands/ConfigCommand.cpp.            *)
(*                                                                         *)
(* A command loads all lines, looks for its parameter, changes its copy    *)
(* and rewrites the file in place: the file is empty from the moment it is *)
(* opened until the lines are written.  A line is a section heading, a     *)
(* parameter with its value, "blank" (also a comment), or "junk": text     *)
(* without "=" that is no heading, such as the tail of a list broken over  *)
(* two lines.                                                              *)
(***************************************************************************)
EXTENDS Integers, Sequences, FiniteSets

CONSTANTS
  Group,      \* section names
  Param,      \* parameter names
  Value,      \* values; NoValue is the empty one or a ${placeholder}
  NoValue,
  Tool,       \* processes of cellframe-node-config
  Start,      \* the contents the file may start with
  Template,   \* the content of its template
  MaxLen,     \* bound on the length of a file a command starts on
  MaxCrash    \* bound on killed commands

VARIABLES
  disk,       \* the lines of the file
  mem,        \* the lines each tool has loaded
  cmd,        \* the command each tool executes
  step,       \* what it does next
  ensured,    \* the last value each parameter was ensured to have
  crashes

vars == <<disk, mem, cmd, step, ensured, crashes>>

Key == Group \X Param
Heading(g) == [kind |-> "group", group |-> g]
Pair(p, v) == [kind |-> "pair", param |-> p, value |-> v]
Blank == [kind |-> "blank"]
Junk == [kind |-> "junk"]
FileLine ==
  {Heading(g) : g \in Group} \cup {Pair(p, v) : p \in Param, v \in Value \cup {NoValue}}
    \cup {Blank, Junk}

ASSUME FileAssumption ==
  /\ Start \subseteq Seq(FileLine) /\ Template \in Seq(FileLine)
  /\ NoValue \notin Value
  /\ IsFiniteSet(Tool)
  /\ MaxLen \in Nat /\ MaxCrash \in Nat

\* exists(): a turn of its loop at line i.  It is "inside" from the heading of
\* the section on (group_found), and ends with a "hit", where the next section
\* begins, or with the exception that parse_param_value throws on a line without
\* "=".  "line" holds the parameter, or is the one before which it belongs.
Turn(r, l, i, g, p) ==
  CASE r.at = "outside" /\ l = Heading(g) -> [r EXCEPT !.at = "inside"]
    [] r.at = "inside" /\ l.kind = "group" -> [at |-> "over", line |-> i]
    [] r.at = "inside" /\ l.kind = "junk" -> [at |-> "bad", line |-> i]
    [] r.at = "inside" /\ l.kind = "pair" /\ l.param = p -> [at |-> "hit", line |-> i]
    [] OTHER -> r
Find(lines, g, p) ==
  LET after[i \in 0..Len(lines)] ==
        IF i = 0 THEN [at |-> "outside", line |-> Len(lines) + 1]
        ELSE Turn(after[i - 1], lines[i], i, g, p)
  IN after[Len(lines)]

\* Mutants of SetParam: the line goes after the next heading; the raw text of
\* an unknown value is stored.
SetParamLate(lines, g, p, v) ==
  LET f == Find(lines, g, p) IN
    IF f.at = "hit" THEN [lines EXCEPT ![f.line] = Pair(p, v)]
    ELSE LET new == (IF f.at = "outside" THEN <<Heading(g)>> ELSE <<>>) \o <<Pair(p, v), Blank>>
         IN IF f.line > Len(lines) THEN lines \o new
            ELSE SubSeq(lines, 1, f.line) \o new \o SubSeq(lines, f.line + 1, Len(lines))

SetParamRaw(lines, g, p, v) == Append(lines, [kind |-> "raw", group |-> g, param |-> p])

\* set(): replace the line, or insert it at the end of the section (of the
\* file, under a new heading) followed by an empty line (two of them once
\* saved and loaded, which means the same).
SetParam(lines, g, p, v) ==
  LET f == Find(lines, g, p) IN
    IF f.at = "hit" THEN [lines EXCEPT ![f.line] = Pair(p, v)]
    ELSE LET new == (IF f.at = "outside" THEN <<Heading(g)>> ELSE <<>>) \o <<Pair(p, v), Blank>>
         IN SubSeq(lines, 1, f.line - 1) \o new \o SubSeq(lines, f.line, Len(lines))

-----------------------------------------------------------------------------
\* The value may be left out, or hold a variable that is not set.
Commands == [op : {"default", "ensure"}, key : Key, value : Value \cup {NoValue}]
NoCommand == [op |-> "idle"]
Done(t) == step' = [step EXCEPT ![t] = "idle"] /\ cmd' = [cmd EXCEPT ![t] = NoCommand]
Goto(t, s) == step' = [step EXCEPT ![t] = s] /\ UNCHANGED cmd

Init ==
  /\ disk \in Start
  /\ mem = [t \in Tool |-> <<>>]
  /\ cmd = [t \in Tool |-> NoCommand]
  /\ step = [t \in Tool |-> "idle"]
  /\ ensured = [k \in Key |-> NoValue]
  /\ crashes = 0

\* The command is parsed and the file loaded.
Load(t, c) ==
  /\ step[t] = "idle"
  /\ Len(disk) <= MaxLen
  /\ mem' = [mem EXCEPT ![t] = disk]
  /\ cmd' = [cmd EXCEPT ![t] = c]
  /\ step' = [step EXCEPT ![t] = "edit"]
  /\ UNCHANGED <<disk, ensured, crashes>>

\* What the command finds; the section and parameter it looks for.
Found(t) == Find(mem[t], cmd[t].key[1], cmd[t].key[2])

\* param_exists && !is_placeholder(cfg_val)
HasValue(t) == Found(t).at = "hit" /\ mem[t][Found(t).line].value # NoValue

\* The exception is not caught: the tool ends, nothing is saved.
EditFails(t) ==
  /\ step[t] = "edit"
  /\ Found(t).at = "bad"
  /\ Done(t)
  /\ UNCHANGED <<disk, mem, ensured, crashes>>

\* config ... default: a parameter that has a value keeps it.
KeepValue(t) ==
  /\ step[t] = "edit"
  /\ Found(t).at # "bad"
  /\ cmd[t].op = "default"
  /\ HasValue(t)
  /\ Done(t)
  /\ UNCHANGED <<disk, mem, ensured, crashes>>

\* Mutant of Edit: "default" changes a parameter that has a value.
EditAlways(t) ==
  /\ step[t] = "edit"
  /\ Found(t).at # "bad"
  /\ mem' = [mem EXCEPT ![t] = SetParam(@, cmd[t].key[1], cmd[t].key[2], cmd[t].value)]
  /\ Goto(t, "open")
  /\ UNCHANGED <<disk, ensured, crashes>>

\* Otherwise the tool's copy is changed.
Edit(t) ==
  /\ step[t] = "edit"
  /\ Found(t).at # "bad"
  /\ cmd[t].op = "default" => ~HasValue(t)
  /\ mem' = [mem EXCEPT ![t] = SetParam(@, cmd[t].key[1], cmd[t].key[2], cmd[t].value)]
  /\ Goto(t, "open")
  /\ UNCHANGED <<disk, ensured, crashes>>

\* save() of a dry run prints the lines instead.
SaveDry(t) ==
  /\ step[t] = "open"
  /\ Done(t)
  /\ UNCHANGED <<disk, mem, ensured, crashes>>

\* save(): std::ofstream file(path) truncates the file.
OpenForSave(t) ==
  /\ step[t] = "open"
  /\ disk' = <<>>
  /\ Goto(t, "write")
  /\ UNCHANGED <<mem, ensured, crashes>>

\* Its lines go to the start of the file, over what another tool has written
\* since.
Written(t, k) == SubSeq(mem[t], 1, k) \o SubSeq(disk, k + 1, Len(disk))

WriteLines(t) ==
  /\ step[t] = "write"
  /\ disk' = Written(t, Len(mem[t]))
  /\ ensured' = IF cmd[t].op = "ensure" THEN [ensured EXCEPT ![cmd[t].key] = cmd[t].value]
                ELSE ensured
  /\ Done(t)
  /\ UNCHANGED <<mem, crashes>>

\* fromtemplate ... ensure, while no other command runs.
Recreate ==
  /\ \A t \in Tool : step[t] = "idle"
  /\ disk' = Template
  /\ ensured' = [k \in Key |-> NoValue]
  /\ UNCHANGED <<mem, cmd, step, crashes>>

\* The tool is killed; a file being written keeps what had been written.
Crash(t) ==
  /\ step[t] # "idle"
  /\ crashes < MaxCrash
  /\ crashes' = crashes + 1
  /\ IF step[t] = "write"
       THEN \E k \in 0..(Len(mem[t]) - 1) : disk' = Written(t, k)
       ELSE UNCHANGED disk
  /\ ensured' = IF step[t] = "write" THEN [k \in Key |-> NoValue] ELSE ensured
  /\ Done(t)
  /\ UNCHANGED mem

ToolStep(t) ==
  \/ EditFails(t) \/ KeepValue(t) \/ Edit(t)
  \/ SaveDry(t) \/ OpenForSave(t) \/ WriteLines(t)

Next ==
  \/ \E t \in Tool : (\E c \in Commands : Load(t, c)) \/ ToolStep(t) \/ Crash(t)
  \/ Recreate

Spec == Init /\ [][Next]_vars

-----------------------------------------------------------------------------
\* The reference: what a file says.  A parameter belongs to the last heading
\* above it; the first section of a name counts, and in it the first line of
\* the parameter.
SectionStart(lines, i) ==
  LET heads == {j \in 1..i : lines[j].kind = "group"}
  IN IF heads = {} THEN 0 ELSE CHOOSE j \in heads : \A k \in heads : k <= j
FirstSection(lines, g) ==
  LET heads == {j \in DOMAIN lines : lines[j] = Heading(g)}
  IN IF heads = {} THEN 0 ELSE CHOOSE j \in heads : \A k \in heads : j <= k
Holders(lines, g, p) ==
  {i \in DOMAIN lines : /\ lines[i].kind = "pair" /\ lines[i].param = p
                        /\ FirstSection(lines, g) # 0
                        /\ SectionStart(lines, i) = FirstSection(lines, g)}
Meaning(lines, g, p) ==
  LET h == Holders(lines, g, p)
  IN IF h = {} THEN {} ELSE {lines[CHOOSE i \in h : \A j \in h : i <= j].value}

TypeOK ==
  /\ disk \in Seq(FileLine)
  /\ mem \in [Tool -> Seq(FileLine)]
  /\ cmd \in [Tool -> Commands \cup {NoCommand}]
  /\ step \in [Tool -> {"idle", "edit", "open", "write"}]
  /\ ensured \in [Key -> Value \cup {NoValue}]
  /\ crashes \in 0..MaxCrash

\* What an edit of tool t, or its decision to keep a value, does to the meaning.
EditIsRight(t) ==
  LET old == Meaning(mem[t], cmd[t].key[1], cmd[t].key[2])
  IN /\ Edit(t) =>
          /\ cmd[t].op = "default" => old \subseteq {NoValue}
          /\ \A g \in Group, p \in Param :
               Meaning(mem'[t], g, p) = IF <<g, p>> = cmd[t].key THEN {cmd[t].value}
                                        ELSE Meaning(mem[t], g, p)
     /\ KeepValue(t) => old # {} /\ NoValue \notin old

\* An edit gives the parameter its value and changes the meaning of no other
\* parameter, wherever sections, repeated sections and comments are; a "default"
\* edits exactly when the file gives the parameter no value.
EditChangesOne == [][\A t \in Tool : EditIsRight(t)]_vars

\* A value that was ensured is what the file says, unless a tool has emptied the
\* file to write it.  To ensure NoValue, which a "default" may replace, is to
\* ensure none.
EnsuredStands ==
  \A k \in Key : ensured[k] # NoValue /\ (\A t \in Tool : step[t] # "write")
                   => Meaning(disk, k[1], k[2]) = {ensured[k]}

\* While one tool at a time edits the file, a value that was ensured stays until
\* it is ensured to be another one.
OrderlyEnsuredStands == Cardinality(Tool) = 1 => EnsuredStands
=============================================================================
