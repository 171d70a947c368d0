----------------------------- MODULE SetupScript -----------------------------
(***************************************************************************)
(* How cellframe-node-config executes a setup script (--init file) or the  *)
(* commands of its command line (--exec c and c ...): parsing into         *)
(* commands, the stack of conditions and the variables (conftool/main.cpp, *)
(* ConditionCommand.cpp, StorageCommand.cpp, substitute_variables).        *)
(*                                                                         *)
(* A line is an if, an endif, a var, a "do" (a network, config, service or *)
(* fromtemplate command, which may throw), a "bad" one that no command or  *)
(* constructor accepts, or "empty" (also a comment).  A text is Lit(x), or *)
(* Ref(v): the characters ${v}, which stay when v is not set.              *)
(***************************************************************************)
EXTENDS Integers, Sequences, SequencesExt

CONSTANTS
  Scripts,    \* the scripts given to the tool
  Words,      \* the texts without a reference
  Order,      \* the variables in the order of variable_storage, a std::map
  Predefined  \* what populate_variables stores; Unset for the other variables

VARIABLES
  script,
  exec,       \* the script comes from --exec
  phase,      \* "parse", "run", "ended", "failed" or "undefined"
  line,       \* the next line to parse
  commands,   \* the commands parsed
  pc,         \* the next command
  stack,      \* condition_stack
  store,      \* variable_storage
  done        \* the commands executed, in order

runVars == <<pc, stack, store, done>>
vars == <<script, exec, phase, line, commands, runVars>>

Lit(x) == <<"lit", x>>
Ref(v) == <<"ref", v>>
Nil == <<"nil">>
Unset == <<"unset">>
If(op, a, b) == [kind |-> "if", op |-> op, a |-> a, b |-> b]
Endif == [kind |-> "endif"]
Var(v, e) == [kind |-> "var", var |-> v, val |-> e]
Do == [kind |-> "do"]
Bad == [kind |-> "bad"]
Empty == [kind |-> "empty"]

Vars == Range(Order)
Text == {Lit(x) : x \in Words} \cup {Ref(v) : v \in Vars} \cup {Nil}
Condition == [kind : {"if"}, op : {"==", "!=", "set"}, a : Text, b : Text]
Line == Condition \cup [kind : {"var"}, var : Vars, val : Text] \cup {Endif, Do, Bad, Empty}

ASSUME SetupAssumption ==
  /\ Scripts \subseteq Seq(Line)
  /\ Order \in Seq(Vars)
  /\ Predefined \in [Vars -> Text \cup {Unset}]

\* substitute_variables(): one pass over the variables in their order.
Replace(t, i, s) == IF t = Ref(Order[i]) /\ s[Order[i]] # Unset THEN s[Order[i]] ELSE t
Substitute(e, s) ==
  LET text[i \in 0..Len(Order)] == IF i = 0 THEN e ELSE Replace(text[i - 1], i, s)
  IN text[Len(Order)]

\* CConditionOpenCommand::execute().  COND_IS_SET, which reports "exists", is true
\* of the empty text, which no var command can store.
Holds(c, s) ==
  CASE c.op = "==" -> Substitute(c.a, s) = Substitute(c.b, s)
    [] c.op = "!=" -> Substitute(c.a, s) # Substitute(c.b, s)
    [] c.op = "set" -> Substitute(c.a, s) = Nil

-----------------------------------------------------------------------------
\* --exec makes at least one command, which may be empty.
Init ==
  /\ script \in Scripts
  /\ exec \in BOOLEAN
  /\ exec => script # <<>>
  /\ phase = "parse"
  /\ line = 1 /\ commands = <<>>
  /\ pc = 1
  /\ stack = <<>>
  /\ store = Predefined
  /\ done = <<>>

\* --help, --vars, or an --init without a file that exists: no line is read.
NothingToDo ==
  /\ phase = "parse" /\ line = 1
  /\ phase' \in IF exec THEN {"ended"} ELSE {"ended", "failed"}
  /\ UNCHANGED <<script, exec, line, commands, runVars>>

AtLine(kinds) == phase = "parse" /\ line <= Len(script) /\ script[line].kind \in kinds

\* All lines are parsed before the first command runs.
ParseLine ==
  /\ AtLine({"if", "endif", "var", "do"})
  /\ commands' = Append(commands, script[line])
  /\ line' = line + 1
  /\ UNCHANGED <<script, exec, phase, runVars>>

\* An empty line of a file is passed over.
SkipEmpty ==
  /\ AtLine({"empty"}) /\ ~exec
  /\ line' = line + 1
  /\ UNCHANGED <<script, exec, phase, commands, runVars>>

\* An empty command of --exec has no first token to look at.
EmptyCommand ==
  /\ AtLine({"empty"}) /\ exec
  /\ phase' = "undefined"
  /\ UNCHANGED <<script, exec, line, commands, runVars>>

\* Mutant of ParseError: a line that nobody accepts is passed over.
PassOverError ==
  /\ AtLine({"bad"})
  /\ line' = line + 1
  /\ UNCHANGED <<script, exec, phase, commands, runVars>>

\* A line that nobody accepts throws.
ParseError ==
  /\ AtLine({"bad"})
  /\ phase' = "failed"
  /\ UNCHANGED <<script, exec, line, commands, runVars>>

Run ==
  /\ phase = "parse" /\ line > Len(script)
  /\ phase' = "run"
  /\ UNCHANGED <<script, exec, line, commands, runVars>>

AtCommand == phase = "run" /\ pc <= Len(commands)
Cmd == commands[pc]

PushCondition ==
  /\ AtCommand /\ Cmd.kind = "if"
  /\ stack' = Append(stack, Cmd)
  /\ pc' = pc + 1
  /\ UNCHANGED <<script, exec, line, commands, phase, store, done>>

\* Mutants of PopCondition: the condition stays; endif closes every block.
PopNothing ==
  /\ AtCommand /\ Cmd.kind = "endif"
  /\ stack # <<>>
  /\ pc' = pc + 1
  /\ UNCHANGED <<script, exec, line, commands, phase, stack, store, done>>

PopAll ==
  /\ AtCommand /\ Cmd.kind = "endif"
  /\ stack # <<>>
  /\ stack' = <<>>
  /\ pc' = pc + 1
  /\ UNCHANGED <<script, exec, line, commands, phase, store, done>>

PopCondition ==
  /\ AtCommand /\ Cmd.kind = "endif"
  /\ stack # <<>>
  /\ stack' = Front(stack)
  /\ pc' = pc + 1
  /\ UNCHANGED <<script, exec, line, commands, phase, store, done>>

\* pop_back() of an empty vector.
PopUnderflow ==
  /\ AtCommand /\ Cmd.kind = "endif"
  /\ stack = <<>>
  /\ phase' = "undefined"
  /\ UNCHANGED <<script, exec, line, commands, pc, stack, store, done>>

\* The innermost condition is evaluated anew for each command.
Enabled == stack # <<>> => Holds(Last(stack), store)

\* Mutant of Skip: the rest of the block is taken to be two lines.
SkipTwo ==
  /\ AtCommand /\ Cmd.kind \in {"var", "do"}
  /\ ~Enabled
  /\ pc' = pc + 2
  /\ UNCHANGED <<script, exec, line, commands, phase, stack, store, done>>

\* A command whose condition does not hold is passed over.
Skip ==
  /\ AtCommand /\ Cmd.kind \in {"var", "do"}
  /\ ~Enabled
  /\ pc' = pc + 1
  /\ UNCHANGED <<script, exec, line, commands, phase, stack, store, done>>

ExecuteVar ==
  /\ AtCommand /\ Cmd.kind = "var"
  /\ Enabled
  /\ store' = [store EXCEPT ![Cmd.var] = Substitute(Cmd.val, store)]
  /\ done' = Append(done, pc)
  /\ pc' = pc + 1
  /\ UNCHANGED <<script, exec, line, commands, phase, stack>>

Execute ==
  /\ AtCommand /\ Cmd.kind = "do"
  /\ Enabled
  /\ done' = Append(done, pc)
  /\ pc' = pc + 1
  /\ UNCHANGED <<script, exec, line, commands, phase, stack, store>>

\* The command throws: nobody catches it, the rest is not executed.
ExecuteThrows ==
  /\ AtCommand /\ Cmd.kind = "do"
  /\ Enabled
  /\ phase' = "failed"
  /\ UNCHANGED <<script, exec, line, commands, pc, stack, store, done>>

End ==
  /\ phase = "run" /\ pc > Len(commands)
  /\ phase' = "ended"
  /\ UNCHANGED <<script, exec, line, commands, pc, stack, store, done>>

Parse == ParseLine \/ SkipEmpty \/ EmptyCommand \/ ParseError \/ Run
Command ==
  \/ PushCondition \/ PopCondition \/ PopUnderflow
  \/ Skip \/ ExecuteVar \/ Execute \/ ExecuteThrows \/ End

Next == NothingToDo \/ Parse \/ Command

Spec == Init /\ [][Next]_vars

-----------------------------------------------------------------------------
\* The reference: blocks.  A text is looked up once, a condition is evaluated once,
\* when its block is reached, and a block whose condition is false is passed over.
\* "skip" is the depth of that block.
Names(e, s) == \E v \in Vars : e = Ref(v) /\ s[v] # Unset
Value(e, s) == IF Names(e, s) THEN s[e[2]] ELSE e
Means(c, s) ==
  CASE c.op = "==" -> Value(c.a, s) = Value(c.b, s)
    [] c.op = "!=" -> Value(c.a, s) # Value(c.b, s)
    [] c.op = "set" -> Names(c.a, s)
Enter(r, c) == [r EXCEPT !.depth = @ + 1,
                         !.skip = IF @ = 0 /\ ~Means(c, r.vars) THEN r.depth + 1 ELSE @]
Leave(r) == [r EXCEPT !.depth = @ - 1, !.skip = IF @ = r.depth THEN 0 ELSE @]
Assign(c, s) == IF c.kind = "var" THEN [s EXCEPT ![c.var] = Value(c.val, s)] ELSE s
OneLine(r, c, i) ==
  CASE c.kind = "if" -> Enter(r, c)
    [] c.kind = "endif" -> Leave(r)
    [] OTHER -> IF r.skip # 0 THEN r
                ELSE [r EXCEPT !.ran = Append(@, i), !.vars = Assign(c, @)]
\* What the first i lines mean.
Start == [depth |-> 0, skip |-> 0, ran |-> <<>>, vars |-> Predefined]
Meaning(lines) ==
  LET meant[i \in 0..Len(lines)] ==
        IF i = 0 THEN Start ELSE OneLine(meant[i - 1], lines[i], i)
  IN meant

\* How many conditions are open before line i.
Before(lines, i, kind) == {k \in 1..(i - 1) : lines[k].kind = kind}
Depth(lines, i) == Cardinality(Before(lines, i, "if")) - Cardinality(Before(lines, i, "endif"))
Balanced(lines) == \A i \in 1..(Len(lines) + 1) : Depth(lines, i) >= 0
Flat(lines) == \A i \in 1..(Len(lines) + 1) : Depth(lines, i) \in 0..1

\* No variable gets the text of a reference to v as its value.
NeverHeld(lines, v) ==
  /\ \A u \in Vars : Predefined[u] # Ref(v)
  /\ \/ Predefined[v] # Unset
     \/ \A i \in DOMAIN lines : lines[i].kind = "var" => lines[i].val # Ref(v)

\* No block assigns a variable that its own condition mentions.
Settled(lines) ==
  \A h, i \in DOMAIN lines :
    (/\ lines[h].kind = "if" /\ lines[i].kind = "var" /\ h < i
     /\ \A k \in h..i : lines[k].kind # "endif")
      => Ref(lines[i].var) \notin {lines[h].a, lines[h].b}

\* The scripts whose meaning is not in doubt: blocks that are not nested and do not
\* assign what they test, conditions that compare, values that are not looked up
\* again.  "if ${A}" is left out: the code takes it for true when A is empty.
Simple(lines) ==
  /\ Flat(lines) /\ Settled(lines)
  /\ \A i \in DOMAIN lines : lines[i].kind = "if" => lines[i].op # "set"
  /\ \A v \in Vars : NeverHeld(lines, v)

TypeOK ==
  /\ script \in Seq(Line)
  /\ exec \in BOOLEAN
  /\ phase \in {"parse", "run", "ended", "failed", "undefined"}
  /\ line \in 1..(Len(script) + 1)
  /\ commands \in Seq(Line)
  /\ pc \in 1..(Len(commands) + 1)
  /\ stack \in Seq(Condition)
  /\ store \in [Vars -> Text \cup {Unset}]
  /\ done \in Seq(1..Len(commands))

\* A script with a line that no command accepts changes nothing: the error is
\* found before the first command runs, wherever the line is.
BadScriptDoesNothing == done # <<>> \/ store # Predefined => Bad \notin Range(script)

\* A simple script means what its blocks say: exactly those commands run, in their
\* order, with the variables they expect; if a command throws, a prefix of them ran.
FlatScriptRight ==
  phase # "parse" /\ Simple(commands) =>
    LET meant == Meaning(commands)[Len(commands)]
    IN /\ IsPrefix(done, meant.ran)
       /\ phase = "ended" => done = meant.ran /\ store = meant.vars

\* Every endif of a balanced script finds its condition, nested or not.
BalancedIsDefined ==
  phase = "undefined" => ~Balanced(commands) \/ (exec /\ Empty \in Range(script))
=============================================================================
