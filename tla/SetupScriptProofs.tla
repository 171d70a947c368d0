-------------------------- MODULE SetupScriptProofs --------------------------
(***************************************************************************)
(* Proofs about SetupScript, for scripts of any length and any variables.  *)
(* The two recursive functions, the pass of substitute_variables and the   *)
(* meaning of a script, are shown to exist by taking the least index at    *)
(* which they would not.                                                   *)
(***************************************************************************)
EXTENDS SetupScript, NatFacts, TLAPS, FiniteSetTheorems

USE SetupAssumption, ZenonT(5), SMTT(20), ZenonT(40)

-----------------------------------------------------------------------------
\* The pass of substitute_variables over the first n variables.
IsPass(f, e, s, n) == f = [i \in 0..n |-> IF i = 0 THEN e ELSE Replace(f[i - 1], i, s)]

LEMMA PassExists ==
  ASSUME NEW e, NEW s, NEW n \in Nat
  PROVE  \E f : IsPass(f, e, s, n)
<1> DEFINE S == {m \in Nat : \E f : IsPass(f, e, s, m)}
<1>1. 0 \in S
  <2>1. IsPass([i \in 0..0 |-> e], e, s, 0)
    BY DEF IsPass
  <2> QED
    BY <2>1
<1>2. ASSUME NEW m \in Nat, m \in S PROVE m + 1 \in S
  <2>1. PICK f : IsPass(f, e, s, m)
    BY <1>2
  <2> DEFINE g == [i \in 0..(m + 1) |-> IF i = m + 1 THEN Replace(f[m], m + 1, s) ELSE f[i]]
  <2>2. ASSUME NEW i \in 0..(m + 1)
        PROVE  g[i] = IF i = 0 THEN e ELSE Replace(g[i - 1], i, s)
    <3>1. CASE i = m + 1
      <4>1. i # 0 /\ g[i] = Replace(f[m], i, s) /\ i - 1 \in 0..(m + 1) /\ i - 1 # m + 1
        BY <3>1
      <4>2. g[i - 1] = f[m]
        BY <3>1, <4>1
      <4> QED
        BY <4>1, <4>2
    <3>2. CASE i # m + 1
      <4>1. i \in 0..m /\ g[i] = f[i]
        BY <3>2
      <4>2. i # 0 => i - 1 \in 0..m /\ g[i - 1] = f[i - 1]
        BY <4>1
      <4>3. f[i] = IF i = 0 THEN e ELSE Replace(f[i - 1], i, s)
        BY <2>1, <4>1 DEF IsPass
      <4> QED
        BY <4>1, <4>2, <4>3
    <3> QED
      BY <3>1, <3>2
  <2>3. g = [i \in 0..(m + 1) |-> g[i]]
    OBVIOUS
  <2>4. IsPass(g, e, s, m + 1)
    <3> HIDE DEF g
    <3> QED
      BY <2>2, <2>3 DEF IsPass
  <2> QED
    BY <2>4
<1>3. Nat \subseteq S
  <2> HIDE DEF S
  <2> QED
    BY <1>1, <1>2, Induction
<1> QED
  BY <1>3

PassOf(f, e, s) ==
  /\ f[0] = e
  /\ \A i \in 1..Len(Order) : f[i] = Replace(f[i - 1], i, s)
  /\ Substitute(e, s) = f[Len(Order)]

LEMMA Pass == ASSUME NEW e, NEW s PROVE \E f : PassOf(f, e, s)
<1>1. Len(Order) \in Nat
  OBVIOUS
<1> DEFINE f == CHOOSE f : IsPass(f, e, s, Len(Order))
<1>2. IsPass(f, e, s, Len(Order))
  BY <1>1, PassExists
<1>3. Substitute(e, s) = f[Len(Order)]
  BY DEF Substitute, IsPass
<1> HIDE DEF f
<1>4. f[0] = e
  BY <1>1, <1>2 DEF IsPass
<1>5. ASSUME NEW i \in 1..Len(Order) PROVE f[i] = Replace(f[i - 1], i, s)
  <2>1. i \in 0..Len(Order) /\ i # 0
    BY <1>1
  <2> QED
    BY <1>2, <2>1 DEF IsPass
<1> QED
  BY <1>3, <1>4, <1>5 DEF PassOf

\* The values of variables.
Values == [Vars -> Text \cup {Unset}]

LEMMA OrderFacts ==
  /\ Len(Order) \in Nat
  /\ \A i \in 1..Len(Order) : Order[i] \in Vars
  /\ \A v \in Vars : \E i \in 1..Len(Order) : Order[i] = v
<1>1. Len(Order) \in Nat /\ DOMAIN Order = 1..Len(Order)
  OBVIOUS
<1> QED
  BY <1>1 DEF Vars, Range

LEMMA SubstituteType ==
  ASSUME NEW e \in Text, NEW s \in Values
  PROVE  Substitute(e, s) \in Text
<1>1. PICK f : PassOf(f, e, s)
  BY Pass
<1> DEFINE S == {m \in Nat : m <= Len(Order) => f[m] \in Text}
<1>2. 0 \in S
  <2>1. f[0] \in Text
    BY <1>1 DEF PassOf
  <2> QED
    BY <2>1
<1>3. ASSUME NEW m \in Nat, m \in S PROVE m + 1 \in S
  <2> SUFFICES ASSUME m + 1 <= Len(Order) PROVE f[m + 1] \in Text
    OBVIOUS
  <2>1. m + 1 \in 1..Len(Order) /\ (m + 1) - 1 = m /\ f[m] \in Text
    BY <1>3, OrderFacts
  <2>2. f[m + 1] = Replace(f[m], m + 1, s)
    BY <1>1, <2>1 DEF PassOf
  <2>3. s[Order[m + 1]] \in Text \cup {Unset}
    BY <2>1, OrderFacts DEF Values
  <2> QED
    BY <2>1, <2>2, <2>3 DEF Replace
<1>4. Nat \subseteq S
  <2> HIDE DEF S
  <2> QED
    BY <1>2, <1>3, Induction
<1>5. f[Len(Order)] \in Text
  BY <1>4, OrderFacts
<1> QED
  BY <1>1, <1>5 DEF PassOf

\* A variable to which neither the text nor a value refers is not looked up.
LEMMA SubstituteIgnores ==
  ASSUME NEW w \in Vars, NEW e, e # Ref(w), NEW s \in Values, NEW t \in Values,
         \A v \in Vars : s[v] # Ref(w),
         \A v \in Vars : v # w => t[v] = s[v]
  PROVE  Substitute(e, t) = Substitute(e, s)
<1>1. PICK f : PassOf(f, e, s)
  BY Pass
<1>2. PICK g : PassOf(g, e, t)
  BY Pass
<1> DEFINE S == {m \in Nat : m <= Len(Order) => f[m] # Ref(w) /\ g[m] = f[m]}
<1>3. 0 \in S
  <2>1. f[0] # Ref(w) /\ g[0] = f[0]
    BY <1>1, <1>2 DEF PassOf
  <2> QED
    BY <2>1
<1>4. ASSUME NEW m \in Nat, m \in S PROVE m + 1 \in S
  <2> SUFFICES ASSUME m + 1 <= Len(Order) PROVE f[m + 1] # Ref(w) /\ g[m + 1] = f[m + 1]
    OBVIOUS
  <2>1. m + 1 \in 1..Len(Order) /\ (m + 1) - 1 = m /\ f[m] # Ref(w) /\ g[m] = f[m]
    BY <1>4, OrderFacts
  <2>2. f[m + 1] = Replace(f[m], m + 1, s) /\ g[m + 1] = Replace(f[m], m + 1, t)
    BY <1>1, <1>2, <2>1 DEF PassOf
  <2>3. Order[m + 1] \in Vars
    BY <2>1, OrderFacts
  <2>4. s[Order[m + 1]] # Ref(w)
    BY <2>3
  <2>5. f[m] = Ref(Order[m + 1]) => t[Order[m + 1]] = s[Order[m + 1]]
    BY <2>1, <2>3
  <2> QED
    BY <2>1, <2>2, <2>4, <2>5 DEF Replace
<1>5. Nat \subseteq S
  <2> HIDE DEF S
  <2> QED
    BY <1>3, <1>4, Induction
<1>6. g[Len(Order)] = f[Len(Order)]
  BY <1>5, OrderFacts
<1> QED
  BY <1>1, <1>2, <1>6 DEF PassOf

\* No value becomes a reference to w: the text is none, or w is set.
LEMMA NeverARef ==
  ASSUME NEW w \in Vars, NEW e, NEW s \in Values, e # Ref(w) \/ s[w] # Unset,
         \A v \in Vars : s[v] # Ref(w)
  PROVE  Substitute(e, s) # Ref(w)
<1>1. PICK f : PassOf(f, e, s)
  BY Pass
<1>2. PICK k \in 1..Len(Order) : Order[k] = w
  BY OrderFacts
<1> DEFINE S == {m \in Nat : m <= Len(Order) /\ (e # Ref(w) \/ k <= m) => f[m] # Ref(w)}
<1>3. 0 \in S
  <2>1. e # Ref(w) => f[0] # Ref(w)
    BY <1>1 DEF PassOf
  <2>2. ~(k <= 0)
    BY <1>2, OrderFacts
  <2> QED
    BY <2>1, <2>2
<1>4. ASSUME NEW m \in Nat, m \in S PROVE m + 1 \in S
  <2> SUFFICES ASSUME m + 1 <= Len(Order), e # Ref(w) \/ k <= m + 1 PROVE f[m + 1] # Ref(w)
    OBVIOUS
  <2>1. m + 1 \in 1..Len(Order) /\ (m + 1) - 1 = m /\ m <= Len(Order)
    BY OrderFacts
  <2>2. f[m + 1] = Replace(f[m], m + 1, s)
    BY <1>1, <2>1 DEF PassOf
  <2>3. s[Order[m + 1]] # Ref(w)
    BY <2>1, OrderFacts
  <2>4. CASE e # Ref(w) \/ k <= m
    <3>1. f[m] # Ref(w)
      BY <1>4, <2>1, <2>4
    <3> QED
      BY <2>2, <2>3, <3>1 DEF Replace
  <2>5. CASE ~(e # Ref(w) \/ k <= m)
    <3>1. k <= m + 1 /\ ~(k <= m)
      BY <2>5
    <3>2. k = m + 1
      BY <1>2, <3>1, OrderFacts
    <3>3. Order[m + 1] = w /\ s[w] # Unset
      BY <1>2, <2>5, <3>2
    <3> QED
      BY <2>2, <2>3, <3>3 DEF Replace
  <2> QED
    BY <2>4, <2>5
<1>5. Nat \subseteq S
  <2> HIDE DEF S
  <2> QED
    BY <1>3, <1>4, Induction
<1>6. f[Len(Order)] # Ref(w)
  BY <1>2, <1>5, OrderFacts
<1> QED
  BY <1>1, <1>6 DEF PassOf

\* Where no value is a reference, the pass is the single look-up of the reference
\* definition.
LEMMA SubstituteIsValue ==
  ASSUME NEW e \in Text, NEW s \in Values, \A u, v \in Vars : s[u] # Ref(v)
  PROVE  Substitute(e, s) = Value(e, s)
<1>1. PICK f : PassOf(f, e, s)
  BY Pass
<1>2. ASSUME NEW i \in 1..Len(Order), NEW x, \A v \in Vars : x # Ref(v)
      PROVE  Replace(x, i, s) = x
  BY <1>2, OrderFacts DEF Replace
<1>3. CASE ~Names(e, s)
  <2> DEFINE S == {m \in Nat : m <= Len(Order) => f[m] = e}
  <2>1. 0 \in S
    BY <1>1 DEF PassOf
  <2>2. ASSUME NEW m \in Nat, m \in S PROVE m + 1 \in S
    <3> SUFFICES ASSUME m + 1 <= Len(Order) PROVE f[m + 1] = e
      OBVIOUS
    <3>1. m + 1 \in 1..Len(Order) /\ (m + 1) - 1 = m /\ f[m] = e
      BY <2>2, OrderFacts
    <3>2. f[m + 1] = Replace(e, m + 1, s)
      BY <1>1, <3>1 DEF PassOf
    <3>3. Order[m + 1] \in Vars
      BY <3>1, OrderFacts
    <3> QED
      BY <1>3, <3>2, <3>3 DEF Replace, Names
  <2>3. Nat \subseteq S
    <3> HIDE DEF S
    <3> QED
      BY <2>1, <2>2, Induction
  <2>4. f[Len(Order)] = e
    BY <2>3, OrderFacts
  <2> QED
    BY <1>1, <1>3, <2>4 DEF PassOf, Value
<1>4. CASE Names(e, s)
  <2>1. PICK w \in Vars : e = Ref(w) /\ s[w] # Unset
    BY <1>4 DEF Names
  <2>2. PICK k \in 1..Len(Order) : Order[k] = w
    BY OrderFacts
  <2>3. \A v \in Vars : s[w] # Ref(v)
    OBVIOUS
  <2>4. \A v : Ref(v) = e => v = w
    BY <2>1 DEF Ref
  <2> DEFINE S == {m \in Nat : m <= Len(Order) => f[m] = s[w] \/ (f[m] = e /\ m < k)}
  <2>5. 0 \in S
    BY <1>1, <2>2 DEF PassOf
  <2>6. ASSUME NEW m \in Nat, m \in S PROVE m + 1 \in S
    <3> SUFFICES ASSUME m + 1 <= Len(Order) PROVE f[m + 1] = s[w] \/ (f[m + 1] = e /\ m + 1 < k)
      OBVIOUS
    <3>0. m + 1 \in 1..Len(Order) /\ (m + 1) - 1 = m /\ m <= Len(Order)
      BY OrderFacts
    <3>1. f[m] = s[w] \/ (f[m] = e /\ m < k)
      BY <2>6, <3>0
    <3>2. f[m + 1] = Replace(f[m], m + 1, s)
      BY <1>1, <3>0 DEF PassOf
    <3>3. CASE f[m] = s[w]
      BY <1>2, <2>3, <3>0, <3>2, <3>3
    <3>4. CASE f[m] = e /\ m < k
      <4>1. CASE Order[m + 1] = w
        BY <2>1, <3>2, <3>4, <4>1 DEF Replace
      <4>2. CASE Order[m + 1] # w
        <5>1. f[m + 1] = e
          BY <2>4, <3>2, <3>4, <4>2 DEF Replace
        <5>2. m + 1 # k
          BY <2>2, <4>2
        <5>3. m + 1 < k
          BY <2>2, <3>4, <5>2, OrderFacts
        <5> QED
          BY <5>1, <5>3
      <4> QED
        BY <4>1, <4>2
    <3> QED
      BY <3>1, <3>3, <3>4
  <2>7. Nat \subseteq S
    <3> HIDE DEF S
    <3> QED
      BY <2>5, <2>6, Induction
  <2>8. ~(Len(Order) < k)
    BY <2>2, OrderFacts
  <2>9. f[Len(Order)] = s[w]
    BY <2>7, <2>8, OrderFacts
  <2>10. e[2] = w
    BY <2>1 DEF Ref
  <2>11. Value(e, s) = s[w]
    BY <1>4, <2>10 DEF Value
  <2> QED
    BY <1>1, <2>9, <2>11 DEF PassOf
<1> QED
  BY <1>3, <1>4

-----------------------------------------------------------------------------
LEMMA LineFacts ==
  ASSUME NEW l \in Line
  PROVE  /\ l.kind \in {"if", "endif", "var", "do", "bad", "empty"}
         /\ l.kind = "if" => l \in Condition
         /\ l.kind = "var" => l.var \in Vars /\ l.val \in Text
         /\ l.kind = "bad" => l = Bad
         /\ l.kind = "empty" => l = Empty
<1>1. CASE l \in Condition
  BY <1>1 DEF Condition
<1>2. CASE l \in [kind : {"var"}, var : Vars, val : Text]
  BY <1>2
<1>3. CASE l \in {Endif, Do, Bad, Empty}
  BY <1>3 DEF Endif, Do, Bad, Empty
<1> QED
  BY <1>1, <1>2, <1>3 DEF Line

\* The lines and commands that a step reads.
LEMMA Reads ==
  ASSUME TypeOK
  PROVE  /\ \A k \in 1..Len(script) : script[k] \in Line
         /\ \A k \in 1..Len(commands) : commands[k] \in Line
         /\ phase = "parse" /\ line <= Len(script) => line \in 1..Len(script)
         /\ AtCommand => pc \in 1..Len(commands) /\ Cmd \in Line
<1>1. /\ script \in Seq(Line) /\ commands \in Seq(Line)
      /\ line \in 1..(Len(script) + 1) /\ pc \in 1..(Len(commands) + 1)
  BY DEF TypeOK
<1>2. Len(script) \in Nat /\ Len(commands) \in Nat
  BY <1>1
<1>3. /\ \A k \in 1..Len(script) : script[k] \in Line
      /\ \A k \in 1..Len(commands) : commands[k] \in Line
  BY <1>1
<1>4. AtCommand => pc \in 1..Len(commands)
  BY <1>1, <1>2 DEF AtCommand
<1>5. line <= Len(script) => line \in 1..Len(script)
  BY <1>1, <1>2
<1> QED
  BY <1>3, <1>4, <1>5 DEF Cmd

LEMMA TypeInit == Init => TypeOK
<1> SUFFICES ASSUME Init PROVE TypeOK
  OBVIOUS
<1>1. script \in Seq(Line) /\ Len(script) \in Nat
  BY DEF Init
<1>2. <<>> \in Seq(Line) /\ <<>> \in Seq(Condition) /\ <<>> \in Seq(1..Len(commands))
  OBVIOUS
<1>3. Len(commands) = 0 /\ line \in 1..(Len(script) + 1) /\ pc \in 1..(Len(commands) + 1)
  BY <1>1 DEF Init
<1> QED
  BY <1>1, <1>2, <1>3 DEF Init, TypeOK

LEMMA FrontFacts ==
  ASSUME NEW S, NEW s \in Seq(S), s # <<>>
  PROVE  Front(s) \in Seq(S) /\ Len(Front(s)) = Len(s) - 1
<1>1. Len(s) \in Nat \ {0}
  OBVIOUS
<1>2. Front(s) = [k \in 1..(Len(s) - 1) |-> s[k]]
  BY <1>1 DEF Front
<1> QED
  BY <1>1, <1>2

\* The types of what running reads and writes.
RunTypes ==
  /\ pc \in 1..(Len(commands) + 1)
  /\ stack \in Seq(Condition)
  /\ store \in Values
  /\ done \in Seq(1..Len(commands))

LEMMA TypeStep ==
  ASSUME TypeOK, [Next]_vars
  PROVE  TypeOK'
<1>1. /\ script \in Seq(Line) /\ exec \in BOOLEAN
      /\ phase \in {"parse", "run", "ended", "failed", "undefined"}
      /\ line \in 1..(Len(script) + 1) /\ commands \in Seq(Line) /\ RunTypes
      /\ Len(script) \in Nat /\ Len(commands) \in Nat
  BY DEF TypeOK, RunTypes, Values
<1>2. CASE UNCHANGED vars
  BY <1>2 DEF TypeOK, vars, runVars
<1>3. CASE NothingToDo \/ EmptyCommand \/ ParseError \/ Run
  <2>1. phase' \in {"ended", "failed", "undefined", "run"}
        /\ UNCHANGED <<script, exec, line, commands, runVars>>
    BY <1>3 DEF NothingToDo, EmptyCommand, ParseError, Run
  <2> QED
    BY <2>1 DEF TypeOK, runVars
<1>4. CASE SkipEmpty
  <2>1. line' = line + 1 /\ line <= Len(script) /\ UNCHANGED <<script, exec, phase, commands, runVars>>
    BY <1>4 DEF SkipEmpty, AtLine
  <2>2. line' \in 1..(Len(script) + 1)
    BY <1>1, <2>1
  <2> QED
    BY <2>1, <2>2 DEF TypeOK, runVars
<1>5. CASE ParseLine
  <2>1. /\ line' = line + 1 /\ line <= Len(script) /\ commands' = Append(commands, script[line])
        /\ UNCHANGED <<script, exec, phase, runVars>>
    BY <1>5 DEF ParseLine, AtLine
  <2>2. line' \in 1..(Len(script) + 1) /\ line \in 1..Len(script)
    BY <1>1, <2>1
  <2>3. commands' \in Seq(Line) /\ Len(commands') = Len(commands) + 1
    BY <1>1, <2>1, <2>2
  <2>4. pc' \in 1..(Len(commands') + 1)
    BY <1>1, <2>1, <2>3 DEF runVars, RunTypes
  <2>5. done' \in Seq(1..Len(commands'))
    <3>1. done \in Seq(1..Len(commands)) /\ 1..Len(commands) \subseteq 1..Len(commands')
      BY <1>1, <2>3 DEF RunTypes
    <3> QED
      BY <2>1, <3>1 DEF runVars
  <2> QED
    BY <2>1, <2>2, <2>3, <2>4, <2>5 DEF TypeOK, runVars
<1>6. CASE Command
  <2>1. /\ UNCHANGED <<script, exec, line, commands>>
        /\ phase' \in {"run", "ended", "failed", "undefined"}
    BY <1>6 DEF Command, PushCondition, PopCondition, PopUnderflow, Skip, ExecuteVar, Execute,
       ExecuteThrows, End, AtCommand
  <2>2. SUFFICES RunTypes'
    BY <1>1, <2>1, <2>2 DEF TypeOK, RunTypes, Values
  <2>3. AtCommand => pc \in 1..Len(commands) /\ Cmd \in Line /\ pc + 1 \in 1..(Len(commands) + 1)
    BY <1>1, Reads
  <2>4. CASE PopUnderflow \/ ExecuteThrows \/ End
    BY <1>1, <2>1, <2>4 DEF PopUnderflow, ExecuteThrows, End, RunTypes
  <2>5. CASE PushCondition
    <3>1. Cmd \in Condition
      BY <2>3, <2>5, LineFacts DEF PushCondition
    <3>2. Append(stack, Cmd) \in Seq(Condition)
      BY <1>1, <3>1 DEF RunTypes
    <3> QED
      BY <1>1, <2>1, <2>3, <2>5, <3>2 DEF PushCondition, RunTypes
  <2>6. CASE PopCondition
    <3>1. Front(stack) \in Seq(Condition)
      <4>1. stack \in Seq(Condition) /\ stack # <<>>
        BY <1>1, <2>6 DEF PopCondition, RunTypes
      <4> QED
        BY <4>1, FrontFacts
    <3> QED
      BY <1>1, <2>1, <2>3, <2>6, <3>1 DEF PopCondition, RunTypes
  <2>7. CASE Skip
    BY <1>1, <2>1, <2>3, <2>7 DEF Skip, RunTypes
  <2>8. CASE ExecuteVar
    <3>1. Cmd.var \in Vars /\ Cmd.val \in Text
      BY <2>3, <2>8, LineFacts DEF ExecuteVar
    <3>2. Substitute(Cmd.val, store) \in Text
      BY <1>1, <3>1, SubstituteType DEF RunTypes
    <3>3. [store EXCEPT ![Cmd.var] = Substitute(Cmd.val, store)] \in Values
      BY <1>1, <3>1, <3>2 DEF RunTypes, Values
    <3>4. Append(done, pc) \in Seq(1..Len(commands))
      BY <1>1, <2>3, <2>8 DEF RunTypes, ExecuteVar
    <3> QED
      BY <1>1, <2>1, <2>3, <2>8, <3>3, <3>4 DEF ExecuteVar, RunTypes
  <2>9. CASE Execute
    <3>1. Append(done, pc) \in Seq(1..Len(commands))
      BY <1>1, <2>3, <2>9 DEF RunTypes, Execute
    <3> QED
      BY <1>1, <2>1, <2>3, <2>9, <3>1 DEF Execute, RunTypes
  <2> QED
    BY <1>6, <2>4, <2>5, <2>6, <2>7, <2>8, <2>9 DEF Command
<1> QED
  BY <1>2, <1>3, <1>4, <1>5, <1>6 DEF Next, Parse

\* Lines, commands, conditions and variables keep their types.
THEOREM ScriptTypeCorrect == Spec => []TypeOK
  BY TypeInit, TypeStep, PTL DEF Spec

-----------------------------------------------------------------------------
\* Lines are parsed first: what was parsed is not bad, and nothing is changed
\* while a line is left.
ParseInv ==
  /\ \A k \in 1..(line - 1) : script[k] # Bad
  /\ phase = "run" => line = Len(script) + 1
  /\ line <= Len(script) => done = <<>> /\ store = Predefined

\* The stack is as deep as the script is at the next command.
DepthInv ==
  /\ phase = "parse" => pc = 1 /\ stack = <<>> /\ done = <<>> /\ store = Predefined
  /\ phase = "parse" /\ line = 1 => commands = <<>>
  /\ phase = "run" => Len(stack) = Depth(commands, pc)
  /\ BalancedIsDefined

\* A variable that no text refers to once it is set.
Unheld(w) ==
  /\ Predefined[w] # Unset => store[w] # Unset
  /\ NeverHeld(commands, w) => \A v \in Vars : store[v] # Ref(w)

\* The open condition, if there is one, is the last one read.
Opened ==
  stack # <<>> => \E h \in 1..(pc - 1) : /\ commands[h].kind = "if" /\ stack = <<commands[h]>>
                                         /\ \A k \in h..(pc - 1) : commands[k].kind # "endif"

\* The reference after the commands executed.
Agrees(r) ==
  /\ done = r.ran /\ store = r.vars /\ Len(stack) = r.depth
  /\ stack = <<>> => r.skip = 0
  /\ stack # <<>> => r.skip = IF Holds(Last(stack), store) THEN 0 ELSE 1

Right ==
  /\ \A w \in Vars : Unheld(w)
  /\ phase = "ended" => pc = Len(commands) + 1
  /\ Opened
  /\ Agrees(Meaning(commands)[pc - 1])
RightInv == Simple(commands) /\ phase # "parse" => Right

LEMMA ParseInvStep ==
  ASSUME TypeOK, ParseInv, [Next]_vars
  PROVE  ParseInv'
<1>1. line \in 1..(Len(script) + 1) /\ Len(script) \in Nat
  BY DEF TypeOK
<1>2. CASE UNCHANGED vars
  BY <1>2 DEF ParseInv, vars, runVars
<1>3. CASE NothingToDo \/ EmptyCommand \/ ParseError
  BY <1>3 DEF NothingToDo, EmptyCommand, ParseError, ParseInv, runVars
<1>4. CASE Run
  <2>1. line = Len(script) + 1
    BY <1>1, <1>4 DEF Run
  <2> QED
    BY <1>4, <2>1 DEF Run, ParseInv, runVars
<1>5. CASE SkipEmpty \/ ParseLine
  <2>1. /\ line' = line + 1 /\ line <= Len(script) /\ phase = "parse" /\ phase' = "parse"
        /\ UNCHANGED <<script, done, store>> /\ script[line].kind # "bad"
    BY <1>5 DEF SkipEmpty, ParseLine, AtLine, runVars
  <2>2. script[line] # Bad
    BY <2>1 DEF Bad
  <2>3. ASSUME NEW k \in 1..(line' - 1) PROVE script'[k] # Bad
    <3>1. k = line \/ k \in 1..(line - 1)
      BY <1>1, <2>1, <2>3
    <3> QED
      BY <2>1, <2>2, <3>1 DEF ParseInv
  <2>4. line' <= Len(script) => done = <<>> /\ store = Predefined
    BY <1>1, <2>1 DEF ParseInv
  <2> QED
    BY <2>1, <2>3, <2>4 DEF ParseInv
<1>6. CASE Command
  <2>1. phase = "run" /\ UNCHANGED <<script, line>>
    BY <1>6 DEF Command, PushCondition, PopCondition, PopUnderflow, Skip, ExecuteVar, Execute,
       ExecuteThrows, End, AtCommand
  <2>2. ~(line <= Len(script))
    BY <1>1, <2>1 DEF ParseInv
  <2> QED
    BY <2>1, <2>2 DEF ParseInv
<1> QED
  BY <1>2, <1>3, <1>4, <1>5, <1>6 DEF Next, Parse

LEMMA ParseInvariant == Spec => []ParseInv
<1>1. Init => ParseInv
  <2>1. Init => line = 1 /\ Len(script) \in Nat /\ phase = "parse" /\ done = <<>> /\ store = Predefined
    BY DEF Init
  <2> QED
    BY <2>1 DEF ParseInv
<1> QED
  BY <1>1, ParseInvStep, ScriptTypeCorrect, PTL DEF Spec

\* A script with an error, wherever it is, changes nothing.
THEOREM ErrorsChangeNothing == Spec => []BadScriptDoesNothing
<1>1. TypeOK /\ ParseInv => BadScriptDoesNothing
  <2> SUFFICES ASSUME TypeOK, ParseInv, done # <<>> \/ store # Predefined,
                      NEW k \in DOMAIN script
               PROVE  script[k] # Bad
    BY DEF BadScriptDoesNothing, Range
  <2>1. /\ script \in Seq(Line) /\ line \in 1..(Len(script) + 1) /\ Len(script) \in Nat
        /\ k \in 1..Len(script)
    BY DEF TypeOK
  <2>2. ~(line <= Len(script))
    BY DEF ParseInv
  <2>3. k \in 1..(line - 1)
    BY <2>1, <2>2
  <2> QED
    BY <2>3 DEF ParseInv
<1> QED
  BY <1>1, ParseInvariant, ScriptTypeCorrect, PTL

-----------------------------------------------------------------------------
\* The depth of a script after one more line.
LEMMA BeforeStep ==
  ASSUME NEW lines, NEW i \in Nat \ {0}, NEW kind
  PROVE  /\ Cardinality(Before(lines, i, kind)) \in Nat
         /\ Cardinality(Before(lines, i + 1, kind)) =
              Cardinality(Before(lines, i, kind)) + IF lines[i].kind = kind THEN 1 ELSE 0
<1>1. IsFiniteSet(Before(lines, i, kind))
  <2>1. IsFiniteSet(1..(i - 1))
    BY FS_Interval
  <2> QED
    BY <2>1, FS_Subset DEF Before
<1>2. Cardinality(Before(lines, i, kind)) \in Nat
  BY <1>1, FS_CardinalityType
<1>3. i \notin Before(lines, i, kind)
  BY DEF Before
<1>4. 1..((i + 1) - 1) = 1..(i - 1) \cup {i}
  OBVIOUS
<1>5. CASE lines[i].kind = kind
  <2>1. Before(lines, i + 1, kind) = Before(lines, i, kind) \cup {i}
    BY <1>4, <1>5 DEF Before
  <2> QED
    BY <1>1, <1>2, <1>3, <1>5, <2>1, FS_AddElement
<1>6. CASE lines[i].kind # kind
  <2>1. Before(lines, i + 1, kind) = Before(lines, i, kind)
    BY <1>4, <1>6 DEF Before
  <2> QED
    BY <1>2, <1>6, <2>1
<1> QED
  BY <1>5, <1>6

LEMMA DepthStep ==
  ASSUME NEW lines, NEW i \in Nat \ {0}
  PROVE  /\ Depth(lines, i) \in Int
         /\ lines[i].kind = "if" => Depth(lines, i + 1) = Depth(lines, i) + 1
         /\ lines[i].kind = "endif" => Depth(lines, i + 1) = Depth(lines, i) - 1
         /\ lines[i].kind \notin {"if", "endif"} => Depth(lines, i + 1) = Depth(lines, i)
<1> DEFINE a == Cardinality(Before(lines, i, "if"))
           b == Cardinality(Before(lines, i, "endif"))
           a1 == Cardinality(Before(lines, i + 1, "if"))
           b1 == Cardinality(Before(lines, i + 1, "endif"))
<1>1. a \in Nat /\ a1 = a + IF lines[i].kind = "if" THEN 1 ELSE 0
  BY BeforeStep
<1>2. b \in Nat /\ b1 = b + IF lines[i].kind = "endif" THEN 1 ELSE 0
  BY BeforeStep
<1>3. Depth(lines, i) = a - b /\ Depth(lines, i + 1) = a1 - b1
  BY DEF Depth
<1> HIDE DEF a, b, a1, b1
<1>4. lines[i].kind = "if" => a1 = a + 1 /\ b1 = b
  BY <1>1, <1>2
<1>5. lines[i].kind = "endif" => a1 = a /\ b1 = b + 1
  BY <1>1, <1>2
<1>6. lines[i].kind \notin {"if", "endif"} => a1 = a /\ b1 = b
  BY <1>1, <1>2
<1>7. a - b \in Int /\ (a + 1) - b = (a - b) + 1 /\ a - (b + 1) = (a - b) - 1
  BY <1>1, <1>2
<1> QED
  BY <1>3, <1>4, <1>5, <1>6, <1>7, Zenon

LEMMA DepthStart == ASSUME NEW lines PROVE Depth(lines, 1) = 0
<1>1. Before(lines, 1, "if") = {} /\ Before(lines, 1, "endif") = {}
  BY SMT DEF Before
<1>2. Cardinality({}) = 0
  BY FS_EmptySet
<1>3. Depth(lines, 1) = 0 - 0
  BY <1>1, <1>2, Zenon DEF Depth
<1> QED
  BY <1>3

LEMMA DepthInvStep ==
  ASSUME TypeOK, ParseInv, DepthInv, [Next]_vars
  PROVE  DepthInv'
<1>1. /\ line \in 1..(Len(script) + 1) /\ Len(script) \in Nat /\ Len(commands) \in Nat
      /\ pc \in 1..(Len(commands) + 1) /\ stack \in Seq(Condition) /\ Len(stack) \in Nat
      /\ script \in Seq(Line)
  BY DEF TypeOK
<1>2. CASE UNCHANGED vars
  BY <1>2 DEF DepthInv, BalancedIsDefined, vars, runVars
<1>3. CASE NothingToDo \/ ParseError
  <2>1. phase' \in {"ended", "failed"}
    BY <1>3 DEF NothingToDo, ParseError
  <2> QED
    BY <2>1 DEF DepthInv, BalancedIsDefined
<1>4. CASE EmptyCommand
  <2>1. /\ phase' = "undefined" /\ exec' /\ script' = script
        /\ line <= Len(script) /\ script[line].kind = "empty"
    BY <1>4 DEF EmptyCommand, AtLine
  <2>2. line \in DOMAIN script /\ script[line] = Empty
    BY <1>1, <2>1, Reads, LineFacts
  <2>3. exec' /\ Empty \in Range(script')
    BY <2>1, <2>2 DEF Range
  <2> QED
    BY <2>1, <2>3 DEF DepthInv, BalancedIsDefined
<1>5. CASE Run
  <2>1. phase = "parse" /\ phase' = "run" /\ UNCHANGED <<commands, pc, stack>>
    BY <1>5 DEF Run, runVars
  <2>2. Len(<<>>) = 0
    OBVIOUS
  <2> QED
    BY <2>1, <2>2, DepthStart DEF DepthInv, BalancedIsDefined
<1>6. CASE SkipEmpty \/ ParseLine
  <2>1. phase = "parse" /\ phase' = "parse" /\ line' = line + 1 /\ UNCHANGED runVars
    BY <1>6 DEF SkipEmpty, ParseLine, AtLine
  <2>2. line' # 1
    BY <1>1, <2>1
  <2> QED
    BY <2>1, <2>2 DEF DepthInv, BalancedIsDefined, runVars
<1>7. CASE Command
  <2>1. phase = "run" /\ UNCHANGED <<script, exec, commands>> /\ Len(stack) = Depth(commands, pc)
    BY <1>7 DEF Command, PushCondition, PopCondition, PopUnderflow, Skip, ExecuteVar, Execute,
       ExecuteThrows, End, AtCommand, DepthInv
  <2>2. AtCommand => pc \in 1..Len(commands)
    BY Reads
  <2>3. pc \in Nat \ {0}
    BY <1>1
  <2>4. CASE ExecuteThrows \/ End
    <3>1. phase' \in {"ended", "failed"}
      BY <2>4 DEF ExecuteThrows, End
    <3> QED
      BY <3>1 DEF DepthInv, BalancedIsDefined
  <2>5. CASE PopUnderflow
    <3>1. phase' = "undefined" /\ commands[pc].kind = "endif" /\ Len(stack) = 0 /\ AtCommand
      BY <2>5 DEF PopUnderflow, Cmd
    <3>2. Depth(commands, pc + 1) = Depth(commands, pc) - 1
      BY <2>3, <3>1, DepthStep
    <3>3. ~(Depth(commands, pc + 1) >= 0) /\ pc + 1 \in 1..(Len(commands) + 1)
      BY <1>1, <2>1, <2>2, <3>1, <3>2
    <3>4. ~Balanced(commands')
      BY <2>1, <3>3 DEF Balanced
    <3> QED
      BY <3>1, <3>4 DEF DepthInv, BalancedIsDefined
  <2>6. ASSUME phase' = "run", Len(stack') = Depth(commands, pc') PROVE DepthInv'
    BY <2>1, <2>6 DEF DepthInv, BalancedIsDefined
  <2>7. CASE PushCondition
    <3>1. pc' = pc + 1 /\ phase' = "run" /\ commands[pc].kind = "if" /\ stack' = Append(stack, Cmd)
      BY <2>1, <2>7 DEF PushCondition, Cmd
    <3>2. Len(stack') = Len(stack) + 1
      BY <1>1, <3>1
    <3> QED
      BY <2>1, <2>3, <2>6, <3>1, <3>2, DepthStep
  <2>8. CASE PopCondition
    <3>1. /\ pc' = pc + 1 /\ phase' = "run" /\ commands[pc].kind = "endif"
          /\ stack' = Front(stack) /\ stack # <<>>
      BY <2>1, <2>8 DEF PopCondition, Cmd
    <3>2. Len(stack') = Len(stack) - 1
      BY <1>1, <3>1, FrontFacts
    <3> QED
      BY <2>1, <2>3, <2>6, <3>1, <3>2, DepthStep
  <2>9. CASE Skip \/ ExecuteVar \/ Execute
    <3>1. pc' = pc + 1 /\ phase' = "run" /\ commands[pc].kind \in {"var", "do"} /\ stack' = stack
      BY <2>1, <2>9 DEF Skip, ExecuteVar, Execute, Cmd
    <3>2. commands[pc].kind \notin {"if", "endif"}
      BY <3>1
    <3> QED
      BY <2>1, <2>3, <2>6, <3>1, <3>2, DepthStep
  <2> QED
    BY <1>7, <2>4, <2>5, <2>7, <2>8, <2>9 DEF Command
<1> QED
  BY <1>2, <1>3, <1>4, <1>5, <1>6, <1>7 DEF Next, Parse

LEMMA DepthInvariant == Spec => []DepthInv
<1>1. Init => DepthInv
  <2>1. Init => /\ pc = 1 /\ stack = <<>> /\ done = <<>> /\ store = Predefined /\ phase = "parse"
                /\ commands = <<>>
    BY DEF Init
  <2> QED
    BY <2>1 DEF DepthInv, BalancedIsDefined
<1> QED
  BY <1>1, DepthInvStep, ParseInvariant, ScriptTypeCorrect, PTL DEF Spec

\* An endif of a balanced script finds its condition.
THEOREM BalancedNeverUnderflows == Spec => []BalancedIsDefined
  BY DepthInvariant, PTL DEF DepthInv

-----------------------------------------------------------------------------
\* The meaning of the first n lines.
IsMeaning(f, lines, n) ==
  f = [i \in 0..n |-> IF i = 0 THEN Start ELSE OneLine(f[i - 1], lines[i], i)]

LEMMA MeaningExists ==
  ASSUME NEW lines, NEW n \in Nat
  PROVE  \E f : IsMeaning(f, lines, n)
<1> DEFINE S == {m \in Nat : \E f : IsMeaning(f, lines, m)}
<1>1. 0 \in S
  <2>1. IsMeaning([i \in 0..0 |-> Start], lines, 0)
    BY DEF IsMeaning
  <2> QED
    BY <2>1
<1>2. ASSUME NEW m \in Nat, m \in S PROVE m + 1 \in S
  <2>1. PICK f : IsMeaning(f, lines, m)
    BY <1>2
  <2> DEFINE g == [i \in 0..(m + 1) |->
                     IF i = m + 1 THEN OneLine(f[m], lines[m + 1], m + 1) ELSE f[i]]
  <2>2. ASSUME NEW i \in 0..(m + 1)
        PROVE  g[i] = IF i = 0 THEN Start ELSE OneLine(g[i - 1], lines[i], i)
    <3>1. CASE i = m + 1
      <4>1. i # 0 /\ g[i] = OneLine(f[m], lines[i], i) /\ i - 1 \in 0..(m + 1) /\ i - 1 # m + 1
        BY <3>1
      <4>2. g[i - 1] = f[m]
        BY <3>1, <4>1
      <4> QED
        BY <4>1, <4>2
    <3>2. CASE i # m + 1
      <4>1. i \in 0..m /\ g[i] = f[i]
        BY <3>2
      <4>2. i # 0 => i - 1 \in 0..m /\ g[i - 1] = f[i - 1]
        BY <4>1
      <4>3. f[i] = IF i = 0 THEN Start ELSE OneLine(f[i - 1], lines[i], i)
        BY <2>1, <4>1 DEF IsMeaning
      <4> QED
        BY <4>1, <4>2, <4>3
    <3> QED
      BY <3>1, <3>2
  <2>3. g = [i \in 0..(m + 1) |-> g[i]]
    OBVIOUS
  <2>4. IsMeaning(g, lines, m + 1)
    <3> HIDE DEF g
    <3> QED
      BY <2>2, <2>3 DEF IsMeaning
  <2> QED
    BY <2>4
<1>3. Nat \subseteq S
  <2> HIDE DEF S
  <2> QED
    BY <1>1, <1>2, Induction
<1> QED
  BY <1>3

LEMMA MeaningUnfolds ==
  ASSUME NEW lines \in Seq(Line)
  PROVE  /\ Meaning(lines)[0] = Start
         /\ \A i \in 1..Len(lines) :
              Meaning(lines)[i] = OneLine(Meaning(lines)[i - 1], lines[i], i)
<1>1. Len(lines) \in Nat
  OBVIOUS
<1> DEFINE f == CHOOSE f : IsMeaning(f, lines, Len(lines))
<1>2. IsMeaning(f, lines, Len(lines))
  BY <1>1, MeaningExists
<1>3. Meaning(lines) = f
  BY DEF Meaning, IsMeaning
<1> HIDE DEF f
<1>4. f[0] = Start
  BY <1>1, <1>2 DEF IsMeaning
<1>5. ASSUME NEW i \in 1..Len(lines) PROVE f[i] = OneLine(f[i - 1], lines[i], i)
  <2>1. i \in 0..Len(lines) /\ i # 0
    BY <1>1
  <2> QED
    BY <1>2, <2>1 DEF IsMeaning
<1> QED
  BY <1>3, <1>4, <1>5

Result == [depth : Int, skip : Int, ran : Seq(Nat), vars : Values]

LEMMA AssignType ==
  ASSUME NEW c \in Line, NEW s \in Values
  PROVE  Assign(c, s) \in Values
<1>1. CASE c.kind = "var"
  <2>1. Value(c.val, s) \in Text
    <3>1. c.val \in Text
      BY <1>1, LineFacts
    <3>2. CASE ~Names(c.val, s)
      BY <3>1, <3>2 DEF Value
    <3>3. CASE Names(c.val, s)
      <4>1. PICK v \in Vars : c.val = Ref(v) /\ s[v] # Unset
        BY <3>3 DEF Names
      <4>2. c.val[2] = v
        BY <4>1 DEF Ref
      <4> QED
        BY <3>3, <4>1, <4>2 DEF Value, Values
    <3> QED
      BY <3>2, <3>3
  <2>2. Assign(c, s) = [s EXCEPT ![c.var] = Value(c.val, s)]
    BY <1>1 DEF Assign
  <2> QED
    BY <2>1, <2>2 DEF Values
<1> QED
  BY <1>1 DEF Assign

\* What one line adds to the meaning.
LEMMA OneLineFacts ==
  ASSUME NEW r \in Result, NEW c \in Line, NEW i \in Nat
  PROVE  /\ c.kind = "if" =>
              OneLine(r, c, i) =
                [depth |-> r.depth + 1,
                 skip |-> IF r.skip = 0 /\ ~Means(c, r.vars) THEN r.depth + 1 ELSE r.skip,
                 ran |-> r.ran, vars |-> r.vars]
         /\ c.kind = "endif" =>
              OneLine(r, c, i) =
                [depth |-> r.depth - 1, skip |-> IF r.skip = r.depth THEN 0 ELSE r.skip,
                 ran |-> r.ran, vars |-> r.vars]
         /\ c.kind \notin {"if", "endif"} /\ r.skip # 0 => OneLine(r, c, i) = r
         /\ c.kind \notin {"if", "endif"} /\ r.skip = 0 =>
              OneLine(r, c, i) =
                [depth |-> r.depth, skip |-> r.skip,
                 ran |-> Append(r.ran, i), vars |-> Assign(c, r.vars)]
<1>1. r = [depth |-> r.depth, skip |-> r.skip, ran |-> r.ran, vars |-> r.vars]
  BY DEF Result
<1>2. CASE c.kind = "if"
  <2>1. OneLine(r, c, i) = Enter(r, c)
    BY <1>2 DEF OneLine
  <2> QED
    BY <1>1, <1>2, <2>1 DEF Enter
<1>3. CASE c.kind = "endif"
  <2>1. OneLine(r, c, i) = Leave(r)
    BY <1>3 DEF OneLine
  <2> QED
    BY <1>1, <1>3, <2>1 DEF Leave
<1>4. CASE c.kind \notin {"if", "endif"}
  <2>1. OneLine(r, c, i) = IF r.skip # 0 THEN r
                           ELSE [r EXCEPT !.ran = Append(@, i), !.vars = Assign(c, @)]
    BY <1>4 DEF OneLine
  <2> QED
    BY <1>1, <1>4, <2>1
<1> QED
  BY <1>2, <1>3, <1>4

\* s is the beginning of t.
Starts(s, t) == Len(s) <= Len(t) /\ \A k \in 1..Len(s) : s[k] = t[k]

LEMMA StartsTransitive ==
  ASSUME NEW s \in Seq(Nat), NEW t \in Seq(Nat), NEW u \in Seq(Nat), Starts(s, t), Starts(t, u)
  PROVE  Starts(s, u)
<1>1. Len(s) \in Nat /\ Len(t) \in Nat /\ Len(u) \in Nat /\ Len(s) <= Len(t) /\ Len(t) <= Len(u)
  BY DEF Starts
<1>2. ASSUME NEW k \in 1..Len(s) PROVE s[k] = u[k]
  <2>1. k \in 1..Len(t)
    BY <1>1
  <2> QED
    BY <2>1 DEF Starts
<1> QED
  BY <1>1, <1>2 DEF Starts

LEMMA StartsIsPrefix ==
  ASSUME NEW s \in Seq(Nat), NEW t \in Seq(Nat), Starts(s, t)
  PROVE  IsPrefix(s, t)
<1>1. Len(s) \in Nat /\ Len(t) \in Nat /\ Len(s) <= Len(t)
  BY DEF Starts
<1>2. /\ SubSeq(s, 1, Len(s)) = [k \in 1..Len(s) |-> s[k]]
      /\ SubSeq(t, 1, Len(s)) = [k \in 1..Len(s) |-> t[k]]
  BY <1>1
<1>3. [k \in 1..Len(s) |-> s[k]] = [k \in 1..Len(s) |-> t[k]]
  BY DEF Starts
<1> QED
  BY <1>1, <1>2, <1>3 DEF IsPrefix

LEMMA OneLineType ==
  ASSUME NEW r \in Result, NEW c \in Line, NEW i \in Nat
  PROVE  OneLine(r, c, i) \in Result /\ Starts(r.ran, OneLine(r, c, i).ran)
<1>1. r.depth \in Int /\ r.skip \in Int /\ r.ran \in Seq(Nat) /\ r.vars \in Values
  BY DEF Result
<1>2. Starts(r.ran, r.ran) /\ Starts(r.ran, Append(r.ran, i)) /\ Append(r.ran, i) \in Seq(Nat)
  BY <1>1 DEF Starts
<1>3. Assign(c, r.vars) \in Values
  BY <1>1, AssignType
<1>4. CASE c.kind = "if"
  <2>1. (IF r.skip = 0 /\ ~Means(c, r.vars) THEN r.depth + 1 ELSE r.skip) \in Int
    BY <1>1
  <2> QED
    BY <1>1, <1>2, <1>4, <2>1, OneLineFacts DEF Result
<1>5. CASE c.kind = "endif"
  <2>1. (IF r.skip = r.depth THEN 0 ELSE r.skip) \in Int
    BY <1>1
  <2> QED
    BY <1>1, <1>2, <1>5, <2>1, OneLineFacts DEF Result
<1>6. CASE c.kind \notin {"if", "endif"} /\ r.skip # 0
  BY <1>2, <1>6, OneLineFacts
<1>7. CASE c.kind \notin {"if", "endif"} /\ r.skip = 0
  <2> DEFINE ran == Append(r.ran, i)
             vs == Assign(c, r.vars)
  <2>1. OneLine(r, c, i) = [depth |-> r.depth, skip |-> r.skip, ran |-> ran, vars |-> vs]
    BY <1>7, OneLineFacts
  <2>2. ran \in Seq(Nat) /\ vs \in Values /\ Starts(r.ran, ran)
    BY <1>2, <1>3
  <2> HIDE DEF ran, vs
  <2> QED
    BY <1>1, <2>1, <2>2 DEF Result
<1> QED
  BY <1>4, <1>5, <1>6, <1>7

LEMMA MeaningType ==
  ASSUME NEW lines \in Seq(Line), NEW i \in 0..Len(lines)
  PROVE  Meaning(lines)[i] \in Result
<1> DEFINE M == Meaning(lines)
           S == {m \in Nat : m <= Len(lines) => M[m] \in Result}
<1>1. Len(lines) \in Nat
  OBVIOUS
<1>2. 0 \in S
  <2>1. Start \in Result
    BY DEF Start, Result, Values
  <2>2. M[0] = Start
    BY MeaningUnfolds
  <2> QED
    BY <2>1, <2>2
<1>3. ASSUME NEW m \in Nat, m \in S PROVE m + 1 \in S
  <2> SUFFICES ASSUME m + 1 <= Len(lines) PROVE M[m + 1] \in Result
    OBVIOUS
  <2>1. m + 1 \in 1..Len(lines) /\ (m + 1) - 1 = m /\ M[m] \in Result /\ m + 1 \in Nat
    BY <1>1, <1>3
  <2>2. lines[m + 1] \in Line
    BY <2>1
  <2>3. M[m + 1] = OneLine(M[m], lines[m + 1], m + 1)
    BY <2>1, MeaningUnfolds
  <2> QED
    BY <2>1, <2>2, <2>3, OneLineType
<1>4. Nat \subseteq S
  <2> HIDE DEF S
  <2> QED
    BY <1>2, <1>3, Induction
<1>5. i \in S /\ i <= Len(lines)
  BY <1>1, <1>4
<1> QED
  BY <1>5

\* What a script runs begins with what its first lines run.
LEMMA MeaningGrows ==
  ASSUME NEW lines \in Seq(Line), NEW i \in 0..Len(lines)
  PROVE  Starts(Meaning(lines)[i].ran, Meaning(lines)[Len(lines)].ran)
<1> DEFINE M == Meaning(lines)
           S == {m \in Nat : i + m <= Len(lines) => Starts(M[i].ran, M[i + m].ran)}
<1>1. Len(lines) \in Nat /\ i \in Nat
  OBVIOUS
<1>2. ASSUME NEW k \in 0..Len(lines) PROVE M[k] \in Result /\ M[k].ran \in Seq(Nat)
  <2>1. M[k] \in Result
    BY MeaningType
  <2> QED
    BY <2>1 DEF Result
<1>3. 0 \in S
  <2>1. i + 0 = i /\ M[i].ran \in Seq(Nat)
    BY <1>1, <1>2
  <2>2. Starts(M[i].ran, M[i].ran)
    BY <2>1 DEF Starts
  <2> QED
    BY <2>1, <2>2
<1>4. ASSUME NEW m \in Nat, m \in S PROVE m + 1 \in S
  <2> SUFFICES ASSUME i + (m + 1) <= Len(lines) PROVE Starts(M[i].ran, M[i + (m + 1)].ran)
    OBVIOUS
  <2> DEFINE k == i + m
  <2>1. /\ i + (m + 1) = k + 1 /\ k + 1 \in 1..Len(lines) /\ (k + 1) - 1 = k
        /\ k \in 0..Len(lines) /\ k + 1 \in 0..Len(lines) /\ k <= Len(lines) /\ k + 1 \in Nat
    BY <1>1
  <2>2. Starts(M[i].ran, M[k].ran)
    BY <1>4, <2>1
  <2> HIDE DEF k
  <2>3. M[k + 1] = OneLine(M[k], lines[k + 1], k + 1) /\ lines[k + 1] \in Line
    BY <2>1, MeaningUnfolds
  <2>4. Starts(M[k].ran, M[k + 1].ran)
    BY <1>2, <2>1, <2>3, OneLineType
  <2>5. M[i].ran \in Seq(Nat) /\ M[k].ran \in Seq(Nat) /\ M[k + 1].ran \in Seq(Nat)
    BY <1>2, <2>1
  <2>6. Starts(M[i].ran, M[k + 1].ran)
    BY <2>2, <2>4, <2>5, StartsTransitive
  <2> QED
    BY <2>1, <2>6
<1>5. Nat \subseteq S
  <2> HIDE DEF S
  <2> QED
    BY <1>3, <1>4, Induction
<1>6. /\ Len(lines) - i \in Nat /\ i + (Len(lines) - i) = Len(lines)
      /\ i + (Len(lines) - i) <= Len(lines)
  BY <1>1
<1>7. Len(lines) - i \in S
  BY <1>5, <1>6
<1> QED
  BY <1>6, <1>7

\* Assigning a variable that a condition does not mention leaves the condition.
LEMMA HoldsIgnores ==
  ASSUME NEW w \in Vars, NEW c \in Condition, Ref(w) \notin {c.a, c.b},
         NEW s \in Values, NEW t \in Values,
         \A v \in Vars : s[v] # Ref(w),
         \A v \in Vars : v # w => t[v] = s[v]
  PROVE  Holds(c, t) = Holds(c, s)
<1>1. Substitute(c.a, t) = Substitute(c.a, s) /\ Substitute(c.b, t) = Substitute(c.b, s)
  <2>1. c.a # Ref(w) /\ c.b # Ref(w)
    OBVIOUS
  <2>2. Substitute(c.a, t) = Substitute(c.a, s)
    BY <2>1, SubstituteIgnores
  <2>3. Substitute(c.b, t) = Substitute(c.b, s)
    BY <2>1, SubstituteIgnores
  <2> QED
    BY <2>2, <2>3
<1> QED
  BY <1>1 DEF Holds

-----------------------------------------------------------------------------
LEMMA RightStart ==
  ASSUME TypeOK, DepthInv, phase = "parse", phase' # "parse", Next
  PROVE  Right'
<1>1. pc = 1 /\ stack = <<>> /\ done = <<>> /\ store = Predefined /\ commands \in Seq(Line)
  BY DEF DepthInv, TypeOK
<1>2. /\ UNCHANGED <<commands, pc, stack, done, store>>
      /\ phase' = "ended" => commands = <<>>
  BY DEF Next, Parse, Command, NothingToDo, EmptyCommand, ParseError, Run, SkipEmpty, ParseLine,
     PushCondition, PopCondition, PopUnderflow, Skip, ExecuteVar, Execute, ExecuteThrows, End,
     AtCommand, AtLine, runVars, DepthInv
<1>3. Meaning(commands)[pc - 1] = Start
  BY <1>1, MeaningUnfolds
<1>4. Agrees(Meaning(commands)[pc - 1])'
  BY <1>1, <1>2, <1>3 DEF Agrees, Start
<1>5. (\A w \in Vars : Unheld(w))'
  BY <1>1, <1>2 DEF Unheld, NeverHeld
<1>6. Opened'
  BY <1>1, <1>2 DEF Opened
<1>7. phase' = "ended" => pc' = Len(commands') + 1
  BY <1>1, <1>2
<1> QED
  BY <1>4, <1>5, <1>6, <1>7 DEF Right

\* The step of the reference that a command takes.
LEMMA Referred ==
  ASSUME TypeOK, AtCommand, commands' = commands, pc' = pc + 1
  PROVE  /\ pc \in 1..Len(commands) /\ Cmd \in Line
         /\ Meaning(commands)[pc - 1] \in Result
         /\ Meaning(commands')[pc' - 1] = OneLine(Meaning(commands)[pc - 1], Cmd, pc)
<1>1. commands \in Seq(Line) /\ Len(commands) \in Nat /\ pc \in 1..Len(commands) /\ Cmd \in Line
  BY Reads DEF TypeOK
<1>2. pc - 1 \in 0..Len(commands) /\ pc' - 1 = pc
  BY <1>1
<1> QED
  BY <1>1, <1>2, MeaningType, MeaningUnfolds DEF Cmd

LEMMA SameUnheld ==
  ASSUME \A w \in Vars : Unheld(w), UNCHANGED <<commands, store>>
  PROVE  (\A w \in Vars : Unheld(w))'
  BY DEF Unheld

\* A condition stays open while no endif is read.
LEMMA StaysOpen ==
  ASSUME Opened, pc \in Nat \ {0}, commands' = commands, pc' = pc + 1, stack' = stack,
         commands[pc].kind # "endif"
  PROVE  Opened'
<1> SUFFICES ASSUME stack # <<>>
             PROVE  \E h \in 1..pc : /\ commands[h].kind = "if" /\ stack = <<commands[h]>>
                                     /\ \A k \in h..pc : commands[k].kind # "endif"
  <2>1. pc' - 1 = pc
    OBVIOUS
  <2> QED
    BY <2>1 DEF Opened
<1>1. PICK h \in 1..(pc - 1) : /\ commands[h].kind = "if" /\ stack = <<commands[h]>>
                               /\ \A k \in h..(pc - 1) : commands[k].kind # "endif"
  BY DEF Opened
<1>2. ASSUME NEW k \in h..pc PROVE commands[k].kind # "endif"
  <2>1. k = pc \/ k \in h..(pc - 1)
    BY <1>1
  <2> QED
    BY <1>1, <2>1
<1>3. h \in 1..pc
  BY <1>1
<1> QED
  BY <1>1, <1>2, <1>3

\* The stack of a flat script.
LEMMA FlatStack ==
  ASSUME TypeOK, DepthInv, Flat(commands), AtCommand
  PROVE  /\ Len(stack) \in 0..1 /\ stack \in Seq(Condition)
         /\ Cmd.kind = "if" => stack = <<>>
<1>1. /\ pc \in 1..(Len(commands) + 1) /\ pc + 1 \in 1..(Len(commands) + 1) /\ pc \in Nat \ {0}
      /\ Len(commands) \in Nat /\ stack \in Seq(Condition) /\ Len(stack) \in Nat
  BY Reads DEF TypeOK
<1>2. Len(stack) = Depth(commands, pc)
  BY DEF DepthInv, AtCommand
<1>3. Depth(commands, pc) \in 0..1 /\ Depth(commands, pc + 1) \in 0..1
  BY <1>1 DEF Flat
<1>4. Cmd.kind = "if" => Depth(commands, pc + 1) = Depth(commands, pc) + 1
  BY <1>1, DepthStep DEF Cmd
<1>5. Cmd.kind = "if" => Len(stack) = 0
  BY <1>1, <1>2, <1>3, <1>4
<1> QED
  BY <1>1, <1>2, <1>3, <1>5

\* The tests of a simple script, and its assignments, are those of the reference.
LEMMA Unreferred ==
  ASSUME Simple(commands), Right
  PROVE  \A u, v \in Vars : store[u] # Ref(v)
  BY DEF Simple, Right, Unheld

LEMMA HoldsMeans ==
  ASSUME TypeOK, Simple(commands), Right, AtCommand, Cmd.kind = "if"
  PROVE  Holds(Cmd, store) <=> Means(Cmd, store)
<1>1. /\ Cmd \in Condition /\ Cmd.op # "set" /\ store \in Values
  <2>1. pc \in DOMAIN commands /\ Cmd \in Line
    BY Reads DEF TypeOK
  <2> QED
    BY <2>1, LineFacts DEF Simple, Cmd, TypeOK, Values
<1>2. Cmd.a \in Text /\ Cmd.b \in Text /\ Cmd.op \in {"==", "!="}
  BY <1>1 DEF Condition
<1>3. Substitute(Cmd.a, store) = Value(Cmd.a, store) /\ Substitute(Cmd.b, store) = Value(Cmd.b, store)
  BY <1>1, <1>2, Unreferred, SubstituteIsValue
<1> HIDE DEF Cmd
<1> QED
  BY <1>2, <1>3 DEF Holds, Means

LEMMA RightPush ==
  ASSUME TypeOK, DepthInv, Simple(commands), Right, PushCondition
  PROVE  Right'
<1>1. /\ AtCommand /\ Cmd.kind = "if" /\ stack' = Append(stack, Cmd) /\ pc' = pc + 1
      /\ UNCHANGED <<commands, phase, store, done>> /\ phase' # "ended"
  BY DEF PushCondition, AtCommand
<1> DEFINE r == Meaning(commands)[pc - 1]
<1>2. /\ pc \in 1..Len(commands) /\ Cmd \in Line /\ r \in Result
      /\ Meaning(commands')[pc' - 1] = OneLine(r, Cmd, pc) /\ pc \in Nat \ {0}
  BY <1>1, Referred DEF TypeOK
<1>3. stack = <<>> /\ stack' = <<Cmd>>
  BY <1>1, FlatStack DEF Simple
<1>4. Agrees(r)
  BY DEF Right
<1> HIDE DEF r
<1>5. OneLine(r, Cmd, pc) = [depth |-> r.depth + 1,
                             skip |-> IF r.skip = 0 /\ ~Means(Cmd, r.vars) THEN r.depth + 1
                                      ELSE r.skip,
                             ran |-> r.ran, vars |-> r.vars]
  BY <1>1, <1>2, OneLineFacts
<1>6. r.skip = 0 /\ r.depth = 0 /\ r.vars = store /\ r.ran = done
  BY <1>3, <1>4 DEF Agrees
<1>7. Len(stack') = 1 /\ Last(stack') = Cmd /\ stack' # <<>>
  BY <1>3 DEF Last
<1>8. Agrees(Meaning(commands)[pc - 1])'
  <2> DEFINE q == OneLine(r, Cmd, pc)
  <2>1. q.depth = 1 /\ q.ran = done /\ q.vars = store
    BY <1>5, <1>6
  <2>2. q.skip = IF Holds(Cmd, store) THEN 0 ELSE 1
    BY <1>1, <1>5, <1>6, HoldsMeans
  <2>3. (Meaning(commands)[pc - 1])' = q
    BY <1>2
  <2> HIDE DEF q
  <2> QED
    BY <1>1, <1>7, <2>1, <2>2, <2>3 DEF Agrees
<1>9. Opened'
  <2>1. pc' - 1 = pc /\ pc \in 1..pc /\ \A k \in pc..pc : k = pc
    BY <1>1, <1>2
  <2>2. \A k \in pc..pc : commands[k].kind # "endif"
    BY <1>1, <2>1 DEF Cmd
  <2> QED
    BY <1>1, <1>3, <2>1, <2>2 DEF Opened, Cmd
<1> QED
  BY <1>1, <1>8, <1>9, SameUnheld DEF Right

LEMMA RightPop ==
  ASSUME TypeOK, DepthInv, Simple(commands), Right, PopCondition
  PROVE  Right'
<1>1. /\ AtCommand /\ Cmd.kind = "endif" /\ stack' = Front(stack) /\ stack # <<>> /\ pc' = pc + 1
      /\ UNCHANGED <<commands, phase, store, done>> /\ phase' # "ended"
  BY DEF PopCondition, AtCommand
<1> DEFINE r == Meaning(commands)[pc - 1]
<1>2. /\ pc \in 1..Len(commands) /\ Cmd \in Line /\ r \in Result
      /\ (Meaning(commands)[pc - 1])' = OneLine(r, Cmd, pc) /\ pc \in Nat \ {0}
  BY <1>1, Referred DEF TypeOK
<1>3. Len(stack) = 1 /\ stack' = <<>>
  <2>1. Len(stack) \in 0..1 /\ stack \in Seq(Condition)
    BY <1>1, FlatStack DEF Simple
  <2>2. Len(stack) = 1
    BY <1>1, <2>1
  <2>3. stack' \in Seq(Condition) /\ Len(stack') = 0
    BY <1>1, <2>1, <2>2, FrontFacts
  <2> QED
    BY <2>2, <2>3
<1>4. Agrees(r)
  BY DEF Right
<1> HIDE DEF r
<1> DEFINE q == OneLine(r, Cmd, pc)
<1>5. q = [depth |-> r.depth - 1, skip |-> IF r.skip = r.depth THEN 0 ELSE r.skip,
           ran |-> r.ran, vars |-> r.vars]
  BY <1>1, <1>2, OneLineFacts
<1>6. r.depth = 1 /\ r.vars = store /\ r.ran = done /\ r.skip \in {0, 1}
  BY <1>1, <1>3, <1>4 DEF Agrees
<1>7. q.depth = 0 /\ q.ran = done /\ q.vars = store /\ q.skip = 0
  BY <1>5, <1>6
<1>8. (Meaning(commands)[pc - 1])' = q
  BY <1>2
<1> HIDE DEF q
<1>9. Len(<<>>) = 0
  OBVIOUS
<1>10. Agrees(Meaning(commands)[pc - 1])'
  BY <1>1, <1>3, <1>7, <1>8, <1>9 DEF Agrees
<1>11. Opened'
  BY <1>3 DEF Opened
<1> QED
  BY <1>1, <1>10, <1>11, SameUnheld DEF Right

LEMMA RightSkip ==
  ASSUME TypeOK, Right, Skip
  PROVE  Right'
<1>1. /\ AtCommand /\ Cmd.kind \in {"var", "do"} /\ stack' = stack /\ pc' = pc + 1 /\ ~Enabled
      /\ UNCHANGED <<commands, phase, store, done>> /\ phase' # "ended"
  BY DEF Skip, AtCommand
<1> DEFINE r == Meaning(commands)[pc - 1]
<1>2. /\ pc \in 1..Len(commands) /\ Cmd \in Line /\ r \in Result
      /\ (Meaning(commands)[pc - 1])' = OneLine(r, Cmd, pc) /\ pc \in Nat \ {0}
  BY <1>1, Referred DEF TypeOK
<1>3. Agrees(r)
  BY DEF Right
<1> HIDE DEF r
<1>4. r.skip # 0
  BY <1>1, <1>3 DEF Agrees, Enabled
<1>5. Cmd.kind \notin {"if", "endif"}
  BY <1>1
<1>6. (Meaning(commands)[pc - 1])' = r
  BY <1>2, <1>4, <1>5, OneLineFacts
<1>7. Agrees(Meaning(commands)[pc - 1])'
  BY <1>1, <1>3, <1>6 DEF Agrees
<1>8. Opened'
  BY <1>1, <1>2, <1>5, StaysOpen DEF Right, Cmd
<1> QED
  BY <1>1, <1>7, <1>8, SameUnheld DEF Right

\* An assignment in an open block does not change the block's condition.
LEMMA StillHolds ==
  ASSUME TypeOK, Right, Simple(commands), ExecuteVar, stack # <<>>
  PROVE  Holds(Last(stack), store') = Holds(Last(stack), store)
<1>1. AtCommand /\ Cmd.kind = "var" /\ store' = [store EXCEPT ![Cmd.var] = Substitute(Cmd.val, store)]
  BY DEF ExecuteVar
<1>2. /\ pc \in 1..Len(commands) /\ Cmd \in Line /\ pc \in Nat \ {0} /\ Len(commands) \in Nat
      /\ commands \in Seq(Line) /\ DOMAIN commands = 1..Len(commands) /\ store \in Values
  BY <1>1, Reads DEF TypeOK, Values
<1>3. PICK h \in 1..(pc - 1) : /\ commands[h].kind = "if" /\ stack = <<commands[h]>>
                               /\ \A k \in h..(pc - 1) : commands[k].kind # "endif"
  BY DEF Right, Opened
<1>4. h \in DOMAIN commands /\ pc \in DOMAIN commands /\ h < pc
  BY <1>2, <1>3
<1>5. \A k \in h..pc : commands[k].kind # "endif"
  <2> SUFFICES ASSUME NEW k \in h..pc PROVE commands[k].kind # "endif"
    OBVIOUS
  <2>1. k = pc \/ k \in h..(pc - 1)
    BY <1>2, <1>3
  <2> QED
    BY <1>1, <1>3, <2>1 DEF Cmd
<1> DEFINE w == Cmd.var
           c == commands[h]
<1>6. w \in Vars /\ Cmd.val \in Text
  BY <1>1, <1>2, LineFacts
<1>7. Ref(w) \notin {c.a, c.b}
  BY <1>1, <1>3, <1>4, <1>5 DEF Simple, Settled, Cmd
<1>8. c \in Condition
  BY <1>2, <1>3, <1>4, LineFacts
<1>9. \A v \in Vars : store[v] # Ref(w)
  BY <1>6, Unreferred
<1>10. store' \in Values /\ \A v \in Vars : v # w => store'[v] = store[v]
  <2>1. Substitute(Cmd.val, store) \in Text
    BY <1>2, <1>6, SubstituteType
  <2> QED
    BY <1>1, <1>2, <1>6, <2>1 DEF Values
<1>11. Last(stack) = c
  BY <1>3 DEF Last
<1> HIDE DEF w, c
<1> QED
  BY <1>2, <1>6, <1>7, <1>8, <1>9, <1>10, <1>11, HoldsIgnores

LEMMA UnheldAfter ==
  ASSUME TypeOK, Right, ExecuteVar
  PROVE  (\A w \in Vars : Unheld(w))'
<1>1. /\ AtCommand /\ Cmd.kind = "var" /\ commands' = commands
      /\ store' = [store EXCEPT ![Cmd.var] = Substitute(Cmd.val, store)]
  BY DEF ExecuteVar
<1>2. /\ pc \in DOMAIN commands /\ Cmd \in Line /\ store \in Values
  BY <1>1, Reads DEF TypeOK, Values
<1> DEFINE x == Substitute(Cmd.val, store)
<1>3. Cmd.var \in Vars /\ Cmd.val \in Text /\ x \in Text
  BY <1>1, <1>2, LineFacts, SubstituteType
<1>4. x # Unset
  BY <1>3 DEF Text, Lit, Ref, Nil, Unset
<1> SUFFICES ASSUME NEW w \in Vars PROVE Unheld(w)'
  OBVIOUS
<1>5. Unheld(w)
  BY DEF Right
<1>6. Predefined[w] # Unset => store'[w] # Unset
  <2> HIDE DEF x
  <2>1. store'[w] = store[w] \/ store'[w] = x
    BY <1>1, <1>2 DEF Values, x
  <2> QED
    BY <1>4, <1>5, <2>1 DEF Unheld
<1>7. ASSUME NeverHeld(commands, w), NEW v \in Vars PROVE store'[v] # Ref(w)
  <2>1. Cmd.val # Ref(w) \/ store[w] # Unset
    BY <1>1, <1>2, <1>5, <1>7 DEF NeverHeld, Unheld, Cmd
  <2>2. \A u \in Vars : store[u] # Ref(w)
    BY <1>5, <1>7 DEF Unheld
  <2>3. x # Ref(w)
    BY <1>2, <2>1, <2>2, NeverARef
  <2> HIDE DEF x
  <2>4. store'[v] = store[v] \/ store'[v] = x
    BY <1>1, <1>2 DEF Values, x
  <2> QED
    BY <2>2, <2>3, <2>4
<1> QED
  BY <1>1, <1>6, <1>7 DEF Unheld

LEMMA RightExecute ==
  ASSUME TypeOK, Right, Simple(commands), ExecuteVar \/ Execute
  PROVE  Right'
<1>1. /\ AtCommand /\ Cmd.kind \in {"var", "do"} /\ stack' = stack /\ pc' = pc + 1 /\ Enabled
      /\ UNCHANGED <<commands, phase>> /\ done' = Append(done, pc) /\ phase' # "ended"
  BY DEF ExecuteVar, Execute, AtCommand
<1>2. store' = Assign(Cmd, store)
  <2>1. CASE ExecuteVar
    <3>1. Cmd.kind = "var" /\ Cmd.val \in Text /\ store \in Values
      BY <1>1, <2>1, Reads, LineFacts DEF ExecuteVar, TypeOK, Values
    <3>2. Substitute(Cmd.val, store) = Value(Cmd.val, store)
      BY <3>1, Unreferred, SubstituteIsValue
    <3> QED
      BY <2>1, <3>1, <3>2 DEF ExecuteVar, Assign
  <2>2. CASE Execute
    BY <2>2 DEF Execute, Assign
  <2> QED
    BY <2>1, <2>2
<1> DEFINE r == Meaning(commands)[pc - 1]
<1>3. /\ pc \in 1..Len(commands) /\ Cmd \in Line /\ r \in Result
      /\ (Meaning(commands)[pc - 1])' = OneLine(r, Cmd, pc) /\ pc \in Nat \ {0}
  BY <1>1, Referred DEF TypeOK
<1>4. Agrees(r)
  BY DEF Right
<1>5. stack # <<>> => Holds(Last(stack), store') = Holds(Last(stack), store)
  <2>1. CASE ExecuteVar
    BY <2>1, StillHolds
  <2>2. CASE Execute
    BY <2>2 DEF Execute
  <2> QED
    BY <2>1, <2>2
<1>6. (\A w \in Vars : Unheld(w))'
  <2>1. CASE ExecuteVar
    BY <2>1, UnheldAfter
  <2>2. CASE Execute
    BY <2>2, SameUnheld DEF Execute, Right
  <2> QED
    BY <2>1, <2>2
<1> HIDE DEF r
<1>7. r.skip = 0 /\ r.ran = done /\ r.vars = store /\ r.depth = Len(stack)
  BY <1>1, <1>4 DEF Agrees, Enabled
<1>8. Cmd.kind \notin {"if", "endif"}
  BY <1>1
<1> DEFINE q == OneLine(r, Cmd, pc)
<1>9. q = [depth |-> r.depth, skip |-> r.skip, ran |-> Append(r.ran, pc),
           vars |-> Assign(Cmd, r.vars)]
  BY <1>3, <1>7, <1>8, OneLineFacts
<1>10. q.depth = Len(stack) /\ q.skip = 0 /\ q.ran = done' /\ q.vars = store'
  BY <1>1, <1>2, <1>7, <1>9
<1>11. (Meaning(commands)[pc - 1])' = q
  BY <1>3
<1> HIDE DEF q
<1>12. stack # <<>> => Holds(Last(stack), store')
  BY <1>1, <1>5 DEF Enabled
<1>13. Agrees(Meaning(commands)[pc - 1])'
  BY <1>1, <1>10, <1>11, <1>12 DEF Agrees
<1>14. Opened'
  BY <1>1, <1>3, <1>8, StaysOpen DEF Right, Cmd
<1> QED
  BY <1>1, <1>6, <1>13, <1>14 DEF Right

LEMMA RightInvStep ==
  ASSUME TypeOK, DepthInv, RightInv, [Next]_vars
  PROVE  RightInv'
<1> SUFFICES ASSUME Simple(commands'), phase' # "parse" PROVE Right'
  BY DEF RightInv
<1>1. CASE UNCHANGED vars
  <2>1. UNCHANGED <<commands, phase, pc, stack, done, store>>
    BY <1>1 DEF vars, runVars
  <2>2. Right
    BY <2>1 DEF RightInv
  <2> QED
    BY <2>1, <2>2 DEF Right, Unheld, Opened, Agrees
<1>2. CASE phase = "parse" /\ Next
  BY <1>2, RightStart
<1>3. CASE phase # "parse" /\ Next
  <2>1. Command
    BY <1>3 DEF Next, Parse, NothingToDo, ParseLine, SkipEmpty, EmptyCommand, ParseError, Run, AtLine
  <2>2. commands' = commands
    BY <2>1 DEF Command, PushCondition, PopCondition, PopUnderflow, Skip, ExecuteVar, Execute,
       ExecuteThrows, End
  <2>3. Right /\ Simple(commands)
    BY <1>3, <2>2 DEF RightInv
  <2>4. CASE PopUnderflow \/ ExecuteThrows \/ End
    <3>1. UNCHANGED <<pc, stack, done, store>>
      BY <2>4 DEF PopUnderflow, ExecuteThrows, End
    <3>2. phase' = "ended" => pc > Len(commands)
      BY <2>4 DEF PopUnderflow, ExecuteThrows, End
    <3>3. phase' = "ended" => pc' = Len(commands') + 1
      <4>1. pc \in 1..(Len(commands) + 1) /\ Len(commands) \in Nat
        BY DEF TypeOK
      <4> QED
        BY <2>2, <3>1, <3>2, <4>1
    <3> QED
      BY <2>2, <2>3, <3>1, <3>3 DEF Right, Unheld, Opened, Agrees
  <2> QED
    BY <2>1, <2>3, <2>4, RightPush, RightPop, RightSkip, RightExecute DEF Command
<1> QED
  BY <1>1, <1>2, <1>3

LEMMA RightInvariant == Spec => []RightInv
<1>1. Init => RightInv
  BY DEF Init, RightInv
<1> QED
  BY <1>1, RightInvStep, DepthInvariant, ScriptTypeCorrect, PTL DEF Spec

\* A script without nested blocks, none of which assigns what it tests, whose
\* conditions compare and whose values are no references runs what its blocks say,
\* with the variables they say.
THEOREM FlatScriptsAreRight == Spec => []FlatScriptRight
<1>1. TypeOK /\ RightInv => FlatScriptRight
  <2> SUFFICES ASSUME TypeOK, RightInv, phase # "parse", Simple(commands)
               PROVE  /\ IsPrefix(done, Meaning(commands)[Len(commands)].ran)
                      /\ phase = "ended" => /\ done = Meaning(commands)[Len(commands)].ran
                                            /\ store = Meaning(commands)[Len(commands)].vars
    BY DEF FlatScriptRight
  <2>1. commands \in Seq(Line) /\ Len(commands) \in Nat /\ pc - 1 \in 0..Len(commands)
    BY DEF TypeOK
  <2> DEFINE r == Meaning(commands)[pc - 1]
             all == Meaning(commands)[Len(commands)]
  <2>2. /\ done = r.ran /\ store = r.vars
        /\ phase = "ended" => pc = Len(commands) + 1
    BY DEF RightInv, Right, Agrees
  <2>3. phase = "ended" => pc - 1 = Len(commands)
    BY <2>1, <2>2
  <2>4. r \in Result /\ all \in Result /\ Starts(r.ran, all.ran)
    BY <2>1, MeaningType, MeaningGrows
  <2>5. r.ran \in Seq(Nat) /\ all.ran \in Seq(Nat)
    BY <2>4 DEF Result
  <2>6. phase = "ended" => r = all
    BY <2>3
  <2> HIDE DEF r, all
  <2>7. IsPrefix(r.ran, all.ran)
    BY <2>4, <2>5, StartsIsPrefix
  <2>8. IsPrefix(done, all.ran) /\ (phase = "ended" => done = all.ran /\ store = all.vars)
    BY <2>2, <2>6, <2>7
  <2> QED
    BY <2>8 DEF all
<1> QED
  BY <1>1, RightInvariant, ScriptTypeCorrect, PTL

=============================================================================
