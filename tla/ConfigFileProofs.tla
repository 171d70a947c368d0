-------------------------- MODULE ConfigFileProofs --------------------------
(***************************************************************************)
(* Proofs about ConfigFile, for files of any length, any sections and      *)
(* parameters: what the loop of exists() finds is what the file means, an  *)
(* edit changes that meaning for one parameter only, and a value that was  *)
(* ensured stays.                                                          *)
(***************************************************************************)
EXTENDS ConfigFile, NatFacts, TLAPS, FiniteSetTheorems, SequenceTheorems

USE FileAssumption, ZenonT(5), SMTT(20), ZenonT(40)

-----------------------------------------------------------------------------
LEMMA LineFacts ==
  ASSUME NEW l \in FileLine
  PROVE  /\ l.kind \in {"group", "pair", "blank", "junk"}
         /\ l.kind = "group" => \E g \in Group : l = Heading(g)
         /\ l.kind = "pair" => /\ l.param \in Param /\ l.value \in Value \cup {NoValue}
                               /\ l = Pair(l.param, l.value)
  BY DEF FileLine, Heading, Pair, Blank, Junk

LEMMA NewLines ==
  /\ Blank \in FileLine /\ Blank.kind = "blank"
  /\ \A g \in Group : Heading(g) \in FileLine /\ Heading(g).kind = "group"
  /\ \A g, h \in Group : Heading(g) = Heading(h) => g = h
  /\ \A p \in Param, v \in Value \cup {NoValue} : Pair(p, v) \in FileLine
  /\ \A p, v : Pair(p, v).kind = "pair" /\ Pair(p, v).param = p /\ Pair(p, v).value = v
<1>1. Blank \in FileLine /\ Blank.kind = "blank"
  BY DEF FileLine, Blank
<1>2. ASSUME NEW g \in Group PROVE Heading(g) \in FileLine /\ Heading(g).kind = "group"
  BY DEF FileLine, Heading
<1>3. ASSUME NEW g, NEW h, Heading(g) = Heading(h) PROVE g = h
  <2>1. Heading(g).group = g /\ Heading(h).group = h
    BY DEF Heading
  <2> QED
    BY <1>3, <2>1
<1>4. ASSUME NEW p \in Param, NEW v \in Value \cup {NoValue} PROVE Pair(p, v) \in FileLine
  BY DEF FileLine
<1>5. ASSUME NEW p, NEW v
      PROVE  Pair(p, v).kind = "pair" /\ Pair(p, v).param = p /\ Pair(p, v).value = v
  BY DEF Pair
<1> QED
  BY <1>1, <1>2, <1>3, <1>4, <1>5

LEMMA Joined ==
  ASSUME NEW S, NEW a \in S, NEW b \in S, NEW c \in S
  PROVE  <<>> \o <<b, c>> = <<b, c>> /\ <<a>> \o <<b, c>> = <<a, b, c>>
<1>1. <<a>> \in Seq(S) /\ <<b, c>> \in Seq(S)
  OBVIOUS
<1>2. <<>> \o <<b, c>> = <<b, c>>
  BY <1>1, ConcatEmptySeq
<1> DEFINE t == <<a>> \o <<b, c>>
<1>3. t \in Seq(S) /\ Len(t) = 3 /\ t[1] = a /\ t[2] = b /\ t[3] = c
  <2>1. Len(<<a>>) = 1 /\ Len(<<b, c>>) = 2 /\ 1 + 2 = 3 /\ \A i \in 1..3 : i \in 1..(1 + 2)
    OBVIOUS
  <2>2. t \in Seq(S) /\ Len(t) = 3
    BY <1>1, <2>1, ConcatProperties
  <2>3. \A i \in 1..3 : t[i] = IF i <= 1 THEN <<a>>[i] ELSE <<b, c>>[i - 1]
    BY <1>1, <2>1, ConcatProperties
  <2> HIDE DEF t
  <2>4. t[1] = a /\ t[2] = b /\ t[3] = c
    BY <2>3
  <2> QED
    BY <2>2, <2>4
<1> HIDE DEF t
<1>4. t = <<a, b, c>>
  BY <1>3
<1> QED
  BY <1>2, <1>4 DEF t

\* The lines s with the lines m before line e.
Splice(s, e, m) == SubSeq(s, 1, e - 1) \o m \o SubSeq(s, e, Len(s))

Spliced(r, s, e, m) ==
  /\ Len(r) = Len(s) + Len(m)
  /\ \A k \in 1..(e - 1) : r[k] = s[k]
  /\ \A k \in 1..Len(m) : r[(e - 1) + k] = m[k]
  /\ \A k \in e..Len(s) : r[k + Len(m)] = s[k]

LEMMA SpliceFacts ==
  ASSUME NEW S, NEW s \in Seq(S), NEW m \in Seq(S), NEW e \in 1..(Len(s) + 1)
  PROVE  Splice(s, e, m) \in Seq(S) /\ Spliced(Splice(s, e, m), s, e, m)
<1> DEFINE a == SubSeq(s, 1, e - 1)
           c == SubSeq(s, e, Len(s))
           b == a \o m
<1>1. Len(s) \in Nat /\ Len(m) \in Nat /\ e \in Nat \ {0} /\ e - 1 \in Nat
  OBVIOUS
<1>2. /\ a \in Seq(S) /\ Len(a) = e - 1 /\ \A k \in 1..(e - 1) : a[k] = s[k]
  BY <1>1
<1>3. /\ c \in Seq(S) /\ Len(c) = Len(s) - (e - 1)
      /\ \A k \in 1..Len(c) : c[k] = s[(e - 1) + k]
  BY <1>1
<1> HIDE DEF a, c
<1>4. /\ b \in Seq(S) /\ Len(b) = (e - 1) + Len(m)
      /\ \A k \in 1..(e - 1) : b[k] = a[k]
      /\ \A k \in 1..Len(m) : b[(e - 1) + k] = m[k]
  <2>1. a \o m \in Seq(S) /\ Len(a \o m) = Len(a) + Len(m)
    BY <1>2, ConcatProperties
  <2>2. ASSUME NEW k \in 1..(e - 1) PROVE (a \o m)[k] = a[k]
    BY <1>1, <1>2
  <2>3. ASSUME NEW k \in 1..Len(m) PROVE (a \o m)[Len(a) + k] = m[k]
    BY <1>1, <1>2
  <2> QED
    BY <1>2, <2>1, <2>2, <2>3
<1>5. Splice(s, e, m) = b \o c
  BY DEF Splice, a, c
<1> HIDE DEF b
<1>6. b \o c \in Seq(S) /\ Len(b \o c) = Len(b) + Len(c)
  BY <1>3, <1>4, ConcatProperties
<1>7. ASSUME NEW k \in 1..(e - 1) PROVE (b \o c)[k] = s[k]
  <2>1. k \in 1..Len(b)
    BY <1>1, <1>4
  <2>2. (b \o c)[k] = b[k]
    BY <1>3, <1>4, <2>1
  <2> QED
    BY <1>2, <1>4, <2>2
<1>8. ASSUME NEW k \in 1..Len(m) PROVE (b \o c)[(e - 1) + k] = m[k]
  <2>1. (e - 1) + k \in 1..Len(b)
    BY <1>1, <1>4
  <2>2. (b \o c)[(e - 1) + k] = b[(e - 1) + k]
    BY <1>3, <1>4, <2>1
  <2> QED
    BY <1>4, <2>2
<1>9. ASSUME NEW k \in e..Len(s) PROVE (b \o c)[k + Len(m)] = s[k]
  <2> DEFINE j == k - (e - 1)
  <2>1. j \in 1..Len(c) /\ k + Len(m) = Len(b) + j /\ (e - 1) + j = k
    BY <1>1, <1>3, <1>4
  <2> HIDE DEF j
  <2> DEFINE x == Len(b)
             y == Len(c)
  <2>2. x \in Nat /\ y \in Nat /\ j \in 1..y
    BY <1>3, <1>4, <2>1
  <2> HIDE DEF x, y
  <2>3. x + j \in 1..(x + y) /\ ~(x + j <= x) /\ (x + j) - x = j
    BY <2>2
  <2>4. (b \o c)[x + j] = c[(x + j) - x]
    BY <1>3, <1>4, <2>3, ConcatProperties DEF x, y
  <2> QED
    BY <1>3, <2>1, <2>3, <2>4 DEF x
<1>10. Len(b) + Len(c) = Len(s) + Len(m)
  BY <1>1, <1>3, <1>4
<1> QED
  BY <1>5, <1>6, <1>7, <1>8, <1>9, <1>10 DEF Spliced

-----------------------------------------------------------------------------
\* The loop of exists() over the first n lines.
IsLoop(f, lines, g, p, n) ==
  f = [i \in 0..n |-> IF i = 0 THEN [at |-> "outside", line |-> Len(lines) + 1]
                      ELSE Turn(f[i - 1], lines[i], i, g, p)]

LEMMA LoopExists ==
  ASSUME NEW lines, NEW g, NEW p, NEW n \in Nat
  PROVE  \E f : IsLoop(f, lines, g, p, n)
<1> DEFINE S == {m \in Nat : \E f : IsLoop(f, lines, g, p, m)}
           begin == [at |-> "outside", line |-> Len(lines) + 1]
<1>1. 0 \in S
  <2>1. IsLoop([i \in 0..0 |-> begin], lines, g, p, 0)
    BY DEF IsLoop
  <2> QED
    BY <2>1
<1>2. ASSUME NEW m \in Nat, m \in S PROVE m + 1 \in S
  <2>1. PICK f : IsLoop(f, lines, g, p, m)
    BY <1>2
  <2> DEFINE h == [i \in 0..(m + 1) |->
                     IF i = m + 1 THEN Turn(f[m], lines[m + 1], m + 1, g, p) ELSE f[i]]
  <2>2. ASSUME NEW i \in 0..(m + 1)
        PROVE  h[i] = IF i = 0 THEN begin ELSE Turn(h[i - 1], lines[i], i, g, p)
    <3> HIDE DEF begin
    <3>1. CASE i = m + 1
      <4>1. i # 0 /\ h[i] = Turn(f[m], lines[i], i, g, p) /\ i - 1 \in 0..(m + 1) /\ i - 1 # m + 1
        BY <3>1
      <4>2. h[i - 1] = f[m]
        BY <3>1, <4>1
      <4> QED
        BY <4>1, <4>2
    <3>2. CASE i # m + 1
      <4>1. i \in 0..m /\ h[i] = f[i]
        BY <3>2
      <4>2. i # 0 => i - 1 \in 0..m /\ h[i - 1] = f[i - 1]
        BY <4>1
      <4>3. f[i] = IF i = 0 THEN begin ELSE Turn(f[i - 1], lines[i], i, g, p)
        BY <2>1, <4>1 DEF IsLoop, begin
      <4> QED
        BY <4>1, <4>2, <4>3
    <3> QED
      BY <3>1, <3>2
  <2>3. h = [i \in 0..(m + 1) |-> h[i]]
    OBVIOUS
  <2>4. IsLoop(h, lines, g, p, m + 1)
    <3> HIDE DEF h
    <3> QED
      BY <2>2, <2>3 DEF IsLoop
  <2> QED
    BY <2>4
<1>3. Nat \subseteq S
  <2> HIDE DEF S
  <2> QED
    BY <1>1, <1>2, Induction
<1> QED
  BY <1>3

LoopOf(f, lines, g, p) ==
  /\ f[0] = [at |-> "outside", line |-> Len(lines) + 1]
  /\ \A i \in 1..Len(lines) : f[i] = Turn(f[i - 1], lines[i], i, g, p)
  /\ Find(lines, g, p) = f[Len(lines)]

LEMMA Loop ==
  ASSUME NEW lines \in Seq(FileLine), NEW g, NEW p
  PROVE  \E f : LoopOf(f, lines, g, p)
<1>1. Len(lines) \in Nat
  OBVIOUS
<1> DEFINE f == CHOOSE f : IsLoop(f, lines, g, p, Len(lines))
<1>2. IsLoop(f, lines, g, p, Len(lines))
  BY <1>1, LoopExists
<1>3. Find(lines, g, p) = f[Len(lines)]
  BY DEF Find, IsLoop
<1> HIDE DEF f
<1>4. f[0] = [at |-> "outside", line |-> Len(lines) + 1]
  BY <1>1, <1>2 DEF IsLoop
<1>5. ASSUME NEW i \in 1..Len(lines) PROVE f[i] = Turn(f[i - 1], lines[i], i, g, p)
  <2>1. i \in 0..Len(lines) /\ i # 0
    BY <1>1
  <2> QED
    BY <1>2, <2>1 DEF IsLoop
<1> QED
  BY <1>3, <1>4, <1>5 DEF LoopOf

\* The first heading of g; a line that the loop passes over inside a section;
\* the line at which it ends.
First(lines, g, h) == lines[h] = Heading(g) /\ \A k \in 1..(h - 1) : lines[k] # Heading(g)
Plain(l, p) == l.kind = "blank" \/ (l.kind = "pair" /\ l.param # p)
Ends(at, l, p) ==
  \/ at = "over" /\ l.kind = "group"
  \/ at = "bad" /\ l.kind = "junk"
  \/ at = "hit" /\ l.kind = "pair" /\ l.param = p

\* What the loop has seen after i lines.
Ahead(r, lines, g, i) == r.line = Len(lines) + 1 /\ \A k \in 1..i : lines[k] # Heading(g)
Within(r, lines, g, p, i, h) ==
  /\ First(lines, g, h)
  /\ \/ r.at = "inside" /\ r.line = Len(lines) + 1 /\ \A k \in (h + 1)..i : Plain(lines[k], p)
     \/ /\ r.line \in (h + 1)..i /\ Ends(r.at, lines[r.line], p)
        /\ \A k \in (h + 1)..(r.line - 1) : Plain(lines[k], p)
Seen(r, lines, g, p, i) ==
  \/ r = [at |-> "outside", line |-> Len(lines) + 1] /\ Ahead(r, lines, g, i)
  \/ \E h \in 1..i : Within(r, lines, g, p, i, h)

LEMMA SeenStep ==
  ASSUME NEW lines \in Seq(FileLine), NEW g, NEW p, NEW r, NEW i \in Nat, i + 1 <= Len(lines),
         Seen(r, lines, g, p, i)
  PROVE  Seen(Turn(r, lines[i + 1], i + 1, g, p), lines, g, p, i + 1)
<1> DEFINE l == lines[i + 1]
           q == Turn(r, l, i + 1, g, p)
<1>1. i + 1 \in 1..Len(lines) /\ l \in FileLine /\ Len(lines) \in Nat
  OBVIOUS
<1>2. CASE r = [at |-> "outside", line |-> Len(lines) + 1] /\ Ahead(r, lines, g, i)
  <2>1. r.at = "outside" /\ r.line = Len(lines) + 1
    BY <1>2
  <2>2. CASE l = Heading(g)
    <3>1. q = [r EXCEPT !.at = "inside"]
      BY <2>1, <2>2 DEF Turn
    <3>2. q.at = "inside" /\ q.line = Len(lines) + 1
      BY <1>2, <3>1
    <3>3. First(lines, g, i + 1)
      BY <1>2, <2>2 DEF Ahead, First
    <3>4. \A k \in ((i + 1) + 1)..(i + 1) : Plain(lines[k], p)
      OBVIOUS
    <3>5. Within(q, lines, g, p, i + 1, i + 1)
      <4> HIDE DEF q
      <4> QED
        BY <3>2, <3>3, <3>4 DEF Within
    <3>6. i + 1 \in 1..(i + 1)
      OBVIOUS
    <3> HIDE DEF q
    <3>7. Seen(q, lines, g, p, i + 1)
      BY <3>5, <3>6 DEF Seen
    <3> QED
      BY <3>7 DEF q
  <2>3. CASE l # Heading(g)
    <3>1. q = r
      BY <2>1, <2>3 DEF Turn
    <3>2. ASSUME NEW k \in 1..(i + 1) PROVE lines[k] # Heading(g)
      <4>1. k = i + 1 \/ k \in 1..i
        OBVIOUS
      <4> QED
        BY <1>2, <2>3, <4>1 DEF Ahead
    <3> QED
      BY <1>2, <2>1, <3>1, <3>2 DEF Seen, Ahead
  <2> QED
    BY <2>2, <2>3
<1>3. ASSUME NEW h \in 1..i, Within(r, lines, g, p, i, h)
      PROVE  Seen(q, lines, g, p, i + 1)
  <2>1. h \in 1..(i + 1) /\ First(lines, g, h)
    BY <1>3 DEF Within
  <2>2. ASSUME Within(q, lines, g, p, i + 1, h) PROVE Seen(q, lines, g, p, i + 1)
    <3> HIDE DEF q
    <3> QED
      BY <2>1, <2>2 DEF Seen
  <2>3. CASE /\ r.at = "inside" /\ r.line = Len(lines) + 1
             /\ \A k \in (h + 1)..i : Plain(lines[k], p)
    <3>1. CASE Plain(l, p)
      <4>1. q = r
        BY <2>3, <3>1 DEF Turn, Plain, Heading
      <4>2. ASSUME NEW k \in (h + 1)..(i + 1) PROVE Plain(lines[k], p)
        <5>1. k = i + 1 \/ k \in (h + 1)..i
          OBVIOUS
        <5> QED
          BY <2>3, <3>1, <5>1
      <4> QED
        BY <2>1, <2>2, <2>3, <4>1, <4>2 DEF Within
    <3>2. CASE ~Plain(l, p)
      <4>1. q.line = i + 1 /\ Ends(q.at, l, p)
        <5>1. l.kind \in {"group", "junk"} \/ (l.kind = "pair" /\ l.param = p)
          BY <1>1, <3>2, LineFacts DEF Plain
        <5>2. CASE l.kind = "group"
          BY <2>3, <5>2 DEF Turn, Ends
        <5>3. CASE l.kind = "junk"
          BY <2>3, <5>3 DEF Turn, Ends
        <5>4. CASE l.kind = "pair" /\ l.param = p
          BY <2>3, <5>4 DEF Turn, Ends
        <5> QED
          BY <5>1, <5>2, <5>3, <5>4
      <4>2. i + 1 \in (h + 1)..(i + 1) /\ (i + 1) - 1 = i
        OBVIOUS
      <4>3. Within(q, lines, g, p, i + 1, h)
        <5> HIDE DEF q
        <5> QED
          BY <2>1, <2>3, <4>1, <4>2 DEF Within
      <4> QED
        BY <2>2, <4>3
    <3> QED
      BY <3>1, <3>2
  <2>4. CASE /\ r.line \in (h + 1)..i /\ Ends(r.at, lines[r.line], p)
             /\ \A k \in (h + 1)..(r.line - 1) : Plain(lines[k], p)
    <3>1. q = r
      BY <2>4 DEF Ends, Turn
    <3>2. r.line \in (h + 1)..(i + 1)
      BY <2>4
    <3>3. Within(r, lines, g, p, i + 1, h)
      BY <2>1, <2>4, <3>2 DEF Within
    <3> QED
      BY <2>2, <3>1, <3>3
  <2> QED
    BY <1>3, <2>3, <2>4 DEF Within
<1> QED
  BY <1>2, <1>3 DEF Seen

LEMMA FindSeen ==
  ASSUME NEW lines \in Seq(FileLine), NEW g, NEW p
  PROVE  Seen(Find(lines, g, p), lines, g, p, Len(lines))
<1>1. PICK f : LoopOf(f, lines, g, p)
  BY Loop
<1> DEFINE S == {m \in Nat : m <= Len(lines) => Seen(f[m], lines, g, p, m)}
<1>2. 0 \in S
  <2>1. f[0] = [at |-> "outside", line |-> Len(lines) + 1]
    BY <1>1 DEF LoopOf
  <2>2. Ahead(f[0], lines, g, 0)
    BY <2>1 DEF Ahead
  <2>3. Seen(f[0], lines, g, p, 0)
    BY <2>1, <2>2 DEF Seen
  <2> QED
    BY <2>3
<1>3. ASSUME NEW m \in Nat, m \in S PROVE m + 1 \in S
  <2> SUFFICES ASSUME m + 1 <= Len(lines) PROVE Seen(f[m + 1], lines, g, p, m + 1)
    OBVIOUS
  <2>1. m + 1 \in 1..Len(lines) /\ (m + 1) - 1 = m /\ m <= Len(lines)
    OBVIOUS
  <2>2. Seen(f[m], lines, g, p, m)
    BY <1>3, <2>1
  <2>3. f[m + 1] = Turn(f[m], lines[m + 1], m + 1, g, p)
    BY <1>1, <2>1 DEF LoopOf
  <2> QED
    BY <2>2, <2>3, SeenStep
<1>4. Nat \subseteq S
  <2> HIDE DEF S
  <2> QED
    BY <1>2, <1>3, Induction
<1>5. Seen(f[Len(lines)], lines, g, p, Len(lines))
  BY <1>4
<1> QED
  BY <1>1, <1>5 DEF LoopOf

-----------------------------------------------------------------------------
\* The lines that say what a parameter is.
IsHolder(lines, g, p, i) ==
  /\ lines[i].kind = "pair" /\ lines[i].param = p
  /\ \E h \in 1..(i - 1) : First(lines, g, h) /\ \A k \in (h + 1)..i : lines[k].kind # "group"

LEMMA FirstSectionFacts ==
  ASSUME NEW lines \in Seq(FileLine), NEW g, NEW h \in 1..Len(lines)
  PROVE  FirstSection(lines, g) = h <=> First(lines, g, h)
<1> DEFINE heads == {j \in DOMAIN lines : lines[j] = Heading(g)}
           first == CHOOSE j \in heads : \A k \in heads : j <= k
<1>1. Len(lines) \in Nat /\ DOMAIN lines = 1..Len(lines) /\ heads \subseteq Nat
  OBVIOUS
<1>2. FirstSection(lines, g) = IF heads = {} THEN 0 ELSE first
  BY DEF FirstSection
<1>3. heads # {} => first \in heads /\ \A k \in heads : first <= k
  <2> SUFFICES ASSUME heads # {} PROVE \E j \in heads : \A k \in heads : j <= k
    OBVIOUS
  <2> QED
    BY <1>1, LeastNat
<1>4. First(lines, g, h) <=> h \in heads /\ \A k \in heads : h <= k
  <2>1. ASSUME First(lines, g, h) PROVE h \in heads /\ \A k \in heads : h <= k
    <3>1. ASSUME NEW k \in heads, ~(h <= k) PROVE FALSE
      <4>1. k \in 1..(h - 1)
        BY <1>1, <3>1
      <4> QED
        BY <2>1, <4>1 DEF First
    <3> QED
      BY <1>1, <2>1, <3>1 DEF First
  <2>2. ASSUME h \in heads, \A k \in heads : h <= k PROVE First(lines, g, h)
    <3>1. ASSUME NEW k \in 1..(h - 1), lines[k] = Heading(g) PROVE FALSE
      <4>1. k \in heads /\ ~(h <= k)
        BY <1>1, <3>1
      <4> QED
        BY <2>2, <4>1
    <3> QED
      BY <2>2, <3>1 DEF First
  <2> QED
    BY <2>1, <2>2
<1>5. h # 0
  BY <1>1
<1> HIDE DEF heads, first
<1>6. ASSUME h \in heads, \A k \in heads : h <= k, heads # {} PROVE h = first
  <2>1. h <= first /\ first <= h /\ h \in Nat /\ first \in Nat
    BY <1>1, <1>3, <1>6
  <2> QED
    BY <2>1
<1> QED
  BY <1>2, <1>3, <1>4, <1>5, <1>6

LEMMA SectionStartFacts ==
  ASSUME NEW lines \in Seq(FileLine), NEW i \in 1..Len(lines), NEW h \in 1..Len(lines)
  PROVE  SectionStart(lines, i) = h <=>
           /\ h <= i /\ lines[h].kind = "group"
           /\ \A k \in (h + 1)..i : lines[k].kind # "group"
<1> DEFINE heads == {j \in 1..i : lines[j].kind = "group"}
           last == CHOOSE j \in heads : \A k \in heads : k <= j
           IsLast(j) == j \in heads /\ \A k \in heads : k <= j
<1>1. Len(lines) \in Nat /\ i \in Nat /\ h \in Nat /\ h # 0 /\ heads \subseteq Nat
  OBVIOUS
<1>2. SectionStart(lines, i) = IF heads = {} THEN 0 ELSE last
  BY DEF SectionStart
<1>3. heads # {} => IsLast(last)
  <2> SUFFICES ASSUME heads # {} PROVE \E j \in heads : \A k \in heads : k <= j
    OBVIOUS
  <2> DEFINE T == {i - j : j \in heads}
  <2>1. T \subseteq Nat /\ T # {}
    BY <1>1
  <2>2. PICK n \in T : \A m \in T : n <= m
    BY <2>1, LeastNat
  <2>3. PICK j \in heads : n = i - j
    BY <2>2
  <2>4. ASSUME NEW k \in heads PROVE k <= j
    <3>1. i - j <= i - k /\ j \in Nat /\ k \in Nat
      BY <1>1, <2>2, <2>3
    <3> QED
      BY <1>1, <3>1
  <2> QED
    BY <2>4
<1>4. IsLast(h) <=> /\ h <= i /\ lines[h].kind = "group"
                    /\ \A k \in (h + 1)..i : lines[k].kind # "group"
  <2>1. ASSUME IsLast(h), NEW k \in (h + 1)..i PROVE lines[k].kind # "group"
    <3>1. k \in 1..i /\ ~(k <= h)
      BY <1>1
    <3> QED
      BY <2>1, <3>1
  <2>2. ASSUME h <= i, lines[h].kind = "group", \A k \in (h + 1)..i : lines[k].kind # "group"
        PROVE  IsLast(h)
    <3>1. h \in heads
      BY <1>1, <2>2
    <3>2. ASSUME NEW k \in heads, ~(k <= h) PROVE FALSE
      <4>1. k \in (h + 1)..i
        BY <1>1, <3>2
      <4> QED
        BY <2>2, <4>1
    <3> QED
      BY <3>1, <3>2
  <2>3. IsLast(h) => h <= i /\ lines[h].kind = "group"
    OBVIOUS
  <2> QED
    BY <2>1, <2>2, <2>3
<1>5. ASSUME IsLast(h), heads # {} PROVE h = last
  <2>1. h <= last /\ last <= h /\ h \in Nat /\ last \in Nat
    BY <1>1, <1>3, <1>5
  <2> HIDE DEF last
  <2> QED
    BY <2>1
<1>6. IsLast(h) => heads # {}
  OBVIOUS
<1> HIDE DEF heads, last, IsLast
<1> QED
  BY <1>1, <1>2, <1>3, <1>4, <1>5, <1>6

LEMMA HolderFacts ==
  ASSUME NEW lines \in Seq(FileLine), NEW g \in Group, NEW p, NEW i
  PROVE  i \in Holders(lines, g, p) <=> i \in 1..Len(lines) /\ IsHolder(lines, g, p, i)
<1>1. Len(lines) \in Nat /\ DOMAIN lines = 1..Len(lines)
  OBVIOUS
<1>2. ASSUME i \in Holders(lines, g, p) PROVE i \in 1..Len(lines) /\ IsHolder(lines, g, p, i)
  <2> DEFINE h == FirstSection(lines, g)
  <2>1. /\ i \in 1..Len(lines) /\ lines[i].kind = "pair" /\ lines[i].param = p
        /\ h # 0 /\ SectionStart(lines, i) = h
    BY <1>1, <1>2 DEF Holders
  <2>2. h \in 1..Len(lines)
    <3> DEFINE heads == {j \in DOMAIN lines : lines[j] = Heading(g)}
    <3>1. heads \subseteq Nat /\ heads # {}
      BY <1>1, <2>1 DEF FirstSection
    <3>2. \E j \in heads : \A k \in heads : j <= k
      BY <3>1, LeastNat
    <3>3. h \in heads
      BY <3>1, <3>2 DEF FirstSection
    <3> QED
      BY <1>1, <3>3
  <2> HIDE DEF h
  <2>3. First(lines, g, h)
    BY <2>2, FirstSectionFacts DEF h
  <2>4. h <= i /\ lines[h].kind = "group" /\ \A k \in (h + 1)..i : lines[k].kind # "group"
    BY <2>1, <2>2, SectionStartFacts
  <2>5. h # i
    BY <2>1, <2>4
  <2>6. h \in 1..(i - 1)
    BY <1>1, <2>1, <2>2, <2>4, <2>5
  <2> QED
    BY <2>1, <2>3, <2>4, <2>6 DEF IsHolder
<1>3. ASSUME i \in 1..Len(lines), IsHolder(lines, g, p, i) PROVE i \in Holders(lines, g, p)
  <2>1. PICK h \in 1..(i - 1) : /\ First(lines, g, h)
                                /\ \A k \in (h + 1)..i : lines[k].kind # "group"
    BY <1>3 DEF IsHolder
  <2>2. h \in 1..Len(lines) /\ h <= i /\ h # 0
    BY <1>1, <1>3, <2>1
  <2>3. FirstSection(lines, g) = h
    BY <2>1, <2>2, FirstSectionFacts
  <2>4. lines[h].kind = "group"
    BY <2>1, NewLines DEF First
  <2>5. SectionStart(lines, i) = h
    BY <1>3, <2>1, <2>2, <2>4, SectionStartFacts
  <2> QED
    BY <1>1, <1>3, <2>2, <2>3, <2>5 DEF Holders, IsHolder
<1> QED
  BY <1>2, <1>3

\* The line that counts.
Says(lines, g, p, i) ==
  /\ i \in 1..Len(lines) /\ IsHolder(lines, g, p, i)
  /\ \A j \in 1..(i - 1) : ~IsHolder(lines, g, p, j)
Silent(lines, g, p) == \A i \in 1..Len(lines) : ~IsHolder(lines, g, p, i)

LEMMA MeaningFacts ==
  ASSUME NEW lines \in Seq(FileLine), NEW g \in Group, NEW p
  PROVE  /\ Silent(lines, g, p) => Meaning(lines, g, p) = {}
         /\ \A i : Says(lines, g, p, i) => Meaning(lines, g, p) = {lines[i].value}
         /\ Silent(lines, g, p) \/ \E i : Says(lines, g, p, i)
<1> DEFINE H == Holders(lines, g, p)
<1>1. Len(lines) \in Nat /\ H \subseteq 1..Len(lines) /\ H \subseteq Nat
  BY HolderFacts
<1>2. \A i : i \in H <=> i \in 1..Len(lines) /\ IsHolder(lines, g, p, i)
  BY HolderFacts
<1>3. Meaning(lines, g, p) =
        IF H = {} THEN {} ELSE {lines[CHOOSE i \in H : \A j \in H : i <= j].value}
  BY DEF Meaning
<1> HIDE DEF H
<1>4. Silent(lines, g, p) => H = {}
  BY <1>1, <1>2 DEF Silent
<1>5. ASSUME NEW i, Says(lines, g, p, i)
      PROVE  i \in H /\ \A j \in H : i <= j
  <2>1. i \in H
    BY <1>2, <1>5 DEF Says
  <2>2. ASSUME NEW j \in H, ~(i <= j) PROVE FALSE
    <3>1. j \in 1..(i - 1)
      BY <1>1, <2>1, <2>2
    <3> QED
      BY <1>2, <1>5, <2>2, <3>1 DEF Says
  <2> QED
    BY <2>1, <2>2
<1>6. ASSUME NEW i \in H, \A j \in H : i <= j
      PROVE  (CHOOSE k \in H : \A j \in H : k <= j) = i
  <2> DEFINE c == CHOOSE k \in H : \A j \in H : k <= j
  <2>1. c \in H /\ c <= i /\ i <= c
    BY <1>6
  <2>2. c \in Nat /\ i \in Nat
    BY <1>1, <2>1
  <2> HIDE DEF c
  <2>3. c = i
    BY <2>1, <2>2
  <2> QED
    BY <2>3 DEF c
<1>7. ASSUME NEW i, Says(lines, g, p, i) PROVE Meaning(lines, g, p) = {lines[i].value}
  BY <1>3, <1>5, <1>6, <1>7
<1>8. ASSUME ~Silent(lines, g, p) PROVE \E i : Says(lines, g, p, i)
  <2>1. H # {}
    BY <1>2, <1>8 DEF Silent
  <2>2. PICK i \in H : \A j \in H : i <= j
    BY <1>1, <2>1, LeastNat
  <2>3. ASSUME NEW j \in 1..(i - 1), IsHolder(lines, g, p, j) PROVE FALSE
    <3>1. j \in 1..Len(lines) /\ ~(i <= j)
      BY <1>1, <2>2, <2>3
    <3> QED
      BY <1>2, <2>2, <2>3, <3>1
  <2>4. Says(lines, g, p, i)
    BY <1>2, <2>2, <2>3 DEF Says
  <2> QED
    BY <2>4
<1> QED
  BY <1>3, <1>4, <1>7, <1>8

-----------------------------------------------------------------------------
\* Where the loop ends, when it has found the section.
Stops(r, lines, g, p, h) ==
  /\ First(lines, g, h) /\ r.line \in (h + 1)..(Len(lines) + 1)
  /\ \A k \in (h + 1)..(r.line - 1) : Plain(lines[k], p)
  /\ \/ r.at = "inside" /\ r.line = Len(lines) + 1
     \/ r.line \in 1..Len(lines) /\ Ends(r.at, lines[r.line], p)

LEMMA FindStops ==
  ASSUME NEW lines \in Seq(FileLine), NEW g, NEW p, Find(lines, g, p).at # "outside"
  PROVE  \E h \in 1..Len(lines) : Stops(Find(lines, g, p), lines, g, p, h)
<1> DEFINE r == Find(lines, g, p)
<1>1. Len(lines) \in Nat
  OBVIOUS
<1>2. Seen(r, lines, g, p, Len(lines)) /\ r.at # "outside"
  BY FindSeen
<1> HIDE DEF r
<1>3. PICK h \in 1..Len(lines) : Within(r, lines, g, p, Len(lines), h)
  BY <1>2 DEF Seen
<1>4. CASE /\ r.at = "inside" /\ r.line = Len(lines) + 1
           /\ \A k \in (h + 1)..Len(lines) : Plain(lines[k], p)
  <2>1. r.line \in (h + 1)..(Len(lines) + 1) /\ r.line - 1 = Len(lines)
    BY <1>1, <1>3, <1>4
  <2> QED
    BY <1>3, <1>4, <2>1 DEF Within, Stops, r
<1>5. CASE /\ r.line \in (h + 1)..Len(lines) /\ Ends(r.at, lines[r.line], p)
           /\ \A k \in (h + 1)..(r.line - 1) : Plain(lines[k], p)
  <2>1. r.line \in (h + 1)..(Len(lines) + 1) /\ r.line \in 1..Len(lines)
    BY <1>1, <1>3, <1>5
  <2> QED
    BY <1>3, <1>5, <2>1 DEF Within, Stops, r
<1> QED
  BY <1>3, <1>4, <1>5 DEF Within

LEMMA FindOutside ==
  ASSUME NEW lines \in Seq(FileLine), NEW g, NEW p, Find(lines, g, p).at = "outside"
  PROVE  /\ Find(lines, g, p).line = Len(lines) + 1
         /\ \A k \in 1..Len(lines) : lines[k] # Heading(g)
<1>1. ASSUME NEW h \in 1..Len(lines), Within(Find(lines, g, p), lines, g, p, Len(lines), h)
      PROVE  FALSE
  BY <1>1 DEF Within, Ends
<1> QED
  BY <1>1, FindSeen DEF Seen, Ahead

\* There is one first heading.
LEMMA FirstIsOne ==
  ASSUME NEW lines, NEW g, NEW h \in Nat \ {0}, NEW j \in Nat \ {0},
         First(lines, g, h), First(lines, g, j)
  PROVE  h = j
<1>1. ASSUME h < j PROVE FALSE
  <2>1. h \in 1..(j - 1)
    BY <1>1
  <2> QED
    BY <2>1 DEF First
<1>2. ASSUME j < h PROVE FALSE
  <2>1. j \in 1..(h - 1)
    BY <1>2
  <2> QED
    BY <2>1 DEF First
<1> QED
  BY <1>1, <1>2

\* What exists() finds is what the file means.
LEMMA FindMeans ==
  ASSUME NEW lines \in Seq(FileLine), NEW g \in Group, NEW p
  PROVE  /\ Find(lines, g, p).at = "hit" => Says(lines, g, p, Find(lines, g, p).line)
         /\ Find(lines, g, p).at \notin {"hit", "bad"} => Silent(lines, g, p)
<1> DEFINE r == Find(lines, g, p)
<1>1. Len(lines) \in Nat
  OBVIOUS
<1>2. ASSUME r.at = "outside" PROVE Silent(lines, g, p)
  <2> SUFFICES ASSUME NEW i \in 1..Len(lines), NEW h \in 1..(i - 1), First(lines, g, h) PROVE FALSE
    BY DEF Silent, IsHolder
  <2>1. h \in 1..Len(lines)
    BY <1>1
  <2> QED
    BY <1>2, <2>1, FindOutside DEF First
<1>3. ASSUME r.at # "outside"
      PROVE  /\ r.at = "hit" => Says(lines, g, p, r.line)
             /\ r.at \notin {"hit", "bad"} => Silent(lines, g, p)
  <2>1. PICK h \in 1..Len(lines) : Stops(r, lines, g, p, h)
    BY <1>3, FindStops
  <2> HIDE DEF r
  <2>2. ASSUME NEW i \in 1..Len(lines), IsHolder(lines, g, p, i)
        PROVE  /\ lines[i].kind = "pair" /\ lines[i].param = p
               /\ i \in (h + 1)..Len(lines)
               /\ \A k \in (h + 1)..i : lines[k].kind # "group"
    <3>1. PICK j \in 1..(i - 1) : First(lines, g, j) /\ \A k \in (j + 1)..i : lines[k].kind # "group"
      BY <2>2 DEF IsHolder
    <3>2. j = h
      BY <1>1, <2>1, <3>1, FirstIsOne DEF Stops
    <3>3. i \in (h + 1)..Len(lines)
      BY <1>1, <3>1, <3>2
    <3> QED
      BY <2>2, <3>1, <3>2, <3>3 DEF IsHolder
  <2>3. ASSUME NEW i \in 1..Len(lines), IsHolder(lines, g, p, i), i < r.line PROVE FALSE
    <3>1. i \in (h + 1)..(r.line - 1)
      BY <1>1, <2>1, <2>2, <2>3 DEF Stops
    <3> QED
      BY <2>1, <2>2, <2>3, <3>1 DEF Stops, Plain
  <2>4. ASSUME r.at = "hit" PROVE Says(lines, g, p, r.line)
    <3>1. r.line \in 1..Len(lines) /\ lines[r.line].kind = "pair" /\ lines[r.line].param = p
      BY <2>1, <2>4 DEF Stops, Ends
    <3>2. h \in 1..(r.line - 1)
      BY <1>1, <2>1, <3>1 DEF Stops
    <3>3. ASSUME NEW k \in (h + 1)..r.line PROVE lines[k].kind # "group"
      <4>1. k = r.line \/ k \in (h + 1)..(r.line - 1)
        BY <1>1, <3>1
      <4> QED
        BY <2>1, <3>1, <4>1 DEF Stops, Plain
    <3>4. IsHolder(lines, g, p, r.line)
      BY <2>1, <3>1, <3>2, <3>3 DEF Stops, IsHolder
    <3>5. ASSUME NEW j \in 1..(r.line - 1) PROVE ~IsHolder(lines, g, p, j)
      <4>1. j \in 1..Len(lines) /\ j < r.line
        BY <1>1, <3>1
      <4> QED
        BY <2>3, <4>1
    <3> QED
      BY <3>1, <3>4, <3>5 DEF Says
  <2>5. ASSUME r.at \notin {"hit", "bad"}, NEW i \in 1..Len(lines), IsHolder(lines, g, p, i)
        PROVE  FALSE
    <3>1. ~(i < r.line)
      BY <2>3, <2>5
    <3>2. r.line \in 1..Len(lines) /\ lines[r.line].kind = "group"
      <4>1. ~(r.line = Len(lines) + 1)
        BY <1>1, <3>1
      <4> QED
        BY <2>1, <2>5, <4>1 DEF Stops, Ends
    <3>3. r.line \in (h + 1)..i
      BY <1>1, <2>1, <2>5, <3>1, <3>2 DEF Stops
    <3> QED
      BY <2>2, <2>5, <3>2, <3>3
  <2> QED
    BY <2>4, <2>5 DEF Silent
<1> QED
  BY <1>2, <1>3

-----------------------------------------------------------------------------
\* The edited file says v of one parameter, and the same of the others.
Changes(lines, new, g, p, v) ==
  \A q \in Group, w \in Param :
    Meaning(new, q, w) = IF q = g /\ w = p THEN {v} ELSE Meaning(lines, q, w)

\* The lines of a file at their places in an edited one.
Places(lines, new, s) ==
  /\ s \in [1..Len(lines) -> 1..Len(new)]
  /\ \A i, j \in 1..Len(lines) : i < j => s[i] < s[j]

LEMMA PlacesFacts ==
  ASSUME NEW lines \in Seq(FileLine), NEW new \in Seq(FileLine), NEW s, Places(lines, new, s),
         NEW i \in 1..Len(lines), NEW j \in 1..Len(lines)
  PROVE  /\ s[i] \in Nat \ {0} /\ s[j] \in Nat \ {0}
         /\ s[i] < s[j] <=> i < j
         /\ s[i] <= s[j] <=> i <= j
<1>1. Len(lines) \in Nat /\ Len(new) \in Nat
  OBVIOUS
<1>2. s[i] \in 1..Len(new) /\ s[j] \in 1..Len(new)
  BY DEF Places
<1>3. (i < j => s[i] < s[j]) /\ (j < i => s[j] < s[i])
  BY DEF Places
<1>4. i = j => s[i] = s[j]
  OBVIOUS
<1> QED
  BY <1>1, <1>2, <1>3, <1>4

\* A parameter whose lines have only moved means the same.
Kept(lines, new, g, p, s) ==
  /\ \A i \in 1..Len(lines) : IsHolder(lines, g, p, i) =>
       IsHolder(new, g, p, s[i]) /\ new[s[i]].value = lines[i].value
  /\ \A j \in 1..Len(new) : IsHolder(new, g, p, j) =>
       \E i \in 1..Len(lines) : j = s[i] /\ IsHolder(lines, g, p, i)

LEMMA SameMeaning ==
  ASSUME NEW lines \in Seq(FileLine), NEW new \in Seq(FileLine), NEW g \in Group, NEW p,
         NEW s, Places(lines, new, s), Kept(lines, new, g, p, s)
  PROVE  Meaning(new, g, p) = Meaning(lines, g, p)
<1>1. CASE Silent(lines, g, p)
  <2>1. Silent(new, g, p)
    BY <1>1 DEF Silent, Kept
  <2>2. Meaning(lines, g, p) = {}
    BY <1>1, MeaningFacts
  <2>3. Meaning(new, g, p) = {}
    BY <2>1, MeaningFacts
  <2> QED
    BY <2>2, <2>3
<1>2. ASSUME NEW i, Says(lines, g, p, i) PROVE Meaning(new, g, p) = Meaning(lines, g, p)
  <2>1. i \in 1..Len(lines) /\ IsHolder(lines, g, p, i)
    BY <1>2 DEF Says
  <2>2. IsHolder(new, g, p, s[i]) /\ new[s[i]].value = lines[i].value /\ s[i] \in 1..Len(new)
    BY <2>1 DEF Places, Kept
  <2>3. ASSUME NEW j \in 1..(s[i] - 1), IsHolder(new, g, p, j) PROVE FALSE
    <3>1. j \in 1..Len(new) /\ j < s[i]
      BY <2>2
    <3>2. PICK k \in 1..Len(lines) : j = s[k] /\ IsHolder(lines, g, p, k)
      BY <2>3, <3>1 DEF Kept
    <3>3. k < i
      BY <2>1, <3>1, <3>2, PlacesFacts
    <3>4. k \in 1..(i - 1)
      BY <2>1, <3>3
    <3> QED
      BY <1>2, <3>2, <3>4 DEF Says
  <2>4. Says(new, g, p, s[i])
    BY <2>2, <2>3 DEF Says
  <2>5. Meaning(lines, g, p) = {lines[i].value}
    BY <1>2, MeaningFacts
  <2>6. Meaning(new, g, p) = {new[s[i]].value}
    BY <2>4, MeaningFacts
  <2> QED
    BY <2>2, <2>5, <2>6
<1> QED
  BY <1>1, <1>2, MeaningFacts

\* Lines that play the same part.
Alike(a, b, n) ==
  \A k \in 1..n : /\ a[k].kind = b[k].kind
                  /\ a[k].kind = "pair" => a[k].param = b[k].param
                  /\ \A g \in Group : a[k] = Heading(g) <=> b[k] = Heading(g)

LEMMA AlikeHolder ==
  ASSUME NEW a, NEW b, NEW n \in Nat, Alike(a, b, n), NEW g \in Group, NEW p, NEW i \in 1..n,
         IsHolder(a, g, p, i)
  PROVE  IsHolder(b, g, p, i)
<1>1. PICK h \in 1..(i - 1) : First(a, g, h) /\ \A k \in (h + 1)..i : a[k].kind # "group"
  BY DEF IsHolder
<1>2. h \in 1..n /\ \A k \in 1..(h - 1) : k \in 1..n
  BY <1>1
<1>3. First(b, g, h)
  BY <1>1, <1>2 DEF First, Alike
<1>4. ASSUME NEW k \in (h + 1)..i PROVE b[k].kind # "group"
  <2>1. k \in 1..n
    BY <1>1
  <2> QED
    BY <1>1, <2>1 DEF Alike
<1>5. b[i].kind = "pair" /\ b[i].param = p
  BY DEF IsHolder, Alike
<1> QED
  BY <1>1, <1>3, <1>4, <1>5 DEF IsHolder

\* The parameter has a line, which is replaced.
Patch(lines, e, l) == [lines EXCEPT ![e] = l]

LEMMA Replaced ==
  ASSUME NEW lines \in Seq(FileLine), NEW g \in Group, NEW p \in Param, NEW v \in Value \cup {NoValue},
         NEW e, Says(lines, g, p, e), NEW new, new = Patch(lines, e, Pair(p, v))
  PROVE  new \in Seq(FileLine) /\ Changes(lines, new, g, p, v)
<1>1. /\ Len(lines) \in Nat /\ e \in 1..Len(lines) /\ Pair(p, v) \in FileLine
      /\ IsHolder(lines, g, p, e) /\ lines[e].kind = "pair" /\ lines[e].param = p
  BY NewLines DEF Says, IsHolder
<1>2. /\ new \in Seq(FileLine) /\ Len(new) = Len(lines) /\ new[e] = Pair(p, v)
      /\ \A k \in 1..Len(lines) : k # e => new[k] = lines[k]
  BY <1>1 DEF Patch
<1> SUFFICES ASSUME NEW q \in Group, NEW w \in Param
             PROVE  Meaning(new, q, w) = IF q = g /\ w = p THEN {v} ELSE Meaning(lines, q, w)
  BY <1>2 DEF Changes
<1>3. /\ new[e].kind = "pair" /\ new[e].param = p /\ new[e].value = v
      /\ \A x \in Group : new[e] # Heading(x) /\ lines[e] # Heading(x)
  <2>1. \A x \in Group : Heading(x).kind = "group"
    BY NewLines
  <2>2. new[e].kind = "pair" /\ new[e].param = p /\ new[e].value = v
    BY <1>2, NewLines
  <2>3. "pair" # "group"
    OBVIOUS
  <2> QED
    BY <1>1, <2>1, <2>2, <2>3
<1>4. Alike(lines, new, Len(lines)) /\ Alike(new, lines, Len(lines))
  BY <1>1, <1>2, <1>3 DEF Alike
<1>5. ASSUME NEW x \in Group, NEW y, NEW i \in 1..Len(lines)
      PROVE  IsHolder(lines, x, y, i) <=> IsHolder(new, x, y, i)
  BY <1>1, <1>4, AlikeHolder
<1>6. CASE q = g /\ w = p
  <2>1. \A j \in 1..(e - 1) : j \in 1..Len(lines)
    BY <1>1
  <2>2. Says(new, g, p, e)
    BY <1>1, <1>2, <1>5, <2>1 DEF Says
  <2>3. new \in Seq(FileLine)
    BY <1>2
  <2>4. Meaning(new, g, p) = {new[e].value}
    BY <2>2, <2>3, MeaningFacts
  <2> QED
    BY <1>3, <1>6, <2>4
<1>7. CASE ~(q = g /\ w = p)
  <2> DEFINE s == [k \in 1..Len(lines) |-> k]
  <2>1. Places(lines, new, s)
    BY <1>2 DEF Places
  <2>2. ASSUME IsHolder(lines, q, w, e) PROVE FALSE
    <3>1. w = p
      BY <1>1, <2>2 DEF IsHolder
    <3>2. PICK h \in 1..(e - 1) : First(lines, g, h) /\ \A k \in (h + 1)..e : lines[k].kind # "group"
      BY <1>1 DEF IsHolder
    <3>3. PICK j \in 1..(e - 1) : First(lines, q, j) /\ \A k \in (j + 1)..e : lines[k].kind # "group"
      BY <2>2 DEF IsHolder
    <3>4. lines[h] = Heading(g) /\ lines[j] = Heading(q)
      BY <3>2, <3>3 DEF First
    <3>5. lines[h].kind = "group" /\ lines[j].kind = "group"
      BY <3>4, NewLines
    <3>6. ~(h \in (j + 1)..e) /\ ~(j \in (h + 1)..e)
      BY <3>2, <3>3, <3>5
    <3>7. h = j
      BY <1>1, <3>6
    <3> QED
      BY <1>7, <3>1, <3>4, <3>7, NewLines
  <2>3. ASSUME NEW i \in 1..Len(lines), IsHolder(lines, q, w, i)
        PROVE  IsHolder(new, q, w, s[i]) /\ new[s[i]].value = lines[i].value
    BY <1>2, <1>5, <2>2, <2>3
  <2>4. ASSUME NEW j \in 1..Len(new), IsHolder(new, q, w, j)
        PROVE  \E i \in 1..Len(lines) : j = s[i] /\ IsHolder(lines, q, w, i)
    BY <1>2, <1>5, <2>4
  <2> HIDE DEF s
  <2>5. Kept(lines, new, q, w, s)
    BY <2>3, <2>4 DEF Kept
  <2>6. new \in Seq(FileLine)
    BY <1>2
  <2>7. Meaning(new, q, w) = Meaning(lines, q, w)
    BY <2>1, <2>5, <2>6, SameMeaning
  <2> QED
    BY <1>7, <2>7
<1> QED
  BY <1>6, <1>7

\* Lines that are no heading have been inserted.
Moved(lines, new, s) ==
  /\ Places(lines, new, s)
  /\ \A k \in 1..Len(lines) : new[s[k]] = lines[k]
  /\ \A j \in 1..Len(new) : new[j].kind = "group" => \E k \in 1..Len(lines) : j = s[k]

LEMMA FirstMoves ==
  ASSUME NEW lines \in Seq(FileLine), NEW new \in Seq(FileLine), NEW s, Moved(lines, new, s),
         NEW g \in Group
  PROVE  /\ \A h \in 1..Len(lines) : First(lines, g, h) => First(new, g, s[h])
         /\ \A j \in 1..Len(new) : First(new, g, j) =>
              \E h \in 1..Len(lines) : j = s[h] /\ First(lines, g, h)
<1>1. Len(lines) \in Nat /\ Len(new) \in Nat /\ Places(lines, new, s) /\ Heading(g).kind = "group"
  BY NewLines DEF Moved
<1>2. ASSUME NEW h \in 1..Len(lines), First(lines, g, h) PROVE First(new, g, s[h])
  <2>1. new[s[h]] = Heading(g) /\ s[h] \in 1..Len(new)
    BY <1>1, <1>2 DEF First, Moved, Places
  <2>2. ASSUME NEW j \in 1..(s[h] - 1), new[j] = Heading(g) PROVE FALSE
    <3>1. j \in 1..Len(new) /\ j < s[h]
      BY <1>1, <2>1
    <3>2. PICK k \in 1..Len(lines) : j = s[k]
      BY <1>1, <2>2, <3>1 DEF Moved
    <3>3. k < h
      BY <1>1, <3>1, <3>2, PlacesFacts
    <3>4. k \in 1..(h - 1) /\ lines[k] = Heading(g)
      BY <1>1, <2>2, <3>2, <3>3 DEF Moved
    <3> QED
      BY <1>2, <3>4 DEF First
  <2> QED
    BY <2>1, <2>2 DEF First
<1>3. ASSUME NEW j \in 1..Len(new), First(new, g, j)
      PROVE  \E h \in 1..Len(lines) : j = s[h] /\ First(lines, g, h)
  <2>1. new[j] = Heading(g)
    BY <1>3 DEF First
  <2>2. PICK h \in 1..Len(lines) : j = s[h]
    BY <1>1, <2>1 DEF Moved
  <2>3. lines[h] = Heading(g)
    BY <2>1, <2>2 DEF Moved
  <2>4. ASSUME NEW k \in 1..(h - 1), lines[k] = Heading(g) PROVE FALSE
    <3>1. k \in 1..Len(lines) /\ k < h
      BY <1>1
    <3>2. s[k] < s[h] /\ s[k] \in Nat \ {0} /\ s[h] \in Nat \ {0}
      BY <1>1, <3>1, PlacesFacts
    <3>3. s[k] \in 1..(j - 1) /\ new[s[k]] = Heading(g)
      BY <2>2, <2>4, <3>1, <3>2 DEF Moved
    <3> QED
      BY <1>3, <3>3 DEF First
  <2> QED
    BY <2>2, <2>3, <2>4 DEF First
<1> QED
  BY <1>2, <1>3

LEMMA HolderMoves ==
  ASSUME NEW lines \in Seq(FileLine), NEW new \in Seq(FileLine), NEW s, Moved(lines, new, s),
         NEW g \in Group, NEW p, NEW i \in 1..Len(lines)
  PROVE  IsHolder(lines, g, p, i) <=> IsHolder(new, g, p, s[i])
<1>1. /\ Len(lines) \in Nat /\ Len(new) \in Nat /\ Places(lines, new, s)
      /\ s[i] \in 1..Len(new) /\ new[s[i]] = lines[i]
  <2>1. Len(lines) \in Nat /\ Len(new) \in Nat
    OBVIOUS
  <2>2. Places(lines, new, s) /\ new[s[i]] = lines[i]
    BY DEF Moved
  <2>3. s[i] \in 1..Len(new)
    BY <2>2 DEF Places
  <2> QED
    BY <2>1, <2>2, <2>3
<1>2. ASSUME IsHolder(lines, g, p, i) PROVE IsHolder(new, g, p, s[i])
  <2>1. PICK h \in 1..(i - 1) : First(lines, g, h) /\ \A k \in (h + 1)..i : lines[k].kind # "group"
    BY <1>2 DEF IsHolder
  <2>2. h \in 1..Len(lines) /\ h < i
    BY <1>1, <2>1
  <2>3. s[h] < s[i] /\ s[h] \in Nat \ {0}
    BY <1>1, <2>2, PlacesFacts
  <2>4. s[h] \in 1..(s[i] - 1)
    BY <1>1, <2>3
  <2>5. First(new, g, s[h])
    BY <2>1, <2>2, FirstMoves
  <2>6. ASSUME NEW j \in (s[h] + 1)..s[i], new[j].kind = "group" PROVE FALSE
    <3>1. j \in 1..Len(new) /\ s[h] < j /\ j <= s[i]
      BY <1>1, <2>3
    <3>2. PICK k \in 1..Len(lines) : j = s[k]
      BY <2>6, <3>1 DEF Moved
    <3>3. h < k /\ k <= i
      BY <1>1, <2>2, <3>1, <3>2, PlacesFacts
    <3>4. k \in (h + 1)..i /\ lines[k].kind = "group"
      BY <1>1, <2>2, <2>6, <3>2, <3>3 DEF Moved
    <3> QED
      BY <2>1, <3>4
  <2> QED
    BY <1>1, <1>2, <2>4, <2>5, <2>6 DEF IsHolder
<1>3. ASSUME IsHolder(new, g, p, s[i]) PROVE IsHolder(lines, g, p, i)
  <2>1. PICK j \in 1..(s[i] - 1) :
          First(new, g, j) /\ \A k \in (j + 1)..s[i] : new[k].kind # "group"
    BY <1>3 DEF IsHolder
  <2>2. j \in 1..Len(new) /\ j < s[i]
    BY <1>1, <2>1
  <2>3. PICK h \in 1..Len(lines) : j = s[h] /\ First(lines, g, h)
    BY <2>1, <2>2, FirstMoves
  <2>4. h < i
    BY <1>1, <2>2, <2>3, PlacesFacts
  <2>5. h \in 1..(i - 1)
    BY <1>1, <2>4
  <2>6. ASSUME NEW k \in (h + 1)..i PROVE lines[k].kind # "group"
    <3>1. k \in 1..Len(lines) /\ h < k /\ k <= i
      BY <1>1
    <3>2. s[h] < s[k] /\ s[k] <= s[i] /\ s[k] \in Nat /\ s[h] \in Nat
      BY <1>1, <3>1, PlacesFacts
    <3>3. s[k] \in (j + 1)..s[i]
      BY <1>1, <2>3, <3>2
    <3> QED
      BY <2>1, <3>1, <3>3 DEF Moved
  <2> QED
    BY <1>1, <1>3, <2>3, <2>5, <2>6 DEF IsHolder
<1> QED
  BY <1>2, <1>3

\* The section is there: the parameter is added where it ends.
LEMMA Added ==
  ASSUME NEW lines \in Seq(FileLine), NEW g \in Group, NEW p \in Param, NEW v \in Value \cup {NoValue},
         NEW r, NEW h \in 1..Len(lines), Stops(r, lines, g, p, h), Silent(lines, g, p),
         NEW new \in Seq(FileLine), new = Splice(lines, r.line, <<Pair(p, v), Blank>>)
  PROVE  Changes(lines, new, g, p, v)
<1> SUFFICES ASSUME NEW q \in Group, NEW w \in Param
             PROVE  Meaning(new, q, w) = IF q = g /\ w = p THEN {v} ELSE Meaning(lines, q, w)
  BY DEF Changes
<1> DEFINE e == r.line
           m == <<Pair(p, v), Blank>>
           s == [k \in 1..Len(lines) |-> IF k < e THEN k ELSE k + 2]
<1>1. Len(lines) \in Nat /\ e \in 1..(Len(lines) + 1) /\ e \in (h + 1)..(Len(lines) + 1)
  BY DEF Stops
<1>2. m \in Seq(FileLine) /\ Len(m) = 2 /\ m[1] = Pair(p, v) /\ m[2] = Blank
  <2>1. Pair(p, v) \in FileLine /\ Blank \in FileLine
    BY NewLines
  <2> QED
    BY <2>1
<1> HIDE DEF e, m
<1>3. /\ Len(new) = Len(lines) + 2
      /\ \A k \in 1..(e - 1) : new[k] = lines[k]
      /\ new[e] = Pair(p, v) /\ new[e + 1] = Blank
      /\ \A k \in e..Len(lines) : new[k + 2] = lines[k]
  <2>0. new = Splice(lines, e, m)
    BY DEF e, m
  <2>1. Spliced(new, lines, e, m)
    BY <1>1, <1>2, <2>0, SpliceFacts
  <2>2. 1 \in 1..2 /\ 2 \in 1..2 /\ (e - 1) + 1 = e /\ (e - 1) + 2 = e + 1
    BY <1>1
  <2> QED
    BY <1>2, <2>1, <2>2 DEF Spliced
<1>4. Places(lines, new, s)
  <2>1. ASSUME NEW k \in 1..Len(lines) PROVE s[k] \in 1..Len(new)
    BY <1>1, <1>3
  <2>2. ASSUME NEW i \in 1..Len(lines), NEW j \in 1..Len(lines), i < j PROVE s[i] < s[j]
    BY <1>1, <2>2
  <2> QED
    BY <2>1, <2>2 DEF Places
<1>5. ASSUME NEW k \in 1..Len(lines) PROVE new[s[k]] = lines[k]
  <2>1. CASE k < e
    <3>1. k \in 1..(e - 1) /\ s[k] = k
      BY <1>1, <2>1
    <3> QED
      BY <1>3, <3>1
  <2>2. CASE ~(k < e)
    <3>1. k \in e..Len(lines) /\ s[k] = k + 2
      BY <1>1, <2>2
    <3> QED
      BY <1>3, <3>1
  <2> QED
    BY <2>1, <2>2
<1>6. ASSUME NEW j \in 1..Len(new), j # e, j # e + 1 PROVE \E k \in 1..Len(lines) : j = s[k]
  <2>1. CASE j < e
    <3>1. j \in 1..Len(lines) /\ s[j] = j
      BY <1>1, <2>1
    <3> QED
      BY <3>1
  <2>2. CASE ~(j < e)
    <3>1. j - 2 \in 1..Len(lines) /\ ~(j - 2 < e) /\ (j - 2) + 2 = j
      BY <1>1, <1>3, <1>6, <2>2
    <3>2. s[j - 2] = j
      BY <3>1
    <3> QED
      BY <3>1, <3>2
  <2> QED
    BY <2>1, <2>2
<1>7. ASSUME NEW k \in 1..(e - 1) PROVE k \in 1..Len(lines) /\ s[k] = k
  BY <1>1
<1> HIDE DEF s
<1>8. /\ new[e].kind = "pair" /\ new[e].param = p /\ new[e].value = v
      /\ new[e + 1].kind = "blank"
  BY <1>3, NewLines
<1>9. Moved(lines, new, s)
  <2>1. ASSUME NEW j \in 1..Len(new), new[j].kind = "group"
        PROVE  \E k \in 1..Len(lines) : j = s[k]
    <3>1. j # e /\ j # e + 1
      BY <1>8, <2>1
    <3> QED
      BY <1>6, <3>1
  <2> QED
    BY <1>4, <1>5, <2>1 DEF Moved
<1>10. h \in 1..(e - 1)
  BY <1>1
<1>11. /\ First(lines, g, h) /\ lines[h] = Heading(g) /\ new[h] = Heading(g)
       /\ \A k \in (h + 1)..(e - 1) : lines[k].kind # "group" /\ new[k].kind # "group"
  <2>1. First(lines, g, h) /\ \A k \in (h + 1)..(e - 1) : lines[k].kind # "group"
    BY DEF Stops, Plain, e
  <2>2. \A k \in (h + 1)..(e - 1) : k \in 1..(e - 1)
    BY <1>1
  <2> QED
    BY <1>3, <1>10, <2>1, <2>2 DEF First
<1>12. CASE q = g /\ w = p
  <2>1. First(new, g, h)
    BY <1>7, <1>9, <1>10, <1>11, FirstMoves
  <2>2. ASSUME NEW k \in (h + 1)..e PROVE new[k].kind # "group"
    <3>1. k = e \/ k \in (h + 1)..(e - 1)
      BY <1>1
    <3> QED
      BY <1>8, <1>11, <3>1
  <2>3. IsHolder(new, g, p, e)
    BY <1>8, <1>10, <2>1, <2>2 DEF IsHolder
  <2>4. ASSUME NEW j \in 1..(e - 1), IsHolder(new, g, p, j) PROVE FALSE
    <3>1. j \in 1..Len(lines) /\ s[j] = j
      BY <1>7
    <3>2. IsHolder(lines, g, p, j)
      BY <1>9, <2>4, <3>1, HolderMoves
    <3> QED
      BY <3>1, <3>2 DEF Silent
  <2>5. e \in 1..Len(new)
    BY <1>1, <1>3
  <2>6. Says(new, g, p, e)
    BY <2>3, <2>4, <2>5 DEF Says
  <2>7. Meaning(new, g, p) = {new[e].value}
    BY <2>6, MeaningFacts
  <2> QED
    BY <1>8, <1>12, <2>7
<1>13. CASE ~(q = g /\ w = p)
  <2>1. ASSUME IsHolder(new, q, w, e) PROVE FALSE
    <3>1. w = p
      BY <1>8, <2>1 DEF IsHolder
    <3>2. PICK j \in 1..(e - 1) : First(new, q, j) /\ \A k \in (j + 1)..e : new[k].kind # "group"
      BY <2>1 DEF IsHolder
    <3>3. new[j] = Heading(q) /\ new[j].kind = "group" /\ new[h].kind = "group"
      BY <1>11, <3>2, NewLines DEF First
    <3>4. ~(h \in (j + 1)..e) /\ ~(j \in (h + 1)..(e - 1))
      BY <1>11, <3>2, <3>3
    <3>5. h = j
      BY <1>1, <1>10, <3>4
    <3> QED
      BY <1>11, <1>13, <3>1, <3>3, <3>5, NewLines
  <2>2. ASSUME NEW i \in 1..Len(lines), IsHolder(lines, q, w, i)
        PROVE  IsHolder(new, q, w, s[i]) /\ new[s[i]].value = lines[i].value
    <3>1. IsHolder(new, q, w, s[i])
      BY <1>9, <2>2, HolderMoves
    <3>2. new[s[i]] = lines[i]
      BY <1>5
    <3> QED
      BY <3>1, <3>2
  <2>3. ASSUME NEW j \in 1..Len(new), IsHolder(new, q, w, j)
        PROVE  \E i \in 1..Len(lines) : j = s[i] /\ IsHolder(lines, q, w, i)
    <3>1. j # e /\ j # e + 1
      BY <1>8, <2>1, <2>3 DEF IsHolder
    <3>2. PICK i \in 1..Len(lines) : j = s[i]
      BY <1>6, <3>1
    <3>3. IsHolder(lines, q, w, i)
      BY <1>9, <2>3, <3>2, HolderMoves
    <3> QED
      BY <3>2, <3>3
  <2>4. Kept(lines, new, q, w, s)
    BY <2>2, <2>3 DEF Kept
  <2>5. Meaning(new, q, w) = Meaning(lines, q, w)
    BY <1>4, <2>4, SameMeaning
  <2> QED
    BY <1>13, <2>5
<1> QED
  BY <1>12, <1>13

\* The section is not there: it is added to the end of the file.
LEMMA AddedSection ==
  ASSUME NEW lines \in Seq(FileLine), NEW g \in Group, NEW p \in Param, NEW v \in Value \cup {NoValue},
         \A k \in 1..Len(lines) : lines[k] # Heading(g), Silent(lines, g, p),
         NEW new \in Seq(FileLine),
         new = Splice(lines, Len(lines) + 1, <<Heading(g), Pair(p, v), Blank>>)
  PROVE  Changes(lines, new, g, p, v)
<1> SUFFICES ASSUME NEW q \in Group, NEW w \in Param
             PROVE  Meaning(new, q, w) = IF q = g /\ w = p THEN {v} ELSE Meaning(lines, q, w)
  BY DEF Changes
<1> DEFINE L == Len(lines)
           m == <<Heading(g), Pair(p, v), Blank>>
<1>1. L \in Nat /\ L + 1 \in 1..(L + 1)
  OBVIOUS
<1>2. m \in Seq(FileLine) /\ Len(m) = 3 /\ m[1] = Heading(g) /\ m[2] = Pair(p, v) /\ m[3] = Blank
  <2>1. Heading(g) \in FileLine /\ Pair(p, v) \in FileLine /\ Blank \in FileLine
    BY NewLines
  <2> QED
    BY <2>1
<1> HIDE DEF m
<1>3. /\ Len(new) = L + 3
      /\ \A k \in 1..L : new[k] = lines[k]
      /\ new[L + 1] = Heading(g) /\ new[L + 2] = Pair(p, v) /\ new[L + 3] = Blank
  <2>0. new = Splice(lines, L + 1, m)
    BY DEF m
  <2>1. Spliced(new, lines, L + 1, m)
    BY <1>1, <1>2, <2>0, SpliceFacts
  <2>2. 1 \in 1..3 /\ 2 \in 1..3 /\ 3 \in 1..3 /\ (L + 1) - 1 = L
    BY <1>1
  <2> QED
    BY <1>2, <2>1, <2>2 DEF Spliced
<1> HIDE DEF L
<1>4. /\ new[L + 1].kind = "group" /\ new[L + 3].kind = "blank"
      /\ new[L + 2].kind = "pair" /\ new[L + 2].param = p /\ new[L + 2].value = v
  BY <1>3, NewLines
<1>5. Alike(lines, new, L) /\ Alike(new, lines, L)
  BY <1>3 DEF Alike
<1>6. ASSUME NEW x \in Group, NEW y, NEW i \in 1..L
      PROVE  IsHolder(lines, x, y, i) <=> IsHolder(new, x, y, i)
  BY <1>1, <1>5, AlikeHolder
<1>7. ASSUME NEW j \in 1..Len(new) PROVE j \in 1..L \/ j = L + 1 \/ j = L + 2 \/ j = L + 3
  BY <1>1, <1>3
<1>8. CASE q = g /\ w = p
  <2>1. First(new, g, L + 1)
    <3>1. (L + 1) - 1 = L
      BY <1>1
    <3> QED
      BY <1>3, <3>1 DEF First, L
  <2>2. L + 1 \in 1..((L + 2) - 1) /\ L + 2 \in 1..Len(new) /\ \A k \in ((L + 1) + 1)..(L + 2) : k = L + 2
    BY <1>1, <1>3
  <2>3. IsHolder(new, g, p, L + 2)
    BY <1>4, <2>1, <2>2 DEF IsHolder
  <2>4. ASSUME NEW j \in 1..((L + 2) - 1) PROVE ~IsHolder(new, g, p, j)
    <3>1. j \in 1..L \/ j = L + 1
      BY <1>1
    <3>2. ASSUME j = L + 1 PROVE ~IsHolder(new, g, p, j)
      BY <1>4, <3>2 DEF IsHolder
    <3>3. ASSUME j \in 1..L PROVE ~IsHolder(new, g, p, j)
      BY <1>6, <3>3 DEF Silent, L
    <3> QED
      BY <3>1, <3>2, <3>3
  <2>5. Says(new, g, p, L + 2)
    BY <2>2, <2>3, <2>4 DEF Says
  <2>6. Meaning(new, g, p) = {new[L + 2].value}
    BY <2>5, MeaningFacts
  <2> QED
    BY <1>4, <1>8, <2>6
<1>9. CASE ~(q = g /\ w = p)
  <2> DEFINE s == [k \in 1..L |-> k]
  <2>1. Places(lines, new, s)
    BY <1>1, <1>3 DEF Places, L
  <2>2. ASSUME IsHolder(new, q, w, L + 2) PROVE FALSE
    <3>1. w = p
      BY <1>4, <2>2 DEF IsHolder
    <3>2. PICK h \in 1..((L + 2) - 1) :
            First(new, q, h) /\ \A k \in (h + 1)..(L + 2) : new[k].kind # "group"
      BY <2>2 DEF IsHolder
    <3>3. ~(L + 1 \in (h + 1)..(L + 2))
      BY <1>4, <3>2
    <3>4. h = L + 1
      BY <1>1, <3>3
    <3>5. Heading(q) = Heading(g)
      BY <1>3, <3>2, <3>4 DEF First
    <3> QED
      BY <1>9, <3>1, <3>5, NewLines
  <2>3. ASSUME NEW i \in 1..L, IsHolder(lines, q, w, i)
        PROVE  IsHolder(new, q, w, s[i]) /\ new[s[i]].value = lines[i].value
    BY <1>3, <1>6, <2>3
  <2>4. ASSUME NEW j \in 1..Len(new), IsHolder(new, q, w, j)
        PROVE  \E i \in 1..L : j = s[i] /\ IsHolder(lines, q, w, i)
    <3>1. j # L + 1 /\ j # L + 2 /\ j # L + 3
      BY <1>4, <2>2, <2>4 DEF IsHolder
    <3>2. j \in 1..L
      BY <1>7, <3>1
    <3> QED
      BY <1>6, <2>4, <3>2
  <2> HIDE DEF s
  <2>5. Kept(lines, new, q, w, s)
    BY <2>3, <2>4 DEF Kept, L
  <2>6. Meaning(new, q, w) = Meaning(lines, q, w)
    BY <2>1, <2>5, SameMeaning
  <2> QED
    BY <1>9, <2>6
<1> QED
  BY <1>8, <1>9


\* set() gives the parameter its value and leaves what the file says of others.
LEMMA SetParamMeans ==
  ASSUME NEW lines \in Seq(FileLine), NEW g \in Group, NEW p \in Param, NEW v \in Value \cup {NoValue},
         Find(lines, g, p).at # "bad"
  PROVE  /\ SetParam(lines, g, p, v) \in Seq(FileLine)
         /\ Changes(lines, SetParam(lines, g, p, v), g, p, v)
<1> DEFINE r == Find(lines, g, p)
           new == SetParam(lines, g, p, v)
           one == <<Pair(p, v), Blank>>
           two == <<Heading(g), Pair(p, v), Blank>>
<1>1. Heading(g) \in FileLine /\ Pair(p, v) \in FileLine /\ Blank \in FileLine /\ Len(lines) \in Nat
  BY NewLines
<1>2. one \in Seq(FileLine) /\ two \in Seq(FileLine)
  BY <1>1
<1>3. <<>> \o one = one /\ <<Heading(g)>> \o one = two
  BY <1>1, Joined
<1>4. CASE r.at = "hit"
  <2>1. new = Patch(lines, r.line, Pair(p, v))
    BY <1>4 DEF SetParam, Patch
  <2>2. Says(lines, g, p, r.line)
    BY <1>4, FindMeans
  <2> HIDE DEF r, new
  <2>3. new \in Seq(FileLine) /\ Changes(lines, new, g, p, v)
    BY <2>1, <2>2, Replaced
  <2> QED
    BY <2>3 DEF new
<1>5. CASE r.at = "outside"
  <2>1. r.line = Len(lines) + 1 /\ (\A k \in 1..Len(lines) : lines[k] # Heading(g))
    BY <1>5, FindOutside
  <2>2. Silent(lines, g, p)
    BY <1>5, FindMeans
  <2>3. new = Splice(lines, r.line, <<Heading(g)>> \o one)
    BY <1>5 DEF SetParam, Splice
  <2> HIDE DEF new, r, one, two
  <2>4. Len(lines) + 1 \in 1..(Len(lines) + 1)
    BY <1>1
  <2>5. new = Splice(lines, Len(lines) + 1, two)
    BY <1>3, <2>1, <2>3
  <2>6. new \in Seq(FileLine)
    BY <1>2, <2>4, <2>5, SpliceFacts
  <2>7. Changes(lines, new, g, p, v)
    BY <2>1, <2>2, <2>5, <2>6, AddedSection DEF two
  <2> QED
    BY <2>6, <2>7 DEF new
<1>6. CASE r.at \notin {"hit", "outside"}
  <2>1. PICK h \in 1..Len(lines) : Stops(r, lines, g, p, h)
    BY <1>6, FindStops
  <2>2. Silent(lines, g, p)
    BY <1>6, FindMeans
  <2>3. new = Splice(lines, r.line, <<>> \o one)
    BY <1>6 DEF SetParam, Splice
  <2> HIDE DEF new, r, one
  <2>4. r.line \in 1..(Len(lines) + 1) /\ new = Splice(lines, r.line, one)
    BY <1>1, <1>3, <2>1, <2>3 DEF Stops
  <2>5. new \in Seq(FileLine)
    BY <1>2, <2>4, SpliceFacts
  <2>6. Changes(lines, new, g, p, v)
    BY <2>1, <2>2, <2>4, <2>5, Added DEF one
  <2> QED
    BY <2>5, <2>6 DEF new
<1> QED
  BY <1>4, <1>5, <1>6

-----------------------------------------------------------------------------
\* A tool at work has a command.
AtWork == \A t \in Tool : step[t] # "idle" => cmd[t] \in Commands

LEMMA CommandFacts ==
  ASSUME NEW c \in Commands
  PROVE  /\ c.op \in {"default", "ensure"} /\ c.key \in Key /\ c.value \in Value \cup {NoValue}
         /\ c.key[1] \in Group /\ c.key[2] \in Param /\ c.key = <<c.key[1], c.key[2]>>
<1>1. c.op \in {"default", "ensure"} /\ c.key \in Group \X Param /\ c.value \in Value \cup {NoValue}
  BY DEF Commands, Key
<1> QED
  BY <1>1 DEF Key

\* A part of a file written over another is a file.
LEMMA WrittenType ==
  ASSUME TypeOK, NEW t \in Tool, NEW k \in 0..Len(mem[t])
  PROVE  Written(t, k) \in Seq(FileLine)
<1>1. /\ mem[t] \in Seq(FileLine) /\ disk \in Seq(FileLine)
      /\ Len(mem[t]) \in Nat /\ Len(disk) \in Nat /\ k \in Nat
  BY DEF TypeOK
<1>2. SubSeq(mem[t], 1, k) \in Seq(FileLine) /\ SubSeq(disk, k + 1, Len(disk)) \in Seq(FileLine)
  BY <1>1
<1> QED
  BY <1>2, ConcatProperties DEF Written

\* What the handlers change, by type.
LEMMA TypeStep ==
  ASSUME TypeOK, AtWork, [Next]_vars
  PROVE  TypeOK' /\ AtWork'
<1>1. /\ disk \in Seq(FileLine) /\ mem \in [Tool -> Seq(FileLine)]
      /\ cmd \in [Tool -> Commands \cup {NoCommand}]
      /\ step \in [Tool -> {"idle", "edit", "open", "write"}]
      /\ ensured \in [Key -> Value \cup {NoValue}] /\ crashes \in 0..MaxCrash
  BY DEF TypeOK
<1>2. CASE UNCHANGED vars
  BY <1>2 DEF vars, TypeOK, AtWork
<1>3. ASSUME NEW t \in Tool, NEW c \in Commands, Load(t, c) PROVE TypeOK' /\ AtWork'
  <2>1. /\ mem' = [mem EXCEPT ![t] = disk] /\ cmd' = [cmd EXCEPT ![t] = c]
        /\ step' = [step EXCEPT ![t] = "edit"] /\ UNCHANGED <<disk, ensured, crashes>>
    BY <1>3 DEF Load
  <2>2. TypeOK'
    BY <1>1, <2>1 DEF TypeOK
  <2>3. AtWork'
    BY <1>1, <2>1 DEF AtWork
  <2> QED
    BY <2>2, <2>3
<1>4. ASSUME NEW t \in Tool, Done(t)
      PROVE  /\ cmd' \in [Tool -> Commands \cup {NoCommand}]
             /\ step' \in [Tool -> {"idle", "edit", "open", "write"}]
             /\ AtWork'
  BY <1>1, <1>4 DEF Done, AtWork
<1>5. ASSUME NEW t \in Tool, NEW s \in {"open", "write"}, step[t] # "idle", Goto(t, s)
      PROVE  /\ cmd' \in [Tool -> Commands \cup {NoCommand}]
             /\ step' \in [Tool -> {"idle", "edit", "open", "write"}]
             /\ AtWork'
  BY <1>1, <1>5 DEF Goto, AtWork
<1>6. ASSUME NEW t \in Tool, EditFails(t) \/ KeepValue(t) \/ SaveDry(t) PROVE TypeOK' /\ AtWork'
  <2>1. Done(t) /\ UNCHANGED <<disk, mem, ensured, crashes>>
    BY <1>6 DEF EditFails, KeepValue, SaveDry
  <2> QED
    BY <1>1, <1>4, <2>1 DEF TypeOK
<1>7. ASSUME NEW t \in Tool, Edit(t) PROVE TypeOK' /\ AtWork'
  <2> DEFINE g == cmd[t].key[1]
             p == cmd[t].key[2]
             new == SetParam(mem[t], g, p, cmd[t].value)
  <2>1. /\ step[t] = "edit" /\ Find(mem[t], g, p).at # "bad"
        /\ mem' = [mem EXCEPT ![t] = new] /\ Goto(t, "open") /\ UNCHANGED <<disk, ensured, crashes>>
    BY <1>7 DEF Edit, Found
  <2>2. cmd[t] \in Commands /\ mem[t] \in Seq(FileLine)
    BY <1>1, <2>1 DEF AtWork
  <2>3. new \in Seq(FileLine)
    BY <2>1, <2>2, CommandFacts, SetParamMeans
  <2> HIDE DEF new
  <2> QED
    BY <1>1, <1>5, <2>1, <2>3 DEF TypeOK
<1>8. ASSUME NEW t \in Tool, OpenForSave(t) PROVE TypeOK' /\ AtWork'
  <2>1. step[t] # "idle" /\ disk' = <<>> /\ Goto(t, "write") /\ UNCHANGED <<mem, ensured, crashes>>
    BY <1>8 DEF OpenForSave
  <2>2. <<>> \in Seq(FileLine)
    OBVIOUS
  <2> QED
    BY <1>1, <1>5, <2>1, <2>2 DEF TypeOK
<1>9. ASSUME NEW t \in Tool, WriteLines(t) PROVE TypeOK' /\ AtWork'
  <2>1. /\ step[t] # "idle" /\ disk' = Written(t, Len(mem[t])) /\ Done(t)
        /\ UNCHANGED <<mem, crashes>>
        /\ ensured' = IF cmd[t].op = "ensure" THEN [ensured EXCEPT ![cmd[t].key] = cmd[t].value]
                      ELSE ensured
    BY <1>9 DEF WriteLines
  <2>2. Len(mem[t]) \in 0..Len(mem[t])
    BY <1>1
  <2>3. disk' \in Seq(FileLine)
    BY <2>1, <2>2, WrittenType
  <2>4. cmd[t].key \in Key /\ cmd[t].value \in Value \cup {NoValue}
    BY <2>1, CommandFacts DEF AtWork
  <2>5. ensured' \in [Key -> Value \cup {NoValue}]
    BY <1>1, <2>1, <2>4
  <2> QED
    BY <1>1, <1>4, <2>1, <2>3, <2>5 DEF TypeOK
<1>10. ASSUME NEW t \in Tool, Crash(t) PROVE TypeOK' /\ AtWork'
  <2>1. Done(t) /\ mem' = mem /\ crashes' = crashes + 1 /\ crashes < MaxCrash
    BY <1>10 DEF Crash
  <2>2. crashes' \in 0..MaxCrash
    BY <1>1, <2>1
  <2>3. disk' \in Seq(FileLine)
    <3>1. CASE step[t] = "write"
      <4>1. PICK k \in 0..(Len(mem[t]) - 1) : disk' = Written(t, k)
        BY <1>10, <3>1 DEF Crash
      <4>2. k \in 0..Len(mem[t])
        BY <1>1
      <4> QED
        BY <4>1, <4>2, WrittenType
    <3>2. CASE step[t] # "write"
      BY <1>1, <1>10, <3>2 DEF Crash
    <3> QED
      BY <3>1, <3>2
  <2>4. ensured' \in [Key -> Value \cup {NoValue}]
    BY <1>1, <1>10 DEF Crash
  <2> QED
    BY <1>1, <1>4, <2>1, <2>2, <2>3, <2>4 DEF TypeOK
<1>11. CASE Recreate
  <2>1. /\ disk' = Template /\ ensured' = [k \in Key |-> NoValue]
        /\ UNCHANGED <<mem, cmd, step, crashes>>
    BY <1>11 DEF Recreate
  <2> QED
    BY <1>1, <2>1 DEF TypeOK, AtWork
<1> QED
  BY <1>2, <1>3, <1>6, <1>7, <1>8, <1>9, <1>10, <1>11 DEF Next, ToolStep

LEMMA TypeInvariant == Spec => [](TypeOK /\ AtWork)
<1>1. Init => TypeOK /\ AtWork
  <2> SUFFICES ASSUME Init PROVE TypeOK /\ AtWork
    OBVIOUS
  <2>1. <<>> \in Seq(FileLine) /\ 0 \in 0..MaxCrash
    OBVIOUS
  <2> QED
    BY <2>1 DEF Init, TypeOK, AtWork
<1> QED
  BY <1>1, TypeStep, PTL DEF Spec

\* Every line of the file and of a tool's copy is one that the editor writes
\* or the file started with, whatever tools interleave or are killed.
THEOREM FileTypeCorrect == Spec => []TypeOK
  BY TypeInvariant, PTL

-----------------------------------------------------------------------------
LEMMA EditStep ==
  ASSUME TypeOK, AtWork, NEW t \in Tool
  PROVE  EditIsRight(t)
<1> DEFINE c == cmd[t]
           g == cmd[t].key[1]
           p == cmd[t].key[2]
           r == Find(mem[t], g, p)
<1>1. mem \in [Tool -> Seq(FileLine)] /\ mem[t] \in Seq(FileLine)
  BY DEF TypeOK
<1>2. HasValue(t) <=> r.at = "hit" /\ mem[t][r.line].value # NoValue
  BY DEF HasValue, Found
<1>3. ASSUME step[t] = "edit"
      PROVE  /\ g \in Group /\ p \in Param /\ c.value \in Value \cup {NoValue} /\ c.key = <<g, p>>
             /\ r.at = "hit" => Meaning(mem[t], g, p) = {mem[t][r.line].value}
             /\ r.at \notin {"hit", "bad"} => Meaning(mem[t], g, p) = {}
  <2>1. c \in Commands
    BY <1>3 DEF AtWork
  <2>2. g \in Group /\ p \in Param /\ c.value \in Value \cup {NoValue} /\ c.key = <<g, p>>
    BY <2>1, CommandFacts
  <2> HIDE DEF c, g, p
  <2>3. r.at = "hit" => Says(mem[t], g, p, r.line)
    BY <1>1, <2>2, FindMeans
  <2>4. r.at \notin {"hit", "bad"} => Silent(mem[t], g, p)
    BY <1>1, <2>2, FindMeans
  <2> HIDE DEF r
  <2> QED
    BY <1>1, <2>2, <2>3, <2>4, MeaningFacts
<1>4. ASSUME Edit(t)
      PROVE  /\ c.op = "default" => Meaning(mem[t], g, p) \subseteq {NoValue}
             /\ Changes(mem[t], mem'[t], g, p, c.value) /\ c.key = <<g, p>>
  <2>1. /\ step[t] = "edit" /\ r.at # "bad" /\ (c.op = "default" => ~HasValue(t))
        /\ mem' = [mem EXCEPT ![t] = SetParam(mem[t], g, p, c.value)]
    BY <1>4 DEF Edit, Found
  <2>2. mem'[t] = SetParam(mem[t], g, p, c.value)
    BY <1>1, <2>1
  <2>3. c.key = <<g, p>> /\ g \in Group /\ p \in Param /\ c.value \in Value \cup {NoValue}
    BY <1>3, <2>1
  <2>4. r.at = "hit" => Meaning(mem[t], g, p) = {mem[t][r.line].value}
    BY <1>3, <2>1
  <2>5. r.at # "hit" => Meaning(mem[t], g, p) = {}
    BY <1>3, <2>1
  <2> HIDE DEF c, g, p
  <2>6. Changes(mem[t], mem'[t], g, p, c.value)
    BY <1>1, <2>1, <2>2, <2>3, SetParamMeans
  <2> HIDE DEF r
  <2> QED
    BY <1>2, <2>1, <2>3, <2>4, <2>5, <2>6
<1>5. ASSUME KeepValue(t) PROVE Meaning(mem[t], g, p) # {} /\ NoValue \notin Meaning(mem[t], g, p)
  <2>1. step[t] = "edit" /\ HasValue(t)
    BY <1>5 DEF KeepValue
  <2> QED
    BY <1>2, <1>3, <2>1
<1>6. ASSUME Edit(t), NEW q \in Group, NEW w \in Param
      PROVE  Meaning(mem'[t], q, w) = IF <<q, w>> = cmd[t].key THEN {cmd[t].value}
                                      ELSE Meaning(mem[t], q, w)
  <2>1. /\ Meaning(mem'[t], q, w) = IF q = g /\ w = p THEN {c.value} ELSE Meaning(mem[t], q, w)
        /\ c.key = <<g, p>>
    BY <1>4, <1>6 DEF Changes
  <2>2. <<q, w>> = <<g, p>> <=> q = g /\ w = p
    OBVIOUS
  <2> QED
    BY <2>1, <2>2
<1> QED
  BY <1>4, <1>5, <1>6 DEF EditIsRight

\* An edit changes what the file says of one parameter.
THEOREM EditsChangeOne == Spec => EditChangesOne
<1>1. TypeOK /\ AtWork => [\A t \in Tool : EditIsRight(t)]_vars
  BY EditStep
<1> QED
  BY <1>1, TypeInvariant, PTL DEF EditChangesOne

-----------------------------------------------------------------------------
\* What a tool that works alone knows: it has loaded the file as it is, and its
\* changed copy says what was ensured of the other parameters.
Copies(t) ==
  LET k == cmd[t].key
  IN /\ \A i \in Key : i # k /\ ensured[i] # NoValue => Meaning(mem[t], i[1], i[2]) = {ensured[i]}
     /\ Meaning(mem[t], k[1], k[2]) = {cmd[t].value}
     /\ cmd[t].op = "default" => ensured[k] = NoValue

Orderly ==
  /\ EnsuredStands
  /\ \A t \in Tool : /\ step[t] = "edit" => mem[t] = disk
                     /\ step[t] \in {"open", "write"} => Copies(t)
                     /\ step[t] = "write" => disk = <<>>
OrderInv == Cardinality(Tool) = 1 => Orderly

\* Keys and their parts.
LEMMA KeyFacts ==
  ASSUME NEW k \in Key
  PROVE  k[1] \in Group /\ k[2] \in Param /\ k = <<k[1], k[2]>>
  BY DEF Key

\* All lines written to an empty file.
LEMMA WrittenAll ==
  ASSUME TypeOK, NEW t \in Tool, disk = <<>>
  PROVE  Written(t, Len(mem[t])) = mem[t]
<1> DEFINE m == mem[t]
<1>1. m \in Seq(FileLine) /\ Len(m) \in Nat
  BY DEF TypeOK
<1> HIDE DEF m
<1>2. SubSeq(m, 1, Len(m)) = m
  BY <1>1
<1>3. SubSeq(<<>>, Len(m) + 1, Len(<<>>)) = <<>>
  BY <1>1
<1>4. m \o <<>> = m
  BY <1>1, ConcatEmptySeq
<1> QED
  BY <1>2, <1>3, <1>4 DEF Written, m

LEMMA OrderlyEdit ==
  ASSUME TypeOK, AtWork, Orderly, NEW u, Tool = {u}, Edit(u)
  PROVE  Orderly'
<1>1. u \in Tool
  OBVIOUS
<1>2. /\ step[u] = "edit" /\ step' = [step EXCEPT ![u] = "open"]
      /\ UNCHANGED <<cmd, disk, ensured>>
  BY DEF Edit, Goto
<1>3. step'[u] = "open"
  BY <1>1, <1>2 DEF TypeOK
<1>4. EnsuredStands'
  <2>1. \A t \in Tool : step[t] # "write"
    BY <1>2
  <2> QED
    BY <1>2, <2>1 DEF Orderly, EnsuredStands
<1> DEFINE k == cmd[u].key
<1>5. k \in Key /\ k[1] \in Group /\ k[2] \in Param /\ mem[u] = disk
  BY <1>1, <1>2, CommandFacts DEF AtWork, Orderly
<1>6. /\ cmd[u].op = "default" => Meaning(disk, k[1], k[2]) \subseteq {NoValue}
      /\ \A g \in Group, p \in Param :
           Meaning(mem'[u], g, p) = IF <<g, p>> = k THEN {cmd[u].value} ELSE Meaning(disk, g, p)
  BY <1>1, <1>5, EditStep DEF EditIsRight
<1> HIDE DEF k
<1>7. ASSUME NEW i \in Key, ensured[i] # NoValue PROVE Meaning(disk, i[1], i[2]) = {ensured[i]}
  <2>1. \A t \in Tool : step[t] # "write"
    BY <1>2
  <2> QED
    BY <1>7, <2>1 DEF Orderly, EnsuredStands
<1>8. ASSUME NEW i \in Key, i # k, ensured[i] # NoValue
      PROVE  Meaning(mem'[u], i[1], i[2]) = {ensured[i]}
  <2>1. i[1] \in Group /\ i[2] \in Param /\ <<i[1], i[2]>> # k
    BY <1>8, KeyFacts
  <2> QED
    BY <1>6, <1>7, <1>8, <2>1
<1>9. Meaning(mem'[u], k[1], k[2]) = {cmd[u].value}
  <2>1. <<k[1], k[2]>> = k
    BY <1>5, KeyFacts
  <2> QED
    BY <1>5, <1>6, <2>1
<1>10. cmd[u].op = "default" => ensured[k] = NoValue
  BY <1>5, <1>6, <1>7
<1>11. Copies(u)'
  BY <1>2, <1>8, <1>9, <1>10 DEF Copies, k
<1> QED
  BY <1>3, <1>4, <1>11 DEF Orderly

LEMMA OrderlyWrite ==
  ASSUME TypeOK, AtWork, Orderly, NEW u, Tool = {u}, WriteLines(u)
  PROVE  Orderly'
<1>1. u \in Tool
  OBVIOUS
<1>2. /\ step[u] = "write" /\ step' = [step EXCEPT ![u] = "idle"]
      /\ disk' = Written(u, Len(mem[u]))
      /\ ensured' = IF cmd[u].op = "ensure" THEN [ensured EXCEPT ![cmd[u].key] = cmd[u].value]
                    ELSE ensured
  BY DEF WriteLines, Done
<1>3. step'[u] = "idle"
  BY <1>1, <1>2 DEF TypeOK
<1>4. disk = <<>> /\ Copies(u)
  BY <1>1, <1>2 DEF Orderly
<1>5. disk' = mem[u]
  BY <1>1, <1>2, <1>4, WrittenAll
<1> DEFINE k == cmd[u].key
<1>6. k \in Key /\ cmd[u].op \in {"default", "ensure"} /\ ensured \in [Key -> Value \cup {NoValue}]
  BY <1>1, <1>2, CommandFacts DEF AtWork, TypeOK
<1>7. /\ \A i \in Key : i # k /\ ensured[i] # NoValue => Meaning(mem[u], i[1], i[2]) = {ensured[i]}
      /\ Meaning(mem[u], k[1], k[2]) = {cmd[u].value}
      /\ cmd[u].op = "default" => ensured[k] = NoValue
  BY <1>4 DEF Copies
<1>8. ASSUME NEW i \in Key, ensured'[i] # NoValue PROVE Meaning(disk', i[1], i[2]) = {ensured'[i]}
  <2>1. CASE i = k /\ cmd[u].op = "ensure"
    <3>1. ensured'[i] = cmd[u].value
      BY <1>2, <1>6, <2>1
    <3> QED
      BY <1>5, <1>7, <2>1, <3>1
  <2>2. CASE i # k
    <3>1. ensured'[i] = ensured[i]
      BY <1>2, <1>6, <2>2
    <3> QED
      BY <1>5, <1>7, <1>8, <2>2, <3>1
  <2>3. CASE i = k /\ cmd[u].op = "default"
    <3>1. ensured'[i] = ensured[i]
      BY <1>2, <2>3
    <3> QED
      BY <1>7, <1>8, <2>3, <3>1
  <2> QED
    BY <1>6, <2>1, <2>2, <2>3
<1>9. EnsuredStands'
  BY <1>8 DEF EnsuredStands
<1> QED
  BY <1>3, <1>9 DEF Orderly

LEMMA OrderStep ==
  ASSUME TypeOK, AtWork, OrderInv, [Next]_vars
  PROVE  OrderInv'
<1> SUFFICES ASSUME Cardinality(Tool) = 1 PROVE Orderly'
  BY DEF OrderInv
<1>1. PICK u : Tool = {u}
  BY FS_Singleton
<1>2. Orderly /\ u \in Tool /\ step \in [Tool -> {"idle", "edit", "open", "write"}]
      /\ mem \in [Tool -> Seq(FileLine)]
  BY <1>1 DEF OrderInv, TypeOK
<1>3. CASE UNCHANGED vars
  BY <1>2, <1>3 DEF vars, Orderly, EnsuredStands, Copies
<1>4. ASSUME NEW c \in Commands, Load(u, c) PROVE Orderly'
  <2>1. /\ step[u] = "idle" /\ mem'[u] = disk /\ step'[u] = "edit" /\ UNCHANGED <<disk, ensured>>
    BY <1>2, <1>4 DEF Load
  <2>2. EnsuredStands'
    BY <1>1, <1>2, <2>1 DEF Orderly, EnsuredStands
  <2> QED
    BY <1>1, <2>1, <2>2 DEF Orderly
<1>5. CASE EditFails(u) \/ KeepValue(u) \/ SaveDry(u) \/ (Crash(u) /\ step[u] # "write")
  <2>1. step[u] # "write" /\ step'[u] = "idle" /\ UNCHANGED <<disk, ensured>>
    BY <1>2, <1>5 DEF EditFails, KeepValue, SaveDry, Crash, Done
  <2>2. EnsuredStands'
    BY <1>1, <1>2, <2>1 DEF Orderly, EnsuredStands
  <2> QED
    BY <1>1, <2>1, <2>2 DEF Orderly
<1>6. CASE Crash(u) /\ step[u] = "write"
  <2>1. step'[u] = "idle" /\ \A k \in Key : ensured'[k] = NoValue
    BY <1>2, <1>6 DEF Crash, Done
  <2> QED
    BY <1>1, <2>1 DEF Orderly, EnsuredStands
<1>7. CASE OpenForSave(u)
  <2>1. step[u] = "open" /\ step'[u] = "write" /\ disk' = <<>> /\ UNCHANGED <<cmd, mem, ensured>>
    BY <1>2, <1>7 DEF OpenForSave, Goto
  <2>2. Copies(u)'
    BY <1>2, <2>1 DEF Orderly, Copies
  <2> QED
    BY <1>1, <2>1, <2>2 DEF Orderly, EnsuredStands
<1>8. CASE Recreate
  <2>1. step[u] = "idle" /\ step' = step /\ \A k \in Key : ensured'[k] = NoValue
    BY <1>2, <1>8 DEF Recreate
  <2> QED
    BY <1>1, <2>1 DEF Orderly, EnsuredStands
<1>9. CASE Edit(u)
  BY <1>1, <1>2, <1>9, OrderlyEdit
<1>10. CASE WriteLines(u)
  BY <1>1, <1>2, <1>10, OrderlyWrite
<1>11. Next => Recreate \/ (\E c \in Commands : Load(u, c)) \/ ToolStep(u) \/ Crash(u)
  BY <1>1 DEF Next
<1> QED
  BY <1>3, <1>4, <1>5, <1>6, <1>7, <1>8, <1>9, <1>10, <1>11 DEF ToolStep

\* While one tool at a time works on the file, a value that was ensured stays.
THEOREM EnsuredValuesStand == Spec => []OrderlyEnsuredStands
<1>1. Init => OrderInv
  <2> SUFFICES ASSUME Init PROVE Orderly
    BY DEF OrderInv
  <2>1. \A k \in Key : ensured[k] = NoValue
    BY DEF Init
  <2>2. \A t \in Tool : step[t] = "idle"
    BY DEF Init
  <2> QED
    BY <2>1, <2>2 DEF Orderly, EnsuredStands
<1>2. OrderInv => OrderlyEnsuredStands
  BY DEF OrderInv, Orderly, OrderlyEnsuredStands
<1> QED
  BY <1>1, <1>2, OrderStep, TypeInvariant, PTL DEF Spec

=============================================================================
