--------------------------- MODULE NodeMainProofs ---------------------------
(***************************************************************************)
(* Proofs about main(), for every set of codes the event loop may return   *)
(* and any number of logged failures.                                      *)
(***************************************************************************)
EXTENDS NodeMain, TLAPS, SequenceTheorems

USE SMTT(20), ZenonT(20)

(***************************************************************************)
(* The table of stages, read by index.                                     *)
(***************************************************************************)
Elems(s) == {s[i] : i \in DOMAIN s}

Entries ==
  UNION {Elems(EarlyStages), Elems(CoreStages), Elems(ChainStages), Elems(ServiceStages),
         Elems(LateStages)}

\* Each part of the table is a sequence of stages.
LEMMA Segments ==
  /\ EarlyStages \in Seq(Entries) /\ Len(EarlyStages) = 6
  /\ CoreStages \in Seq(Entries) /\ Len(CoreStages) = 14
  /\ ChainStages \in Seq(Entries) /\ Len(ChainStages) = 10
  /\ ServiceStages \in Seq(Entries) /\ Len(ServiceStages) = 11
  /\ LateStages \in Seq(Entries) /\ Len(LateStages) = 14
<1>1. EarlyStages \in Seq(Elems(EarlyStages)) /\ Len(EarlyStages) = 6
  BY DEF EarlyStages, Elems
<1>2. CoreStages \in Seq(Elems(CoreStages)) /\ Len(CoreStages) = 14
  BY DEF CoreStages, Elems
<1>3. ChainStages \in Seq(Elems(ChainStages)) /\ Len(ChainStages) = 10
  BY DEF ChainStages, Elems
<1>4. ServiceStages \in Seq(Elems(ServiceStages)) /\ Len(ServiceStages) = 11
  BY DEF ServiceStages, Elems
<1>5. LateStages \in Seq(Elems(LateStages)) /\ Len(LateStages) = 14
  BY DEF LateStages, Elems
<1>6. \A A : \A s \in Seq(A) : A \subseteq Entries => s \in Seq(Entries)
  OBVIOUS
<1>7. /\ Elems(EarlyStages) \subseteq Entries /\ Elems(CoreStages) \subseteq Entries
      /\ Elems(ChainStages) \subseteq Entries /\ Elems(ServiceStages) \subseteq Entries
      /\ Elems(LateStages) \subseteq Entries
  BY DEF Entries
<1> QED
  BY <1>1, <1>2, <1>3, <1>4, <1>5, <1>6, <1>7

\* z is x followed by y.
IsJoin(z, x, y) ==
  /\ Len(z) = Len(x) + Len(y)
  /\ \A i \in 1..Len(x) : z[i] = x[i]
  /\ \A i \in (Len(x) + 1)..(Len(x) + Len(y)) : z[i] = y[i - Len(x)]

\* Reading a concatenation by index.
LEMMA Joined ==
  ASSUME NEW A, NEW x \in Seq(A), NEW y \in Seq(A)
  PROVE  x \o y \in Seq(A) /\ IsJoin(x \o y, x, y)
<1>1. /\ x \o y \in Seq(A)
      /\ Len(x \o y) = Len(x) + Len(y)
      /\ \A i \in 1..(Len(x) + Len(y)) :
           (x \o y)[i] = IF i <= Len(x) THEN x[i] ELSE y[i - Len(x)]
  BY ConcatProperties
<1> QED
  BY <1>1 DEF IsJoin

\* Where each part of the table is in Stages.
LEMMA Table ==
  /\ Len(Stages) = 55 /\ DOMAIN Stages = 1..55
  /\ \A i \in 1..6 : Stages[i] = EarlyStages[i]
  /\ \A i \in 7..20 : Stages[i] = CoreStages[i - 6]
  /\ \A i \in 21..30 : Stages[i] = ChainStages[i - 20]
  /\ \A i \in 31..41 : Stages[i] = ServiceStages[i - 30]
  /\ \A i \in 42..55 : Stages[i] = LateStages[i - 41]
<1> DEFINE two == EarlyStages \o CoreStages
           three == two \o ChainStages
           four == three \o ServiceStages
<1>1. two \in Seq(Entries) /\ IsJoin(two, EarlyStages, CoreStages)
  BY Segments, Joined
<1> HIDE DEF two
<1>2. three \in Seq(Entries) /\ IsJoin(three, two, ChainStages)
  BY <1>1, Segments, Joined
<1> HIDE DEF three
<1>3. four \in Seq(Entries) /\ IsJoin(four, three, ServiceStages)
  BY <1>2, Segments, Joined
<1> HIDE DEF four
<1>4. four \o LateStages \in Seq(Entries) /\ IsJoin(four \o LateStages, four, LateStages)
  BY <1>3, Segments, Joined
<1>5. Stages = four \o LateStages
  BY DEF Stages, four, three, two
<1>6. Stages \in Seq(Entries) /\ IsJoin(Stages, four, LateStages)
  BY <1>4, <1>5
<1> HIDE <1>5
<1>7. Len(two) = 20 /\ Len(three) = 30 /\ Len(four) = 41 /\ Len(Stages) = 55
  BY <1>1, <1>2, <1>3, <1>6, Segments DEF IsJoin
<1>8. \A i \in 1..41 : Stages[i] = four[i]
  BY <1>6, <1>7, Segments DEF IsJoin
<1>9. \A i \in 1..30 : four[i] = three[i]
  BY <1>3, <1>7, Segments DEF IsJoin
<1>10. \A i \in 1..20 : three[i] = two[i]
  BY <1>2, <1>7, Segments DEF IsJoin
<1> QED
  BY <1>1, <1>2, <1>3, <1>6, <1>7, <1>8, <1>9, <1>10, Segments DEF IsJoin

(***************************************************************************)
(* What the proofs need to know of a stage: no code of a fatal failure is  *)
(* a multiple of 256; which stages bring up the modules that a condition   *)
(* or an order is about, and which stages have such a condition.           *)
(***************************************************************************)
StageAt(s, i) ==
  /\ s.code \in Int
  /\ s.code # 0 => s.code % 256 # 0
  /\ s.mod = "server" => s.need = "server"
  /\ s.mod = "global_db" => i = 18
  /\ s.mod = "chain_net" => i = 27
  /\ s.mod = "plugins" => i = 41 /\ s.need = "plugins"
  /\ s.mod = "listener" => i = 48
  /\ s.mod = "plugins_run" => i = 54
  /\ s.need \in {"listener", "dns"} => i > 48
  /\ s.need = "plugins_up" => i = 54

LEMMA StageFacts == \A i \in DOMAIN Stages : StageAt(Stages[i], i)
<1> USE DEF Fatal, Logged, Stage, StageAt
<1>1. \A i \in 1..6 : StageAt(EarlyStages[i], i)
  BY DEF EarlyStages
<1>2. \A i \in 1..14 : StageAt(CoreStages[i], i + 6)
  BY DEF CoreStages
<1>3. \A i \in 1..10 : StageAt(ChainStages[i], i + 20)
  BY DEF ChainStages
<1>4. \A i \in 1..11 : StageAt(ServiceStages[i], i + 30)
  BY DEF ServiceStages
<1>5. \A i \in 1..14 : StageAt(LateStages[i], i + 41)
  BY DEF LateStages
<1> HIDE DEF StageAt
<1> QED
  BY <1>1, <1>2, <1>3, <1>4, <1>5, Table

(***************************************************************************)
(* The stages of the modules that the deinit sequence relies on.           *)
(***************************************************************************)
LEMMA StagesOf ==
  /\ Stages[3] = Fatal("common", -3) /\ Stages[5] = Fatal("config", -5)
  /\ Stages[6] = Fatal("pid_check", 2)
  /\ Stages[9] = Stage("server", -4, "server") /\ Stages[10] = Fatal("http", -5)
  /\ Stages[11] = Fatal("http_folder", -55) /\ Stages[14] = Fatal("stream", -82)
  /\ Stages[15] = Fatal("stream_ctl", -83) /\ Stages[18] = Fatal("global_db", -58)
  /\ Stages[20] = Fatal("chain", -60) /\ Stages[27] = Fatal("chain_net", -65)
  /\ Stages[54] = Stage("plugins_run", 0, "plugins_up")
<1>1. Stages[3] = EarlyStages[3] /\ Stages[5] = EarlyStages[5] /\ Stages[6] = EarlyStages[6]
  BY Table
<1>2. /\ Stages[9] = CoreStages[3] /\ Stages[10] = CoreStages[4] /\ Stages[11] = CoreStages[5]
      /\ Stages[14] = CoreStages[8] /\ Stages[15] = CoreStages[9]
      /\ Stages[18] = CoreStages[12] /\ Stages[20] = CoreStages[14]
  BY Table
<1>3. Stages[27] = ChainStages[7] /\ Stages[54] = LateStages[13]
  BY Table
<1> QED
  BY <1>1, <1>2, <1>3 DEF EarlyStages, CoreStages, ChainStages, LateStages

(***************************************************************************)
(* The deinit calls: 21 of them, of 21 modules; only the first two depend  *)
(* on the plugins and only the eighth on the server.                       *)
(***************************************************************************)
DeinitAt(s, j) ==
  /\ s.mod = "plugins_run" <=> j = 1
  /\ s.mod = "plugins" <=> j = 2
  /\ s.mod = "stream" <=> j = 4
  /\ s.mod = "stream_ctl" <=> j = 5
  /\ s.mod = "http_folder" <=> j = 6
  /\ s.mod = "http" <=> j = 7
  /\ s.mod = "server" <=> j = 8
  /\ s.mod = "chain_net" <=> j = 16
  /\ s.mod = "global_db" <=> j = 17
  /\ s.mod = "chain" <=> j = 18
  /\ s.mod = "config" <=> j = 19
  /\ s.mod = "common" <=> j = 21
  /\ s.mod \notin Tolerant <=> j \in {1, 2, 4, 5, 6, 7, 8, 16, 17, 18, 19, 21}
  /\ s.mod # "pid_check"
  /\ s.need = "plugins_up" <=> j \in {1, 2}
  /\ s.need = "server" <=> j = 8
  /\ s.need \in {"always", "plugins_up", "server"}

LEMMA DeinitFacts ==
  /\ Len(DeinitCalls) = 21 /\ DOMAIN DeinitCalls = 1..21
  /\ \A j \in 1..21 : DeinitAt(DeinitCalls[j], j)
<1>1. Len(DeinitCalls) = 21 /\ DOMAIN DeinitCalls = 1..21
  BY DEF DeinitCalls, DeinitCallsOf
<1>2. \A j \in 1..21 : DeinitAt(DeinitCalls[j], j)
  BY DEF DeinitCalls, DeinitCallsOf, DeinitAt, Tolerant, Logged, Stage
<1> QED
  BY <1>1, <1>2

(***************************************************************************)
(* While the node boots or serves: the stages behind it that main insists  *)
(* on left their module up, every module that is up has its stage behind   *)
(* it, and the conditions that main looks at later still say what the      *)
(* boot did.                                                               *)
(***************************************************************************)
BootInv ==
  phase \in {"boot", "loop"} =>
    /\ phase = "loop" => pos = Len(Stages) + 1
    /\ bare = {}
    /\ \A i \in 1..(pos - 1) :
         Stages[i].code # 0 /\ Needed(Stages[i]) => Stages[i].mod \in up
    /\ \A m \in up : \E i \in 1..(pos - 1) : Stages[i].mod = m
    /\ "server" \in up => cfg["server"]
    /\ "plugins" \in up => cfg["plugins"]
    /\ "plugins_run" \in up => "plugins" \in up
    /\ pos > 54 /\ "plugins" \in up => "plugins_run" \in up

(***************************************************************************)
(* While it takes modules down: those behind are down, those ahead that    *)
(* will be taken down without tolerance are up.                            *)
(***************************************************************************)
DeinitInv ==
  phase = "deinit" =>
    /\ pos <= Len(DeinitCalls) + 1
    /\ "pid_check" \in up
    /\ \A j \in 1..(pos - 1) : DeinitCalls[j].mod \notin up
    /\ \A j \in pos..Len(DeinitCalls) :
         DeinitCalls[j].mod \notin Tolerant /\ Needed(DeinitCalls[j]) =>
           DeinitCalls[j].mod \in up
    /\ "server" \in up => cfg["server"]
    /\ pos = 1 /\ "plugins_run" \in up => "plugins" \in up

EndInv ==
  /\ phase # "ended" => why = "none"
  /\ NoBareDeinit /\ LoopLeavesNothing /\ StatusTruthful

MainInv == TypeOK /\ BootInv /\ DeinitInv /\ EndInv

(***************************************************************************)
(* A stage that comes up changes no condition of the stages before it.     *)
(***************************************************************************)
LEMMA NeededStays ==
  ASSUME TypeOK, NEW p \in DOMAIN Stages, NEW i \in 1..(p - 1),
         cfg' = cfg, up' = up \cup {Stages[p].mod}
  PROVE  Needed(Stages[i])' <=> Needed(Stages[i])
<1>1. StageAt(Stages[i], i) /\ StageAt(Stages[p], p)
  BY StageFacts, Table
<1>2. Stages[i].need \in {"listener", "dns"} => Stages[p].mod # "listener"
  BY <1>1, Table DEF StageAt
<1>3. Stages[i].need = "plugins_up" => Stages[p].mod # "plugins"
  BY <1>1, Table DEF StageAt
<1> QED
  BY <1>2, <1>3 DEF Needed

(***************************************************************************)
(* The parent sees a byte.                                                 *)
(***************************************************************************)
LEMMA Byte == \A n \in Int : n % 256 \in 0..255
  OBVIOUS

(***************************************************************************)
(* The state of main() is well typed.                                      *)
(***************************************************************************)
THEOREM MainTypeCorrect == Spec => []TypeOK
<1> USE CodesAssumption
<1>1. Init => TypeOK
  BY Table DEF Init, TypeOK
<1>2. TypeOK /\ [Next]_vars => TypeOK'
  <2> SUFFICES ASSUME TypeOK, [Next]_vars PROVE TypeOK'
    OBVIOUS
  <2> USE DEF TypeOK
  <2>1. CASE VersionOnly
    BY <2>1 DEF VersionOnly, End
  <2>2. CASE StageOk
    <3>1. pos \in DOMAIN Stages /\ pos' \in 1..(Len(Stages) + 1)
      BY <2>2, Table DEF StageOk, Booting
    <3>2. Stages[pos].mod \in Modules
      BY <3>1 DEF Modules
    <3> QED
      BY <2>2, <3>1, <3>2 DEF StageOk
  <2>3. CASE StageSkipped
    BY <2>3, Table DEF StageSkipped, Booting
  <2>4. CASE StageLogged
    BY <2>4, Table DEF StageLogged, Booting
  <2>5. CASE StageFatal
    <3>1. pos \in DOMAIN Stages
      BY <2>5, Table DEF StageFatal, Booting
    <3>2. Stages[pos].code % 256 \in 0..255
      BY <3>1, StageFacts, Byte DEF StageAt
    <3> QED
      BY <2>5, <3>2 DEF StageFatal, End
  <2>6. CASE EnterLoop
    BY <2>6 DEF EnterLoop
  <2>7. CASE LoopEnds
    BY <2>7, Table DEF LoopEnds
  <2>8. CASE DeinitStep
    <3>1. pos \in DOMAIN DeinitCalls /\ pos' \in 1..(Len(Stages) + 1)
      BY <2>8, Table, DeinitFacts DEF DeinitStep
    <3>2. up' \subseteq up /\ bare' \subseteq bare \cup {DeinitCalls[pos].mod}
      BY <2>8 DEF DeinitStep
    <3> QED
      BY <2>8, <3>1, <3>2 DEF DeinitStep
  <2>9. CASE Return
    <3>1. loopRc * 10 \in Int
      OBVIOUS
    <3>2. (loopRc * 10) % 256 \in 0..255
      BY <3>1, Byte
    <3> QED
      BY <2>9, <3>2 DEF Return, End
  <2>10. CASE Signal
    BY <2>10 DEF Signal, End
  <2>11. CASE Respawn
    BY <2>11, Table DEF Respawn
  <2>12. CASE UNCHANGED vars
    BY <2>12 DEF vars
  <2> HIDE DEF TypeOK
  <2> QED
    BY <2>1, <2>2, <2>3, <2>4, <2>5, <2>6, <2>7, <2>8, <2>9, <2>10, <2>11, <2>12 DEF Next
<1> QED
  BY <1>1, <1>2, PTL DEF Spec

(***************************************************************************)
(* What a booted node has, read off the stages by name.                    *)
(***************************************************************************)
LEMMA Booted ==
  ASSUME TypeOK, BootInv, phase \in {"boot", "loop"}
  PROVE  /\ pos > 18 => {"pid_check", "config", "common"} \subseteq up
         /\ pos > 27 => {"global_db", "chain"} \subseteq up
         /\ phase = "loop" =>
              {"stream", "stream_ctl", "http_folder", "http", "chain_net", "global_db", "chain",
               "config", "common", "pid_check"} \subseteq up
         /\ phase = "loop" /\ cfg["server"] => "server" \in up
<1> DEFINE Passed(i) == i < pos /\ Needed(Stages[i]) => Stages[i].mod \in up
<1>1. ASSUME NEW i \in 1..55, Stages[i].code # 0 PROVE Passed(i)
  BY <1>1, Table DEF BootInv, TypeOK
<1>2. /\ Passed(3) /\ Passed(5) /\ Passed(6) /\ Passed(9) /\ Passed(10) /\ Passed(11)
      /\ Passed(14) /\ Passed(15) /\ Passed(18) /\ Passed(20) /\ Passed(27)
  BY <1>1, StagesOf DEF Fatal, Stage
<1>3. phase = "loop" => pos = 56
  BY Table DEF BootInv
<1>4. pos \in Int
  BY Table DEF TypeOK
<1> QED
  BY <1>2, <1>3, <1>4, StagesOf DEF Fatal, Stage, Needed

(***************************************************************************)
(* A stage that comes up, or is passed over, keeps the boot invariant.     *)
(***************************************************************************)
LEMMA BootStep ==
  ASSUME MainInv, StageOk \/ StageSkipped \/ StageLogged
  PROVE  BootInv'
<1> USE DEF MainInv, TypeOK
<1>1. /\ phase = "boot" /\ pos \in 1..55 /\ pos' = pos + 1 /\ phase' = phase /\ cfg' = cfg
      /\ bare' = bare
  BY Table DEF StageOk, StageSkipped, StageLogged, Booting
<1>2. pos \in DOMAIN Stages /\ StageAt(Stages[pos], pos)
  BY <1>1, Table, StageFacts
<1>3. /\ bare = {}
      /\ \A i \in 1..(pos - 1) :
           Stages[i].code # 0 /\ Needed(Stages[i]) => Stages[i].mod \in up
      /\ \A m \in up : \E i \in 1..(pos - 1) : Stages[i].mod = m
      /\ "server" \in up => cfg["server"]
      /\ "plugins" \in up => cfg["plugins"]
      /\ "plugins_run" \in up => "plugins" \in up
      /\ pos > 54 /\ "plugins" \in up => "plugins_run" \in up
  BY <1>1 DEF BootInv
<1>4. CASE StageOk
  <2>1. Needed(Stages[pos]) /\ up' = up \cup {Stages[pos].mod}
    BY <1>4 DEF StageOk
  <2>2. ASSUME NEW i \in 1..(pos' - 1), Stages[i].code # 0, Needed(Stages[i])'
        PROVE  Stages[i].mod \in up'
    <3>1. CASE i = pos
      BY <2>1, <3>1
    <3>2. CASE i \in 1..(pos - 1)
      BY <1>1, <1>2, <1>3, <2>1, <2>2, <3>2, NeededStays
    <3> QED
      BY <1>1, <3>1, <3>2
  <2>3. \A m \in up' : \E i \in 1..(pos' - 1) : Stages[i].mod = m
    BY <1>1, <1>3, <2>1
  <2>4. "server" \in up' => cfg'["server"]
    BY <1>1, <1>2, <1>3, <2>1 DEF StageAt, Needed
  <2>5. "plugins" \in up' => cfg'["plugins"]
    BY <1>1, <1>2, <1>3, <2>1 DEF StageAt, Needed
  <2>6. "plugins_run" \in up' => "plugins" \in up'
    <3>1. Stages[pos].mod = "plugins_run" => Stages[pos].need = "plugins_up"
      BY <1>2, StagesOf DEF StageAt, Stage
    <3> QED
      BY <1>3, <2>1, <3>1 DEF Needed
  <2>7. pos' > 54 /\ "plugins" \in up' => "plugins_run" \in up'
    <3>1. CASE pos = 54
      BY <2>1, <3>1, StagesOf DEF Stage
    <3>2. CASE pos # 54
      BY <1>1, <1>2, <1>3, <2>1, <3>2 DEF StageAt
    <3> QED
      BY <3>1, <3>2
  <2> QED
    BY <1>1, <1>3, <2>2, <2>3, <2>4, <2>5, <2>6, <2>7 DEF BootInv
<1>5. CASE StageSkipped \/ StageLogged
  <2>1. up' = up /\ (Stages[pos].code = 0 \/ ~Needed(Stages[pos]))
    BY <1>5 DEF StageSkipped, StageLogged
  <2>3. ASSUME NEW i \in 1..(pos' - 1), Stages[i].code # 0, Needed(Stages[i])'
        PROVE  Stages[i].mod \in up'
    <3>1. i \in 1..pos
      BY <1>1
    <3>2. Needed(Stages[i])
      BY <1>1, <2>1, <2>3 DEF Needed
    <3>3. i # pos
      BY <2>1, <2>3, <3>2
    <3> QED
      BY <1>1, <1>3, <2>1, <2>3, <3>1, <3>2, <3>3
  <2>4. \A m \in up' : \E i \in 1..(pos' - 1) : Stages[i].mod = m
    BY <1>1, <1>3, <2>1
  <2>5. pos' > 54 /\ "plugins" \in up' => "plugins_run" \in up'
    <3>1. CASE pos = 54
      <4>1. Stages[pos].mod = "plugins_run" /\ Stages[pos].need = "plugins_up"
        BY <3>1, StagesOf DEF Stage
      <4>2. ~Needed(Stages[pos])
        BY <1>5, <4>1 DEF StageSkipped, StageLogged, Infallible
      <4> QED
        BY <2>1, <4>1, <4>2 DEF Needed
    <3>2. CASE pos # 54
      BY <1>1, <1>3, <2>1, <3>2
    <3> QED
      BY <3>1, <3>2
  <2> QED
    BY <1>1, <1>3, <2>1, <2>3, <2>4, <2>5 DEF BootInv
<1> QED
  BY <1>4, <1>5

(***************************************************************************)
(* The event loop ends: the deinit sequence finds what it relies on.       *)
(***************************************************************************)
LEMMA DeinitBegins ==
  ASSUME MainInv, LoopEnds
  PROVE  DeinitInv'
<1> USE DEF MainInv
<1>1. /\ phase = "loop" /\ pos' = 1 /\ up' = up /\ cfg' = cfg
  BY DEF LoopEnds
<1>2. /\ "server" \in up => cfg["server"]
      /\ "plugins_run" \in up <=> "plugins" \in up
  BY <1>1, Table DEF BootInv
<1>3. /\ {"stream", "stream_ctl", "http_folder", "http", "chain_net", "global_db", "chain",
          "config", "common", "pid_check"} \subseteq up
      /\ cfg["server"] => "server" \in up
  BY <1>1, Booted
<1>4. ASSUME NEW j \in 1..21, DeinitCalls[j].mod \notin Tolerant, Needed(DeinitCalls[j])'
      PROVE  DeinitCalls[j].mod \in up
  <2>1. DeinitAt(DeinitCalls[j], j)
    BY DeinitFacts
  <2>2. j \in {1, 2, 4, 5, 6, 7, 8, 16, 17, 18, 19, 21}
    BY <1>4, <2>1 DEF DeinitAt
  <2>3. CASE j \in {1, 2}
    <3>1. "plugins" \in up
      BY <1>1, <1>4, <2>1, <2>3 DEF DeinitAt, Needed
    <3> QED
      BY <1>2, <2>1, <2>3, <3>1 DEF DeinitAt
  <2>4. CASE j = 8
    <3>1. cfg["server"]
      BY <1>1, <1>4, <2>1, <2>4 DEF DeinitAt, Needed
    <3> QED
      BY <1>3, <2>1, <2>4, <3>1 DEF DeinitAt
  <2>5. CASE j \notin {1, 2, 8}
    BY <1>3, <2>1, <2>2, <2>5 DEF DeinitAt
  <2> QED
    BY <2>3, <2>4, <2>5
<1> QED
  BY <1>1, <1>2, <1>3, <1>4, DeinitFacts DEF DeinitInv

(***************************************************************************)
(* A deinit call takes down the module it is about and no other one.       *)
(***************************************************************************)
LEMMA DeinitGoesOn ==
  ASSUME MainInv, DeinitStep
  PROVE  DeinitInv' /\ NoBareDeinit'
<1> USE DEF MainInv
<1> DEFINE d == DeinitCalls[pos]
<1>1. /\ phase = "deinit" /\ phase' = phase /\ pos \in 1..21 /\ pos' = pos + 1 /\ cfg' = cfg
  BY DeinitFacts, Table DEF DeinitStep, TypeOK
<1>2. /\ "pid_check" \in up
      /\ \A j \in 1..(pos - 1) : DeinitCalls[j].mod \notin up
      /\ \A j \in pos..21 :
           DeinitCalls[j].mod \notin Tolerant /\ Needed(DeinitCalls[j]) =>
             DeinitCalls[j].mod \in up
      /\ "server" \in up => cfg["server"]
      /\ pos = 1 /\ "plugins_run" \in up => "plugins" \in up
  BY <1>1, DeinitFacts DEF DeinitInv
<1>3. DeinitAt(d, pos)
  BY <1>1, DeinitFacts
<1>4. /\ Needed(d) => /\ up' = up \ {d.mod}
                      /\ bare' = IF d.mod \in up THEN bare ELSE bare \cup {d.mod}
      /\ ~Needed(d) => up' = up /\ bare' = bare
  BY DEF DeinitStep
<1>5. d.mod \notin up'
  <2>1. CASE Needed(d)
    BY <1>4, <2>1
  <2>2. CASE ~Needed(d)
    <3>1. d.need \in {"plugins_up", "server"}
      BY <1>3, <2>2 DEF DeinitAt, Needed
    <3>2. CASE d.need = "server"
      <4>1. pos = 8 /\ ~cfg["server"]
        BY <1>3, <2>2, <3>2 DEF DeinitAt, Needed
      <4> QED
        BY <1>2, <1>3, <1>4, <2>2, <4>1 DEF DeinitAt
    <3>3. CASE d.need = "plugins_up"
      <4>1. pos \in {1, 2} /\ "plugins" \notin up
        BY <1>3, <2>2, <3>3 DEF DeinitAt, Needed
      <4> QED
        BY <1>2, <1>3, <1>4, <2>2, <4>1 DEF DeinitAt
    <3> QED
      BY <3>1, <3>2, <3>3
  <2> QED
    BY <2>1, <2>2
<1>6. up' \subseteq up /\ up \subseteq up' \cup {d.mod}
  BY <1>4
<1> HIDE DEF d
<1>7. \A j \in 1..(pos' - 1) : DeinitCalls[j].mod \notin up'
  BY <1>1, <1>2, <1>5, <1>6 DEF d
<1>8. ASSUME NEW j \in pos'..21, DeinitCalls[j].mod \notin Tolerant, Needed(DeinitCalls[j])'
      PROVE  DeinitCalls[j].mod \in up'
  <2>1. j \in 1..21 /\ j \in pos..21 /\ j # pos
    BY <1>1
  <2>2. DeinitAt(DeinitCalls[j], j)
    BY <2>1, DeinitFacts
  <2>3. Needed(DeinitCalls[j])
    BY <1>1, <1>6, <1>8 DEF Needed
  <2>4. DeinitCalls[j].mod \in up
    BY <1>2, <1>8, <2>1, <2>3
  <2>5. DeinitCalls[j].mod # d.mod
    BY <1>1, <1>3, <1>8, <2>1, <2>2 DEF DeinitAt
  <2> QED
    BY <1>6, <2>4, <2>5
<1>9. "pid_check" \in up'
  BY <1>2, <1>3, <1>6 DEF DeinitAt
<1>10. NoBareDeinit'
  <2>1. bare \subseteq Tolerant
    BY DEF EndInv, NoBareDeinit
  <2>2. Needed(d) /\ d.mod \notin up => d.mod \in Tolerant
    BY <1>1, <1>2 DEF d
  <2> QED
    BY <1>4, <2>1, <2>2 DEF NoBareDeinit
<1> QED
  BY <1>1, <1>2, <1>6, <1>7, <1>8, <1>9, <1>10, DeinitFacts DEF DeinitInv

(***************************************************************************)
(* No fatal code, no death by a signal and no other result of the event    *)
(* loop looks like a success.                                              *)
(***************************************************************************)
\* return rc * 10 is zero for the parent only if rc is a multiple of 128.
LEMMA LoopByte == \A n \in Int : (n * 10) % 256 = 0 => n % 128 = 0
  OBVIOUS

\* Every end of a process is one of those.
LEMMA Ends ==
  ASSUME MainInv, VersionOnly \/ StageFatal \/ Return \/ Signal
  PROVE  EndInv' /\ phase' = "ended"
<1> USE DEF MainInv
<1>1. phase' = "ended" /\ bare' = bare /\ up' = up /\ loopRc' = loopRc /\ NoBareDeinit
  BY DEF VersionOnly, StageFatal, Return, Signal, End, EndInv
<1>2. NoBareDeinit'
  BY <1>1 DEF NoBareDeinit
<1>3. CASE VersionOnly
  BY <1>1, <1>2, <1>3 DEF VersionOnly, End, EndInv, LoopLeavesNothing, StatusTruthful
<1>4. CASE StageFatal
  <2>1. pos \in DOMAIN Stages /\ Stages[pos].code # 0
    BY <1>4, Table DEF StageFatal, Booting, TypeOK
  <2>2. status' # 0 /\ why' = "fatal"
    BY <1>4, <2>1, StageFacts DEF StageFatal, End, StageAt
  <2> QED
    BY <1>1, <1>2, <2>2 DEF EndInv, LoopLeavesNothing, StatusTruthful
<1>5. CASE Return
  <2>1. phase = "deinit" /\ pos > 21 /\ why' = "loop" /\ status' = (loopRc * 10) % 256
    BY <1>5, DeinitFacts DEF Return, End
  <2>2. \A j \in DOMAIN DeinitCalls : DeinitCalls[j].mod \notin up
    BY <2>1, DeinitFacts, Table DEF DeinitInv, TypeOK
  <2>3. up \subseteq Kept
    BY <2>2 DEF Kept, TypeOK
  <2>4. status' = 0 => loopRc % 128 = 0
    BY <2>1, LoopByte, CodesAssumption DEF TypeOK
  <2> QED
    BY <1>1, <1>2, <2>1, <2>3, <2>4 DEF EndInv, LoopLeavesNothing, StatusTruthful
<1>6. CASE Signal
  <2>1. why' = "signal" /\ ("sig" \notin up => status' = 143)
    BY <1>6 DEF Signal, End
  <2> QED
    BY <1>1, <1>2, <2>1 DEF EndInv, LoopLeavesNothing, StatusTruthful
<1> QED
  BY <1>1, <1>3, <1>4, <1>5, <1>6

(***************************************************************************)
(* Every step keeps the invariant.                                         *)
(***************************************************************************)
LEMMA MainInvariant == Spec => []MainInv
<1>1. Init => MainInv
  <2> SUFFICES ASSUME Init PROVE MainInv
    OBVIOUS
  <2>1. TypeOK
    BY Table, CodesAssumption DEF Init, TypeOK
  <2> QED
    BY <2>1, Table
       DEF Init, MainInv, BootInv, DeinitInv, EndInv, NoBareDeinit, LoopLeavesNothing,
           StatusTruthful
<1>2. TypeOK' /\ MainInv /\ [Next]_vars => MainInv'
  <2> SUFFICES ASSUME TypeOK', MainInv, [Next]_vars PROVE MainInv'
    OBVIOUS
  <2>1. CASE StageOk \/ StageSkipped \/ StageLogged
    <3>1. phase' = "boot" /\ why' = why /\ bare' = bare /\ phase = "boot" /\ why = "none"
      BY <2>1 DEF StageOk, StageSkipped, StageLogged, Booting, MainInv, EndInv
    <3>2. EndInv' /\ DeinitInv'
      BY <3>1 DEF MainInv, EndInv, NoBareDeinit, LoopLeavesNothing, StatusTruthful, DeinitInv
    <3> QED
      BY <2>1, <3>2, BootStep DEF MainInv
  <2>2. CASE VersionOnly \/ StageFatal \/ Return \/ Signal
    <3>1. EndInv' /\ phase' = "ended"
      BY <2>2, Ends
    <3> QED
      BY <3>1 DEF MainInv, BootInv, DeinitInv
  <2>3. CASE EnterLoop
    <3>1. /\ phase = "boot" /\ phase' = "loop" /\ pos' = pos /\ up' = up /\ cfg' = cfg
          /\ bare' = bare /\ why' = why /\ pos > Len(Stages)
      BY <2>3 DEF EnterLoop
    <3>2. EndInv' /\ DeinitInv'
      BY <3>1 DEF MainInv, EndInv, NoBareDeinit, LoopLeavesNothing, StatusTruthful, DeinitInv
    <3>3. pos' = Len(Stages) + 1
      BY <3>1, Table DEF MainInv, TypeOK
    <3>4. BootInv'
      BY <3>1, <3>3 DEF MainInv, BootInv, Needed
    <3> QED
      BY <3>2, <3>4 DEF MainInv
  <2>4. CASE LoopEnds
    <3>1. phase' = "deinit" /\ bare' = bare /\ why' = why /\ phase # "ended"
      BY <2>4 DEF LoopEnds
    <3>2. EndInv' /\ BootInv'
      BY <3>1 DEF MainInv, EndInv, NoBareDeinit, LoopLeavesNothing, StatusTruthful, BootInv
    <3> QED
      BY <2>4, <3>2, DeinitBegins DEF MainInv
  <2>5. CASE DeinitStep
    <3>1. phase' = "deinit" /\ why' = why /\ phase # "ended"
      BY <2>5 DEF DeinitStep
    <3>2. DeinitInv' /\ NoBareDeinit'
      BY <2>5, DeinitGoesOn
    <3>3. EndInv' /\ BootInv'
      BY <3>1, <3>2 DEF MainInv, EndInv, LoopLeavesNothing, StatusTruthful, BootInv
    <3> QED
      BY <3>2, <3>3 DEF MainInv
  <2>6. CASE Respawn
    BY <2>6, Table
       DEF Respawn, MainInv, BootInv, DeinitInv, EndInv, NoBareDeinit, LoopLeavesNothing,
           StatusTruthful
  <2>7. CASE UNCHANGED vars
    BY <2>7
       DEF vars, MainInv, BootInv, DeinitInv, EndInv, NoBareDeinit, LoopLeavesNothing,
           StatusTruthful, Needed
  <2> QED
    BY <2>1, <2>2, <2>3, <2>4, <2>5, <2>6, <2>7 DEF Next
<1> QED
  BY <1>1, <1>2, MainTypeCorrect, PTL DEF Spec

(***************************************************************************)
(* The deinit sequence takes down nothing that is not up, except where     *)
(* main tolerates it.                                                      *)
(***************************************************************************)
THEOREM DeinitFindsItUp == Spec => []NoBareDeinit
<1>1. MainInv => NoBareDeinit
  BY DEF MainInv, EndInv
<1> QED
  BY <1>1, MainInvariant, PTL

(***************************************************************************)
(* After the event loop every module that main ever takes down is down.    *)
(***************************************************************************)
THEOREM LoopIsUndone == Spec => []LoopLeavesNothing
<1>1. MainInv => LoopLeavesNothing
  BY DEF MainInv, EndInv
<1> QED
  BY <1>1, MainInvariant, PTL

(***************************************************************************)
(* A node that serves is complete.                                         *)
(***************************************************************************)
THEOREM ServingIsComplete == Spec => []ServesComplete
<1>1. MainInv => ServesComplete
  BY Table DEF MainInv, BootInv, ServesComplete
<1> QED
  BY <1>1, MainInvariant, PTL

(***************************************************************************)
(* The exit status of a process never reports a failed boot as a success.  *)
(***************************************************************************)
THEOREM StatusIsTruthful == Spec => []StatusTruthful
<1>1. MainInv => StatusTruthful
  BY DEF MainInv, EndInv
<1> QED
  BY <1>1, MainInvariant, PTL

(***************************************************************************)
(* Shared data is open only behind the single-instance check, and is       *)
(* closed before what it reports to.                                       *)
(***************************************************************************)
THEOREM DataIsGuarded == Spec => []DataGuarded
<1>1. MainInv => DataGuarded
  <2> SUFFICES ASSUME MainInv, phase # "ended"
               PROVE  /\ "global_db" \in up => {"pid_check", "config", "common"} \subseteq up
                      /\ "chain_net" \in up => {"global_db", "chain"} \subseteq up
    BY DEF DataGuarded
  <2> USE DEF MainInv
  <2>1. CASE phase \in {"boot", "loop"}
    <3>1. ASSUME NEW m \in up, NEW k \in 1..55,
                 \A i \in DOMAIN Stages : Stages[i].mod = m => i = k
          PROVE  pos > k
      BY <2>1, <3>1, Table DEF BootInv, TypeOK
    <3>2. "global_db" \in up => pos > 18
      BY <3>1, StageFacts DEF StageAt
    <3>3. "chain_net" \in up => pos > 27
      BY <3>1, StageFacts DEF StageAt
    <3> QED
      BY <2>1, <3>2, <3>3, Booted
  <2>2. CASE phase = "deinit"
    <3>1. /\ pos \in 1..22 /\ "pid_check" \in up
          /\ \A j \in 1..(pos - 1) : DeinitCalls[j].mod \notin up
          /\ \A j \in pos..21 :
               DeinitCalls[j].mod \notin Tolerant /\ Needed(DeinitCalls[j]) =>
                 DeinitCalls[j].mod \in up
      BY <2>2, DeinitFacts, Table DEF DeinitInv, TypeOK
    <3>2. ASSUME NEW j \in {16, 17, 18, 19, 21}
          PROVE  j >= pos <=> DeinitCalls[j].mod \in up
      <4>1. DeinitAt(DeinitCalls[j], j) /\ j \in 1..21
        BY DeinitFacts
      <4>2. DeinitCalls[j].mod \notin Tolerant /\ Needed(DeinitCalls[j])
        BY <4>1 DEF DeinitAt, Needed
      <4> QED
        BY <3>1, <4>1, <4>2
    <3>3. /\ DeinitCalls[16].mod = "chain_net" /\ DeinitCalls[17].mod = "global_db"
          /\ DeinitCalls[18].mod = "chain" /\ DeinitCalls[19].mod = "config"
          /\ DeinitCalls[21].mod = "common"
      BY DeinitFacts DEF DeinitAt
    <3> QED
      BY <3>1, <3>2, <3>3
  <2> QED
    BY <2>1, <2>2 DEF TypeOK
<1> QED
  BY <1>1, MainInvariant, PTL
=============================================================================
