------------------------- MODULE NodeServiceProofs -------------------------
(***************************************************************************)
(* Proofs about the Android service, for any number of stopping and of     *)
(* listening clients and of thread objects, any number of starts, and any  *)
(* destruction of the service.                                             *)
(***************************************************************************)
EXTENDS NodeNotify, TLAPS

USE ZenonT(5), SMTT(20), ZenonT(40)

(***************************************************************************)
(* The state of the service is well typed.                                 *)
(***************************************************************************)
THEOREM TypeCorrect == Spec => []TypeOK
<1> USE NoThreadAssumption, CallersAssumption DEF TypeOK, Lives
<1>1. Init => TypeOK
  BY DEF Init
<1>2. TypeOK /\ [Next]_vars => TypeOK'
  <2> SUFFICES ASSUME TypeOK, [Next]_vars PROVE TypeOK'
    OBVIOUS
  <2> USE DEF Goto, Turn
  <2>1. ASSUME NEW c \in Starter, RunNode(c) PROVE TypeOK'
    BY <2>1 DEF RunNode
  <2>2. ASSUME NEW c \in Starter, NEW th \in Thread, NewThread(c, th) PROVE TypeOK'
    BY <2>2 DEF NewThread
  <2>3. ASSUME NEW c \in Starter, ThreadStart(c) PROVE TypeOK'
    BY <2>3 DEF ThreadStart
  <2>4. ASSUME NEW c \in Starter, SetStarted(c) PROVE TypeOK'
    BY <2>4 DEF SetStarted
  <2>5. ASSUME NEW th \in Thread, Register(th) \/ MainReturns(th) \/ ClearListeners(th)
        PROVE  TypeOK'
    BY <2>5 DEF Register, MainReturns, ClearListeners
  <2>6. ASSUME NEW th \in Thread, UnsetStarted(th) PROVE TypeOK'
    <3>1. isServiceStarted' \in BOOLEAN
      BY <2>6 DEF UnsetStarted
    <3> QED
      BY <2>6, <3>1 DEF UnsetStarted
  <2>7. ASSUME NEW c \in Stopper, StopNode(c) PROVE TypeOK'
    BY <2>7 DEF StopNode, Serving, InMain
  <2>8. ASSUME NEW c \in Stopper, Join(c) \/ StopReturns(c) PROVE TypeOK'
    BY <2>8 DEF Join, StopReturns
  <2>9. CASE OnDestroy
    BY <2>9 DEF OnDestroy
  <2>10. CASE ProcessKilled
    BY <2>10 DEF ProcessKilled
  <2>11. CASE UNCHANGED vars
    BY <2>11 DEF vars
  <2> HIDE DEF TypeOK, Goto, Turn, Lives
  <2> QED
    BY <2>1, <2>2, <2>3, <2>4, <2>5, <2>6, <2>7, <2>8, <2>9, <2>10, <2>11
       DEF Next, Calls, StartStep, ThreadStep
<1> QED
  BY <1>1, <1>2, PTL DEF Spec

(***************************************************************************)
(* The threads of this service that are between start and end of run().    *)
(***************************************************************************)
LiveThreads == {th \in Thread \ orphans : life[th] \in Live}

(***************************************************************************)
(* The inductive invariant, for the only starting client a.  The field     *)
(* holds every live thread; none is live while the flag lets a into        *)
(* runNode or a is on its way to start one.                                *)
(***************************************************************************)
StartInv(a) ==
  /\ LiveThreads \subseteq {nodeThread}
  /\ pc[a] = "idle" /\ ~isServiceStarted => LiveThreads = {}
  /\ pc[a] \in {"create", "start"} => LiveThreads = {}
  /\ pc[a] = "start" => nodeThread \in Thread \ orphans /\ life[nodeThread] = "created"
  /\ orphans = {} => Serving \subseteq hooks

(***************************************************************************)
(* What a stopNode remembers: the nodes it is about ended, or are in the   *)
(* field it will read, or in the thread it joined.                         *)
(***************************************************************************)
StopInv ==
  \A c \in Stopper :
    /\ pc[c] \in {"idle", "join", "wait"}
    /\ pc[c] = "idle" => serving[c] = {}
    /\ pc[c] = "join" => nodeThread \in Thread
    /\ pc[c] = "wait" => joins[c] \in Thread
    /\ \A th \in serving[c] :
         /\ pc[c] = "join" => th \notin orphans
         /\ life[th] \in {"main", "clear", "unset", "over"}
         /\ life[th] = "over" \/ th = (IF pc[c] = "wait" THEN joins[c] ELSE nodeThread)

ServiceInv == \A a \in Starter : Starter = {a} => StartInv(a) /\ StopInv

(***************************************************************************)
(* The invariant holds of the one starting client.                         *)
(***************************************************************************)
LEMMA ServiceInvariant == Spec => []ServiceInv
<1>1. Init => ServiceInv
  BY NoThreadAssumption DEF Init, ServiceInv, StartInv, StopInv, LiveThreads, Serving, InMain, Live
<1>2. TypeOK /\ ServiceInv /\ [Next]_vars => ServiceInv'
  <2> SUFFICES ASSUME TypeOK, [Next]_vars, NEW a \in Starter, Starter = {a}, StartInv(a), StopInv
               PROVE  StartInv(a)' /\ StopInv'
    BY DEF ServiceInv
  <2> USE NoThreadAssumption, CallersAssumption
      DEF TypeOK, StartInv, StopInv, LiveThreads, Serving, InMain, Live, Lives, Goto, Turn
  <2>1. CASE RunNode(a)
    BY <2>1 DEF RunNode
  <2>2. ASSUME NEW th \in Thread, NewThread(a, th) PROVE StartInv(a)' /\ StopInv'
    BY <2>2 DEF NewThread
  <2>3. CASE ThreadStart(a)
    BY <2>3 DEF ThreadStart
  <2>4. CASE SetStarted(a)
    BY <2>4 DEF SetStarted
  <2>5. ASSUME NEW th \in Thread, Register(th) PROVE StartInv(a)' /\ StopInv'
    BY <2>5 DEF Register
  <2>6. ASSUME NEW th \in Thread, MainReturns(th) PROVE StartInv(a)' /\ StopInv'
    BY <2>6 DEF MainReturns
  <2>7. ASSUME NEW th \in Thread, ClearListeners(th) PROVE StartInv(a)' /\ StopInv'
    BY <2>7 DEF ClearListeners
  <2>8. ASSUME NEW th \in Thread, UnsetStarted(th) PROVE StartInv(a)' /\ StopInv'
    BY <2>8 DEF UnsetStarted
  <2>9. ASSUME NEW c \in Stopper, StopNode(c) PROVE StartInv(a)' /\ StopInv'
    BY <2>9 DEF StopNode
  <2>10. ASSUME NEW c \in Stopper, Join(c) PROVE StartInv(a)' /\ StopInv'
    BY <2>10 DEF Join
  <2>11. ASSUME NEW c \in Stopper, StopReturns(c) PROVE StartInv(a)' /\ StopInv'
    BY <2>11 DEF StopReturns
  <2>12. CASE OnDestroy
    BY <2>12 DEF OnDestroy
  <2>13. CASE ProcessKilled
    BY <2>13 DEF ProcessKilled
  <2>14. CASE UNCHANGED vars
    BY <2>14 DEF vars
  <2> HIDE DEF TypeOK, StartInv, StopInv, LiveThreads, Serving, InMain, Live, Lives, Goto, Turn
  <2> QED
    BY <2>1, <2>2, <2>3, <2>4, <2>5, <2>6, <2>7, <2>8, <2>9, <2>10, <2>11, <2>12, <2>13, <2>14
       DEF Next, Calls, StartStep, ThreadStep
<1> QED
  BY <1>1, <1>2, TypeCorrect, PTL DEF Spec

(***************************************************************************)
(* One starting client: at most one thread of a service runs the node.     *)
(***************************************************************************)
THEOREM OneThreadRuns == Spec => []OneNodeThread
<1>1. ServiceInv => OneNodeThread
  BY DEF ServiceInv, StartInv, LiveThreads, OneNodeThread, OneStarter
<1> QED
  BY <1>1, ServiceInvariant, PTL

(***************************************************************************)
(* The listener of the node that serves stays registered.                  *)
(***************************************************************************)
THEOREM ListenerIsKept == Spec => []ListenerStands
<1>1. ServiceInv => ListenerStands
  BY DEF ServiceInv, StartInv, ListenerStands, OneStarter
<1> QED
  BY <1>1, ServiceInvariant, PTL

(***************************************************************************)
(* isNodeRunning reports the node that serves.                             *)
(***************************************************************************)
THEOREM ServingIsReported == Spec => []ServingReported
<1>1. TypeOK /\ ServiceInv => ServingReported
  BY DEF TypeOK, ServiceInv, StartInv, LiveThreads, Live, Serving, InMain, ServingReported, OneStarter
<1> QED
  BY <1>1, ServiceInvariant, TypeCorrect, PTL

(***************************************************************************)
(* stopNode waits for every node that served when it was called.           *)
(***************************************************************************)
THEOREM StopIsComplete == Spec => StopMeansStopped
<1> DEFINE Kept == OneStarter => \A c \in Stopper :
       pc[c] = "wait" /\ pc'[c] = "idle" => serving[c] \cap InMain' = {}
<1>1. TypeOK /\ ServiceInv /\ [Next]_vars => [Kept]_vars
  <2> SUFFICES ASSUME TypeOK, ServiceInv, Next, OneStarter, NEW c \in Stopper,
                      pc[c] = "wait", pc'[c] = "idle"
               PROVE  serving[c] \cap InMain' = {}
    OBVIOUS
  <2>1. StopInv
    BY DEF ServiceInv, OneStarter
  <2>2. StopReturns(c) \/ ProcessKilled
    BY CallersAssumption
       DEF Next, Calls, StartStep, ThreadStep, TypeOK, Goto, RunNode, NewThread, ThreadStart, SetStarted,
           Register, MainReturns, ClearListeners, UnsetStarted, StopNode, Join, StopReturns,
           OnDestroy
  <2>3. CASE StopReturns(c)
    BY <2>1, <2>3 DEF StopInv, StopReturns, InMain
  <2>4. CASE ProcessKilled
    BY <2>4 DEF ProcessKilled, InMain
  <2> QED
    BY <2>2, <2>3, <2>4
<1> QED
  BY <1>1, ServiceInvariant, TypeCorrect, PTL DEF Spec, StopMeansStopped

-----------------------------------------------------------------------------
(***************************************************************************)
(* Notifications leave the service as it is: whatever holds of the service *)
(* alone holds of it while clients are notified.                           *)
(***************************************************************************)
THEOREM NotifyingIsService == NotifySpec => Spec
<1>1. NotifyInit => Init
  BY DEF NotifyInit
<1>2. [NotifyNext]_allVars => [Next]_vars
  BY DEF NotifyNext, allVars, ServiceStep, ServiceDestroyed, Killed, SetNotifyLisnter,
         Collect, CallListener, CallNobody, Notify, Telling, IteratorThrows, Tell, ClientThrows,
         ToldAll, Notified, Next, vars
<1> QED
  BY <1>1, <1>2, PTL DEF NotifySpec, Spec

(***************************************************************************)
(* The types of a notification and of the lists beside it.                 *)
(***************************************************************************)
Walks == [on : BOOLEAN, left : SUBSET Thread, in : Thread \cup {NoThread}, pos : Nat,
          size : Nat, told : SUBSET Client, thrown : BOOLEAN, failed : Nat, calm : BOOLEAN]

Lists ==
  /\ notify_listners \in Seq(Client)
  /\ collected \in SUBSET Thread

(***************************************************************************)
(* The state of the service and of its notifications is well typed.        *)
(***************************************************************************)
THEOREM NotifyTypeCorrect == NotifySpec => []NotifyTypeOK
<1>0. /\ NotifyTypeOK => TypeOK /\ Lists /\ walk \in Walks
      /\ TypeOK' /\ Lists' /\ walk' \in Walks => NotifyTypeOK'
  BY DEF NotifyTypeOK, Lists, Walks
<1>1. NotifyInit /\ TypeOK => NotifyTypeOK
  BY DEF NotifyInit, NoWalk, NotifyTypeOK
<1>2. NotifyTypeOK /\ TypeOK' /\ [NotifyNext]_allVars => NotifyTypeOK'
  <2> SUFFICES ASSUME TypeOK, Lists, walk \in Walks, [NotifyNext]_allVars
               PROVE  Lists' /\ walk' \in Walks
    BY <1>0
  <2>1. CASE ServiceStep
    <3> DEFINE x == walk.calm /\ (walk.on => hooks' = hooks)
    <3>1. walk' = [walk EXCEPT !.calm = x] /\ x \in BOOLEAN
      BY <2>1 DEF ServiceStep, Beside
    <3>2. Lists'
      BY <2>1 DEF ServiceStep, Beside, Lists
    <3> HIDE DEF x
    <3>3. [walk EXCEPT !.calm = x] \in Walks
      BY <3>1 DEF Walks
    <3> QED
      BY <3>1, <3>2, <3>3
  <2>2. CASE ServiceDestroyed
    <3>1. (~walk.on) \in BOOLEAN
      OBVIOUS
    <3>2. [walk EXCEPT !.in = NoThread, !.calm = ~walk.on] \in Walks
      BY <3>1 DEF Walks
    <3> QED
      BY <2>2, <3>2 DEF ServiceDestroyed, Lists
  <2>3. CASE Killed
    BY <2>3 DEF Killed, NoWalk, Lists, Walks
  <2>4. ASSUME NEW k \in Client, SetNotifyLisnter(k) PROVE Lists' /\ walk' \in Walks
    BY <2>4 DEF SetNotifyLisnter, Lists
  <2>6. ASSUME NEW th \in Thread, Collect(th) PROVE Lists' /\ walk' \in Walks
    BY <2>6 DEF Collect, Lists
  <2>7. ASSUME NEW th \in Thread, CallListener(th) PROVE Lists' /\ walk' \in Walks
    <3>1. walk.left \ {th} \in SUBSET Thread /\ Len(notify_listners) \in Nat
      BY DEF Walks, Lists
    <3>2. [walk EXCEPT !.left = @ \ {th}, !.in = th, !.pos = 0, !.size = Len(notify_listners)]
            \in Walks
      BY <3>1 DEF Walks
    <3> QED
      BY <2>7, <3>2 DEF CallListener, Lists
  <2>8. ASSUME NEW th \in Thread, CallNobody(th) PROVE Lists' /\ walk' \in Walks
    <3>1. walk.left \ {th} \in SUBSET Thread
      BY DEF Walks
    <3>2. PICK t \in {walk.thrown, TRUE} : walk' = [walk EXCEPT !.left = @ \ {th}, !.thrown = t]
      BY <2>8 DEF CallNobody
    <3>3. t \in BOOLEAN
      BY <3>2 DEF Walks
    <3>4. [walk EXCEPT !.left = @ \ {th}, !.thrown = t] \in Walks
      BY <3>1, <3>3 DEF Walks
    <3> QED
      BY <2>8, <3>2, <3>4 DEF CallNobody, Lists
  <2>9. CASE Notify
    BY <2>9 DEF Notify, NoWalk, TypeOK, Lists, Walks
  <2>10. CASE Tell
    <3> DEFINE k == notify_listners[walk.pos + 1]
    <3>1. k \in Client /\ walk.pos + 1 \in Nat
      BY <2>10 DEF Tell, Telling, Lists, Walks
    <3>2. walk.told \cup {k} \in SUBSET Client
      BY <3>1 DEF Walks
    <3>3. [walk EXCEPT !.pos = @ + 1, !.told = @ \cup {k}] \in Walks
      BY <3>1, <3>2 DEF Walks
    <3> QED
      BY <2>10, <3>3 DEF Tell, Telling, Lists
  <2>5. CASE IteratorThrows \/ ClientThrows
    <3>1. walk.pos + 1 \in Nat
      BY DEF Walks
    <3>2. [walk EXCEPT !.in = NoThread, !.thrown = TRUE] \in Walks
      BY DEF Walks
    <3>3. [walk EXCEPT !.in = NoThread, !.thrown = TRUE, !.failed = walk.pos + 1] \in Walks
      BY <3>1 DEF Walks
    <3> QED
      BY <2>5, <3>2, <3>3 DEF IteratorThrows, ClientThrows, Telling, Lists
  <2>11. CASE ToldAll
    <3>1. [walk EXCEPT !.in = NoThread] \in Walks
      BY DEF Walks
    <3> QED
      BY <2>11, <3>1 DEF ToldAll, Lists
  <2>12. CASE Notified
    BY <2>12 DEF Notified, NoWalk, Lists, Walks
  <2>13. CASE UNCHANGED allVars
    BY <2>13 DEF allVars, notifyVars, Lists
  <2> QED
    BY <2>1, <2>2, <2>3, <2>4, <2>5, <2>6, <2>7, <2>8, <2>9, <2>10, <2>11, <2>12, <2>13
       DEF NotifyNext
<1> QED
  BY <1>1, <1>2, NotifyingIsService, TypeCorrect, PTL DEF NotifySpec

(***************************************************************************)
(* The clients of the list up to the first whose call threw were told.     *)
(***************************************************************************)
AllTold ==
  \A i \in DOMAIN notify_listners :
    walk.failed = 0 \/ i < walk.failed => notify_listners[i] \in walk.told

(***************************************************************************)
(* A notification that nothing outside disturbed: its listeners are those  *)
(* of the node that serves, none was collected.                            *)
(***************************************************************************)
Undisturbed ==
  walk.on /\ walk.calm /\ OneStarter /\ orphans = {} /\ hooks \cap collected = {}

(***************************************************************************)
(* The inductive invariant.  Such a notification has a listener to call;   *)
(* an exception is pending only once a listener was called; the listener   *)
(* that is being called has told the clients behind it; and once one was   *)
(* called and the list did not grow since, all are told.                   *)
(***************************************************************************)
WalkInv ==
  Undisturbed =>
    /\ walk.left \subseteq hooks /\ hooks # {}
    /\ walk.size <= Len(notify_listners)
    /\ walk.left = hooks => walk.in = NoThread /\ ~walk.thrown
    /\ walk.in # NoThread =>
         /\ ~walk.thrown /\ walk.pos <= Len(notify_listners)
         /\ \A i \in 1..walk.pos : notify_listners[i] \in walk.told
    /\ walk.in = NoThread /\ walk.left # hooks /\ walk.size = Len(notify_listners) => AllTold

LEMMA WalkInvariant == NotifySpec => []WalkInv
<1>1. NotifyInit => WalkInv
  BY DEF NotifyInit, NoWalk, WalkInv, Undisturbed
<1>2. NotifyTypeOK /\ ServiceInv /\ WalkInv /\ [NotifyNext]_allVars => WalkInv'
  <2> SUFFICES ASSUME TypeOK, Lists, walk \in Walks, ServiceInv, WalkInv, [NotifyNext]_allVars,
                      Undisturbed'
               PROVE  WalkInv'
    BY DEF NotifyTypeOK, Lists, Walks, WalkInv
  <2> USE NoThreadAssumption
  <2>1. CASE ServiceStep
    <3>1. orphans' = orphans
      BY <2>1
         DEF ServiceStep, Calls, StartStep, ThreadStep, RunNode, NewThread, ThreadStart,
             SetStarted, Register, MainReturns, ClearListeners, UnsetStarted, StopNode, Join,
             StopReturns
    <3>2. /\ walk'.on = walk.on /\ walk'.left = walk.left /\ walk'.in = walk.in
          /\ walk'.pos = walk.pos /\ walk'.size = walk.size /\ walk'.told = walk.told
          /\ walk'.thrown = walk.thrown /\ walk'.failed = walk.failed
          /\ notify_listners' = notify_listners
      BY <2>1 DEF ServiceStep, Beside, Walks
    <3>3. walk.calm /\ hooks' = hooks /\ collected' = collected \cap hooks
      BY <2>1, <3>2 DEF ServiceStep, Beside, Undisturbed, Walks
    <3>4. Undisturbed
      BY <3>1, <3>2, <3>3 DEF Undisturbed
    <3> QED
      BY <3>2, <3>3, <3>4 DEF WalkInv, AllTold
  <2>2. CASE ServiceDestroyed
    BY <2>2 DEF ServiceDestroyed, Undisturbed, Walks
  <2>3. CASE Killed
    BY <2>3 DEF Killed, NoWalk, Undisturbed
  <2>4. ASSUME NEW k \in Client, SetNotifyLisnter(k) PROVE WalkInv'
    <3>1. /\ UNCHANGED <<walk, hooks, orphans, collected>>
          /\ notify_listners' = Append(notify_listners, k)
      BY <2>4 DEF SetNotifyLisnter, vars
    <3>2. /\ Len(notify_listners') = Len(notify_listners) + 1
          /\ \A i \in 1..Len(notify_listners) : notify_listners'[i] = notify_listners[i]
      BY <3>1 DEF Lists
    <3>3. Undisturbed
      BY <3>1 DEF Undisturbed
    <3>4. walk.in # NoThread =>
            /\ walk.pos <= Len(notify_listners')
            /\ \A i \in 1..walk.pos : notify_listners'[i] \in walk.told
      BY <3>2, <3>3 DEF WalkInv, Lists, Walks
    <3>5. walk.size < Len(notify_listners')
      BY <3>2, <3>3 DEF WalkInv, Lists, Walks
    <3>6. Len(notify_listners') \in Nat /\ walk.size \in Nat
      BY <3>2 DEF Lists, Walks
    <3>7. UNCHANGED <<walk, hooks, orphans, collected>>
      BY <3>1
    <3> QED
      BY <3>3, <3>4, <3>5, <3>6, <3>7 DEF WalkInv
  <2>6. ASSUME NEW th \in Thread, Collect(th) PROVE WalkInv'
    BY <2>6 DEF Collect, vars, WalkInv, Undisturbed, AllTold
  <2>7. ASSUME NEW th \in Thread, CallListener(th) PROVE WalkInv'
    <3>1. UNCHANGED <<notify_listners, hooks, orphans, collected>> /\ th \in walk.left
      BY <2>7 DEF CallListener, vars
    <3>2. /\ walk'.on = walk.on /\ walk'.left = walk.left \ {th} /\ walk'.in = th
          /\ walk'.pos = 0 /\ walk'.size = Len(notify_listners) /\ walk'.calm = walk.calm
          /\ walk'.thrown = walk.thrown /\ ~walk.thrown
      BY <2>7 DEF CallListener, Walks
    <3>3. Undisturbed
      BY <3>1, <3>2 DEF Undisturbed
    <3>4. walk.left \subseteq hooks
      BY <3>3 DEF WalkInv
    <3> QED
      BY <3>1, <3>2, <3>3, <3>4 DEF WalkInv, Lists
  <2>8. ASSUME NEW th \in Thread, CallNobody(th) PROVE WalkInv'
    <3>1. UNCHANGED <<notify_listners, hooks, orphans, collected>> /\ th \in walk.left
      BY <2>8 DEF CallNobody, vars
    <3>2. /\ walk'.on = walk.on /\ walk'.left = walk.left \ {th} /\ walk'.in = walk.in
          /\ walk'.size = walk.size /\ walk'.calm = walk.calm /\ walk'.told = walk.told
          /\ walk'.failed = walk.failed /\ walk.in = NoThread
      <4>1. PICK t : walk' = [walk EXCEPT !.left = @ \ {th}, !.thrown = t]
        BY <2>8 DEF CallNobody
      <4>2. walk.in = NoThread
        BY <2>8 DEF CallNobody
      <4> QED
        BY <4>1, <4>2 DEF Walks
    <3>3. Undisturbed
      BY <3>1, <3>2 DEF Undisturbed
    <3>4. walk.left \subseteq hooks
      BY <3>3 DEF WalkInv
    <3>5. walk.thrown
      BY <2>8, <3>1, <3>3, <3>4 DEF CallNobody, Undisturbed
    <3> QED
      BY <3>1, <3>2, <3>3, <3>4, <3>5 DEF WalkInv, AllTold
  <2>9. CASE Notify
    <3>1. UNCHANGED <<notify_listners, hooks, orphans, collected, life>>
      BY <2>9 DEF Notify, vars
    <3>2. /\ walk'.left = hooks /\ walk'.in = NoThread /\ walk'.size = 0 /\ walk'.thrown = FALSE
      BY <2>9 DEF Notify, NoWalk
    <3>3. OneStarter /\ orphans = {}
      BY <3>1 DEF Undisturbed, OneStarter
    <3>4. Serving \subseteq hooks
      BY <3>3 DEF ServiceInv, StartInv, OneStarter
    <3>5. hooks # {}
      BY <2>9, <3>3, <3>4 DEF Notify, Serving, InMain
    <3> QED
      BY <3>1, <3>2, <3>5 DEF WalkInv, Lists
  <2>10. CASE Tell \/ IteratorThrows \/ ClientThrows
    <3>1. /\ UNCHANGED <<notify_listners, hooks, orphans, collected>>
          /\ walk.in # NoThread /\ walk.pos < Len(notify_listners)
      BY <2>10 DEF Tell, IteratorThrows, ClientThrows, Telling, vars
    <3>2. walk'.on = walk.on /\ walk'.calm = walk.calm
      BY <2>10 DEF Tell, IteratorThrows, ClientThrows, Walks
    <3>3. Undisturbed
      BY <3>1, <3>2 DEF Undisturbed
    <3>4. /\ walk.left \subseteq hooks /\ hooks # {} /\ walk.left # hooks /\ ~walk.thrown
          /\ walk.size <= Len(notify_listners)
          /\ \A i \in 1..walk.pos : notify_listners[i] \in walk.told
      BY <3>1, <3>3 DEF WalkInv
    <3>5. CASE IteratorThrows
      <4>1. /\ walk'.in = NoThread /\ walk'.thrown = TRUE /\ walk'.left = walk.left
            /\ walk'.size = walk.size /\ walk.size # Len(notify_listners)
        BY <3>5 DEF IteratorThrows, Walks
      <4> QED
        BY <3>1, <3>4, <4>1 DEF WalkInv
    <3>6. CASE ClientThrows
      <4>1. /\ walk'.in = NoThread /\ walk'.thrown = TRUE /\ walk'.left = walk.left
            /\ walk'.size = walk.size /\ walk'.told = walk.told /\ walk'.failed = walk.pos + 1
        BY <3>6 DEF ClientThrows, Walks
      <4>2. AllTold'
        BY <3>1, <3>4, <4>1 DEF AllTold, Walks, Lists
      <4> QED
        BY <3>1, <3>4, <4>1, <4>2 DEF WalkInv
    <3>7. CASE Tell
      <4> DEFINE k == notify_listners[walk.pos + 1]
      <4>1. /\ walk'.in = walk.in /\ walk'.thrown = walk.thrown /\ walk'.left = walk.left
            /\ walk'.size = walk.size /\ walk'.told = walk.told \cup {k}
            /\ walk'.pos = walk.pos + 1
        BY <3>7 DEF Tell, Walks
      <4> QED
        BY <3>1, <3>4, <4>1 DEF WalkInv, Walks, Lists
    <3> QED
      BY <2>10, <3>5, <3>6, <3>7
  <2>11. CASE ToldAll
    <3>1. /\ UNCHANGED <<notify_listners, hooks, orphans, collected>>
          /\ walk.in # NoThread /\ walk.pos >= Len(notify_listners)
      BY <2>11 DEF ToldAll, vars
    <3>2. /\ walk'.on = walk.on /\ walk'.calm = walk.calm /\ walk'.in = NoThread
          /\ walk'.thrown = walk.thrown /\ walk'.left = walk.left
          /\ walk'.size = walk.size /\ walk'.told = walk.told
      BY <2>11 DEF ToldAll, Walks
    <3>3. Undisturbed
      BY <3>1, <3>2 DEF Undisturbed
    <3>4. AllTold'
      BY <3>1, <3>2, <3>3 DEF WalkInv, AllTold, Lists, Walks
    <3> QED
      BY <3>1, <3>2, <3>3, <3>4 DEF WalkInv
  <2>12. CASE Notified
    BY <2>12 DEF Notified, NoWalk, Undisturbed
  <2>13. CASE UNCHANGED allVars
    BY <2>13 DEF allVars, notifyVars, vars, WalkInv, Undisturbed, AllTold
  <2> QED
    BY <2>1, <2>2, <2>3, <2>4, <2>6, <2>7, <2>8, <2>9, <2>10, <2>11, <2>12, <2>13
       DEF NotifyNext
<1> QED
  BY <1>1, <1>2, NotifyTypeCorrect, NotifyingIsService, ServiceInvariant, PTL DEF NotifySpec

(***************************************************************************)
(* A notification that went through reached every client of the list up to *)
(* the first whose call threw.                                             *)
(***************************************************************************)
THEOREM ClientsAreNotified == NotifySpec => []NotifiedInOrder
<1>1. WalkInv => NotifiedInOrder
  BY DEF WalkInv, Undisturbed, AllTold, NotifiedInOrder
<1> QED
  BY <1>1, WalkInvariant, PTL
=============================================================================
