---------------------------- MODULE NodeService ----------------------------
(***************************************************************************)
(* The Android service around the node: the binder calls startNode and     *)
(* stopNode of os/android/.../NodeService.java, which clients make from    *)
(* several binder threads at once, the Java thread that runs main() of the *)
(* node, and the list of native listeners of sources/android/node_jni.cpp. *)
(* Android may destroy the service, which does not stop its node, and make *)
(* a new one in the same process, or kill the process.                     *)
(*                                                                         *)
(* No lock protects isServiceStarted and nodeThread: every read and every  *)
(* write of them is a step of its own, except that stopNode tests its      *)
(* condition in one step (within a service the field never becomes null    *)
(* again).  Reads return the last value written.  A thread object that     *)
(* ended and that nothing refers to may be used again for a new one, so    *)
(* starts are not bounded.                                                 *)
(***************************************************************************)

CONSTANTS
  Starter,    \* binder threads that serve startNode
  Stopper,    \* binder threads that serve stopNode
  Thread,     \* thread objects
  NoThread    \* null

ASSUME NoThreadAssumption == NoThread \notin Thread
ASSUME CallersAssumption == Starter \cap Stopper = {}

VARIABLES
  isServiceStarted,
  nodeThread,
  life,       \* life[th]: where thread th is in run()
  hooks,      \* threads whose listener is in listeners_vector
  pc,         \* where each binder thread is in its call
  joins,      \* the thread a stopNode waits for
  serving,    \* the nodes that served when a stopNode began
  orphans     \* threads of services that were destroyed

vars == <<isServiceStarted, nodeThread, life, hooks, pc, joins, serving, orphans>>

Lives == {"free", "created", "run", "main", "clear", "unset", "over"}
Live == {"run", "main", "clear", "unset"}

\* The nodes that run main(), and those of them that belong to this service.
InMain == {th \in Thread : life[th] = "main"}
Serving == InMain \ orphans

Init ==
  /\ isServiceStarted = FALSE
  /\ nodeThread = NoThread
  /\ life = [th \in Thread |-> "free"]
  /\ hooks = {}
  /\ pc = [c \in Starter \cup Stopper |-> "idle"]
  /\ joins = [c \in Stopper |-> NoThread]
  /\ serving = [c \in Stopper |-> {}]
  /\ orphans = {}

Goto(c, to) == pc' = [pc EXCEPT ![c] = to]
Turn(th, to) == life' = [life EXCEPT ![th] = to]

-----------------------------------------------------------------------------
\* Mutant of RunNode: no "if (isServiceStarted) return".
RunNodeUnchecked(c) ==
  /\ pc[c] = "idle"
  /\ Goto(c, "create")
  /\ UNCHANGED <<isServiceStarted, nodeThread, life, hooks, joins, serving, orphans>>

\* runNode(): if (isServiceStarted) return
RunNode(c) ==
  /\ pc[c] = "idle"
  /\ ~isServiceStarted
  /\ Goto(c, "create")
  /\ UNCHANGED <<isServiceStarted, nodeThread, life, hooks, joins, serving, orphans>>

\* nodeThread = new Thread(...)
NewThread(c, th) ==
  /\ pc[c] = "create"
  /\ life[th] \in {"free", "over"} /\ th \notin orphans \cup {nodeThread}
  /\ \A d \in Stopper : joins[d] # th /\ th \notin serving[d]
  /\ nodeThread' = th
  /\ Turn(th, "created")
  /\ Goto(c, "start")
  /\ UNCHANGED <<isServiceStarted, hooks, joins, serving, orphans>>

\* nodeThread.start(): of the thread the field holds now.  Starting it a second
\* time throws, and the call ends.
ThreadStart(c) ==
  /\ pc[c] = "start"
  /\ IF life[nodeThread] = "created"
       THEN Turn(nodeThread, "run") /\ Goto(c, "flag")
       ELSE Goto(c, "idle") /\ UNCHANGED life
  /\ UNCHANGED <<isServiceStarted, nodeThread, hooks, joins, serving, orphans>>

\* Mutant of SetStarted: the flag is left to the thread.
SetNothing(c) ==
  /\ pc[c] = "flag"
  /\ Goto(c, "idle")
  /\ UNCHANGED <<isServiceStarted, nodeThread, life, hooks, joins, serving, orphans>>

\* isServiceStarted = true
SetStarted(c) ==
  /\ pc[c] = "flag"
  /\ isServiceStarted' = TRUE
  /\ Goto(c, "idle")
  /\ UNCHANGED <<nodeThread, life, hooks, joins, serving, orphans>>

-----------------------------------------------------------------------------
\* run(): setNotifyListenerNativeCallback, then nodeMainNative calls main().
Register(th) ==
  /\ life[th] = "run"
  /\ hooks' = hooks \cup {th}
  /\ Turn(th, "main")
  /\ UNCHANGED <<isServiceStarted, nodeThread, pc, joins, serving, orphans>>

\* main() returns, when a stage of its boot fails or its event loop ends.
MainReturns(th) ==
  /\ life[th] = "main"
  /\ Turn(th, "clear")
  /\ UNCHANGED <<isServiceStarted, nodeThread, hooks, pc, joins, serving, orphans>>

\* clearNotifyListenerNativeCallbacks: the listeners of all threads.
ClearListeners(th) ==
  /\ life[th] = "clear"
  /\ hooks' = {}
  /\ Turn(th, "unset")
  /\ UNCHANGED <<isServiceStarted, nodeThread, pc, joins, serving, orphans>>

\* Mutant of UnsetStarted: the thread object is dropped.
UnsetAndDrop(th) ==
  /\ life[th] = "unset"
  /\ isServiceStarted' = FALSE
  /\ Turn(th, "dropped")
  /\ UNCHANGED <<nodeThread, hooks, pc, joins, serving, orphans>>

\* isServiceStarted = false, in the service that started the thread.
UnsetStarted(th) ==
  /\ life[th] = "unset"
  /\ isServiceStarted' = (isServiceStarted /\ th \in orphans)
  /\ Turn(th, "over")
  /\ UNCHANGED <<nodeThread, hooks, pc, joins, serving, orphans>>

-----------------------------------------------------------------------------
\* stopNode(): if (nodeThread == null || !isServiceStarted) return true; then
\* interrupt(), which native code does not notice.
StopNode(c) ==
  /\ pc[c] = "idle"
  /\ nodeThread # NoThread /\ isServiceStarted
  /\ serving' = [serving EXCEPT ![c] = Serving]
  /\ Goto(c, "join")
  /\ UNCHANGED <<isServiceStarted, nodeThread, life, hooks, joins, orphans>>

\* nodeThread.join() reads the field again and waits for the thread it finds.
Join(c) ==
  /\ pc[c] = "join"
  /\ joins' = [joins EXCEPT ![c] = nodeThread]
  /\ Goto(c, "wait")
  /\ UNCHANGED <<isServiceStarted, nodeThread, life, hooks, serving, orphans>>

\* Mutant of StopReturns: interrupt() only, nothing is waited for.
StopReturnsEarly(c) ==
  /\ pc[c] = "wait"
  /\ joins' = [joins EXCEPT ![c] = NoThread]
  /\ serving' = [serving EXCEPT ![c] = {}]
  /\ Goto(c, "idle")
  /\ UNCHANGED <<isServiceStarted, nodeThread, life, hooks, orphans>>

\* Mutant of StopReturns: the wait is for the thread the field holds.
StopReturnsLate(c) ==
  /\ pc[c] = "wait"
  /\ \A th \in Thread : nodeThread = th => life[th] \in {"created", "over"}
  /\ joins' = [joins EXCEPT ![c] = NoThread]
  /\ serving' = [serving EXCEPT ![c] = {}]
  /\ Goto(c, "idle")
  /\ UNCHANGED <<isServiceStarted, nodeThread, life, hooks, orphans>>

\* A thread that has not been started, or that ended, is not waited for.
StopReturns(c) ==
  /\ pc[c] = "wait"
  /\ life[joins[c]] \in {"created", "over"}
  /\ joins' = [joins EXCEPT ![c] = NoThread]
  /\ serving' = [serving EXCEPT ![c] = {}]
  /\ Goto(c, "idle")
  /\ UNCHANGED <<isServiceStarted, nodeThread, life, hooks, orphans>>

-----------------------------------------------------------------------------
\* The service is destroyed when no client is bound to it: onDestroy releases the
\* wake lock and leaves the node alone.  The next bind makes a new service.  A
\* startNode, which never waits, has returned by then; the stopNode of a client
\* that died or unbound waits on, for the thread its service's field holds.
OnDestroy ==
  /\ \A c \in Starter : pc[c] = "idle"
  /\ isServiceStarted' = FALSE
  /\ nodeThread' = NoThread
  /\ orphans' = orphans \cup {th \in Thread : life[th] \in Live}
  /\ joins' = [c \in Stopper |-> IF pc[c] = "join" THEN nodeThread ELSE joins[c]]
  /\ pc' = [c \in Starter \cup Stopper |-> IF pc[c] = "join" THEN "wait" ELSE pc[c]]
  /\ UNCHANGED <<life, hooks, serving>>

\* The process is killed by Android, or by an uncaught error, with all that its
\* memory held.
ProcessKilled ==
  /\ isServiceStarted' = FALSE
  /\ nodeThread' = NoThread
  /\ life' = [th \in Thread |-> "free"]
  /\ hooks' = {}
  /\ pc' = [c \in Starter \cup Stopper |-> "idle"]
  /\ joins' = [c \in Stopper |-> NoThread]
  /\ serving' = [c \in Stopper |-> {}]
  /\ orphans' = {}

StartStep(c) ==
  RunNode(c) \/ (\E th \in Thread : NewThread(c, th)) \/ ThreadStart(c) \/ SetStarted(c)

\* The steps of run() but the return of main().
ThreadStep(th) == Register(th) \/ ClearListeners(th) \/ UnsetStarted(th)

Calls ==
  \/ \E c \in Starter : StartStep(c)
  \/ \E th \in Thread : ThreadStep(th) \/ MainReturns(th)
  \/ \E c \in Stopper : StopNode(c) \/ Join(c) \/ StopReturns(c)

Next == Calls \/ OnDestroy \/ ProcessKilled

Spec == Init /\ [][Next]_vars

\* Threads that can run do run.  main() may serve for ever.
FairSpec ==
  /\ Spec
  /\ \A th \in Thread : WF_vars(ThreadStep(th))
  /\ \A c \in Stopper : WF_vars(StopReturns(c))

-----------------------------------------------------------------------------
TypeOK ==
  /\ isServiceStarted \in BOOLEAN
  /\ nodeThread \in Thread \cup {NoThread}
  /\ life \in [Thread -> Lives]
  /\ hooks \in SUBSET Thread
  /\ pc \in [Starter \cup Stopper -> {"idle", "create", "start", "flag", "join", "wait"}]
  /\ joins \in [Stopper -> Thread \cup {NoThread}]
  /\ serving \in [Stopper -> SUBSET Thread]
  /\ orphans \in SUBSET Thread

\* A single client starts the node; any number may stop it.
OneStarter == \E c \in Starter : Starter = {c}

\* Then at most one thread of a service is between its start and the end of
\* run(): main() of the node is not entered by a second one, unless the service
\* was destroyed under the first.
OneNodeThread ==
  OneStarter => \A th, other \in Thread \ orphans :
    life[th] \in Live /\ life[other] \in Live => th = other

\* A node that serves has its listener registered: the end of an earlier node,
\* which clears the listeners of all, does not take it away, unless that node
\* outlived its service.
ListenerStands == OneStarter /\ orphans = {} => Serving \subseteq hooks

\* A node that serves is reported by isNodeRunning once startNode has returned,
\* so a later startNode finds it and a stopNode waits for it.
ServingReported ==
  OneStarter /\ Serving # {} /\ (\A c \in Starter : pc[c] = "idle")
    => isServiceStarted /\ nodeThread \in Serving

\* When stopNode has waited and returns, every node that served when it was
\* called has ended, although the field may hold another thread by then, or the
\* service may be another one.
StopMeansStopped ==
  [][OneStarter => \A c \in Stopper :
       pc[c] = "wait" /\ pc'[c] = "idle" => serving[c] \cap InMain' = {}]_vars

\* A stopNode returns once the node it waits for has left main(), although
\* another client may have started the next node, or the service may have been
\* destroyed, by then.
StopEnds ==
  \A c \in Stopper :
    (\E th \in Thread : pc[c] = "wait" /\ joins[c] = th /\ life[th] \in {"clear", "unset", "over"})
      ~> pc[c] = "idle"

\* isNodeRunning is true only while a node thread exists.
ReportIsTrue ==
  isServiceStarted /\ (\A c \in Starter : pc[c] = "idle")
    => \E th \in Thread : life[th] \in Live
=============================================================================
