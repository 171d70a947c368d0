----------------------------- MODULE NodeNotify -----------------------------
(***************************************************************************)
(* Notifications of the Android node.  A thread of the node calls          *)
(* notifycallback of sources/android/node_jni.cpp, which calls onNotify of *)
(* every native listener, and this calls the clients that NodeService.java *)
(* has in notify_listners.  Meanwhile clients register and die, the node   *)
(* ends, and the garbage collector takes listeners, which native code      *)
(* holds by a weak reference only.                                         *)
(*                                                                         *)
(* One notification is under way at a time.  The order of the native       *)
(* listeners is left open.                                                 *)
(***************************************************************************)
EXTENDS NodeService, Naturals, SequencesExt

CONSTANTS
  Client,           \* listeners of client processes
  MaxListeners      \* bound on the length of notify_listners

ASSUME MaxListenersAssumption == MaxListeners \in Nat

VARIABLES
  notify_listners,  \* of this service
  collected,        \* threads whose native listener was collected
  walk              \* the notification under way

notifyVars == <<notify_listners, collected, walk>>
allVars == <<vars, notifyVars>>

\* The place of a notification: the native listeners it has not called yet; the
\* one it is in and, for the iterator of onNotify, how many clients it has told
\* and how long the list was when it began; the clients told in all; whether an
\* exception is pending, and the place in the list of the client whose call threw
\* it, else 0; and whether the native listeners stayed as they were.
NoWalk == [on |-> FALSE, left |-> {}, in |-> NoThread, pos |-> 0, size |-> 0,
           told |-> {}, thrown |-> FALSE, failed |-> 0, calm |-> TRUE]

NotifyInit ==
  /\ Init
  /\ notify_listners = <<>>
  /\ collected = {}
  /\ walk = NoWalk

-----------------------------------------------------------------------------
\* setNotifyLisnter: notify_listners.add, also of a listener that is in the list.
SetNotifyLisnter(k) ==
  /\ Len(notify_listners) < MaxListeners
  /\ notify_listners' = Append(notify_listners, k)
  /\ UNCHANGED <<vars, collected, walk>>

\* Nothing but the weak reference refers to the listener of a node that runs.
Collect(th) ==
  /\ th \in hooks \ collected
  /\ ~(walk.on /\ walk.in = th)
  /\ collected' = collected \cup {th}
  /\ UNCHANGED <<vars, notify_listners, walk>>

-----------------------------------------------------------------------------
\* notifycallback, from a thread of a node whose main() runs.
Notify ==
  /\ ~walk.on
  /\ \E th \in Thread : life[th] = "main"
  /\ walk' = [NoWalk EXCEPT !.on = TRUE, !.left = hooks]
  /\ UNCHANGED <<vars, notify_listners, collected>>

\* callOnNotify: CallVoidMethod on a listener.
CallListener(th) ==
  /\ walk.on /\ walk.in = NoThread /\ th \in walk.left
  /\ th \in hooks \ (collected \cup orphans) /\ ~walk.thrown
  /\ walk' = [walk EXCEPT !.left = @ \ {th}, !.in = th, !.pos = 0, !.size = Len(notify_listners)]
  /\ UNCHANGED <<vars, notify_listners, collected>>

\* The same on a reference that was collected or deleted, or with an exception
\* pending, when nothing is called if the process survives it; or on the listener
\* of a destroyed service, whose clients are not followed.
CallNobody(th) ==
  /\ walk.on /\ walk.in = NoThread /\ th \in walk.left
  /\ th \notin hooks \ (collected \cup orphans) \/ walk.thrown
  /\ walk' \in {[walk EXCEPT !.left = @ \ {th}, !.thrown = t] : t \in {walk.thrown, TRUE}}
  /\ UNCHANGED <<vars, notify_listners, collected>>

\* onNotify: for (listner : notify_listners) listner.onNotify.
Telling ==
  /\ walk.on /\ walk.in # NoThread
  /\ walk.pos < Len(notify_listners)
  /\ UNCHANGED <<vars, notify_listners, collected>>

\* The iterator throws when the list has grown.
IteratorThrows ==
  /\ Telling
  /\ Len(notify_listners) # walk.size
  /\ walk' = [walk EXCEPT !.in = NoThread, !.thrown = TRUE]

\* Mutant of Tell: the list is walked from its second element.
TellOthers ==
  /\ Telling
  /\ Len(notify_listners) = walk.size
  /\ LET k == notify_listners[walk.pos + 1] IN
       walk' = [walk EXCEPT !.pos = @ + 1, !.told = IF walk.pos = 0 THEN @ ELSE @ \cup {k}]

\* The next client is told.
Tell ==
  /\ Telling
  /\ Len(notify_listners) = walk.size
  /\ LET k == notify_listners[walk.pos + 1] IN
       walk' = [walk EXCEPT !.pos = @ + 1, !.told = @ \cup {k}]

\* The call of the next client throws: it answers with an exception, or its
\* process is gone, which its listener in the list outlives.
ClientThrows ==
  /\ Telling
  /\ Len(notify_listners) = walk.size
  /\ walk' = [walk EXCEPT !.in = NoThread, !.thrown = TRUE, !.failed = walk.pos + 1]

\* onNotify returns at the end of the list.
ToldAll ==
  /\ walk.on /\ walk.in # NoThread
  /\ walk.pos >= Len(notify_listners)
  /\ walk' = [walk EXCEPT !.in = NoThread]
  /\ UNCHANGED <<vars, notify_listners, collected>>

\* notifycallback describes an exception, which clears it, and returns.
Notified ==
  /\ walk.on /\ walk.in = NoThread /\ walk.left = {}
  /\ walk' = NoWalk
  /\ UNCHANGED <<vars, notify_listners, collected>>

-----------------------------------------------------------------------------
\* The steps of the service.  Its thread deletes the references to listeners when
\* a node ends, which may be in the midst of a notification.
Beside ==
  /\ collected' = collected \cap hooks'
  /\ walk' = [walk EXCEPT !.calm = @ /\ (walk.on => hooks' = hooks)]
  /\ UNCHANGED notify_listners

ServiceStep == Calls /\ Beside

\* A new service has a list of its own.  A walk of the old one is not followed.
ServiceDestroyed ==
  /\ OnDestroy
  /\ notify_listners' = <<>>
  /\ walk' = [walk EXCEPT !.in = NoThread, !.calm = ~walk.on]
  /\ UNCHANGED collected

\* Killed by Android, or by an uncaught error; clients bind again.
Killed ==
  /\ ProcessKilled
  /\ notify_listners' = <<>>
  /\ collected' = {}
  /\ walk' = NoWalk

NotifyNext ==
  \/ ServiceStep \/ ServiceDestroyed \/ Killed
  \/ \E k \in Client : SetNotifyLisnter(k)
  \/ \E th \in Thread : Collect(th) \/ CallListener(th) \/ CallNobody(th)
  \/ Notify \/ IteratorThrows \/ Tell \/ ClientThrows \/ ToldAll \/ Notified

NotifySpec == NotifyInit /\ [][NotifyNext]_allVars

\* As FairSpec.  A client may keep a notification for ever.
NotifyFairSpec ==
  /\ NotifySpec
  /\ \A th \in Thread : WF_allVars(ThreadStep(th) /\ Beside)
  /\ \A c \in Stopper : WF_allVars(StopReturns(c) /\ Beside)

-----------------------------------------------------------------------------
NotifyTypeOK ==
  /\ TypeOK
  /\ notify_listners \in Seq(Client)
  /\ collected \in SUBSET Thread
  /\ walk \in [on : BOOLEAN, left : SUBSET Thread, in : Thread \cup {NoThread}, pos : Nat,
               size : Nat, told : SUBSET Client, thrown : BOOLEAN, failed : Nat, calm : BOOLEAN]

\* A notification that went through reached every client of the list up to the
\* first whose call threw; only a client added while the list was walked, and a
\* listener that was collected or belongs to a node that ended, can cost them the
\* notification.
NotifiedInOrder ==
  /\ walk.on /\ walk.in = NoThread /\ walk.left = {}
  /\ walk.calm /\ OneStarter /\ orphans = {} /\ hooks \cap collected = {}
  /\ walk.size = Len(notify_listners)
  => \A i \in DOMAIN notify_listners :
       walk.failed = 0 \/ i < walk.failed => notify_listners[i] \in walk.told
=============================================================================
