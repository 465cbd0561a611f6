---------------------------- MODULE NodeLifecycle ----------------------------
(***************************************************************************)
(* The reconciler together with what it operates on: the machine behind    *)
(* the NodeDeploy, and the Node object the machine has in the cluster.     *)
(*                                                                         *)
(* NodeDeployController leaves launchNode and deprecateNode as one step    *)
(* with any outcome.  Here they are the steps they consist of: the remote  *)
(* commands, watchNode, the labelling of the Node; the look-up of the      *)
(* Node, drainNode, the remote reset, the deletion of the Node.  Between   *)
(* any two of them the Node informer may lag, the kubelet, the scheduler,  *)
(* the clock, the user and other managers may act, and the process may     *)
(* die.                                                                    *)
(***************************************************************************)
EXTENDS NodeDeployController

CONSTANTS
  IsEvicted,     \* Spec.IsEvicted
  Unreachable    \* may the machine refuse an ssh connection?

ASSUME LifecycleAssumption == IsEvicted \in BOOLEAN /\ Unreachable \in BOOLEAN

VARIABLES
  node,       \* the Node object
  decorated,  \* has it the labels, taints and annotations of the stored spec?
  ncache,     \* ncache[m]: the copy in m's informer cache for Nodes
  nloc,       \* nloc[m]: the local variable node of deprecateNode
  pods,       \* do pods run on the node?
  host,       \* is the machine part of the cluster: "out" or "joined"
  step        \* step[m]: where m is in launchNode or deprecateNode

nodeVars == <<node, decorated, ncache, nloc, pods, host, step>>

Ready == { "none", "False", "True" }   \* the NodeReady condition, if any

NodeCopy == [ exists: BOOLEAN, ready: Ready, cordoned: BOOLEAN, ver: Version ]

NoNode == [ exists |-> FALSE, ready |-> "none", cordoned |-> FALSE, ver |-> "current" ]

Steps == { "start", "failed", "watch", "watching", "decorate",
           "cordon", "evict", "disjoin", "reset", "delete" }

LifecycleTypeOK ==
  /\ node \in NodeCopy /\ node.ver = "current"
  /\ decorated \in BOOLEAN
  /\ ncache \in [Managers -> NodeCopy]
  /\ nloc \in [Managers -> NodeCopy]
  /\ pods \in BOOLEAN
  /\ host \in { "out", "joined" }
  /\ step \in [Managers -> Steps]
  /\ \A m \in Managers : pc[m] # "work" => step[m] = "start"

LifecycleInit ==
  /\ Init
  /\ node = NoNode
  /\ decorated = FALSE
  /\ ncache = [m \in Managers |-> NoNode]
  /\ nloc = [m \in Managers |-> NoNode]
  /\ pods = FALSE
  /\ host = "out"
  /\ step = [m \in Managers |-> "start"]

-----------------------------------------------------------------------------
At(m, target, s) ==
  /\ pc[m] = "work"
  /\ loc[m].spec = target
  /\ step[m] = s

GoTo(m, s) ==
  /\ step' = [step EXCEPT ![m] = s]
  /\ UNCHANGED vars

\* Mutant: the call of Reconcile ends without finalize.
FinishUnfinalized(m, success, failed) ==
  /\ pc[m] = "work"
  /\ pc' = [pc EXCEPT ![m] = "idle"]
  /\ step' = [step EXCEPT ![m] = "start"]
  /\ nloc' = [nloc EXCEPT ![m] = NoNode]
  /\ UNCHANGED <<obj, cache, queued, loc, res, tries>>

\* launchNode or deprecateNode returns.
Finish(m, success, failed) ==
  /\ WorkDone(m, success, failed)
  /\ step' = [step EXCEPT ![m] = "start"]
  /\ nloc' = [nloc EXCEPT ![m] = NoNode]

\* The Node object becomes n, and no cached copy of it is current any more.
NodeBecomes(n, v) == node' = n /\ ncache' = Outdated(ncache, v)

-----------------------------------------------------------------------------
(***************************************************************************)
(* launchNode.                                                             *)
(***************************************************************************)

\* manager.LaunchByCmd: the machine joins, or its commands fail before they
\* touch its membership, after they reset it, or after it has joined.
LaunchByCmd(m) ==
  /\ At(m, NodeActive, "start")
  /\ \/ host' = "joined" /\ GoTo(m, "watch")
     \/ host' \in { host, "out", "joined" } /\ GoTo(m, "failed")
  /\ UNCHANGED <<node, decorated, ncache, nloc, pods>>

LaunchFails(m) ==
  /\ At(m, NodeActive, "failed")
  /\ Finish(m, FALSE, TRUE)
  /\ UNCHANGED <<node, decorated, ncache, pods, host>>

\* A condition of type NodeReady is enough, whatever its status.
nodeIsReady(n) == n.ready # "none"

\* watchNode: the cached Node is enough; without one, it waits for events.
WatchCached(m) ==
  /\ At(m, NodeActive, "watch")
  /\ GoTo(m, IF ncache[m].exists /\ nodeIsReady(ncache[m]) THEN "decorate"
                                                           ELSE "watching")
  /\ UNCHANGED <<node, decorated, ncache, nloc, pods, host>>

\* An event shows the Node, or the timer ends the attempt without an error.
WatchEvent(m) ==
  /\ At(m, NodeActive, "watching")
  /\ \/ node.exists /\ nodeIsReady(node) /\ GoTo(m, "decorate") /\ UNCHANGED nloc
     \/ Finish(m, FALSE, FALSE)
  /\ UNCHANGED <<node, decorated, ncache, pods, host>>

\* Mutant: the Node is written without regard to its version.
DecorateBlind(m) ==
  /\ At(m, NodeActive, "decorate")
  /\ IF ncache[m].exists /\ node.exists
     THEN NodeBecomes(node, "stale") /\ decorated' = TRUE
     ELSE UNCHANGED <<node, decorated, ncache>>
  /\ Finish(m, TRUE, FALSE)
  /\ UNCHANGED <<pods, host>>

\* Labels, taints and annotations go onto the cached Node and are written
\* back; a conflict is tried again until the retries are used up, any other
\* error ends the attempt.  They are those of the copy in hand, which may be
\* older than the stored spec.
Decorate(m) ==
  /\ At(m, NodeActive, "decorate")
  /\ \/ /\ ncache[m].exists /\ ncache[m].ver = "current"
        /\ NodeBecomes(node, "stale")
        /\ decorated' \in BOOLEAN
        /\ loc[m].ver = "current" => decorated'
        /\ \/ Finish(m, TRUE, FALSE)
           \/ "api" \in Faults /\ Finish(m, FALSE, TRUE)
     \/ /\ ~ncache[m].exists \/ ncache[m].ver # "current" \/ "api" \in Faults
        /\ UNCHANGED <<node, decorated, ncache>>
        /\ Finish(m, FALSE, TRUE)
  /\ UNCHANGED <<pods, host>>

-----------------------------------------------------------------------------
(***************************************************************************)
(* deprecateNode.                                                          *)
(***************************************************************************)
GetNode(m) ==
  /\ At(m, NodeInactive, "start")
  /\ \/ /\ ~ncache[m].exists
        /\ Finish(m, FALSE, TRUE)
     \/ /\ ncache[m].exists
        /\ nloc' = [nloc EXCEPT ![m] = ncache[m]]
        /\ GoTo(m, IF IsEvicted THEN "cordon" ELSE "disjoin")
  /\ UNCHANGED <<node, decorated, ncache, pods, host>>

\* drainNode, first half: the patch holds what differs from the copy in
\* hand, so a copy that is cordoned already patches nothing.
Cordon(m) ==
  /\ At(m, NodeInactive, "cordon")
  /\ \/ /\ node.exists
        /\ IF nloc[m].cordoned
           THEN UNCHANGED <<node, ncache>>
           ELSE NodeBecomes([node EXCEPT !.cordoned = TRUE], "stale")
        /\ \/ GoTo(m, "evict") /\ UNCHANGED nloc
           \/ "api" \in Faults /\ Finish(m, FALSE, FALSE)
     \/ /\ ~node.exists \/ "api" \in Faults
        /\ UNCHANGED <<node, ncache>>
        /\ Finish(m, FALSE, FALSE)
  /\ UNCHANGED <<decorated, pods, host>>

\* Mutant: the pods are listed and not evicted.
EvictSkipped(m) ==
  /\ At(m, NodeInactive, "evict")
  /\ GoTo(m, "disjoin")
  /\ UNCHANGED <<node, decorated, ncache, nloc, pods, host>>

\* drainNode, second half: pods it may not delete (daemon sets, unmanaged
\* pods, local data) are an error, the others are evicted.
Evict(m) ==
  /\ At(m, NodeInactive, "evict")
  /\ \/ pods' = FALSE /\ GoTo(m, "disjoin") /\ UNCHANGED nloc
     \/ UNCHANGED pods /\ Finish(m, FALSE, FALSE)
  /\ UNCHANGED <<node, decorated, ncache, host>>

\* Mutant: the error of the reset is dropped.
DeprecateIgnoringError(m) ==
  /\ At(m, NodeInactive, "disjoin")
  /\ host' \in { host, "out" }
  /\ GoTo(m, "delete")
  /\ UNCHANGED <<node, decorated, ncache, nloc, pods>>

\* manager.Deprecate: the reset runs and succeeds, or fails halfway.  When
\* the connection cannot be made the error is only logged, Exec panics on
\* the nil client, recovers, and returns no error.
Deprecate(m) ==
  /\ At(m, NodeInactive, "disjoin")
  /\ \/ host' = "out" /\ GoTo(m, "delete")
     \/ host' \in { host, "out" } /\ GoTo(m, "reset")
     \/ Unreachable /\ UNCHANGED host /\ GoTo(m, "delete")
  /\ UNCHANGED <<node, decorated, ncache, nloc, pods>>

DeprecateFails(m) ==
  /\ At(m, NodeInactive, "reset")
  /\ Finish(m, FALSE, TRUE)
  /\ UNCHANGED <<node, decorated, ncache, pods, host>>

\* r.Delete(ctx, node): by name, whatever object has that name by now.
DeleteNode(m) ==
  /\ At(m, NodeInactive, "delete")
  /\ \/ /\ node.exists
        /\ NodeBecomes(NoNode, "gone")
        /\ decorated' = FALSE
        /\ pods' = FALSE
        /\ \/ Finish(m, TRUE, FALSE)
           \/ "api" \in Faults /\ Finish(m, FALSE, TRUE)
     \/ /\ ~node.exists \/ "api" \in Faults
        /\ UNCHANGED <<node, decorated, ncache, pods>>
        /\ Finish(m, FALSE, TRUE)
  /\ UNCHANGED host

-----------------------------------------------------------------------------
(***************************************************************************)
(* The cluster: kubelet, scheduler and the Node informers (external).      *)
(***************************************************************************)
Register ==
  /\ host = "joined"
  /\ ~node.exists
  /\ NodeBecomes([NoNode EXCEPT !.exists = TRUE], "gone")
  /\ UNCHANGED <<vars, decorated, nloc, pods, host, step>>

Heartbeat(ready) ==
  /\ node.exists
  /\ ready # node.ready
  /\ ready # "none"
  /\ NodeBecomes([node EXCEPT !.ready = ready], "stale")
  /\ UNCHANGED <<vars, decorated, nloc, pods, host, step>>

\* pods stands for those that drainNode has to evict; the pods of daemon
\* sets, which tolerate the cordon, are not among them.  The scheduler is
\* taken to see the cordon at once.
Schedule ==
  /\ node.exists /\ node.ready = "True" /\ ~node.cordoned
  /\ pods' = TRUE
  /\ UNCHANGED <<vars, node, decorated, ncache, nloc, host, step>>

DeliverNode(m) ==
  /\ ncache' = [ncache EXCEPT ![m] = node]
  /\ UNCHANGED <<vars, node, decorated, nloc, pods, host, step>>

-----------------------------------------------------------------------------
\* Mutant: the position in the operation survives the process.
CrashAllKeepsStep(m) ==
  /\ Crash(m)
  /\ nloc' = [nloc EXCEPT ![m] = NoNode]
  /\ UNCHANGED <<node, decorated, ncache, pods, host, step>>

\* The process dies in the middle of an operation: the machine and the Node
\* stay as they are.  A new process lists the Nodes afresh.
CrashAll(m) ==
  /\ Crash(m)
  /\ step' = [step EXCEPT ![m] = "start"]
  /\ nloc' = [nloc EXCEPT ![m] = NoNode]
  /\ UNCHANGED <<node, decorated, ncache, pods, host>>

RestartAll(m) ==
  /\ Restart(m)
  /\ ncache' = [ncache EXCEPT ![m] = node]
  /\ UNCHANGED <<node, decorated, nloc, pods, host, step>>

\* The user edits, deletes or creates the NodeDeploy.  The labels, taints
\* and annotations of the stored spec are then any, those of the Node are
\* what they were.
UserAll ==
  /\ User
  /\ decorated' \in { FALSE, node.exists }
  /\ UNCHANGED <<node, ncache, nloc, pods, host, step>>

launchNode(m) ==
  \/ LaunchByCmd(m) \/ LaunchFails(m)
  \/ WatchCached(m) \/ WatchEvent(m) \/ Decorate(m)

deprecateNode(m) ==
  \/ GetNode(m) \/ Cordon(m) \/ Evict(m)
  \/ Deprecate(m) \/ DeprecateFails(m) \/ DeleteNode(m)

Cluster ==
  \/ Register \/ Schedule
  \/ \E ready \in Ready : Heartbeat(ready)
  \/ \E m \in Managers : DeliverNode(m)

LifecycleNext ==
  \/ \E m \in Managers :
       \/ launchNode(m) \/ deprecateNode(m)
       \/ (Reconcile(m) \/ Deliver(m) \/ Resync(m)) /\ UNCHANGED nodeVars
       \/ CrashAll(m) \/ RestartAll(m)
  \/ UserAll
  \/ Tick /\ UNCHANGED nodeVars
  \/ Cluster

LifecycleSpec == LifecycleInit /\ [][LifecycleNext]_<<vars, nodeVars>>

-----------------------------------------------------------------------------
(***************************************************************************)
(* Properties.  Those about the outcome of an operation are stated for one *)
(* manager: a second one that is past its deadline still finishes what it  *)
(* was doing to the machine.                                               *)
(***************************************************************************)

\* The steps of launchNode and deprecateNode are steps of the controller
\* with some outcome: everything shown of NodeDeployController holds here.
ControllerSpec == Spec

\* As finalize writes it; where the fallback wrote Active without looking,
\* the passed deadline still stands beside it.
ReadsActive == obj.status = NodeActive /\ obj.deadline = NoDeadline

\* An object comes to read Active when the stored Node has the labels, taints
\* and annotations of the stored spec, and it has a Node for as long as it
\* reads so.  A stale cached Node lets watchNode pass but not the write of
\* the labels, and an edit during the launch lets that write pass but not
\* finalize.  An edit after the launch is another matter: Reconcile returns
\* at once for an object that has its target, and nobody labels the Node.
ActiveIsDecorated ==
  [][ ReadsActive' => node'.exists /\ (~ReadsActive => decorated') ]_<<vars, nodeVars>>

\* An object that reads Inactive without a deadline has a machine that was
\* reset and no Node, and none can come back by itself.  Again the fallback,
\* which takes the machine to be where it was before, shows by the deadline
\* it leaves.
InactiveIsOut ==
  obj.status = NodeInactive /\ obj.deadline = NoDeadline => host = "out" /\ ~node.exists

\* With IsEvicted, a Node that was cordoned is not deleted while pods run on
\* it: the pods are evicted after the cordon and before the deletion, in
\* every attempt, whatever an earlier attempt left behind.
CordonedIsDrained ==
  [][ IsEvicted /\ node.exists /\ ~node'.exists /\ node.cordoned => ~pods
    ]_<<vars, nodeVars>>

\* "isEvicted: whether pods are evicted when the node goes offline" (the
\* README): with IsEvicted no Node is deleted while pods run on it.
EvictedBeforeDelete ==
  [][ IsEvicted /\ node.exists /\ ~node'.exists => ~pods ]_<<vars, nodeVars>>

\* "node %s ready: %v" (the event of watchNode): the Node that lets a launch
\* go on is ready.
ReadyIsReady ==
  [][ \A m \in Managers :
        step[m] \in { "watch", "watching" } /\ step'[m] = "decorate"
        => \E n \in { ncache[m], node } : n.exists /\ n.ready = "True"
    ]_<<vars, nodeVars>>

=============================================================================
