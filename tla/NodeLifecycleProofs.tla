------------------------ MODULE NodeLifecycleProofs ------------------------
(***************************************************************************)
(* NodeLifecycle implements NodeDeployController: whatever launchNode and  *)
(* deprecateNode do to the machine and to the Node, to the object they are *)
(* an operation with some outcome.  The proved properties of the           *)
(* controller are therefore properties of the whole.                       *)
(***************************************************************************)
EXTENDS NodeLifecycle, NodeLeaseProofs

\* A step inside of launchNode or deprecateNode does not touch the object, a
\* return from them is the step WorkDone.
LEMMA FinishIsWorkDone ==
  ASSUME NEW m \in Managers, NEW success \in BOOLEAN, NEW failed \in BOOLEAN,
         Finish(m, success, failed)
  PROVE  Next
BY DEF Finish, Next, Work

\* Every step of the lifecycle is a step of the controller or leaves the
\* controller's variables alone.
LEMMA LifecycleStep ==
  ASSUME [LifecycleNext]_<<vars, nodeVars>>
  PROVE  [Next]_vars
<1>1. ASSUME NEW m \in Managers, launchNode(m) PROVE Next \/ UNCHANGED vars
  BY <1>1, FinishIsWorkDone
     DEF launchNode, LaunchByCmd, LaunchFails, WatchCached, WatchEvent, Decorate, GoTo
<1>2. ASSUME NEW m \in Managers, deprecateNode(m) PROVE Next \/ UNCHANGED vars
  BY <1>2, FinishIsWorkDone
     DEF deprecateNode, GetNode, Cordon, Evict, Deprecate, DeprecateFails, DeleteNode, GoTo
<1>3. ASSUME Cluster PROVE UNCHANGED vars
  BY <1>3 DEF Cluster, Register, Heartbeat, Schedule, DeliverNode
<1> QED
  BY <1>1, <1>2, <1>3 DEF LifecycleNext, Next, CrashAll, RestartAll, UserAll

\* The detailed operations implement the abstract ones.
THEOREM Refinement == LifecycleSpec => ControllerSpec
<1>1. LifecycleInit => Init
  BY DEF LifecycleInit
<1>2. [LifecycleNext]_<<vars, nodeVars>> => [Next]_vars
  BY LifecycleStep
<1> QED
  BY <1>1, <1>2, PTL DEF LifecycleSpec, ControllerSpec, Spec

\* The lock holds for the whole system, with the machine and the Node in it:
\* within their deadlines no two managers operate on one NodeDeploy.
THEOREM LifecycleExclusion == LifecycleSpec => []NoOverlap /\ OutcomeMatchesTarget
BY Refinement, MutualExclusion, OutcomeCorrect, PTL DEF ControllerSpec

\* The lease holds for the whole system too.
THEOREM LifecycleLease == LifecycleSpec => LeaseSpec
BY Refinement, LeaseImplemented, PTL DEF ControllerSpec

-----------------------------------------------------------------------------
(***************************************************************************)
(* Types of the lifecycle.                                                 *)
(***************************************************************************)

\* Cached Nodes that were told of a change are Nodes.
LEMMA OutdatedNodes ==
  ASSUME NEW S \in [Managers -> NodeCopy], NEW v \in { "stale", "gone" }
  PROVE  Outdated(S, v) \in [Managers -> NodeCopy]
BY DEF Outdated, NodeCopy, Version

\* The Node that is not there is a Node, and so are the Nodes the steps make
\* out of the stored one.
LEMMA NodeCopyFacts ==
  /\ NoNode \in NodeCopy /\ NoNode.ver = "current"
  /\ [NoNode EXCEPT !.exists = TRUE] \in NodeCopy
  /\ [NoNode EXCEPT !.exists = TRUE].ver = "current"
  /\ \A n \in NodeCopy :
       /\ [n EXCEPT !.cordoned = TRUE] \in NodeCopy
       /\ [n EXCEPT !.cordoned = TRUE].ver = n.ver
       /\ \A r \in Ready : /\ [n EXCEPT !.ready = r] \in NodeCopy
                           /\ [n EXCEPT !.ready = r].ver = n.ver
BY DEF NoNode, NodeCopy, Version, Ready

\* A new Node keeps the types of the two variables it is written to.
LEMMA NodeBecomesTypes ==
  ASSUME LifecycleTypeOK, NEW n \in NodeCopy, n.ver = "current",
         NEW v \in { "stale", "gone" }, NodeBecomes(n, v)
  PROVE  node' \in NodeCopy /\ node'.ver = "current" /\ ncache' \in [Managers -> NodeCopy]
BY OutdatedNodes DEF NodeBecomes, LifecycleTypeOK

\* A return of an operation leaves its steps at their beginning.
LEMMA FinishTypes ==
  ASSUME TypeOK, LifecycleTypeOK, NEW m \in Managers,
         NEW success \in BOOLEAN, NEW failed \in BOOLEAN, Finish(m, success, failed)
  PROVE  /\ nloc' \in [Managers -> NodeCopy]
         /\ step' \in [Managers -> Steps]
         /\ \A n \in Managers : pc'[n] # "work" => step'[n] = "start"
<1>1. /\ step' = [step EXCEPT ![m] = "start"]
      /\ nloc' = [nloc EXCEPT ![m] = NoNode]
      /\ \A n \in Managers \ { m } : pc'[n] = pc[n]
  BY DEF Finish, WorkDone, FailAttempt, TypeOK
<1> QED
  BY <1>1, NodeCopyFacts DEF LifecycleTypeOK, Steps

\* A step inside of an operation keeps it under way.
LEMMA GoToTypes ==
  ASSUME LifecycleTypeOK, NEW m \in Managers, NEW s \in Steps, pc[m] = "work", GoTo(m, s)
  PROVE  /\ step' \in [Managers -> Steps]
         /\ \A n \in Managers : pc'[n] # "work" => step'[n] = "start"
<1>1. pc' = pc /\ step' = [step EXCEPT ![m] = s]
  BY DEF GoTo, vars
<1> QED
  BY <1>1 DEF LifecycleTypeOK

\* The steps of launchNode keep the types.
LEMMA LaunchTypes ==
  ASSUME TypeOK, LifecycleTypeOK, NEW m \in Managers, launchNode(m)
  PROVE  LifecycleTypeOK'
<1> USE DEF LifecycleTypeOK
<1>1. CASE LaunchByCmd(m)
  <2>1. pc[m] = "work" /\ \E s \in { "watch", "failed" } : GoTo(m, s)
    BY <1>1 DEF LaunchByCmd, At
  <2>2. /\ step' \in [Managers -> Steps]
        /\ \A n \in Managers : pc'[n] # "work" => step'[n] = "start"
    BY <2>1, GoToTypes DEF Steps
  <2> QED
    BY <1>1, <2>2 DEF LaunchByCmd
<1>2. CASE LaunchFails(m)
  BY <1>2, FinishTypes DEF LaunchFails
<1>3. CASE WatchCached(m)
  <2>1. pc[m] = "work" /\ \E s \in { "decorate", "watching" } : GoTo(m, s)
    BY <1>3 DEF WatchCached, At
  <2>2. /\ step' \in [Managers -> Steps]
        /\ \A n \in Managers : pc'[n] # "work" => step'[n] = "start"
    BY <2>1, GoToTypes DEF Steps
  <2> QED
    BY <1>3, <2>2 DEF WatchCached
<1>4. CASE WatchEvent(m)
  <2>1. CASE GoTo(m, "decorate") /\ UNCHANGED nloc
    <3>1. /\ step' \in [Managers -> Steps]
          /\ \A n \in Managers : pc'[n] # "work" => step'[n] = "start"
      BY <1>4, <2>1, GoToTypes DEF WatchEvent, At, Steps
    <3> QED
      BY <1>4, <2>1, <3>1 DEF WatchEvent
  <2>2. CASE Finish(m, FALSE, FALSE)
    BY <1>4, <2>2, FinishTypes DEF WatchEvent
  <2> QED
    BY <1>4, <2>1, <2>2 DEF WatchEvent
<1>5. CASE Decorate(m)
  <2>1. /\ nloc' \in [Managers -> NodeCopy]
        /\ step' \in [Managers -> Steps]
        /\ \A n \in Managers : pc'[n] # "work" => step'[n] = "start"
    BY <1>5, FinishTypes DEF Decorate
  <2>2. node' \in NodeCopy /\ node'.ver = "current" /\ ncache' \in [Managers -> NodeCopy]
    BY <1>5, NodeCopyFacts, NodeBecomesTypes DEF Decorate
  <2> QED
    BY <1>5, <2>1, <2>2 DEF Decorate
<1> QED
  BY <1>1, <1>2, <1>3, <1>4, <1>5 DEF launchNode

\* The steps of deprecateNode keep the types.
LEMMA DeprecateTypes ==
  ASSUME TypeOK, LifecycleTypeOK, NEW m \in Managers, deprecateNode(m)
  PROVE  LifecycleTypeOK'
<1> USE DEF LifecycleTypeOK
<1>0. ASSUME NEW s \in Steps, pc[m] = "work", GoTo(m, s)
      PROVE  /\ step' \in [Managers -> Steps]
             /\ \A n \in Managers : pc'[n] # "work" => step'[n] = "start"
  BY <1>0, GoToTypes
<1>1. CASE GetNode(m)
  <2>1. CASE Finish(m, FALSE, TRUE)
    BY <1>1, <2>1, FinishTypes DEF GetNode
  <2>2. CASE nloc' = [nloc EXCEPT ![m] = ncache[m]] /\ \E s \in { "cordon", "disjoin" } : GoTo(m, s)
    <3>1. /\ step' \in [Managers -> Steps]
          /\ \A n \in Managers : pc'[n] # "work" => step'[n] = "start"
      BY <1>0, <1>1, <2>2 DEF GetNode, At, Steps
    <3> QED
      BY <1>1, <2>2, <3>1 DEF GetNode
  <2> QED
    BY <1>1, <2>1, <2>2 DEF GetNode
<1>2. CASE Cordon(m)
  <2>1. node' \in NodeCopy /\ node'.ver = "current" /\ ncache' \in [Managers -> NodeCopy]
    BY <1>2, NodeCopyFacts, NodeBecomesTypes DEF Cordon
  <2>2. /\ nloc' \in [Managers -> NodeCopy]
        /\ step' \in [Managers -> Steps]
        /\ \A n \in Managers : pc'[n] # "work" => step'[n] = "start"
    BY <1>0, <1>2, FinishTypes DEF Cordon, At, Steps
  <2> QED
    BY <1>2, <2>1, <2>2 DEF Cordon
<1>3. CASE Evict(m)
  <2>1. /\ nloc' \in [Managers -> NodeCopy]
        /\ step' \in [Managers -> Steps]
        /\ \A n \in Managers : pc'[n] # "work" => step'[n] = "start"
    BY <1>0, <1>3, FinishTypes DEF Evict, At, Steps
  <2> QED
    BY <1>3, <2>1 DEF Evict
<1>4. CASE Deprecate(m)
  <2>1. /\ step' \in [Managers -> Steps]
        /\ \A n \in Managers : pc'[n] # "work" => step'[n] = "start"
    BY <1>0, <1>4 DEF Deprecate, At, Steps
  <2> QED
    BY <1>4, <2>1 DEF Deprecate
<1>5. CASE DeprecateFails(m)
  BY <1>5, FinishTypes DEF DeprecateFails
<1>6. CASE DeleteNode(m)
  <2>1. node' \in NodeCopy /\ node'.ver = "current" /\ ncache' \in [Managers -> NodeCopy]
    BY <1>6, NodeCopyFacts, NodeBecomesTypes DEF DeleteNode
  <2>2. /\ nloc' \in [Managers -> NodeCopy]
        /\ step' \in [Managers -> Steps]
        /\ \A n \in Managers : pc'[n] # "work" => step'[n] = "start"
    BY <1>6, FinishTypes DEF DeleteNode
  <2> QED
    BY <1>6, <2>1, <2>2 DEF DeleteNode
<1> QED
  BY <1>1, <1>2, <1>3, <1>4, <1>5, <1>6 DEF deprecateNode

\* The cluster's own steps keep the types.
LEMMA ClusterTypes ==
  ASSUME LifecycleTypeOK, Cluster PROVE LifecycleTypeOK'
<1> USE DEF LifecycleTypeOK
<1>1. CASE Register
  BY <1>1, NodeCopyFacts, NodeBecomesTypes DEF Register, vars
<1>2. ASSUME NEW ready \in Ready, Heartbeat(ready) PROVE LifecycleTypeOK'
  BY <1>2, NodeCopyFacts, NodeBecomesTypes DEF Heartbeat, vars
<1>3. CASE Schedule
  BY <1>3 DEF Schedule, vars
<1>4. ASSUME NEW m \in Managers, DeliverNode(m) PROVE LifecycleTypeOK'
  BY <1>4 DEF DeliverNode, vars
<1> QED
  BY <1>1, <1>2, <1>3, <1>4 DEF Cluster

\* Every step of the lifecycle keeps the types; a manager outside of an
\* operation is at none of its steps.
LEMMA LifecycleTypeNext ==
  ASSUME TypeOK, LifecycleTypeOK, [LifecycleNext]_<<vars, nodeVars>>
  PROVE  LifecycleTypeOK'
<1> USE DEF LifecycleTypeOK
<1>1. ASSUME NEW m \in Managers, Reconcile(m) \/ Deliver(m) \/ Resync(m), UNCHANGED nodeVars
      PROVE  LifecycleTypeOK'
  <2>1. \A n \in Managers : pc'[n] # "work" => pc[n] # "work"
    BY <1>1 DEF Reconcile, ReconcileReturn, ReconcileInit, ReconcileFallback, ReconcileRefuse,
                ReconcileUpdate, ReconcileWork, Dequeue, UpdateStatus, Prepare, Finalize,
                FailAttempt, Return, Deliver, Resync, mgr, TypeOK
  <2> QED
    BY <1>1, <2>1 DEF nodeVars
<1>2. ASSUME NEW m \in Managers, CrashAll(m) PROVE LifecycleTypeOK'
  <2>1. \A n \in Managers \ { m } : pc'[n] = pc[n]
    BY <1>2 DEF CrashAll, Crash, TypeOK
  <2> QED
    BY <1>2, <2>1, NodeCopyFacts DEF CrashAll, Steps
<1>3. ASSUME NEW m \in Managers, RestartAll(m) PROVE LifecycleTypeOK'
  <2>1. pc[m] = "down" /\ \A n \in Managers \ { m } : pc'[n] = pc[n]
    BY <1>3 DEF RestartAll, Restart, TypeOK
  <2> QED
    BY <1>3, <2>1 DEF RestartAll
<1>4. ASSUME UserAll \/ (Tick /\ UNCHANGED nodeVars) PROVE LifecycleTypeOK'
  <2>1. pc' = pc
    BY <1>4 DEF UserAll, User, EditSpec, Create, Delete, Tick, mgr
  <2>2. /\ UNCHANGED <<node, ncache, nloc, pods, host, step>>
        /\ decorated' \in BOOLEAN
    BY <1>4 DEF UserAll, NodeCopy, nodeVars
  <2> QED
    BY <2>1, <2>2
<1>5. CASE UNCHANGED <<vars, nodeVars>>
  BY <1>5 DEF vars, nodeVars
<1> QED
  BY <1>1, <1>2, <1>3, <1>4, <1>5, LaunchTypes, DeprecateTypes, ClusterTypes DEF LifecycleNext

\* Every variable of the lifecycle keeps its type; in particular no position
\* in launchNode or deprecateNode survives the end of the operation or the
\* death of the process.
THEOREM LifecycleTypeCorrect == LifecycleSpec => []LifecycleTypeOK
<1>1. ASSUME LifecycleInit PROVE LifecycleTypeOK
  <2>1. node \in NodeCopy /\ node.ver = "current"
    BY <1>1, NodeCopyFacts DEF LifecycleInit, NoNode
  <2>2. ncache \in [Managers -> NodeCopy] /\ nloc \in [Managers -> NodeCopy]
    BY <1>1, NodeCopyFacts DEF LifecycleInit
  <2>3. step \in [Managers -> Steps] /\ \A m \in Managers : step[m] = "start"
    BY <1>1 DEF LifecycleInit, Steps
  <2>4. decorated \in BOOLEAN /\ pods \in BOOLEAN /\ host \in { "out", "joined" }
    BY <1>1 DEF LifecycleInit
  <2> QED
    BY <2>1, <2>2, <2>3, <2>4 DEF LifecycleTypeOK
<1>2. TypeOK /\ LifecycleTypeOK /\ [LifecycleNext]_<<vars, nodeVars>> => LifecycleTypeOK'
  BY LifecycleTypeNext
<1>3. LifecycleSpec => []TypeOK
  BY Refinement, TypeCorrect, PTL DEF ControllerSpec
<1> QED
  BY <1>1, <1>2, <1>3, PTL DEF LifecycleSpec

-----------------------------------------------------------------------------
(***************************************************************************)
(* Deletion of the Node.                                                   *)
(***************************************************************************)

\* Only deprecateNode's last step takes the Node away.
LEMMA DeletionStep ==
  ASSUME LifecycleTypeOK, [LifecycleNext]_<<vars, nodeVars>>, node.exists, ~node'.exists
  PROVE  \E m \in Managers : At(m, NodeInactive, "delete")
<1>1. ASSUME NEW m \in Managers, launchNode(m) PROVE FALSE
  BY <1>1 DEF launchNode, LaunchByCmd, LaunchFails, WatchCached, WatchEvent, Decorate,
              NodeBecomes, LifecycleTypeOK, NodeCopy
<1>2. ASSUME NEW m \in Managers, GetNode(m) \/ Cordon(m) \/ Evict(m) \/ Deprecate(m)
                                   \/ DeprecateFails(m)
      PROVE  FALSE
  BY <1>2 DEF GetNode, Cordon, Evict, Deprecate, DeprecateFails, NodeBecomes,
              LifecycleTypeOK, NodeCopy
<1>3. ASSUME Cluster PROVE FALSE
  BY <1>3 DEF Cluster, Register, Heartbeat, Schedule, DeliverNode, NodeBecomes,
              LifecycleTypeOK, NodeCopy
<1>4. ASSUME node' = node PROVE FALSE
  BY <1>4
<1>5. ASSUME NEW m \in Managers, DeleteNode(m) PROVE At(m, NodeInactive, "delete")
  BY <1>5 DEF DeleteNode
<1> QED
  BY <1>1, <1>2, <1>3, <1>4, <1>5 DEF LifecycleNext, deprecateNode, CrashAll, RestartAll, UserAll,
                                       nodeVars

=============================================================================
